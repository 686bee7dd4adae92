---------------------------- MODULE MediaTransfer ----------------------------
(***************************************************************************)
(* One transfer of a video between a customer's devices: the rows of       *)
(* lib/transfers.ts, the routes under app/api/transfers and the multipart  *)
(* upload in R2.  Parts arrive in any order and more than once; the        *)
(* completion, the customer's deletion and the clean-up of expired rows    *)
(* each read the row, act on R2 and write the row, and may overlap.        *)
(***************************************************************************)
EXTENDS Integers, FiniteSets

CONSTANTS
    Parts,
    Workers,      \* requests being served
    MaxRequests,  \* bound of the model: requests of the whole transfer
    MaxDeaths     \* bound of the model: requests that end half way

VARIABLES
    row,       \* video_transfers.status
    lapsed,    \* its 72 hours have passed
    claim,     \* video_transfer_parts
    upload,    \* the multipart upload in R2
    stored,    \* etag of each part in R2
    object,    \* the object: the etags it was joined from
    serving,   \* what each request is at
    unwanted,  \* history: somebody asked for the removal
    crossed,   \* history: a removal that read "uploading" met a joined object
    requests, deaths

fvars == <<row, lapsed, claim, upload, stored, object, serving, unwanted, crossed, requests, deaths>>
rest == <<unwanted, crossed, requests, deaths>>

NoClaim == [taken |-> FALSE, etag |-> 0, old |-> FALSE]
NoObject == [exists |-> FALSE, of |-> [p \in Parts |-> 0]]
Free == [at |-> "idle", part |-> 0, seen |-> "none", etags |-> [p \in Parts |-> 0]]

\* POST init leaves the row, and the upload open in R2.
Init ==
    /\ row = "uploading" /\ lapsed = FALSE
    /\ claim = [p \in Parts |-> NoClaim]
    /\ upload = "open"
    /\ stored = [p \in Parts |-> 0]
    /\ object = NoObject
    /\ serving = [w \in Workers |-> Free]
    /\ unwanted = FALSE /\ crossed = FALSE
    /\ requests = 0 /\ deaths = 0

At(w, place) == serving[w].at = place
Goto(w, place) == serving' = [serving EXCEPT ![w].at = place]
End(w) == serving' = [serving EXCEPT ![w] = Free]
Begin(w, r) ==
    /\ At(w, "idle") /\ requests < MaxRequests
    /\ requests' = requests + 1
    /\ serving' = [serving EXCEPT ![w] = r]

-------------------------------------------------------------------------------
(* PUT part.                                                                *)

PutPart(w, p) ==
    /\ row = "uploading" /\ ~lapsed
    /\ Begin(w, [Free EXCEPT !.at = "claim", !.part = p])
    /\ UNCHANGED <<row, lapsed, claim, upload, stored, object, unwanted, crossed, deaths>>

\* A claim without an etag may be taken over after five minutes.
Claim(w) ==
    LET p == serving[w].part IN
    /\ At(w, "claim")
    /\ IF ~claim[p].taken \/ (claim[p].etag = 0 /\ claim[p].old)
         THEN /\ claim' = [claim EXCEPT ![p] = [taken |-> TRUE, etag |-> 0, old |-> FALSE]]
              /\ Goto(w, "store")
         ELSE End(w) /\ UNCHANGED claim
    /\ UNCHANGED <<row, lapsed, upload, stored, object, rest>>

ClaimAges(p) ==
    /\ claim[p].taken /\ claim[p].etag = 0 /\ ~claim[p].old
    /\ claim' = [claim EXCEPT ![p].old = TRUE]
    /\ UNCHANGED <<row, lapsed, upload, stored, object, serving, rest>>

\* Whoever holds it, a claim without an etag is dropped.
Unclaim(p) == claim' = [claim EXCEPT ![p] = IF @.etag = 0 THEN NoClaim ELSE @]

\* R2 keeps the bytes it got last; their etag is the number of the request.
StorePart(w) ==
    LET p == serving[w].part IN
    /\ At(w, "store")
    /\ \/ /\ upload = "open"
          /\ stored' = [stored EXCEPT ![p] = requests]
          /\ serving' = [serving EXCEPT ![w].at = "record", ![w].etags[p] = requests]
          /\ UNCHANGED claim
       \/ Unclaim(p) /\ End(w) /\ UNCHANGED stored
    /\ UNCHANGED <<row, lapsed, upload, object, rest>>

\* finishTransferPart: only the first to finish records its etag.  When it
\* fails the claim is dropped, and the bytes stay in R2.
RecordPart(w) ==
    LET p == serving[w].part IN
    /\ At(w, "record")
    /\ \/ claim' = [claim EXCEPT ![p].etag = IF claim[p].taken /\ @ = 0 THEN serving[w].etags[p] ELSE @]
       \/ Unclaim(p)
    /\ End(w)
    /\ UNCHANGED <<row, lapsed, upload, stored, object, rest>>

-------------------------------------------------------------------------------
(* POST complete.                                                           *)

\* Mutant: a part that is still being received counts.
AllClaimed == \A p \in Parts : claim[p].taken

\* The receipts have to be the recorded parts, all of them.
AllRecorded == \A p \in Parts : claim[p].etag # 0

Complete(w) ==
    /\ row = "uploading" /\ ~lapsed /\ AllRecorded
    /\ Begin(w, [Free EXCEPT !.at = "join", !.etags = [p \in Parts |-> claim[p].etag]])
    /\ UNCHANGED <<row, lapsed, claim, upload, stored, object, unwanted, crossed, deaths>>

\* R2 joins the parts whose etags it is given.
Join(w) ==
    /\ At(w, "join")
    /\ IF upload = "open" /\ stored = serving[w].etags
         THEN /\ upload' = "joined"
              /\ object' = [exists |-> TRUE, of |-> stored]
              /\ Goto(w, "inspect")
         ELSE End(w) /\ UNCHANGED <<upload, object>>
    /\ UNCHANGED <<row, lapsed, claim, stored, rest>>

Inspect(w) ==
    /\ At(w, "inspect")
    /\ IF object.exists THEN Goto(w, "publish") /\ UNCHANGED row ELSE End(w) /\ row' = "deleted"
    /\ UNCHANGED <<lapsed, claim, upload, stored, object, rest>>

\* The update names the row by its id alone.
Publish(w) ==
    /\ At(w, "publish")
    /\ row' = "complete"
    /\ End(w)
    /\ UNCHANGED <<lapsed, claim, upload, stored, object, rest>>

-------------------------------------------------------------------------------
(* removeTransfer: on DELETE; on a download after the 72 hours; and by the  *)
(* clean-up that init and complete of any transfer do.                      *)

Lapse ==
    /\ ~lapsed /\ lapsed' = TRUE
    /\ UNCHANGED <<row, claim, upload, stored, object, serving, rest>>

BeginRemoval(w) ==
    /\ row # "deleted"
    /\ Begin(w, [Free EXCEPT !.at = "erase", !.seen = row])
    /\ unwanted' = TRUE
    /\ UNCHANGED <<row, lapsed, claim, upload, stored, object, crossed, deaths>>

Remove(w) == BeginRemoval(w)
Download(w) == lapsed /\ row = "complete" /\ BeginRemoval(w)
CleanUp(w) == lapsed /\ BeginRemoval(w)

\* Mutant: the bytes of a finished transfer are left to the bucket's rules.
SeenAsUploadingOnly(w) == FALSE
SeenComplete(w) == serving[w].seen = "complete"

\* The abort of an upload that was joined meanwhile fails and is ignored.
Erase(w) ==
    /\ At(w, "erase")
    /\ upload' = IF serving[w].seen = "uploading" /\ upload = "open" THEN "aborted" ELSE upload
    /\ object' = IF SeenComplete(w) THEN NoObject ELSE object
    /\ crossed' = (crossed \/ (serving[w].seen = "uploading" /\ upload = "joined"))
    /\ Goto(w, "bury")
    /\ UNCHANGED <<row, lapsed, claim, stored, unwanted, requests, deaths>>

Bury(w) ==
    /\ At(w, "bury")
    /\ row' = "deleted"
    /\ claim' = [p \in Parts |-> NoClaim]
    /\ End(w)
    /\ UNCHANGED <<lapsed, upload, stored, object, rest>>

Dies(w) ==
    /\ ~At(w, "idle") /\ deaths < MaxDeaths
    /\ deaths' = deaths + 1
    /\ End(w)
    /\ UNCHANGED <<row, lapsed, claim, upload, stored, object, unwanted, crossed, requests>>

-------------------------------------------------------------------------------
Next ==
    \/ \E w \in Workers :
          \/ \E p \in Parts : PutPart(w, p)
          \/ Claim(w) \/ StorePart(w) \/ RecordPart(w)
          \/ Complete(w) \/ Join(w) \/ Inspect(w) \/ Publish(w)
          \/ Remove(w) \/ Download(w) \/ CleanUp(w) \/ Erase(w) \/ Bury(w) \/ Dies(w)
    \/ \E p \in Parts : ClaimAges(p)
    \/ Lapse

Spec == Init /\ [][Next]_fvars

-------------------------------------------------------------------------------
TypeOK ==
    /\ row \in {"uploading", "complete", "deleted"}
    /\ upload \in {"open", "joined", "aborted"}
    /\ \A p \in Parts : ~claim[p].taken => claim[p] = NoClaim
    /\ object.exists => upload = "joined"

\* What a customer can download is the whole video, of the parts the server
\* recorded, and stays there until somebody asks for its removal.
CompleteIsWhole ==
    /\ object.exists => \A p \in Parts : object.of[p] # 0
    /\ row = "complete" /\ ~unwanted =>
          /\ object.exists
          /\ \A p \in Parts : object.of[p] = claim[p].etag

\* A removed transfer leaves no bytes in R2, save when its completion was
\* joining them while the removal took it for an upload.
RemovedLeavesNothing ==
    row = "deleted" /\ (\A w \in Workers : At(w, "idle")) /\ deaths = 0 /\ ~crossed
        => ~object.exists /\ upload # "open"
-------------------------------------------------------------------------------
(* What every step keeps.                                                   *)

Steps == {"idle", "claim", "store", "record", "join", "inspect", "publish", "erase", "bury"}

Request ==
    [at : Steps, part : Parts \cup {0}, etags : [Parts -> Nat], seen : {"none", "uploading", "complete"}]

Kinds ==
    /\ TypeOK
    /\ requests \in Nat
    /\ claim \in [Parts -> [taken : BOOLEAN, etag : Nat, old : BOOLEAN]]
    /\ stored \in [Parts -> Nat]
    /\ object \in [exists : BOOLEAN, of : [Parts -> Nat]]
    /\ serving \in [Workers -> Request]
    /\ <<unwanted, crossed>> \in BOOLEAN \X BOOLEAN

\* A request under way has a number, and one with a part has the part.
HasItsPart(s) ==
    /\ s.at # "idle" => requests > 0
    /\ s.at \in {"claim", "store", "record"} => s.part \in Parts

\* The etags a completion was given are those recorded, until a removal.
JoinsTheRecorded(s) ==
    /\ s.at = "join" => \A p \in Parts : s.etags[p] # 0 /\ (~unwanted => claim[p].etag = s.etags[p])
    /\ s.at \in {"inspect", "publish"} => upload = "joined"

\* Nothing can be joined any more once a removal aborted or erased.
RemovesWhatItSaw(s) ==
    /\ s.at \in {"erase", "bury"} => unwanted
    /\ s.at = "erase" => s.seen # "none" /\ (s.seen = "complete" => upload = "joined")
    /\ s.at = "bury" /\ ~crossed => ~object.exists /\ upload # "open"

Sound(s) == HasItsPart(s) /\ JoinsTheRecorded(s) /\ RemovesWhatItSaw(s)

JoinedIsRecorded ==
    /\ row = "complete" => upload = "joined"
    /\ object.exists => \A p \in Parts : object.of[p] # 0
    /\ upload = "joined" /\ ~unwanted =>
          object.exists /\ \A p \in Parts : object.of[p] = claim[p].etag /\ claim[p].etag # 0

GoneLeavesNothing == row = "deleted" /\ ~crossed => ~object.exists /\ upload # "open"

TransferIInv ==
    /\ Kinds
    /\ \A w \in Workers : Sound(serving[w])
    /\ JoinedIsRecorded
    /\ GoneLeavesNothing
===============================================================================
