----------------------------- MODULE EditingPage ------------------------------
(***************************************************************************)
(* The editing page, Home and ResultWorkspace of app/page.tsx: runs that   *)
(* transcribe or narrate a video, the usage reservation the page holds for *)
(* its current video, later changes of the narration, the check after a    *)
(* purchase, and the export that confirms the reservation.  Everything is  *)
(* asynchronous and the person may choose another video, start again or    *)
(* leave between any two steps; a generation number and abort signals tell *)
(* a superseded run to stop.                                               *)
(*                                                                         *)
(* Some places let go of a reservation that is still held, or write after  *)
(* being superseded; the ghosts forgotten and late record them.            *)
(***************************************************************************)
EXTENDS Integers, Sequences, FiniteSets

CONSTANTS
    RunSlots,      \* bound of the model: runs of an earlier generation still ending
    MaxGen,        \* bound of the model: generations
    MaxReserved,   \* bound of the model: reservations
    MaxLost,       \* bound of the model: calls lost, failed, refused
    MaxChoices     \* bound of the model: silent choices under way at once

VARIABLES
    server,     \* reservations: bucket, status
    page,       \* refs of Home and what it shows
    run,        \* startEditing, startNarrationEditing
    change,     \* regenerateNarration, updateNarrationCutMode
    access,     \* checkPaidExportAccess
    export,     \* exportCaptionedVideo
    releasing,  \* releases under way
    lost,
    forgotten,  \* ghost: reservations nothing refers to any more
    late,       \* ghost: what wrote although superseded
    delivered,  \* reservations whose finished video was handed over
    silent      \* chooseSilentNarrationMode, finishSilentVideoWithoutCaptions

evars == <<server, page, run, change, access, export, releasing, lost, forgotten, late, delivered, silent>>

Idle == [pc |-> "idle"]

Init ==
    /\ server = <<>>
    /\ page = [stage |-> "start", gen |-> 0, file |-> 0, ref |-> 0, pending |-> FALSE, finalizing |-> FALSE,
               transcript |-> 0, audio |-> 0, returning |-> FALSE, fallback |-> FALSE]
    /\ run = [i \in RunSlots |-> Idle]
    /\ change = Idle /\ access = Idle /\ export = Idle
    /\ releasing = {} /\ lost = 0 /\ forgotten = {} /\ late = {} /\ delivered = {}
    /\ silent = [k \in {"narration", "result"} |-> Idle]

Ghosts == <<forgotten, late, delivered>>
Sides == <<change, access, export>>
Held(id) == id # 0 /\ server[id].status = "held"
Paid(id) == id # 0 /\ server[id].bucket = "paid"
Show(next) == page' = next
Lose == lost < MaxLost /\ lost' = lost + 1

\* The server: reserve, complete, release (its own model is UsageReservation).
Reserved(bucket) ==
    /\ Len(server) < MaxReserved
    /\ server' = Append(server, [bucket |-> bucket, status |-> "held"])

Becomes(id, status) ==
    server' = IF Held(id) THEN [server EXCEPT ![id].status = status] ELSE server

\* rememberUsageReservation
Remember(shown, id, pending) == [shown EXCEPT !.ref = id, !.pending = pending, !.finalizing = FALSE]
\* What overwriting the page's reservation loses sight of.
Overwritten(id) == IF Held(page.ref) /\ page.ref # id THEN {page.ref} ELSE {}

Abort(o) == IF o.pc = "idle" THEN o ELSE [o EXCEPT !.aborted = TRUE]
IsCurrent(o) == o.gen = page.gen /\ ~o.aborted
Busy == \E o \in {change, export} : o.pc # "idle" /\ o.gen = page.gen

-------------------------------------------------------------------------------
(* The person.                                                              *)

\* Mutant: released although its confirmation is under way.
ReleasePendingAlways ==
    releasing' = IF page.pending /\ page.ref # 0 THEN releasing \cup {page.ref} ELSE releasing
\* Mutant: what the page holds is dropped without a release.
ReleasePendingNever == UNCHANGED releasing

\* releasePendingExportReservation
ReleasePending ==
    releasing' = IF page.pending /\ ~page.finalizing /\ page.ref # 0 THEN releasing \cup {page.ref} ELSE releasing

Supersede ==
    /\ page.gen < MaxGen
    /\ run' = [i \in RunSlots |-> Abort(run[i])]
    /\ change' = Abort(change)
    /\ export' = IF page.finalizing THEN export ELSE Abort(export)
    /\ ReleasePending
    /\ forgotten' = forgotten \cup (IF page.finalizing THEN Overwritten(0) \ {export.rid} ELSE {})
    /\ UNCHANGED <<server, access, lost, late, delivered>>

\* What waits for an answer goes on, unless the page is left.
Waits == UNCHANGED silent

\* The video's length is read first, so this may come at any stage.
ChooseFile ==
    /\ page.stage # "gone"
    /\ Supersede
    /\ Show(Remember([page EXCEPT !.stage = "setup", !.gen = @ + 1, !.file = page.gen + 1, !.audio = 0,
                                  !.fallback = FALSE], 0, FALSE))
    /\ Waits

Reset ==
    /\ page.stage \in {"setup", "processing", "result"}
    /\ Supersede
    /\ Show(Remember([page EXCEPT !.stage = "start", !.gen = @ + 1, !.file = 0, !.audio = 0, !.transcript = 0,
                                  !.returning = FALSE, !.fallback = FALSE], 0, FALSE))
    /\ Waits

\* pagehide without return; what runs hold dies with the page.
Leave ==
    /\ page.stage # "gone"
    /\ Supersede
    /\ Show(Remember([page EXCEPT !.stage = "gone", !.gen = @ + 1, !.file = 0, !.audio = 0, !.transcript = 0,
                                  !.fallback = FALSE], 0, FALSE))
    /\ silent' = [k \in {"narration", "result"} |-> Idle]

CheckoutStarted ==
    /\ page.stage = "result" /\ ~Paid(page.ref) /\ ~page.returning
    /\ Show([page EXCEPT !.returning = TRUE])
    /\ UNCHANGED <<server, run, Sides, releasing, lost, Ghosts, silent>>

-------------------------------------------------------------------------------
(* Runs.                                                                    *)

Put(i, next) == run' = [run EXCEPT ![i] = next]
End(i) == run' = [run EXCEPT ![i] = Idle]
Quiet == UNCHANGED <<Sides, releasing, late, delivered, silent>>

\* Spoken: renew what the page holds if the audio is to be analysed, else
\* reserve.  Narration always reserves.  A video found to be silent has only
\* the two ways on that its panel shows.
StartRun(i, kind, analyse) ==
    LET first == IF kind = "narration" \/ page.ref = 0 THEN "reserve"
                 ELSE IF analyse THEN "renew" ELSE "work"
    IN
    /\ page.gen < MaxGen
    /\ page.file # 0 /\ ~Busy /\ run[i].pc = "idle"
    /\ page.stage \in (IF kind = "spoken" THEN {"setup", "result"} ELSE {"setup"})
    /\ page.stage = "setup" => ~page.fallback
    /\ run' = [j \in RunSlots |->
                 IF j # i THEN Abort(run[j])
                 ELSE [pc |-> first, kind |-> kind, gen |-> page.gen + 1, file |-> page.file, own |-> 0,
                       rid |-> IF kind = "spoken" THEN page.ref ELSE 0, pending |-> page.pending,
                       aborted |-> FALSE]]
    /\ Show([page EXCEPT !.stage = "processing", !.gen = @ + 1])
    /\ UNCHANGED <<server, lost, forgotten>> /\ Quiet

\* catch: a reservation made by this run is released, then the setup again.
Throw(i, own) ==
    IF own # 0
      THEN Put(i, [run[i] EXCEPT !.pc = "release", !.own = own]) /\ UNCHANGED page
      ELSE /\ End(i)
           /\ IF IsCurrent(run[i]) THEN Show([page EXCEPT !.stage = "setup"]) ELSE UNCHANGED page

\* What a renewal holds, although no confirmation or release is to come.
TakenUp(r) ==
    IF ~r.pending /\ (server[r.rid].status = "released" \/ (page.pending /\ page.ref = r.rid)) THEN {r.rid} ELSE {}

\* A renewal may also resume a released row and move it to a paid bucket.
Renew(i) ==
    /\ run[i].pc = "renew"
    /\ \/ /\ ~run[i].aborted
          /\ \E b \in {server[run[i].rid].bucket, "paid"} :
                server' = [server EXCEPT ![run[i].rid] =
                             [bucket |-> b, status |-> IF @.status = "completed" THEN @.status ELSE "held"]]
          /\ Put(i, [run[i] EXCEPT !.pc = "work"])
          /\ Show(Remember(page, run[i].rid, run[i].pending))
          /\ forgotten' = forgotten \cup Overwritten(run[i].rid) \cup TakenUp(run[i])
          /\ UNCHANGED lost
       \/ \* 404: the account is another one now.
          /\ ~run[i].aborted
          /\ Lose
          /\ Put(i, [run[i] EXCEPT !.pc = "reserve", !.rid = 0])
          /\ Show(Remember(page, 0, FALSE))
          /\ forgotten' = forgotten \cup Overwritten(0)
          /\ UNCHANGED server
       \/ /\ run[i].aborted \/ lost < MaxLost
          /\ lost' = IF run[i].aborted THEN lost ELSE lost + 1
          /\ Throw(i, 0)
          /\ UNCHANGED <<server, forgotten>>
    /\ Quiet

\* reserveVideoUsage; an abort may lose the answer to what was reserved.
Reserve(i) ==
    /\ run[i].pc = "reserve"
    /\ \/ \E b \in {"free", "paid"} :
             /\ Reserved(b)
             /\ Put(i, [run[i] EXCEPT !.pc = "reserved", !.rid = Len(server) + 1])
             /\ UNCHANGED <<page, lost>>
       \/ /\ run[i].aborted \/ lost < MaxLost
          /\ lost' = IF run[i].aborted THEN lost ELSE lost + 1
          /\ Throw(i, 0)
          /\ UNCHANGED server
    /\ UNCHANGED forgotten /\ Quiet

ReserveAnswers(i) ==
    /\ run[i].pc = "reserved"
    /\ \/ /\ ~run[i].aborted
          /\ Put(i, [run[i] EXCEPT !.pc = "work", !.own = run[i].rid])
          /\ Show(Remember(page, run[i].rid, FALSE))
          /\ forgotten' = forgotten \cup Overwritten(run[i].rid)
       \/ run[i].aborted /\ Throw(i, run[i].rid) /\ UNCHANGED forgotten
       \/ run[i].aborted /\ Throw(i, 0) /\ forgotten' = forgotten \cup {run[i].rid}
    /\ UNCHANGED <<server, lost>> /\ Quiet

\* Transcription, or script and speech.  A video without speech goes back to
\* the setup with the reservation kept for the export.
Work(i) ==
    /\ run[i].pc = "work"
    /\ \/ Put(i, [run[i] EXCEPT !.pc = "finish"]) /\ UNCHANGED <<page, lost>>
       \/ /\ run[i].kind = "spoken" /\ IsCurrent(run[i])
          /\ Show([page EXCEPT !.stage = "setup", !.pending = TRUE, !.fallback = TRUE])
          /\ End(i) /\ UNCHANGED lost
       \/ /\ run[i].aborted \/ lost < MaxLost
          /\ lost' = IF run[i].aborted THEN lost ELSE lost + 1
          /\ Throw(i, run[i].own)
    /\ UNCHANGED <<server, forgotten>> /\ Quiet

\* Spoken runs ask throwIfProcessingAborted right before they write;
\* snapNarrationTimelineToAudioSilence asks before it closes its audio context.
StopsWhenAborted(i) == run[i].aborted /\ run[i].kind = "spoken"

\* Write the result, settleVideoUsageAfterProcessing.
Finish(i) ==
    LET r == run[i]
        settles == IsCurrent(r) /\ r.rid # 0 /\ page.ref = r.rid
        shown == [page EXCEPT !.transcript = r.file, !.audio = IF r.kind = "narration" THEN r.file ELSE @]
    IN
    /\ r.pc = "finish"
    /\ \/ /\ r.aborted /\ Throw(i, r.own)
          /\ UNCHANGED <<forgotten, late>>
       \/ /\ ~StopsWhenAborted(i)
          /\ late' = IF IsCurrent(r) THEN late ELSE late \cup {r.kind}
          /\ Show([shown EXCEPT !.pending = @ \/ (settles /\ Paid(r.rid))])
          /\ IF settles /\ ~Paid(r.rid) THEN Put(i, [r EXCEPT !.pc = "settle"])
             ELSE IF IsCurrent(r) THEN Put(i, [r EXCEPT !.pc = "timer"]) ELSE End(i)
          /\ forgotten' = forgotten \cup (IF IsCurrent(r) THEN {} ELSE {r.own} \ {0})
    /\ UNCHANGED <<server, lost, Sides, releasing, delivered, silent>>

\* A free trial is used up by its preview; a failed call is not repeated.
Settle(i) ==
    /\ run[i].pc = "settle"
    /\ \/ Becomes(run[i].rid, "completed") /\ UNCHANGED <<lost, forgotten>>
       \/ Lose /\ forgotten' = forgotten \cup {run[i].rid} /\ UNCHANGED server
    /\ Put(i, [run[i] EXCEPT !.pc = "timer"])
    /\ Show([page EXCEPT !.pending = @ /\ page.ref # run[i].rid])
    /\ Quiet

Result(i) ==
    /\ run[i].pc = "timer"
    /\ End(i)
    /\ IF IsCurrent(run[i]) THEN Show([page EXCEPT !.stage = "result"]) ELSE UNCHANGED page
    /\ UNCHANGED <<server, lost, forgotten>> /\ Quiet

ReleaseOwn(i) ==
    LET r == run[i]
        shown == IF IsCurrent(r) THEN [page EXCEPT !.stage = "setup"] ELSE page
    IN
    /\ r.pc = "release"
    /\ \/ Becomes(r.own, "released") /\ UNCHANGED <<lost, forgotten>>
       \/ Lose /\ forgotten' = forgotten \cup {r.own} /\ UNCHANGED server
    /\ End(i)
    /\ Show(IF page.ref = r.own THEN Remember(shown, 0, FALSE) ELSE shown)
    /\ Quiet

\* The panel of a silent video offers two ways on.  Neither looks at the
\* generation after its request, and both stay offered while one is under way;
\* a second click on the same one is left out.
Asked == [pc |-> "asked", ref |-> page.ref, gen |-> page.gen]
OffersChoice(k) ==
    /\ page.stage = "setup" /\ page.fallback
    /\ silent[k] = Idle /\ Cardinality({j \in {"narration", "result"} : silent[j] # Idle}) < MaxChoices
\* Both were chosen for the video that is shown.
Crossing(other) == silent[other] # Idle /\ silent[other].gen = page.gen
Strays(so) == late' = IF so THEN late \cup {"silent"} ELSE late

\* chooseSilentNarrationMode: release, and narrate instead.
Narrating == Remember([page EXCEPT !.fallback = FALSE], 0, FALSE)

SilentNarration ==
    /\ OffersChoice("narration")
    /\ releasing' = releasing \cup ({page.ref} \ {0})
    /\ IF page.ref = 0 THEN Show(Narrating) /\ UNCHANGED silent
                       ELSE silent' = [silent EXCEPT !["narration"] = Asked] /\ UNCHANGED page
    /\ Strays(Crossing("result"))
    /\ UNCHANGED <<server, run, Sides, lost, forgotten, delivered>>

\* Answered, or not: then a beacon repeats the release and nobody waits for it.
\* What the page holds by now goes, whatever it is.
SilentNarrationAnswered ==
    LET asked == silent["narration"] IN
    /\ asked # Idle
    /\ Show(Narrating)
    /\ forgotten' = forgotten \cup (Overwritten(0) \ releasing)
    /\ Strays(page.ref \notin {0, asked.ref})
    /\ silent' = [silent EXCEPT !["narration"] = Idle]
    /\ UNCHANGED <<server, run, Sides, releasing, lost, delivered>>

\* finishSilentVideoWithoutCaptions: a free trial is used up by its preview.
Unheard == [page EXCEPT !.stage = "result", !.transcript = 0, !.fallback = FALSE]

SilentResult ==
    /\ OffersChoice("result")
    /\ IF page.ref = 0 THEN Show(Unheard) /\ UNCHANGED silent
       ELSE IF Paid(page.ref) THEN Show([Unheard EXCEPT !.pending = TRUE]) /\ UNCHANGED silent
       ELSE silent' = [silent EXCEPT !["result"] = Asked] /\ UNCHANGED page
    /\ Strays(Crossing("narration"))
    /\ UNCHANGED <<server, run, Sides, releasing, lost, forgotten, delivered>>

\* The result is shown, whatever the page shows by now.
SilentResultAnswered ==
    LET asked == silent["result"] IN
    /\ asked # Idle
    /\ \/ Becomes(asked.ref, "completed") /\ UNCHANGED <<lost, forgotten>>
       \/ Lose /\ forgotten' = forgotten \cup {asked.ref} /\ UNCHANGED server
    /\ Show([Unheard EXCEPT !.pending = @ /\ page.ref # asked.ref])
    /\ Strays(page.gen # asked.gen)
    /\ silent' = [silent EXCEPT !["result"] = Idle]
    /\ UNCHANGED <<run, Sides, releasing, delivered>>

ReleaseArrives(id) ==
    /\ releasing' = releasing \ {id}
    /\ \/ Becomes(id, "released") /\ UNCHANGED <<lost, forgotten>>
       \/ Lose /\ forgotten' = forgotten \cup {id} /\ UNCHANGED server
    /\ UNCHANGED <<page, run, Sides, late, delivered, silent>>

-------------------------------------------------------------------------------
(* Changes of the narration.                                                *)

Others == UNCHANGED <<server, run, access, releasing, lost, forgotten, delivered, silent>>

\* What a change remembers from its start on.
Changing(kind) == [pc |-> "work", kind |-> kind, gen |-> page.gen, file |-> page.file, aborted |-> FALSE]

StartChange(kind) ==
    /\ page.stage = "result" /\ page.audio # 0 /\ ~Busy /\ change.pc = "idle"
    /\ change' = Changing(kind)
    /\ UNCHANGED <<page, export, late>> /\ Others

\* A new voice is refused once superseded, until its last wait; a correction
\* of a sentence is applied by a click on what is shown; the cut mode asks
\* nothing.
Superseded == change.gen # page.gen \/ change.aborted
WritesLate == change.kind \in {"voice", "cut"}

\* Mutant: a correction is applied to whatever is shown now.
AppliesAlways == TRUE
Applies == WritesLate \/ ~Superseded

EndChange ==
    /\ change.pc = "work"
    /\ change' = Idle
    /\ \/ UNCHANGED <<page, late>>
       \/ /\ Applies
          /\ Show([page EXCEPT !.transcript = change.file, !.audio = IF change.kind = "cut" THEN @ ELSE change.file])
          /\ late' = IF Superseded /\ WritesLate THEN late \cup {change.kind} ELSE late
    /\ UNCHANGED export /\ Others

-------------------------------------------------------------------------------
(* After a purchase.                                                        *)

StartAccess ==
    /\ page.stage = "result" /\ page.file # 0 /\ access.pc = "idle"
    /\ ~Paid(page.ref) \/ page.returning
    /\ access' = [pc |-> "reserve", gen |-> page.gen, rid |-> 0]
    /\ UNCHANGED <<server, page, run, change, export, releasing, lost, Ghosts, silent>>

AccessReserves ==
    /\ access.pc = "reserve"
    /\ \/ /\ \E b \in {"free", "paid"} : Reserved(b)
          /\ access' = [access EXCEPT !.pc = "answered", !.rid = Len(server) + 1]
          /\ UNCHANGED <<page, lost>>
       \/ /\ Lose
          /\ access' = Idle
          /\ IF access.gen = page.gen THEN Show([page EXCEPT !.returning = FALSE]) ELSE UNCHANGED page
          /\ UNCHANGED server
    /\ UNCHANGED <<run, change, export, releasing, Ghosts, silent>>

AccessAnswers ==
    /\ access.pc = "answered"
    /\ access' = Idle
    /\ IF access.gen = page.gen /\ Paid(access.rid)
         THEN /\ Show(Remember([page EXCEPT !.returning = FALSE], access.rid, TRUE))
              /\ forgotten' = forgotten \cup Overwritten(access.rid)
              /\ UNCHANGED releasing
         ELSE /\ releasing' = releasing \cup {access.rid}
              /\ IF access.gen = page.gen THEN Show([page EXCEPT !.returning = FALSE]) ELSE UNCHANGED page
              /\ UNCHANGED forgotten
    /\ UNCHANGED <<server, run, change, export, lost, late, delivered, silent>>

-------------------------------------------------------------------------------
(* Export.  It works with what the page held when it was started.           *)

EndExport == export' = Idle
Exporting == UNCHANGED <<run, change, access, releasing, forgotten, silent>>

StartExport ==
    /\ page.stage = "result" /\ Paid(page.ref) /\ ~Busy /\ export.pc = "idle"
    /\ export' = [pc |-> IF page.pending THEN "renew" ELSE "encode", gen |-> page.gen, aborted |-> FALSE,
                  ref |-> page.ref, rid |-> IF page.pending THEN page.ref ELSE 0]
    /\ UNCHANGED <<server, page, lost, late, delivered>> /\ Exporting

\* renewVideoUsage without resuming: only of a reservation still held.
ExportRenews ==
    /\ export.pc = "renew"
    /\ IF Held(export.rid) /\ ~export.aborted THEN export' = [export EXCEPT !.pc = "encode"] ELSE EndExport
    /\ UNCHANGED <<server, page, lost, late, delivered>> /\ Exporting

\* Encode, inspect, then completePendingExportReservation.
Encode ==
    /\ export.pc = "encode"
    /\ \/ /\ ~export.aborted
          /\ export' = [export EXCEPT !.pc = IF export.rid = 0 THEN "deliver" ELSE "complete"]
          /\ IF export.rid = 0 THEN UNCHANGED page ELSE Show([page EXCEPT !.finalizing = TRUE])
          /\ UNCHANGED lost
       \/ /\ export.aborted \/ lost < MaxLost
          /\ lost' = IF export.aborted THEN lost ELSE lost + 1
          /\ EndExport /\ UNCHANGED page
    /\ UNCHANGED <<server, late, delivered>> /\ Exporting

Complete ==
    /\ export.pc = "complete"
    /\ Becomes(export.rid, "completed")
    /\ export' = [export EXCEPT !.pc = "completed"]
    /\ UNCHANGED <<page, lost, late, delivered>> /\ Exporting

\* Answered, or not: then once more with the browser's recorder.
Completed ==
    /\ export.pc = "completed"
    /\ \/ /\ server[export.rid].status = "completed"
          /\ Show([page EXCEPT !.finalizing = FALSE, !.pending = FALSE])
          /\ late' = IF page.pending /\ page.ref # export.rid THEN late \cup {"export"} ELSE late
          /\ forgotten' = forgotten \cup Overwritten(export.rid)
          /\ export' = [export EXCEPT !.pc = "deliver"]
          /\ UNCHANGED lost
       \/ /\ Lose
          /\ Show([page EXCEPT !.finalizing = FALSE])
          /\ export' = [export EXCEPT !.pc = "encode"] \/ EndExport
          /\ UNCHANGED <<late, forgotten>>
    /\ UNCHANGED <<server, delivered, run, change, access, releasing, silent>>

Deliver ==
    /\ export.pc = "deliver"
    /\ delivered' = delivered \cup {export.ref}
    /\ EndExport
    /\ UNCHANGED <<server, page, lost, late>> /\ Exporting

\* cancelVideoExport, cancelPendingExportReservation
CancelExport ==
    /\ export.pc \in {"renew", "encode"} /\ export.gen = page.gen /\ ~page.finalizing
    /\ export' = Abort(export)
    /\ IF page.pending /\ page.ref # 0
         THEN Show(Remember(page, 0, FALSE)) /\ releasing' = releasing \cup {page.ref}
         ELSE UNCHANGED <<page, releasing>>
    /\ UNCHANGED <<server, run, change, access, lost, Ghosts, silent>>

-------------------------------------------------------------------------------
RunStep(i) ==
    \/ Renew(i) \/ Reserve(i) \/ ReserveAnswers(i) \/ Work(i) \/ Finish(i) \/ Settle(i) \/ Result(i) \/ ReleaseOwn(i)

Next ==
    \/ ChooseFile \/ Reset \/ Leave \/ CheckoutStarted
    \/ \E i \in RunSlots :
          RunStep(i) \/ (\E k \in {"spoken", "narration"}, a \in BOOLEAN : StartRun(i, k, a))
    \/ SilentNarration \/ SilentNarrationAnswered \/ SilentResult \/ SilentResultAnswered
    \/ \E id \in releasing : ReleaseArrives(id)
    \/ \E k \in {"voice", "correction", "cut"} : StartChange(k)
    \/ EndChange
    \/ StartAccess \/ AccessReserves \/ AccessAnswers
    \/ StartExport \/ ExportRenews \/ Encode \/ Complete \/ Completed \/ Deliver \/ CancelExport

Spec == Init /\ [][Next]_evars

-------------------------------------------------------------------------------
TypeOK ==
    /\ page.stage \in {"start", "setup", "processing", "result", "gone"}
    /\ page.ref \in 0..Len(server) /\ forgotten \subseteq DOMAIN server
    /\ \A i \in RunSlots : (run[i].pc # "idle") => run[i].gen <= page.gen /\ run[i].rid \in 0..Len(server)

\* Every reservation still held on the server is one the page shows, one that
\* something under way will confirm or release, or one let go at one of the
\* places recorded in forgotten.
NothingElseForgotten ==
    \A id \in DOMAIN server : Held(id) =>
        \/ id \in forgotten \cup releasing \cup {page.ref}
        \/ \E i \in RunSlots : run[i].pc # "idle" /\ id \in {run[i].own, run[i].rid}
        \/ access.pc = "answered" /\ access.rid = id
        \/ export.pc \in {"complete", "completed"} /\ export.rid = id

\* The screen of a run under way always has that run; nobody waits in it for
\* a run that was superseded.
ProcessingHasItsRun ==
    page.stage = "processing" => \E i \in RunSlots : run[i].pc # "idle" /\ IsCurrent(run[i])

\* The result shows what was made from the chosen video, and a video that was
\* handed over has been paid for, unless a superseded step wrote late.
ResultIsOfItsVideo ==
    /\ (page.stage = "result" /\ late = {}) => {page.transcript, page.audio} \subseteq {0, page.file}
    /\ late = {} => \A id \in delivered : server[id].status = "completed"

\* Nothing is released while its confirmation is under way, unless a choice for
\* a silent video went astray: it met another one, or came after its video.
NotReleasedWhileConfirmed ==
    "silent" \in late \/ (export.pc = "complete" => export.rid \notin releasing)
-------------------------------------------------------------------------------
(* What every step keeps.                                                   *)

Ids == 1..Len(server)
Shown == [stage : {"start", "setup", "processing", "result", "gone"}, gen : Nat, file : Nat, ref : Ids \cup {0},
          pending : BOOLEAN, finalizing : BOOLEAN, transcript : Nat, audio : Nat, returning : BOOLEAN,
          fallback : BOOLEAN]
RunPlaces == {"renew", "reserve", "reserved", "work", "finish", "settle", "timer", "release"}
RunStates ==
    [pc : RunPlaces, kind : {"spoken", "narration"}, gen : Nat, file : Nat, own : Ids \cup {0}, rid : Ids \cup {0},
     pending : BOOLEAN, aborted : BOOLEAN]
Changes == [pc : {"work"}, kind : {"voice", "correction", "cut"}, gen : Nat, file : Nat, aborted : BOOLEAN]
Accesses == [pc : {"reserve"}, gen : Nat, rid : {0}] \cup [pc : {"answered"}, gen : Nat, rid : Ids]
Exports == [pc : {"renew", "encode", "complete", "completed", "deliver"}, gen : Nat, aborted : BOOLEAN,
            ref : Ids, rid : Ids \cup {0}]
Choices == [pc : {"asked"}, ref : Ids, gen : Nat]

EdKinds ==
    /\ server \in Seq([bucket : {"free", "paid"}, status : {"held", "completed", "released"}])
    /\ page \in Shown
    /\ run \in [RunSlots -> {Idle} \cup RunStates] /\ change \in {Idle} \cup Changes
    /\ access \in {Idle} \cup Accesses /\ export \in {Idle} \cup Exports
    /\ releasing \subseteq Ids /\ forgotten \subseteq Ids /\ delivered \subseteq Ids
    /\ silent \in [{"narration", "result"} -> {Idle} \cup Choices]

(* First what holds in any case: every held reservation is accounted for.   *)

\* A run is aborted exactly when it is not the page's own any more.
RunCounts(r) ==
    /\ r.gen <= page.gen /\ (r.aborted <=> r.gen # page.gen)
    /\ r.own \in {0, r.rid} /\ (r.pc = "release" => r.own # 0) /\ (r.pc \in {"renew", "reserve", "reserved"} => r.own = 0)
    /\ r.pc = "reserve" <=> r.rid = 0

RunsCount ==
    /\ \A i \in RunSlots : run[i].pc # "idle" => RunCounts(run[i])
    /\ \A i, j \in RunSlots : (i # j /\ run[i].pc # "idle" /\ run[j].pc # "idle") => run[i].gen # run[j].gen
    /\ page.stage = "processing" => \E i \in RunSlots : run[i].pc # "idle" /\ ~run[i].aborted

\* The page knows what its run reserved, or it was recorded as forgotten.
Keeps(r) ==
    r.pc # "idle" /\ ~r.aborted /\ r.own # 0 /\ server[r.own].status = "held" =>
        r.own = page.ref \/ r.own \in forgotten \cup releasing
RunsKeep == \A i \in RunSlots : Keeps(run[i])

Confirms == export.pc \in {"complete", "completed"}
Confirmed ==
    /\ export.pc = "renew" \/ Confirms => export.rid # 0
    /\ page.finalizing => Confirms
    /\ page.finalizing /\ export.pc = "completed" /\ page.ref = export.rid => server[export.rid].status # "held"

\* What is held is let go of, shown to be confirmed or released later, or
\* some step under way answers for it.
SeenTo(id) ==
    id \in forgotten \cup releasing \/ (id = page.ref /\ page.pending) \/ (export.pc = "complete" /\ export.rid = id)
Answers(r, id) ==
    (r.pc \in {"work", "finish", "settle", "release"} /\ r.own = id) \/ (r.pc = "reserved" /\ r.rid = id)
Accounted ==
    \A id \in Ids : server[id].status = "held" =>
        SeenTo(id) \/ (\E i \in RunSlots : Answers(run[i], id)) \/ (access.pc = "answered" /\ access.rid = id)

EdCore == EdKinds /\ RunsCount /\ RunsKeep /\ Confirmed /\ Accounted

(* Then what holds until a choice for a silent video goes astray.           *)

\* The run that is the page's own works on the reservation the page shows.
RunSound(r) ==
    /\ RunCounts(r)
    /\ r.aborted => r.rid = 0 \/ r.rid # page.ref
    /\ ~r.aborted => /\ page.stage = "processing" /\ r.file = page.file
                     /\ r.pc \notin {"reserve", "reserved"} => r.rid = page.ref
                     /\ r.pc = "settle" => server[r.rid].bucket = "free"

\* What was reserved and not told of yet.
Untold(id) ==
    /\ id \in Ids /\ server[id].status = "held" /\ id \notin releasing \cup delivered \cup {page.ref}
    /\ export.pc # "idle" => id # export.ref
    /\ silent["narration"] # Idle => id # silent["narration"].ref

RunsApart ==
    \A i, j \in RunSlots : (i # j /\ run[i].pc # "idle" /\ run[j].pc # "idle") =>
        run[i].gen # run[j].gen /\ (run[i].pc = "reserved" => run[i].rid # run[j].rid)

RunsSound ==
    /\ \A i \in RunSlots : run[i].pc # "idle" => RunSound(run[i]) /\ (run[i].pc = "reserved" => Untold(run[i].rid))
    /\ RunsApart
    /\ page.stage = "processing" => \E i \in RunSlots : run[i].pc # "idle" /\ ~run[i].aborted

AccessSound == access.pc # "idle" =>
    /\ access.gen <= page.gen /\ (access.gen = page.gen => page.stage = "result")
    /\ access.pc = "answered" =>
          Untold(access.rid) /\ \A i \in RunSlots : run[i].pc # "idle" => run[i].rid # access.rid

ChangeSound == change.pc # "idle" =>
    change.gen <= page.gen /\ (change.gen = page.gen => page.stage = "result" /\ change.file = page.file)

\* An export that is not the page's own has nothing of what the page shows.
ExportSound == export.pc # "idle" =>
    /\ export.gen <= page.gen /\ export.rid \in {0, export.ref} /\ (export.pc = "renew" \/ Confirms => export.rid # 0)
    /\ IF export.gen = page.gen THEN page.stage = "result" ELSE page.ref # export.ref
    /\ export.rid # 0 /\ (~export.aborted \/ Confirms) => export.rid \notin releasing
    /\ Confirms /\ page.ref = export.rid => page.finalizing
    /\ export.pc = "completed" => server[export.rid].status # "held"
    /\ export.pc = "deliver" /\ export.rid # 0 => server[export.rid].status = "completed"
    /\ export.rid = 0 /\ late = {} => server[export.ref].status = "completed"

\* What the page shows is not let go of, but for a narration instead of a
\* silent video: until its release is answered, its panel shows it.
Leaves == silent["narration"] # Idle /\ silent["narration"].ref = page.ref
RefSound ==
    /\ page.finalizing => Confirms
    /\ page.ref # 0 /\ ~Leaves => server[page.ref].status # "released" /\ page.ref \notin releasing

ChoiceSound ==
    /\ page.fallback => page.stage = "setup"
    /\ Leaves => page.fallback /\ silent["narration"].gen = page.gen
    /\ silent["result"] # Idle => silent["result"].gen <= page.gen
    /\ silent["result"] # Idle /\ silent["result"].gen = page.gen =>
          page.fallback /\ ~Leaves /\ silent["result"].ref = page.ref /\ server[page.ref].bucket = "free"

\* Unless a superseded step wrote late.
ItsOwn == page.transcript \in {0, page.file}
PaidIsPending == Paid(page.ref) /\ ~page.pending => server[page.ref].status = "completed"
ShownIsItsOwn ==
    /\ page.audio \in {0, page.file} /\ \A id \in delivered : server[id].status = "completed"
    /\ page.stage = "result" => ItsOwn /\ PaidIsPending
    /\ \A i \in RunSlots : run[i].pc \in {"settle", "timer"} /\ ~run[i].aborted =>
          ItsOwn /\ (run[i].pc = "timer" => PaidIsPending)

EdTidy ==
    /\ RunsSound /\ AccessSound /\ ChangeSound /\ ExportSound /\ RefSound /\ ChoiceSound
    /\ late = {} => ShownIsItsOwn

Orderly == "silent" \notin late
EditingIInv == EdCore /\ (Orderly => EdTidy)
===============================================================================
