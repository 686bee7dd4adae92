---------------------------- MODULE WorkspaceProofs ----------------------------
(***************************************************************************)
(* What Workspace promises of the components it runs, for every value of   *)
(* the constants: StoredWholeAndOnce, ReleasesAreSafe and ConcludedAsBegun.*)
(* Each component has an inductive invariant in its own module; the        *)
(* section of a component shows that it holds at first (Begins), that every*)
(* action keeps it (GoesOn) and that it says what the runs check (Stands). *)
(* The last section puts the components together.                          *)
(*                                                                         *)
(* What a step changes is mostly one element of a function: a Step lemma   *)
(* says what the new element has to satisfy, and a Frame or Same lemma that*)
(* what the others rely on stays.                                          *)
(***************************************************************************)
EXTENDS Workspace, FiniteSetTheorems, FunctionTheorems, TLAPS

-------------------------------------------------------------------------------
(* MediaTransfer: a request is sound, and what is joined was recorded.       *)

USE DEF Transfer!NoClaim, Transfer!NoObject, Transfer!Free, Transfer!At

\* What a step keeps that changes one request to r: the facts below, of the new
\* state, are all it has to show.
LEMMA TransferStep ==
  ASSUME Transfer!TransferIInv, NEW w \in Workers, NEW r \in Transfer!Request, x7' = [x7 EXCEPT ![w] = r],
         x10' \in Nat, x3' \in [Parts -> [taken : BOOLEAN, etag : Nat, old : BOOLEAN]], x5' \in [Parts -> Nat],
         x6' \in [exists : BOOLEAN, of : [Parts -> Nat]], <<x8, x9>>' \in BOOLEAN \X BOOLEAN,
         Transfer!TypeOK', Transfer!Sound(r)', \A s \in Transfer!Request : Transfer!Sound(s) => Transfer!Sound(s)',
         Transfer!JoinedIsRecorded', Transfer!GoneLeavesNothing'
  PROVE  Transfer!TransferIInv'
<1>1. x7' \in [Workers -> Transfer!Request] /\ \A v \in Workers : x7'[v] = IF v = w THEN r ELSE x7[v]
  BY DEF Transfer!TransferIInv, Transfer!Kinds
<1>2. Transfer!Kinds'
  BY <1>1 DEF Transfer!Kinds
<1>3. ASSUME NEW v \in Workers PROVE Transfer!Sound(x7[v])'
  <2>1. CASE v = w
    <3>1. x7'[v] = r
      BY <1>1, <2>1
    <3> QED
      BY <3>1 DEF Transfer!Sound, Transfer!HasItsPart, Transfer!JoinsTheRecorded, Transfer!RemovesWhatItSaw
  <2>2. CASE v # w
    <3>1. x7'[v] = x7[v] /\ x7[v] \in Transfer!Request /\ Transfer!Sound(x7[v])
      BY <1>1, <2>2 DEF Transfer!TransferIInv, Transfer!Kinds
    <3>2. PICK s \in Transfer!Request : s = x7[v]
      BY <3>1
    <3>3. Transfer!Sound(s)'
      BY <3>1, <3>2
    <3> QED
      BY <3>1, <3>2, <3>3 DEF Transfer!Sound, Transfer!HasItsPart, Transfer!JoinsTheRecorded, Transfer!RemovesWhatItSaw
  <2> QED
    BY <2>1, <2>2
<1> QED
  BY <1>2, <1>3 DEF Transfer!TransferIInv

\* A request may always end.
LEMMA TransferFree == Transfer!Free \in Transfer!Request /\ Transfer!Sound(Transfer!Free)'
  BY DEF Transfer!Request, Transfer!Steps, Transfer!Sound, Transfer!HasItsPart, Transfer!JoinsTheRecorded,
         Transfer!RemovesWhatItSaw

\* A step that leaves the recorded etags, the upload and the object as they
\* are disturbs nobody.
LEMMA TransferQuiet ==
  ASSUME Transfer!TransferIInv, UNCHANGED <<x1, x4, x6, x8, x9>>, x10' \in Nat, x10' >= x10,
         \A p \in Parts : (~x3'[p].taken => x3'[p] = Transfer!NoClaim) /\ (x3[p].etag # 0 => x3'[p].etag = x3[p].etag)
  PROVE  /\ Transfer!TypeOK' /\ Transfer!JoinedIsRecorded' /\ Transfer!GoneLeavesNothing'
         /\ \A s \in Transfer!Request : Transfer!Sound(s) => Transfer!Sound(s)'
<1>1. Transfer!Kinds /\ Transfer!JoinedIsRecorded /\ Transfer!GoneLeavesNothing
  BY DEF Transfer!TransferIInv
<1>2. Transfer!TypeOK'
  BY <1>1 DEF Transfer!Kinds, Transfer!TypeOK
<1>3. Transfer!JoinedIsRecorded' /\ Transfer!GoneLeavesNothing'
  BY <1>1 DEF Transfer!JoinedIsRecorded, Transfer!GoneLeavesNothing
<1>4. ASSUME NEW s \in Transfer!Request, Transfer!Sound(s) PROVE Transfer!Sound(s)'
  <2>1. Transfer!HasItsPart(s)' /\ Transfer!RemovesWhatItSaw(s)'
    BY <1>1, <1>4 DEF Transfer!Kinds, Transfer!Sound, Transfer!HasItsPart, Transfer!RemovesWhatItSaw
  <2>2. Transfer!JoinsTheRecorded(s)'
    BY <1>1, <1>4 DEF Transfer!Kinds, Transfer!Sound, Transfer!JoinsTheRecorded
  <2> QED
    BY <2>1, <2>2 DEF Transfer!Sound
<1> QED
  BY <1>2, <1>3, <1>4

\* The same of one that changes one request meanwhile.
LEMMA TransferQuietStep ==
  ASSUME Transfer!TransferIInv, NEW w \in Workers, NEW r \in Transfer!Request, x7' = [x7 EXCEPT ![w] = r], Transfer!Sound(r)',
         UNCHANGED <<x1, x4, x6, x8, x9>>, x10' \in Nat, x10' >= x10, x5' \in [Parts -> Nat],
         x3' \in [Parts -> [taken : BOOLEAN, etag : Nat, old : BOOLEAN]],
         \A p \in Parts : (~x3'[p].taken => x3'[p] = Transfer!NoClaim) /\ (x3[p].etag # 0 => x3'[p].etag = x3[p].etag)
  PROVE  Transfer!TransferIInv'
<1>1. x6' \in [exists : BOOLEAN, of : [Parts -> Nat]] /\ <<x8, x9>>' \in BOOLEAN \X BOOLEAN
  BY DEF Transfer!TransferIInv, Transfer!Kinds
<1>2. /\ Transfer!TypeOK' /\ Transfer!JoinedIsRecorded' /\ Transfer!GoneLeavesNothing'
      /\ \A s \in Transfer!Request : Transfer!Sound(s) => Transfer!Sound(s)'
  BY TransferQuiet
<1> QED
  BY <1>1, <1>2, TransferStep

LEMMA TransferPutPart ==
  ASSUME Transfer!TransferIInv, NEW w \in Workers, NEW p \in Parts, Transfer!PutPart(w, p)
  PROVE  Transfer!TransferIInv'
<1>1. PICK r : r = [Transfer!Free EXCEPT !.at = "claim", !.part = p]
  OBVIOUS
<1>2. /\ x7' = [x7 EXCEPT ![w] = r] /\ x10' = x10 + 1
      /\ UNCHANGED <<x1, x2, x3, x4, x5, x6, x8, x9, x11>>
  BY <1>1 DEF Transfer!PutPart, Transfer!Begin
<1>3. Transfer!Kinds
  BY DEF Transfer!TransferIInv
<1>4. r \in Transfer!Request /\ r.at = "claim" /\ r.part = p
  BY <1>1 DEF Transfer!Request, Transfer!Steps
<1>5. x10' \in Nat /\ x10' >= x10 /\ x10' > 0
  BY <1>2, <1>3 DEF Transfer!Kinds
<1>6. Transfer!Sound(r)'
  BY <1>4, <1>5 DEF Transfer!Sound, Transfer!HasItsPart, Transfer!JoinsTheRecorded, Transfer!RemovesWhatItSaw
<1> QED
  BY <1>2, <1>3, <1>4, <1>5, <1>6, TransferQuietStep DEF Transfer!Kinds, Transfer!TypeOK

LEMMA TransferClaim ==
  ASSUME Transfer!TransferIInv, NEW w \in Workers, Transfer!Claim(w)
  PROVE  Transfer!TransferIInv'
<1>1. Transfer!Kinds /\ Transfer!Sound(x7[w]) /\ x7[w] \in Transfer!Request /\ x7[w].at = "claim" /\ x7[w].part \in Parts /\ x10 > 0
  BY DEF Transfer!TransferIInv, Transfer!Kinds, Transfer!Claim, Transfer!Sound, Transfer!HasItsPart
<1>2. PICK p \in Parts : p = x7[w].part
  BY <1>1
<1>3. UNCHANGED <<x1, x2, x4, x5, x6, x8, x9, x10, x11>> /\ x10' \in Nat /\ x10' >= x10 /\ x5' \in [Parts -> Nat]
  BY <1>1 DEF Transfer!Claim, Transfer!rest, Transfer!Kinds
<1>4. CASE ~x3[p].taken \/ (x3[p].etag = 0 /\ x3[p].old)
  <2>1. PICK r : r = [x7[w] EXCEPT !.at = "store"]
    OBVIOUS
  <2>2. x7' = [x7 EXCEPT ![w] = r] /\ x3' = [x3 EXCEPT ![p] = [taken |-> TRUE, etag |-> 0, old |-> FALSE]]
    BY <1>1, <1>2, <1>4, <2>1 DEF Transfer!Claim, Transfer!Goto, Transfer!Kinds
  <2>3. r \in Transfer!Request /\ r.at = "store" /\ r.part = p
    BY <1>1, <1>2, <2>1 DEF Transfer!Request, Transfer!Steps
  <2>4. Transfer!Sound(r)'
    BY <1>1, <1>3, <2>3 DEF Transfer!Sound, Transfer!HasItsPart, Transfer!JoinsTheRecorded, Transfer!RemovesWhatItSaw
  <2>5. x3[p].etag = 0
    BY <1>1, <1>4 DEF Transfer!Kinds, Transfer!TypeOK
  <2>6. x3' \in [Parts -> [taken : BOOLEAN, etag : Nat, old : BOOLEAN]]
    BY <1>1, <2>2 DEF Transfer!Kinds
  <2>7. \A q \in Parts : (~x3'[q].taken => x3'[q] = Transfer!NoClaim) /\ (x3[q].etag # 0 => x3'[q].etag = x3[q].etag)
    BY <1>1, <2>2, <2>5 DEF Transfer!Kinds, Transfer!TypeOK
  <2> QED
    BY <1>3, <2>2, <2>3, <2>4, <2>6, <2>7, TransferQuietStep
<1>5. CASE ~(~x3[p].taken \/ (x3[p].etag = 0 /\ x3[p].old))
  <2>1. x7' = [x7 EXCEPT ![w] = Transfer!Free] /\ x3' = x3
    BY <1>2, <1>5 DEF Transfer!Claim, Transfer!End
  <2>2. /\ x3' \in [Parts -> [taken : BOOLEAN, etag : Nat, old : BOOLEAN]]
        /\ \A q \in Parts : (~x3'[q].taken => x3'[q] = Transfer!NoClaim) /\ (x3[q].etag # 0 => x3'[q].etag = x3[q].etag)
    BY <1>1, <2>1 DEF Transfer!Kinds, Transfer!TypeOK
  <2> QED
    BY <1>3, <2>1, <2>2, TransferFree, TransferQuietStep
<1> QED
  BY <1>4, <1>5

\* A claim that is dropped had no etag.
LEMMA TransferUnclaim ==
  ASSUME Transfer!Kinds, NEW p \in Parts, Transfer!Unclaim(p)
  PROVE  /\ x3' \in [Parts -> [taken : BOOLEAN, etag : Nat, old : BOOLEAN]]
         /\ \A q \in Parts : (~x3'[q].taken => x3'[q] = Transfer!NoClaim) /\ (x3[q].etag # 0 => x3'[q].etag = x3[q].etag)
  BY DEF Transfer!Kinds, Transfer!TypeOK, Transfer!Unclaim

LEMMA TransferStorePart ==
  ASSUME Transfer!TransferIInv, NEW w \in Workers, Transfer!StorePart(w)
  PROVE  Transfer!TransferIInv'
<1>1. Transfer!Kinds /\ Transfer!Sound(x7[w]) /\ x7[w] \in Transfer!Request /\ x7[w].at = "store" /\ x7[w].part \in Parts /\ x10 > 0
  BY DEF Transfer!TransferIInv, Transfer!Kinds, Transfer!StorePart, Transfer!Sound, Transfer!HasItsPart
<1>2. PICK p \in Parts : p = x7[w].part
  BY <1>1
<1>3. UNCHANGED <<x1, x2, x4, x6, x8, x9, x10, x11>> /\ x10 \in Nat /\ x10' \in Nat /\ x10' >= x10
  BY <1>1 DEF Transfer!StorePart, Transfer!rest, Transfer!Kinds
<1>4. CASE x5' = [x5 EXCEPT ![p] = x10] /\ x7' = [x7 EXCEPT ![w].at = "record", ![w].etags[p] = x10] /\ UNCHANGED x3
  <2>1. PICK r : r = [x7[w] EXCEPT !.at = "record", !.etags[p] = x10]
    OBVIOUS
  <2>2. x7' = [x7 EXCEPT ![w] = r]
    BY <1>1, <1>4, <2>1 DEF Transfer!Kinds
  <2>3. r \in Transfer!Request /\ r.at = "record" /\ r.part = p
    BY <1>1, <1>2, <1>3, <2>1 DEF Transfer!Request, Transfer!Steps
  <2>4. Transfer!Sound(r)'
    BY <1>1, <1>3, <2>3 DEF Transfer!Sound, Transfer!HasItsPart, Transfer!JoinsTheRecorded, Transfer!RemovesWhatItSaw
  <2>5. /\ x5' \in [Parts -> Nat] /\ x3' \in [Parts -> [taken : BOOLEAN, etag : Nat, old : BOOLEAN]]
        /\ \A q \in Parts : (~x3'[q].taken => x3'[q] = Transfer!NoClaim) /\ (x3[q].etag # 0 => x3'[q].etag = x3[q].etag)
    BY <1>1, <1>3, <1>4 DEF Transfer!Kinds, Transfer!TypeOK
  <2> QED
    BY <1>3, <2>2, <2>3, <2>4, <2>5, TransferQuietStep
<1>5. CASE Transfer!Unclaim(p) /\ x7' = [x7 EXCEPT ![w] = Transfer!Free] /\ UNCHANGED x5
  <2>1. x5' \in [Parts -> Nat]
    BY <1>1, <1>5 DEF Transfer!Kinds
  <2>2. /\ x3' \in [Parts -> [taken : BOOLEAN, etag : Nat, old : BOOLEAN]]
        /\ \A q \in Parts : (~x3'[q].taken => x3'[q] = Transfer!NoClaim) /\ (x3[q].etag # 0 => x3'[q].etag = x3[q].etag)
    BY <1>1, <1>5, TransferUnclaim
  <2> QED
    BY <1>3, <1>5, <2>1, <2>2, TransferFree, TransferQuietStep
<1> QED
  BY <1>2, <1>4, <1>5 DEF Transfer!StorePart, Transfer!End

LEMMA TransferRecordPart ==
  ASSUME Transfer!TransferIInv, NEW w \in Workers, Transfer!RecordPart(w)
  PROVE  Transfer!TransferIInv'
<1>1. Transfer!Kinds /\ x7[w] \in Transfer!Request /\ x7[w].part \in Parts
  BY DEF Transfer!TransferIInv, Transfer!Kinds, Transfer!RecordPart, Transfer!Sound, Transfer!HasItsPart
<1>2. PICK p \in Parts : p = x7[w].part
  BY <1>1
<1>3. /\ UNCHANGED <<x1, x2, x4, x5, x6, x8, x9, x10, x11>> /\ x7' = [x7 EXCEPT ![w] = Transfer!Free]
      /\ x10' \in Nat /\ x10' >= x10 /\ x5' \in [Parts -> Nat]
  BY <1>1 DEF Transfer!RecordPart, Transfer!rest, Transfer!End, Transfer!Kinds
<1>4. /\ x3' \in [Parts -> [taken : BOOLEAN, etag : Nat, old : BOOLEAN]]
      /\ \A q \in Parts : (~x3'[q].taken => x3'[q] = Transfer!NoClaim) /\ (x3[q].etag # 0 => x3'[q].etag = x3[q].etag)
  <2>1. CASE x3' = [x3 EXCEPT ![p].etag = IF x3[p].taken /\ @ = 0 THEN x7[w].etags[p] ELSE @]
    <3>1. PICK e : e = IF x3[p].taken /\ x3[p].etag = 0 THEN x7[w].etags[p] ELSE x3[p].etag
      OBVIOUS
    <3>2. e \in Nat /\ (x3[p].etag # 0 => e = x3[p].etag) /\ (~x3[p].taken => e = 0)
      BY <1>1, <3>1 DEF Transfer!Kinds, Transfer!TypeOK, Transfer!Request
    <3>3. x3' = [x3 EXCEPT ![p].etag = e]
      BY <1>1, <2>1, <3>1 DEF Transfer!Kinds
    <3> QED
      BY <1>1, <3>2, <3>3 DEF Transfer!Kinds, Transfer!TypeOK
  <2> QED
    BY <1>1, <1>2, <2>1, TransferUnclaim DEF Transfer!RecordPart
<1> QED
  BY <1>3, <1>4, TransferFree, TransferQuietStep

LEMMA TransferComplete ==
  ASSUME Transfer!TransferIInv, NEW w \in Workers, Transfer!Complete(w)
  PROVE  Transfer!TransferIInv'
<1>1. Transfer!Kinds
  BY DEF Transfer!TransferIInv
<1>2. PICK r : r = [Transfer!Free EXCEPT !.at = "join", !.etags = [p \in Parts |-> x3[p].etag]]
  OBVIOUS
<1>3. /\ x7' = [x7 EXCEPT ![w] = r] /\ x10' = x10 + 1 /\ \A p \in Parts : x3[p].etag # 0
      /\ UNCHANGED <<x1, x2, x3, x4, x5, x6, x8, x9, x11>>
  BY <1>2 DEF Transfer!Complete, Transfer!Begin, Transfer!AllRecorded
<1>4. r \in Transfer!Request /\ r.at = "join" /\ \A p \in Parts : r.etags[p] = x3[p].etag
  BY <1>1, <1>2 DEF Transfer!Request, Transfer!Steps, Transfer!Kinds
<1>5. /\ x10' \in Nat /\ x10' >= x10 /\ x10' > 0 /\ x5' \in [Parts -> Nat]
      /\ x3' \in [Parts -> [taken : BOOLEAN, etag : Nat, old : BOOLEAN]]
      /\ \A p \in Parts : (~x3'[p].taken => x3'[p] = Transfer!NoClaim) /\ (x3[p].etag # 0 => x3'[p].etag = x3[p].etag)
  BY <1>1, <1>3 DEF Transfer!Kinds, Transfer!TypeOK
<1>6. Transfer!Sound(r)'
  BY <1>3, <1>4, <1>5 DEF Transfer!Sound, Transfer!HasItsPart, Transfer!JoinsTheRecorded, Transfer!RemovesWhatItSaw
<1> QED
  BY <1>3, <1>4, <1>5, <1>6, TransferQuietStep

LEMMA TransferJoin ==
  ASSUME Transfer!TransferIInv, NEW w \in Workers, Transfer!Join(w)
  PROVE  Transfer!TransferIInv'
<1>1. /\ Transfer!Kinds /\ Transfer!Sound(x7[w]) /\ x7[w] \in Transfer!Request /\ x7[w].at = "join"
      /\ Transfer!JoinedIsRecorded /\ Transfer!GoneLeavesNothing
  BY DEF Transfer!TransferIInv, Transfer!Kinds, Transfer!Join
<1>2. /\ UNCHANGED <<x1, x2, x3, x5, x8, x9, x10, x11>> /\ x10' \in Nat /\ x10' >= x10 /\ x5' \in [Parts -> Nat]
      /\ x3 \in [Parts -> [taken : BOOLEAN, etag : Nat, old : BOOLEAN]] /\ <<x8, x9>> \in BOOLEAN \X BOOLEAN
      /\ \A q \in Parts : ~x3[q].taken => x3[q] = Transfer!NoClaim
  BY <1>1 DEF Transfer!Join, Transfer!rest, Transfer!Kinds, Transfer!TypeOK
<1>3. CASE x4 = "open" /\ x5 = x7[w].etags
  <2>1. PICK r : r = [x7[w] EXCEPT !.at = "inspect"]
    OBVIOUS
  <2>2. x7' = [x7 EXCEPT ![w] = r] /\ x4' = "joined" /\ x6' = [exists |-> TRUE, of |-> x5]
    BY <1>1, <1>3, <2>1 DEF Transfer!Join, Transfer!Goto, Transfer!Kinds
  <2>3. r \in Transfer!Request /\ r.at = "inspect" /\ x10 > 0
    BY <1>1, <2>1 DEF Transfer!Request, Transfer!Steps, Transfer!Sound, Transfer!HasItsPart
  <2>4. Transfer!Sound(r)'
    BY <1>2, <2>2, <2>3 DEF Transfer!Sound, Transfer!HasItsPart, Transfer!JoinsTheRecorded, Transfer!RemovesWhatItSaw
  <2>5. Transfer!TypeOK' /\ x6' \in [exists : BOOLEAN, of : [Parts -> Nat]]
    BY <1>1, <1>2, <2>2 DEF Transfer!Kinds, Transfer!TypeOK
  <2>6. \A p \in Parts : x5[p] # 0 /\ (~x8 => x3[p].etag = x5[p])
    BY <1>1, <1>3 DEF Transfer!Sound, Transfer!JoinsTheRecorded
  <2>7. Transfer!JoinedIsRecorded'
    BY <1>2, <2>2, <2>6 DEF Transfer!JoinedIsRecorded
  <2>8. Transfer!GoneLeavesNothing'
    BY <1>1, <1>2, <1>3, <2>2 DEF Transfer!GoneLeavesNothing
  <2>9. ASSUME NEW s \in Transfer!Request, Transfer!Sound(s) PROVE Transfer!Sound(s)'
    <3>1. Transfer!HasItsPart(s)' /\ Transfer!JoinsTheRecorded(s)'
      BY <1>2, <2>2, <2>9 DEF Transfer!Sound, Transfer!HasItsPart, Transfer!JoinsTheRecorded
    <3>2. Transfer!RemovesWhatItSaw(s)'
      BY <1>2, <1>3, <2>2, <2>9 DEF Transfer!Sound, Transfer!RemovesWhatItSaw
    <3> QED
      BY <3>1, <3>2 DEF Transfer!Sound
  <2> QED
    BY <1>2, <2>2, <2>3, <2>4, <2>5, <2>7, <2>8, <2>9, TransferStep
<1>4. CASE ~(x4 = "open" /\ x5 = x7[w].etags)
  <2>1. x7' = [x7 EXCEPT ![w] = Transfer!Free] /\ UNCHANGED <<x4, x6>>
    BY <1>4 DEF Transfer!Join, Transfer!End
  <2> QED
    BY <1>2, <2>1, TransferFree, TransferQuietStep
<1> QED
  BY <1>3, <1>4

LEMMA TransferInspect ==
  ASSUME Transfer!TransferIInv, NEW w \in Workers, Transfer!Inspect(w)
  PROVE  Transfer!TransferIInv'
<1>1. /\ Transfer!Kinds /\ Transfer!Sound(x7[w]) /\ x7[w] \in Transfer!Request /\ x7[w].at = "inspect"
      /\ Transfer!JoinedIsRecorded /\ Transfer!GoneLeavesNothing
  BY DEF Transfer!TransferIInv, Transfer!Kinds, Transfer!Inspect
<1>2. /\ UNCHANGED <<x2, x3, x4, x5, x6, x8, x9, x10, x11>> /\ x10' \in Nat /\ x10' >= x10 /\ x5' \in [Parts -> Nat]
      /\ x3' \in [Parts -> [taken : BOOLEAN, etag : Nat, old : BOOLEAN]] /\ <<x8, x9>>' \in BOOLEAN \X BOOLEAN
      /\ \A q \in Parts : (~x3'[q].taken => x3'[q] = Transfer!NoClaim) /\ (x3[q].etag # 0 => x3'[q].etag = x3[q].etag)
      /\ x6' \in [exists : BOOLEAN, of : [Parts -> Nat]]
  BY <1>1 DEF Transfer!Inspect, Transfer!rest, Transfer!Kinds, Transfer!TypeOK
<1>3. CASE x6.exists
  <2>1. PICK r : r = [x7[w] EXCEPT !.at = "publish"]
    OBVIOUS
  <2>2. x7' = [x7 EXCEPT ![w] = r] /\ x1' = x1
    BY <1>1, <1>3, <2>1 DEF Transfer!Inspect, Transfer!Goto, Transfer!Kinds
  <2>3. r \in Transfer!Request /\ r.at = "publish" /\ x10 > 0 /\ x4 = "joined"
    BY <1>1, <2>1 DEF Transfer!Request, Transfer!Steps, Transfer!Sound, Transfer!HasItsPart, Transfer!JoinsTheRecorded
  <2>4. Transfer!Sound(r)'
    BY <1>2, <2>3 DEF Transfer!Sound, Transfer!HasItsPart, Transfer!JoinsTheRecorded, Transfer!RemovesWhatItSaw
  <2> QED
    BY <1>2, <2>2, <2>3, <2>4, TransferQuietStep
<1>4. CASE ~x6.exists
  \* Nobody but a removal takes the object away, and it is wanted no more.
  <2>1. x7' = [x7 EXCEPT ![w] = Transfer!Free] /\ x1' = "deleted" /\ x4 = "joined" /\ x8
    BY <1>1, <1>4 DEF Transfer!Inspect, Transfer!End, Transfer!Sound, Transfer!JoinsTheRecorded, Transfer!JoinedIsRecorded,
       Transfer!Kinds
  <2>2. Transfer!TypeOK' /\ Transfer!JoinedIsRecorded' /\ Transfer!GoneLeavesNothing'
    BY <1>1, <1>2, <1>4, <2>1 DEF Transfer!Kinds, Transfer!TypeOK, Transfer!JoinedIsRecorded, Transfer!GoneLeavesNothing
  <2>3. ASSUME NEW s \in Transfer!Request, Transfer!Sound(s) PROVE Transfer!Sound(s)'
    BY <1>2, <2>3 DEF Transfer!Sound, Transfer!HasItsPart, Transfer!JoinsTheRecorded, Transfer!RemovesWhatItSaw
  <2> QED
    BY <1>2, <2>1, <2>2, <2>3, TransferFree, TransferStep
<1> QED
  BY <1>3, <1>4

LEMMA TransferPublish ==
  ASSUME Transfer!TransferIInv, NEW w \in Workers, Transfer!Publish(w)
  PROVE  Transfer!TransferIInv'
<1>1. /\ Transfer!Kinds /\ Transfer!JoinedIsRecorded /\ x4 = "joined"
  BY DEF Transfer!TransferIInv, Transfer!Publish, Transfer!Sound, Transfer!JoinsTheRecorded
<1>2. /\ UNCHANGED <<x2, x3, x4, x5, x6, x8, x9, x10, x11>> /\ x7' = [x7 EXCEPT ![w] = Transfer!Free] /\ x1' = "complete"
      /\ x10' \in Nat /\ x5' \in [Parts -> Nat]
      /\ x3' \in [Parts -> [taken : BOOLEAN, etag : Nat, old : BOOLEAN]] /\ <<x8, x9>>' \in BOOLEAN \X BOOLEAN
      /\ x6' \in [exists : BOOLEAN, of : [Parts -> Nat]]
  BY <1>1 DEF Transfer!Publish, Transfer!End, Transfer!rest, Transfer!Kinds
<1>3. Transfer!TypeOK' /\ Transfer!JoinedIsRecorded' /\ Transfer!GoneLeavesNothing'
  BY <1>1, <1>2 DEF Transfer!Kinds, Transfer!TypeOK, Transfer!JoinedIsRecorded, Transfer!GoneLeavesNothing
<1>4. ASSUME NEW s \in Transfer!Request, Transfer!Sound(s) PROVE Transfer!Sound(s)'
  BY <1>2, <1>4 DEF Transfer!Sound, Transfer!HasItsPart, Transfer!JoinsTheRecorded, Transfer!RemovesWhatItSaw
<1> QED
  BY <1>2, <1>3, <1>4, TransferFree, TransferStep

LEMMA TransferBeginRemoval ==
  ASSUME Transfer!TransferIInv, NEW w \in Workers, Transfer!BeginRemoval(w)
  PROVE  Transfer!TransferIInv'
<1>1. /\ Transfer!Kinds /\ Transfer!JoinedIsRecorded /\ Transfer!GoneLeavesNothing
  BY DEF Transfer!TransferIInv
<1>2. PICK r : r = [Transfer!Free EXCEPT !.at = "erase", !.seen = x1]
  OBVIOUS
<1>3. /\ x7' = [x7 EXCEPT ![w] = r] /\ x1 # "deleted" /\ x8' = TRUE
      /\ UNCHANGED <<x1, x2, x3, x4, x5, x6, x9, x11>> /\ x10' \in Nat /\ x10' >= x10 /\ x10' > 0
  BY <1>1, <1>2 DEF Transfer!BeginRemoval, Transfer!Begin, Transfer!Kinds
<1>4. r \in Transfer!Request /\ r.at = "erase" /\ r.seen = x1 /\ x1 \in {"uploading", "complete"}
  BY <1>1, <1>2, <1>3 DEF Transfer!Request, Transfer!Steps, Transfer!Kinds, Transfer!TypeOK
<1>5. Transfer!Sound(r)'
  BY <1>1, <1>3, <1>4 DEF Transfer!Sound, Transfer!HasItsPart, Transfer!JoinsTheRecorded, Transfer!RemovesWhatItSaw,
     Transfer!JoinedIsRecorded
<1>6. /\ x5' \in [Parts -> Nat] /\ x3' \in [Parts -> [taken : BOOLEAN, etag : Nat, old : BOOLEAN]]
      /\ <<x8, x9>>' \in BOOLEAN \X BOOLEAN /\ x6' \in [exists : BOOLEAN, of : [Parts -> Nat]]
  BY <1>1, <1>3 DEF Transfer!Kinds
<1>7. Transfer!TypeOK' /\ Transfer!JoinedIsRecorded' /\ Transfer!GoneLeavesNothing'
  BY <1>1, <1>3 DEF Transfer!Kinds, Transfer!TypeOK, Transfer!JoinedIsRecorded, Transfer!GoneLeavesNothing
<1>8. ASSUME NEW s \in Transfer!Request, Transfer!Sound(s) PROVE Transfer!Sound(s)'
  BY <1>1, <1>3, <1>8 DEF Transfer!Sound, Transfer!HasItsPart, Transfer!JoinsTheRecorded, Transfer!RemovesWhatItSaw, Transfer!Kinds
<1> QED
  BY <1>3, <1>4, <1>5, <1>6, <1>7, <1>8, TransferStep

LEMMA TransferErase ==
  ASSUME Transfer!TransferIInv, NEW w \in Workers, Transfer!Erase(w)
  PROVE  Transfer!TransferIInv'
<1>1. /\ Transfer!Kinds /\ Transfer!Sound(x7[w]) /\ x7[w] \in Transfer!Request /\ x7[w].at = "erase" /\ x8
      /\ Transfer!JoinedIsRecorded /\ Transfer!GoneLeavesNothing
  BY DEF Transfer!TransferIInv, Transfer!Kinds, Transfer!Erase, Transfer!Sound, Transfer!RemovesWhatItSaw
<1>2. PICK r : r = [x7[w] EXCEPT !.at = "bury"]
  OBVIOUS
<1>3. /\ x7' = [x7 EXCEPT ![w] = r] /\ UNCHANGED <<x1, x2, x3, x5, x8, x10, x11>> /\ x10' \in Nat /\ x10' > 0
  BY <1>1, <1>2 DEF Transfer!Erase, Transfer!Goto, Transfer!Kinds, Transfer!Sound, Transfer!HasItsPart
<1>4. r \in Transfer!Request /\ r.at = "bury"
  BY <1>1, <1>2 DEF Transfer!Request, Transfer!Steps
<1>5. /\ x4' = IF x7[w].seen = "uploading" /\ x4 = "open" THEN "aborted" ELSE x4
      /\ x6' = IF x7[w].seen = "complete" THEN Transfer!NoObject ELSE x6
      /\ x9' = (x9 \/ (x7[w].seen = "uploading" /\ x4 = "joined"))
      /\ x7[w].seen \in {"uploading", "complete"} /\ (x7[w].seen = "complete" => x4 = "joined")
  BY <1>1 DEF Transfer!Erase, Transfer!SeenComplete, Transfer!Sound, Transfer!RemovesWhatItSaw, Transfer!Request
\* Either the upload was aborted or the object deleted, or the removal crossed.
<1>6. x9' \/ (~x6'.exists /\ x4' # "open")
  BY <1>1, <1>5 DEF Transfer!Kinds, Transfer!TypeOK
<1>7. Transfer!Sound(r)'
  BY <1>1, <1>3, <1>4, <1>6 DEF Transfer!Sound, Transfer!HasItsPart, Transfer!JoinsTheRecorded, Transfer!RemovesWhatItSaw
<1>8. x6' \in [exists : BOOLEAN, of : [Parts -> Nat]] /\ (x6'.exists => x6' = x6)
  BY <1>1, <1>5 DEF Transfer!Kinds
<1>9. /\ x5' \in [Parts -> Nat] /\ x3' \in [Parts -> [taken : BOOLEAN, etag : Nat, old : BOOLEAN]]
      /\ <<x8, x9>>' \in BOOLEAN \X BOOLEAN
  BY <1>1, <1>3, <1>5 DEF Transfer!Kinds
<1>10. Transfer!TypeOK' /\ Transfer!JoinedIsRecorded' /\ Transfer!GoneLeavesNothing'
  BY <1>1, <1>3, <1>5, <1>6, <1>8 DEF Transfer!Kinds, Transfer!TypeOK, Transfer!JoinedIsRecorded, Transfer!GoneLeavesNothing
<1>11. ASSUME NEW s \in Transfer!Request, Transfer!Sound(s) PROVE Transfer!Sound(s)'
  <2>1. Transfer!HasItsPart(s)' /\ Transfer!JoinsTheRecorded(s)'
    BY <1>1, <1>3, <1>5, <1>11 DEF Transfer!Sound, Transfer!HasItsPart, Transfer!JoinsTheRecorded
  <2>2. x9 => x9'
    BY <1>5
  <2>3. Transfer!RemovesWhatItSaw(s)'
    BY <1>1, <1>3, <1>5, <1>6, <1>11, <2>2 DEF Transfer!Sound, Transfer!RemovesWhatItSaw
  <2> QED
    BY <2>1, <2>3 DEF Transfer!Sound
<1> QED
  BY <1>3, <1>4, <1>7, <1>8, <1>9, <1>10, <1>11, TransferStep

LEMMA TransferBury ==
  ASSUME Transfer!TransferIInv, NEW w \in Workers, Transfer!Bury(w)
  PROVE  Transfer!TransferIInv'
<1>1. /\ Transfer!Kinds /\ x8 /\ Transfer!JoinedIsRecorded /\ (~x9 => ~x6.exists /\ x4 # "open")
  BY DEF Transfer!TransferIInv, Transfer!Bury, Transfer!Sound, Transfer!RemovesWhatItSaw
<1>2. /\ UNCHANGED <<x2, x4, x5, x6, x8, x9, x10, x11>> /\ x7' = [x7 EXCEPT ![w] = Transfer!Free] /\ x1' = "deleted"
      /\ x3' = [p \in Parts |-> Transfer!NoClaim] /\ x10' \in Nat /\ x5' \in [Parts -> Nat]
      /\ x3' \in [Parts -> [taken : BOOLEAN, etag : Nat, old : BOOLEAN]] /\ <<x8, x9>>' \in BOOLEAN \X BOOLEAN
      /\ x6' \in [exists : BOOLEAN, of : [Parts -> Nat]]
  BY <1>1 DEF Transfer!Bury, Transfer!End, Transfer!rest, Transfer!Kinds
<1>3. Transfer!TypeOK' /\ Transfer!JoinedIsRecorded' /\ Transfer!GoneLeavesNothing'
  BY <1>1, <1>2 DEF Transfer!Kinds, Transfer!TypeOK, Transfer!JoinedIsRecorded, Transfer!GoneLeavesNothing
<1>4. ASSUME NEW s \in Transfer!Request, Transfer!Sound(s) PROVE Transfer!Sound(s)'
  BY <1>1, <1>2, <1>4 DEF Transfer!Sound, Transfer!HasItsPart, Transfer!JoinsTheRecorded, Transfer!RemovesWhatItSaw
<1> QED
  BY <1>2, <1>3, <1>4, TransferFree, TransferStep

LEMMA TransferDies ==
  ASSUME Transfer!TransferIInv, NEW w \in Workers, Transfer!Dies(w)
  PROVE  Transfer!TransferIInv'
<1>1. Transfer!Kinds
  BY DEF Transfer!TransferIInv
<1>2. /\ UNCHANGED <<x1, x2, x3, x4, x5, x6, x8, x9, x10>> /\ x7' = [x7 EXCEPT ![w] = Transfer!Free]
      /\ x10' \in Nat /\ x10' >= x10 /\ x5' \in [Parts -> Nat]
      /\ x3' \in [Parts -> [taken : BOOLEAN, etag : Nat, old : BOOLEAN]]
      /\ \A q \in Parts : (~x3'[q].taken => x3'[q] = Transfer!NoClaim) /\ (x3[q].etag # 0 => x3'[q].etag = x3[q].etag)
  BY <1>1 DEF Transfer!Dies, Transfer!End, Transfer!Kinds, Transfer!TypeOK
<1> QED
  BY <1>2, TransferFree, TransferQuietStep

\* A claim grows old, or the 72 hours pass: no request moves.
LEMMA TransferTime ==
  ASSUME Transfer!TransferIInv, Transfer!Lapse \/ \E p \in Parts : Transfer!ClaimAges(p)
  PROVE  Transfer!TransferIInv'
<1>1. Transfer!Kinds
  BY DEF Transfer!TransferIInv
<1>2. UNCHANGED <<x1, x4, x5, x6, x7, x8, x9, x10, x11>> /\ x10' \in Nat /\ x10' >= x10
  BY <1>1 DEF Transfer!Lapse, Transfer!ClaimAges, Transfer!rest, Transfer!Kinds
<1>3. /\ x3' \in [Parts -> [taken : BOOLEAN, etag : Nat, old : BOOLEAN]]
      /\ \A q \in Parts : (~x3'[q].taken => x3'[q] = Transfer!NoClaim) /\ (x3[q].etag # 0 => x3'[q].etag = x3[q].etag)
  <2>1. CASE Transfer!Lapse
    BY <1>1, <2>1 DEF Transfer!Lapse, Transfer!Kinds, Transfer!TypeOK
  <2>2. ASSUME NEW p \in Parts, Transfer!ClaimAges(p) PROVE <1>3
    <3>1. x3' = [x3 EXCEPT ![p].old = TRUE] /\ x3[p].taken /\ x3 \in [Parts -> [taken : BOOLEAN, etag : Nat, old : BOOLEAN]]
      BY <1>1, <2>2 DEF Transfer!ClaimAges, Transfer!Kinds
    <3>2. x3' \in [Parts -> [taken : BOOLEAN, etag : Nat, old : BOOLEAN]]
      BY <3>1
    <3>3. \A q \in Parts : x3'[q].taken = x3[q].taken /\ x3'[q].etag = x3[q].etag /\ (q # p => x3'[q] = x3[q])
      BY <3>1
    <3>4. \A q \in Parts : ~x3[q].taken => x3[q] = Transfer!NoClaim
      BY <1>1 DEF Transfer!Kinds, Transfer!TypeOK
    <3> QED
      BY <3>1, <3>2, <3>3, <3>4
  <2> QED
    BY <2>1, <2>2
<1>4. /\ Transfer!TypeOK' /\ Transfer!JoinedIsRecorded' /\ Transfer!GoneLeavesNothing'
      /\ \A s \in Transfer!Request : Transfer!Sound(s) => Transfer!Sound(s)'
  BY <1>2, <1>3, TransferQuiet
<1>5. Transfer!Kinds'
  BY <1>1, <1>2, <1>3, <1>4 DEF Transfer!Kinds
<1>6. ASSUME NEW v \in Workers PROVE Transfer!Sound(x7[v])'
  <2>1. PICK s \in Transfer!Request : s = x7[v] /\ Transfer!Sound(s)
    BY <1>1 DEF Transfer!TransferIInv, Transfer!Kinds
  <2>2. Transfer!Sound(s)' /\ x7'[v] = s
    BY <1>2, <1>4, <2>1
  <2> QED
    BY <2>2 DEF Transfer!Sound, Transfer!HasItsPart, Transfer!JoinsTheRecorded, Transfer!RemovesWhatItSaw
<1> QED
  BY <1>4, <1>5, <1>6 DEF Transfer!TransferIInv

LEMMA TransferBegins == Transfer!Init => Transfer!TransferIInv
<1> SUFFICES ASSUME Transfer!Init PROVE Transfer!TransferIInv
  OBVIOUS
<1>1. Transfer!Kinds
  BY DEF Transfer!Init, Transfer!Kinds, Transfer!TypeOK, Transfer!Request, Transfer!Steps
<1>2. ASSUME NEW w \in Workers PROVE Transfer!Sound(x7[w])
  BY DEF Transfer!Init, Transfer!Sound, Transfer!HasItsPart, Transfer!JoinsTheRecorded, Transfer!RemovesWhatItSaw
<1>3. Transfer!JoinedIsRecorded /\ Transfer!GoneLeavesNothing
  BY DEF Transfer!Init, Transfer!JoinedIsRecorded, Transfer!GoneLeavesNothing
<1> QED
  BY <1>1, <1>2, <1>3 DEF Transfer!TransferIInv

LEMMA TransferGoesOn == Transfer!TransferIInv /\ Transfer!Next => Transfer!TransferIInv'
  BY TransferPutPart, TransferClaim, TransferStorePart, TransferRecordPart, TransferComplete, TransferJoin, TransferInspect,
     TransferPublish, TransferBeginRemoval, TransferErase, TransferBury, TransferDies, TransferTime
     DEF Transfer!Next, Transfer!Remove, Transfer!Download, Transfer!CleanUp

LEMMA TransferStands ==
  Transfer!TransferIInv => Transfer!TypeOK /\ Transfer!CompleteIsWhole /\ Transfer!RemovedLeavesNothing
<1> SUFFICES ASSUME Transfer!TransferIInv PROVE Transfer!TypeOK /\ Transfer!CompleteIsWhole /\ Transfer!RemovedLeavesNothing
  OBVIOUS
<1>1. Transfer!Kinds /\ Transfer!TypeOK /\ Transfer!JoinedIsRecorded /\ Transfer!GoneLeavesNothing
  BY DEF Transfer!TransferIInv, Transfer!Kinds
<1>2. Transfer!CompleteIsWhole
  BY <1>1 DEF Transfer!CompleteIsWhole, Transfer!JoinedIsRecorded
<1>3. Transfer!RemovedLeavesNothing
  BY <1>1 DEF Transfer!RemovedLeavesNothing, Transfer!GoneLeavesNothing
<1> QED
  BY <1>1, <1>2, <1>3

HIDE DEF Transfer!NoClaim, Transfer!NoObject, Transfer!Free, Transfer!At

-------------------------------------------------------------------------------
(* DurableOutput: what a tab is at is sound, and every record and file has its owner.*)

USE DEF Durable!NoRecord, Durable!Idle, Durable!At, Durable!o_, Durable!Busy, Durable!Saving, Durable!Owns

\* What a step keeps that puts one tab at the task r.
LEMMA DurableStep ==
  ASSUME Durable!DurableIInv, NEW t \in Tabs, NEW r \in Durable!Tasks, x3' = [x3 EXCEPT ![t] = r],
         x1' \in [Outputs -> Durable!Records \cup {Durable!NoRecord}],
         x6' \subseteq Outputs, x2' \subseteq x6', x7' \subseteq x6', \A o \in Outputs : x1'[o] # Durable!NoRecord => o \in x6',
         Durable!Sound(r)', \A u \in Tabs : u # t => Durable!Agree(r, x3[u]),
         \A s \in Durable!Tasks : Durable!Sound(s) /\ Durable!Agree(s, x3[t]) => Durable!Sound(s)',
         Durable!SavedIsKept', Durable!RecordsHaveBytes',
         \A o \in x2' : \/ x1'[o].storage = "opfs" \/ o \in x9' \/ Durable!Owns(r, o)
                        \/ o \in x2 /\ x1[o].storage # "opfs" /\ o \notin x9 /\ ~Durable!Owns(x3[t], o)
  PROVE  Durable!DurableIInv'
<1>1. x3 \in [Tabs -> Durable!Tasks] /\ x3' \in [Tabs -> Durable!Tasks] /\ \A v \in Tabs : x3'[v] = IF v = t THEN r ELSE x3[v]
  BY DEF Durable!DurableIInv, Durable!DuKinds
<1>2. Durable!DuKinds'
  BY <1>1 DEF Durable!DuKinds
<1>3. ASSUME NEW v \in Tabs PROVE Durable!Sound(x3[v])'
  <2>1. CASE v = t
    <3>1. x3'[v] = r
      BY <1>1, <2>1
    <3> QED
      BY <3>1 DEF Durable!Sound, Durable!SavesAnew, Durable!ReadsTheRecord
  <2>2. CASE v # t
    <3>1. PICK s \in Durable!Tasks : s = x3[v]
      BY <1>1
    <3>2. x3'[v] = s /\ Durable!Sound(s) /\ Durable!Agree(s, x3[t])
      BY <1>1, <2>2, <3>1 DEF Durable!DurableIInv
    <3>3. Durable!Sound(s)'
      BY <3>2
    <3> QED
      BY <3>2, <3>3 DEF Durable!Sound, Durable!SavesAnew, Durable!ReadsTheRecord
  <2> QED
    BY <2>1, <2>2
<1>4. ASSUME NEW u \in Tabs, NEW v \in Tabs, u # v PROVE Durable!Agree(x3[u], x3[v])'
  <2>1. \A a \in Tabs, b \in Tabs : a # b => Durable!Agree(x3[a], x3[b])
    BY DEF Durable!DurableIInv
  <2>2. Durable!Agree(x3'[u], x3'[v])
    BY <1>1, <1>4, <2>1 DEF Durable!Agree
  <2> QED
    BY <2>2 DEF Durable!Agree
<1>5. ASSUME NEW o \in x2' PROVE x1'[o].storage = "opfs" \/ o \in x9' \/ \E u \in Tabs : Durable!Owns(x3'[u], o)
  <2>1. CASE o \in x2 /\ x1[o].storage # "opfs" /\ o \notin x9 /\ ~Durable!Owns(x3[t], o)
    <3>1. PICK u \in Tabs : Durable!Owns(x3[u], o)
      BY <2>1 DEF Durable!DurableIInv, Durable!FilesAreOwned
    <3>2. u # t /\ x3'[u] = x3[u]
      BY <1>1, <2>1, <3>1
    <3> QED
      BY <3>1, <3>2
  <2>2. CASE Durable!Owns(r, o)
    BY <1>1, <2>2
  <2> QED
    BY <2>1, <2>2
<1>6. Durable!FilesAreOwned'
  BY <1>5 DEF Durable!FilesAreOwned
<1> QED
  BY <1>2, <1>3, <1>4, <1>6 DEF Durable!DurableIInv

\* What an action may use of the invariant, of the tab it moves.
LEMMA DurableAt ==
  ASSUME Durable!DurableIInv, NEW t \in Tabs
  PROVE  /\ Durable!DuKinds /\ x3[t] \in Durable!Tasks /\ Durable!Sound(x3[t])
         /\ \A u \in Tabs : u # t => Durable!Agree(x3[t], x3[u])
         /\ Durable!SavedIsKept /\ Durable!RecordsHaveBytes /\ Durable!FilesAreOwned
  BY DEF Durable!DurableIInv, Durable!DuKinds

\* A tab may always end what it does, and a step that leaves records, files
\* and what is kept as they are disturbs nobody.
LEMMA DurableQuietStep ==
  ASSUME Durable!DurableIInv, NEW t \in Tabs, NEW r \in Durable!Tasks, x3' = [x3 EXCEPT ![t] = r],
         UNCHANGED <<x1, x2, x6, x8>>, x7' \subseteq x7, x9 \subseteq x9',
         Durable!Sound(r)', \A u \in Tabs : u # t => Durable!Agree(r, x3[u]),
         \A o \in x2 : Durable!Owns(x3[t], o) => Durable!Owns(r, o) \/ o \in x9'
  PROVE  Durable!DurableIInv'
<1>1. /\ Durable!DuKinds /\ Durable!SavedIsKept /\ Durable!RecordsHaveBytes /\ Durable!FilesAreOwned
  BY DEF Durable!DurableIInv
<1>2. /\ x1' \in [Outputs -> Durable!Records \cup {Durable!NoRecord}] /\ x6' \subseteq Outputs /\ x2' \subseteq x6' /\ x7' \subseteq x6'
      /\ \A o \in Outputs : x1'[o] # Durable!NoRecord => o \in x6'
  BY <1>1 DEF Durable!DuKinds
<1>3. ASSUME NEW s \in Durable!Tasks, Durable!Sound(s) PROVE Durable!Sound(s)'
  <2>1. Durable!SavesAnew(s)'
    BY <1>3 DEF Durable!Sound, Durable!SavesAnew
  <2>2. Durable!ReadsTheRecord(s)'
    BY <1>3 DEF Durable!Sound, Durable!ReadsTheRecord
  <2> QED
    BY <2>1, <2>2 DEF Durable!Sound
<1>4. Durable!SavedIsKept'
  BY <1>1 DEF Durable!SavedIsKept, Durable!Bytes
<1>5. Durable!RecordsHaveBytes'
  BY <1>1 DEF Durable!RecordsHaveBytes, Durable!Bytes
<1>6. \A o \in x2' : \/ x1'[o].storage = "opfs" \/ o \in x9' \/ Durable!Owns(r, o)
                     \/ o \in x2 /\ x1[o].storage # "opfs" /\ o \notin x9 /\ ~Durable!Owns(x3[t], o)
  OBVIOUS
<1> QED
  BY <1>2, <1>3, <1>4, <1>5, <1>6, DurableStep

LEMMA DurableIdle ==
  /\ Durable!Idle \in Durable!Tasks /\ Durable!Sound(Durable!Idle)'
  /\ \A s \in Durable!Tasks : Durable!Agree(Durable!Idle, s)
  BY DEF Durable!Tasks, Durable!Works, Durable!Sound, Durable!SavesAnew, Durable!ReadsTheRecord, Durable!Agree

\* A tab without a task takes one of an id: nobody saves it, and what it reads
\* of the record is where the others know it to be.
LEMMA DurableReads ==
  ASSUME Durable!DurableIInv, NEW t \in Tabs, NEW o \in Outputs, x1[o] # Durable!NoRecord, NEW r \in Durable!Tasks,
         r.do \in {"complete", "delete", "load"}, r.id = o, r.seen = x1[o]
  PROVE  /\ o \in x6 /\ r.seen \in Durable!Records
         /\ \A u \in Tabs : u # t => Durable!Agree(r, x3[u])
<1>1. Durable!DuKinds
  BY DEF Durable!DurableIInv
<1>2. o \in x6 /\ r.seen \in Durable!Records
  BY <1>1 DEF Durable!DuKinds
<1>3. ASSUME NEW u \in Tabs, u # t, x3[u].id = o, Durable!Busy(x3[u])
      PROVE  ~Durable!Saving(x3[u]) /\ x3[u].seen.storage = x1[o].storage
  BY <1>1, <1>2, <1>3 DEF Durable!DurableIInv, Durable!DuKinds, Durable!Tasks, Durable!Works, Durable!Sound, Durable!SavesAnew,
     Durable!ReadsTheRecord, Durable!Records
<1> QED
  BY <1>2, <1>3 DEF Durable!Agree

LEMMA DurableSaveBegin ==
  ASSUME Durable!DurableIInv, NEW t \in Tabs, NEW o \in Outputs, Durable!SaveBegin(t, o)
  PROVE  Durable!DurableIInv'
<1>1. /\ Durable!DuKinds /\ Durable!SavedIsKept /\ Durable!RecordsHaveBytes /\ Durable!FilesAreOwned
      /\ \A u \in Tabs : x3[u] \in Durable!Tasks /\ (Durable!Busy(x3[u]) => x3[u].id \in x6)
  BY DEF Durable!DurableIInv, Durable!DuKinds, Durable!Sound, Durable!SavesAnew
<1>2. PICK r : r = [do |-> "write", id |-> o, seen |-> Durable!NoRecord]
  OBVIOUS
<1>3. /\ x3[t].do = "idle" /\ o \notin x6 /\ x6' = x6 \cup {o} /\ x3' = [x3 EXCEPT ![t] = r]
      /\ UNCHANGED <<x1, x2, x4, x5, x7, x8, x9>>
  BY <1>2 DEF Durable!SaveBegin, Durable!Doing
<1>4. r \in Durable!Tasks /\ r.do = "write" /\ r.id = o
  BY <1>2 DEF Durable!Tasks, Durable!Works
<1>5. Durable!Sound(r)'
  BY <1>1, <1>3, <1>4 DEF Durable!Sound, Durable!SavesAnew, Durable!ReadsTheRecord, Durable!DuKinds
<1>6. \A u \in Tabs : u # t => Durable!Agree(r, x3[u])
  BY <1>1, <1>3, <1>4 DEF Durable!Agree
<1>7. /\ x1' \in [Outputs -> Durable!Records \cup {Durable!NoRecord}] /\ x6' \subseteq Outputs /\ x2' \subseteq x6' /\ x7' \subseteq x6'
      /\ \A p \in Outputs : x1'[p] # Durable!NoRecord => p \in x6'
  BY <1>1, <1>3 DEF Durable!DuKinds
<1>8. ASSUME NEW s \in Durable!Tasks, Durable!Sound(s) PROVE Durable!Sound(s)'
  BY <1>3, <1>8 DEF Durable!Sound, Durable!SavesAnew, Durable!ReadsTheRecord
<1>9. Durable!SavedIsKept' /\ Durable!RecordsHaveBytes'
  BY <1>1, <1>3 DEF Durable!SavedIsKept, Durable!RecordsHaveBytes, Durable!Bytes
<1>10. \A p \in x2' : \/ x1'[p].storage = "opfs" \/ p \in x9' \/ Durable!Owns(r, p)
                      \/ p \in x2 /\ x1[p].storage # "opfs" /\ p \notin x9 /\ ~Durable!Owns(x3[t], p)
  BY <1>3
<1> QED
  BY <1>3, <1>4, <1>5, <1>6, <1>7, <1>8, <1>9, <1>10, DurableStep

\* Reading a record, to mark it, delete it or load it.
LEMMA DurableRead ==
  ASSUME Durable!DurableIInv, NEW t \in Tabs, NEW o \in Outputs,
         Durable!MarkRead(t, o) \/ Durable!DeleteRead(t, o) \/ Durable!LoadRead(t, o)
  PROVE  Durable!DurableIInv'
<1>1. PICK d \in {"complete", "delete", "load"} :
         /\ x3' = [x3 EXCEPT ![t] = [do |-> d, id |-> o, seen |-> x1[o]]]
         /\ x7' \subseteq x7 /\ (d = "delete" => o \notin x7')
  BY DEF Durable!MarkRead, Durable!DeleteRead, Durable!LoadRead, Durable!Doing
<1>2. PICK r : r = [do |-> d, id |-> o, seen |-> x1[o]]
  OBVIOUS
<1>3. /\ x3[t].do = "idle" /\ x1[o] # Durable!NoRecord /\ UNCHANGED <<x1, x2, x6, x8, x9>>
  BY DEF Durable!MarkRead, Durable!DeleteRead, Durable!LoadRead
<1>4. r \in Durable!Tasks /\ r.do = d /\ r.id = o /\ r.seen = x1[o] /\ x3' = [x3 EXCEPT ![t] = r]
  BY <1>1, <1>2 DEF Durable!DurableIInv, Durable!DuKinds, Durable!Tasks, Durable!Works
<1>5. o \in x6 /\ r.seen \in Durable!Records /\ \A u \in Tabs : u # t => Durable!Agree(r, x3[u])
  BY <1>3, <1>4, DurableReads
<1>6. Durable!Sound(r)'
  BY <1>1, <1>3, <1>4, <1>5 DEF Durable!Sound, Durable!SavesAnew, Durable!ReadsTheRecord
<1>7. x7' \subseteq x7 /\ x9 \subseteq x9' /\ UNCHANGED <<x1, x2, x6, x8>> /\ \A p \in x2 : ~Durable!Owns(x3[t], p)
  BY <1>1, <1>3
<1> QED
  BY <1>4, <1>5, <1>6, <1>7, DurableQuietStep

LEMMA DurableWriteFile ==
  ASSUME Durable!DurableIInv, NEW t \in Tabs, Durable!WriteFile(t)
  PROVE  Durable!DurableIInv'
<1>1. PICK o : o = x3[t].id
  OBVIOUS
<1>2. /\ Durable!DuKinds /\ Durable!SavedIsKept /\ Durable!RecordsHaveBytes /\ Durable!FilesAreOwned
      /\ \A u \in Tabs : u # t => Durable!Agree(x3[t], x3[u])
      /\ x3[t].do = "write" /\ o \in x6 /\ o \in Outputs /\ x1[o] = Durable!NoRecord /\ o \notin x2
  BY <1>1, DurableAt DEF Durable!WriteFile, Durable!Sound, Durable!SavesAnew, Durable!DuKinds
<1>3. PICK k \in {"opfs", "indexeddb"} :
         /\ x3' = [x3 EXCEPT ![t] = [do |-> "put", id |-> o, seen |-> [status |-> "pending", storage |-> k]]]
         /\ x2' = x2 \cup {o} \/ (x2' = x2 /\ k = "indexeddb")
         /\ x2' = x2 \cup {o} /\ k = "indexeddb" => o \in x9'
         /\ x9 \subseteq x9'
  <2>1. CASE /\ x2' = x2 \cup {o} /\ x9' = x9
             /\ x3' = [x3 EXCEPT ![t] = [do |-> "put", id |-> o, seen |-> [status |-> "pending", storage |-> "opfs"]]]
    BY <2>1
  <2>2. CASE /\ x2' = x2 /\ x9' = x9
             /\ x3' = [x3 EXCEPT ![t] = [do |-> "put", id |-> o, seen |-> [status |-> "pending", storage |-> "indexeddb"]]]
    <3>1. x2' # x2 \cup {o}
      BY <1>2, <2>2
    <3> QED
      BY <2>2, <3>1
  <2>3. CASE /\ x2' = x2 \cup {o} /\ x9' = x9 \cup {o}
             /\ x3' = [x3 EXCEPT ![t] = [do |-> "put", id |-> o, seen |-> [status |-> "pending", storage |-> "indexeddb"]]]
    BY <2>3
  <2> QED
    BY <1>1, <2>1, <2>2, <2>3 DEF Durable!WriteFile, Durable!Doing
<1>4. UNCHANGED <<x1, x4, x5, x6, x7, x8>>
  BY DEF Durable!WriteFile
<1>5. PICK r : r = [do |-> "put", id |-> o, seen |-> [status |-> "pending", storage |-> k]]
  OBVIOUS
<1>6. r \in Durable!Tasks /\ r.do = "put" /\ r.id = o /\ r.seen \in Durable!Records /\ r.seen.storage = k /\ x3' = [x3 EXCEPT ![t] = r]
  BY <1>2, <1>3, <1>5 DEF Durable!Tasks, Durable!Works, Durable!Records
<1>7. Durable!Sound(r)'
  BY <1>2, <1>3, <1>4, <1>6 DEF Durable!Sound, Durable!SavesAnew, Durable!ReadsTheRecord
<1>8. \A u \in Tabs : u # t => Durable!Agree(r, x3[u])
  BY <1>1, <1>2, <1>6 DEF Durable!Agree
<1>9. /\ x1' \in [Outputs -> Durable!Records \cup {Durable!NoRecord}] /\ x6' \subseteq Outputs /\ x2' \subseteq x6' /\ x7' \subseteq x6'
      /\ \A p \in Outputs : x1'[p] # Durable!NoRecord => p \in x6'
  BY <1>2, <1>3, <1>4 DEF Durable!DuKinds
<1>10. ASSUME NEW s \in Durable!Tasks, Durable!Sound(s), Durable!Agree(s, x3[t]) PROVE Durable!Sound(s)'
  <2>1. Durable!Saving(s) => s.id # o
    BY <1>1, <1>2, <1>10 DEF Durable!Agree
  <2>2. Durable!SavesAnew(s)'
    BY <1>3, <1>4, <1>10, <2>1 DEF Durable!Sound, Durable!SavesAnew
  <2>3. Durable!ReadsTheRecord(s)'
    BY <1>3, <1>4, <1>10 DEF Durable!Sound, Durable!ReadsTheRecord
  <2> QED
    BY <2>2, <2>3 DEF Durable!Sound
<1>11. Durable!SavedIsKept' /\ Durable!RecordsHaveBytes'
  BY <1>2, <1>3, <1>4 DEF Durable!SavedIsKept, Durable!RecordsHaveBytes, Durable!Bytes
<1>12. \A p \in x2' : \/ x1'[p].storage = "opfs" \/ p \in x9' \/ Durable!Owns(r, p)
                      \/ p \in x2 /\ x1[p].storage # "opfs" /\ p \notin x9 /\ ~Durable!Owns(x3[t], p)
  BY <1>2, <1>3, <1>4, <1>6
<1> QED
  BY <1>6, <1>7, <1>8, <1>9, <1>10, <1>11, <1>12, DurableStep

LEMMA DurablePutRecord ==
  ASSUME Durable!DurableIInv, NEW t \in Tabs, Durable!PutRecord(t)
  PROVE  Durable!DurableIInv'
<1>1. PICK o : o = x3[t].id
  OBVIOUS
<1>2. PICK e : e = x3[t].seen
  OBVIOUS
<1>3. /\ Durable!DuKinds /\ Durable!SavedIsKept /\ Durable!RecordsHaveBytes /\ Durable!FilesAreOwned
      /\ \A u \in Tabs : u # t => Durable!Agree(x3[t], x3[u])
      /\ x3[t].do = "put" /\ o \in x6 /\ o \in Outputs /\ x1[o] = Durable!NoRecord /\ e \in Durable!Records
      /\ (e.storage = "opfs" => o \in x2) /\ (e.storage = "indexeddb" /\ o \in x2 => o \in x9)
  BY <1>1, <1>2, DurableAt DEF Durable!PutRecord, Durable!Sound, Durable!SavesAnew, Durable!DuKinds
<1>4. UNCHANGED <<x2, x4, x5, x6, x8, x9>>
  BY DEF Durable!PutRecord, Durable!PutFails, Durable!Doing, Durable!Finish
<1>5. CASE x1' = [x1 EXCEPT ![o] = e] /\ x7' = x7 \cup {o} /\ x3' = [x3 EXCEPT ![t] = Durable!Idle]
  <2>1. /\ x1' \in [Outputs -> Durable!Records \cup {Durable!NoRecord}] /\ x6' \subseteq Outputs /\ x2' \subseteq x6' /\ x7' \subseteq x6'
        /\ \A p \in Outputs : x1'[p] # Durable!NoRecord => p \in x6'
        /\ \A p \in Outputs : x1'[p] = IF p = o THEN e ELSE x1[p]
    BY <1>3, <1>4, <1>5 DEF Durable!DuKinds
  <2>2. ASSUME NEW s \in Durable!Tasks, Durable!Sound(s), Durable!Agree(s, x3[t]) PROVE Durable!Sound(s)'
    <3>1. Durable!Busy(s) => s.id # o /\ s.id \in Outputs
      BY <1>1, <1>3, <2>2 DEF Durable!Agree, Durable!Sound, Durable!SavesAnew, Durable!DuKinds
    <3>2. Durable!SavesAnew(s)'
      BY <1>4, <2>1, <2>2, <3>1 DEF Durable!Sound, Durable!SavesAnew
    <3>3. Durable!ReadsTheRecord(s)'
      BY <1>4, <1>5, <2>1, <2>2, <3>1 DEF Durable!Sound, Durable!ReadsTheRecord
    <3> QED
      BY <3>2, <3>3 DEF Durable!Sound
  <2>3. e # Durable!NoRecord /\ (e.storage = "indexeddb" \/ (e.storage = "opfs" /\ o \in x2))
    BY <1>3 DEF Durable!Records
  <2>4. Durable!SavedIsKept' /\ Durable!RecordsHaveBytes'
    BY <1>3, <1>4, <1>5, <2>1, <2>3 DEF Durable!SavedIsKept, Durable!RecordsHaveBytes, Durable!Bytes, Durable!DuKinds
  <2>5. \A p \in x2' : \/ x1'[p].storage = "opfs" \/ p \in x9' \/ Durable!Owns(Durable!Idle, p)
                       \/ p \in x2 /\ x1[p].storage # "opfs" /\ p \notin x9 /\ ~Durable!Owns(x3[t], p)
    BY <1>1, <1>3, <1>4, <2>1, <2>3 DEF Durable!DuKinds
  <2>6. \A u \in Tabs : u # t => Durable!Agree(Durable!Idle, x3[u])
    BY <1>3, DurableIdle DEF Durable!DuKinds
  <2> QED
    BY <1>5, <2>1, <2>2, <2>4, <2>5, <2>6, DurableIdle, DurableStep
<1>6. CASE Durable!PutFails(t) /\ UNCHANGED <<x1, x7>>
  <2>1. CASE e.storage = "opfs"
    <3>1. PICK r : r = [do |-> "unlink", id |-> o, seen |-> e]
      OBVIOUS
    <3>2. x3' = [x3 EXCEPT ![t] = r] /\ r \in Durable!Tasks /\ r.do = "unlink" /\ r.id = o /\ r.seen = e
      BY <1>1, <1>2, <1>3, <1>6, <2>1, <3>1 DEF Durable!PutFails, Durable!Doing, Durable!Tasks, Durable!Works
    <3>3. \A u \in Tabs : u # t => Durable!Agree(r, x3[u])
      BY <1>1, <1>3, <3>2 DEF Durable!Agree
    <3>4. o \notin x7
      BY <1>3 DEF Durable!SavedIsKept
    <3>5. Durable!Sound(r)'
      BY <1>3, <1>4, <1>6, <2>1, <3>2, <3>4 DEF Durable!Sound, Durable!SavesAnew, Durable!ReadsTheRecord
    <3>6. /\ UNCHANGED <<x1, x2, x6, x8>> /\ x7' \subseteq x7 /\ x9 \subseteq x9'
          /\ \A p \in x2 : Durable!Owns(x3[t], p) => Durable!Owns(r, p) \/ p \in x9'
      BY <1>1, <1>4, <1>6, <3>2
    <3> QED
      BY <3>2, <3>3, <3>5, <3>6, DurableQuietStep
  <2>2. CASE e.storage # "opfs"
    <3>1. x3' = [x3 EXCEPT ![t] = Durable!Idle]
      BY <1>2, <1>6, <2>2 DEF Durable!PutFails, Durable!Finish
    <3>2. e.storage = "indexeddb"
      BY <1>3, <2>2 DEF Durable!Records
    <3>3. /\ UNCHANGED <<x1, x2, x6, x8>> /\ x7' \subseteq x7 /\ x9 \subseteq x9'
          /\ \A p \in x2 : Durable!Owns(x3[t], p) => p \in x9'
      BY <1>1, <1>3, <1>4, <1>6, <3>2
    <3>4. \A u \in Tabs : u # t => Durable!Agree(Durable!Idle, x3[u])
      BY <1>3, DurableIdle DEF Durable!DuKinds
    <3> QED
      BY <3>1, <3>3, <3>4, DurableIdle, DurableQuietStep
  <2> QED
    BY <2>1, <2>2
<1> QED
  BY <1>1, <1>2, <1>5, <1>6 DEF Durable!PutRecord, Durable!Finish

\* A tab ends what it does, having left no file of its own behind unseen.
LEMMA DurableEnds ==
  ASSUME Durable!DurableIInv, NEW t \in Tabs, x3' = [x3 EXCEPT ![t] = Durable!Idle],
         UNCHANGED <<x1, x2, x6, x8>>, x7' \subseteq x7, x9 \subseteq x9',
         \A o \in x2 : Durable!Owns(x3[t], o) => o \in x9'
  PROVE  Durable!DurableIInv'
<1>1. \A u \in Tabs : u # t => Durable!Agree(Durable!Idle, x3[u])
  BY DurableIdle DEF Durable!DurableIInv, Durable!DuKinds
<1>2. \A o \in x2 : Durable!Owns(x3[t], o) => Durable!Owns(Durable!Idle, o) \/ o \in x9'
  OBVIOUS
<1> QED
  BY <1>1, <1>2, DurableIdle, DurableQuietStep

LEMMA DurableUnlink ==
  ASSUME Durable!DurableIInv, NEW t \in Tabs, Durable!Unlink(t)
  PROVE  Durable!DurableIInv'
<1>1. PICK o : o = x3[t].id
  OBVIOUS
<1>2. /\ Durable!DuKinds /\ Durable!SavedIsKept /\ Durable!RecordsHaveBytes /\ Durable!FilesAreOwned
      /\ \A u \in Tabs : u # t => Durable!Agree(x3[t], x3[u])
      /\ x3[t].do = "unlink" /\ x3[t].seen.storage = "opfs" /\ o \notin x7 /\ (x1[o] = Durable!NoRecord \/ o \in x8)
      /\ x1[o].storage \in {"none", "opfs"}
  BY <1>1, DurableAt DEF Durable!Unlink, Durable!Sound, Durable!ReadsTheRecord
<1>3. x3' = [x3 EXCEPT ![t] = Durable!Idle] /\ UNCHANGED <<x1, x4, x5, x6, x7, x8>>
  BY DEF Durable!Unlink, Durable!Finish
<1>4. CASE x2' = x2 \ {o} /\ x9' = x9
  <2>1. /\ x1' \in [Outputs -> Durable!Records \cup {Durable!NoRecord}] /\ x6' \subseteq Outputs /\ x2' \subseteq x6' /\ x7' \subseteq x6'
        /\ \A p \in Outputs : x1'[p] # Durable!NoRecord => p \in x6'
    BY <1>2, <1>3, <1>4 DEF Durable!DuKinds
  <2>2. ASSUME NEW s \in Durable!Tasks, Durable!Sound(s), Durable!Agree(s, x3[t]) PROVE Durable!Sound(s)'
    <3>1. Durable!Saving(s) => s.id # o
      BY <1>1, <1>2, <2>2 DEF Durable!Agree
    <3>2. Durable!SavesAnew(s)'
      BY <1>3, <1>4, <2>2, <3>1 DEF Durable!Sound, Durable!SavesAnew
    <3>3. Durable!ReadsTheRecord(s)'
      BY <1>3, <1>4, <2>2 DEF Durable!Sound, Durable!ReadsTheRecord
    <3> QED
      BY <3>2, <3>3 DEF Durable!Sound
  <2>3. Durable!SavedIsKept' /\ Durable!RecordsHaveBytes'
    BY <1>2, <1>3, <1>4 DEF Durable!SavedIsKept, Durable!RecordsHaveBytes, Durable!Bytes
  <2>4. \A p \in x2' : \/ x1'[p].storage = "opfs" \/ p \in x9' \/ Durable!Owns(Durable!Idle, p)
                       \/ p \in x2 /\ x1[p].storage # "opfs" /\ p \notin x9 /\ ~Durable!Owns(x3[t], p)
    BY <1>1, <1>3, <1>4
  <2>5. \A u \in Tabs : u # t => Durable!Agree(Durable!Idle, x3[u])
    BY <1>2, DurableIdle DEF Durable!DuKinds
  <2> QED
    BY <1>3, <2>1, <2>2, <2>3, <2>4, <2>5, DurableIdle, DurableStep
<1>5. CASE x9' = x9 \cup {o} /\ x2' = x2
  <2>1. UNCHANGED <<x1, x2, x6, x8>> /\ x7' \subseteq x7 /\ x9 \subseteq x9' /\ \A p \in x2 : Durable!Owns(x3[t], p) => p \in x9'
    BY <1>1, <1>3, <1>5
  <2> QED
    BY <1>3, <2>1, DurableEnds
<1> QED
  BY <1>1, <1>4, <1>5 DEF Durable!Unlink

LEMMA DurableMarkPut ==
  ASSUME Durable!DurableIInv, NEW t \in Tabs, Durable!MarkPut(t)
  PROVE  Durable!DurableIInv'
<1>1. PICK o : o = x3[t].id
  OBVIOUS
<1>2. PICK e : e = [x3[t].seen EXCEPT !.status = "completed"]
  OBVIOUS
<1>3. /\ Durable!DuKinds /\ Durable!SavedIsKept /\ Durable!RecordsHaveBytes /\ Durable!FilesAreOwned
      /\ \A u \in Tabs : u # t => Durable!Agree(x3[t], x3[u])
      /\ x3[t].do = "complete" /\ o \in x6 /\ o \in Outputs /\ e \in Durable!Records
      /\ x3[t].seen.storage = e.storage /\ x1[o].storage \in {"none", e.storage}
  BY <1>1, <1>2, DurableAt DEF Durable!MarkPut, Durable!Sound, Durable!SavesAnew, Durable!ReadsTheRecord, Durable!DuKinds,
     Durable!Records
<1>4. UNCHANGED <<x2, x4, x5, x6, x7, x9>> /\ x3' = [x3 EXCEPT ![t] = Durable!Idle]
  BY DEF Durable!MarkPut, Durable!Finish
<1>5. CASE x1' = [x1 EXCEPT ![o] = e] /\ x8' = IF x1[o] = Durable!NoRecord THEN x8 \cup {o} ELSE x8
  <2>1. /\ x1' \in [Outputs -> Durable!Records \cup {Durable!NoRecord}] /\ x6' \subseteq Outputs /\ x2' \subseteq x6' /\ x7' \subseteq x6'
        /\ \A p \in Outputs : x1'[p] # Durable!NoRecord => p \in x6'
        /\ \A p \in Outputs : x1'[p] = IF p = o THEN e ELSE x1[p]
    BY <1>3, <1>4, <1>5 DEF Durable!DuKinds
  <2>2. x8 \subseteq x8' /\ (x1[o] = Durable!NoRecord => o \in x8')
    BY <1>5
  <2>3. ASSUME NEW s \in Durable!Tasks, Durable!Sound(s), Durable!Agree(s, x3[t]) PROVE Durable!Sound(s)'
    <3>1. Durable!Busy(s) => s.id \in Outputs /\ (s.id = o => ~Durable!Saving(s) /\ s.seen.storage = e.storage)
      BY <1>1, <1>3, <2>3 DEF Durable!Agree, Durable!Sound, Durable!SavesAnew, Durable!DuKinds
    <3>2. Durable!SavesAnew(s)'
      BY <1>4, <2>1, <2>3, <3>1 DEF Durable!Sound, Durable!SavesAnew
    <3>3. Durable!ReadsTheRecord(s)'
      BY <1>4, <2>1, <2>2, <2>3, <3>1 DEF Durable!Sound, Durable!ReadsTheRecord
    <3> QED
      BY <3>2, <3>3 DEF Durable!Sound
  <2>4. e # Durable!NoRecord /\ x1[o] \in Durable!Records \cup {Durable!NoRecord} /\ (x1[o] # Durable!NoRecord => x1[o].storage = e.storage)
    BY <1>3 DEF Durable!Records, Durable!DuKinds
  <2>5. Durable!SavedIsKept' /\ Durable!RecordsHaveBytes'
    BY <1>3, <1>4, <2>1, <2>2, <2>4 DEF Durable!SavedIsKept, Durable!RecordsHaveBytes, Durable!Bytes, Durable!DuKinds
  <2>6. \A p \in x2' : \/ x1'[p].storage = "opfs" \/ p \in x9' \/ Durable!Owns(Durable!Idle, p)
                       \/ p \in x2 /\ x1[p].storage # "opfs" /\ p \notin x9 /\ ~Durable!Owns(x3[t], p)
    BY <1>3, <1>4, <2>1, <2>4 DEF Durable!DuKinds
  <2>7. \A u \in Tabs : u # t => Durable!Agree(Durable!Idle, x3[u])
    BY <1>3, DurableIdle DEF Durable!DuKinds
  <2> QED
    BY <1>4, <2>1, <2>3, <2>5, <2>6, <2>7, DurableIdle, DurableStep
<1>6. CASE UNCHANGED <<x1, x8>>
  <2>1. UNCHANGED <<x1, x2, x6, x8>> /\ x7' \subseteq x7 /\ x9 \subseteq x9' /\ \A p \in x2 : Durable!Owns(x3[t], p) => p \in x9'
    BY <1>3, <1>4, <1>6
  <2> QED
    BY <1>4, <2>1, DurableEnds
<1> QED
  BY <1>1, <1>2, <1>5, <1>6 DEF Durable!MarkPut

LEMMA DurableDelete ==
  ASSUME Durable!DurableIInv, NEW t \in Tabs, Durable!Delete(t)
  PROVE  Durable!DurableIInv'
<1>1. PICK o : o = x3[t].id
  OBVIOUS
<1>2. PICK e : e = x3[t].seen
  OBVIOUS
<1>3. /\ Durable!DuKinds /\ Durable!SavedIsKept /\ Durable!RecordsHaveBytes /\ Durable!FilesAreOwned
      /\ \A u \in Tabs : u # t => Durable!Agree(x3[t], x3[u])
      /\ x3[t].do = "delete" /\ o \in x6 /\ o \in Outputs /\ e \in Durable!Records /\ o \notin x7
      /\ x1[o].storage \in {"none", e.storage}
  BY <1>1, <1>2, DurableAt DEF Durable!Delete, Durable!Sound, Durable!SavesAnew, Durable!ReadsTheRecord, Durable!DuKinds
<1>4. UNCHANGED <<x2, x4, x5, x6, x7, x8, x9>>
  BY DEF Durable!Delete
<1>5. ASSUME x1' = [x1 EXCEPT ![o] = Durable!NoRecord], NEW r \in Durable!Tasks, x3' = [x3 EXCEPT ![t] = r],
             Durable!Sound(r)', \A u \in Tabs : u # t => Durable!Agree(r, x3[u]),
             e.storage = "opfs" => Durable!Owns(r, o)
      PROVE  Durable!DurableIInv'
  <2>1. /\ x1' \in [Outputs -> Durable!Records \cup {Durable!NoRecord}] /\ x6' \subseteq Outputs /\ x2' \subseteq x6' /\ x7' \subseteq x6'
        /\ \A p \in Outputs : x1'[p] # Durable!NoRecord => p \in x6'
        /\ \A p \in Outputs : x1'[p] = IF p = o THEN Durable!NoRecord ELSE x1[p]
    BY <1>3, <1>4, <1>5 DEF Durable!DuKinds
  <2>2. ASSUME NEW s \in Durable!Tasks, Durable!Sound(s), Durable!Agree(s, x3[t]) PROVE Durable!Sound(s)'
    <3>1. Durable!Busy(s) => s.id \in Outputs
      BY <1>3, <2>2 DEF Durable!Sound, Durable!SavesAnew, Durable!DuKinds
    <3>2. Durable!SavesAnew(s)'
      BY <1>4, <2>1, <2>2, <3>1 DEF Durable!Sound, Durable!SavesAnew
    <3>3. Durable!ReadsTheRecord(s)'
      BY <1>4, <2>1, <2>2, <3>1 DEF Durable!Sound, Durable!ReadsTheRecord
    <3> QED
      BY <3>2, <3>3 DEF Durable!Sound
  <2>3. Durable!SavedIsKept' /\ Durable!RecordsHaveBytes'
    BY <1>3, <1>4, <2>1 DEF Durable!SavedIsKept, Durable!RecordsHaveBytes, Durable!Bytes, Durable!DuKinds
  <2>4. x1[o].storage = "opfs" => e.storage = "opfs"
    BY <1>3
  <2>5. \A p \in x2' : \/ x1'[p].storage = "opfs" \/ p \in x9' \/ Durable!Owns(r, p)
                       \/ p \in x2 /\ x1[p].storage # "opfs" /\ p \notin x9 /\ ~Durable!Owns(x3[t], p)
    BY <1>3, <1>4, <1>5, <2>1, <2>4 DEF Durable!DuKinds
  <2> QED
    BY <1>5, <2>1, <2>2, <2>3, <2>5, DurableStep
<1>6. CASE Durable!DeletesRecord(t)
  <2>1. CASE e.storage = "opfs"
    <3>1. PICK r : r = [do |-> "unlink", id |-> o, seen |-> e]
      OBVIOUS
    <3>2. /\ x3' = [x3 EXCEPT ![t] = r] /\ r \in Durable!Tasks /\ r.do = "unlink" /\ r.id = o /\ r.seen = e
          /\ x1' = [x1 EXCEPT ![o] = Durable!NoRecord] /\ x1'[o] = Durable!NoRecord
      BY <1>1, <1>2, <1>3, <1>6, <2>1, <3>1 DEF Durable!DeletesRecord, Durable!Doing, Durable!Tasks, Durable!Works, Durable!DuKinds
    <3>3. \A u \in Tabs : u # t => Durable!Agree(r, x3[u])
      BY <1>1, <1>2, <1>3, <3>2 DEF Durable!Agree
    <3>4. Durable!Sound(r)'
      BY <1>3, <1>4, <2>1, <3>2 DEF Durable!Sound, Durable!SavesAnew, Durable!ReadsTheRecord
    <3> QED
      BY <1>5, <3>2, <3>3, <3>4
  <2>2. CASE e.storage # "opfs"
    <3>1. x3' = [x3 EXCEPT ![t] = Durable!Idle] /\ x1' = [x1 EXCEPT ![o] = Durable!NoRecord]
      BY <1>1, <1>2, <1>6, <2>2 DEF Durable!DeletesRecord, Durable!Finish
    <3>2. \A u \in Tabs : u # t => Durable!Agree(Durable!Idle, x3[u])
      BY <1>3, DurableIdle DEF Durable!DuKinds
    <3> QED
      BY <1>5, <2>2, <3>1, <3>2, DurableIdle
  <2> QED
    BY <2>1, <2>2
<1>7. CASE x3' = [x3 EXCEPT ![t] = Durable!Idle] /\ x1' = x1
  <2>1. UNCHANGED <<x1, x2, x6, x8>> /\ x7' \subseteq x7 /\ x9 \subseteq x9' /\ \A p \in x2 : Durable!Owns(x3[t], p) => p \in x9'
    BY <1>3, <1>4, <1>7
  <2> QED
    BY <1>7, <2>1, DurableEnds
<1> QED
  BY <1>6, <1>7 DEF Durable!Delete, Durable!Finish

LEMMA DurableLoad ==
  ASSUME Durable!DurableIInv, NEW t \in Tabs, Durable!Load(t)
  PROVE  Durable!DurableIInv'
<1>1. /\ Durable!DuKinds /\ x3[t] \in Durable!Tasks /\ Durable!Sound(x3[t])
      /\ \A u \in Tabs : u # t => Durable!Agree(x3[t], x3[u])
  BY DurableAt
<1>2. x3[t].do = "load" /\ UNCHANGED <<x1, x2, x4, x5, x6, x7, x8, x9>>
  BY DEF Durable!Load
<1>3. /\ UNCHANGED <<x1, x2, x6, x8>> /\ x7' \subseteq x7 /\ x9 \subseteq x9' /\ \A p \in x2 : ~Durable!Owns(x3[t], p)
  BY <1>2
<1>4. CASE Durable!Bytes(x3[t].id, x3[t].seen)
  <2>1. PICK r : r = [do |-> "shown", id |-> x3[t].id, seen |-> x3[t].seen]
    OBVIOUS
  <2>2. x3' = [x3 EXCEPT ![t] = r] /\ r \in Durable!Tasks /\ r.do = "shown" /\ r.id = x3[t].id /\ r.seen = x3[t].seen
    BY <1>1, <1>4, <2>1 DEF Durable!Load, Durable!Doing, Durable!Tasks, Durable!Works
  <2>3. Durable!Sound(r)'
    BY <1>1, <1>2, <2>2 DEF Durable!Sound, Durable!SavesAnew, Durable!ReadsTheRecord
  <2>4. \A u \in Tabs : u # t => Durable!Agree(r, x3[u])
    BY <1>1, <1>2, <2>2 DEF Durable!Agree
  <2> QED
    BY <1>3, <2>2, <2>3, <2>4, DurableQuietStep
<1>5. CASE ~Durable!Bytes(x3[t].id, x3[t].seen)
  <2>1. x3' = [x3 EXCEPT ![t] = Durable!Idle]
    BY <1>5 DEF Durable!Load, Durable!Doing
  <2> QED
    BY <1>3, <2>1, DurableEnds
<1> QED
  BY <1>4, <1>5

LEMMA DurableLeave ==
  ASSUME Durable!DurableIInv, NEW t \in Tabs, Durable!Leave(t) \/ Durable!Crash(t)
  PROVE  Durable!DurableIInv'
<1>1. /\ x3' = [x3 EXCEPT ![t] = Durable!Idle] /\ UNCHANGED <<x1, x2, x6, x8>> /\ x7' \subseteq x7 /\ x9 \subseteq x9'
      /\ \A o \in x2 : Durable!Owns(x3[t], o) => o \in x9'
  BY DEF Durable!Leave, Durable!Crash, Durable!Finish
<1> QED
  BY <1>1, DurableEnds

\* A record grows old: no tab moves.
LEMMA DurableAge ==
  ASSUME Durable!DurableIInv, UNCHANGED <<x1, x2, x3, x6, x7, x8, x9>>
  PROVE  Durable!DurableIInv'
<1>1. Durable!DuKinds'
  BY DEF Durable!DurableIInv, Durable!DuKinds
<1>2. \A t \in Tabs : Durable!Sound(x3[t])'
  BY DEF Durable!DurableIInv, Durable!Sound, Durable!SavesAnew, Durable!ReadsTheRecord
<1>3. \A t, u \in Tabs : t # u => Durable!Agree(x3[t], x3[u])'
  BY DEF Durable!DurableIInv, Durable!Agree
<1>4. Durable!SavedIsKept' /\ Durable!RecordsHaveBytes' /\ Durable!FilesAreOwned'
  BY DEF Durable!DurableIInv, Durable!SavedIsKept, Durable!RecordsHaveBytes, Durable!FilesAreOwned, Durable!Bytes
<1> QED
  BY <1>1, <1>2, <1>3, <1>4 DEF Durable!DurableIInv

LEMMA DurableBegins == Durable!DuInit => Durable!DurableIInv
<1> SUFFICES ASSUME Durable!DuInit PROVE Durable!DurableIInv
  OBVIOUS
<1>1. Durable!DuKinds
  BY DEF Durable!DuInit, Durable!DuKinds, Durable!Tasks, Durable!Works
<1>2. ASSUME NEW t \in Tabs PROVE Durable!Sound(x3[t])
  BY DEF Durable!DuInit, Durable!Sound, Durable!SavesAnew, Durable!ReadsTheRecord
<1>3. ASSUME NEW t \in Tabs, NEW u \in Tabs PROVE Durable!Agree(x3[t], x3[u])
  BY DEF Durable!DuInit, Durable!Agree
<1>4. Durable!SavedIsKept /\ Durable!RecordsHaveBytes /\ Durable!FilesAreOwned
  BY DEF Durable!DuInit, Durable!SavedIsKept, Durable!RecordsHaveBytes, Durable!FilesAreOwned
<1> QED
  BY <1>1, <1>2, <1>3, <1>4 DEF Durable!DurableIInv

LEMMA DurableGoesOn == Durable!DurableIInv /\ Durable!DuNext => Durable!DurableIInv'
<1> SUFFICES ASSUME Durable!DurableIInv, Durable!DuNext PROVE Durable!DurableIInv'
  OBVIOUS
<1>1. CASE \E o \in Outputs : Durable!Age(o)
  BY <1>1, DurableAge DEF Durable!Age
<1> QED
  BY <1>1, DurableSaveBegin, DurableRead, DurableWriteFile, DurablePutRecord, DurableUnlink, DurableMarkPut, DurableDelete,
     DurableLoad, DurableLeave DEF Durable!DuNext

LEMMA DurableStands ==
  Durable!DurableIInv => Durable!DuTypeOK /\ Durable!SavedIsKept /\ Durable!RecordsHaveBytes /\ Durable!FilesAreOwned
<1> SUFFICES ASSUME Durable!DurableIInv
    PROVE Durable!DuTypeOK /\ Durable!SavedIsKept /\ Durable!RecordsHaveBytes /\ Durable!FilesAreOwned
  OBVIOUS
<1>1. \A o \in Outputs : x1[o] \in [status : {"none", "pending", "completed"}, storage : {"none", "opfs", "indexeddb"}]
  BY DEF Durable!DurableIInv, Durable!DuKinds, Durable!Records
<1>2. Durable!DuTypeOK
  BY <1>1 DEF Durable!DurableIInv, Durable!DuKinds, Durable!DuTypeOK, Durable!Tasks
<1> QED
  BY <1>2 DEF Durable!DurableIInv

\* Only the first save, of an id without a record, writes "pending".
LEMMA DurableForGood == Durable!DurableIInv /\ Durable!DuNext => Durable!ConfirmedForGood
<1> SUFFICES ASSUME Durable!DurableIInv, Durable!DuNext, NEW o \in Outputs, x1[o].status = "completed", x1'[o] # Durable!NoRecord
             PROVE  x1'[o].status = "completed"
  BY DEF Durable!ConfirmedForGood
<1>1. x1 \in [Outputs -> Durable!Records \cup {Durable!NoRecord}]
  BY DEF Durable!DurableIInv, Durable!DuKinds
<1>2. CASE x1' = x1
  BY <1>2
<1>3. ASSUME NEW t \in Tabs, Durable!PutRecord(t), x1' # x1 PROVE x1'[o].status = "completed"
  <2>1. x1' = [x1 EXCEPT ![x3[t].id] = x3[t].seen] /\ x1[x3[t].id] = Durable!NoRecord
    BY <1>3, DurableAt DEF Durable!PutRecord, Durable!Sound, Durable!SavesAnew
  <2>2. x3[t].id # o
    BY <2>1
  <2> QED
    BY <1>1, <2>1, <2>2
<1>4. ASSUME NEW t \in Tabs, Durable!MarkPut(t), x1' # x1 PROVE x1'[o].status = "completed"
  <2>1. x1' = [x1 EXCEPT ![x3[t].id] = [x3[t].seen EXCEPT !.status = "completed"]] /\ x3[t].seen \in Durable!Records
    BY <1>4, DurableAt DEF Durable!MarkPut, Durable!Sound, Durable!ReadsTheRecord
  <2> QED
    BY <1>1, <2>1 DEF Durable!Records
<1>5. ASSUME NEW t \in Tabs, Durable!Delete(t), x1' # x1 PROVE x1'[o].status = "completed"
  <2>1. x1' = [x1 EXCEPT ![x3[t].id] = Durable!NoRecord]
    BY <1>5 DEF Durable!Delete, Durable!DeletesRecord
  <2> QED
    BY <1>1, <2>1
<1> QED
  BY <1>2, <1>3, <1>4, <1>5 DEF Durable!DuNext, Durable!SaveBegin, Durable!MarkRead, Durable!DeleteRead, Durable!LoadRead,
     Durable!WriteFile, Durable!Unlink, Durable!Load, Durable!Leave, Durable!Crash, Durable!Age

HIDE DEF Durable!NoRecord, Durable!Idle, Durable!At, Durable!o_, Durable!Busy, Durable!Saving, Durable!Owns

-------------------------------------------------------------------------------
(* ProviderCallback: a post takes its attempt once and proves the session it is of.*)

USE DEF Callback!Nobody, Callback!Trial, Callback!Idle, Callback!At, Callback!Of, Callback!Proved, Callback!Holds

CallbackTypes ==
  /\ x1 \in [Attempts -> [status : {"new", "open", "consumed", "expired"}, provider : Callback!Providers,
                          intent : {"login", "link", "reauthenticate"},
                          by : People \cup {"trial", "nobody"}, session : 0 .. MaxLogins]]
  /\ x5 \in 0 .. MaxLogins /\ x3 \in 0 .. x5
  /\ x4 \in [1 .. MaxLogins -> People \cup {"nobody"}]
  /\ x6 \in [Subjects -> People \cup {"nobody"}]
  /\ x7 \in [Attempts -> [is : {"none", "code", "error"}, subject : Subjects \cup {"nobody"}]]
  /\ x11 \in [Attempts -> [told : Nat, changed : Nat]]

\* What a step keeps that brings one post to r.
LEMMA CallbackStep ==
  ASSUME Callback!CallbackIInv, NEW c \in Posts, NEW r \in Callback!Served, x8' = [x8 EXCEPT ![c] = r], CallbackTypes',
         Callback!Sound(r)', Callback!Holds(r) => \A u \in Posts : u # c /\ Callback!Holds(x8[u]) => x8[u].of # r.of,
         \A s \in Callback!Served :
            Callback!Sound(s) /\ (Callback!Holds(s) /\ Callback!Holds(x8[c]) => s.of # x8[c].of) => Callback!Sound(s)',
         \A i \in Attempts : Callback!Counted(i)'
  PROVE  Callback!CallbackIInv'
<1>1. x8 \in [Posts -> Callback!Served] /\ x8' \in [Posts -> Callback!Served] /\ \A v \in Posts : x8'[v] = IF v = c THEN r ELSE x8[v]
  BY DEF Callback!CallbackIInv, Callback!Kinds
<1>2. Callback!Kinds'
  BY <1>1 DEF Callback!Kinds, CallbackTypes
<1>3. ASSUME NEW v \in Posts PROVE Callback!Sound(x8[v])'
  <2>1. CASE v = c
    <3>1. x8'[v] = r
      BY <1>1, <2>1
    <3> QED
      BY <3>1 DEF Callback!Sound, Callback!TakesItsAttempt, Callback!ProvedItsSession
  <2>2. CASE v # c
    <3>1. PICK s \in Callback!Served : s = x8[v]
      BY <1>1
    <3>2. x8'[v] = s /\ Callback!Sound(s) /\ (Callback!Holds(s) /\ Callback!Holds(x8[c]) => s.of # x8[c].of)
      BY <1>1, <2>2, <3>1 DEF Callback!CallbackIInv
    <3>3. Callback!Sound(s)'
      BY <3>2
    <3> QED
      BY <3>2, <3>3 DEF Callback!Sound, Callback!TakesItsAttempt, Callback!ProvedItsSession
  <2> QED
    BY <2>1, <2>2
<1>4. ASSUME NEW u \in Posts, NEW v \in Posts, u # v, Callback!Holds(x8'[u]), Callback!Holds(x8'[v]) PROVE x8'[u].of # x8'[v].of
  <2>1. \A a \in Posts, b \in Posts : a # b /\ Callback!Holds(x8[a]) /\ Callback!Holds(x8[b]) => x8[a].of # x8[b].of
    BY DEF Callback!CallbackIInv
  <2> QED
    BY <1>1, <1>4, <2>1
<1> QED
  BY <1>2, <1>3, <1>4 DEF Callback!CallbackIInv

\* What a step keeps that leaves the posts where they are.
LEMMA CallbackAside ==
  ASSUME Callback!CallbackIInv, x8' = x8, CallbackTypes',
         \A s \in Callback!Served : Callback!Sound(s) => Callback!Sound(s)',
         \A i \in Attempts : Callback!Counted(i)'
  PROVE  Callback!CallbackIInv'
<1>1. x8 \in [Posts -> Callback!Served]
  BY DEF Callback!CallbackIInv, Callback!Kinds
<1>2. Callback!Kinds'
  BY <1>1 DEF Callback!Kinds, CallbackTypes
<1>3. ASSUME NEW v \in Posts PROVE Callback!Sound(x8[v])'
  <2>1. PICK s \in Callback!Served : s = x8[v] /\ Callback!Sound(s)
    BY <1>1 DEF Callback!CallbackIInv
  <2>2. Callback!Sound(s)'
    BY <2>1
  <2> QED
    BY <2>1, <2>2 DEF Callback!Sound, Callback!TakesItsAttempt, Callback!ProvedItsSession
<1> QED
  BY <1>2, <1>3 DEF Callback!CallbackIInv

\* What an action may use of the invariant, of the post it moves.
LEMMA CallbackAt ==
  ASSUME Callback!CallbackIInv, NEW c \in Posts
  PROVE  /\ Callback!Kinds /\ x8[c] \in Callback!Served /\ Callback!Sound(x8[c]) /\ \A i \in Attempts : Callback!Counted(i)
         /\ (x8[c].at # "idle" => x8[c].of \in Attempts)
         /\ Callback!Holds(x8[c]) => \A u \in Posts : u # c /\ Callback!Holds(x8[u]) => x8[u].of # x8[c].of
<1>1. Callback!Kinds /\ x8[c] \in Callback!Served /\ Callback!Sound(x8[c]) /\ \A i \in Attempts : Callback!Counted(i)
  BY DEF Callback!CallbackIInv, Callback!Kinds
<1>2. x8[c].at # "idle" => x8[c].of \in Attempts
  BY <1>1 DEF Callback!Sound, Callback!TakesItsAttempt
<1>3. Callback!Holds(x8[c]) => \A u \in Posts : u # c /\ Callback!Holds(x8[u]) => x8[u].of # x8[c].of
  BY DEF Callback!CallbackIInv
<1> QED
  BY <1>1, <1>2, <1>3

LEMMA CallbackIdle == Callback!Idle \in Callback!Served /\ Callback!Sound(Callback!Idle)' /\ ~Callback!Holds(Callback!Idle)
  BY DEF Callback!Served, Callback!Sound, Callback!TakesItsAttempt, Callback!ProvedItsSession

\* A step of a post that changes nothing but the post, its cookies and the
\* consents, of which it may remove its own.
LEMMA CallbackGoes ==
  ASSUME Callback!CallbackIInv, NEW c \in Posts, NEW r \in Callback!Served, x8' = [x8 EXCEPT ![c] = r],
         UNCHANGED <<x1, x3, x4, x5, x6, x7, x11>>, x10' \subseteq x10,
         Callback!Sound(r)', Callback!Holds(r) => Callback!Holds(x8[c]) /\ r.of = x8[c].of
  PROVE  Callback!CallbackIInv'
<1>1. CallbackTypes'
  BY DEF Callback!CallbackIInv, Callback!Kinds, CallbackTypes
<1>2. Callback!Holds(r) => \A u \in Posts : u # c /\ Callback!Holds(x8[u]) => x8[u].of # r.of
  BY CallbackAt
<1>3. ASSUME NEW s \in Callback!Served, Callback!Sound(s) PROVE Callback!Sound(s)'
  BY <1>3 DEF Callback!Sound, Callback!TakesItsAttempt, Callback!ProvedItsSession
<1>4. ASSUME NEW i \in Attempts PROVE Callback!Counted(i)'
  BY <1>4 DEF Callback!CallbackIInv, Callback!Counted
<1> QED
  BY <1>1, <1>2, <1>3, <1>4, CallbackStep

\* A way out: a post that did not take its attempt tells nothing, and one that
\* took it tells of it once.
LEMMA CallbackAnswered ==
  ASSUME Callback!CallbackIInv, NEW c \in Posts, NEW told \in BOOLEAN, Callback!Answered(c, told),
         told => Callback!Holds(x8[c]), x8[c].at # "idle", UNCHANGED <<x1, x3, x4, x5, x6, x7>>, x10' \subseteq x10
  PROVE  Callback!CallbackIInv'
<1>1. PICK i : i = x8[c].of
  OBVIOUS
<1>2. /\ Callback!Kinds /\ Callback!Sound(x8[c]) /\ \A j \in Attempts : Callback!Counted(j)
      /\ i \in Attempts
  BY <1>1, CallbackAt
<1>3. x8' = [x8 EXCEPT ![c] = Callback!Idle] /\ x11' = [x11 EXCEPT ![i].told = IF told THEN @ + 1 ELSE @]
  BY <1>1 DEF Callback!Answered
<1>4. x11 \in [Attempts -> [told : Nat, changed : Nat]]
  BY <1>2 DEF Callback!Kinds
<1>5. CASE ~told
  <2>1. x11' = x11
    BY <1>2, <1>3, <1>4, <1>5
  <2> QED
    BY <1>3, <2>1, CallbackIdle, CallbackGoes
<1>6. CASE told
  <2>1. x11[i].told = 0 /\ x1[i].status = "consumed" /\ x7[i].is # "none"
    BY <1>1, <1>2, <1>6 DEF Callback!Sound, Callback!TakesItsAttempt
  <2>2. x11' = [x11 EXCEPT ![i].told = 1]
    BY <1>2, <1>3, <1>4, <1>6, <2>1
  <2>3. /\ x11' \in [Attempts -> [told : Nat, changed : Nat]] /\ x11'[i].told = 1 /\ x11'[i].changed = x11[i].changed
        /\ \A j \in Attempts : j # i => x11'[j] = x11[j]
    BY <1>2, <1>4, <2>2
  <2>4. CallbackTypes'
    BY <1>2, <2>3 DEF Callback!Kinds, CallbackTypes
  <2>5. ASSUME NEW s \in Callback!Served, Callback!Sound(s), Callback!Holds(s) /\ Callback!Holds(x8[c]) => s.of # x8[c].of
        PROVE  Callback!Sound(s)'
    <3>1. Callback!TakesItsAttempt(s)'
      BY <1>1, <1>6, <2>3, <2>5 DEF Callback!Sound, Callback!TakesItsAttempt
    <3>2. Callback!ProvedItsSession(s)'
      BY <2>5 DEF Callback!Sound, Callback!ProvedItsSession
    <3> QED
      BY <3>1, <3>2 DEF Callback!Sound
  <2>6. ASSUME NEW j \in Attempts PROVE Callback!Counted(j)'
    <3>1. Callback!Counted(j)
      BY <1>2
    <3>2. CASE j = i
      BY <1>4, <2>1, <2>3, <3>1, <3>2 DEF Callback!Counted
    <3>3. CASE j # i
      BY <2>3, <3>1, <3>3 DEF Callback!Counted
    <3> QED
      BY <3>2, <3>3
  <2> QED
    BY <1>3, <2>4, <2>5, <2>6, CallbackIdle, CallbackStep
<1> QED
  BY <1>5, <1>6

LEMMA CallbackBegin ==
  ASSUME Callback!CallbackIInv, NEW i \in Attempts, NEW p \in Callback!Providers,
         NEW intent \in {"login", "link", "reauthenticate"}, Callback!Begin(i, p, intent)
  PROVE  Callback!CallbackIInv'
<1>1. Callback!Kinds /\ \A j \in Attempts : Callback!Counted(j)
  BY DEF Callback!CallbackIInv
<1>2. x1[i].status = "new" /\ UNCHANGED <<x3, x4, x5, x6, x7, x8, x9, x10, x11>>
  BY DEF Callback!Begin
<1>3. PICK by \in People \cup {"trial", "nobody"} :
         x1' = [x1 EXCEPT ![i] = [status |-> "open", provider |-> p, intent |-> intent, by |-> by, session |-> x3]]
  <2>1. Callback!Signed => Callback!SignedInAs \in People \cup {"nobody"}
    BY <1>1, WorkspaceAssumption DEF Callback!Kinds, Callback!Signed, Callback!SignedInAs
  <2> QED
    BY <2>1 DEF Callback!Begin
<1>4. x3 \in 0 .. MaxLogins
  BY <1>1, WorkspaceAssumption DEF Callback!Kinds
<1>5. /\ \A j \in Attempts : j # i => x1'[j] = x1[j]
      /\ x1'[i].status = "open" /\ x7[i].is = "none"
  BY <1>1, <1>2, <1>3 DEF Callback!Kinds, Callback!Counted
<1>6. CallbackTypes'
  BY <1>1, <1>2, <1>3, <1>4 DEF Callback!Kinds, CallbackTypes
<1>7. ASSUME NEW s \in Callback!Served, Callback!Sound(s) PROVE Callback!Sound(s)'
  <2>1. s.at # "idle" => s.of \in Attempts /\ s.of # i
    BY <1>5, <1>7 DEF Callback!Sound, Callback!TakesItsAttempt
  <2>2. Callback!TakesItsAttempt(s)'
    BY <1>2, <1>5, <1>7, <2>1 DEF Callback!Sound, Callback!TakesItsAttempt
  <2>3. Callback!ProvedItsSession(s)'
    BY <1>2, <1>5, <1>7, <2>1 DEF Callback!Sound, Callback!ProvedItsSession
  <2> QED
    BY <2>2, <2>3 DEF Callback!Sound
<1>8. ASSUME NEW j \in Attempts PROVE Callback!Counted(j)'
  <2>1. Callback!Counted(j)
    BY <1>1
  <2>2. CASE j = i
    BY <1>2, <1>5, <2>1, <2>2 DEF Callback!Counted
  <2>3. CASE j # i
    BY <1>2, <1>5, <2>1, <2>3 DEF Callback!Counted
  <2> QED
    BY <2>2, <2>3
<1> QED
  BY <1>2, <1>6, <1>7, <1>8, CallbackAside

\* An attempt whose status alone changes.
LEMMA CallbackTaken ==
  ASSUME Callback!Kinds, NEW i \in Attempts, NEW is \in {"consumed", "expired"}, x1' = [x1 EXCEPT ![i].status = is],
         UNCHANGED <<x3, x4, x5, x6, x7, x11>>
  PROVE  /\ CallbackTypes' /\ x1'[i].status = is /\ x1'[i].provider = x1[i].provider
         /\ \A j \in Attempts : j # i => x1'[j] = x1[j]
<1> DEFINE A == [status : {"new", "open", "consumed", "expired"}, provider : Callback!Providers,
             intent : {"login", "link", "reauthenticate"}, by : People \cup {"trial", "nobody"}, session : 0 .. MaxLogins]
<1>1. x1 \in [Attempts -> A]
  BY DEF Callback!Kinds
<1>2. PICK a \in A : a = x1[i]
  BY <1>1
<1>3. PICK r : r = [a EXCEPT !.status = is]
  OBVIOUS
<1>4. r \in A /\ r.status = is /\ r.provider = a.provider
  BY <1>3
<1> HIDE DEF A
<1>5. x1' = [x1 EXCEPT ![i] = r]
  BY <1>1, <1>2, <1>3
<1>6. x1' \in [Attempts -> A] /\ x1'[i] = r /\ \A j \in Attempts : j # i => x1'[j] = x1[j]
  BY <1>1, <1>4, <1>5
<1>7. CallbackTypes'
  BY <1>6 DEF Callback!Kinds, CallbackTypes, A
<1> QED
  BY <1>2, <1>4, <1>6, <1>7

LEMMA CallbackExpire ==
  ASSUME Callback!CallbackIInv, NEW i \in Attempts, Callback!Expire(i)
  PROVE  Callback!CallbackIInv'
<1>1. Callback!Kinds /\ \A j \in Attempts : Callback!Counted(j)
  BY DEF Callback!CallbackIInv
<1>2. /\ x1[i].status = "open" /\ x1' = [x1 EXCEPT ![i].status = "expired"]
      /\ UNCHANGED <<x3, x4, x5, x6, x7, x8, x9, x10, x11>>
  BY DEF Callback!Expire
<1>3. /\ CallbackTypes' /\ x1'[i].status = "expired" /\ x1'[i].provider = x1[i].provider
      /\ \A j \in Attempts : j # i => x1'[j] = x1[j]
  BY <1>1, <1>2, CallbackTaken
<1>4. ASSUME NEW s \in Callback!Served, Callback!Sound(s) PROVE Callback!Sound(s)'
  <2>1. Callback!Holds(s) => s.of \in Attempts /\ s.of # i
    BY <1>2, <1>4 DEF Callback!Sound, Callback!TakesItsAttempt
  <2>2. Callback!TakesItsAttempt(s)'
    BY <1>2, <1>3, <1>4, <2>1 DEF Callback!Sound, Callback!TakesItsAttempt
  <2>3. Callback!ProvedItsSession(s)'
    BY <1>2, <1>3, <1>4, <2>1 DEF Callback!Sound, Callback!ProvedItsSession
  <2> QED
    BY <2>2, <2>3 DEF Callback!Sound
<1>5. ASSUME NEW j \in Attempts PROVE Callback!Counted(j)'
  <2>1. Callback!Counted(j)
    BY <1>1
  <2>2. CASE j = i
    BY <1>2, <1>3, <2>1, <2>2 DEF Callback!Counted
  <2>3. CASE j # i
    BY <1>2, <1>3, <2>1, <2>3 DEF Callback!Counted
  <2> QED
    BY <2>2, <2>3
<1> QED
  BY <1>2, <1>3, <1>4, <1>5, CallbackAside

LEMMA CallbackProviderAnswers ==
  ASSUME Callback!CallbackIInv, NEW i \in Attempts, Callback!ProviderAnswers(i)
  PROVE  Callback!CallbackIInv'
<1>1. Callback!Kinds /\ \A j \in Attempts : Callback!Counted(j)
  BY DEF Callback!CallbackIInv
<1>2. x1[i].status # "new" /\ x7[i].is = "none" /\ UNCHANGED <<x1, x3, x4, x5, x6, x8, x9, x11>>
  BY DEF Callback!ProviderAnswers
<1>3. /\ x7' \in [Attempts -> [is : {"none", "code", "error"}, subject : Subjects \cup {"nobody"}]]
      /\ x7'[i].is # "none" /\ (x7'[i].is = "code" => x7'[i].subject \in Subjects)
      /\ \A j \in Attempts : j # i => x7'[j] = x7[j]
  <2>1. ASSUME NEW s \in Subjects, x7' = [x7 EXCEPT ![i] = [is |-> "code", subject |-> s]] PROVE <1>3
    BY <1>1, <2>1 DEF Callback!Kinds
  <2>2. CASE x7' = [x7 EXCEPT ![i].is = "error"]
    BY <1>1, <2>2 DEF Callback!Kinds
  <2> QED
    BY <2>1, <2>2 DEF Callback!ProviderAnswers
<1>4. \/ x10' = x10
      \/ x10' = x10 \cup {i} /\ x7'[i].is = "code" /\ x1[i].provider = "line"
  BY <1>1 DEF Callback!ProviderAnswers, Callback!Kinds
<1>5. CallbackTypes'
  BY <1>1, <1>2, <1>3 DEF Callback!Kinds, CallbackTypes
<1>6. ASSUME NEW s \in Callback!Served, Callback!Sound(s) PROVE Callback!Sound(s)'
  <2>1. s.at # "idle" => s.of \in Attempts /\ s.of # i
    BY <1>2, <1>6 DEF Callback!Sound, Callback!TakesItsAttempt
  <2>2. Callback!TakesItsAttempt(s)'
    BY <1>2, <1>3, <1>6, <2>1 DEF Callback!Sound, Callback!TakesItsAttempt
  <2>3. Callback!ProvedItsSession(s)'
    BY <1>2, <1>3, <1>4, <1>6, <2>1 DEF Callback!Sound, Callback!ProvedItsSession
  <2> QED
    BY <2>2, <2>3 DEF Callback!Sound
<1>7. ASSUME NEW j \in Attempts PROVE Callback!Counted(j)'
  <2>1. Callback!Counted(j) /\ x11[j].told \in Nat /\ x11[j].changed \in Nat
    BY <1>1 DEF Callback!Kinds
  <2>2. CASE j = i
    \* Nobody has told of an attempt the provider has not answered.
    <3>1. x11[i].changed = 0 /\ x11[i].told = 0
      BY <1>2, <2>1, <2>2 DEF Callback!Counted
    <3>2. i \notin x10
      BY <1>2, <2>1, <2>2 DEF Callback!Counted
    <3> QED
      BY <1>2, <1>3, <1>4, <2>2, <3>1, <3>2 DEF Callback!Counted
  <2>3. CASE j # i
    BY <1>2, <1>3, <1>4, <2>1, <2>3 DEF Callback!Counted
  <2> QED
    BY <2>2, <2>3
<1> QED
  BY <1>2, <1>5, <1>6, <1>7, CallbackAside

LEMMA CallbackPost ==
  ASSUME Callback!CallbackIInv, NEW c \in Posts, NEW i \in Attempts, Callback!Post(c, i)
  PROVE  Callback!CallbackIInv'
<1>1. PICK r : r = [Callback!Idle EXCEPT !.at = "find", !.of = i]
  OBVIOUS
<1>2. x8' = [x8 EXCEPT ![c] = r] /\ x7[i].is # "none" /\ UNCHANGED <<x1, x2, x3, x4, x5, x6, x7, x10, x11>>
  BY <1>1 DEF Callback!Post
<1>3. r \in Callback!Served /\ r.at = "find" /\ r.of = i
  BY <1>1 DEF Callback!Served
<1>4. Callback!Sound(r)'
  BY <1>2, <1>3 DEF Callback!Sound, Callback!TakesItsAttempt, Callback!ProvedItsSession
<1>5. ~Callback!Holds(r) /\ x10' \subseteq x10
  BY <1>2, <1>3
<1> QED
  BY <1>2, <1>3, <1>4, <1>5, CallbackGoes

LEMMA CallbackFind ==
  ASSUME Callback!CallbackIInv, NEW c \in Posts, Callback!Find(c)
  PROVE  Callback!CallbackIInv'
<1>1. /\ x8[c] \in Callback!Served /\ Callback!Sound(x8[c]) /\ x8[c].at = "find" /\ x8 \in [Posts -> Callback!Served]
      /\ UNCHANGED <<x1, x3, x4, x5, x6, x7, x9, x10>>
  BY CallbackAt DEF Callback!Find, Callback!Kinds
<1>2. CASE x8' = [x8 EXCEPT ![c].at = "consume", ![c].matched = TRUE] /\ x11' = x11
  <2>1. PICK r : r = [x8[c] EXCEPT !.at = "consume", !.matched = TRUE]
    OBVIOUS
  <2>2. r \in Callback!Served /\ r.at = "consume" /\ r.of = x8[c].of /\ x8' = [x8 EXCEPT ![c] = r]
    BY <1>1, <1>2, <2>1 DEF Callback!Served
  <2>3. Callback!Sound(r)'
    BY <1>1, <2>2 DEF Callback!Sound, Callback!TakesItsAttempt, Callback!ProvedItsSession
  <2>4. ~Callback!Holds(r) /\ x10' \subseteq x10
    BY <1>1, <2>2
  <2> QED
    BY <1>1, <1>2, <2>2, <2>3, <2>4, CallbackGoes
<1>3. CASE Callback!Answered(c, FALSE)
  BY <1>1, <1>3, CallbackAnswered
<1> QED
  BY <1>2, <1>3 DEF Callback!Find

LEMMA CallbackConsume ==
  ASSUME Callback!CallbackIInv, NEW c \in Posts, Callback!Consume(c)
  PROVE  Callback!CallbackIInv'
<1>1. PICK i : i = x8[c].of
  OBVIOUS
<1>2. /\ Callback!Kinds /\ x8[c] \in Callback!Served /\ Callback!Sound(x8[c]) /\ x8[c].at = "consume" /\ i \in Attempts
      /\ \A j \in Attempts : Callback!Counted(j)
      /\ UNCHANGED <<x3, x4, x5, x6, x7, x9, x10>>
  BY <1>1, CallbackAt DEF Callback!Consume
<1>3. CASE x1[i].status = "open"
  <2>1. PICK r : r = [x8[c] EXCEPT !.at = "identify"]
    OBVIOUS
  <2>2. /\ r \in Callback!Served /\ r.at = "identify" /\ r.of = i /\ x8' = [x8 EXCEPT ![c] = r]
        /\ x1' = [x1 EXCEPT ![i].status = "consumed"] /\ x11' = x11
    BY <1>1, <1>2, <1>3, <2>1 DEF Callback!Consume, Callback!IsOpen, Callback!Goto, Callback!Kinds, Callback!Served
  <2>3. /\ CallbackTypes' /\ x1'[i].status = "consumed" /\ x1'[i].provider = x1[i].provider
        /\ \A j \in Attempts : j # i => x1'[j] = x1[j]
    BY <1>2, <2>2, CallbackTaken
  <2>4. x11[i].told = 0 /\ x7[i].is # "none"
    BY <1>1, <1>2, <1>3 DEF Callback!Counted, Callback!Sound, Callback!TakesItsAttempt
  <2>5. Callback!Sound(r)'
    BY <1>2, <2>2, <2>3, <2>4 DEF Callback!Sound, Callback!TakesItsAttempt, Callback!ProvedItsSession
  \* Whoever holds an attempt has consumed it, so nobody holds this one.
  <2>6. ASSUME NEW u \in Posts, Callback!Holds(x8[u]) PROVE x8[u].of # i
    BY <1>3, <2>6, CallbackAt DEF Callback!Sound, Callback!TakesItsAttempt
  <2>7. ASSUME NEW s \in Callback!Served, Callback!Sound(s) PROVE Callback!Sound(s)'
    <3>1. Callback!Holds(s) => s.of \in Attempts /\ s.of # i
      BY <1>3, <2>7 DEF Callback!Sound, Callback!TakesItsAttempt
    <3>2. Callback!TakesItsAttempt(s)'
      BY <1>2, <2>2, <2>3, <2>7, <3>1 DEF Callback!Sound, Callback!TakesItsAttempt
    <3>3. Callback!ProvedItsSession(s)'
      BY <1>2, <2>2, <2>3, <2>7, <3>1 DEF Callback!Sound, Callback!ProvedItsSession
    <3> QED
      BY <3>2, <3>3 DEF Callback!Sound
  <2>8. ASSUME NEW j \in Attempts PROVE Callback!Counted(j)'
    <3>1. Callback!Counted(j)
      BY <1>2
    <3>2. CASE j = i
      BY <1>2, <2>2, <2>3, <3>1, <3>2 DEF Callback!Counted
    <3>3. CASE j # i
      BY <1>2, <2>2, <2>3, <3>1, <3>3 DEF Callback!Counted
    <3> QED
      BY <3>2, <3>3
  <2> QED
    BY <2>2, <2>3, <2>5, <2>6, <2>7, <2>8, CallbackStep
<1>4. CASE x1[i].status # "open"
  <2>1. Callback!Answered(c, FALSE) /\ UNCHANGED x1
    BY <1>1, <1>4 DEF Callback!Consume, Callback!IsOpen
  <2> QED
    BY <1>2, <2>1, CallbackAnswered
<1> QED
  BY <1>3, <1>4

LEMMA CallbackIdentify ==
  ASSUME Callback!CallbackIInv, NEW c \in Posts, Callback!Identify(c)
  PROVE  Callback!CallbackIInv'
<1>1. PICK i : i = x8[c].of
  OBVIOUS
<1>2. /\ Callback!Kinds /\ x8[c] \in Callback!Served /\ Callback!Sound(x8[c]) /\ x8[c].at = "identify" /\ i \in Attempts
      /\ UNCHANGED <<x1, x3, x4, x5, x6, x7, x9, x10>>
  BY <1>1, CallbackAt DEF Callback!Identify
<1>3. CASE x7[i].is = "code" /\ (IF x1[i].intent = "login" THEN ~Callback!Signed ELSE Callback!Proven(i))
  <2>1. PICK r : r = [x8[c] EXCEPT !.at = "exchange", !.trial = x1[i].by = "trial",
                                   !.session = IF x1[i].intent = "login" THEN 0 ELSE x3]
    OBVIOUS
  <2>2. x8' = [x8 EXCEPT ![c] = r] /\ x11' = x11
    BY <1>1, <1>2, <1>3, <2>1 DEF Callback!Identify, Callback!Kinds
  <2>3. x3 \in Nat
    BY <1>2 DEF Callback!Kinds
  <2>4. /\ r \in Callback!Served /\ r.at = "exchange" /\ r.of = i
        /\ r.session = IF x1[i].intent = "login" THEN 0 ELSE x3
    BY <1>1, <1>2, <2>1, <2>3 DEF Callback!Served
  <2>5. x1[i].intent # "login" => r.session = x1[i].session
    BY <1>3, <2>4 DEF Callback!Proven
  <2>6. Callback!Sound(r)'
    BY <1>1, <1>2, <1>3, <2>2, <2>4, <2>5 DEF Callback!Sound, Callback!TakesItsAttempt, Callback!ProvedItsSession
  <2>7. Callback!Holds(x8[c]) /\ r.of = x8[c].of /\ x10' \subseteq x10
    BY <1>1, <1>2, <2>4
  <2> QED
    BY <1>2, <2>2, <2>4, <2>6, <2>7, CallbackGoes
<1>4. CASE ~(x7[i].is = "code" /\ (IF x1[i].intent = "login" THEN ~Callback!Signed ELSE Callback!Proven(i)))
  <2>1. Callback!Answered(c, TRUE)
    BY <1>1, <1>4 DEF Callback!Identify
  <2> QED
    BY <1>2, <2>1, CallbackAnswered
<1> QED
  BY <1>3, <1>4

\* A post that goes on to the next call of the provider.
LEMMA CallbackCalls ==
  ASSUME Callback!CallbackIInv, NEW c \in Posts, Callback!Proved(x8[c]), NEW next \in {"verify", "deauthorize", "conclude"},
         Callback!Goto(c, next), UNCHANGED <<x1, x3, x4, x5, x6, x7, x11>>, x10' \subseteq x10,
         next = "conclude" => x8[c].of \notin x10'
  PROVE  Callback!CallbackIInv'
<1>1. PICK r : r = [x8[c] EXCEPT !.at = next]
  OBVIOUS
<1>2. Callback!Kinds /\ x8[c] \in Callback!Served /\ Callback!Sound(x8[c])
  BY CallbackAt
<1>3. /\ x8' = [x8 EXCEPT ![c] = r] /\ r \in Callback!Served /\ r.at = next /\ r.of = x8[c].of /\ r.session = x8[c].session
  BY <1>1, <1>2 DEF Callback!Goto, Callback!Kinds, Callback!Served
<1>4. Callback!Sound(r)'
  BY <1>2, <1>3 DEF Callback!Sound, Callback!TakesItsAttempt, Callback!ProvedItsSession
<1> QED
  BY <1>3, <1>4, CallbackGoes

LEMMA CallbackExchange ==
  ASSUME Callback!CallbackIInv, NEW c \in Posts, Callback!Exchange(c) \/ Callback!Verify(c) \/ Callback!Deauthorize(c)
  PROVE  Callback!CallbackIInv'
<1>1. /\ Callback!Kinds /\ Callback!Sound(x8[c]) /\ x8[c].of \in Attempts /\ \A j \in Attempts : Callback!Counted(j)
      /\ x8[c].at \in {"exchange", "verify", "deauthorize"} /\ UNCHANGED <<x1, x3, x4, x5, x6, x7, x9>> /\ x10' \subseteq x10
  BY CallbackAt DEF Callback!Exchange, Callback!Verify, Callback!Deauthorize
<1>2. CASE Callback!Answered(c, TRUE)
  BY <1>1, <1>2, CallbackAnswered
<1>3. CASE Callback!Exchange(c) /\ Callback!Goto(c, "verify") /\ x11' = x11
  BY <1>1, <1>3, CallbackCalls
<1>4. CASE Callback!Verify(c) /\ Callback!Goto(c, IF x1[x8[c].of].provider = "line" THEN "deauthorize" ELSE "conclude") /\ x11' = x11
  <2>1. CASE x1[x8[c].of].provider = "line"
    BY <1>1, <1>4, <2>1, CallbackCalls
  <2>2. CASE x1[x8[c].of].provider # "line"
    <3>1. x8[c].of \notin x10'
      BY <1>1, <2>2 DEF Callback!Counted
    <3> QED
      BY <1>1, <1>4, <2>2, <3>1, CallbackCalls
  <2> QED
    BY <2>1, <2>2
<1>5. CASE Callback!Deauthorize(c) /\ Callback!Goto(c, "conclude") /\ x10' = x10 \ {x8[c].of} /\ x11' = x11
  <2>1. x8[c].of \notin x10'
    BY <1>5
  <2> QED
    BY <1>1, <1>5, <2>1, CallbackCalls
<1> QED
  BY <1>2, <1>3, <1>4, <1>5 DEF Callback!Exchange, Callback!Verify, Callback!Deauthorize

\* Who is signed in, and as whom, is nothing a post relies on: the statements
\* at the end ask again.
LEMMA CallbackSessions ==
  ASSUME Callback!CallbackIInv, (\E a \in People : Callback!PasskeyLogin(a)) \/ Callback!Logout
  PROVE  Callback!CallbackIInv'
<1>1. Callback!Kinds /\ \A j \in Attempts : Callback!Counted(j)
  BY DEF Callback!CallbackIInv
<1>2. UNCHANGED <<x1, x2, x6, x7, x8, x9, x10, x11>>
  BY DEF Callback!PasskeyLogin, Callback!Logout
<1>3. /\ x5' \in 0 .. MaxLogins /\ x3' \in 0 .. x5'
      /\ x4' \in [1 .. MaxLogins -> People \cup {"nobody"}]
  <2>1. ASSUME NEW a \in People, Callback!PasskeyLogin(a) PROVE <1>3
    BY <1>1, <2>1, WorkspaceAssumption DEF Callback!PasskeyLogin, Callback!Kinds
  <2>2. CASE Callback!Logout
    <3>1. x4' = [x4 EXCEPT ![x3] = "nobody"] /\ x3' = 0 /\ x5' = x5
      BY <2>2 DEF Callback!Logout
    <3>2. x5 \in 0 .. MaxLogins /\ x4 \in [1 .. MaxLogins -> People \cup {"nobody"}]
      BY <1>1 DEF Callback!Kinds
    <3>3. x4' \in [1 .. MaxLogins -> People \cup {"nobody"}]
      BY <3>1, <3>2
    <3>4. x5' \in 0 .. MaxLogins /\ x3' \in 0 .. x5'
      BY <3>1, <3>2, WorkspaceAssumption
    <3> QED
      BY <3>3, <3>4
  <2> QED
    BY <2>1, <2>2
<1>4. CallbackTypes'
  BY <1>1, <1>2, <1>3 DEF Callback!Kinds, CallbackTypes
<1>5. ASSUME NEW s \in Callback!Served, Callback!Sound(s) PROVE Callback!Sound(s)'
  BY <1>2, <1>5 DEF Callback!Sound, Callback!TakesItsAttempt, Callback!ProvedItsSession
<1>6. ASSUME NEW i \in Attempts PROVE Callback!Counted(i)'
  BY <1>1, <1>2, <1>6 DEF Callback!Counted
<1> QED
  BY <1>2, <1>4, <1>5, <1>6, CallbackAside

\* What the statements at the end do: they tell once, and change something
\* only for an account they name.
LEMMA CallbackConcludes ==
  ASSUME Callback!CallbackIInv, NEW c \in Posts, Callback!Conclude(c), NEW i \in Attempts, i = x8[c].of
  PROVE  /\ x7[i].subject \in Subjects /\ Callback!Account(c) \in People \cup {"nobody"}
         /\ x11[i].told = 0 /\ x11[i].changed = 0 /\ i \notin x10 /\ x1[i].status = "consumed" /\ x7[i].is = "code"
         /\ x1[i].intent # "login" => x8[c].session = x1[i].session
<1>1. Callback!Kinds /\ Callback!Sound(x8[c]) /\ x8[c].at = "conclude" /\ Callback!Counted(i)
  BY CallbackAt DEF Callback!Conclude
<1>2. /\ x11[i].told = 0 /\ i \notin x10 /\ x1[i].status = "consumed" /\ x7[i].is = "code"
      /\ x1[i].intent # "login" => x8[c].session = x1[i].session
  BY <1>1 DEF Callback!Sound, Callback!TakesItsAttempt, Callback!ProvedItsSession
<1>3. x11[i].changed = 0 /\ x7[i].subject \in Subjects
  BY <1>1, <1>2 DEF Callback!Counted, Callback!Kinds
<1>4. x6[x7[i].subject] \in People \cup {"nobody"}
  BY <1>1, <1>3 DEF Callback!Kinds
<1>5. (CHOOSE a \in People \cup {"nobody"} : a = "nobody" \/ (\A t \in Subjects : x6[t] # a)) \in People \cup {"nobody"}
  OBVIOUS
<1>6. Callback!Account(c) \in People \cup {"nobody"}
  <2>1. x1[x8[c].of].intent \in {"login", "link", "reauthenticate"} /\ x1[x8[c].of].by \in People \cup {"trial", "nobody"}
    BY <1>1 DEF Callback!Kinds
  <2>2. CASE x1[x8[c].of].intent = "reauthenticate"
    BY <1>4, <2>2 DEF Callback!Account
  <2>3. CASE x1[x8[c].of].intent = "link"
    <3>1. Callback!StillIn(c) => x1[x8[c].of].by \in People \cup {"nobody"}
      <4>1. x8[c].session = x1[i].session /\ x1[i].session \in 0 .. MaxLogins
        BY <1>1, <1>2, <2>3 DEF Callback!Kinds
      <4>2. Callback!StillIn(c) => x4[x1[i].session] = x1[i].by /\ x1[i].session # 0
        BY <4>1 DEF Callback!StillIn
      <4> QED
        BY <1>1, <4>1, <4>2, WorkspaceAssumption DEF Callback!Kinds
    <3> QED
      BY <1>4, <2>3, <3>1 DEF Callback!Account
  <2>4. CASE x1[x8[c].of].intent = "login"
    BY <1>4, <1>5, <2>4 DEF Callback!Account
  <2> QED
    BY <2>1, <2>2, <2>3, <2>4
<1> QED
  BY <1>2, <1>3, <1>6

LEMMA CallbackConclude ==
  ASSUME Callback!CallbackIInv, NEW c \in Posts, Callback!Conclude(c)
  PROVE  Callback!CallbackIInv'
<1>1. PICK i \in Attempts : i = x8[c].of
  BY CallbackAt DEF Callback!Conclude
<1>2. PICK a \in People \cup {"nobody"} : a = Callback!Account(c)
  BY <1>1, CallbackConcludes
<1>3. /\ Callback!Kinds /\ \A j \in Attempts : Callback!Counted(j)
      /\ x8[c].at = "conclude" /\ UNCHANGED <<x1, x7, x9, x10>> /\ x8' = [x8 EXCEPT ![c] = Callback!Idle]
  BY CallbackAt DEF Callback!Conclude
<1>4. /\ x7[i].subject \in Subjects /\ x11[i].told = 0 /\ x11[i].changed = 0 /\ i \notin x10
      /\ x1[i].status = "consumed" /\ x7[i].is = "code"
  BY <1>1, CallbackConcludes
<1>5. x11' = [x11 EXCEPT ![i] = [told |-> x11[i].told + 1, changed |-> IF a = "nobody" THEN x11[i].changed ELSE x11[i].changed + 1]]
  BY <1>1, <1>2 DEF Callback!Conclude
<1>6. x11 \in [Attempts -> [told : Nat, changed : Nat]]
  BY <1>3 DEF Callback!Kinds
<1>7. /\ x11' \in [Attempts -> [told : Nat, changed : Nat]] /\ x11'[i].told = 1 /\ x11'[i].changed \in {0, 1}
      /\ \A j \in Attempts : j # i => x11'[j] = x11[j]
  <2>1. PICK n \in {0, 1} : n = IF a = "nobody" THEN 0 ELSE 1
    OBVIOUS
  <2>2. x11' = [x11 EXCEPT ![i] = [told |-> 1, changed |-> n]]
    BY <1>4, <1>5, <2>1
  <2> QED
    BY <1>6, <2>1, <2>2
<1>8. x6' \in [Subjects -> People \cup {"nobody"}]
  <2>1. x6' = IF a = "nobody" THEN x6 ELSE [x6 EXCEPT ![x7[i].subject] = a]
    BY <1>1, <1>2 DEF Callback!Conclude
  <2> QED
    BY <1>3, <2>1 DEF Callback!Kinds
<1>9. /\ x5' \in 0 .. MaxLogins /\ x3' \in 0 .. x5'
      /\ x4' \in [1 .. MaxLogins -> People \cup {"nobody"}]
  <2>1. CASE UNCHANGED <<x3, x4, x5>>
    BY <1>3, <2>1 DEF Callback!Kinds
  <2>2. CASE x5 < MaxLogins /\ x5' = x5 + 1 /\ x4' = [x4 EXCEPT ![x5 + 1] = a] /\ x3' = x5 + 1
    BY <1>3, <2>2, WorkspaceAssumption DEF Callback!Kinds
  <2> QED
    BY <1>2, <2>1, <2>2 DEF Callback!Conclude
<1>10. CallbackTypes'
  BY <1>3, <1>7, <1>8, <1>9 DEF Callback!Kinds, CallbackTypes
<1>11. ASSUME NEW s \in Callback!Served, Callback!Sound(s), Callback!Holds(s) /\ Callback!Holds(x8[c]) => s.of # x8[c].of
       PROVE  Callback!Sound(s)'
  <2>1. Callback!TakesItsAttempt(s)'
    BY <1>1, <1>3, <1>7, <1>11 DEF Callback!Sound, Callback!TakesItsAttempt
  <2>2. Callback!ProvedItsSession(s)'
    BY <1>3, <1>11 DEF Callback!Sound, Callback!ProvedItsSession
  <2> QED
    BY <2>1, <2>2 DEF Callback!Sound
<1>12. ASSUME NEW j \in Attempts PROVE Callback!Counted(j)'
  <2>1. Callback!Counted(j)
    BY <1>3
  <2>2. CASE j = i
    BY <1>3, <1>4, <1>7, <2>1, <2>2 DEF Callback!Counted
  <2>3. CASE j # i
    BY <1>3, <1>7, <2>1, <2>3 DEF Callback!Counted
  <2> QED
    BY <2>2, <2>3
<1> QED
  BY <1>3, <1>10, <1>11, <1>12, CallbackIdle, CallbackStep

LEMMA CallbackInits == Callback!Init => Callback!CallbackIInv
<1> SUFFICES ASSUME Callback!Init PROVE Callback!CallbackIInv
  OBVIOUS
<1>1. Callback!Kinds
  BY WorkspaceAssumption DEF Callback!Init, Callback!Kinds, Callback!Providers, Callback!Served
<1>2. ASSUME NEW c \in Posts PROVE x8[c].at = "idle" /\ Callback!Sound(x8[c])
  BY DEF Callback!Init, Callback!Sound, Callback!TakesItsAttempt, Callback!ProvedItsSession
<1>3. ASSUME NEW i \in Attempts PROVE Callback!Counted(i)
  BY DEF Callback!Init, Callback!Counted
<1> QED
  BY <1>1, <1>2, <1>3 DEF Callback!CallbackIInv

LEMMA CallbackGoesOn == Callback!CallbackIInv /\ Callback!Next => Callback!CallbackIInv'
  BY CallbackBegin, CallbackExpire, CallbackProviderAnswers, CallbackPost, CallbackFind, CallbackConsume, CallbackIdentify,
     CallbackExchange, CallbackConclude, CallbackSessions DEF Callback!Next

LEMMA CallbackStands == Callback!CallbackIInv => Callback!TypeOK /\ Callback!AttemptCountsOnce
<1> SUFFICES ASSUME Callback!CallbackIInv PROVE Callback!TypeOK /\ Callback!AttemptCountsOnce
  OBVIOUS
<1>1. Callback!TypeOK
  BY DEF Callback!CallbackIInv, Callback!Kinds, Callback!TypeOK, Callback!Served
<1>2. Callback!AttemptCountsOnce
  BY DEF Callback!CallbackIInv, Callback!Counted, Callback!AttemptCountsOnce
<1> QED
  BY <1>1, <1>2

\* Only the end of a callback counts a change, and the account it names is the
\* one that began, signed in by the session that began, unless it is a login.
LEMMA CallbackForWhoBegan == Callback!CallbackIInv /\ Callback!Next => Callback!ConcludesForWhoBegan
<1> SUFFICES ASSUME Callback!CallbackIInv, Callback!Next, NEW i \in Attempts,
                    x11'[i].changed # x11[i].changed, x1[i].intent # "login"
             PROVE  /\ x4[x1[i].session] = x1[i].by
                    /\ \A s \in Subjects : x6'[s] \in {x6[s], x1[i].by}
                    /\ x3' # x3 => x4'[x3'] = x1[i].by
  BY DEF Callback!ConcludesForWhoBegan
<1>1. Callback!Kinds
  BY DEF Callback!CallbackIInv
<1>2. PICK c \in Posts : Callback!Conclude(c)
  <2>1. ASSUME NEW c \in Posts, NEW told, Callback!Answered(c, told) PROVE FALSE
    <3>1. x11' = [x11 EXCEPT ![x8[c].of].told = IF told THEN @ + 1 ELSE @]
      BY <2>1 DEF Callback!Answered
    <3> QED
      BY <1>1, <3>1 DEF Callback!Kinds
  <2> QED
    BY <2>1 DEF Callback!Next, Callback!Begin, Callback!Expire, Callback!ProviderAnswers, Callback!Post, Callback!Find,
       Callback!Consume, Callback!Identify, Callback!Exchange, Callback!Verify, Callback!Deauthorize, Callback!PasskeyLogin,
       Callback!Logout
<1>3. i = x8[c].of /\ Callback!Account(c) # "nobody"
  <2>1. x11' = [x11 EXCEPT ![x8[c].of] = [told |-> @.told + 1, changed |-> IF Callback!Account(c) = "nobody"
                                                                              THEN @.changed ELSE @.changed + 1]]
    BY <1>2 DEF Callback!Conclude
  <2> QED
    BY <1>1, <2>1 DEF Callback!Kinds
<1>4. x8[c].session = x1[i].session /\ x7[i].subject \in Subjects
  BY <1>2, <1>3, CallbackConcludes
<1>5. Callback!Account(c) = x1[i].by /\ x4[x1[i].session] = x1[i].by
  <2>1. x1[i].intent \in {"link", "reauthenticate"}
    BY <1>1 DEF Callback!Kinds
  <2> QED
    BY <1>3, <1>4, <2>1 DEF Callback!Account, Callback!StillIn
<1>6. \A s \in Subjects : x6'[s] \in {x6[s], x1[i].by}
  <2>1. x6' = [x6 EXCEPT ![x7[i].subject] = x1[i].by]
    BY <1>2, <1>3, <1>5 DEF Callback!Conclude
  <2> QED
    BY <1>1, <2>1 DEF Callback!Kinds
<1>7. x3' # x3 => x4'[x3'] = x1[i].by
  <2>1. CASE x5 < MaxLogins /\ x5' = x5 + 1 /\ x4' = [x4 EXCEPT ![x5 + 1] = x1[i].by] /\ x3' = x5 + 1
    BY <1>1, <2>1, WorkspaceAssumption DEF Callback!Kinds
  <2> QED
    BY <1>2, <1>3, <1>5, <2>1 DEF Callback!Conclude
<1> QED
  BY <1>5, <1>6, <1>7

HIDE DEF Callback!Nobody, Callback!Trial, Callback!Idle, Callback!At, Callback!Of, Callback!Proved, Callback!Holds

-------------------------------------------------------------------------------
(* PersonalPreferences: what the device, the server and the page keep is fine.*)

USE DEF Settings!Default, Settings!Demo, Settings!Draft, Settings!Nothing, Settings!Usual, Settings!Idle

\* Settings are only ever chosen anew, and what was not allowed for is
\* remembered.
SettingsGrow(b) ==
  /\ x10' \in Seq(Settings(b)!Owners) /\ Len(x10) <= Len(x10') /\ \A n \in 1 .. Len(x10) : x10'[n] = x10[n]
  /\ x12 \subseteq x12'

LEMMA SettingsSame ==
  ASSUME NEW b, Settings(b)!PpKinds, x10' = x10, x12 \subseteq x12'
  PROVE  SettingsGrow(b)
  BY DEF Settings!PpKinds, SettingsGrow

LEMMA SettingsLonger ==
  ASSUME NEW b, Settings(b)!PpKinds, SettingsGrow(b)
  PROVE  /\ Settings(b)!Values \subseteq Settings(b)!Values' /\ Settings(b)!Prefs \subseteq Settings(b)!Prefs'
         /\ Settings(b)!Pages \subseteq Settings(b)!Pages' /\ Settings(b)!Readings \subseteq Settings(b)!Readings'
         /\ Settings(b)!Choices \subseteq Settings(b)!Choices' /\ Settings(b)!Wires \subseteq Settings(b)!Wires'
<1>1. Len(x10) \in Nat /\ Len(x10') \in Nat /\ Len(x10) <= Len(x10')
  BY DEF SettingsGrow, Settings!PpKinds
<1>2. Settings(b)!Values \subseteq Settings(b)!Values'
  BY <1>1 DEF Settings!Values
<1>3. Settings(b)!Prefs \subseteq Settings(b)!Prefs'
  BY <1>2 DEF Settings!Prefs
<1>4. Settings(b)!Pages \subseteq Settings(b)!Pages'
  BY <1>2, <1>3 DEF Settings!Pages
<1>5. Settings(b)!Readings \subseteq Settings(b)!Readings' /\ Settings(b)!Wires \subseteq Settings(b)!Wires'
  BY <1>3 DEF Settings!Readings, Settings!Wires
<1>6. Settings(b)!Choices \subseteq Settings(b)!Choices'
  BY <1>2 DEF Settings!Choices
<1> QED
  BY <1>2, <1>3, <1>4, <1>5, <1>6

\* What is of somebody stays theirs.
LEMMA SettingsStayTheirs ==
  ASSUME NEW b, Settings(b)!PpKinds, SettingsGrow(b), NEW who
  PROVE  /\ \A v \in Settings(b)!Values : Settings(b)!Theirs(v, who) => Settings(b)!Theirs(v, who)'
         /\ \A q \in Settings(b)!Prefs : Settings(b)!BelongTo(q, who) => Settings(b)!BelongTo(q, who)'
<1>1. Len(x10) \in Nat
  BY DEF Settings!PpKinds
<1>2. ASSUME NEW v \in Settings(b)!Values, Settings(b)!Theirs(v, who) PROVE Settings(b)!Theirs(v, who)'
  BY <1>1, <1>2 DEF Settings!Values, Settings!Theirs, SettingsGrow
<1>3. ASSUME NEW q \in Settings(b)!Prefs, Settings(b)!BelongTo(q, who) PROVE Settings(b)!BelongTo(q, who)'
  <2>1. \A f \in {"mode", "words"} : q[f] \in Settings(b)!Values /\ Settings(b)!Theirs(q[f], who)
    BY <1>3 DEF Settings!BelongTo, Settings!Theirs, Settings!Prefs
  <2>2. \A f \in {"mode", "words"} : Settings(b)!Theirs(q[f], who)'
    BY <1>2, <2>1
  <2> QED
    BY <2>2 DEF Settings!BelongTo, Settings!Theirs
<1> QED
  BY <1>2, <1>3

LEMMA SettingsCareful == ASSUME NEW b, SettingsGrow(b) PROVE Settings(b)!Careful' => Settings(b)!Careful
  BY DEF SettingsGrow, Settings!Careful

LEMMA SettingsOwnKept ==
  ASSUME NEW b, Settings(b)!PpKinds, SettingsGrow(b), NEW p \in Settings(b)!Pages, Settings(b)!ShowsItsOwn(p)
  PROVE  Settings(b)!ShowsItsOwn(p)'
<1>1. p.prefs \in Settings(b)!Prefs /\ p.before \in Settings(b)!Values /\ p.key \in Accounts \cup {"anonymous", "none"}
  BY DEF Settings!Pages
<1>2. p.key = "none" => Settings(b)!BelongTo(p.prefs, "person")' /\ Settings(b)!Theirs(p.before, "person")'
  BY <1>1, SettingsStayTheirs DEF Settings!ShowsItsOwn
<1>3. p.key \in Accounts /\ "crossed" \notin x12' => Settings(b)!BelongTo(p.prefs, p.key)' /\ Settings(b)!Theirs(p.before, p.key)'
  BY <1>1, SettingsStayTheirs DEF Settings!ShowsItsOwn, SettingsGrow
<1>4. p.key = "anonymous" /\ "stale" \notin x12' =>
        Settings(b)!BelongTo(p.prefs, "anonymous")' /\ (p.demo => Settings(b)!Theirs(p.before, "anonymous")')
  BY <1>1, SettingsStayTheirs DEF Settings!ShowsItsOwn, SettingsGrow
<1> QED
  BY <1>2, <1>3, <1>4 DEF Settings!ShowsItsOwn

\* What a step keeps that leaves the page as it is.
LEMMA SettingsPageKept ==
  ASSUME NEW b, Settings(b)!PpKinds, SettingsGrow(b), NEW p \in Settings(b)!Pages, Settings(b)!PageSound(p)
  PROVE  Settings(b)!PageSound(p)'
<1>1. Settings(b)!ShowsItsOwn(p)'
  BY SettingsOwnKept DEF Settings!PageSound
<1>2. Settings(b)!SetsAside(p)'
  BY SettingsCareful DEF Settings!PageSound, Settings!SetsAside, Settings!Filled, SettingsGrow
<1> QED
  BY <1>1, <1>2 DEF Settings!PageSound

LEMMA SettingsReadKept ==
  ASSUME NEW b, Settings(b)!PpKinds, SettingsGrow(b), x5'.key = x5.key, x5'.hydrated = x5.hydrated,
         NEW r \in Settings(b)!Readings, Settings(b)!ReadSound(r)
  PROVE  Settings(b)!ReadSound(r)'
<1>1. r.prefs \in Settings(b)!Prefs
  BY DEF Settings!Readings
<1>2. Settings(b)!BelongTo(r.prefs, r.account) => Settings(b)!BelongTo(r.prefs, r.account)'
  BY <1>1, SettingsStayTheirs
<1> QED
  BY <1>2, SettingsCareful DEF Settings!ReadSound, SettingsGrow

LEMMA SettingsChoiceKept ==
  ASSUME NEW b, Settings(b)!PpKinds, SettingsGrow(b), x5'.key = x5.key \/ x5.key = "none" \/ x5'.key = "anonymous",
         NEW c \in Settings(b)!Choices, Settings(b)!ChoiceSound(c)
  PROVE  Settings(b)!ChoiceSound(c)'
<1>1. c.saw \in Settings(b)!Values
  BY DEF Settings!Choices
<1>2. \A who \in Accounts \cup {"person"} : Settings(b)!Theirs(c.saw, who) => Settings(b)!Theirs(c.saw, who)'
  BY <1>1, SettingsStayTheirs
<1>3. \A a \in Accounts : Settings(b)!Theirs(c.saw, "person") => Settings(b)!Theirs(c.saw, a)
  BY DEF Settings!Theirs
<1> QED
  BY <1>2, <1>3, WorkspaceAssumption DEF Settings!ChoiceSound, SettingsGrow

LEMMA SettingsWireKept ==
  ASSUME NEW b, Settings(b)!PpKinds, SettingsGrow(b), NEW w \in Settings(b)!Wires, Settings(b)!WireSound(w), ~w.live \/ x5' = x5
  PROVE  Settings(b)!WireSound(w)'
<1>1. w.prefs \in Settings(b)!Prefs
  BY DEF Settings!Wires
<1>2. Settings(b)!BelongTo(w.prefs, w.key) => Settings(b)!BelongTo(w.prefs, w.key)'
  BY <1>1, SettingsStayTheirs
<1> QED
  BY <1>2, SettingsCareful DEF Settings!WireSound, Settings!Filled, SettingsGrow

LEMMA SettingsRowsKept ==
  ASSUME NEW b, Settings(b)!PpKinds, SettingsGrow(b), Settings(b)!RowsSound, x2' = x2
  PROVE  x2' \in [Accounts -> Settings(b)!Prefs'] /\ Settings(b)!RowsSound'
<1>1. x2' \in [Accounts -> Settings(b)!Prefs']
  BY SettingsLonger DEF Settings!PpKinds
<1>2. ASSUME NEW a \in Accounts PROVE Settings(b)!BelongTo(x2[a], a) => Settings(b)!BelongTo(x2[a], a)'
  <2>1. PICK q \in Settings(b)!Prefs : q = x2[a]
    BY DEF Settings!PpKinds
  <2>2. Settings(b)!BelongTo(q, a) => Settings(b)!BelongTo(q, a)'
    BY SettingsStayTheirs
  <2> QED
    BY <2>1, <2>2 DEF Settings!BelongTo
<1>3. Settings(b)!RowsSound'
  BY <1>2, SettingsCareful DEF Settings!RowsSound, Settings!Filled, SettingsGrow
<1> QED
  BY <1>1, <1>3

\* What the device keeps, of whom it is.
SettingsFine(b, m) ==
  /\ \A a \in Accounts : "crossed" \notin x12 /\ m[a] # Settings(b)!Nothing => Settings(b)!BelongTo(m[a], a)
  /\ "stale" \notin x12 /\ m["anonymous"] # Settings(b)!Nothing => Settings(b)!BelongTo(m["anonymous"], "anonymous")
  /\ m["legacy"] # Settings(b)!Nothing => Settings(b)!BelongTo(m["legacy"], "anonymous")
  /\ "stale" \notin x12 => \A k \in Settings(b)!Keys : m[k].mode # Settings(b)!Demo

LEMMA SettingsFineKept ==
  ASSUME NEW b, Settings(b)!PpKinds, SettingsGrow(b), NEW m \in [Settings(b)!Keys -> Settings(b)!Prefs \cup {Settings(b)!Nothing}],
         SettingsFine(b, m)
  PROVE  m \in [Settings(b)!Keys -> Settings(b)!Prefs' \cup {Settings(b)!Nothing}] /\ SettingsFine(b, m)'
<1>1. m \in [Settings(b)!Keys -> Settings(b)!Prefs' \cup {Settings(b)!Nothing}]
  BY SettingsLonger
<1>2. ASSUME NEW k \in Settings(b)!Keys, NEW who, m[k] # Settings(b)!Nothing
      PROVE Settings(b)!BelongTo(m[k], who) => Settings(b)!BelongTo(m[k], who)'
  <2>1. m[k] \in Settings(b)!Prefs
    BY <1>2
  <2> QED
    BY <2>1, SettingsStayTheirs
<1>3. \A k \in Accounts \cup {"anonymous", "legacy"} : k \in Settings(b)!Keys
  BY DEF Settings!Keys
<1>4. SettingsFine(b, m)'
  BY <1>2, <1>3 DEF SettingsFine, SettingsGrow
<1> QED
  BY <1>1, <1>4

LEMMA SettingsLocalKept ==
  ASSUME NEW b, Settings(b)!PpKinds, SettingsGrow(b), Settings(b)!LocalSound, x1' = x1,
         x5' = x5 \/ ~Settings(b)!Saves(x5')
  PROVE  x1' \in [Settings(b)!Keys -> Settings(b)!Prefs' \cup {Settings(b)!Nothing}] /\ Settings(b)!LocalSound'
<1>1. PICK m \in [Settings(b)!Keys -> Settings(b)!Prefs \cup {Settings(b)!Nothing}] : m = x1
  BY DEF Settings!PpKinds
<1>2. SettingsFine(b, m)
  BY <1>1 DEF Settings!LocalSound, SettingsFine
<1>3. m \in [Settings(b)!Keys -> Settings(b)!Prefs' \cup {Settings(b)!Nothing}] /\ SettingsFine(b, m)'
  BY <1>2, SettingsFineKept
<1>4. Settings(b)!LocalSound'
  BY <1>1, <1>3 DEF Settings!LocalSound, SettingsFine, Settings!Saves
<1> QED
  BY <1>1, <1>3, <1>4

\* What the device keeps once a page that is sound is rendered.
LEMMA SettingsLocalRendered ==
  ASSUME NEW b, Settings(b)!PpKinds, SettingsGrow(b),
         NEW p \in Settings(b)!Pages', Settings(b)!PageSound(p)', x5' = p,
         NEW kept \in [Settings(b)!Keys -> Settings(b)!Prefs \cup {Settings(b)!Nothing}], SettingsFine(b, kept),
         x1' = IF Settings(b)!Saves(p) /\ p.key # "none" THEN [kept EXCEPT ![p.key] = p.prefs] ELSE kept
  PROVE  x1' \in [Settings(b)!Keys -> Settings(b)!Prefs' \cup {Settings(b)!Nothing}] /\ Settings(b)!LocalSound'
<1>1. kept \in [Settings(b)!Keys -> Settings(b)!Prefs' \cup {Settings(b)!Nothing}] /\ SettingsFine(b, kept)'
  BY SettingsFineKept
<1>2. p.key \in Accounts \cup {"anonymous", "none"} /\ p.prefs \in Settings(b)!Prefs'
  BY DEF Settings!Pages
<1>3. CASE Settings(b)!Saves(p) /\ p.key # "none"
  <2>1. p.key \in Settings(b)!Keys
    BY <1>2, <1>3 DEF Settings!Keys
  <2>2. PICK m : m = [kept EXCEPT ![p.key] = p.prefs]
    OBVIOUS
  <2>3. m \in [Settings(b)!Keys -> Settings(b)!Prefs' \cup {Settings(b)!Nothing}] /\ x1' = m
    BY <1>1, <1>2, <1>3, <2>1, <2>2
  <2>4. m[p.key] = p.prefs /\ \A k \in Settings(b)!Keys : k # p.key => m[k] = kept[k]
    BY <1>1, <2>1, <2>2
  <2>5. "stale" \notin x12' => p.prefs.mode # Settings(b)!Demo
    BY <1>3 DEF Settings!PageSound, Settings!SetsAside, Settings!Saves
  <2>6. p.key \in Accounts /\ "crossed" \notin x12' => Settings(b)!BelongTo(p.prefs, p.key)'
    BY DEF Settings!PageSound, Settings!ShowsItsOwn
  <2>7. p.key = "anonymous" /\ "stale" \notin x12' => Settings(b)!BelongTo(p.prefs, "anonymous")'
    BY DEF Settings!PageSound, Settings!ShowsItsOwn
  <2>8. \A a \in Accounts : "crossed" \notin x12' /\ m[a] # Settings(b)!Nothing => Settings(b)!BelongTo(m[a], a)'
    BY <1>1, <2>4, <2>6 DEF Settings!Keys, SettingsFine
  <2>9. "stale" \notin x12' /\ m["anonymous"] # Settings(b)!Nothing => Settings(b)!BelongTo(m["anonymous"], "anonymous")'
    BY <1>1, <2>4, <2>7 DEF Settings!Keys, SettingsFine
  <2>10. m["legacy"] # Settings(b)!Nothing => Settings(b)!BelongTo(m["legacy"], "anonymous")'
    <3>1. p.key # "legacy"
      BY <1>2, WorkspaceAssumption
    <3> QED
      BY <1>1, <2>4, <3>1 DEF Settings!Keys, SettingsFine
  <2>11. "stale" \notin x12' => \A k \in Settings(b)!Keys : m[k].mode # Settings(b)!Demo
    BY <1>1, <2>4, <2>5 DEF SettingsFine
  <2>12. SettingsFine(b, m)'
    BY <2>8, <2>9, <2>10, <2>11 DEF SettingsFine
  <2> QED
    BY <2>3, <2>4, <2>12 DEF Settings!LocalSound, SettingsFine
<1>4. CASE ~(Settings(b)!Saves(p) /\ p.key # "none")
  BY <1>1, <1>4 DEF Settings!LocalSound, SettingsFine, Settings!Saves
<1> QED
  BY <1>3, <1>4

\* A render keeps everything, and gives up what was on its way.
LEMMA SettingsRendered ==
  ASSUME NEW b, Settings(b)!SettingsIInv, SettingsGrow(b),
         NEW p \in Settings(b)!Pages', Settings(b)!PageSound(p)', x5' = p,
         NEW kept \in [Settings(b)!Keys -> Settings(b)!Prefs \cup {Settings(b)!Nothing}], SettingsFine(b, kept),
         x1' = IF Settings(b)!Saves(p) /\ p.key # "none" THEN [kept EXCEPT ![p.key] = p.prefs] ELSE kept,
         x7' = (Settings(b)!Saves(p) /\ p.status = "authenticated" /\ p.edited),
         x8' = Settings(b)!GivenUp,
         x2' = x2, x3' = x3, x4' \in BOOLEAN, x9' \subseteq x9,
         x6' = Settings(b)!Idle \/ (x6' = x6 /\ (x6.stage = "idle" \/ (p.key = x5.key /\ p.hydrated = x5.hydrated))),
         x9' = {} \/ p.key = x5.key \/ x5.key = "none" \/ p.key = "anonymous"
  PROVE  Settings(b)!SettingsIInv'
<1>1. Settings(b)!PpKinds /\ Settings(b)!ReadSound(x6) /\ Settings(b)!RowsSound
  BY DEF Settings!SettingsIInv
<1>2. x1' \in [Settings(b)!Keys -> Settings(b)!Prefs' \cup {Settings(b)!Nothing}] /\ Settings(b)!LocalSound'
  BY <1>1, SettingsLocalRendered
<1>3. x2' \in [Accounts -> Settings(b)!Prefs'] /\ Settings(b)!RowsSound'
  BY <1>1, SettingsRowsKept
<1>4. x6' \in Settings(b)!Readings' /\ Settings(b)!ReadSound(x6)'
  <2>1. CASE x6' = Settings(b)!Idle
    <3>1. Settings(b)!Usual \in Settings(b)!Prefs'
      BY DEF Settings!Prefs, Settings!Values, SettingsGrow
    <3> QED
      BY <2>1, <3>1 DEF Settings!Readings, Settings!ReadSound
  <2>2. CASE x6' = x6 /\ p.key = x5.key /\ p.hydrated = x5.hydrated
    <3>1. PICK r \in Settings(b)!Readings : r = x6
      BY <1>1 DEF Settings!PpKinds
    <3>2. Settings(b)!ReadSound(r)'
      BY <1>1, <2>2, <3>1, SettingsReadKept
    <3> QED
      BY <1>1, <2>2, <3>1, <3>2, SettingsLonger
  <2>3. CASE x6' = x6 /\ x6.stage = "idle"
    BY <1>1, <2>3, SettingsLonger DEF Settings!PpKinds, Settings!ReadSound
  <2> QED
    BY <2>1, <2>2, <2>3
<1>5. \A c \in x9' : c \in Settings(b)!Choices' /\ Settings(b)!ChoiceSound(c)'
  <2>1. TAKE c \in x9'
  <2>2. c \in Settings(b)!Choices /\ Settings(b)!ChoiceSound(c)
    BY DEF Settings!SettingsIInv, Settings!PpKinds
  <2> QED
    BY <1>1, <2>2, SettingsLonger, SettingsChoiceKept
<1>6. \A w \in x8' : w \in Settings(b)!Wires' /\ Settings(b)!WireSound(w)' /\ ~w.live
  <2>1. TAKE w \in x8'
  <2>2. PICK v \in x8 : w = [v EXCEPT !.live = FALSE]
    BY DEF Settings!GivenUp
  <2>3. v \in Settings(b)!Wires /\ Settings(b)!WireSound(v)
    BY DEF Settings!SettingsIInv, Settings!PpKinds
  <2>4. w \in Settings(b)!Wires /\ Settings(b)!WireSound(w) /\ ~w.live
    BY <2>2, <2>3 DEF Settings!Wires, Settings!WireSound
  <2> QED
    BY <1>1, <2>4, SettingsLonger, SettingsWireKept
<1>7. Settings(b)!PpKinds'
  BY <1>1, <1>2, <1>3, <1>4, <1>5, <1>6 DEF Settings!PpKinds, SettingsGrow
<1>8. Settings(b)!EditsOnTheWay'
  <2>1. p.status = "authenticated" => p.hydrated
    BY WorkspaceAssumption DEF Settings!PageSound, Settings!ShowsItsOwn
  <2> QED
    BY <2>1 DEF Settings!EditsOnTheWay, Settings!Saves
<1> QED
  BY <1>2, <1>3, <1>4, <1>5, <1>6, <1>7, <1>8 DEF Settings!SettingsIInv

\* A step that leaves the page as it is keeps everything that it does not touch.
LEMMA SettingsQuiet ==
  ASSUME NEW b, Settings(b)!SettingsIInv, SettingsGrow(b), x1' = x1, x5' = x5,
         x2' \in [Accounts -> Settings(b)!Prefs'], Settings(b)!RowsSound',
         x3' \in Accounts \cup {"none"}, x4' \in BOOLEAN, x7' \in BOOLEAN,
         x6' \in Settings(b)!Readings, NEW r, x6' = r, Settings(b)!ReadSound(r),
         x8' \subseteq Settings(b)!Wires, \A w \in x8' : Settings(b)!WireSound(w),
         x9' \subseteq Settings(b)!Choices, \A c \in x9' : Settings(b)!ChoiceSound(c),
         Settings(b)!EditsOnTheWay'
  PROVE  Settings(b)!SettingsIInv'
<1>1. Settings(b)!PpKinds /\ Settings(b)!LocalSound
  BY DEF Settings!SettingsIInv
<1>2. x1' \in [Settings(b)!Keys -> Settings(b)!Prefs' \cup {Settings(b)!Nothing}] /\ Settings(b)!LocalSound'
  BY <1>1, SettingsLocalKept
<1>3. PICK p \in Settings(b)!Pages : p = x5 /\ Settings(b)!PageSound(p)
  BY DEF Settings!SettingsIInv, Settings!PpKinds
<1>4. p \in Settings(b)!Pages' /\ Settings(b)!PageSound(p)'
  BY <1>1, <1>3, SettingsLonger, SettingsPageKept
<1>5. r \in Settings(b)!Readings' /\ Settings(b)!ReadSound(r)'
  BY <1>1, SettingsLonger, SettingsReadKept
<1>6. \A c \in x9' : c \in Settings(b)!Choices' /\ Settings(b)!ChoiceSound(c)'
  <2>1. TAKE c \in x9'
  <2>2. c \in Settings(b)!Choices /\ Settings(b)!ChoiceSound(c)
    OBVIOUS
  <2> QED
    BY <1>1, <2>2, SettingsLonger, SettingsChoiceKept
<1>7. \A w \in x8' : w \in Settings(b)!Wires' /\ Settings(b)!WireSound(w)'
  <2>1. TAKE w \in x8'
  <2>2. w \in Settings(b)!Wires /\ Settings(b)!WireSound(w)
    OBVIOUS
  <2> QED
    BY <1>1, <2>2, SettingsLonger, SettingsWireKept
<1>8. Settings(b)!PpKinds'
  BY <1>1, <1>2, <1>3, <1>4, <1>5, <1>6, <1>7 DEF Settings!PpKinds, SettingsGrow
<1> QED
  BY <1>2, <1>3, <1>4, <1>5, <1>6, <1>7, <1>8 DEF Settings!SettingsIInv

\* One that touches neither the rows nor what is on its way.
LEMMA SettingsQuieter ==
  ASSUME NEW b, Settings(b)!SettingsIInv, SettingsGrow(b), x1' = x1, x2' = x2, x5' = x5, x7' = x7, x8' = x8,
         x3' \in Accounts \cup {"none"}, x4' \in BOOLEAN,
         NEW r \in Settings(b)!Readings, x6' = r, Settings(b)!ReadSound(r),
         x9' \subseteq Settings(b)!Choices, \A c \in x9' : Settings(b)!ChoiceSound(c)
  PROVE  Settings(b)!SettingsIInv'
<1>1. Settings(b)!PpKinds /\ Settings(b)!RowsSound
  BY DEF Settings!SettingsIInv
<1>2. x2' \in [Accounts -> Settings(b)!Prefs'] /\ Settings(b)!RowsSound'
  BY <1>1, SettingsRowsKept
<1>3. Settings(b)!EditsOnTheWay'
  BY DEF Settings!SettingsIInv, Settings!EditsOnTheWay, Settings!Saves, SettingsGrow
<1>4. x7' \in BOOLEAN /\ x8' \subseteq Settings(b)!Wires /\ \A w \in x8' : Settings(b)!WireSound(w)
  BY DEF Settings!SettingsIInv, Settings!PpKinds
<1> QED
  BY <1>1, <1>2, <1>3, <1>4, SettingsQuiet

LEMMA SettingsAsks ==
  ASSUME NEW b, Settings(b)!SettingsIInv, Settings(b)!Open, x4
  PROVE  Settings(b)!SettingsIInv'
<1>1. Settings(b)!PpKinds
  BY DEF Settings!SettingsIInv
<1>2. PICK r : r = [Settings(b)!Idle EXCEPT !.stage = "recipe"]
  OBVIOUS
<1>3. r \in Settings(b)!Readings /\ Settings(b)!ReadSound(r)
  BY <1>1, <1>2 DEF Settings!PpKinds, Settings!Readings, Settings!Prefs, Settings!Values, Settings!ReadSound,
     Settings!Open, Settings!Started, Settings!Fresh
<1>4. SettingsGrow(b) /\ x1' = x1 /\ x2' = x2 /\ x3' = x3 /\ x4' = x4 /\ x5' = x5 /\ x6' = r /\ x7' = x7 /\ x8' = x8 /\ x9' = x9
  BY <1>1, <1>2, SettingsSame DEF Settings!Open
<1> QED
  BY <1>1, <1>3, <1>4, SettingsQuieter DEF Settings!SettingsIInv, Settings!PpKinds

LEMMA SettingsReads ==
  ASSUME NEW b, Settings(b)!SettingsIInv, Settings(b)!ReadRecipe \/ Settings(b)!ReadDictionary \/ Settings(b)!ReadFails
  PROVE  Settings(b)!SettingsIInv'
<1>1. Settings(b)!PpKinds /\ Settings(b)!RowsSound /\ Settings(b)!ReadSound(x6)
  BY DEF Settings!SettingsIInv
<1>2. x6 \in Settings(b)!Readings /\ x2 \in [Accounts -> Settings(b)!Prefs] /\ x3 \in Accounts \cup {"none"}
  BY <1>1 DEF Settings!PpKinds
<1>3. SettingsGrow(b) /\ x1' = x1 /\ x2' = x2 /\ x3' = x3 /\ x4' = x4 /\ x5' = x5 /\ x7' = x7 /\ x8' = x8 /\ x9' = x9
  BY <1>1, SettingsSame DEF Settings!ReadRecipe, Settings!ReadDictionary, Settings!ReadFails
<1>4. Settings(b)!Default \in Settings(b)!Values
  BY <1>1 DEF Settings!PpKinds, Settings!Values
<1>5. \E r \in Settings(b)!Readings : x6' = r /\ Settings(b)!ReadSound(r)
  <2>1. CASE Settings(b)!ReadRecipe
    <3>1. CASE x3 = "none"
      <4>1. PICK r : r = [x6 EXCEPT !.stage = "401"]
        OBVIOUS
      <4> QED
        BY <1>1, <1>2, <2>1, <3>1, <4>1 DEF Settings!ReadRecipe, Settings!Readings, Settings!ReadSound
    <3>2. CASE x3 # "none"
      <4>1. x3 \in Accounts
        BY <1>2, <3>2
      <4>2. PICK q : q = [Settings(b)!Usual EXCEPT !.mode = x2[x3].mode]
        OBVIOUS
      <4>3. x2[x3] \in Settings(b)!Prefs
        BY <1>2, <4>1
      <4>4. q \in Settings(b)!Prefs /\ q.mode = x2[x3].mode /\ q.words = 0
        BY <1>4, <4>2, <4>3 DEF Settings!Prefs
      <4>5. PICK r : r = [stage |-> "dictionary", account |-> x3, prefs |-> q]
        OBVIOUS
      <4>6. x6' = r /\ r \in Settings(b)!Readings
        BY <2>1, <3>2, <4>1, <4>2, <4>4, <4>5 DEF Settings!ReadRecipe, Settings!Readings
      <4>7. "crossed" \notin x12 => Settings(b)!BelongTo(q, x3)
        BY <1>1, <4>1, <4>4 DEF Settings!RowsSound, Settings!BelongTo
      <4>8. Settings(b)!ReadSound(r)
        BY <1>1, <2>1, <4>1, <4>4, <4>5, <4>7 DEF Settings!ReadRecipe, Settings!ReadSound, Settings!RowsSound, Settings!Filled
      <4> QED
        BY <4>6, <4>8
    <3> QED
      BY <3>1, <3>2
  <2>2. CASE Settings(b)!ReadDictionary
    <3>1. x6.stage = "dictionary" /\ x6.account \in Accounts
      BY <1>1, <2>2 DEF Settings!ReadDictionary, Settings!ReadSound
    <3>2. x2[x6.account] \in Settings(b)!Prefs /\ x6.prefs \in Settings(b)!Prefs
      BY <1>2, <3>1 DEF Settings!Readings
    <3>3. PICK q : q = [x6.prefs EXCEPT !.words = x2[x6.account].words]
      OBVIOUS
    <3>4. q \in Settings(b)!Prefs /\ q.mode = x6.prefs.mode /\ q.words = x2[x6.account].words
      BY <3>2, <3>3 DEF Settings!Prefs
    <3>5. PICK r : r = [x6 EXCEPT !.stage = "200", !.prefs = q]
      OBVIOUS
    <3>6. x6' = r
      BY <1>2, <2>2, <3>3, <3>5 DEF Settings!ReadDictionary, Settings!Readings
    <3>7. r \in Settings(b)!Readings /\ r.stage = "200" /\ r.account = x6.account /\ r.prefs = q
      BY <1>2, <3>4, <3>5 DEF Settings!Readings
    <3>8. "crossed" \notin x12 => Settings(b)!BelongTo(q, x6.account)
      BY <1>1, <3>1, <3>4 DEF Settings!RowsSound, Settings!BelongTo, Settings!ReadSound
    <3>9. Settings(b)!ReadSound(r)
      BY <1>1, <3>1, <3>4, <3>7, <3>8 DEF Settings!ReadSound, Settings!RowsSound, Settings!Filled
    <3> QED
      BY <3>6, <3>7, <3>9
  <2>3. CASE Settings(b)!ReadFails
    <3>1. PICK r : r = [x6 EXCEPT !.stage = "500"]
      OBVIOUS
    <3> QED
      BY <1>1, <1>2, <2>3, <3>1 DEF Settings!ReadFails, Settings!Readings, Settings!ReadSound
  <2> QED
    BY <2>1, <2>2, <2>3
<1> QED
  BY <1>1, <1>3, <1>5, SettingsQuieter DEF Settings!SettingsIInv, Settings!PpKinds

LEMMA SettingsChooses ==
  ASSUME NEW b, Settings(b)!SettingsIInv, NEW kind \in {"demo", "own", "draft"}, Settings(b)!Choose(kind)
  PROVE  Settings(b)!SettingsIInv'
<1>1. Settings(b)!PpKinds /\ Settings(b)!PageSound(x5) /\ x5 \in Settings(b)!Pages /\ x5.prefs \in Settings(b)!Prefs
  BY DEF Settings!SettingsIInv, Settings!PpKinds, Settings!Pages
<1>2. SettingsGrow(b) /\ x1' = x1 /\ x2' = x2 /\ x3' = x3 /\ x4' = x4 /\ x5' = x5 /\ x6' = x6 /\ x7' = x7 /\ x8' = x8
  BY <1>1, SettingsSame DEF Settings!Choose
<1>3. PICK c : c = [kind |-> kind, sawDemo |-> x5.demo, saw |-> x5.prefs.mode]
  OBVIOUS
<1>4. x9' = x9 \cup {c}
  BY <1>3 DEF Settings!Choose
<1>5. c \in Settings(b)!Choices
  BY <1>1, <1>3 DEF Settings!Choices, Settings!Pages, Settings!Prefs
<1>6. Settings(b)!ChoiceSound(c)
  BY <1>1, <1>3 DEF Settings!ChoiceSound, Settings!PageSound, Settings!ShowsItsOwn, Settings!BelongTo, Settings!Theirs
<1> QED
  BY <1>1, <1>2, <1>4, <1>5, <1>6, SettingsQuieter DEF Settings!SettingsIInv, Settings!PpKinds

\* The file is not taken, or changes nothing.
LEMMA SettingsNotChosen ==
  ASSUME NEW b, Settings(b)!SettingsIInv, NEW c \in x9,
         Settings(b)!NotChosen(c) \/ (Settings(b)!Chosen(c) /\ Settings(b)!Shown(c) = x5)
  PROVE  Settings(b)!SettingsIInv'
<1>1. Settings(b)!PpKinds
  BY DEF Settings!SettingsIInv
<1>2. SettingsGrow(b) /\ x1' = x1 /\ x2' = x2 /\ x3' = x3 /\ x4' = x4 /\ x5' = x5 /\ x6' = x6 /\ x7' = x7 /\ x8' = x8 /\ x9' \subseteq x9
  BY <1>1, SettingsSame DEF Settings!NotChosen, Settings!Chosen
<1> QED
  BY <1>1, <1>2, SettingsQuieter DEF Settings!SettingsIInv, Settings!PpKinds

LEMMA SettingsSwitches ==
  ASSUME NEW b, Settings(b)!SettingsIInv, Settings(b)!Lapse \/ \E a \in Accounts \cup {"none"} : Settings(b)!Switch(a)
  PROVE  Settings(b)!SettingsIInv'
<1>1. Settings(b)!PpKinds
  BY DEF Settings!SettingsIInv
<1>2. SettingsGrow(b) /\ x1' = x1 /\ x2' = x2 /\ x5' = x5 /\ x6' = x6 /\ x7' = x7 /\ x8' = x8 /\ x9' = x9
  BY <1>1, SettingsSame DEF Settings!Lapse, Settings!Switch
<1>3. x3' \in Accounts \cup {"none"} /\ x4' \in BOOLEAN
  BY <1>1 DEF Settings!Lapse, Settings!Switch, Settings!PpKinds
<1> QED
  BY <1>1, <1>2, <1>3, SettingsQuieter DEF Settings!SettingsIInv, Settings!PpKinds

LEMMA SettingsSaves ==
  ASSUME NEW b, Settings(b)!SettingsIInv, Settings(b)!Save
  PROVE  Settings(b)!SettingsIInv'
<1>1. Settings(b)!PpKinds /\ Settings(b)!PageSound(x5) /\ x5 \in Settings(b)!Pages /\ x5.prefs \in Settings(b)!Prefs
  BY DEF Settings!SettingsIInv, Settings!PpKinds, Settings!Pages
<1>2. SettingsGrow(b) /\ x1' = x1 /\ x2' = x2 /\ x3' = x3 /\ x4' = x4 /\ x5' = x5 /\ x6' = x6 /\ x7' = FALSE /\ x9' = x9
  BY <1>1, SettingsSame DEF Settings!Save
<1>3. PICK w : w = [stage |-> "sent", prefs |-> x5.prefs, key |-> x5.key, live |-> TRUE]
  OBVIOUS
<1>4. x8' = x8 \cup {w}
  BY <1>3 DEF Settings!Save
<1>5. x7 /\ Settings(b)!Saves(x5) /\ x5.status = "authenticated" /\ x5.edited
  BY DEF Settings!SettingsIInv, Settings!EditsOnTheWay, Settings!Save
<1>6. w \in Settings(b)!Wires /\ x5.key \in Accounts
  BY <1>1, <1>3, <1>5 DEF Settings!Wires, Settings!PageSound, Settings!ShowsItsOwn
<1>7. Settings(b)!WireSound(w)
  BY <1>1, <1>3, <1>5, <1>6 DEF Settings!WireSound, Settings!PageSound, Settings!ShowsItsOwn, Settings!SetsAside, Settings!Saves
<1>8. Settings(b)!EditsOnTheWay'
  BY <1>2, <1>3, <1>4, <1>5 DEF Settings!EditsOnTheWay, Settings!Saves
<1>9. x2' \in [Accounts -> Settings(b)!Prefs'] /\ Settings(b)!RowsSound'
  BY <1>1, <1>2, SettingsRowsKept DEF Settings!SettingsIInv
<1> QED
  BY <1>1, <1>2, <1>4, <1>6, <1>7, <1>8, <1>9, SettingsQuiet DEF Settings!SettingsIInv, Settings!PpKinds

\* What an answer makes of a PUT that somebody waits for.
LEMMA SettingsAnswered ==
  ASSUME NEW b, NEW w \in Settings(b)!Wires, Settings(b)!WireSound(w), NEW stage \in {"401", "500"}, NEW v,
         v = [w EXCEPT !.stage = stage]
  PROVE  v \in Settings(b)!Wires /\ Settings(b)!WireSound(v) /\ v.live = w.live
  BY DEF Settings!Wires, Settings!WireSound

LEMMA SettingsNotPut ==
  ASSUME NEW b, Settings(b)!SettingsIInv, NEW w \in x8, Settings(b)!PutFails(w) \/ (Settings(b)!Put(w) /\ x3 = "none")
  PROVE  Settings(b)!SettingsIInv'
<1>1. Settings(b)!PpKinds /\ w \in Settings(b)!Wires /\ Settings(b)!WireSound(w)
  BY DEF Settings!SettingsIInv, Settings!PpKinds
<1>2. SettingsGrow(b) /\ x1' = x1 /\ x2' = x2 /\ x3' = x3 /\ x4' = x4 /\ x5' = x5 /\ x6' = x6 /\ x7' = x7 /\ x9' = x9
  BY <1>1, SettingsSame DEF Settings!Put, Settings!PutFails
<1>3. PICK stage \in {"401", "500"} : x8' = (x8 \ {w}) \cup (IF w.live THEN {[w EXCEPT !.stage = stage]} ELSE {})
  BY DEF Settings!Put, Settings!PutFails
<1>4. PICK v : v = [w EXCEPT !.stage = stage]
  OBVIOUS
<1>5. v \in Settings(b)!Wires /\ Settings(b)!WireSound(v) /\ v.live = w.live
  BY <1>1, <1>4, SettingsAnswered
<1>6. x8' \subseteq Settings(b)!Wires /\ \A u \in x8' : Settings(b)!WireSound(u)
  BY <1>3, <1>4, <1>5 DEF Settings!SettingsIInv, Settings!PpKinds
<1>7. (\E u \in x8 : u.live) => \E u \in x8' : u.live
  BY <1>3, <1>4, <1>5
<1>8. Settings(b)!EditsOnTheWay'
  BY <1>2, <1>7 DEF Settings!SettingsIInv, Settings!EditsOnTheWay, Settings!Saves, SettingsGrow
<1>9. x2' \in [Accounts -> Settings(b)!Prefs'] /\ Settings(b)!RowsSound'
  BY <1>1, <1>2, SettingsRowsKept DEF Settings!SettingsIInv
<1> QED
  BY <1>1, <1>2, <1>6, <1>8, <1>9, SettingsQuiet DEF Settings!SettingsIInv, Settings!PpKinds

LEMMA SettingsPuts ==
  ASSUME NEW b, Settings(b)!SettingsIInv, NEW w \in x8, Settings(b)!Put(w), x3 # "none"
  PROVE  Settings(b)!SettingsIInv'
<1>1. Settings(b)!PpKinds /\ Settings(b)!RowsSound /\ w \in Settings(b)!Wires /\ Settings(b)!WireSound(w) /\ x3 \in Accounts
  BY DEF Settings!SettingsIInv, Settings!PpKinds
<1>2. x1' = x1 /\ x3' = x3 /\ x4' = x4 /\ x5' = x5 /\ x6' = x6 /\ x7' = x7 /\ x9' = x9 /\ x10' = x10 /\ x8' = x8 \ {w}
  BY DEF Settings!Put
<1>3. /\ x12' = x12 \cup (IF x3 # w.key THEN {"crossed"} ELSE {}) \cup (IF Settings(b)!IsLate(w) THEN {"late"} ELSE {})
      /\ x2' = [x2 EXCEPT ![x3] = w.prefs]
  BY DEF Settings!Put
<1>4. SettingsGrow(b)
  BY <1>1, <1>2, <1>3, SettingsSame
<1>5. w.prefs \in Settings(b)!Prefs /\ w.key \in Accounts
  BY <1>1 DEF Settings!Wires
<1>6. PICK m \in [Accounts -> Settings(b)!Prefs] : m = [x2 EXCEPT ![x3] = w.prefs]
  BY <1>1, <1>5 DEF Settings!PpKinds
<1>7. m[x3] = w.prefs /\ \A a \in Accounts : a # x3 => m[a] = x2[a]
  BY <1>1, <1>5, <1>6 DEF Settings!PpKinds
<1>8. ASSUME NEW a \in Accounts
      PROVE  /\ "crossed" \notin x12' => Settings(b)!BelongTo(m[a], a)
             /\ "stale" \notin x12' => m[a].mode # Settings(b)!Demo
             /\ Settings(b)!Careful' => Settings(b)!Filled(m[a])
  <2>1. CASE a = x3
    BY <1>1, <1>3, <1>4, <1>7, <2>1, SettingsCareful DEF Settings!WireSound
  <2>2. CASE a # x3
    BY <1>1, <1>3, <1>4, <1>7, <2>2, SettingsCareful DEF Settings!RowsSound
  <2> QED
    BY <2>1, <2>2
<1>9. m \in [Accounts -> Settings(b)!Prefs'] /\ \A a \in Accounts : Settings(b)!BelongTo(m[a], a)' <=> Settings(b)!BelongTo(m[a], a)
  BY <1>1, <1>4, <1>2, SettingsLonger DEF Settings!BelongTo
<1>10. x2' \in [Accounts -> Settings(b)!Prefs'] /\ Settings(b)!RowsSound'
  BY <1>3, <1>6, <1>8, <1>9 DEF Settings!RowsSound, Settings!Filled
<1>11. Settings(b)!EditsOnTheWay'
  <2> SUFFICES ASSUME x5.status = "authenticated", x5.edited, ~x5.demo, x12' \cap {"late", "crossed"} = {}, ~x7,
                      ~\E u \in x8' : u.live
               PROVE  m[x5.key] = x5.prefs
    BY <1>2, <1>3, <1>6 DEF Settings!SettingsIInv, Settings!EditsOnTheWay, Settings!Saves
  <2>1. x12 \cap {"late", "crossed"} = {} /\ x3 = w.key /\ ~Settings(b)!IsLate(w)
    BY <1>3
  <2>2. (\E u \in x8 : u.live) \/ x2[x5.key] = x5.prefs
    BY <2>1 DEF Settings!SettingsIInv, Settings!EditsOnTheWay
  <2>3. CASE w.live
    BY <1>1, <1>7, <2>1, <2>3 DEF Settings!WireSound
  <2>4. CASE ~w.live
    BY <1>2, <2>1, <2>2, <2>4 DEF Settings!IsLate
  <2> QED
    BY <2>3, <2>4
<1>12. x8' \subseteq Settings(b)!Wires /\ \A u \in x8' : Settings(b)!WireSound(u)
  BY <1>2 DEF Settings!SettingsIInv, Settings!PpKinds
<1> QED
  BY <1>1, <1>2, <1>4, <1>10, <1>11, <1>12, SettingsQuiet DEF Settings!SettingsIInv, Settings!PpKinds

\* A page just opened knows nothing yet.
LEMMA SettingsFresh ==
  ASSUME NEW b, x10 \in Seq(Settings(b)!Owners)
  PROVE  Settings(b)!Fresh \in Settings(b)!Pages /\ Settings(b)!PageSound(Settings(b)!Fresh) /\ ~Settings(b)!Saves(Settings(b)!Fresh)
<1>1. 0 \in Settings(b)!Values /\ Settings(b)!Usual \in Settings(b)!Prefs
  BY DEF Settings!Values, Settings!Prefs
<1>2. PICK p : p = Settings(b)!Fresh
  OBVIOUS
<1>3. p \in Settings(b)!Pages
  BY <1>1, <1>2 DEF Settings!Fresh, Settings!Pages
<1>4. /\ p.status = "checking" /\ p.key = "none" /\ ~p.hydrated /\ ~p.edited /\ ~p.demo /\ p.before = 0
      /\ p.prefs.mode = 0 /\ p.prefs.words = 0
  BY <1>2 DEF Settings!Fresh
<1>5. Settings(b)!BelongTo(p.prefs, "person")
  BY <1>4 DEF Settings!BelongTo
<1>6. Settings(b)!PageSound(p) /\ ~Settings(b)!Saves(p)
  BY <1>4, <1>5, WorkspaceAssumption DEF Settings!PageSound, Settings!ShowsItsOwn, Settings!SetsAside, Settings!Theirs, Settings!Saves
<1> QED
  BY <1>2, <1>3, <1>6

LEMMA SettingsLoads ==
  ASSUME NEW b, Settings(b)!SettingsIInv, Settings(b)!Load
  PROVE  Settings(b)!SettingsIInv'
<1>1. Settings(b)!PpKinds
  BY DEF Settings!SettingsIInv
<1>2. /\ x1' = x1 /\ x2' = x2 /\ x3' = x3 /\ x4' = x4 /\ x5' = Settings(b)!Fresh /\ x6' = Settings(b)!Idle
      /\ x7' = FALSE /\ x8' = Settings(b)!GivenUp /\ x9' = {} /\ x10' = x10 /\ x12' = x12
  BY DEF Settings!Load
<1>3. SettingsGrow(b)
  BY <1>1, <1>2, SettingsSame
<1>4. PICK p : p = Settings(b)!Fresh
  OBVIOUS
<1>5. p \in Settings(b)!Pages /\ Settings(b)!PageSound(p) /\ ~Settings(b)!Saves(p) /\ p.key = "none"
  BY <1>1, <1>4, SettingsFresh DEF Settings!PpKinds, Settings!Fresh
<1>6. p \in Settings(b)!Pages' /\ Settings(b)!PageSound(p)'
  BY <1>1, <1>3, <1>5, SettingsLonger, SettingsPageKept
<1>7. PICK kept \in [Settings(b)!Keys -> Settings(b)!Prefs \cup {Settings(b)!Nothing}] : kept = x1
  BY <1>1 DEF Settings!PpKinds
<1>8. SettingsFine(b, kept)
  BY <1>7 DEF Settings!SettingsIInv, Settings!LocalSound, SettingsFine
<1>9. x1' = IF Settings(b)!Saves(p) /\ p.key # "none" THEN [kept EXCEPT ![p.key] = p.prefs] ELSE kept
  BY <1>2, <1>5, <1>7
<1>10. x7' = (Settings(b)!Saves(p) /\ p.status = "authenticated" /\ p.edited)
  BY <1>2, <1>5
<1>11. x4' \in BOOLEAN /\ x9' \subseteq x9 /\ x5' = p
  BY <1>1, <1>2, <1>4 DEF Settings!PpKinds
<1> QED
  BY <1>2, <1>3, <1>5, <1>6, <1>8, <1>9, <1>10, <1>11, SettingsRendered

\* What the device keeps, with the visitor's of before there were keys.
LEMMA SettingsMigrates ==
  ASSUME NEW b, Settings(b)!PpKinds, Settings(b)!LocalSound
  PROVE  /\ x1 \in [Settings(b)!Keys -> Settings(b)!Prefs \cup {Settings(b)!Nothing}] /\ SettingsFine(b, x1)
         /\ Settings(b)!Migrated \in [Settings(b)!Keys -> Settings(b)!Prefs \cup {Settings(b)!Nothing}]
         /\ SettingsFine(b, Settings(b)!Migrated)
<1>1. x1 \in [Settings(b)!Keys -> Settings(b)!Prefs \cup {Settings(b)!Nothing}] /\ SettingsFine(b, x1)
  BY DEF Settings!PpKinds, Settings!LocalSound, SettingsFine
<1>2. "anonymous" \in Settings(b)!Keys /\ "legacy" \in Settings(b)!Keys /\ "anonymous" # "legacy"
  BY DEF Settings!Keys
<1>3. CASE x1["anonymous"] = Settings(b)!Nothing /\ x1["legacy"] # Settings(b)!Nothing
  <2>1. PICK m : m = [x1 EXCEPT !["anonymous"] = x1["legacy"], !["legacy"] = Settings(b)!Nothing]
    OBVIOUS
  <2>2. /\ m \in [Settings(b)!Keys -> Settings(b)!Prefs \cup {Settings(b)!Nothing}]
        /\ m["anonymous"] = x1["legacy"] /\ m["legacy"] = Settings(b)!Nothing
        /\ \A k \in Settings(b)!Keys : k \notin {"anonymous", "legacy"} => m[k] = x1[k]
    BY <1>1, <1>2, <2>1
  <2>3. \A a \in Accounts : a \in Settings(b)!Keys /\ a \notin {"anonymous", "legacy"}
    BY WorkspaceAssumption DEF Settings!Keys
  <2>4. SettingsFine(b, m)
    BY <1>1, <1>2, <1>3, <2>2, <2>3 DEF SettingsFine
  <2> QED
    BY <1>1, <1>3, <2>1, <2>2, <2>4 DEF Settings!Migrated
<1>4. CASE ~(x1["anonymous"] = Settings(b)!Nothing /\ x1["legacy"] # Settings(b)!Nothing)
  BY <1>1, <1>4 DEF Settings!Migrated
<1> QED
  BY <1>3, <1>4

\* A visitor is shown what is the visitor's.
LEMMA SettingsOfTheVisitor ==
  ASSUME NEW b, Settings(b)!PpKinds, Settings(b)!LocalSound, NEW q, q = Settings(b)!ReadAnonymous
  PROVE  /\ q \in Settings(b)!Prefs
         /\ "stale" \notin x12 => Settings(b)!BelongTo(q, "anonymous") /\ q.mode # Settings(b)!Demo
<1>1. x1["anonymous"] \in Settings(b)!Prefs \cup {Settings(b)!Nothing} /\ x1["legacy"] \in Settings(b)!Prefs \cup {Settings(b)!Nothing}
      /\ "anonymous" \in Settings(b)!Keys /\ "legacy" \in Settings(b)!Keys
  BY DEF Settings!PpKinds, Settings!Keys
<1>2. Settings(b)!Usual \in Settings(b)!Prefs /\ Settings(b)!BelongTo(Settings(b)!Usual, "anonymous")
  BY DEF Settings!PpKinds, Settings!Prefs, Settings!Values, Settings!BelongTo
<1> QED
  BY <1>1, <1>2 DEF Settings!ReadAnonymous, Settings!LocalSound

\* A page that is sound with what is kept is rendered by an action that
\* chooses nothing.
LEMMA SettingsShows ==
  ASSUME NEW b, Settings(b)!SettingsIInv, SettingsGrow(b), x10' = x10,
         NEW p \in Settings(b)!Pages, Settings(b)!PageSound(p)',
         NEW kept, kept = x1 \/ kept = Settings(b)!Migrated, Settings(b)!Rendered(p, kept),
         x2' = x2, x3' = x3, x4' \in BOOLEAN, x9' \subseteq x9,
         x6' = Settings(b)!Idle \/ (x6' = x6 /\ (x6.stage = "idle" \/ (p.key = x5.key /\ p.hydrated = x5.hydrated))),
         p.key = x5.key \/ x5.key = "none" \/ p.key = "anonymous"
  PROVE  Settings(b)!SettingsIInv'
<1>1. Settings(b)!PpKinds /\ Settings(b)!LocalSound
  BY DEF Settings!SettingsIInv
<1>2. kept \in [Settings(b)!Keys -> Settings(b)!Prefs \cup {Settings(b)!Nothing}] /\ SettingsFine(b, kept)
  BY <1>1, SettingsMigrates
<1>3. p \in Settings(b)!Pages'
  BY <1>1, SettingsLonger
<1>4. /\ x5' = p /\ x8' = Settings(b)!GivenUp
      /\ x1' = IF Settings(b)!Saves(p) /\ p.key # "none" THEN [kept EXCEPT ![p.key] = p.prefs] ELSE kept
      /\ x7' = (Settings(b)!Saves(p) /\ p.status = "authenticated" /\ p.edited)
  BY DEF Settings!Rendered
<1> QED
  BY <1>2, <1>3, <1>4, SettingsRendered

LEMMA SettingsOpens ==
  ASSUME NEW b, Settings(b)!SettingsIInv, Settings(b)!Open
  PROVE  Settings(b)!SettingsIInv'
<1>1. CASE x4
  BY <1>1, SettingsAsks
<1>2. CASE ~x4
  <2>1. Settings(b)!PpKinds /\ Settings(b)!LocalSound /\ x5 \in Settings(b)!Pages
    BY DEF Settings!SettingsIInv, Settings!PpKinds
  <2>2. /\ x2' = x2 /\ x3' = x3 /\ x4' = x4 /\ x6' = x6 /\ x9' = x9 /\ x10' = x10 /\ x12' = x12
        /\ x5 = Settings(b)!Fresh /\ x6.stage = "idle"
    BY <1>2 DEF Settings!Open, Settings!Started
  <2>3. SettingsGrow(b)
    BY <2>1, <2>2, SettingsSame
  <2>4. PICK q : q = Settings(b)!ReadAnonymous
    OBVIOUS
  <2>5. q \in Settings(b)!Prefs /\ ("stale" \notin x12 => Settings(b)!BelongTo(q, "anonymous") /\ q.mode # Settings(b)!Demo)
    BY <2>1, <2>4, SettingsOfTheVisitor
  <2>6. PICK p : p = [x5 EXCEPT !.prefs = q, !.key = "anonymous", !.hydrated = TRUE, !.status = "local-only"]
    OBVIOUS
  <2>7. p \in Settings(b)!Pages /\ p.key = "anonymous"
    BY <2>1, <2>5, <2>6 DEF Settings!Pages
  <2>8. Settings(b)!PageSound(p)
    BY <2>1, <2>2, <2>5, <2>6, WorkspaceAssumption DEF Settings!Pages, Settings!PageSound, Settings!ShowsItsOwn, Settings!SetsAside, Settings!Fresh
  <2>9. Settings(b)!PageSound(p)'
    BY <2>1, <2>3, <2>7, <2>8, SettingsPageKept
  <2>10. PICK kept : kept = Settings(b)!Migrated
    OBVIOUS
  <2>11. Settings(b)!Rendered(p, kept)
    BY <1>2, <2>4, <2>6, <2>10 DEF Settings!Open
  <2>12. x4' \in BOOLEAN
    BY <2>1, <2>2 DEF Settings!PpKinds
  <2> QED
    BY <2>2, <2>3, <2>7, <2>9, <2>10, <2>11, <2>12, SettingsShows
<1> QED
  BY <1>1, <1>2

\* What is of a person before the page knows whose it is, is of whoever it is.
LEMMA SettingsOfThePerson ==
  ASSUME NEW b, NEW who, NEW q
  PROVE  /\ Settings(b)!BelongTo(q, "person") => Settings(b)!BelongTo(q, who)
         /\ Settings(b)!Theirs(q, "person") => Settings(b)!Theirs(q, who)
  BY DEF Settings!BelongTo, Settings!Theirs

\* What Rendered leaves to say.
LEMMA SettingsAnswers ==
  ASSUME NEW b, Settings(b)!SettingsIInv, Settings(b)!Answer
  PROVE  Settings(b)!SettingsIInv'
<1>1. Settings(b)!PpKinds /\ Settings(b)!LocalSound /\ x5 \in Settings(b)!Pages /\ Settings(b)!PageSound(x5)
      /\ Settings(b)!ReadSound(x6) /\ x6 \in Settings(b)!Readings
  BY DEF Settings!SettingsIInv, Settings!PpKinds
<1>2. x2' = x2 /\ x3' = x3 /\ x6' = Settings(b)!Idle /\ x9' = x9 /\ x10' = x10 /\ x12 \subseteq x12' /\ x4' \in BOOLEAN
  BY <1>1 DEF Settings!Answer, Settings!UnderDemo, Settings!PpKinds
<1>3. SettingsGrow(b)
  BY <1>1, <1>2, SettingsSame
<1>4. x6.stage \in {"200", "401", "500"} /\ x5.key = "none" /\ ~x5.hydrated
  BY <1>1 DEF Settings!Answer, Settings!ReadSound
<1>5. /\ Settings(b)!BelongTo(x5.prefs, "person") /\ Settings(b)!Theirs(x5.before, "person")
      /\ "stale" \notin x12 => x5.before # Settings(b)!Demo /\ (x5.prefs.mode = Settings(b)!Demo => x5.demo)
      /\ x5.edited => "early" \in x12
  BY <1>1, <1>4, WorkspaceAssumption DEF Settings!PageSound, Settings!ShowsItsOwn, Settings!SetsAside
<1>6. CASE x6.stage = "401"
  <2>1. PICK q : q = Settings(b)!ReadAnonymous
    OBVIOUS
  <2>2. q \in Settings(b)!Prefs /\ ("stale" \notin x12 => Settings(b)!BelongTo(q, "anonymous") /\ q.mode # Settings(b)!Demo)
    BY <1>1, <2>1, SettingsOfTheVisitor
  <2>3. PICK shown : shown = IF x5.edited THEN x5.prefs ELSE q
    OBVIOUS
  <2>4. PICK p : p = [x5 EXCEPT !.prefs = shown, !.key = "anonymous", !.hydrated = TRUE, !.status = "local-only"]
    OBVIOUS
  <2>5. [Settings(b)!Visitor EXCEPT !.hydrated = TRUE, !.status = "local-only"] = p
    BY <1>1, <2>1, <2>3, <2>4 DEF Settings!Visitor, Settings!Applied, Settings!Pages
  <2>6. p \in Settings(b)!Pages /\ p.key = "anonymous"
    BY <1>1, <2>2, <2>3, <2>4 DEF Settings!Pages
  <2>7. Settings(b)!BelongTo(x5.prefs, "anonymous") /\ Settings(b)!Theirs(x5.before, "anonymous")
    BY <1>5, SettingsOfThePerson
  <2>8. p.status = "local-only" /\ p.hydrated /\ p.demo = x5.demo /\ p.before = x5.before /\ p.edited = x5.edited /\ p.prefs = shown
    BY <1>1, <2>4 DEF Settings!Pages
  <2>9. Settings(b)!ShowsItsOwn(p)
    BY <2>2, <2>3, <2>6, <2>7, <2>8, WorkspaceAssumption DEF Settings!ShowsItsOwn
  <2>10. Settings(b)!SetsAside(p)
    BY <1>5, <2>2, <2>3, <2>6, <2>8, WorkspaceAssumption DEF Settings!SetsAside
  <2>11. Settings(b)!PageSound(p)'
    BY <1>1, <1>3, <2>6, <2>9, <2>10, SettingsPageKept DEF Settings!PageSound
  <2>12. PICK kept : kept = Settings(b)!Migrated
    OBVIOUS
  <2>13. Settings(b)!Rendered(p, kept)
    BY <1>6, <2>5, <2>12 DEF Settings!Answer
  <2> QED
    BY <1>2, <1>3, <2>6, <2>11, <2>12, <2>13, SettingsShows
<1>7. CASE x6.stage = "200"
  <2>1. /\ x6.account \in Accounts /\ x6.prefs \in Settings(b)!Prefs
        /\ "crossed" \notin x12 => Settings(b)!BelongTo(x6.prefs, x6.account)
        /\ "stale" \notin x12 => x6.prefs.mode # Settings(b)!Demo
        /\ Settings(b)!Careful => Settings(b)!Filled(x6.prefs)
    BY <1>1, <1>7 DEF Settings!ReadSound, Settings!Filled, Settings!Readings
  <2>2. PICK shown : shown = IF x5.edited THEN x5.prefs ELSE x6.prefs
    OBVIOUS
  <2>3. PICK p : p = [x5 EXCEPT !.prefs = shown, !.key = x6.account, !.hydrated = TRUE, !.status = "authenticated"]
    OBVIOUS
  <2>4. [Settings(b)!Applied(x6.prefs) EXCEPT !.key = x6.account, !.hydrated = TRUE, !.status = "authenticated"] = p
    BY <1>1, <2>2, <2>3 DEF Settings!Applied, Settings!Pages
  <2>5. p \in Settings(b)!Pages
    BY <1>1, <2>1, <2>2, <2>3 DEF Settings!Pages
  <2>6. /\ p.key = x6.account /\ p.hydrated /\ p.demo = x5.demo /\ p.before = x5.before /\ p.edited = x5.edited /\ p.prefs = shown
    BY <1>1, <2>3 DEF Settings!Pages
  <2>7. Settings(b)!BelongTo(x5.prefs, x6.account) /\ Settings(b)!Theirs(x5.before, x6.account)
    BY <1>5, SettingsOfThePerson
  <2>8. Settings(b)!ShowsItsOwn(p)
    BY <2>1, <2>2, <2>6, <2>7, WorkspaceAssumption DEF Settings!ShowsItsOwn
  <2>9. ("demo" \in x12') \/ ~x5.demo \/ x5.edited
    BY <1>7 DEF Settings!Answer, Settings!UnderDemo
  <2>10. Settings(b)!SetsAside(p)'
    <3>1. "stale" \notin x12' => p.before # Settings(b)!Demo /\ (p.prefs.mode = Settings(b)!Demo => p.demo)
      BY <1>2, <1>5, <2>1, <2>2, <2>6
    <3>2. Settings(b)!Careful' => Settings(b)!Filled(p.prefs) /\ ~p.demo
      BY <1>2, <1>5, <2>1, <2>2, <2>6, <2>9 DEF Settings!Careful
    <3> QED
      BY <2>6, <3>1, <3>2 DEF Settings!SetsAside, Settings!Filled
  <2>11. Settings(b)!PageSound(p)'
    BY <1>1, <1>3, <2>5, <2>8, <2>10, SettingsOwnKept DEF Settings!PageSound
  <2>12. Settings(b)!Rendered(p, x1)
    BY <1>7, <2>4 DEF Settings!Answer
  <2>13. PICK kept : kept = x1
    OBVIOUS
  <2>14. Settings(b)!Rendered(p, kept)
    BY <2>12, <2>13
  <2> QED
    BY <1>2, <1>3, <1>4, <2>5, <2>11, <2>13, <2>14, SettingsShows
<1>8. CASE x6.stage = "500"
  <2>1. PICK p : p = [x5 EXCEPT !.hydrated = TRUE, !.status = "unavailable"]
    OBVIOUS
  <2>2. p \in Settings(b)!Pages
    BY <1>1, <2>1 DEF Settings!Pages
  <2>3. p.key = "none" /\ p.hydrated /\ p.demo = x5.demo /\ p.before = x5.before /\ p.edited = x5.edited /\ p.prefs = x5.prefs
        /\ p.status = "unavailable"
    BY <1>1, <1>4, <2>1 DEF Settings!Pages
  <2>4. Settings(b)!PageSound(p)
    BY <1>5, <2>3, WorkspaceAssumption DEF Settings!PageSound, Settings!ShowsItsOwn, Settings!SetsAside
  <2>5. Settings(b)!PageSound(p)'
    BY <1>1, <1>3, <2>2, <2>4, SettingsPageKept
  <2>6. PICK kept : kept = x1
    OBVIOUS
  <2>7. Settings(b)!Rendered(p, kept)
    BY <1>8, <2>1, <2>6 DEF Settings!Answer
  <2> QED
    BY <1>2, <1>3, <1>4, <2>2, <2>3, <2>5, <2>6, <2>7, SettingsShows
<1> QED
  BY <1>4, <1>6, <1>7, <1>8

LEMMA SettingsResets ==
  ASSUME NEW b, Settings(b)!SettingsIInv, Settings(b)!Reset
  PROVE  Settings(b)!SettingsIInv'
<1>1. Settings(b)!PpKinds /\ Settings(b)!LocalSound /\ x5 \in Settings(b)!Pages /\ Settings(b)!PageSound(x5) /\ x5.demo
      /\ x5.prefs \in Settings(b)!Prefs
  BY DEF Settings!SettingsIInv, Settings!PpKinds, Settings!Reset, Settings!Pages
<1>2. x2' = x2 /\ x3' = x3 /\ x6' = x6 /\ x9' = x9 /\ x10' = x10 /\ x12' = x12 /\ x4' \in BOOLEAN
  BY <1>1 DEF Settings!Reset, Settings!PpKinds
<1>3. SettingsGrow(b)
  BY <1>1, <1>2, SettingsSame
<1>4. PICK q : q = [x5.prefs EXCEPT !.mode = x5.before]
  OBVIOUS
<1>5. q \in Settings(b)!Prefs /\ q.mode = x5.before /\ q.words = x5.prefs.words
  BY <1>1, <1>4 DEF Settings!Prefs, Settings!Pages
<1>6. PICK p : p = [x5 EXCEPT !.demo = FALSE, !.prefs = q, !.before = 0]
  OBVIOUS
<1>7. Settings(b)!GivenBack = p
  BY <1>1, <1>4, <1>6 DEF Settings!GivenBack, Settings!Pages
<1>8. p \in Settings(b)!Pages
  <2>1. 0 \in Settings(b)!Values
    BY <1>1 DEF Settings!Values, Settings!PpKinds
  <2> QED
    BY <1>1, <1>5, <1>6, <2>1 DEF Settings!Pages
<1>9. p.key = x5.key /\ p.hydrated = x5.hydrated /\ ~p.demo /\ p.before = 0 /\ p.edited = x5.edited /\ p.prefs = q /\ p.status = x5.status
  BY <1>1, <1>6 DEF Settings!Pages
<1>10. \A who : Settings(b)!BelongTo(x5.prefs, who) /\ Settings(b)!Theirs(x5.before, who) => Settings(b)!BelongTo(q, who)
  BY <1>5 DEF Settings!BelongTo, Settings!Theirs
<1>11. \A who : Settings(b)!Theirs(0, who)
  BY DEF Settings!Theirs
<1>12. Settings(b)!ShowsItsOwn(p)
  BY <1>1, <1>9, <1>10, <1>11 DEF Settings!PageSound, Settings!ShowsItsOwn
<1>13. Settings(b)!SetsAside(p)
  BY <1>1, <1>5, <1>9 DEF Settings!PageSound, Settings!SetsAside, Settings!Filled
<1>14. Settings(b)!PageSound(p)'
  BY <1>1, <1>3, <1>8, <1>12, <1>13, SettingsPageKept DEF Settings!PageSound
<1>15. PICK kept : kept = x1
  OBVIOUS
<1>16. Settings(b)!Rendered(p, kept)
  BY <1>7, <1>15 DEF Settings!Reset
<1> QED
  BY <1>2, <1>3, <1>8, <1>9, <1>14, <1>15, <1>16, SettingsShows

LEMMA SettingsRefused ==
  ASSUME NEW b, Settings(b)!SettingsIInv, NEW w \in x8, Settings(b)!Refused(w)
  PROVE  Settings(b)!SettingsIInv'
<1>1. Settings(b)!PpKinds /\ Settings(b)!LocalSound /\ x5 \in Settings(b)!Pages /\ Settings(b)!PageSound(x5) /\ Settings(b)!ReadSound(x6)
  BY DEF Settings!SettingsIInv, Settings!PpKinds
<1>2. x2' = x2 /\ x3' = x3 /\ x6' = x6 /\ x9' = x9 /\ x10' = x10 /\ x12' = x12 /\ x4' \in BOOLEAN
  BY <1>1 DEF Settings!Refused, Settings!PpKinds
<1>3. SettingsGrow(b)
  BY <1>1, <1>2, SettingsSame
<1>4. x5.status = "authenticated" /\ ~x5.demo /\ x5.key \in Accounts /\ x5.hydrated /\ x5.key # "none"
  BY <1>1, WorkspaceAssumption DEF Settings!SettingsIInv, Settings!WireSound, Settings!Refused, Settings!PageSound, Settings!ShowsItsOwn
<1>5. x6.stage = "idle"
  BY <1>1, <1>4 DEF Settings!ReadSound
<1>6. CASE w.stage = "401"
  <2>1. PICK q : q = Settings(b)!ReadAnonymous
    OBVIOUS
  <2>2. q \in Settings(b)!Prefs /\ ("stale" \notin x12 => Settings(b)!BelongTo(q, "anonymous") /\ q.mode # Settings(b)!Demo)
    BY <1>1, <2>1, SettingsOfTheVisitor
  <2>3. PICK p : p = [x5 EXCEPT !.edited = FALSE, !.prefs = q, !.key = "anonymous", !.status = "local-only"]
    OBVIOUS
  <2>4. p = Settings(b)!SignedOut
    BY <2>1, <2>3 DEF Settings!SignedOut
  <2>5. p \in Settings(b)!Pages
    BY <1>1, <2>2, <2>3 DEF Settings!Pages
  <2>6. p.key = "anonymous" /\ p.hydrated /\ ~p.demo /\ p.before = x5.before /\ ~p.edited /\ p.prefs = q /\ p.status = "local-only"
    BY <1>1, <1>4, <2>3 DEF Settings!Pages
  <2>7. Settings(b)!PageSound(p)
    BY <1>1, <2>2, <2>6, WorkspaceAssumption DEF Settings!PageSound, Settings!ShowsItsOwn, Settings!SetsAside
  <2>8. Settings(b)!PageSound(p)'
    BY <1>1, <1>3, <2>5, <2>7, SettingsPageKept
  <2>9. PICK kept : kept = Settings(b)!Migrated
    OBVIOUS
  <2>10. Settings(b)!Rendered(p, kept)
    BY <1>6, <2>4, <2>9 DEF Settings!Refused
  <2> QED
    BY <1>2, <1>3, <1>5, <2>5, <2>6, <2>8, <2>9, <2>10, SettingsShows
<1>7. CASE w.stage # "401"
  <2>1. PICK p : p = [x5 EXCEPT !.status = "unavailable"]
    OBVIOUS
  <2>2. p \in Settings(b)!Pages
    BY <1>1, <2>1 DEF Settings!Pages
  <2>3. p.key = x5.key /\ p.hydrated = x5.hydrated /\ p.demo = x5.demo /\ p.before = x5.before /\ p.edited = x5.edited
        /\ p.prefs = x5.prefs /\ p.status = "unavailable"
    BY <1>1, <2>1 DEF Settings!Pages
  <2>4. Settings(b)!PageSound(p)
    BY <1>1, <2>3 DEF Settings!PageSound, Settings!ShowsItsOwn, Settings!SetsAside
  <2>5. Settings(b)!PageSound(p)'
    BY <1>1, <1>3, <2>2, <2>4, SettingsPageKept
  <2>6. PICK kept : kept = x1
    OBVIOUS
  <2>7. Settings(b)!Rendered(p, kept)
    BY <1>7, <2>1, <2>6 DEF Settings!Refused
  <2> QED
    BY <1>2, <1>3, <2>2, <2>3, <2>5, <2>6, <2>7, SettingsShows
<1> QED
  BY <1>6, <1>7

LEMMA SettingsEdits ==
  ASSUME NEW b, Settings(b)!SettingsIInv, NEW f \in {"mode", "words"}, Settings(b)!Edit(f)
  PROVE  Settings(b)!SettingsIInv'
<1>1. Settings(b)!PpKinds /\ Settings(b)!LocalSound /\ x5 \in Settings(b)!Pages /\ Settings(b)!PageSound(x5)
      /\ x10 \in Seq(Settings(b)!Owners) /\ x5.prefs \in Settings(b)!Prefs
  BY DEF Settings!SettingsIInv, Settings!PpKinds, Settings!Pages
<1>2. PICK o \in Settings(b)!Pages : o = x5 /\ Settings(b)!PageSound(o)
  BY <1>1
<1>3. /\ x2' = x2 /\ x3' = x3 /\ x6' = x6 /\ x9' = x9 /\ x4' \in BOOLEAN
      /\ x12 \subseteq x12' /\ (~x5.hydrated => "early" \in x12')
  BY <1>1 DEF Settings!Edit, Settings!PpKinds
<1>4. PICK owner : owner = Settings(b)!Owner
  OBVIOUS
<1>5. owner \in {o.key, "person"} /\ owner \in Settings(b)!Owners /\ (o.key = "none" => owner = "person")
  BY <1>2, <1>4 DEF Settings!Owner, Settings!Owners, Settings!Pages
<1>6. x10' = Append(x10, owner)
  BY <1>4 DEF Settings!Edit
<1>7. /\ x10' \in Seq(Settings(b)!Owners) /\ Len(x10) \in Nat /\ Len(x10') = Len(x10) + 1 /\ x10'[Len(x10')] = owner
      /\ \A n \in 1 .. Len(x10) : x10'[n] = x10[n]
  BY <1>1, <1>5, <1>6
<1>8. SettingsGrow(b)
  BY <1>3, <1>7 DEF SettingsGrow
<1>9. PICK v : v = Len(x10')
  OBVIOUS
<1>10. v \in Settings(b)!Values' /\ v > 0 /\ v \in Nat
  BY <1>7, <1>9 DEF Settings!Values
<1>11. PICK q : q = [o.prefs EXCEPT ![f] = v]
  OBVIOUS
<1>12. o.prefs \in Settings(b)!Prefs' /\ o \in Settings(b)!Pages'
  BY <1>2, <1>1, <1>8, SettingsLonger
<1>13. q \in Settings(b)!Prefs' /\ \A g \in {"mode", "words"} : q[g] = IF g = f THEN v ELSE o.prefs[g]
  BY <1>10, <1>11, <1>12 DEF Settings!Prefs
<1>14. PICK p : p = [o EXCEPT !.edited = TRUE, !.prefs = q]
  OBVIOUS
<1>15. [x5 EXCEPT !.edited = TRUE, !.prefs[f] = Len(x10')] = p
  BY <1>2, <1>9, <1>11, <1>14 DEF Settings!Pages
<1>16. p \in Settings(b)!Pages'
  BY <1>12, <1>13, <1>14 DEF Settings!Pages
<1>17. p.key = o.key /\ p.hydrated = o.hydrated /\ p.demo = o.demo /\ p.before = o.before /\ p.edited /\ p.prefs = q
       /\ p.status = o.status
  BY <1>14 DEF Settings!Pages
<1>18. Settings(b)!PageSound(o)'
  BY <1>2, <1>1, <1>8, SettingsPageKept
<1>19. ASSUME NEW who, owner \in {who, "person"}, Settings(b)!BelongTo(o.prefs, who)'
       PROVE  Settings(b)!BelongTo(q, who)'
  BY <1>7, <1>9, <1>13, <1>19 DEF Settings!BelongTo
<1>20. Settings(b)!ShowsItsOwn(p)'
  BY <1>5, <1>17, <1>18, <1>19 DEF Settings!PageSound, Settings!ShowsItsOwn
<1>21. Settings(b)!SetsAside(p)'
  <2>1. "mode" # "words" /\ v # 0 /\ v # -1
    BY <1>10
  <2>2. q.mode = (IF f = "mode" THEN v ELSE o.prefs.mode) /\ q.words = (IF f = "words" THEN v ELSE o.prefs.words)
    BY <1>13
  <2>3. ~p.hydrated => "early" \in x12'
    BY <1>2, <1>3, <1>17
  <2> QED
    BY <1>17, <1>18, <2>1, <2>2, <2>3 DEF Settings!PageSound, Settings!SetsAside, Settings!Filled
<1>22. PICK kept \in [Settings(b)!Keys -> Settings(b)!Prefs \cup {Settings(b)!Nothing}] : kept = x1 /\ SettingsFine(b, kept)
  BY <1>1, SettingsMigrates
<1>23. Settings(b)!Rendered(p, x1)
  BY <1>15 DEF Settings!Edit
<1>24. /\ x5' = p /\ x8' = Settings(b)!GivenUp
       /\ x1' = IF Settings(b)!Saves(p) /\ p.key # "none" THEN [kept EXCEPT ![p.key] = p.prefs] ELSE kept
       /\ x7' = (Settings(b)!Saves(p) /\ p.status = "authenticated" /\ p.edited)
  BY <1>22, <1>23 DEF Settings!Rendered
<1>25. Settings(b)!PageSound(p)'
  BY <1>20, <1>21 DEF Settings!PageSound
<1>26. p.key = x5.key /\ p.hydrated = x5.hydrated
  BY <1>2, <1>17
<1> QED
  BY <1>3, <1>8, <1>16, <1>22, <1>24, <1>25, <1>26, SettingsRendered

LEMMA SettingsChosen ==
  ASSUME NEW b, Settings(b)!SettingsIInv, NEW c \in x9, Settings(b)!Chosen(c), Settings(b)!Shown(c) # x5
  PROVE  Settings(b)!SettingsIInv'
<1>1. Settings(b)!PpKinds /\ Settings(b)!LocalSound /\ x5 \in Settings(b)!Pages /\ Settings(b)!PageSound(x5)
      /\ x5.prefs \in Settings(b)!Prefs /\ c \in Settings(b)!Choices /\ Settings(b)!ChoiceSound(c)
  BY DEF Settings!SettingsIInv, Settings!PpKinds, Settings!Pages
<1>2. x2' = x2 /\ x3' = x3 /\ x6' = x6 /\ x9' \subseteq x9 /\ x10' = x10 /\ x12 \subseteq x12' /\ x4' \in BOOLEAN
  BY <1>1 DEF Settings!Chosen, Settings!PpKinds
<1>3. SettingsGrow(b)
  BY <1>1, <1>2, SettingsSame
<1>4. "stale" \notin x12' => "stale" \notin x12 /\ c.sawDemo = x5.demo /\ (c.sawDemo \/ c.saw = x5.prefs.mode)
  BY <1>1 DEF Settings!Chosen, Settings!Choices, Settings!Pages
<1>5. {0, -1, -2} \subseteq Settings(b)!Values
  BY <1>1 DEF Settings!Values, Settings!PpKinds
<1>6. /\ x5.key = "none" => Settings(b)!BelongTo(x5.prefs, "person") /\ Settings(b)!Theirs(x5.before, "person") /\ Settings(b)!Theirs(c.saw, "person")
      /\ x5.key \in Accounts /\ "crossed" \notin x12 =>
            Settings(b)!BelongTo(x5.prefs, x5.key) /\ Settings(b)!Theirs(x5.before, x5.key) /\ Settings(b)!Theirs(c.saw, x5.key)
      /\ x5.key = "anonymous" /\ "stale" \notin x12' =>
            /\ Settings(b)!BelongTo(x5.prefs, "anonymous")
            /\ c.sawDemo => Settings(b)!Theirs(x5.before, "anonymous")
            /\ ~c.sawDemo => Settings(b)!Theirs(c.saw, "anonymous")
  BY <1>1, <1>4 DEF Settings!PageSound, Settings!ShowsItsOwn, Settings!ChoiceSound, Settings!BelongTo, Settings!Theirs
<1>7. /\ "stale" \notin x12' => x5.before # -1 /\ (x5.prefs.mode = -1 => x5.demo) /\ (~c.sawDemo => c.saw # -1 /\ ~x5.demo)
      /\ x5.edited /\ ~x5.hydrated => "early" \in x12
      /\ x5.key \in Accounts /\ Settings(b)!Careful' =>
            /\ Settings(b)!Filled(x5.prefs) /\ (c.sawDemo => x5.before # 0) /\ (~c.sawDemo => c.saw # 0)
  BY <1>1, <1>3, <1>4, SettingsCareful DEF Settings!PageSound, Settings!SetsAside, Settings!Careful, Settings!Filled
<1>8. \E p \in Settings(b)!Pages :
         /\ p = Settings(b)!Shown(c) /\ p.key = x5.key /\ p.hydrated = x5.hydrated /\ p.status = x5.status /\ p.edited = x5.edited
         /\ \/ /\ p.demo /\ p.before = (IF c.sawDemo THEN x5.before ELSE c.saw) /\ p.prefs.mode = -1 /\ p.prefs.words = x5.prefs.words
            \/ /\ ~p.demo /\ p.before = x5.before /\ p.prefs.mode = -2 /\ p.prefs.words = x5.prefs.words
            \/ /\ c.sawDemo /\ ~p.demo /\ p.before = 0 /\ p.prefs.mode = x5.before /\ p.prefs.words = x5.prefs.words
            \/ /\ ~c.sawDemo /\ ~p.demo /\ x5.demo /\ p.before = x5.before /\ p.prefs = x5.prefs
  <2>1. c.saw \in Settings(b)!Values /\ x5.before \in Settings(b)!Values
    BY <1>1 DEF Settings!Choices, Settings!Pages
  <2>2. ASSUME NEW v \in Settings(b)!Values, NEW q, q = [x5.prefs EXCEPT !.mode = v]
        PROVE q \in Settings(b)!Prefs /\ q.mode = v /\ q.words = x5.prefs.words
    BY <1>1, <2>2 DEF Settings!Prefs
  <2>3. CASE c.kind = "demo"
    <3>1. PICK q : q = [x5.prefs EXCEPT !.mode = -1]
      OBVIOUS
    <3>2. PICK before : before = IF c.sawDemo THEN x5.before ELSE c.saw
      OBVIOUS
    <3>3. PICK p : p = [x5 EXCEPT !.demo = TRUE, !.before = before, !.prefs = q]
      OBVIOUS
    <3>4. p = Settings(b)!Shown(c)
      BY <1>1, <2>3, <3>1, <3>2, <3>3 DEF Settings!Shown, Settings!Pages
    <3>5. p \in Settings(b)!Pages /\ p.key = x5.key /\ p.hydrated = x5.hydrated /\ p.status = x5.status /\ p.edited = x5.edited
          /\ p.demo /\ p.before = before /\ p.prefs = q
      BY <1>1, <1>5, <2>1, <2>2, <3>1, <3>2, <3>3 DEF Settings!Pages
    <3> QED
      BY <1>5, <2>2, <3>1, <3>2, <3>4, <3>5
  <2>4. CASE c.kind = "draft"
    <3>1. PICK q : q = [x5.prefs EXCEPT !.mode = -2]
      OBVIOUS
    <3>2. PICK p : p = [x5 EXCEPT !.demo = FALSE, !.prefs = q]
      OBVIOUS
    <3>3. p = Settings(b)!Shown(c)
      BY <1>1, <2>4, <3>1, <3>2 DEF Settings!Shown, Settings!Pages
    <3>4. p \in Settings(b)!Pages /\ p.key = x5.key /\ p.hydrated = x5.hydrated /\ p.status = x5.status /\ p.edited = x5.edited
          /\ ~p.demo /\ p.before = x5.before /\ p.prefs = q
      BY <1>1, <1>5, <2>2, <3>1, <3>2 DEF Settings!Pages
    <3> QED
      BY <1>5, <2>2, <3>1, <3>3, <3>4
  <2>5. CASE c.kind = "own" /\ c.sawDemo
    <3>1. PICK q : q = [x5.prefs EXCEPT !.mode = x5.before]
      OBVIOUS
    <3>2. PICK p : p = [x5 EXCEPT !.demo = FALSE, !.prefs = q, !.before = 0]
      OBVIOUS
    <3>3. p = Settings(b)!Shown(c)
      BY <1>1, <2>5, <3>1, <3>2 DEF Settings!Shown, Settings!Pages
    <3>4. p \in Settings(b)!Pages /\ p.key = x5.key /\ p.hydrated = x5.hydrated /\ p.status = x5.status /\ p.edited = x5.edited
          /\ ~p.demo /\ p.before = 0 /\ p.prefs = q
      BY <1>1, <1>5, <2>1, <2>2, <3>1, <3>2 DEF Settings!Pages
    <3> QED
      BY <2>1, <2>2, <2>5, <3>1, <3>3, <3>4
  <2>6. CASE c.kind = "own" /\ ~c.sawDemo
    <3>1. PICK p : p = [x5 EXCEPT !.demo = FALSE]
      OBVIOUS
    <3>2. p = Settings(b)!Shown(c)
      BY <1>1, <2>6, <3>1 DEF Settings!Shown, Settings!Pages
    <3>3. p \in Settings(b)!Pages /\ p.key = x5.key /\ p.hydrated = x5.hydrated /\ p.status = x5.status /\ p.edited = x5.edited
          /\ ~p.demo /\ p.before = x5.before /\ p.prefs = x5.prefs
      BY <1>1, <3>1 DEF Settings!Pages
    <3>4. x5.demo
      <4>1. SUFFICES ASSUME x5.demo = FALSE PROVE p = x5
        BY <1>1, <3>2 DEF Settings!Pages
      <4> QED
        BY <1>1, <3>1, <4>1 DEF Settings!Pages
    <3> QED
      BY <2>6, <3>2, <3>3, <3>4
  <2> QED
    BY <1>1, <2>3, <2>4, <2>5, <2>6 DEF Settings!Choices
<1>9. PICK p \in Settings(b)!Pages :
         /\ p = Settings(b)!Shown(c) /\ p.key = x5.key /\ p.hydrated = x5.hydrated /\ p.status = x5.status /\ p.edited = x5.edited
         /\ \/ /\ p.demo /\ p.before = (IF c.sawDemo THEN x5.before ELSE c.saw) /\ p.prefs.mode = -1 /\ p.prefs.words = x5.prefs.words
            \/ /\ ~p.demo /\ p.before = x5.before /\ p.prefs.mode = -2 /\ p.prefs.words = x5.prefs.words
            \/ /\ c.sawDemo /\ ~p.demo /\ p.before = 0 /\ p.prefs.mode = x5.before /\ p.prefs.words = x5.prefs.words
            \/ /\ ~c.sawDemo /\ ~p.demo /\ x5.demo /\ p.before = x5.before /\ p.prefs = x5.prefs
  BY <1>8
<1>10. ASSUME NEW who, Settings(b)!BelongTo(x5.prefs, who), c.sawDemo => Settings(b)!Theirs(x5.before, who),
              ~c.sawDemo => Settings(b)!Theirs(c.saw, who)
       PROVE  Settings(b)!BelongTo(p.prefs, who) /\ (p.demo => Settings(b)!Theirs(p.before, who))
              /\ (Settings(b)!Theirs(x5.before, who) => Settings(b)!Theirs(p.before, who))
  BY <1>9, <1>10 DEF Settings!BelongTo, Settings!Theirs
<1>11. Settings(b)!ShowsItsOwn(p)'
  <2>1. x5.status = "authenticated" => x5.key \in Accounts
    BY <1>1 DEF Settings!PageSound, Settings!ShowsItsOwn
  <2>2. x5.key # "none" => x5.hydrated
    BY <1>1 DEF Settings!PageSound, Settings!ShowsItsOwn
  <2>3. \A who : /\ Settings(b)!BelongTo(p.prefs, who) => Settings(b)!BelongTo(p.prefs, who)'
                 /\ Settings(b)!Theirs(p.before, who) => Settings(b)!Theirs(p.before, who)'
    <3>1. p.prefs \in Settings(b)!Prefs /\ p.before \in Settings(b)!Values
      BY DEF Settings!Pages
    <3> QED
      BY <1>1, <1>3, <3>1, SettingsStayTheirs
  <2>4. p.key = "none" => Settings(b)!BelongTo(p.prefs, "person")' /\ Settings(b)!Theirs(p.before, "person")'
    BY <1>6, <1>9, <1>10, <2>3
  <2>5. p.key \in Accounts /\ "crossed" \notin x12' => Settings(b)!BelongTo(p.prefs, p.key)' /\ Settings(b)!Theirs(p.before, p.key)'
    BY <1>2, <1>6, <1>9, <1>10, <2>3
  <2>6. p.key = "anonymous" /\ "stale" \notin x12' =>
          Settings(b)!BelongTo(p.prefs, "anonymous")' /\ (p.demo => Settings(b)!Theirs(p.before, "anonymous")')
    BY <1>6, <1>9, <1>10, <2>3
  <2> QED
    BY <1>9, <2>1, <2>2, <2>4, <2>5, <2>6 DEF Settings!ShowsItsOwn
<1>12. Settings(b)!SetsAside(p)'
  <2>1. "stale" \notin x12' => p.before # -1 /\ (p.prefs.mode = -1 => p.demo)
    BY <1>4, <1>7, <1>9
  <2>2. p.key \in Accounts /\ Settings(b)!Careful' => Settings(b)!Filled(p.prefs) /\ (p.demo => p.before # 0)
    BY <1>7, <1>9 DEF Settings!Filled
  <2> QED
    BY <1>2, <1>7, <1>9, <2>1, <2>2 DEF Settings!SetsAside, Settings!Filled
<1>13. PICK kept : kept = x1
  OBVIOUS
<1>14. Settings(b)!Rendered(p, kept)
  BY <1>9, <1>13 DEF Settings!Chosen
<1>15. Settings(b)!PageSound(p)'
  BY <1>11, <1>12 DEF Settings!PageSound
<1> QED
  BY <1>2, <1>3, <1>9, <1>13, <1>14, <1>15, SettingsShows

LEMMA SettingsGoesOn ==
  ASSUME NEW b, Settings(b)!SettingsIInv, Settings(b)!PpNext
  PROVE  Settings(b)!SettingsIInv'
  BY SettingsOpens, SettingsReads, SettingsAnswers, SettingsResets, SettingsSaves, SettingsSwitches, SettingsLoads, SettingsEdits,
     SettingsChooses, SettingsNotChosen, SettingsChosen, SettingsPuts, SettingsNotPut, SettingsRefused DEF Settings!PpNext

\* The accounts can be put in a row.
LEMMA SettingsInARow ==
  ASSUME NEW b
  PROVE  /\ Settings(b)!InARow \in Seq(Accounts) /\ Len(Settings(b)!InARow) \in Nat \ {0}
         /\ \A a \in Accounts : \E n \in 1 .. Len(Settings(b)!InARow) : Settings(b)!InARow[n] = a
<1>1. PICK n \in Nat : ExistsBijection(1 .. n, Accounts) /\ Cardinality(Accounts) = n
  BY WorkspaceAssumption, FS_CardinalityType
<1>2. PICK order \in [1 .. n -> Accounts] : \A a \in Accounts : \E m \in 1 .. n : order[m] = a
  BY <1>1 DEF ExistsBijection, Bijection, Surjection
<1>3. PICK row \in [1 .. n -> Accounts] : row = Settings(b)!InARow /\ \A a \in Accounts : \E m \in 1 .. n : row[m] = a
  <2>1. Settings(b)!Cardinality(Accounts) = n
    BY <1>1 DEF Settings!Cardinality, Cardinality
  <2> QED
    BY <1>2, <2>1 DEF Settings!InARow
<1>4. row \in Seq(Accounts) /\ Len(row) = n
  OBVIOUS
<1>5. n # 0
  BY <1>3, WorkspaceAssumption
<1> QED
  BY <1>3, <1>4, <1>5

LEMMA SettingsBegins ==
  ASSUME NEW b, Settings(b)!PpInit
  PROVE  Settings(b)!SettingsIInv
<1>1. PICK row \in Seq(Accounts) :
         /\ x10 = Append(row, "anonymous") /\ Len(row) \in Nat \ {0}
         /\ \A a \in Accounts : \E n \in 1 .. Len(row) : row[n] = a
  BY SettingsInARow DEF Settings!PpInit
<1>2. /\ x10 \in Seq(Settings(b)!Owners) /\ Len(x10) = Len(row) + 1 /\ x10[Len(x10)] = "anonymous"
      /\ \A n \in 1 .. Len(row) : x10[n] = row[n] /\ row[n] \in Accounts
  <2>1. row \in Seq(Settings(b)!Owners) /\ "anonymous" \in Settings(b)!Owners
    BY DEF Settings!Owners
  <2> QED
    BY <1>1, <2>1
<1>3. \A n \in 1 .. Len(x10) : n \in Settings(b)!Values /\ n # 0 /\ n # -1
  BY <1>1, <1>2 DEF Settings!Values
<1>4. ASSUME NEW a \in Accounts
      PROVE  \E n \in 1 .. Len(x10) : x2[a] = [mode |-> n, words |-> n] /\ x10[n] = a
  <2>1. PICK n : n = CHOOSE m \in 1 .. Len(x10) : x10[m] = a
    OBVIOUS
  <2>2. n \in 1 .. Len(x10) /\ x10[n] = a
    <3>1. \E m \in 1 .. Len(x10) : x10[m] = a
      BY <1>1, <1>2
    <3> QED
      BY <2>1, <3>1
  <2>3. x2[a] = [mode |-> n, words |-> n]
    BY <2>1 DEF Settings!PpInit
  <2> QED
    BY <2>2, <2>3
<1>5. x2 \in [Accounts -> Settings(b)!Prefs]
  <2>1. ASSUME NEW a \in Accounts PROVE x2[a] \in Settings(b)!Prefs
    <3>1. PICK n \in Settings(b)!Values : x2[a] = [mode |-> n, words |-> n]
      BY <1>3, <1>4
    <3> QED
      BY <3>1 DEF Settings!Prefs
  <2>2. x2 = [a \in Accounts |-> x2[a]]
    BY DEF Settings!PpInit
  <2> QED
    BY <2>1, <2>2
<1>6. Settings(b)!RowsSound
  <2>1. ASSUME NEW a \in Accounts
        PROVE  Settings(b)!BelongTo(x2[a], a) /\ x2[a].mode # -1 /\ Settings(b)!Filled(x2[a])
    <3>1. PICK n \in 1 .. Len(x10) : x2[a] = [mode |-> n, words |-> n] /\ x10[n] = a
      BY <1>4
    <3> QED
      BY <1>3, <3>1 DEF Settings!BelongTo, Settings!Filled
  <2> QED
    BY <2>1 DEF Settings!RowsSound
<1>7. PICK l : l = Len(x10) /\ l \in 1 .. Len(x10)
  BY <1>1, <1>2
<1>8. x1 = [k \in Settings(b)!Keys |-> IF k = "legacy" THEN [mode |-> l, words |-> l] ELSE Settings(b)!Nothing]
  BY <1>7 DEF Settings!PpInit
<1>9. x1 \in [Settings(b)!Keys -> Settings(b)!Prefs \cup {Settings(b)!Nothing}]
  BY <1>3, <1>7, <1>8 DEF Settings!Prefs
<1>10. x5 = Settings(b)!Fresh /\ x5 \in Settings(b)!Pages /\ Settings(b)!PageSound(x5) /\ ~Settings(b)!Saves(x5)
  BY <1>2, SettingsFresh DEF Settings!PpInit
<1>11. Settings(b)!LocalSound
  <2>1. \A a \in Accounts \cup {"anonymous"} : x1[a] = Settings(b)!Nothing
    BY <1>8, WorkspaceAssumption DEF Settings!Keys
  <2>2. x1["legacy"] = [mode |-> l, words |-> l]
    BY <1>8 DEF Settings!Keys
  <2>3. Settings(b)!BelongTo(x1["legacy"], "anonymous")
    BY <1>2, <1>7, <2>2 DEF Settings!BelongTo
  <2>4. \A k \in Settings(b)!Keys : x1[k].mode # -1
    BY <1>3, <1>7, <1>8
  <2> QED
    BY <1>10, <2>1, <2>3, <2>4 DEF Settings!LocalSound
<1>12. x6 \in Settings(b)!Readings /\ Settings(b)!ReadSound(x6)
  <2>1. Settings(b)!Usual \in Settings(b)!Prefs
    BY <1>2 DEF Settings!Prefs, Settings!Values
  <2> QED
    BY <2>1 DEF Settings!PpInit, Settings!Readings, Settings!ReadSound
<1>13. x3 \in Accounts \cup {"none"}
  BY <1>1, <1>2 DEF Settings!PpInit
<1>14. Settings(b)!PpKinds
  BY <1>2, <1>5, <1>9, <1>10, <1>12, <1>13 DEF Settings!PpKinds, Settings!PpInit
<1>15. Settings(b)!EditsOnTheWay
  BY DEF Settings!EditsOnTheWay, Settings!PpInit, Settings!Fresh
<1> QED
  BY <1>6, <1>10, <1>11, <1>12, <1>14, <1>15 DEF Settings!SettingsIInv, Settings!PpInit

LEMMA SettingsStand ==
  ASSUME NEW b, Settings(b)!SettingsIInv
  PROVE  /\ Settings(b)!PpTypeOK /\ Settings(b)!ApartOnTheDevice /\ Settings(b)!DemoIsNotKept
         /\ Settings(b)!EditsAreSaved /\ Settings(b)!SettingsAreNotForgotten
<1>1. Settings(b)!PpKinds
  BY DEF Settings!SettingsIInv
<1>2. Settings(b)!PpTypeOK
  BY <1>1 DEF Settings!PpKinds, Settings!PpTypeOK, Settings!Pages, Settings!Wires
<1>3. Settings(b)!ApartOnTheDevice
  BY DEF Settings!SettingsIInv, Settings!LocalSound, Settings!RowsSound, Settings!ApartOnTheDevice
<1>4. Settings(b)!DemoIsNotKept
  BY DEF Settings!SettingsIInv, Settings!LocalSound, Settings!RowsSound, Settings!WireSound, Settings!DemoIsNotKept
<1>5. Settings(b)!EditsAreSaved
  <2> SUFFICES ASSUME x5.status = "authenticated", x5.edited, ~x5.demo, ~x7, x8 = {}, x12 \cap {"late", "crossed"} = {}
               PROVE  x2[x5.key] = x5.prefs /\ x1[x5.key] = x5.prefs
    BY DEF Settings!EditsAreSaved
  <2>1. x5.key \in Accounts /\ x5.key # "none" /\ x5.hydrated
    BY WorkspaceAssumption DEF Settings!SettingsIInv, Settings!PageSound, Settings!ShowsItsOwn
  <2> QED
    BY <2>1 DEF Settings!SettingsIInv, Settings!EditsOnTheWay, Settings!LocalSound, Settings!Saves
<1>6. Settings(b)!SettingsAreNotForgotten
  BY DEF Settings!SettingsIInv, Settings!RowsSound, Settings!Careful, Settings!Filled, Settings!SettingsAreNotForgotten
<1> QED
  BY <1>2, <1>3, <1>4, <1>5, <1>6

HIDE DEF Settings!Default, Settings!Demo, Settings!Draft, Settings!Nothing, Settings!Usual, Settings!Idle

-------------------------------------------------------------------------------
(* PagesRelease: what two releases saw of the deployments is one within the other.*)

PagesDeployments(b) ==
  [by : b.releases \cup {"hand"}, artifact : Pages(b)!Artifacts, stage : {"building", "success", "failure"}, visible : BOOLEAN]

\* Deployments are only ever added, and go on.
PagesGrow(b) ==
  /\ x1' \in Seq(PagesDeployments(b)) /\ Len(x1) <= Len(x1')
  /\ \A d \in 1 .. Len(x1) :
        /\ x1'[d].by = x1[d].by /\ x1'[d].artifact = x1[d].artifact /\ (x1[d].visible => x1'[d].visible)
        /\ x1[d].stage # "building" => x1'[d].stage = x1[d].stage
  /\ ~b.lag => \A d \in 1 .. Len(x1') : x1'[d].visible

LEMMA PagesKinds ==
  ASSUME NEW b, Pages(b)!PagesIInv
  PROVE  /\ Len(x1) \in Nat /\ DOMAIN x1 = 1 .. Len(x1) /\ x1 \in Seq(PagesDeployments(b))
         /\ x3 \in [b.releases -> Pages(b)!RunStates] /\ x2 \in DOMAIN x1 /\ x1[x2].stage = "success"
         /\ ~b.lag => \A d \in DOMAIN x1 : x1[d].visible
         /\ Pages(b)!Listed = {d \in 1 .. Len(x1) : x1[d].visible}
  BY DEF Pages!PagesIInv, Pages!Kinds, PagesDeployments, Pages!Hand, Pages!Listed

LEMMA PagesPhases ==
  ASSUME NEW b
  PROVE  /\ Pages(b)!BeforeUpload = {"start", "capture", "recheck", "upload"}
         /\ Pages(b)!RollingBack = {"rollback", "confirm", "post", "readback", "restoring"}
         /\ Pages(b)!Ended = {"blocked", "released", "provisioned", "restored", "refused", "dead"}
         /\ Pages(b)!Looking = {"capture", "recheck", "verify", "final", "sole", "recorded", "rollback", "confirm", "restoring"}
  BY DEF Pages!BeforeUpload, Pages!RollingBack, Pages!Ended, Pages!Looking

LEMMA PagesSteps ==
  ASSUME NEW b
  PROVE  Pages(b)!Steps = {"start", "capture", "recheck", "upload", "rollback", "confirm", "post", "readback", "restoring",
                           "blocked", "released", "provisioned", "restored", "refused", "dead",
                           "verify", "probe", "final", "sole", "record", "recorded", "done"}
  BY PagesPhases DEF Pages!Steps

LEMMA PagesOfRun ==
  ASSUME NEW b, Pages(b)!PagesIInv, NEW s, PagesGrow(b), \A d \in 1 .. Len(x1') : d > Len(x1) => x1'[d].by # s
  PROVE  /\ Len(x1') \in Nat /\ DOMAIN x1' = 1 .. Len(x1')
         /\ DOMAIN x1 \subseteq DOMAIN x1' /\ Pages(b)!MadeBy(s)' = Pages(b)!MadeBy(s) /\ Pages(b)!MadeBy(s) \subseteq DOMAIN x1
<1>1. Len(x1) \in Nat /\ DOMAIN x1 = 1 .. Len(x1) /\ Len(x1') \in Nat /\ DOMAIN x1' = 1 .. Len(x1') /\ Len(x1) <= Len(x1')
  BY PagesKinds DEF PagesGrow
<1>2. \A d \in 1 .. Len(x1) : d \in 1 .. Len(x1') /\ x1'[d].by = x1[d].by
  BY <1>1 DEF PagesGrow
<1>3. \A d \in 1 .. Len(x1') : d \in 1 .. Len(x1) \/ x1'[d].by # s
  BY <1>1
<1> QED
  BY <1>1, <1>2, <1>3 DEF Pages!MadeBy

LEMMA PagesListed ==
  ASSUME NEW b, Pages(b)!PagesIInv, PagesGrow(b)
  PROVE  /\ DOMAIN x1 \subseteq DOMAIN x1' /\ Pages(b)!Listed \subseteq Pages(b)!Listed'
         /\ \A d \in DOMAIN x1 : Pages(b)!WentWell(d) => Pages(b)!WentWell(d)'
<1>1. Len(x1) \in Nat /\ DOMAIN x1 = 1 .. Len(x1) /\ Len(x1') \in Nat /\ DOMAIN x1' = 1 .. Len(x1') /\ Len(x1) <= Len(x1')
  BY PagesKinds DEF PagesGrow
<1>2. \A d \in 1 .. Len(x1) : d \in 1 .. Len(x1') /\ (x1[d].visible => x1'[d].visible)
                              /\ (x1[d].stage = "success" => x1'[d].stage = "success")
  BY <1>1 DEF PagesGrow
<1> QED
  BY <1>1, <1>2 DEF Pages!Listed, Pages!WentWell

\* What a run knows and has listed stays, whatever the others do.
LEMMA PagesFrame ==
  ASSUME NEW b, Pages(b)!PagesIInv, PagesGrow(b), NEW s \in b.releases, NEW u \in Pages(b)!RunStates,
         Pages(b)!RunKnows(s, u), Pages(b)!RunLooks(s, u),
         \A d \in 1 .. Len(x1') : d > Len(x1) => x1'[d].by # s,
         x4 \subseteq x4',
         \A t \in b.releases : x3[t].previous # 0 => x3'[t].previous = x3[t].previous,
         \/ x2' = x2 \/ (x2' \in DOMAIN x1 /\ x1[x2'].stage = "building")
         \/ \E t \in b.releases \ {s} : x3'[t].previous = x2'
  PROVE  Pages(b)!RunKnows(s, u)' /\ Pages(b)!RunLooks(s, u)'
<1>1. /\ DOMAIN x1 \subseteq DOMAIN x1' /\ Pages(b)!MadeBy(s)' = Pages(b)!MadeBy(s) /\ Pages(b)!MadeBy(s) \subseteq DOMAIN x1
      /\ Pages(b)!Listed \subseteq Pages(b)!Listed' /\ \A d \in DOMAIN x1 : Pages(b)!WentWell(d) => Pages(b)!WentWell(d)'
      /\ DOMAIN x1 = 1 .. Len(x1) /\ x2 \in DOMAIN x1
  BY PagesOfRun, PagesListed, PagesKinds
<1>2. Pages(b)!RunLooks(s, u)'
  BY <1>1 DEF Pages!RunLooks
<1>3. /\ u.before \subseteq DOMAIN x1'
      /\ u.owned # 0 => u.owned \in DOMAIN x1' /\ x1'[u.owned].artifact = u.artifact
  BY <1>1 DEF Pages!RunKnows, PagesGrow
<1>4. u.pc \notin {"start", "capture"} \cup Pages(b)!Ended =>
          u.previous \in u.before /\ Pages(b)!WentWell(u.previous)' /\ Pages(b)!MadeBy(s)' \cap u.before = {}
  BY <1>1 DEF Pages!RunKnows
<1>5. u.pc \in {"confirm", "post", "readback", "restoring", "restored", "provisioned"} /\ ~b.lag =>
          /\ \A d \in Pages(b)!MadeBy(s) : Pages(b)!WentWell(d)
          /\ \A d \in Pages(b)!MadeBy(s)' : Pages(b)!WentWell(d)'
  BY <1>1 DEF Pages!RunKnows
<1>6. ASSUME u.pc \in {"restored", "provisioned"}, ~b.lag, x2' \in Pages(b)!MadeBy(s)'
      PROVE  \E t \in b.releases \ {s} : x3'[t].previous = x2'
  <2>1. CASE x2' = x2
    <3>1. PICK t \in b.releases \ {s} : x3[t].previous = x2
      BY <1>1, <1>6, <2>1 DEF Pages!RunKnows
    <3>2. x2 # 0
      BY <1>1, PagesKinds
    <3> QED
      BY <2>1, <3>1, <3>2
  <2>2. CASE x2' \in DOMAIN x1 /\ x1[x2'].stage = "building"
    BY <1>1, <1>5, <1>6, <2>2 DEF Pages!WentWell
  <2> QED
    BY <2>1, <2>2
<1>7. Pages(b)!RunKnows(s, u)'
  BY <1>1, <1>3, <1>4, <1>5, <1>6 DEF Pages!RunKnows
<1> QED
  BY <1>2, <1>7

\* One run, or somebody else, moves.
LEMMA PagesStep ==
  ASSUME NEW b, Pages(b)!PagesIInv, "hand" \notin b.releases, PagesGrow(b),
         NEW r \in b.releases \cup {"hand"}, NEW u \in Pages(b)!RunStates,
         IF r \in b.releases THEN x3' = [x3 EXCEPT ![r] = u] ELSE x3' = x3,
         \A d \in 1 .. Len(x1') : d > Len(x1) => x1'[d].by = r,
         x4 \subseteq x4',
         x2' \in DOMAIN x1' /\ x1'[x2'].stage = "success",
         \/ x2' = x2 \/ (x2' \in DOMAIN x1 /\ x1[x2'].stage = "building")
         \/ r \in b.releases /\ u.previous = x2',
         r \in b.releases =>
            /\ x3[r].previous # 0 => u.previous = x3[r].previous
            /\ Pages(b)!RunKnows(r, u)' /\ Pages(b)!RunLooks(r, u)'
            /\ \A l \in Pages(b)!Seen(u) : l \in Pages(b)!Seen(x3[r]) \/ l = Pages(b)!Listed
  PROVE  Pages(b)!PagesIInv'
<1>1. /\ Len(x1) \in Nat /\ Len(x1') \in Nat /\ DOMAIN x1 = 1 .. Len(x1) /\ DOMAIN x1' = 1 .. Len(x1')
      /\ x3 \in [b.releases -> Pages(b)!RunStates]
  BY PagesKinds DEF PagesGrow
<1>2. /\ x3' \in [b.releases -> Pages(b)!RunStates] /\ (r \in b.releases => x3'[r] = u)
      /\ \A s \in b.releases : s # r => x3'[s] = x3[s]
  BY <1>1
<1>3. Pages(b)!Kinds'
  BY <1>1, <1>2 DEF Pages!Kinds, PagesGrow, PagesDeployments, Pages!Hand
<1>4. \A t \in b.releases : x3[t].previous # 0 => x3'[t].previous = x3[t].previous
  BY <1>2
<1>5. \A s \in b.releases : \E v \in Pages(b)!RunStates : x3'[s] = v /\ Pages(b)!RunKnows(s, v)' /\ Pages(b)!RunLooks(s, v)'
  <2>1. TAKE s \in b.releases
  <2>2. CASE s = r
    BY <1>2, <2>2
  <2>3. CASE s # r
    <3>1. PICK v \in Pages(b)!RunStates : v = x3[s]
      BY <1>1
    <3>2. Pages(b)!RunKnows(s, v) /\ Pages(b)!RunLooks(s, v)
      BY <3>1 DEF Pages!PagesIInv
    <3>3. \A d \in 1 .. Len(x1') : d > Len(x1) => x1'[d].by # s
      BY <2>3
    <3>4. \/ x2' = x2 \/ (x2' \in DOMAIN x1 /\ x1[x2'].stage = "building")
          \/ \E t \in b.releases \ {s} : x3'[t].previous = x2'
      BY <1>2, <2>3
    <3>5. Pages(b)!RunKnows(s, v)' /\ Pages(b)!RunLooks(s, v)'
      BY <1>4, <3>2, <3>3, <3>4, PagesFrame
    <3> QED
      BY <1>2, <2>3, <3>1, <3>5
  <2> QED
    BY <2>2, <2>3
<1>6. \A s \in b.releases : Pages(b)!RunKnows(s, x3[s])' /\ Pages(b)!RunLooks(s, x3[s])'
  BY <1>5
<1>7. \A s \in b.releases : \A l : l \in Pages(b)!Seen(x3[s]) => l \subseteq Pages(b)!Listed
  BY DEF Pages!PagesIInv, Pages!RunLooks
<1>8. \A s \in b.releases : \A l : l \in Pages(b)!Seen(x3'[s]) => l \in Pages(b)!Seen(x3[s]) \/ l = Pages(b)!Listed
  BY <1>2
<1>9. \A s, t \in b.releases : \A l, k : l \in Pages(b)!Seen(x3'[s]) /\ k \in Pages(b)!Seen(x3'[t]) => l \subseteq k \/ k \subseteq l
  <2>1. ASSUME NEW s \in b.releases, NEW t \in b.releases, NEW l, NEW k,
               l \in Pages(b)!Seen(x3'[s]), k \in Pages(b)!Seen(x3'[t])
        PROVE  l \subseteq k \/ k \subseteq l
    <3>1. l \in Pages(b)!Seen(x3[s]) \/ l = Pages(b)!Listed
      BY <1>8, <2>1
    <3>2. k \in Pages(b)!Seen(x3[t]) \/ k = Pages(b)!Listed
      BY <1>8, <2>1
    <3>3. l \subseteq Pages(b)!Listed /\ k \subseteq Pages(b)!Listed
      BY <1>7, <3>1, <3>2
    <3>4. l \in Pages(b)!Seen(x3[s]) /\ k \in Pages(b)!Seen(x3[t]) => l \subseteq k \/ k \subseteq l
      BY DEF Pages!PagesIInv, Pages!InOneOrder
    <3> QED
      BY <3>1, <3>2, <3>3, <3>4
  <2> QED
    BY <2>1
<1>10. Pages(b)!InOneOrder'
  BY <1>9 DEF Pages!InOneOrder, Pages!Seen
<1> QED
  BY <1>3, <1>6, <1>10 DEF Pages!PagesIInv

\* A step of a run that deploys nothing.
LEMMA PagesSets ==
  ASSUME NEW b, Pages(b)!PagesIInv, "hand" \notin b.releases, NEW r \in b.releases, NEW u \in Pages(b)!RunStates,
         x3' = [x3 EXCEPT ![r] = u], x1' = x1, x4 \subseteq x4',
         x2' = x2 \/ (u.previous = x2' /\ x2' \in DOMAIN x1 /\ Pages(b)!WentWell(x2')),
         x3[r].previous # 0 => u.previous = x3[r].previous,
         Pages(b)!RunKnows(r, u)', Pages(b)!RunLooks(r, u)',
         \A l \in Pages(b)!Seen(u) : l \in Pages(b)!Seen(x3[r]) \/ l = Pages(b)!Listed
  PROVE  Pages(b)!PagesIInv'
<1>1. Len(x1) \in Nat /\ DOMAIN x1 = 1 .. Len(x1) /\ x2 \in DOMAIN x1 /\ x1[x2].stage = "success"
  BY PagesKinds
<1>2. PagesGrow(b) /\ \A d \in 1 .. Len(x1') : ~(d > Len(x1))
  BY <1>1, PagesKinds DEF PagesGrow
<1>3. x2' \in DOMAIN x1' /\ x1'[x2'].stage = "success"
  BY <1>1 DEF Pages!WentWell
<1> QED
  BY <1>2, <1>3, PagesStep

\* A run moves on from what it has listed.
LEMMA PagesMove ==
  ASSUME NEW b, Pages(b)!PagesIInv, "hand" \notin b.releases, NEW r \in b.releases, NEW v \in Pages(b)!RunStates,
         Pages(b)!Move(r, v), x1' = x1, x4 \subseteq x4',
         x2' = x2 \/ (v.previous = x2' /\ x2' \in DOMAIN x1 /\ Pages(b)!WentWell(x2')),
         x3[r].previous # 0 => v.previous = x3[r].previous,
         Pages(b)!RunKnows(r, v)',
         v.pc \in {"done", "released"} => v.before \cup {v.owned} \in Pages(b)!Seen(x3[r])
  PROVE  Pages(b)!PagesIInv'
<1>1. PICK u : u = [v EXCEPT !.list = {}, !.listed = FALSE]
  OBVIOUS
<1>2. /\ u \in Pages(b)!RunStates /\ u.pc = v.pc /\ u.artifact = v.artifact /\ u.before = v.before /\ u.previous = v.previous
      /\ u.owned = v.owned /\ u.attempted = v.attempted /\ u.failing = v.failing /\ ~u.listed /\ u.list = {}
  BY <1>1 DEF Pages!RunStates
<1>3. x3' = [x3 EXCEPT ![r] = u]
  BY <1>1 DEF Pages!Move, Pages!Set
<1>4. Pages(b)!RunKnows(r, u)'
  BY <1>2 DEF Pages!RunKnows
<1>5. \A l \in Pages(b)!Seen(u) : l \in Pages(b)!Seen(x3[r])
  BY <1>2 DEF Pages!Seen
<1>6. Pages(b)!Listed' = Pages(b)!Listed
  BY DEF Pages!Listed
<1>7. \A l \in Pages(b)!Seen(x3[r]) : l \subseteq Pages(b)!Listed
  BY DEF Pages!PagesIInv, Pages!RunLooks
<1>8. Pages(b)!RunLooks(r, u)'
  BY <1>2, <1>5, <1>6, <1>7 DEF Pages!RunLooks
<1> QED
  BY <1>2, <1>3, <1>4, <1>5, <1>8, PagesSets

LEMMA PagesAt ==
  ASSUME NEW b, Pages(b)!PagesIInv, NEW r \in b.releases
  PROVE  /\ x3[r] \in Pages(b)!RunStates /\ Pages(b)!RunKnows(r, x3[r]) /\ Pages(b)!RunLooks(r, x3[r])
         /\ \A l \in Pages(b)!Seen(x3[r]) : l \subseteq DOMAIN x1
  BY PagesKinds DEF Pages!PagesIInv, Pages!RunLooks, Pages!Listed

LEMMA PagesFresh ==
  ASSUME NEW b
  PROVE  /\ Pages(b)!Fresh \in Pages(b)!RunStates
         /\ Pages(b)!Fresh.pc = "start" /\ Pages(b)!Fresh.previous = 0 /\ Pages(b)!Fresh.owned = 0 /\ Pages(b)!Fresh.before = {}
         /\ ~Pages(b)!Fresh.listed /\ Pages(b)!Fresh.list = {} /\ ~Pages(b)!Fresh.attempted /\ ~Pages(b)!Fresh.failing
<1>1. "hand" \in Pages(b)!Artifacts /\ "start" \in Pages(b)!Steps
  BY PagesPhases DEF Pages!Artifacts, Pages!Steps, Pages!Hand
<1>2. {} \in SUBSET Nat /\ 0 \in Nat
  OBVIOUS
<1> QED
  BY <1>1, <1>2 DEF Pages!Fresh, Pages!RunStates, Pages!Hand

\* What a run that stops keeps is what it was to take production back to.
LEMMA PagesStops ==
  ASSUME NEW b, Pages(b)!PagesIInv, "hand" \notin b.releases, NEW r \in b.releases,
         NEW pc \in {"refused", "blocked", "dead"}, Pages(b)!Stop(r, pc), x1' = x1, x4 \subseteq x4',
         x2' = x2 \/ (x3[r].previous = x2' /\ x2' \in DOMAIN x1 /\ Pages(b)!WentWell(x2'))
  PROVE  Pages(b)!PagesIInv'
<1>1. PICK f \in Pages(b)!RunStates :
         f = Pages(b)!Fresh /\ f.before = {} /\ f.owned = 0 /\ ~f.listed /\ f.list = {}
  BY PagesFresh
<1>2. PICK p \in Nat : p = x3[r].previous
  BY PagesAt DEF Pages!RunStates
<1>3. PICK u : u = [f EXCEPT !.pc = pc, !.previous = p]
  OBVIOUS
<1>4. pc \in Pages(b)!Steps
  BY PagesPhases DEF Pages!Steps
<1>5. u \in Pages(b)!RunStates /\ u.pc = pc /\ u.before = {} /\ u.owned = 0 /\ ~u.listed /\ u.list = {} /\ u.previous = p
  BY <1>1, <1>2, <1>3, <1>4 DEF Pages!RunStates
<1>6. x3' = [x3 EXCEPT ![r] = u]
  BY <1>1, <1>2, <1>3 DEF Pages!Stop
<1>7. Pages(b)!RunKnows(r, u)' /\ Pages(b)!RunLooks(r, u)' /\ Pages(b)!Seen(u) = {}
  BY <1>5, PagesPhases DEF Pages!RunKnows, Pages!RunLooks, Pages!Seen
<1> QED
  BY <1>2, <1>5, <1>6, <1>7, PagesSets

\* What is thrown.
LEMMA PagesThrows ==
  ASSUME NEW b, Pages(b)!PagesIInv, "hand" \notin b.releases, NEW r \in b.releases,
         x3[r].pc \notin Pages(b)!Ended, Pages(b)!Throw(r), x1' = x1, x4 \subseteq x4',
         x2' = x2 \/ (x3[r].previous = x2' /\ x2' \in DOMAIN x1 /\ Pages(b)!WentWell(x2'))
  PROVE  Pages(b)!PagesIInv'
<1>1. CASE x3[r].failing
  BY <1>1, PagesStops DEF Pages!Throw
<1>2. CASE ~x3[r].failing /\ ~x3[r].attempted
  BY <1>2, PagesStops DEF Pages!Throw
<1>3. CASE ~x3[r].failing /\ x3[r].attempted
  <2>1. PICK o \in Pages(b)!RunStates : o = x3[r] /\ Pages(b)!RunKnows(r, o)
    BY PagesAt
  <2>2. PICK v : v = [o EXCEPT !.pc = "rollback", !.tries = 0, !.failing = TRUE]
    OBVIOUS
  <2>3. /\ v \in Pages(b)!RunStates /\ v.pc = "rollback" /\ v.before = o.before /\ v.owned = o.owned /\ v.previous = o.previous
        /\ v.artifact = o.artifact /\ v.failing
    BY <2>1, <2>2, PagesSteps DEF Pages!RunStates
  <2>4. Pages(b)!Move(r, v)
    BY <1>3, <2>1, <2>2 DEF Pages!Throw
  <2>5. o.pc \notin Pages(b)!Ended \cup {"start", "capture"}
    BY <1>3, <2>1, PagesPhases DEF Pages!RunKnows
  <2>6. Pages(b)!RunKnows(r, v)'
    BY <2>1, <2>3, <2>5, PagesPhases DEF Pages!RunKnows, Pages!MadeBy, Pages!WentWell
  <2> QED
    BY <2>1, <2>3, <2>4, <2>6, PagesMove
<1> QED
  BY <1>1, <1>2, <1>3

\* Everybody else: deployments by hand, and deployments that go on.
LEMMA PagesMade ==
  ASSUME NEW b, Pages(b)!PagesIInv, NEW who \in b.releases \cup {"hand"}, NEW what \in Pages(b)!Artifacts, Pages(b)!Made(who, what)
  PROVE  /\ PagesGrow(b) /\ \A d \in 1 .. Len(x1') : d > Len(x1) => x1'[d].by = who
         /\ x2 \in DOMAIN x1' /\ x1'[x2].stage = "success"
<1>1. PICK e \in PagesDeployments(b) : e.by = who /\ e.visible = ~b.lag /\ x1' = Append(x1, e)
  <2>1. PICK l \in BOOLEAN : l = ~b.lag
    OBVIOUS
  <2>2. PICK e \in PagesDeployments(b) : e = [by |-> who, artifact |-> what, stage |-> "building", visible |-> l]
    BY DEF PagesDeployments
  <2> QED
    BY <2>1, <2>2 DEF Pages!Made
<1>2. /\ Len(x1) \in Nat /\ DOMAIN x1 = 1 .. Len(x1) /\ x1 \in Seq(PagesDeployments(b)) /\ x2 \in DOMAIN x1 /\ x1[x2].stage = "success"
      /\ ~b.lag => \A d \in DOMAIN x1 : x1[d].visible
  BY PagesKinds
<1>3. /\ x1' \in Seq(PagesDeployments(b)) /\ Len(x1') = Len(x1) + 1 /\ DOMAIN x1' = 1 .. Len(x1')
      /\ \A d \in 1 .. Len(x1) : d \in 1 .. Len(x1') /\ x1'[d] = x1[d]
      /\ x1'[Len(x1) + 1] = e
  BY <1>1, <1>2
<1>4. \A d \in 1 .. Len(x1') : d \in 1 .. Len(x1) \/ d = Len(x1) + 1
  BY <1>2, <1>3
<1>5. Len(x1) <= Len(x1') /\ \A d \in 1 .. Len(x1') : d > Len(x1) => d = Len(x1) + 1
  BY <1>2, <1>3
<1>6. ~b.lag => \A d \in 1 .. Len(x1') : x1'[d].visible
  BY <1>1, <1>2, <1>3, <1>4
<1>7. PagesGrow(b)
  BY <1>3, <1>5, <1>6 DEF PagesGrow
<1>8. \A d \in 1 .. Len(x1') : d > Len(x1) => x1'[d].by = who
  BY <1>1, <1>3, <1>5
<1>9. x2 \in DOMAIN x1' /\ x1'[x2].stage = "success"
  BY <1>2, <1>3
<1> QED
  BY <1>7, <1>8, <1>9

LEMMA PagesDeployedByHand ==
  ASSUME NEW b, Pages(b)!PagesIInv, "hand" \notin b.releases, Pages(b)!DeployByHand
  PROVE  Pages(b)!PagesIInv'
<1>1. Pages(b)!Made("hand", "hand") /\ x2' = x2 /\ x3' = x3 /\ x4' = x4
  BY DEF Pages!DeployByHand, Pages!Hand
<1>2. "hand" \in Pages(b)!Artifacts
  BY DEF Pages!Artifacts, Pages!Hand
<1>3. /\ PagesGrow(b) /\ \A d \in 1 .. Len(x1') : d > Len(x1) => x1'[d].by = "hand"
      /\ x2 \in DOMAIN x1' /\ x1'[x2].stage = "success"
  BY <1>1, <1>2, PagesMade
<1>4. PICK u \in Pages(b)!RunStates : TRUE
  BY PagesFresh
<1> QED
  BY <1>1, <1>3, <1>4, PagesStep

\* A deployment is changed.
LEMMA PagesChanged ==
  ASSUME NEW b, Pages(b)!PagesIInv, NEW d \in DOMAIN x1, NEW e \in PagesDeployments(b), x1' = [x1 EXCEPT ![d] = e],
         e.by = x1[d].by, e.artifact = x1[d].artifact, x1[d].visible => e.visible, ~b.lag => e.visible,
         x1[d].stage # "building" => e.stage = x1[d].stage
  PROVE  PagesGrow(b) /\ Len(x1') = Len(x1)
<1>1. /\ Len(x1) \in Nat /\ DOMAIN x1 = 1 .. Len(x1) /\ x1 \in Seq(PagesDeployments(b))
      /\ ~b.lag => \A i \in DOMAIN x1 : x1[i].visible
  BY PagesKinds
<1>2. x1' \in Seq(PagesDeployments(b)) /\ Len(x1') = Len(x1) /\ x1'[d] = e /\ \A i \in 1 .. Len(x1) : i # d => x1'[i] = x1[i]
  BY <1>1
<1> QED
  BY <1>1, <1>2 DEF PagesGrow

LEMMA PagesAppears ==
  ASSUME NEW b, Pages(b)!PagesIInv, "hand" \notin b.releases, NEW d \in DOMAIN x1, Pages(b)!Appears(d)
  PROVE  Pages(b)!PagesIInv'
<1>1. /\ Len(x1) \in Nat /\ DOMAIN x1 = 1 .. Len(x1) /\ x1 \in Seq(PagesDeployments(b)) /\ x2 \in DOMAIN x1 /\ x1[x2].stage = "success"
  BY PagesKinds
<1>2. PICK o \in PagesDeployments(b) : o = x1[d]
  BY <1>1
<1>3. PICK e : e = [o EXCEPT !.visible = TRUE]
  OBVIOUS
<1>4. e \in PagesDeployments(b) /\ e.by = o.by /\ e.artifact = o.artifact /\ e.stage = o.stage /\ e.visible
  BY <1>2, <1>3 DEF PagesDeployments
<1>5. x1' = [x1 EXCEPT ![d] = e] /\ x2' = x2 /\ x3' = x3 /\ x4' = x4
  BY <1>2, <1>3 DEF Pages!Appears
<1>6. PagesGrow(b) /\ Len(x1') = Len(x1)
  BY <1>2, <1>4, <1>5, PagesChanged
<1>7. (\A i \in 1 .. Len(x1') : ~(i > Len(x1))) /\ x2 \in DOMAIN x1' /\ x1'[x2].stage = "success"
  BY <1>1, <1>2, <1>4, <1>5, <1>6
<1>8. PICK u \in Pages(b)!RunStates : TRUE
  BY PagesFresh
<1> QED
  BY <1>5, <1>6, <1>7, <1>8, PagesStep

LEMMA PagesFinishes ==
  ASSUME NEW b, Pages(b)!PagesIInv, "hand" \notin b.releases, NEW d \in DOMAIN x1, NEW stage \in {"success", "failure"},
         Pages(b)!Finishes(d, stage)
  PROVE  Pages(b)!PagesIInv'
<1>1. /\ Len(x1) \in Nat /\ DOMAIN x1 = 1 .. Len(x1) /\ x1 \in Seq(PagesDeployments(b)) /\ x2 \in DOMAIN x1 /\ x1[x2].stage = "success"
      /\ ~b.lag => \A i \in DOMAIN x1 : x1[i].visible
  BY PagesKinds
<1>2. PICK o \in PagesDeployments(b) : o = x1[d]
  BY <1>1
<1>3. PICK e : e = [o EXCEPT !.stage = stage]
  OBVIOUS
<1>4. e \in PagesDeployments(b) /\ e.by = o.by /\ e.artifact = o.artifact /\ e.stage = stage /\ e.visible = o.visible
  BY <1>2, <1>3 DEF PagesDeployments
<1>5. /\ x1' = [x1 EXCEPT ![d] = e] /\ x3' = x3 /\ x4' = x4 /\ o.stage = "building"
      /\ x2' = IF stage = "success" THEN d ELSE x2
  BY <1>2, <1>3 DEF Pages!Finishes
<1>6. PagesGrow(b) /\ Len(x1') = Len(x1)
  BY <1>1, <1>2, <1>4, <1>5, PagesChanged
<1>7. \A i \in 1 .. Len(x1') : ~(i > Len(x1))
  BY <1>1, <1>6
<1>8. x2' \in DOMAIN x1' /\ x1'[x2'].stage = "success"
  <2>1. x2 # d
    BY <1>1, <1>2, <1>5
  <2> QED
    BY <1>1, <1>2, <1>4, <1>5, <2>1
<1>9. x2' = x2 \/ (x2' \in DOMAIN x1 /\ x1[x2'].stage = "building")
  BY <1>2, <1>5
<1>10. PICK u \in Pages(b)!RunStates : TRUE
  BY PagesFresh
<1> QED
  BY <1>5, <1>6, <1>7, <1>8, <1>9, <1>10, PagesStep

\* What a step of a run has to say of it.
LEMMA PagesGoes ==
  ASSUME NEW b, NEW r, NEW o \in Pages(b)!RunStates, o = x3[r], NEW pc \in Pages(b)!Steps, Pages(b)!Goto(r, pc)
  PROVE  \E v \in Pages(b)!RunStates :
            /\ Pages(b)!Move(r, v) /\ v.pc = pc /\ v.artifact = o.artifact /\ v.before = o.before /\ v.previous = o.previous
            /\ v.owned = o.owned /\ v.attempted = o.attempted /\ v.failing = o.failing
<1>1. PICK v : v = [o EXCEPT !.pc = pc, !.tries = 0]
  OBVIOUS
<1>2. /\ v \in Pages(b)!RunStates /\ v.pc = pc /\ v.artifact = o.artifact /\ v.before = o.before /\ v.previous = o.previous
      /\ v.owned = o.owned /\ v.attempted = o.attempted /\ v.failing = o.failing
  BY <1>1 DEF Pages!RunStates
<1>3. Pages(b)!Move(r, v)
  BY <1>1 DEF Pages!Goto
<1> QED
  BY <1>2, <1>3

LEMMA PagesStay ==
  ASSUME NEW b, NEW r \in b.releases, NEW v, Pages(b)!RunKnows(r, v), x1' = x1, x4 \subseteq x4',
         v.pc \notin {"restored", "provisioned"}
  PROVE  Pages(b)!RunKnows(r, v)'
  BY DEF Pages!RunKnows, Pages!MadeBy, Pages!WentWell

LEMMA PagesTriesAgain ==
  ASSUME NEW b, Pages(b)!PagesIInv, "hand" \notin b.releases, NEW r \in b.releases, Pages(b)!AgainOrThrow(r),
         x3[r].pc \in {"verify", "readback"}, x1' = x1, x2' = x2, x4' = x4
  PROVE  Pages(b)!PagesIInv'
<1>1. PICK o \in Pages(b)!RunStates : o = x3[r] /\ Pages(b)!RunKnows(r, o)
  BY PagesAt
<1>2. CASE Pages(b)!Throw(r)
  BY <1>2, PagesPhases, PagesThrows
<1>3. CASE Pages(b)!Again(r)
  <2>1. PICK n \in Nat : n = o.tries + 1
    BY DEF Pages!RunStates
  <2>2. PICK v : v = [o EXCEPT !.tries = n]
    OBVIOUS
  <2>3. /\ v \in Pages(b)!RunStates /\ v.pc = o.pc /\ v.artifact = o.artifact /\ v.before = o.before /\ v.previous = o.previous
        /\ v.owned = o.owned /\ v.attempted = o.attempted /\ v.failing = o.failing
    BY <2>2 DEF Pages!RunStates
  <2>4. Pages(b)!Move(r, v)
    BY <1>1, <1>3, <2>1, <2>2 DEF Pages!Again
  <2>5. Pages(b)!RunKnows(r, v)
    BY <1>1, <2>3 DEF Pages!RunKnows
  <2>6. Pages(b)!RunKnows(r, v)'
    BY <1>1, <2>3, <2>5, PagesStay
  <2> QED
    BY <1>1, <2>3, <2>4, <2>6, PagesMove
<1> QED
  BY <1>2, <1>3 DEF Pages!AgainOrThrow

LEMMA PagesStarts ==
  ASSUME NEW b, Pages(b)!PagesIInv, "hand" \notin b.releases, NEW r \in b.releases, NEW p \in BOOLEAN, Pages(b)!Start(r, p)
  PROVE  Pages(b)!PagesIInv'
<1>1. PICK o \in Pages(b)!RunStates : o = x3[r] /\ Pages(b)!RunKnows(r, o) /\ Pages(b)!RunLooks(r, o) /\ o.pc = "start"
  BY PagesAt DEF Pages!Start
<1>2. PICK u : u = [o EXCEPT !.pc = "capture", !.artifact = r, !.provisioning = p]
  OBVIOUS
<1>3. r \in Pages(b)!Artifacts /\ "capture" \in Pages(b)!Steps
  BY PagesSteps DEF Pages!Artifacts
<1>4. /\ u \in Pages(b)!RunStates /\ u.pc = "capture" /\ u.before = o.before /\ u.previous = o.previous
      /\ u.owned = o.owned /\ u.attempted = o.attempted /\ u.failing = o.failing /\ u.listed = o.listed /\ u.list = o.list
  BY <1>2, <1>3 DEF Pages!RunStates
<1>5. x3' = [x3 EXCEPT ![r] = u] /\ x1' = x1 /\ x2' = x2 /\ x4' = x4
  BY <1>1, <1>2 DEF Pages!Start, Pages!Set, Pages!Else
<1>6. ~u.listed /\ u.list = {}
  BY <1>1, <1>4, PagesPhases DEF Pages!RunLooks
<1>7. Pages(b)!RunKnows(r, u) /\ Pages(b)!RunLooks(r, u)' /\ Pages(b)!Seen(u) = {}
  BY <1>1, <1>4, <1>6, PagesPhases DEF Pages!RunKnows, Pages!RunLooks, Pages!Seen
<1>8. Pages(b)!RunKnows(r, u)'
  BY <1>4, <1>5, <1>7, PagesStay
<1> QED
  BY <1>1, <1>4, <1>5, <1>7, <1>8, PagesSets

LEMMA PagesLists ==
  ASSUME NEW b, Pages(b)!PagesIInv, "hand" \notin b.releases, NEW r \in b.releases, Pages(b)!List(r)
  PROVE  Pages(b)!PagesIInv'
<1>1. PICK o \in Pages(b)!RunStates :
         o = x3[r] /\ Pages(b)!RunKnows(r, o) /\ Pages(b)!RunLooks(r, o) /\ o.pc \in Pages(b)!Looking
  BY PagesAt DEF Pages!List
<1>2. PICK l \in SUBSET Nat : l = Pages(b)!Listed
  BY PagesKinds
<1>3. PICK u : u = [o EXCEPT !.list = l, !.listed = TRUE]
  OBVIOUS
<1>4. /\ u \in Pages(b)!RunStates /\ u.pc = o.pc /\ u.artifact = o.artifact /\ u.before = o.before /\ u.previous = o.previous
      /\ u.owned = o.owned /\ u.attempted = o.attempted /\ u.failing = o.failing /\ u.listed /\ u.list = l
  BY <1>2, <1>3 DEF Pages!RunStates
<1>5. x3' = [x3 EXCEPT ![r] = u] /\ x1' = x1 /\ x2' = x2 /\ x4' = x4
  BY <1>1, <1>2, <1>3 DEF Pages!List, Pages!Set, Pages!Else
<1>6. u.pc \notin {"restored", "provisioned", "done", "released"}
  BY <1>1, <1>4, PagesPhases
<1>7. Pages(b)!RunKnows(r, u)
  BY <1>1, <1>4 DEF Pages!RunKnows
<1>8. Pages(b)!RunKnows(r, u)'
  BY <1>5, <1>6, <1>7, PagesStay
<1>9. \A k \in Pages(b)!Seen(u) : k = l
  BY <1>4, <1>6 DEF Pages!Seen
<1>10. Pages(b)!Listed' = l
  BY <1>2, <1>5 DEF Pages!Listed
<1>11. ~b.lag => Pages(b)!MadeBy(r)' \subseteq l
  BY <1>2, <1>5, PagesKinds DEF Pages!MadeBy
<1>12. Pages(b)!RunLooks(r, u)'
  BY <1>1, <1>4, <1>9, <1>10, <1>11 DEF Pages!RunLooks
<1> QED
  BY <1>1, <1>2, <1>4, <1>5, <1>8, <1>9, <1>12, PagesSets

LEMMA PagesCaptures ==
  ASSUME NEW b, Pages(b)!PagesIInv, "hand" \notin b.releases, NEW r \in b.releases, Pages(b)!Capture(r)
  PROVE  Pages(b)!PagesIInv'
<1>1. PICK o \in Pages(b)!RunStates :
         o = x3[r] /\ Pages(b)!RunKnows(r, o) /\ Pages(b)!RunLooks(r, o) /\ o.pc = "capture" /\ o.listed
  BY PagesAt DEF Pages!Capture, Pages!Looked
<1>2. x1' = x1 /\ x2' = x2 /\ x4' = x4 /\ o.pc \notin Pages(b)!Ended
  BY <1>1, PagesPhases DEF Pages!Capture, Pages!Else
<1>3. CASE Pages(b)!Throw(r)
  BY <1>1, <1>2, <1>3, PagesThrows
<1>4. CASE ~Pages(b)!Throw(r)
  <2>1. PICK v : v = [o EXCEPT !.pc = "recheck", !.before = o.list, !.previous = x2]
    OBVIOUS
  <2>2. x2 \in o.list /\ Pages(b)!WentWell(x2) /\ Pages(b)!Move(r, v)
    BY <1>1, <1>4, <2>1 DEF Pages!Capture, Pages!WasLive, Pages!WentWell
  <2>3. o.list \in Pages(b)!Seen(o)
    BY <1>1 DEF Pages!Seen
  <2>4. o.list \subseteq DOMAIN x1 /\ o.list \in SUBSET Nat /\ x2 \in Nat
    BY <1>1, <2>2, <2>3, PagesAt DEF Pages!RunStates
  <2>5. /\ v \in Pages(b)!RunStates /\ v.pc = "recheck" /\ v.artifact = o.artifact /\ v.before = o.list /\ v.previous = x2
        /\ v.owned = o.owned /\ v.attempted = o.attempted /\ v.failing = o.failing
    BY <2>1, <2>4, PagesSteps DEF Pages!RunStates
  <2>6. Pages(b)!RunKnows(r, v)
    BY <1>1, <2>2, <2>4, <2>5, PagesPhases DEF Pages!RunKnows
  <2>7. Pages(b)!RunKnows(r, v)' /\ o.previous = 0
    BY <1>1, <1>2, <2>5, <2>6, PagesStay DEF Pages!RunKnows
  <2> QED
    BY <1>1, <1>2, <2>2, <2>5, <2>7, PagesMove
<1> QED
  BY <1>3, <1>4

LEMMA PagesRechecks ==
  ASSUME NEW b, Pages(b)!PagesIInv, "hand" \notin b.releases, NEW r \in b.releases, Pages(b)!Recheck(r)
  PROVE  Pages(b)!PagesIInv'
<1>1. PICK o \in Pages(b)!RunStates :
         o = x3[r] /\ Pages(b)!RunKnows(r, o) /\ o.pc = "recheck"
  BY PagesAt DEF Pages!Recheck, Pages!Looked
<1>2. x1' = x1 /\ x2' = x2 /\ x4' = x4 /\ o.pc \notin Pages(b)!Ended /\ "upload" \in Pages(b)!Steps
  BY <1>1, PagesPhases, PagesSteps DEF Pages!Recheck, Pages!Else
<1>3. CASE Pages(b)!Throw(r)
  BY <1>1, <1>2, <1>3, PagesThrows
<1>4. CASE Pages(b)!Goto(r, "upload")
  <2>1. PICK v \in Pages(b)!RunStates :
          /\ Pages(b)!Move(r, v) /\ v.pc = "upload" /\ v.artifact = o.artifact /\ v.before = o.before /\ v.previous = o.previous
          /\ v.owned = o.owned /\ v.attempted = o.attempted /\ v.failing = o.failing
    BY <1>1, <1>2, <1>4, PagesGoes
  <2>2. Pages(b)!RunKnows(r, v)
    BY <1>1, <2>1, PagesPhases DEF Pages!RunKnows
  <2>3. Pages(b)!RunKnows(r, v)'
    BY <1>2, <2>1, <2>2, PagesStay
  <2> QED
    BY <1>1, <1>2, <2>1, <2>3, PagesMove
<1> QED
  BY <1>3, <1>4 DEF Pages!Recheck

\* The upload, that may fail after it was taken.
LEMMA PagesUploads ==
  ASSUME NEW b, Pages(b)!PagesIInv, "hand" \notin b.releases, NEW r \in b.releases, Pages(b)!Upload(r) \/ Pages(b)!UploadFails(r)
  PROVE  Pages(b)!PagesIInv'
<1>1. PICK o \in Pages(b)!RunStates :
         o = x3[r] /\ Pages(b)!RunKnows(r, o) /\ Pages(b)!RunLooks(r, o) /\ o.pc = "upload"
  BY PagesAt DEF Pages!Upload, Pages!UploadFails
<1>2. PICK pc \in {"verify", "rollback"}, f \in BOOLEAN :
         /\ x3' = [x3 EXCEPT ![r] = [o EXCEPT !.pc = pc, !.attempted = TRUE, !.failing = f]]
         /\ pc = "rollback" => f
         /\ Pages(b)!Made(r, o.artifact) \/ x1' = x1
         /\ x2' = x2 /\ x4' = x4
  <2>1. CASE Pages(b)!Upload(r)
    <3>1. PICK f \in BOOLEAN : f = o.failing
      BY DEF Pages!RunStates
    <3>2. [o EXCEPT !.pc = "verify", !.attempted = TRUE, !.failing = f] = [o EXCEPT !.pc = "verify", !.attempted = TRUE]
      BY <3>1 DEF Pages!RunStates
    <3> QED
      BY <1>1, <2>1, <3>2 DEF Pages!Upload, Pages!Set
  <2>2. CASE Pages(b)!UploadFails(r)
    BY <1>1, <2>2 DEF Pages!UploadFails, Pages!Set
  <2> QED
    BY <2>1, <2>2
<1>3. PICK u : u = [o EXCEPT !.pc = pc, !.attempted = TRUE, !.failing = f]
  OBVIOUS
<1>4. /\ u \in Pages(b)!RunStates /\ u.pc = pc /\ u.artifact = o.artifact /\ u.before = o.before /\ u.previous = o.previous
      /\ u.owned = o.owned /\ u.failing = f /\ u.listed = o.listed /\ u.list = o.list
  BY <1>2, <1>3, PagesSteps DEF Pages!RunStates
<1>5. /\ PagesGrow(b) /\ \A d \in 1 .. Len(x1') : d > Len(x1) => x1'[d].by = r
      /\ x2 \in DOMAIN x1' /\ x1'[x2].stage = "success"
  <2>1. CASE Pages(b)!Made(r, o.artifact)
    <3>1. o.artifact \in Pages(b)!Artifacts
      BY DEF Pages!RunStates
    <3> QED
      BY <2>1, <3>1, PagesMade
  <2>2. CASE x1' = x1
    <3>1. Len(x1) \in Nat /\ \A d \in 1 .. Len(x1') : ~(d > Len(x1))
      BY <2>2, PagesKinds
    <3> QED
      BY <2>2, <3>1, PagesKinds DEF PagesGrow
  <2> QED
    BY <1>2, <2>1, <2>2
<1>6. /\ Len(x1) \in Nat /\ DOMAIN x1 = 1 .. Len(x1) /\ DOMAIN x1' = 1 .. Len(x1')
  BY <1>5, PagesKinds DEF PagesGrow
<1>7. /\ o.before \subseteq DOMAIN x1 /\ o.previous \in o.before /\ Pages(b)!WentWell(o.previous) /\ Pages(b)!MadeBy(r) = {}
      /\ o.owned # 0 => o.owned \in DOMAIN x1 /\ x1[o.owned].artifact = o.artifact
  BY <1>1, PagesPhases DEF Pages!RunKnows
<1>8. /\ DOMAIN x1 \subseteq DOMAIN x1' /\ Pages(b)!WentWell(o.previous)'
      /\ o.owned # 0 => o.owned \in DOMAIN x1' /\ x1'[o.owned].artifact = o.artifact
  BY <1>5, <1>6, <1>7, PagesListed DEF PagesGrow
<1>9. Pages(b)!MadeBy(r)' \cap o.before = {}
  <2>1. ASSUME NEW d \in o.before PROVE x1'[d].by # r
    BY <1>5, <1>6, <1>7, <2>1 DEF PagesGrow, Pages!MadeBy
  <2> QED
    BY <2>1 DEF Pages!MadeBy
<1>10. Pages(b)!RunKnows(r, u)'
  BY <1>2, <1>4, <1>7, <1>8, <1>9, PagesPhases DEF Pages!RunKnows
<1>11. ~u.listed /\ u.list = {}
  BY <1>1, <1>4, PagesPhases DEF Pages!RunLooks
<1>12. Pages(b)!RunLooks(r, u)' /\ Pages(b)!Seen(u) = {}
  BY <1>4, <1>11 DEF Pages!RunLooks, Pages!Seen
<1> QED
  BY <1>1, <1>2, <1>3, <1>4, <1>5, <1>10, <1>12, PagesStep

LEMMA PagesVerifies ==
  ASSUME NEW b, Pages(b)!PagesIInv, "hand" \notin b.releases, NEW r \in b.releases, Pages(b)!Verify(r)
  PROVE  Pages(b)!PagesIInv'
<1>1. PICK o \in Pages(b)!RunStates :
         o = x3[r] /\ Pages(b)!RunKnows(r, o) /\ Pages(b)!RunLooks(r, o) /\ o.pc = "verify" /\ o.listed
  BY PagesAt DEF Pages!Verify, Pages!Looked
<1>2. x1' = x1 /\ x2' = x2 /\ x4' = x4 /\ o.pc \notin Pages(b)!Ended
  BY <1>1, PagesPhases DEF Pages!Verify, Pages!Else
<1>3. CASE Pages(b)!Throw(r)
  BY <1>1, <1>2, <1>3, PagesThrows
<1>4. CASE Pages(b)!AgainOrThrow(r)
  BY <1>1, <1>2, <1>4, PagesTriesAgain
<1>5. CASE ~Pages(b)!Throw(r) /\ ~Pages(b)!AgainOrThrow(r)
  <2>1. PICK d : d = CHOOSE n \in Pages(b)!New(r) : TRUE
    OBVIOUS
  <2>2. PICK k : k = IF o.owned = 0 THEN 0 ELSE o.tries
    OBVIOUS
  <2>3. PICK v : v = [o EXCEPT !.pc = "probe", !.owned = d, !.tries = k]
    OBVIOUS
  <2>4. Pages(b)!New(r) # {} /\ Pages(b)!IsLive(r, d) /\ Pages(b)!Move(r, v)
    BY <1>1, <1>5, <2>1, <2>2, <2>3 DEF Pages!Verify
  <2>5. d \in o.list
    BY <1>1, <2>1, <2>4 DEF Pages!New
  <2>6. o.list \in Pages(b)!Seen(o)
    BY <1>1 DEF Pages!Seen
  <2>7. d \in DOMAIN x1 /\ d \in Nat /\ k \in Nat
    BY <1>1, <2>2, <2>5, <2>6, PagesAt DEF Pages!RunStates
  <2>8. /\ v \in Pages(b)!RunStates /\ v.pc = "probe" /\ v.artifact = o.artifact /\ v.before = o.before /\ v.previous = o.previous
        /\ v.owned = d /\ v.attempted = o.attempted /\ v.failing = o.failing
    BY <2>3, <2>7, PagesSteps DEF Pages!RunStates
  <2>9. x1[d].artifact = o.artifact
    BY <1>1, <2>4 DEF Pages!IsLive
  <2>10. Pages(b)!RunKnows(r, v)
    BY <1>1, <2>7, <2>8, <2>9, PagesPhases DEF Pages!RunKnows
  <2>11. Pages(b)!RunKnows(r, v)'
    BY <1>2, <2>8, <2>10, PagesStay
  <2> QED
    BY <1>1, <1>2, <2>4, <2>8, <2>11, PagesMove
<1> QED
  BY <1>3, <1>4, <1>5

LEMMA PagesProbes ==
  ASSUME NEW b, Pages(b)!PagesIInv, "hand" \notin b.releases, NEW r \in b.releases, Pages(b)!Probe(r)
  PROVE  Pages(b)!PagesIInv'
<1>1. PICK o \in Pages(b)!RunStates :
         o = x3[r] /\ Pages(b)!RunKnows(r, o) /\ Pages(b)!RunLooks(r, o) /\ o.pc = "probe"
  BY PagesAt DEF Pages!Probe
<1>2. x1' = x1 /\ x2' = x2 /\ x4' = x4 /\ o.pc \notin Pages(b)!Ended /\ {"final", "verify"} \subseteq Pages(b)!Steps
  BY <1>1, PagesPhases, PagesSteps DEF Pages!Probe, Pages!Cloud
<1>3. CASE Pages(b)!Throw(r)
  BY <1>1, <1>2, <1>3, PagesThrows
<1>4. CASE Pages(b)!Goto(r, "final")
  <2>1. PICK v \in Pages(b)!RunStates :
          /\ Pages(b)!Move(r, v) /\ v.pc = "final" /\ v.artifact = o.artifact /\ v.before = o.before /\ v.previous = o.previous
          /\ v.owned = o.owned /\ v.attempted = o.attempted /\ v.failing = o.failing
    BY <1>1, <1>2, <1>4, PagesGoes
  <2>2. Pages(b)!RunKnows(r, v)
    BY <1>1, <2>1, PagesPhases DEF Pages!RunKnows
  <2>3. Pages(b)!RunKnows(r, v)'
    BY <1>2, <2>1, <2>2, PagesStay
  <2> QED
    BY <1>1, <1>2, <2>1, <2>3, PagesMove
<1>5. CASE Pages(b)!Set(r, [x3[r] EXCEPT !.pc = "verify", !.tries = x3[r].tries + 1])
  <2>1. PICK k \in Nat : k = o.tries + 1
    BY DEF Pages!RunStates
  <2>2. PICK u : u = [o EXCEPT !.pc = "verify", !.tries = k]
    OBVIOUS
  <2>3. /\ u \in Pages(b)!RunStates /\ u.pc = "verify" /\ u.artifact = o.artifact /\ u.before = o.before /\ u.previous = o.previous
        /\ u.owned = o.owned /\ u.attempted = o.attempted /\ u.failing = o.failing /\ u.listed = o.listed /\ u.list = o.list
    BY <1>2, <2>2 DEF Pages!RunStates
  <2>4. x3' = [x3 EXCEPT ![r] = u]
    BY <1>1, <1>5, <2>1, <2>2 DEF Pages!Set
  <2>5. Pages(b)!RunKnows(r, u)
    BY <1>1, <2>3, PagesPhases DEF Pages!RunKnows
  <2>6. Pages(b)!RunKnows(r, u)'
    BY <1>2, <2>3, <2>5, PagesStay
  <2>7. ~u.listed /\ u.list = {}
    BY <1>1, <2>3, PagesPhases DEF Pages!RunLooks
  <2>8. Pages(b)!RunLooks(r, u)' /\ Pages(b)!Seen(u) = {}
    BY <2>3, <2>7 DEF Pages!RunLooks, Pages!Seen
  <2> QED
    BY <1>1, <1>2, <2>3, <2>4, <2>6, <2>8, PagesSets
<1> QED
  BY <1>3, <1>4, <1>5 DEF Pages!Probe

LEMMA PagesConfirms ==
  ASSUME NEW b, Pages(b)!PagesIInv, "hand" \notin b.releases, NEW r \in b.releases, Pages(b)!Confirm(r)
  PROVE  Pages(b)!PagesIInv'
<1>1. PICK o \in Pages(b)!RunStates :
         o = x3[r] /\ Pages(b)!RunKnows(r, o) /\ Pages(b)!RunLooks(r, o)
  BY PagesAt
<1>2. PICK pc \in DOMAIN Pages(b)!Then :
         /\ o.pc = pc /\ o.listed
         /\ Pages(b)!Throw(r) \/ (Pages(b)!OwnedIsAlone(r) /\ Pages(b)!Goto(r, Pages(b)!Then[pc]))
  BY <1>1 DEF Pages!Confirm, Pages!Looked
<1>3. PICK q : q = Pages(b)!Then[pc]
  OBVIOUS
<1>4. \/ pc = "final" /\ q = "sole"
      \/ pc = "sole" /\ q = "record"
      \/ pc = "recorded" /\ q = "done"
  BY <1>2, <1>3 DEF Pages!Then
<1>5. x1' = x1 /\ x2' = x2 /\ x4' = x4 /\ o.pc \notin Pages(b)!Ended /\ q \in Pages(b)!Steps
  BY <1>2, <1>4, PagesPhases, PagesSteps DEF Pages!Confirm, Pages!Else
<1>6. CASE Pages(b)!Throw(r)
  BY <1>1, <1>5, <1>6, PagesThrows
<1>7. CASE Pages(b)!OwnedIsAlone(r) /\ Pages(b)!Goto(r, q)
  <2>1. PICK v \in Pages(b)!RunStates :
          /\ Pages(b)!Move(r, v) /\ v.pc = q /\ v.artifact = o.artifact /\ v.before = o.before /\ v.previous = o.previous
          /\ v.owned = o.owned /\ v.attempted = o.attempted /\ v.failing = o.failing
    BY <1>1, <1>5, <1>7, PagesGoes
  <2>2. Pages(b)!RunKnows(r, v)
    BY <1>1, <1>2, <1>4, <2>1, PagesPhases DEF Pages!RunKnows
  <2>3. Pages(b)!RunKnows(r, v)'
    BY <1>4, <1>5, <2>1, <2>2, PagesStay
  \* What it owns is alone after what was there: that is all it has listed.
  <2>4. o.before \cup {o.owned} = o.list
    BY <1>1, <1>7 DEF Pages!OwnedIsAlone, Pages!New
  <2>5. v.before \cup {v.owned} \in Pages(b)!Seen(o)
    BY <1>2, <2>1, <2>4 DEF Pages!Seen
  <2> QED
    BY <1>1, <1>5, <2>1, <2>3, <2>5, PagesMove
<1> QED
  BY <1>2, <1>3, <1>6, <1>7

LEMMA PagesRecords ==
  ASSUME NEW b, Pages(b)!PagesIInv, "hand" \notin b.releases, NEW r \in b.releases, Pages(b)!Record(r)
  PROVE  Pages(b)!PagesIInv'
<1>1. PICK o \in Pages(b)!RunStates :
         o = x3[r] /\ Pages(b)!RunKnows(r, o) /\ o.pc = "record"
  BY PagesAt DEF Pages!Record
<1>2. x1' = x1 /\ x2' = x2 /\ x4' = x4 \cup {[by |-> r, of |-> o.owned]} /\ "recorded" \in Pages(b)!Steps
  BY <1>1, PagesSteps DEF Pages!Record, Pages!Cloud, Pages!RecordOf
<1>3. PICK v \in Pages(b)!RunStates :
        /\ Pages(b)!Move(r, v) /\ v.pc = "recorded" /\ v.artifact = o.artifact /\ v.before = o.before /\ v.previous = o.previous
        /\ v.owned = o.owned /\ v.attempted = o.attempted /\ v.failing = o.failing
  BY <1>1, <1>2, PagesGoes DEF Pages!Record
<1>4. Pages(b)!RunKnows(r, v)'
  BY <1>1, <1>2, <1>3, PagesPhases DEF Pages!RunKnows, Pages!MadeBy, Pages!WentWell
<1> QED
  BY <1>1, <1>2, <1>3, <1>4, PagesMove

LEMMA PagesIsDone ==
  ASSUME NEW b, Pages(b)!PagesIInv, "hand" \notin b.releases, NEW r \in b.releases, Pages(b)!Done(r)
  PROVE  Pages(b)!PagesIInv'
<1>1. PICK o \in Pages(b)!RunStates :
         o = x3[r] /\ Pages(b)!RunKnows(r, o) /\ Pages(b)!RunLooks(r, o) /\ o.pc = "done"
  BY PagesAt DEF Pages!Done
<1>2. PICK q \in {"rollback", "released"} : Pages(b)!Goto(r, q)
  BY DEF Pages!Done
<1>3. x1' = x1 /\ x2' = x2 /\ x4' = x4 /\ q \in Pages(b)!Steps
  BY PagesSteps DEF Pages!Done, Pages!Else
<1>4. PICK v \in Pages(b)!RunStates :
        /\ Pages(b)!Move(r, v) /\ v.pc = q /\ v.artifact = o.artifact /\ v.before = o.before /\ v.previous = o.previous
        /\ v.owned = o.owned /\ v.attempted = o.attempted /\ v.failing = o.failing
  BY <1>1, <1>2, <1>3, PagesGoes
<1>5. Pages(b)!RunKnows(r, v)
  BY <1>1, <1>4, PagesPhases DEF Pages!RunKnows
<1>6. Pages(b)!RunKnows(r, v)'
  BY <1>3, <1>4, <1>5, PagesStay
<1>7. v.before \cup {v.owned} \in Pages(b)!Seen(o)
  BY <1>1, <1>4 DEF Pages!Seen
<1> QED
  BY <1>1, <1>3, <1>4, <1>6, <1>7, PagesMove

LEMMA PagesRollback ==
  ASSUME NEW b, Pages(b)!PagesIInv, "hand" \notin b.releases, NEW r \in b.releases, Pages(b)!Rollback(r)
  PROVE  Pages(b)!PagesIInv'
<1>1. PICK o \in Pages(b)!RunStates :
         o = x3[r] /\ Pages(b)!RunKnows(r, o) /\ Pages(b)!RunLooks(r, o) /\ o.pc = "rollback" /\ o.listed
  BY PagesAt DEF Pages!Rollback, Pages!Looked
<1>2. x1' = x1 /\ x2' = x2 /\ x4' = x4 /\ o.pc \notin Pages(b)!Ended /\ {"readback", "confirm"} \subseteq Pages(b)!Steps
  BY <1>1, PagesPhases, PagesSteps DEF Pages!Rollback, Pages!Else
<1>3. CASE Pages(b)!Throw(r)
  BY <1>1, <1>2, <1>3, PagesThrows
<1>4. CASE ~Pages(b)!Throw(r)
  <2>1. PICK v \in Pages(b)!RunStates :
          /\ Pages(b)!Move(r, v) /\ v.pc \in {"readback", "confirm"} /\ v.artifact = o.artifact /\ v.before = o.before
          /\ v.previous = o.previous /\ v.owned = o.owned /\ v.attempted = o.attempted /\ v.failing = o.failing
    <3>1. CASE x2 = x3[r].previous
      <4>1. PICK v : v = [o EXCEPT !.pc = "readback", !.tries = 0, !.expected = o.list]
        OBVIOUS
      <4>2. Pages(b)!Move(r, v)
        BY <1>1, <1>4, <3>1, <4>1 DEF Pages!Rollback
      <4>3. /\ v \in Pages(b)!RunStates /\ v.pc = "readback" /\ v.artifact = o.artifact /\ v.before = o.before
            /\ v.previous = o.previous /\ v.owned = o.owned /\ v.attempted = o.attempted /\ v.failing = o.failing
        BY <1>2, <4>1 DEF Pages!RunStates
      <4> QED
        BY <4>2, <4>3
    <3>2. CASE x2 # x3[r].previous
      <4>1. PICK v : v = [o EXCEPT !.pc = "confirm", !.expected = o.list]
        OBVIOUS
      <4>2. Pages(b)!Move(r, v)
        BY <1>1, <1>4, <3>2, <4>1 DEF Pages!Rollback
      <4>3. /\ v \in Pages(b)!RunStates /\ v.pc = "confirm" /\ v.artifact = o.artifact /\ v.before = o.before
            /\ v.previous = o.previous /\ v.owned = o.owned /\ v.attempted = o.attempted /\ v.failing = o.failing
        BY <1>2, <4>1 DEF Pages!RunStates
      <4> QED
        BY <4>2, <4>3
    <3> QED
      BY <3>1, <3>2
  <2>2. \A d \in Pages(b)!New(r) : Pages(b)!WentWell(d)
    BY <1>4 DEF Pages!Rollback, Pages!CandidateIsOwned, Pages!IsLive, Pages!WentWell
  \* Its own are new, and listed, unless deployments are listed late.
  <2>3. ~b.lag => Pages(b)!MadeBy(r) \subseteq Pages(b)!New(r)
    BY <1>1, PagesPhases DEF Pages!RunKnows, Pages!RunLooks, Pages!New
  <2>4. Pages(b)!RunKnows(r, v)
    BY <1>1, <2>1, <2>2, <2>3, PagesPhases DEF Pages!RunKnows
  <2>5. Pages(b)!RunKnows(r, v)'
    BY <1>2, <2>1, <2>4, PagesStay
  <2> QED
    BY <1>1, <1>2, <2>1, <2>5, PagesMove
<1> QED
  BY <1>3, <1>4

LEMMA PagesConfirmsRollback ==
  ASSUME NEW b, Pages(b)!PagesIInv, "hand" \notin b.releases, NEW r \in b.releases, Pages(b)!ConfirmRollback(r)
  PROVE  Pages(b)!PagesIInv'
<1>1. PICK o \in Pages(b)!RunStates :
         o = x3[r] /\ Pages(b)!RunKnows(r, o) /\ o.pc = "confirm"
  BY PagesAt DEF Pages!ConfirmRollback, Pages!Looked
<1>2. x1' = x1 /\ x2' = x2 /\ x4' = x4 /\ o.pc \notin Pages(b)!Ended /\ "post" \in Pages(b)!Steps
  BY <1>1, PagesPhases, PagesSteps DEF Pages!ConfirmRollback, Pages!Else
<1>3. CASE Pages(b)!Throw(r)
  BY <1>1, <1>2, <1>3, PagesThrows
<1>4. CASE Pages(b)!Goto(r, "post")
  <2>1. PICK v \in Pages(b)!RunStates :
          /\ Pages(b)!Move(r, v) /\ v.pc = "post" /\ v.artifact = o.artifact /\ v.before = o.before /\ v.previous = o.previous
          /\ v.owned = o.owned /\ v.attempted = o.attempted /\ v.failing = o.failing
    BY <1>1, <1>2, <1>4, PagesGoes
  <2>2. Pages(b)!RunKnows(r, v)
    BY <1>1, <2>1, PagesPhases DEF Pages!RunKnows
  <2>3. Pages(b)!RunKnows(r, v)'
    BY <1>2, <2>1, <2>2, PagesStay
  <2> QED
    BY <1>1, <1>2, <2>1, <2>3, PagesMove
<1> QED
  BY <1>3, <1>4 DEF Pages!ConfirmRollback

LEMMA PagesPosts ==
  ASSUME NEW b, Pages(b)!PagesIInv, "hand" \notin b.releases, NEW r \in b.releases, Pages(b)!Post(r)
  PROVE  Pages(b)!PagesIInv'
<1>1. PICK o \in Pages(b)!RunStates :
         o = x3[r] /\ Pages(b)!RunKnows(r, o) /\ o.pc = "post"
  BY PagesAt DEF Pages!Post
<1>2. x1' = x1 /\ x2' = o.previous /\ x4' = x4 /\ "readback" \in Pages(b)!Steps
  BY <1>1, PagesSteps DEF Pages!Post
<1>3. o.previous \in DOMAIN x1 /\ Pages(b)!WentWell(o.previous)
  BY <1>1, PagesPhases DEF Pages!RunKnows
<1>4. PICK v \in Pages(b)!RunStates :
        /\ Pages(b)!Move(r, v) /\ v.pc = "readback" /\ v.artifact = o.artifact /\ v.before = o.before /\ v.previous = o.previous
        /\ v.owned = o.owned /\ v.attempted = o.attempted /\ v.failing = o.failing
  BY <1>1, <1>2, PagesGoes DEF Pages!Post
<1>5. Pages(b)!RunKnows(r, v)
  BY <1>1, <1>4, PagesPhases DEF Pages!RunKnows
<1>6. Pages(b)!RunKnows(r, v)'
  BY <1>2, <1>4, <1>5, PagesStay
<1> QED
  BY <1>1, <1>2, <1>3, <1>4, <1>6, PagesMove

LEMMA PagesReadsBack ==
  ASSUME NEW b, Pages(b)!PagesIInv, "hand" \notin b.releases, NEW r \in b.releases, Pages(b)!Readback(r)
  PROVE  Pages(b)!PagesIInv'
<1>1. PICK o \in Pages(b)!RunStates :
         o = x3[r] /\ Pages(b)!RunKnows(r, o) /\ o.pc = "readback"
  BY PagesAt DEF Pages!Readback
<1>2. x1' = x1 /\ x2' = x2 /\ x4' = x4 /\ o.pc \notin Pages(b)!Ended /\ "restoring" \in Pages(b)!Steps
  BY <1>1, PagesPhases, PagesSteps DEF Pages!Readback, Pages!Else
<1>3. CASE Pages(b)!Throw(r)
  BY <1>1, <1>2, <1>3, PagesThrows
<1>4. CASE Pages(b)!AgainOrThrow(r)
  BY <1>1, <1>2, <1>4, PagesTriesAgain
<1>5. CASE Pages(b)!Goto(r, "restoring")
  <2>1. PICK v \in Pages(b)!RunStates :
          /\ Pages(b)!Move(r, v) /\ v.pc = "restoring" /\ v.artifact = o.artifact /\ v.before = o.before /\ v.previous = o.previous
          /\ v.owned = o.owned /\ v.attempted = o.attempted /\ v.failing = o.failing
    BY <1>1, <1>2, <1>5, PagesGoes
  <2>2. Pages(b)!RunKnows(r, v)
    BY <1>1, <2>1, PagesPhases DEF Pages!RunKnows
  <2>3. Pages(b)!RunKnows(r, v)'
    BY <1>2, <2>1, <2>2, PagesStay
  <2> QED
    BY <1>1, <1>2, <2>1, <2>3, PagesMove
<1> QED
  BY <1>3, <1>4, <1>5 DEF Pages!Readback

LEMMA PagesRestored ==
  ASSUME NEW b, Pages(b)!PagesIInv, "hand" \notin b.releases, NEW r \in b.releases, Pages(b)!Restored(r)
  PROVE  Pages(b)!PagesIInv'
<1>1. PICK o \in Pages(b)!RunStates :
         o = x3[r] /\ Pages(b)!RunKnows(r, o) /\ o.pc = "restoring"
  BY PagesAt DEF Pages!Restored, Pages!Looked
<1>2. x1' = x1 /\ x2' = x2 /\ x4' = x4 /\ o.pc \notin Pages(b)!Ended /\ {"restored", "provisioned"} \subseteq Pages(b)!Steps
  BY <1>1, PagesPhases, PagesSteps DEF Pages!Restored, Pages!Else
<1>3. CASE Pages(b)!Throw(r)
  BY <1>1, <1>2, <1>3, PagesThrows
<1>4. CASE ~Pages(b)!Throw(r)
  <2>1. PICK q \in {"restored", "provisioned"} :
          Pages(b)!Goto(r, q) /\ (q = "provisioned" => ~o.failing) /\ x2 = o.previous
    BY <1>1, <1>4 DEF Pages!Restored
  <2>2. PICK v \in Pages(b)!RunStates :
          /\ Pages(b)!Move(r, v) /\ v.pc = q /\ v.artifact = o.artifact /\ v.before = o.before /\ v.previous = o.previous
          /\ v.owned = o.owned /\ v.attempted = o.attempted /\ v.failing = o.failing
    BY <1>1, <1>2, <2>1, PagesGoes
  \* What it took production back to is not its own.
  <2>3. x2 \notin Pages(b)!MadeBy(r)
    BY <1>1, <2>1, PagesPhases DEF Pages!RunKnows
  <2>4. Pages(b)!MadeBy(r)' = Pages(b)!MadeBy(r) /\ \A d : Pages(b)!WentWell(d)' <=> Pages(b)!WentWell(d)
    BY <1>2 DEF Pages!MadeBy, Pages!WentWell
  <2>5. Pages(b)!RunKnows(r, v)'
    BY <1>1, <1>2, <2>1, <2>2, <2>3, <2>4, PagesPhases DEF Pages!RunKnows
  <2> QED
    BY <1>1, <1>2, <2>2, <2>5, PagesMove
<1> QED
  BY <1>3, <1>4

LEMMA PagesFails ==
  ASSUME NEW b, Pages(b)!PagesIInv, "hand" \notin b.releases, NEW r \in b.releases, Pages(b)!Fails(r)
  PROVE  Pages(b)!PagesIInv'
<1>1. PICK o \in Pages(b)!RunStates : o = x3[r] /\ Pages(b)!RunKnows(r, o)
  BY PagesAt
<1>2. /\ x1' = x1 /\ x4' = x4 /\ o.pc \notin Pages(b)!Ended /\ Pages(b)!Throw(r)
      /\ x2' = x2 \/ (o.pc = "post" /\ x2' = o.previous)
  BY <1>1 DEF Pages!Fails
<1>3. o.pc = "post" => o.previous \in DOMAIN x1 /\ Pages(b)!WentWell(o.previous)
  BY <1>1, PagesPhases DEF Pages!RunKnows
<1> QED
  BY <1>1, <1>2, <1>3, PagesThrows

LEMMA PagesDies ==
  ASSUME NEW b, Pages(b)!PagesIInv, "hand" \notin b.releases, NEW r \in b.releases, Pages(b)!Dies(r)
  PROVE  Pages(b)!PagesIInv'
  BY PagesStops DEF Pages!Dies, Pages!Cloud

\* What a release of the pages relies on holds at first ...
LEMMA PagesBegins ==
  ASSUME NEW b, "hand" \notin b.releases, Pages(b)!Init
  PROVE  Pages(b)!PagesIInv
<1>1. PICK e \in PagesDeployments(b) :
         e.by = "hand" /\ e.stage = "success" /\ e.visible /\ x1 = <<e>>
  <2>1. "hand" \in Pages(b)!Artifacts
    BY DEF Pages!Artifacts, Pages!Hand
  <2>2. PICK e : e = [by |-> "hand", artifact |-> "hand", stage |-> "success", visible |-> TRUE]
    OBVIOUS
  <2>3. e \in PagesDeployments(b) /\ e.by = "hand" /\ e.stage = "success" /\ e.visible
    BY <2>1, <2>2 DEF PagesDeployments
  <2> QED
    BY <2>2, <2>3 DEF Pages!Init, Pages!Hand
<1>2. x1 \in Seq(PagesDeployments(b)) /\ DOMAIN x1 = {1} /\ x1[1] = e
  BY <1>1
<1>3. PICK f \in Pages(b)!RunStates :
        /\ f = Pages(b)!Fresh /\ f.pc = "start" /\ f.previous = 0 /\ f.owned = 0 /\ f.before = {} /\ ~f.listed /\ f.list = {} /\ ~f.attempted
        /\ ~f.failing
  BY PagesFresh
<1>4. x2 = 1 /\ x3 = [r \in b.releases |-> f]
  BY <1>3 DEF Pages!Init
<1>5. Pages(b)!Kinds
  <2>1. x3 \in [b.releases -> Pages(b)!RunStates]
    BY <1>4
  <2>2. x2 \in DOMAIN x1 /\ x1[x2].stage = "success" /\ \A d \in DOMAIN x1 : x1[d].visible
    BY <1>1, <1>2, <1>4
  <2> QED
    BY <1>2, <2>1, <2>2 DEF Pages!Kinds, PagesDeployments, Pages!Hand
<1>6. ASSUME NEW r \in b.releases PROVE Pages(b)!RunKnows(r, x3[r]) /\ Pages(b)!RunLooks(r, x3[r]) /\ Pages(b)!Seen(x3[r]) = {}
  <2>1. Pages(b)!MadeBy(r) = {}
    BY <1>1, <1>2 DEF Pages!MadeBy
  <2>2. Pages(b)!RunKnows(r, f) /\ Pages(b)!RunLooks(r, f) /\ Pages(b)!Seen(f) = {}
    BY <1>3, <2>1, PagesPhases DEF Pages!RunKnows, Pages!RunLooks, Pages!Seen
  <2> QED
    BY <1>4, <2>2
<1>7. Pages(b)!InOneOrder
  BY <1>6 DEF Pages!InOneOrder
<1> QED
  BY <1>5, <1>6, <1>7 DEF Pages!PagesIInv

\* ... every step keeps it ...
LEMMA PagesGoesOn ==
  ASSUME NEW b, Pages(b)!PagesIInv, "hand" \notin b.releases, Pages(b)!Next
  PROVE  Pages(b)!PagesIInv'
<1>1. CASE Pages(b)!DeployByHand
  BY <1>1, PagesDeployedByHand
<1>2. CASE \E d \in DOMAIN x1 : Pages(b)!Appears(d) \/ \E s \in {"success", "failure"} : Pages(b)!Finishes(d, s)
  BY <1>2, PagesAppears, PagesFinishes
<1>3. CASE \E r \in b.releases :
             \/ \E p \in BOOLEAN : Pages(b)!Start(r, p)
             \/ Pages(b)!List(r) \/ Pages(b)!Capture(r) \/ Pages(b)!Recheck(r) \/ Pages(b)!Upload(r) \/ Pages(b)!UploadFails(r)
  BY <1>3, PagesStarts, PagesLists, PagesCaptures, PagesRechecks, PagesUploads
<1>4. CASE \E r \in b.releases :
             \/ Pages(b)!Verify(r) \/ Pages(b)!Probe(r) \/ Pages(b)!Confirm(r) \/ Pages(b)!Record(r) \/ Pages(b)!Done(r)
             \/ Pages(b)!Rollback(r) \/ Pages(b)!ConfirmRollback(r)
  BY <1>4, PagesVerifies, PagesProbes, PagesConfirms, PagesRecords, PagesIsDone, PagesRollback, PagesConfirmsRollback
<1>5. CASE \E r \in b.releases :
             \/ Pages(b)!Post(r) \/ Pages(b)!Readback(r) \/ Pages(b)!Restored(r) \/ Pages(b)!Fails(r) \/ Pages(b)!Dies(r)
  BY <1>5, PagesPosts, PagesReadsBack, PagesRestored, PagesFails, PagesDies
<1> QED
  BY <1>1, <1>2, <1>3, <1>4, <1>5 DEF Pages!Next

\* ... and it says what the runs check: of two releases that both report
\* success, what one saw last is within what the other saw last.
LEMMA PagesStand ==
  ASSUME NEW b, Pages(b)!PagesIInv
  PROVE  Pages(b)!TypeOK /\ Pages(b)!NoSilentOverwrite /\ (b.lag \/ Pages(b)!RestoredIsRestored)
<1>1. Pages(b)!TypeOK
  <2>1. ASSUME NEW r \in b.releases
        PROVE  /\ x3[r].before \subseteq DOMAIN x1
               /\ x3[r].pc \in {"released", "provisioned"} => [by |-> r, of |-> x3[r].owned] \in x4
               /\ x3[r].list \subseteq DOMAIN x1
    <3>1. PICK o \in Pages(b)!RunStates : o = x3[r] /\ Pages(b)!RunKnows(r, o) /\ Pages(b)!RunLooks(r, o)
      BY PagesAt
    <3>2. o.list \subseteq DOMAIN x1
      BY <3>1, PagesAt DEF Pages!RunLooks, Pages!Seen
    <3> QED
      BY <3>1, <3>2 DEF Pages!RunKnows
  <2> QED
    BY <2>1, PagesKinds DEF Pages!TypeOK
<1>2. Pages(b)!NoSilentOverwrite
  <2>1. ASSUME NEW r \in b.releases, NEW s \in b.releases, x3[r].pc = "released", x3[s].pc = "released",
               x3[r].before \cup {x3[r].owned} \subseteq x3[s].before \cup {x3[s].owned}
        PROVE  x3[r].owned \in x3[s].before \/ (x3[r].owned = x3[s].owned /\ x3[r].artifact = x3[s].artifact)
    <3>1. SUFFICES ASSUME x3[r].owned = x3[s].owned PROVE x3[r].artifact = x3[s].artifact
      BY <2>1
    <3>2. PICK o \in Pages(b)!RunStates, p \in Pages(b)!RunStates :
            o = x3[r] /\ Pages(b)!RunKnows(r, o) /\ p = x3[s] /\ Pages(b)!RunKnows(s, p)
      BY PagesAt
    <3>3. o.before \cup {o.owned} \in Pages(b)!Seen(o)
      BY <2>1, <3>2 DEF Pages!Seen
    <3>4. o.owned \in DOMAIN x1
      BY <3>2, <3>3, PagesAt
    <3>5. o.owned # 0
      BY <3>4, PagesKinds
    <3> QED
      BY <3>1, <3>2, <3>5 DEF Pages!RunKnows
  <2>2. ASSUME NEW r \in b.releases, NEW s \in b.releases, x3[r].pc = "released", x3[s].pc = "released"
        PROVE  \/ x3[r].before \cup {x3[r].owned} \subseteq x3[s].before \cup {x3[s].owned}
               \/ x3[s].before \cup {x3[s].owned} \subseteq x3[r].before \cup {x3[r].owned}
    <3>1. PICK o \in Pages(b)!RunStates, p \in Pages(b)!RunStates : o = x3[r] /\ p = x3[s]
      BY PagesAt
    <3>2. o.before \cup {o.owned} \in Pages(b)!Seen(o) /\ p.before \cup {p.owned} \in Pages(b)!Seen(p)
      BY <2>2, <3>1 DEF Pages!Seen
    <3>3. o.before \cup {o.owned} \in Pages(b)!Seen(x3[r]) /\ p.before \cup {p.owned} \in Pages(b)!Seen(x3[s])
      BY <3>1, <3>2
    <3> QED
      BY <3>1, <3>3 DEF Pages!PagesIInv, Pages!InOneOrder
  <2> QED
    BY <2>1, <2>2 DEF Pages!NoSilentOverwrite
<1>3. ASSUME ~b.lag PROVE Pages(b)!RestoredIsRestored
  <2>1. ASSUME NEW r \in b.releases, NEW d \in DOMAIN x1, x3[r].pc \in {"restored", "provisioned"}, x1[d].by = r
        PROVE  x1[d].stage # "building" /\ (x2 = d => \E s \in b.releases \ {r} : x3[s].previous = d)
    <3>1. PICK o \in Pages(b)!RunStates : o = x3[r] /\ Pages(b)!RunKnows(r, o)
      BY PagesAt
    <3>2. d \in Pages(b)!MadeBy(r)
      BY <2>1 DEF Pages!MadeBy
    <3>3. x1[d].stage = "success" /\ (x2 = d => \E s \in b.releases \ {r} : x3[s].previous = x2)
      BY <1>3, <2>1, <3>1, <3>2 DEF Pages!RunKnows, Pages!WentWell
    <3> QED
      BY <3>3
  <2> QED
    BY <2>1 DEF Pages!RestoredIsRestored
<1> QED
  BY <1>1, <1>2, <1>3

-------------------------------------------------------------------------------
(* SchedulerRelease: a version deployed alone is of its run's making.        *)

USE DEF Scheduler!Beginning, Scheduler!Hand, Scheduler!Past, Scheduler!Legacy, Scheduler!Reviewed

\* Deployments are only ever added.
SchedulerGrow ==
  /\ x1' \in Seq([by : Scheduler!Makers, versions : SUBSET (Runs \cup {"hand", "legacy", "reviewed"})])
  /\ Len(x1) <= Len(x1') /\ \A d \in 1 .. Len(x1) : x1'[d] = x1[d]

LEMMA ElementIn ==
  ASSUME NEW S, NEW q \in Seq(S), NEW n \in 1 .. Len(q)
  PROVE  q[n] \in S /\ n \in DOMAIN q
  OBVIOUS

\* What a run relies on stays, whatever the others do.
LEMMA SchedulerFrame ==
  ASSUME Scheduler!Kinds, SchedulerGrow,
         \A s \in Runs : x5[s].owned # 0 => x5'[s].owned # 0,
         NEW s \in Runs, NEW u \in Scheduler!RunStates, Scheduler!RunSound(s, u),
         \A m \in Scheduler!Manifests : m.by = s => (m \in x4' <=> m \in x4),
         x4' \subseteq Scheduler!Manifests,
         u.pc = "recovered" => \A d \in 1 .. Len(x1') : d > Len(x1) => x1'[d].by # s
  PROVE  Scheduler!RunSound(s, u)'
<1>1. Len(x1) <= Len(x1') /\ \A d \in 1 .. Len(x1) : x1'[d] = x1[d]
  BY DEF SchedulerGrow
<1>2. Len(x1) \in Nat /\ Len(x1') \in Nat /\ Len(x1) > 0 /\ x4 \subseteq Scheduler!Manifests
      /\ DOMAIN x1 = 1 .. Len(x1) /\ DOMAIN x1' = 1 .. Len(x1')
  BY DEF Scheduler!Kinds, SchedulerGrow
<1>3. Len(x1) \in Nat /\ Len(x1') \in Nat
  BY <1>2
<1>4. u.previous \in Nat /\ u.owned \in Nat /\ u.seen \in Nat /\ u.pc \in Scheduler!Steps
  BY DEF Scheduler!RunStates
<1>5. ASSUME NEW d, Scheduler!Owned(s, d) PROVE Scheduler!Owned(s, d)'
  <2>1. d \in 1 .. Len(x1) /\ x1[d] = [by |-> s, versions |-> {s}]
    BY <1>2, <1>5 DEF Scheduler!Owned
  <2>2. d \in 1 .. Len(x1') /\ x1'[d] = x1[d]
    BY <1>1, <1>3, <2>1
  <2> QED
    BY <1>2, <2>1, <2>2 DEF Scheduler!Owned
<1>6. u.previous <= Len(x1') /\ (u.pc \notin Scheduler!Ended \cup {"start"} => u.previous > 0)
  BY <1>2, <1>4 DEF Scheduler!RunSound, SchedulerGrow
<1>7. u.previous > 0 => x1'[u.previous] = x1[u.previous]
  BY <1>2, <1>4 DEF Scheduler!RunSound, SchedulerGrow
<1>8. u.pc \notin Scheduler!Ended \cup {"start", "approve"} =>
          /\ x1'[u.previous].versions # {s}
          /\ \A t \in Runs : x1'[u.previous].versions = {t} => x5'[t].owned # 0
  BY <1>6, <1>7 DEF Scheduler!RunSound
<1>9. u.pc = "recovered" \/ (u.pc \in Scheduler!InRecovery /\ ~u.left) => \A m \in x4' : m.by # s
  BY <1>2 DEF Scheduler!RunSound
<1>10. u.owned # 0 /\ [by |-> s, deployment |-> u.owned] \in x4 => [by |-> s, deployment |-> u.owned] \in x4'
  BY <1>2, <1>4 DEF Scheduler!Manifests
<1>11. u.pc \in Scheduler!Restoring => u.seen \in DOMAIN x1' /\ x1'[u.seen].versions = x1'[u.previous].versions
  <2>1. "before" \notin Scheduler!Ended /\ u.pc \in Scheduler!Restoring => u.pc \notin Scheduler!Ended \cup {"start"}
    BY DEF Scheduler!Ended, Scheduler!Restoring
  <2> QED
    BY <1>2, <1>4, <1>6, <1>7, <2>1 DEF Scheduler!RunSound, SchedulerGrow, Scheduler!Ended, Scheduler!Restoring
<1>12. ASSUME u.pc = "recovered" PROVE x1'[Len(x1')] # [by |-> s, versions |-> {s}]
  <2>1. CASE Len(x1') = Len(x1)
    BY <1>2, <1>12, <2>1 DEF Scheduler!RunSound, SchedulerGrow, Scheduler!Active
  <2>2. CASE Len(x1') # Len(x1)
    <3>1. PICK n : n = Len(x1')
      OBVIOUS
    <3>2. n \in 1 .. Len(x1') /\ n > Len(x1)
      BY <1>1, <1>3, <2>2, <3>1
    <3>3. x1'[n].by # s
      BY <1>12, <3>2
    <3> QED
      BY <3>1, <3>3
  <2> QED
    BY <2>1, <2>2
<1> QED
  BY <1>5, <1>6, <1>8, <1>9, <1>10, <1>11, <1>12 DEF Scheduler!RunSound, Scheduler!Active

\* One run, or somebody else, moves.
LEMMA SchedulerStep ==
  ASSUME Scheduler!SchedulerIInv, NEW r \in Runs \cup {"hand"}, NEW u \in Scheduler!RunStates, SchedulerGrow,
         IF r \in Runs THEN x5' = [x5 EXCEPT ![r] = u] ELSE x5' = x5,
         \A d \in 1 .. Len(x1') : d > Len(x1) =>
            x1'[d].by = r /\ \A s \in Runs : x1'[d].versions = {s} /\ x5[s].owned = 0 => x1'[d].by = s,
         x4' \subseteq Scheduler!Manifests,
         \A m \in Scheduler!Manifests : m.by # r => (m \in x4' <=> m \in x4),
         r \in Runs =>
            /\ u.owned = x5[r].owned \/ x5[r].owned = 0
            /\ \A m \in x4' : m.by = r => m \in x4 \/ (u.owned # 0 /\ m.deployment = u.owned)
            /\ Scheduler!RunSound(r, u)',
         x2' \in {"exact", "other"}, x3' \in BOOLEAN, x6' \in 0 .. MaxReleaseFailures,
         Scheduler!CronAccounted'
  PROVE  Scheduler!SchedulerIInv'
<1>1. Scheduler!Kinds /\ Scheduler!Past1 /\ x5 \in [Runs -> Scheduler!RunStates] /\ Len(x1) \in Nat /\ Len(x1) > 0 /\ Len(x1') \in Nat
      /\ x4 \subseteq Scheduler!Manifests /\ DOMAIN x1 = 1 .. Len(x1) /\ DOMAIN x1' = 1 .. Len(x1')
  BY DEF Scheduler!SchedulerIInv, Scheduler!Kinds, SchedulerGrow
<1>2. x5' \in [Runs -> Scheduler!RunStates] /\ (\A s \in Runs : s # r => x5'[s] = x5[s]) /\ (r \in Runs => x5'[r] = u)
  BY <1>1
<1>3. Scheduler!Kinds'
  BY <1>1, <1>2 DEF Scheduler!Kinds, SchedulerGrow
<1>4. Scheduler!Past1'
  BY <1>1 DEF Scheduler!Past1, SchedulerGrow
<1>5. \A s \in Runs : x5[s].owned # 0 => x5'[s].owned # 0
  BY <1>2
<1>6. \A s \in Runs : \E v \in Scheduler!RunStates : x5'[s] = v /\ Scheduler!RunSound(s, v)'
  <2>1. TAKE s \in Runs
  <2>2. CASE s = r
    BY <1>2, <2>2
  <2>3. CASE s # r
    <3>1. PICK v \in Scheduler!RunStates : v = x5[s]
      BY <1>1
    <3>2. Scheduler!RunSound(s, v)
      BY <3>1 DEF Scheduler!SchedulerIInv
    <3>3. \A d \in 1 .. Len(x1') : d > Len(x1) => x1'[d].by # s
      BY <2>3
    <3>4. Scheduler!RunSound(s, v)'
      BY <1>1, <1>5, <2>3, <3>2, <3>3, SchedulerFrame
    <3> QED
      BY <1>2, <2>3, <3>1, <3>4
  <2> QED
    BY <2>2, <2>3
<1>7. \A s \in Runs : Scheduler!RunSound(s, x5[s])'
  BY <1>6
<1>8. \A d \in DOMAIN x1' : Scheduler!DeploymentSound(d)'
  <2>1. TAKE d \in DOMAIN x1'
  <2>2. CASE d <= Len(x1)
    BY <1>1, <1>5, <2>2 DEF Scheduler!SchedulerIInv, Scheduler!DeploymentSound, SchedulerGrow
  <2>3. CASE d > Len(x1)
    BY <1>1, <1>5, <2>3, WorkspaceAssumption DEF Scheduler!DeploymentSound
  <2> QED
    BY <1>1, <2>2, <2>3
<1>9. \A m \in x4' : Scheduler!ManifestSound(m)'
  <2>1. TAKE m \in x4'
  <2>2. m \in Scheduler!Manifests /\ m.by \in Runs \cup {"past"} /\ m.deployment \in Nat
    BY <2>1 DEF Scheduler!Manifests
  <2>3. CASE m \in x4
    <3>1. Scheduler!ManifestSound(m)
      BY <2>3 DEF Scheduler!SchedulerIInv
    <3>2. m.by # "past" => x5'[m.by].owned = x5[m.by].owned
      <4>1. SUFFICES ASSUME m.by # "past", m.by = r PROVE u.owned = x5[r].owned
        BY <1>2, <2>2
      <4>2. x5[r].owned # 0
        BY <1>1, <3>1, <4>1 DEF Scheduler!ManifestSound
      <4> QED
        BY <2>2, <4>1, <4>2
    <3> QED
      BY <1>1, <3>1, <3>2 DEF Scheduler!ManifestSound, SchedulerGrow
  <2>4. CASE m \notin x4
    <3>1. m.by = r /\ r \in Runs
      BY <2>1, <2>2, <2>4, WorkspaceAssumption
    <3>2. u.owned # 0 /\ m.deployment = u.owned /\ Scheduler!RunSound(r, u)'
      BY <2>1, <2>4, <3>1
    <3>3. u.owned \in DOMAIN x1'
      BY <3>2 DEF Scheduler!RunSound, Scheduler!Owned
    <3> QED
      BY <1>2, <3>1, <3>2, <3>3, WorkspaceAssumption DEF Scheduler!ManifestSound
  <2> QED
    BY <2>3, <2>4
<1> QED
  BY <1>3, <1>4, <1>7, <1>8, <1>9 DEF Scheduler!SchedulerIInv

LEMMA SchedulerPhases ==
  /\ Scheduler!InRecovery = {"recover", "ownRecovery", "ownRecoveryAgain", "rollback", "restored", "before", "beforeAgain",
                             "restore", "restoredCron", "after", "afterCron", "last"}
  /\ Scheduler!Ended = {"blocked", "released", "recovered", "refused", "dead"}
  BY DEF Scheduler!InRecovery, Scheduler!Checks, Scheduler!Ended

LEMMA SchedulerCron ==
  ASSUME Scheduler!Kinds, Scheduler!CronAccounted, NEW r \in Runs, NEW u \in Scheduler!RunStates, x5' = [x5 EXCEPT ![r] = u],
         x5[r].pc \in Scheduler!Unsettled => u.pc \in Scheduler!Unsettled \/ x2' = "exact",
         x2' = x2 \/ x2' = "exact" \/ u.pc \in Scheduler!Unsettled, x3' = x3
  PROVE  Scheduler!CronAccounted'
<1>1. (\A s \in Runs : s # r => x5'[s] = x5[s]) /\ x5'[r] = u
  BY DEF Scheduler!Kinds
<1> QED
  BY <1>1 DEF Scheduler!CronAccounted

\* A run moves on.
LEMMA SchedulerDeploys ==
  ASSUME Scheduler!SchedulerIInv, NEW r \in Runs, NEW u \in Scheduler!RunStates, Scheduler!RunSound(r, u),
         x5' = [x5 EXCEPT ![r] = u], SchedulerGrow, u.pc # "recovered" \/ x1' = x1,
         \A d \in 1 .. Len(x1') : d > Len(x1) =>
            x1'[d].by = r /\ \A s \in Runs : x1'[d].versions = {s} /\ x5[s].owned = 0 => x1'[d].by = s,
         x4' = x4, x2' \in {"exact", "other"}, x3' = x3, x6' \in 0 .. MaxReleaseFailures,
         u.owned = x5[r].owned \/ x5[r].owned = 0,
         x5[r].pc \in Scheduler!Unsettled => u.pc \in Scheduler!Unsettled \/ x2' = "exact",
         x2' = x2 \/ x2' = "exact" \/ u.pc \in Scheduler!Unsettled
  PROVE  Scheduler!SchedulerIInv'
<1>1. Scheduler!Kinds /\ x5 \in [Runs -> Scheduler!RunStates] /\ x4 \subseteq Scheduler!Manifests /\ Len(x1) \in Nat /\ x3 \in BOOLEAN
  BY DEF Scheduler!SchedulerIInv, Scheduler!Kinds
<1>2. \A s \in Runs : x5[s].owned # 0 => x5'[s].owned # 0
  BY <1>1
<1>3. u.pc = "recovered" => \A d \in 1 .. Len(x1') : d > Len(x1) => x1'[d].by # r
  BY <1>1
<1>4. Scheduler!RunSound(r, u)'
  BY <1>1, <1>2, <1>3, SchedulerFrame
<1>5. Scheduler!CronAccounted'
  BY <1>1, SchedulerCron DEF Scheduler!SchedulerIInv
<1>6. ASSUME NEW m \in x4', m.by = r PROVE m \in x4
  BY <1>6
<1> QED
  BY <1>1, <1>4, <1>5, <1>6, SchedulerStep

\* A run moves on, and deploys nothing.
LEMMA SchedulerMoves ==
  ASSUME Scheduler!SchedulerIInv, NEW r \in Runs, NEW u \in Scheduler!RunStates, Scheduler!RunSound(r, u),
         x5' = [x5 EXCEPT ![r] = u], x1' = x1, x4' = x4, x2' \in {"exact", "other"}, x3' = x3, x6' \in 0 .. MaxReleaseFailures,
         u.owned = x5[r].owned \/ x5[r].owned = 0,
         x5[r].pc \in Scheduler!Unsettled => u.pc \in Scheduler!Unsettled \/ x2' = "exact",
         x2' = x2 \/ x2' = "exact" \/ u.pc \in Scheduler!Unsettled
  PROVE  Scheduler!SchedulerIInv'
<1>1. Scheduler!Kinds /\ Len(x1) \in Nat
  BY DEF Scheduler!SchedulerIInv, Scheduler!Kinds
<1>2. SchedulerGrow
  BY <1>1 DEF SchedulerGrow, Scheduler!Kinds
<1>3. \A d \in 1 .. Len(x1') : ~(d > Len(x1))
  BY <1>1
<1> QED
  BY <1>2, <1>3, SchedulerDeploys

\* What is thrown takes back what was linked.
LEMMA SchedulerThrows ==
  ASSUME Scheduler!SchedulerIInv, NEW r \in Runs, Scheduler!Throw(r), SchedulerGrow,
         \A d \in 1 .. Len(x1') : d > Len(x1) => x1'[d] = [by |-> r, versions |-> {r}],
         x5[r].pc \notin Scheduler!Ended \cup Scheduler!InRecovery,
         x2' \in {"exact", "other"}, x2' = x2 \/ x5[r].triggered, x3' = x3, x6' \in 0 .. MaxReleaseFailures
  PROVE  Scheduler!SchedulerIInv'
<1>1. Scheduler!Kinds /\ x5 \in [Runs -> Scheduler!RunStates] /\ x4 \subseteq Scheduler!Manifests /\ Len(x1) \in Nat /\ x3 \in BOOLEAN
  BY DEF Scheduler!SchedulerIInv, Scheduler!Kinds
<1>2. PICK o \in Scheduler!RunStates : o = x5[r] /\ Scheduler!RunSound(r, o)
  BY <1>1 DEF Scheduler!SchedulerIInv
<1>3. PICK u : u = [o EXCEPT !.pc = IF o.triggered THEN "recover" ELSE "blocked"]
  OBVIOUS
<1>4. u \in Scheduler!RunStates
  BY <1>2, <1>3, SchedulerPhases DEF Scheduler!RunStates, Scheduler!Steps
<1>5. /\ u.previous = o.previous /\ u.owned = o.owned
      /\ (o.triggered /\ u.pc = "recover") \/ (~o.triggered /\ u.pc = "blocked")
  BY <1>2, <1>3 DEF Scheduler!RunStates
<1>6. x5' = [x5 EXCEPT ![r] = u]
  BY <1>2, <1>3 DEF Scheduler!Throw, Scheduler!Set
<1>7. x4' = {m \in x4 : m.by # r}
  BY DEF Scheduler!Throw
<1>8. \A s \in Runs : x5[s].owned # 0 => x5'[s].owned # 0
  BY <1>1, <1>2, <1>5, <1>6
<1>9. Len(x1) <= Len(x1') /\ (\A d \in 1 .. Len(x1) : x1'[d] = x1[d]) /\ Len(x1') \in Nat /\ DOMAIN x1 = 1 .. Len(x1) /\ DOMAIN x1' = 1 .. Len(x1')
  BY <1>1 DEF SchedulerGrow, Scheduler!Kinds
<1>10. o.previous \in Nat /\ o.previous <= Len(x1) /\ o.owned \in Nat /\ (u.pc = "recover" => o.previous > 0)
  BY <1>2, <1>5 DEF Scheduler!RunSound, Scheduler!RunStates
<1>11. o.owned # 0 => Scheduler!Owned(r, o.owned)'
  <2>1. SUFFICES ASSUME o.owned # 0 PROVE o.owned \in DOMAIN x1' /\ x1'[o.owned] = [by |-> r, versions |-> {r}]
    BY DEF Scheduler!Owned
  <2>2. o.owned \in DOMAIN x1 /\ x1[o.owned] = [by |-> r, versions |-> {r}]
    BY <1>2, <2>1 DEF Scheduler!RunSound, Scheduler!Owned
  <2>3. o.owned \in 1 .. Len(x1) /\ o.owned \in 1 .. Len(x1')
    BY <1>9, <1>10, <1>1, <2>2
  <2> QED
    BY <1>9, <2>2, <2>3
<1>12. u.pc = "recover" => x1'[o.previous] = x1[o.previous] /\ x1[o.previous].versions # {r}
                           /\ \A s \in Runs : x1[o.previous].versions = {s} => x5[s].owned # 0
  <2>1. u.pc = "recover" => o.pc \notin Scheduler!Ended \cup {"start", "approve"}
    BY <1>2, <1>5 DEF Scheduler!RunSound
  <2>2. u.pc = "recover" => o.previous \in 1 .. Len(x1)
    BY <1>1, <1>10
  <2> QED
    BY <1>2, <1>9, <2>1, <2>2 DEF Scheduler!RunSound
<1>13. Scheduler!RunSound(r, u)'
  BY <1>5, <1>7, <1>8, <1>9, <1>10, <1>11, <1>12, SchedulerPhases DEF Scheduler!RunSound, Scheduler!Restoring
<1>14. u.pc = "recover" => u.pc \in Scheduler!Unsettled
  BY DEF Scheduler!Unsettled
<1>15. Scheduler!CronAccounted'
  <2>1. x5[r].pc \notin Scheduler!Unsettled
    BY SchedulerPhases DEF Scheduler!Unsettled
  <2> QED
    BY <1>1, <1>2, <1>4, <1>5, <1>6, <1>14, <2>1, SchedulerCron DEF Scheduler!SchedulerIInv
<1>16. \A m \in Scheduler!Manifests : m.by # r => (m \in x4' <=> m \in x4)
  BY <1>7
<1>17. \A d \in 1 .. Len(x1') : d > Len(x1) =>
          x1'[d].by = r /\ \A s \in Runs : x1'[d].versions = {s} /\ x5[s].owned = 0 => x1'[d].by = s
  <2>1. TAKE d \in 1 .. Len(x1')
  <2>2. SUFFICES ASSUME d > Len(x1), x1'[d].by = r, x1'[d].versions = {r}
                 PROVE  \A s \in Runs : {r} = {s} => r = s
    OBVIOUS
  <2> QED
    OBVIOUS
<1> QED
  BY <1>1, <1>2, <1>4, <1>5, <1>6, <1>7, <1>13, <1>15, <1>16, <1>17, SchedulerStep

\* A step before the recovery: what is as expected goes on, the rest is thrown.
LEMMA SchedulerTries ==
  ASSUME Scheduler!SchedulerIInv, NEW r \in Runs, NEW good \in BOOLEAN, NEW u, Scheduler!Step(r, good, u),
         x5[r].pc \notin Scheduler!Ended \cup Scheduler!InRecovery,
         good => u \in Scheduler!RunStates /\ Scheduler!RunSound(r, u) /\ (u.owned = x5[r].owned \/ x5[r].owned = 0)
  PROVE  Scheduler!SchedulerIInv'
<1>1. Scheduler!Kinds
  BY DEF Scheduler!SchedulerIInv
<1>2. x1' = x1 /\ x2' = x2 /\ x3' = x3 /\ x6' = x6 /\ x2 \in {"exact", "other"} /\ x6 \in 0 .. MaxReleaseFailures /\ Len(x1) \in Nat
  BY <1>1 DEF Scheduler!Step, Scheduler!Kinds
<1>3. x5[r].pc \notin Scheduler!Unsettled
  BY SchedulerPhases DEF Scheduler!Unsettled
<1>4. CASE good
  <2>1. x5' = [x5 EXCEPT ![r] = u] /\ x4' = x4
    BY <1>4 DEF Scheduler!Step, Scheduler!Set
  <2> QED
    BY <1>2, <1>3, <1>4, <2>1, SchedulerMoves
<1>5. CASE ~good
  <2>1. Scheduler!Throw(r)
    BY <1>5 DEF Scheduler!Step
  <2>2. SchedulerGrow
    BY <1>1, <1>2 DEF SchedulerGrow, Scheduler!Kinds
  <2>3. \A d \in 1 .. Len(x1') : ~(d > Len(x1))
    BY <1>2
  <2> QED
    BY <1>2, <2>1, <2>2, <2>3, SchedulerThrows
<1> QED
  BY <1>4, <1>5

LEMMA SchedulerFresh ==
  /\ Scheduler!Fresh \in Scheduler!RunStates
  /\ Scheduler!Fresh.previous = 0 /\ Scheduler!Fresh.owned = 0 /\ Scheduler!Fresh.pc = "start" /\ ~Scheduler!Fresh.triggered
<1>1. {} \in SUBSET Scheduler!Manifests
  OBVIOUS
<1> QED
  BY <1>1 DEF Scheduler!Fresh, Scheduler!RunStates, Scheduler!Steps

\* What a run that ends keeps is what it owns.
LEMMA SchedulerEnded ==
  ASSUME Scheduler!SchedulerIInv, NEW r \in Runs, NEW pc \in {"refused", "dead", "recovered"}, NEW u,
         u = [Scheduler!Fresh EXCEPT !.pc = pc, !.owned = x5[r].owned],
         pc = "recovered" => (\A m \in x4 : m.by # r) /\ x1[Len(x1)] # [by |-> r, versions |-> {r}]
  PROVE  u \in Scheduler!RunStates /\ Scheduler!RunSound(r, u) /\ u.owned = x5[r].owned /\ u.pc = pc
<1>1. x5 \in [Runs -> Scheduler!RunStates] /\ Len(x1) \in Nat
  BY DEF Scheduler!SchedulerIInv, Scheduler!Kinds
<1>2. PICK o \in Scheduler!RunStates : o = x5[r] /\ Scheduler!RunSound(r, o) /\ o.owned \in Nat
  BY <1>1 DEF Scheduler!SchedulerIInv, Scheduler!RunStates
<1>3. PICK f \in Scheduler!RunStates : f = Scheduler!Fresh /\ f.previous = 0
  BY SchedulerFresh
<1>4. PICK v : v = [f EXCEPT !.pc = pc, !.owned = o.owned]
  OBVIOUS
<1>5. u = v
  BY <1>2, <1>3, <1>4
<1>6. pc \in Scheduler!Steps
  BY SchedulerPhases DEF Scheduler!Steps
<1>7. v \in Scheduler!RunStates /\ v.previous = 0 /\ v.owned = o.owned /\ v.pc = pc
  BY <1>2, <1>3, <1>4, <1>6 DEF Scheduler!RunStates
<1>8. o.owned # 0 => Scheduler!Owned(r, o.owned)
  BY <1>2 DEF Scheduler!RunSound
<1>9. Scheduler!RunSound(r, v)
  BY <1>1, <1>7, <1>8, SchedulerPhases DEF Scheduler!RunSound, Scheduler!Restoring, Scheduler!Active
<1> QED
  BY <1>2, <1>5, <1>7, <1>9

\* A step of the recovery.
LEMMA SchedulerRecovers ==
  ASSUME Scheduler!SchedulerIInv, NEW r \in Runs, NEW good \in BOOLEAN, NEW u, Scheduler!Recovery(r, good, u),
         good => /\ u \in Scheduler!RunStates /\ Scheduler!RunSound(r, u) /\ (u.owned = x5[r].owned \/ x5[r].owned = 0)
                 /\ x5[r].pc \in Scheduler!Unsettled => u.pc \in Scheduler!Unsettled \/ x2 = "exact"
  PROVE  Scheduler!SchedulerIInv'
<1>1. Scheduler!Kinds
  BY DEF Scheduler!SchedulerIInv
<1>2. x1' = x1 /\ x2' = x2 /\ x3' = x3 /\ x4' = x4 /\ x6' = x6 /\ x2 \in {"exact", "other"} /\ x6 \in 0 .. MaxReleaseFailures
  BY <1>1 DEF Scheduler!Recovery, Scheduler!Reads, Scheduler!Kinds
<1>3. CASE good
  <2>1. x5' = [x5 EXCEPT ![r] = u]
    BY <1>3 DEF Scheduler!Recovery, Scheduler!Set
  <2> QED
    BY <1>2, <1>3, <2>1, SchedulerMoves
<1>4. CASE ~good
  <2>1. PICK v : v = [Scheduler!Fresh EXCEPT !.pc = "refused", !.owned = x5[r].owned]
    OBVIOUS
  <2>2. x5' = [x5 EXCEPT ![r] = v]
    BY <1>4, <2>1 DEF Scheduler!Recovery, Scheduler!Refuse, Scheduler!End
  <2>3. v \in Scheduler!RunStates /\ Scheduler!RunSound(r, v) /\ v.owned = x5[r].owned /\ v.pc = "refused"
    BY <2>1, SchedulerEnded
  <2>4. v.pc \in Scheduler!Unsettled
    BY <2>3 DEF Scheduler!Unsettled
  <2> QED
    BY <1>2, <2>2, <2>3, <2>4, SchedulerMoves
<1> QED
  BY <1>3, <1>4

\* What a run is at.
LEMMA SchedulerAt ==
  ASSUME Scheduler!SchedulerIInv, NEW r \in Runs
  PROVE  /\ Scheduler!Kinds /\ x5[r] \in Scheduler!RunStates /\ Scheduler!RunSound(r, x5[r]) /\ Len(x1) \in Nat /\ Len(x1) > 0
         /\ DOMAIN x1 = 1 .. Len(x1) /\ x4 \subseteq Scheduler!Manifests
  BY DEF Scheduler!SchedulerIInv, Scheduler!Kinds

LEMMA SchedulerStarts ==
  ASSUME Scheduler!SchedulerIInv, NEW r \in Runs, Scheduler!Start(r)
  PROVE  Scheduler!SchedulerIInv'
<1>1. PICK o \in Scheduler!RunStates : o = x5[r] /\ Scheduler!RunSound(r, o) /\ o.pc = "start" /\ Len(x1) \in Nat /\ Len(x1) > 0
  BY SchedulerAt DEF Scheduler!Start, Scheduler!At
<1>2. PICK u : u = [o EXCEPT !.pc = "approve", !.previous = Len(x1)]
  OBVIOUS
<1>3. u \in Scheduler!RunStates /\ u.owned = o.owned /\ u.previous = Len(x1) /\ u.pc = "approve" /\ u.triggered = o.triggered /\ u.check = o.check
  BY <1>1, <1>2 DEF Scheduler!RunStates, Scheduler!Steps
<1>4. Scheduler!RunSound(r, u)
  BY <1>1, <1>3, SchedulerPhases DEF Scheduler!RunSound, Scheduler!Restoring
<1>5. Scheduler!Step(r, Len(x1) > 0, u)
  BY <1>1, <1>2 DEF Scheduler!Start, Scheduler!Active
<1>6. x5[r].pc \notin Scheduler!Ended \cup Scheduler!InRecovery
  BY <1>1, SchedulerPhases
<1> QED
  BY <1>1, <1>3, <1>4, <1>5, <1>6, SchedulerTries

LEMMA SchedulerApproves ==
  ASSUME Scheduler!SchedulerIInv, NEW r \in Runs, Scheduler!Approve(r)
  PROVE  Scheduler!SchedulerIInv'
<1>1. PICK o \in Scheduler!RunStates :
         /\ o = x5[r] /\ Scheduler!RunSound(r, o) /\ o.pc = "approve" /\ Len(x1) \in Nat /\ Len(x1) > 0
         /\ Scheduler!Kinds /\ x4 \subseteq Scheduler!Manifests
  BY SchedulerAt DEF Scheduler!Approve, Scheduler!At
<1>2. o.previous \in 1 .. Len(x1) /\ o.owned = 0 /\ ~o.triggered
  BY <1>1, SchedulerPhases DEF Scheduler!RunSound, Scheduler!RunStates
<1>3. \E good \in BOOLEAN, of \in SUBSET Scheduler!Manifests :
        /\ Scheduler!Step(r, good, [o EXCEPT !.pc = "upload", !.of = of])
        /\ good => x1[o.previous].versions # {r} /\ \A s \in Runs : x1[o.previous].versions = {s} => x5[s].owned # 0
  <2>1. CASE \E m \in x4 :
              Scheduler!Step(r, Scheduler!Cardinality(x1[o.previous].versions) = 1 /\ m.deployment = o.previous /\ Scheduler!CronIsExact,
                             [o EXCEPT !.pc = "upload", !.of = {m}])
    <3>1. PICK m \in x4 :
              Scheduler!Step(r, Scheduler!Cardinality(x1[o.previous].versions) = 1 /\ m.deployment = o.previous /\ Scheduler!CronIsExact,
                             [o EXCEPT !.pc = "upload", !.of = {m}])
      BY <2>1
    <3>2. m \in Scheduler!Manifests /\ Scheduler!ManifestSound(m) /\ m.by \in Runs \cup {"past"} /\ Scheduler!Past1
      BY <1>1 DEF Scheduler!SchedulerIInv, Scheduler!Manifests
    <3>3. PICK good \in BOOLEAN : good = (Scheduler!Cardinality(x1[o.previous].versions) = 1 /\ m.deployment = o.previous /\ Scheduler!CronIsExact)
      OBVIOUS
    <3>4. PICK of \in SUBSET Scheduler!Manifests : of = {m}
      BY <3>2
    <3>5. Scheduler!Step(r, good, [o EXCEPT !.pc = "upload", !.of = of])
      BY <3>1, <3>3, <3>4
    <3>6. SUFFICES ASSUME good
                   PROVE  x1[o.previous].versions # {r} /\ \A s \in Runs : x1[o.previous].versions = {s} => x5[s].owned # 0
      BY <3>5
    <3>7. m.deployment = o.previous
      BY <3>3, <3>6
    <3>8. CASE m.by = "past"
      <4>1. o.previous = 1
        BY <3>2, <3>7, <3>8 DEF Scheduler!ManifestSound
      <4>2. x1[o.previous].versions \in {{"legacy"}, {"reviewed"}}
        BY <3>2, <4>1 DEF Scheduler!Past1
      <4> QED
        BY <4>2, WorkspaceAssumption
    <3>9. CASE m.by # "past"
      <4>1. PICK t \in Runs : t = m.by
        BY <3>2, <3>9
      <4>2. x5[t].owned = o.previous /\ x5[t].owned # 0
        BY <1>2, <3>2, <3>7, <3>9, <4>1 DEF Scheduler!ManifestSound
      <4>3. x1[o.previous] = [by |-> t, versions |-> {t}]
        BY <4>2, SchedulerAt DEF Scheduler!RunSound, Scheduler!Owned
      <4>4. t # r
        BY <1>1, <1>2, <4>2
      <4> QED
        BY <4>2, <4>3, <4>4
    <3> QED
      BY <3>8, <3>9
  <2>2. CASE Scheduler!Step(r, x1[o.previous].versions = {"legacy"} /\ Scheduler!CronIsExact, [o EXCEPT !.pc = "upload", !.of = {}])
    <3>1. PICK good \in BOOLEAN : good = (x1[o.previous].versions = {"legacy"} /\ Scheduler!CronIsExact)
      OBVIOUS
    <3> QED
      BY <2>2, <3>1, WorkspaceAssumption
  <2> QED
    BY <1>1, <2>1, <2>2 DEF Scheduler!Approve
<1>4. PICK good \in BOOLEAN, of \in SUBSET Scheduler!Manifests :
        /\ Scheduler!Step(r, good, [o EXCEPT !.pc = "upload", !.of = of])
        /\ good => x1[o.previous].versions # {r} /\ \A s \in Runs : x1[o.previous].versions = {s} => x5[s].owned # 0
  BY <1>3
<1>5. PICK u : u = [o EXCEPT !.pc = "upload", !.of = of]
  OBVIOUS
<1>6. u \in Scheduler!RunStates /\ u.owned = 0 /\ u.previous = o.previous /\ u.pc = "upload" /\ u.check = o.check
  BY <1>2, <1>5 DEF Scheduler!RunStates, Scheduler!Steps
<1>7. good => Scheduler!RunSound(r, u)
  BY <1>1, <1>2, <1>4, <1>6, SchedulerPhases DEF Scheduler!RunSound, Scheduler!Restoring
<1>8. x5[r].pc \notin Scheduler!Ended \cup Scheduler!InRecovery
  BY <1>1, SchedulerPhases
<1>9. Scheduler!Step(r, good, u) /\ x5[r].owned = 0
  BY <1>1, <1>2, <1>4, <1>5
<1> QED
  BY <1>6, <1>7, <1>8, <1>9, SchedulerTries

LEMMA SchedulerUploads ==
  ASSUME Scheduler!SchedulerIInv, NEW r \in Runs, Scheduler!Upload(r)
  PROVE  Scheduler!SchedulerIInv'
<1>1. PICK o \in Scheduler!RunStates :
         /\ o = x5[r] /\ Scheduler!RunSound(r, o) /\ o.pc = "upload" /\ Len(x1) \in Nat /\ Len(x1) > 0
         /\ DOMAIN x1 = 1 .. Len(x1)
  BY SchedulerAt DEF Scheduler!Upload, Scheduler!At
<1>2. o.previous \in 1 .. Len(x1)
  BY <1>1, SchedulerPhases DEF Scheduler!RunSound, Scheduler!RunStates
<1>3. PICK u : u = [o EXCEPT !.pc = "staged"]
  OBVIOUS
<1>4. /\ u \in Scheduler!RunStates /\ u.previous = o.previous /\ (u.owned = o.owned \/ o.owned = 0)
      /\ u.owned = o.owned /\ u.pc = "staged" /\ u.check = o.check
  BY <1>1, <1>2, <1>3, SchedulerPhases DEF Scheduler!RunStates, Scheduler!Steps
<1>5. PICK good \in BOOLEAN : good = (TRUE)
  OBVIOUS
<1>6. good => Scheduler!RunSound(r, u)
  BY <1>1, <1>2, <1>4, <1>5, SchedulerPhases DEF Scheduler!RunSound, Scheduler!Restoring
<1>7. Scheduler!Step(r, good, u)
  BY <1>1, <1>3, <1>5 DEF Scheduler!Upload
<1>8. x5[r].pc \notin Scheduler!Ended \cup Scheduler!InRecovery
  BY <1>1, SchedulerPhases
<1> QED
  BY <1>1, <1>4, <1>6, <1>7, <1>8, SchedulerTries

LEMMA SchedulerStages ==
  ASSUME Scheduler!SchedulerIInv, NEW r \in Runs, Scheduler!Staged(r)
  PROVE  Scheduler!SchedulerIInv'
<1>1. PICK o \in Scheduler!RunStates :
         /\ o = x5[r] /\ Scheduler!RunSound(r, o) /\ o.pc = "staged" /\ Len(x1) \in Nat /\ Len(x1) > 0
         /\ DOMAIN x1 = 1 .. Len(x1)
  BY SchedulerAt DEF Scheduler!Staged, Scheduler!At
<1>2. o.previous \in 1 .. Len(x1)
  BY <1>1, SchedulerPhases DEF Scheduler!RunSound, Scheduler!RunStates
<1>3. PICK u : u = [o EXCEPT !.pc = "trigger", !.triggered = TRUE]
  OBVIOUS
<1>4. /\ u \in Scheduler!RunStates /\ u.previous = o.previous /\ (u.owned = o.owned \/ o.owned = 0)
      /\ u.owned = o.owned /\ u.pc = "trigger" /\ u.triggered /\ u.check = o.check
  BY <1>1, <1>2, <1>3, SchedulerPhases DEF Scheduler!RunStates, Scheduler!Steps
<1>5. PICK good \in BOOLEAN : good = (x5[r].of \subseteq x4)
  OBVIOUS
<1>6. good => Scheduler!RunSound(r, u)
  BY <1>1, <1>2, <1>4, <1>5, SchedulerPhases DEF Scheduler!RunSound, Scheduler!Restoring
<1>7. Scheduler!Step(r, good, u)
  BY <1>1, <1>3, <1>5 DEF Scheduler!Staged
<1>8. x5[r].pc \notin Scheduler!Ended \cup Scheduler!InRecovery
  BY <1>1, SchedulerPhases
<1> QED
  BY <1>1, <1>4, <1>6, <1>7, <1>8, SchedulerTries

LEMMA SchedulerSchedules ==
  ASSUME Scheduler!SchedulerIInv, NEW r \in Runs, Scheduler!Schedule(r)
  PROVE  Scheduler!SchedulerIInv'
<1>1. PICK o \in Scheduler!RunStates :
         /\ o = x5[r] /\ Scheduler!RunSound(r, o) /\ o.pc = "schedule" /\ Len(x1) \in Nat /\ Len(x1) > 0
         /\ DOMAIN x1 = 1 .. Len(x1)
  BY SchedulerAt DEF Scheduler!Schedule, Scheduler!At
<1>2. o.previous \in 1 .. Len(x1)
  BY <1>1, SchedulerPhases DEF Scheduler!RunSound, Scheduler!RunStates
<1>3. PICK u : u = [o EXCEPT !.pc = "preactivation"]
  OBVIOUS
<1>4. /\ u \in Scheduler!RunStates /\ u.previous = o.previous /\ (u.owned = o.owned \/ o.owned = 0)
      /\ u.owned = o.owned /\ u.pc = "preactivation" /\ u.check = o.check
  BY <1>1, <1>2, <1>3, SchedulerPhases DEF Scheduler!RunStates, Scheduler!Steps
<1>5. PICK good \in BOOLEAN : good = (Scheduler!CronIsExact)
  BY DEF Scheduler!CronIsExact
<1>6. good => Scheduler!RunSound(r, u)
  BY <1>1, <1>2, <1>4, <1>5, SchedulerPhases DEF Scheduler!RunSound, Scheduler!Restoring
<1>7. Scheduler!Step(r, good, u)
  BY <1>1, <1>3, <1>5 DEF Scheduler!Schedule
<1>8. x5[r].pc \notin Scheduler!Ended \cup Scheduler!InRecovery
  BY <1>1, SchedulerPhases
<1> QED
  BY <1>1, <1>4, <1>6, <1>7, <1>8, SchedulerTries

LEMMA SchedulerPreActivates ==
  ASSUME Scheduler!SchedulerIInv, NEW r \in Runs, Scheduler!PreActivation(r)
  PROVE  Scheduler!SchedulerIInv'
<1>1. PICK o \in Scheduler!RunStates :
         /\ o = x5[r] /\ Scheduler!RunSound(r, o) /\ o.pc = "preactivation" /\ Len(x1) \in Nat /\ Len(x1) > 0
         /\ DOMAIN x1 = 1 .. Len(x1)
  BY SchedulerAt DEF Scheduler!PreActivation, Scheduler!At
<1>2. o.previous \in 1 .. Len(x1)
  BY <1>1, SchedulerPhases DEF Scheduler!RunSound, Scheduler!RunStates
<1>3. PICK u : u = [o EXCEPT !.pc = "activate", !.activated = TRUE]
  OBVIOUS
<1>4. /\ u \in Scheduler!RunStates /\ u.previous = o.previous /\ (u.owned = o.owned \/ o.owned = 0)
      /\ u.owned = o.owned /\ u.pc = "activate" /\ u.check = o.check
  BY <1>1, <1>2, <1>3, SchedulerPhases DEF Scheduler!RunStates, Scheduler!Steps
<1>5. PICK good \in BOOLEAN : good = (Scheduler!Active = x5[r].previous)
  OBVIOUS
<1>6. good => Scheduler!RunSound(r, u)
  BY <1>1, <1>2, <1>4, <1>5, SchedulerPhases DEF Scheduler!RunSound, Scheduler!Restoring
<1>7. Scheduler!Step(r, good, u)
  BY <1>1, <1>3, <1>5 DEF Scheduler!PreActivation
<1>8. x5[r].pc \notin Scheduler!Ended \cup Scheduler!InRecovery
  BY <1>1, SchedulerPhases
<1> QED
  BY <1>1, <1>4, <1>6, <1>7, <1>8, SchedulerTries

LEMMA SchedulerOwnsCron ==
  ASSUME Scheduler!SchedulerIInv, NEW r \in Runs, Scheduler!OwnCron(r)
  PROVE  Scheduler!SchedulerIInv'
<1>1. PICK o \in Scheduler!RunStates :
         /\ o = x5[r] /\ Scheduler!RunSound(r, o) /\ o.pc = "ownCron" /\ Len(x1) \in Nat /\ Len(x1) > 0
         /\ DOMAIN x1 = 1 .. Len(x1)
  BY SchedulerAt DEF Scheduler!OwnCron, Scheduler!At
<1>2. o.previous \in 1 .. Len(x1)
  BY <1>1, SchedulerPhases DEF Scheduler!RunSound, Scheduler!RunStates
<1>3. PICK u : u = [o EXCEPT !.pc = "ownAgain"]
  OBVIOUS
<1>4. /\ u \in Scheduler!RunStates /\ u.previous = o.previous /\ (u.owned = o.owned \/ o.owned = 0)
      /\ u.owned = o.owned /\ u.pc = "ownAgain" /\ u.seen = o.seen /\ u.check = o.check
  BY <1>1, <1>2, <1>3, SchedulerPhases DEF Scheduler!RunStates, Scheduler!Steps
<1>5. PICK good \in BOOLEAN : good = (Scheduler!CronIsExact)
  BY DEF Scheduler!CronIsExact
<1>6. good => Scheduler!RunSound(r, u)
  BY <1>1, <1>2, <1>4, <1>5, SchedulerPhases DEF Scheduler!RunSound, Scheduler!Restoring
<1>7. Scheduler!Step(r, good, u)
  BY <1>1, <1>3, <1>5 DEF Scheduler!OwnCron
<1>8. x5[r].pc \notin Scheduler!Ended \cup Scheduler!InRecovery
  BY <1>1, SchedulerPhases
<1> QED
  BY <1>1, <1>4, <1>6, <1>7, <1>8, SchedulerTries

LEMMA SchedulerOwns ==
  ASSUME Scheduler!SchedulerIInv, NEW r \in Runs, Scheduler!Own(r)
  PROVE  Scheduler!SchedulerIInv'
<1>1. PICK o \in Scheduler!RunStates :
         /\ o = x5[r] /\ Scheduler!RunSound(r, o) /\ o.pc = "own" /\ Len(x1) \in Nat /\ Len(x1) > 0
         /\ DOMAIN x1 = 1 .. Len(x1)
  BY SchedulerAt DEF Scheduler!Own, Scheduler!At
<1>2. o.previous \in 1 .. Len(x1)
  BY <1>1, SchedulerPhases DEF Scheduler!RunSound, Scheduler!RunStates
<1>3. PICK u : u = [o EXCEPT !.pc = "ownCron", !.seen = Len(x1)]
  OBVIOUS
<1>4. /\ u \in Scheduler!RunStates /\ u.previous = o.previous /\ u.owned = o.owned
      /\ u.pc = "ownCron" /\ u.seen = Len(x1) /\ u.check = o.check
  BY <1>1, <1>2, <1>3, SchedulerPhases DEF Scheduler!RunStates, Scheduler!Steps
<1>5. PICK good \in BOOLEAN : good = Scheduler!IsOwn(r, Scheduler!Active)
  BY DEF Scheduler!IsOwn
<1>6. good => Scheduler!Owned(r, Len(x1)) /\ o.owned \in {0, Len(x1)}
  <2>1. SUFFICES ASSUME x1[Len(x1)].versions = {r}, o.owned \in {0, Len(x1)} PROVE Scheduler!Owned(r, Len(x1))
    BY <1>1, <1>5 DEF Scheduler!IsOwn, Scheduler!Active
  <2>2. Len(x1) \in DOMAIN x1 /\ x1[Len(x1)] \in [by : Scheduler!Makers, versions : SUBSET (Runs \cup {"hand", "legacy", "reviewed"})]
    <3>1. Len(x1) \in 1 .. Len(x1)
      BY <1>1
    <3>2. x1 \in Seq([by : Scheduler!Makers, versions : SUBSET (Runs \cup {"hand", "legacy", "reviewed"})])
      BY DEF Scheduler!SchedulerIInv, Scheduler!Kinds
    <3> QED
      BY <3>1, <3>2, ElementIn
  <2>3. CASE o.owned = Len(x1)
    BY <1>1, <2>3 DEF Scheduler!RunSound
  <2>4. CASE o.owned = 0
    <3>1. Scheduler!DeploymentSound(Len(x1))
      BY <2>2 DEF Scheduler!SchedulerIInv
    <3>2. x1[Len(x1)].by = r
      BY <1>1, <2>1, <2>4, <3>1 DEF Scheduler!DeploymentSound
    <3> QED
      BY <2>1, <2>2, <3>2 DEF Scheduler!Owned
  <2> QED
    BY <2>1, <2>3, <2>4
<1>7. good => Scheduler!RunSound(r, u)
  BY <1>1, <1>2, <1>4, <1>6, SchedulerPhases DEF Scheduler!RunSound, Scheduler!Restoring
<1>8. Scheduler!Step(r, good, u)
  BY <1>1, <1>3, <1>5 DEF Scheduler!Own, Scheduler!Active
<1>9. x5[r].pc \notin Scheduler!Ended \cup Scheduler!InRecovery
  BY <1>1, SchedulerPhases
<1> QED
  BY <1>1, <1>4, <1>7, <1>8, <1>9, SchedulerTries

LEMMA SchedulerOwnsAgain ==
  ASSUME Scheduler!SchedulerIInv, NEW r \in Runs, Scheduler!OwnAgain(r)
  PROVE  Scheduler!SchedulerIInv'
<1>1. PICK o \in Scheduler!RunStates :
         /\ o = x5[r] /\ Scheduler!RunSound(r, o) /\ o.pc = "ownAgain" /\ Len(x1) \in Nat /\ Len(x1) > 0
         /\ DOMAIN x1 = 1 .. Len(x1)
  BY SchedulerAt DEF Scheduler!OwnAgain, Scheduler!At
<1>2. /\ o.previous \in 1 .. Len(x1) /\ o.owned \in {0, o.seen} /\ Scheduler!Owned(r, o.seen) /\ o.check \in 1 .. 3
      /\ o.check = 2 => o.owned # 0
      /\ o.check = 3 => o.owned # 0 /\ [by |-> r, deployment |-> o.owned] \in x4
  BY <1>1, SchedulerPhases DEF Scheduler!RunSound, Scheduler!RunStates
<1>3. PICK u : u = [o EXCEPT !.pc = Scheduler!AfterCheck[o.check], !.owned = Len(x1), !.check = IF o.check < 3 THEN o.check + 1 ELSE 3]
  OBVIOUS
<1>4. PICK pc : pc = Scheduler!AfterCheck[o.check]
  OBVIOUS
<1>5. \/ o.check = 1 /\ pc = "own"
      \/ o.check = 2 /\ pc = "link"
      \/ o.check = 3 /\ pc = "released"
  BY <1>2, <1>4 DEF Scheduler!AfterCheck
<1>6. PICK k \in 1 .. 3 : k = (IF o.check < 3 THEN o.check + 1 ELSE 3)
  BY <1>2
<1>7. pc \in Scheduler!Steps /\ (o.check = 1 => k = 2) /\ (o.check = 2 => k = 3)
  BY <1>2, <1>5, <1>6, SchedulerPhases DEF Scheduler!Steps
<1>8. PICK n \in Nat : n = Len(x1)
  BY <1>1
<1>9. u = [o EXCEPT !.pc = pc, !.owned = n, !.check = k]
  BY <1>3, <1>4, <1>6, <1>8
<1>10. u \in Scheduler!RunStates /\ u.previous = o.previous /\ u.owned = n /\ u.pc = pc /\ u.check = k
  BY <1>7, <1>9 DEF Scheduler!RunStates
<1>11. /\ u \in Scheduler!RunStates /\ u.previous = o.previous /\ u.owned = Len(x1)
       /\ \/ o.check = 1 /\ u.pc = "own" /\ u.check = 2
          \/ o.check = 2 /\ u.pc = "link" /\ u.check = 3
          \/ o.check = 3 /\ u.pc = "released"
  BY <1>5, <1>7, <1>8, <1>10
<1>12. PICK good \in BOOLEAN : good = (Scheduler!Active = x5[r].seen)
  OBVIOUS
<1>13. good => o.seen = Len(x1) /\ Scheduler!Owned(r, Len(x1)) /\ (o.owned = u.owned \/ o.owned = 0)
  BY <1>1, <1>2, <1>11, <1>12 DEF Scheduler!Active
<1>14. good => Scheduler!RunSound(r, u)
  BY <1>1, <1>2, <1>11, <1>13, SchedulerPhases DEF Scheduler!RunSound, Scheduler!Restoring
<1>15. Scheduler!Step(r, good, u)
  BY <1>1, <1>3, <1>12 DEF Scheduler!OwnAgain, Scheduler!Active
<1>16. x5[r].pc \notin Scheduler!Ended \cup Scheduler!InRecovery
  BY <1>1, SchedulerPhases
<1> QED
  BY <1>1, <1>11, <1>13, <1>14, <1>15, <1>16, SchedulerTries

LEMMA SchedulerTriggers ==
  ASSUME Scheduler!SchedulerIInv, NEW r \in Runs, Scheduler!Trigger(r)
  PROVE  Scheduler!SchedulerIInv'
<1>1. PICK o \in Scheduler!RunStates :
         o = x5[r] /\ Scheduler!RunSound(r, o) /\ o.pc = "trigger" /\ Len(x1) \in Nat /\ Len(x1) > 0
  BY SchedulerAt DEF Scheduler!Trigger, Scheduler!At
<1>2. PICK u : u = [o EXCEPT !.pc = "schedule"]
  OBVIOUS
<1>3. u \in Scheduler!RunStates /\ u.previous = o.previous /\ u.owned = o.owned /\ u.pc = "schedule" /\ u.check = o.check
  BY <1>1, <1>2, SchedulerPhases DEF Scheduler!RunStates, Scheduler!Steps
<1>4. Scheduler!RunSound(r, u)
  BY <1>1, <1>3, SchedulerPhases DEF Scheduler!RunSound, Scheduler!Restoring
<1>5. x1' = x1 /\ x2' = "exact" /\ x3' = x3 /\ x4' = x4 /\ x6' = x6 /\ x5' = [x5 EXCEPT ![r] = u]
  BY <1>1, <1>2 DEF Scheduler!Trigger, Scheduler!Set
<1>6. x6 \in 0 .. MaxReleaseFailures
  BY DEF Scheduler!SchedulerIInv, Scheduler!Kinds
<1> QED
  BY <1>1, <1>3, <1>4, <1>5, <1>6, SchedulerMoves

LEMMA SchedulerTriggerFails ==
  ASSUME Scheduler!SchedulerIInv, NEW r \in Runs, Scheduler!TriggerFails(r)
  PROVE  Scheduler!SchedulerIInv'
<1>1. x5[r].pc = "trigger" /\ x5[r].triggered /\ Scheduler!Kinds /\ Len(x1) \in Nat
  BY SchedulerAt DEF Scheduler!TriggerFails, Scheduler!At, Scheduler!RunSound
<1>2. /\ x1' = x1 /\ x3' = x3 /\ Scheduler!Throw(r) /\ x2' \in {"exact", "other"}
      /\ x6' \in 0 .. MaxReleaseFailures
  BY <1>1, WorkspaceAssumption DEF Scheduler!TriggerFails, Scheduler!Fault, Scheduler!Kinds
<1>3. SchedulerGrow
  BY <1>1, <1>2 DEF SchedulerGrow, Scheduler!Kinds
<1>4. \A d \in 1 .. Len(x1') : ~(d > Len(x1))
  BY <1>1, <1>2
<1>5. x5[r].pc \notin Scheduler!Ended \cup Scheduler!InRecovery
  BY <1>1, SchedulerPhases
<1> QED
  BY <1>1, <1>2, <1>3, <1>4, <1>5, SchedulerThrows

LEMMA SchedulerDeployed ==
  ASSUME Scheduler!Kinds, NEW who \in Scheduler!Makers, NEW versions \in SUBSET (Runs \cup {"hand", "legacy", "reviewed"}),
         Scheduler!Deploy(who, versions)
  PROVE  /\ SchedulerGrow /\ Len(x1') = Len(x1) + 1 /\ Len(x1) \in Nat
         /\ \A d \in 1 .. Len(x1') : d > Len(x1) => x1'[d] = [by |-> who, versions |-> versions]
<1>1. PICK e \in [by : Scheduler!Makers, versions : SUBSET (Runs \cup {"hand", "legacy", "reviewed"})] :
         e = [by |-> who, versions |-> versions] /\ x1' = Append(x1, e)
  BY DEF Scheduler!Deploy
<1> QED
  BY <1>1 DEF SchedulerGrow, Scheduler!Kinds

LEMMA SchedulerActivates ==
  ASSUME Scheduler!SchedulerIInv, NEW r \in Runs, Scheduler!Activate(r)
  PROVE  Scheduler!SchedulerIInv'
<1>1. PICK o \in Scheduler!RunStates :
         o = x5[r] /\ Scheduler!RunSound(r, o) /\ o.pc = "activate" /\ Len(x1) \in Nat /\ Len(x1) > 0 /\ Scheduler!Kinds
  BY SchedulerAt DEF Scheduler!Activate, Scheduler!At
<1>2. PICK u : u = [o EXCEPT !.pc = "own"]
  OBVIOUS
<1>3. u \in Scheduler!RunStates /\ u.previous = o.previous /\ u.owned = o.owned /\ u.pc = "own" /\ u.check = o.check
  BY <1>1, <1>2, SchedulerPhases DEF Scheduler!RunStates, Scheduler!Steps
<1>4. Scheduler!RunSound(r, u)
  <2>1. o.check = 1 /\ o.pc \notin Scheduler!Ended \cup {"start", "approve"}
    BY <1>1, SchedulerPhases DEF Scheduler!RunSound
  <2> QED
    BY <1>1, <1>3, <2>1, SchedulerPhases DEF Scheduler!RunSound, Scheduler!Restoring
<1>5. /\ x2' = x2 /\ x3' = x3 /\ x4' = x4 /\ x6' = x6 /\ x5' = [x5 EXCEPT ![r] = u]
      /\ Scheduler!Deploy(r, {r})
  BY <1>1, <1>2 DEF Scheduler!Activate, Scheduler!Set
<1>6. x6 \in 0 .. MaxReleaseFailures /\ x2 \in {"exact", "other"} /\ r \in Scheduler!Makers
  BY DEF Scheduler!SchedulerIInv, Scheduler!Kinds, Scheduler!Makers
<1>7. SchedulerGrow /\ \A d \in 1 .. Len(x1') : d > Len(x1) => x1'[d] = [by |-> r, versions |-> {r}]
  BY <1>1, <1>5, <1>6, SchedulerDeployed
<1>8. SchedulerGrow /\ \A d \in 1 .. Len(x1') : d > Len(x1) => x1'[d].by = r /\ \A s \in Runs : x1'[d].versions = {s} /\ x5[s].owned = 0 => x1'[d].by = s
  <2>1. ASSUME NEW d \in 1 .. Len(x1'), d > Len(x1)
        PROVE  x1'[d].by = r /\ \A s \in Runs : x1'[d].versions = {s} => x1'[d].by = s
    <3>1. x1'[d].by = r /\ x1'[d].versions = {r}
      BY <1>7, <2>1
    <3> QED
      BY <3>1
  <2> QED
    BY <1>7, <2>1
<1>9. x5[r].pc \notin Scheduler!Unsettled /\ u.pc # "recovered"
  BY <1>1, <1>3 DEF Scheduler!Unsettled
<1> QED
  BY <1>1, <1>3, <1>4, <1>5, <1>6, <1>8, <1>9, SchedulerDeploys

LEMMA SchedulerActivateFails ==
  ASSUME Scheduler!SchedulerIInv, NEW r \in Runs, Scheduler!ActivateFails(r)
  PROVE  Scheduler!SchedulerIInv'
<1>1. x5[r].pc = "activate" /\ Scheduler!Kinds /\ Len(x1) \in Nat /\ r \in Scheduler!Makers
  BY SchedulerAt DEF Scheduler!ActivateFails, Scheduler!At, Scheduler!Makers
<1>2. x2' = x2 /\ x3' = x3 /\ Scheduler!Throw(r) /\ x2' \in {"exact", "other"} /\ x6' \in 0 .. MaxReleaseFailures
  BY <1>1, WorkspaceAssumption DEF Scheduler!ActivateFails, Scheduler!Fault, Scheduler!Kinds
<1>3. SchedulerGrow /\ \A d \in 1 .. Len(x1') : d > Len(x1) => x1'[d] = [by |-> r, versions |-> {r}]
  <2>1. CASE Scheduler!Deploy(r, {r})
    BY <1>1, <2>1, SchedulerDeployed
  <2>2. CASE x1' = x1
    BY <1>1, <2>2 DEF SchedulerGrow, Scheduler!Kinds
  <2> QED
    BY <2>1, <2>2 DEF Scheduler!ActivateFails
<1>4. x5[r].pc \notin Scheduler!Ended \cup Scheduler!InRecovery
  BY <1>1, SchedulerPhases
<1> QED
  BY <1>1, <1>2, <1>3, <1>4, SchedulerThrows

LEMMA SchedulerLinks ==
  ASSUME Scheduler!SchedulerIInv, NEW r \in Runs, Scheduler!Link(r)
  PROVE  Scheduler!SchedulerIInv'
<1>1. PICK o \in Scheduler!RunStates :
         /\ o = x5[r] /\ Scheduler!RunSound(r, o) /\ o.pc = "link" /\ Len(x1) \in Nat /\ Len(x1) > 0 /\ Scheduler!Kinds
         /\ x4 \subseteq Scheduler!Manifests /\ x5 \in [Runs -> Scheduler!RunStates]
  BY SchedulerAt DEF Scheduler!Link, Scheduler!At, Scheduler!Kinds
<1>2. PICK u : u = [o EXCEPT !.pc = "own"]
  OBVIOUS
<1>3. /\ u \in Scheduler!RunStates /\ u.previous = o.previous /\ u.owned = o.owned /\ u.pc = "own" /\ u.check = o.check
      /\ o.owned # 0 /\ o.owned \in Nat
  BY <1>1, <1>2, SchedulerPhases DEF Scheduler!RunStates, Scheduler!Steps, Scheduler!RunSound
<1>4. PICK n : n = [by |-> r, deployment |-> o.owned]
  OBVIOUS
<1>5. n \in Scheduler!Manifests /\ n.by = r /\ n.deployment = u.owned
  BY <1>3, <1>4 DEF Scheduler!Manifests
<1>6. /\ x1' = x1 /\ x2' = x2 /\ x3' = x3 /\ x4' = x4 \cup {n} /\ x6' = x6 /\ x5' = [x5 EXCEPT ![r] = u]
  BY <1>1, <1>2, <1>4 DEF Scheduler!Link, Scheduler!Set, Scheduler!ManifestOf
<1>7. x6 \in 0 .. MaxReleaseFailures /\ x2 \in {"exact", "other"} /\ x3 \in BOOLEAN
  BY DEF Scheduler!SchedulerIInv, Scheduler!Kinds
<1>8. SchedulerGrow /\ \A d \in 1 .. Len(x1') : ~(d > Len(x1))
  BY <1>1, <1>6 DEF SchedulerGrow, Scheduler!Kinds
<1>9. \A s \in Runs : x5[s].owned # 0 => x5'[s].owned # 0
  BY <1>1, <1>3, <1>6
<1>10. [by |-> r, deployment |-> u.owned] \in x4'
  BY <1>3, <1>4, <1>6
<1>11. Scheduler!RunSound(r, u)'
  <2>1. o.pc \notin Scheduler!Ended \cup {"start", "approve"} /\ u.pc \notin Scheduler!InRecovery
    BY <1>1, <1>3, SchedulerPhases
  <2> QED
    BY <1>1, <1>3, <1>6, <1>9, <1>10, <2>1 DEF Scheduler!RunSound, Scheduler!Restoring, Scheduler!Owned
<1>12. Scheduler!CronAccounted'
  <2>1. x5[r].pc \notin Scheduler!Unsettled
    BY <1>1 DEF Scheduler!Unsettled
  <2> QED
    BY <1>1, <1>3, <1>6, <2>1, SchedulerCron DEF Scheduler!SchedulerIInv
<1>13. /\ x4' \subseteq Scheduler!Manifests
       /\ \A m \in Scheduler!Manifests : m.by # r => (m \in x4' <=> m \in x4)
       /\ \A m \in x4' : m.by = r => m \in x4 \/ (u.owned # 0 /\ m.deployment = u.owned)
  BY <1>1, <1>3, <1>5, <1>6
<1> QED
  BY <1>1, <1>3, <1>6, <1>7, <1>8, <1>11, <1>12, <1>13, SchedulerStep

LEMMA SchedulerRecoverStarts ==
  ASSUME Scheduler!SchedulerIInv, NEW r \in Runs, Scheduler!Recover(r)
  PROVE  Scheduler!SchedulerIInv'
<1>1. PICK o \in Scheduler!RunStates :
         /\ o = x5[r] /\ Scheduler!RunSound(r, o) /\ o.pc = "recover" /\ Len(x1) \in Nat /\ Len(x1) > 0
         /\ DOMAIN x1 = 1 .. Len(x1)
  BY SchedulerAt DEF Scheduler!Recover, Scheduler!At
<1>2. o.previous \in 1 .. Len(x1) /\ o.owned \in Nat
  BY <1>1, SchedulerPhases DEF Scheduler!RunSound, Scheduler!RunStates
<1>3. PICK a \in Nat : a = Len(x1) /\ a > 0
  BY <1>1
<1>4. CASE x1[a].versions = x1[o.previous].versions
  <2>1. PICK u : u = [o EXCEPT !.pc = "before", !.seen = a]
    OBVIOUS
  <2>2. /\ u \in Scheduler!RunStates /\ u.previous = o.previous /\ u.owned = o.owned /\ u.pc = "before" /\ u.seen = a
        /\ u.left = o.left
    BY <1>1, <1>2, <1>3, <2>1, SchedulerPhases DEF Scheduler!RunStates, Scheduler!Steps
  <2>3. Scheduler!RunSound(r, u)
    BY <1>1, <1>2, <1>3, <1>4, <2>2, SchedulerPhases DEF Scheduler!RunSound, Scheduler!Restoring
  <2>4. PICK good \in BOOLEAN : good = (Scheduler!Active = x5[r].previous)
    OBVIOUS
  <2>5. Scheduler!Recovery(r, good, u)
    BY <1>1, <1>3, <1>4, <2>1, <2>4 DEF Scheduler!Recover, Scheduler!Active, Scheduler!Previous
  <2>6. u.pc \in Scheduler!Unsettled
    BY <2>2 DEF Scheduler!Unsettled
  <2> QED
    BY <1>1, <2>2, <2>3, <2>5, <2>6, SchedulerRecovers
<1>5. CASE x1[a].versions # x1[o.previous].versions
  <2>1. PICK k \in Nat : k = IF o.owned = 0 THEN a ELSE o.owned
    BY <1>2, <1>3
  <2>2. PICK u : u = [o EXCEPT !.pc = "ownRecovery", !.seen = k]
    OBVIOUS
  <2>3. /\ u \in Scheduler!RunStates /\ u.previous = o.previous /\ u.owned = o.owned /\ u.pc = "ownRecovery"
        /\ u.left = o.left
    BY <1>1, <1>2, <2>2, SchedulerPhases DEF Scheduler!RunStates, Scheduler!Steps
  <2>4. Scheduler!RunSound(r, u)
    BY <1>1, <1>2, <2>3, SchedulerPhases DEF Scheduler!RunSound, Scheduler!Restoring
  <2>5. PICK good \in BOOLEAN : good = (x5[r].activated /\ Scheduler!IsOwnActivation(r, x1[Scheduler!Active].versions))
    OBVIOUS
  <2>6. Scheduler!Recovery(r, good, u)
    BY <1>1, <1>3, <1>5, <2>1, <2>2, <2>5 DEF Scheduler!Recover, Scheduler!Active, Scheduler!Previous
  <2>7. u.pc \in Scheduler!Unsettled
    BY <2>3 DEF Scheduler!Unsettled
  <2> QED
    BY <1>1, <2>3, <2>4, <2>6, <2>7, SchedulerRecovers
<1> QED
  BY <1>4, <1>5

LEMMA SchedulerChecks ==
  ASSUME Scheduler!SchedulerIInv, NEW r \in Runs, Scheduler!Check(r)
  PROVE  Scheduler!SchedulerIInv'
<1>1. PICK o \in Scheduler!RunStates :
         /\ o = x5[r] /\ Scheduler!RunSound(r, o) /\ Len(x1) \in Nat /\ Len(x1) > 0
  BY SchedulerAt
<1>2. PICK pc \in DOMAIN Scheduler!Checks :
         o.pc = pc /\ Scheduler!Recovery(r, Scheduler!Active = x5[r].seen, [o EXCEPT !.pc = Scheduler!Checks[pc]])
  BY <1>1 DEF Scheduler!Check, Scheduler!At
<1>3. PICK q : q = Scheduler!Checks[pc]
  OBVIOUS
<1>4. \/ pc = "ownRecovery" /\ q = "ownRecoveryAgain"
      \/ pc = "ownRecoveryAgain" /\ q = "rollback"
      \/ pc = "before" /\ q = "beforeAgain"
      \/ pc = "beforeAgain" /\ q = "restore"
      \/ pc = "after" /\ q = "afterCron"
  BY <1>2, <1>3 DEF Scheduler!Checks
<1>5. PICK u : u = [o EXCEPT !.pc = q]
  OBVIOUS
<1>6. q \in Scheduler!Steps
  BY <1>4, SchedulerPhases DEF Scheduler!Steps
<1>7. /\ u \in Scheduler!RunStates /\ u.previous = o.previous /\ u.owned = o.owned /\ u.pc = q /\ u.seen = o.seen
      /\ u.left = o.left
  BY <1>5, <1>6 DEF Scheduler!RunStates
<1>8. Scheduler!RunSound(r, u)
  BY <1>1, <1>2, <1>4, <1>7, SchedulerPhases DEF Scheduler!RunSound, Scheduler!Restoring
<1>9. PICK good \in BOOLEAN : good = (Scheduler!Active = x5[r].seen)
  OBVIOUS
<1>10. x5[r].pc \in Scheduler!Unsettled => u.pc \in Scheduler!Unsettled
  BY <1>1, <1>2, <1>4, <1>7 DEF Scheduler!Unsettled
<1> QED
  BY <1>1, <1>2, <1>3, <1>5, <1>7, <1>8, <1>9, <1>10, SchedulerRecovers

LEMMA SchedulerRollsBack ==
  ASSUME Scheduler!SchedulerIInv, NEW r \in Runs, Scheduler!Deploy(r, Scheduler!Previous(r)), x5[r].pc = "rollback"
  PROVE  /\ SchedulerGrow
         /\ \A d \in 1 .. Len(x1') : d > Len(x1) =>
               x1'[d].by = r /\ \A s \in Runs : x1'[d].versions = {s} /\ x5[s].owned = 0 => x1'[d].by = s
<1>1. PICK o \in Scheduler!RunStates :
         o = x5[r] /\ Scheduler!RunSound(r, o) /\ o.pc = "rollback" /\ Len(x1) \in Nat /\ Len(x1) > 0 /\ Scheduler!Kinds
  BY SchedulerAt
<1>2. /\ o.previous \in 1 .. Len(x1)
      /\ \A s \in Runs : x1[o.previous].versions = {s} => x5[s].owned # 0
  BY <1>1, SchedulerPhases DEF Scheduler!RunSound, Scheduler!RunStates
<1>3. x1[o.previous] \in [by : Scheduler!Makers, versions : SUBSET (Runs \cup {"hand", "legacy", "reviewed"})]
  BY <1>1, <1>2, ElementIn DEF Scheduler!Kinds
<1>4. PICK versions \in SUBSET (Runs \cup {"hand", "legacy", "reviewed"}) : versions = x1[o.previous].versions
  BY <1>3
<1>5. Scheduler!Deploy(r, versions) /\ r \in Scheduler!Makers
  BY <1>1, <1>4 DEF Scheduler!Previous, Scheduler!Makers
<1>6. SchedulerGrow /\ \A d \in 1 .. Len(x1') : d > Len(x1) => x1'[d] = [by |-> r, versions |-> versions]
  BY <1>1, <1>5, SchedulerDeployed
<1>7. ASSUME NEW d \in 1 .. Len(x1'), d > Len(x1)
      PROVE  x1'[d].by = r /\ \A s \in Runs : x1'[d].versions = {s} /\ x5[s].owned = 0 => x1'[d].by = s
  <2>1. x1'[d].by = r /\ x1'[d].versions = versions
    BY <1>6, <1>7
  <2> QED
    BY <1>2, <1>4, <2>1
<1> QED
  BY <1>6, <1>7

LEMMA SchedulerRollback ==
  ASSUME Scheduler!SchedulerIInv, NEW r \in Runs, Scheduler!Rollback(r)
  PROVE  Scheduler!SchedulerIInv'
<1>1. PICK o \in Scheduler!RunStates :
         o = x5[r] /\ Scheduler!RunSound(r, o) /\ o.pc = "rollback" /\ Len(x1) \in Nat /\ Len(x1) > 0
  BY SchedulerAt DEF Scheduler!Rollback, Scheduler!At
<1>2. PICK u : u = [o EXCEPT !.pc = "restored"]
  OBVIOUS
<1>3. u \in Scheduler!RunStates /\ u.previous = o.previous /\ u.owned = o.owned /\ u.pc = "restored" /\ u.left = o.left
  BY <1>1, <1>2, SchedulerPhases DEF Scheduler!RunStates, Scheduler!Steps
<1>4. Scheduler!RunSound(r, u)
  BY <1>1, <1>3, SchedulerPhases DEF Scheduler!RunSound, Scheduler!Restoring
<1>5. x2' = x2 /\ x3' = x3 /\ x4' = x4 /\ x6' = x6 /\ x5' = [x5 EXCEPT ![r] = u] /\ Scheduler!Deploy(r, Scheduler!Previous(r))
  BY <1>1, <1>2 DEF Scheduler!Rollback, Scheduler!Set
<1>6. x6 \in 0 .. MaxReleaseFailures /\ x2 \in {"exact", "other"}
  BY DEF Scheduler!SchedulerIInv, Scheduler!Kinds
<1>7. u.pc \in Scheduler!Unsettled
  BY <1>3 DEF Scheduler!Unsettled
<1> QED
  BY <1>1, <1>3, <1>4, <1>5, <1>6, <1>7, SchedulerRollsBack, SchedulerDeploys

LEMMA SchedulerRestored ==
  ASSUME Scheduler!SchedulerIInv, NEW r \in Runs, Scheduler!Restored(r)
  PROVE  Scheduler!SchedulerIInv'
<1>1. PICK o \in Scheduler!RunStates :
         /\ o = x5[r] /\ Scheduler!RunSound(r, o) /\ o.pc = "restored" /\ Len(x1) \in Nat /\ Len(x1) > 0
         /\ DOMAIN x1 = 1 .. Len(x1)
  BY SchedulerAt DEF Scheduler!Restored, Scheduler!At
<1>2. PICK a \in Nat : a = Len(x1) /\ a > 0
  BY <1>1
<1>3. PICK u : u = [o EXCEPT !.pc = "before", !.seen = a]
  OBVIOUS
<1>4. /\ u \in Scheduler!RunStates /\ u.previous = o.previous /\ u.owned = o.owned /\ u.pc = "before" /\ u.seen = a
      /\ u.left = o.left
  BY <1>1, <1>2, <1>3, SchedulerPhases DEF Scheduler!RunStates, Scheduler!Steps
<1>5. PICK good \in BOOLEAN : good = (x1[Scheduler!Active].versions = Scheduler!Previous(r))
  OBVIOUS
<1>6. good => x1[a].versions = x1[o.previous].versions
  BY <1>1, <1>2, <1>5 DEF Scheduler!Active, Scheduler!Previous
<1>7. a \in DOMAIN x1
  BY <1>1, <1>2
<1>8. good => Scheduler!RunSound(r, u)
  BY <1>1, <1>4, <1>6, <1>7, SchedulerPhases DEF Scheduler!RunSound, Scheduler!Restoring
<1>9. Scheduler!Recovery(r, good, u)
  BY <1>1, <1>2, <1>3, <1>5 DEF Scheduler!Restored, Scheduler!Active
<1>10. u.pc \in Scheduler!Unsettled
  BY <1>4 DEF Scheduler!Unsettled
<1> QED
  BY <1>1, <1>4, <1>8, <1>9, <1>10, SchedulerRecovers

LEMMA SchedulerRestores ==
  ASSUME Scheduler!SchedulerIInv, NEW r \in Runs, Scheduler!Restore(r)
  PROVE  Scheduler!SchedulerIInv'
<1>1. PICK o \in Scheduler!RunStates :
         o = x5[r] /\ Scheduler!RunSound(r, o) /\ o.pc = "restore" /\ Len(x1) \in Nat /\ Len(x1) > 0
  BY SchedulerAt DEF Scheduler!Restore, Scheduler!At
<1>2. PICK u : u = [o EXCEPT !.pc = "restoredCron"]
  OBVIOUS
<1>3. /\ u \in Scheduler!RunStates /\ u.previous = o.previous /\ u.owned = o.owned /\ u.pc = "restoredCron" /\ u.seen = o.seen
      /\ u.left = o.left
  BY <1>1, <1>2, SchedulerPhases DEF Scheduler!RunStates, Scheduler!Steps
<1>4. Scheduler!RunSound(r, u)
  BY <1>1, <1>3, SchedulerPhases DEF Scheduler!RunSound, Scheduler!Restoring
<1>5. x1' = x1 /\ x2' = "exact" /\ x3' = x3 /\ x4' = x4 /\ x6' = x6 /\ x5' = [x5 EXCEPT ![r] = u]
  BY <1>1, <1>2 DEF Scheduler!Restore, Scheduler!Set
<1>6. x6 \in 0 .. MaxReleaseFailures
  BY DEF Scheduler!SchedulerIInv, Scheduler!Kinds
<1> QED
  BY <1>1, <1>3, <1>4, <1>5, <1>6, SchedulerMoves

\* The two steps of the recovery that read the Cron alone.
LEMMA SchedulerReadsCron ==
  ASSUME Scheduler!SchedulerIInv, NEW r \in Runs, Scheduler!RestoredCron(r) \/ Scheduler!AfterCron(r)
  PROVE  Scheduler!SchedulerIInv'
<1>1. PICK o \in Scheduler!RunStates :
         /\ o = x5[r] /\ Scheduler!RunSound(r, o) /\ Len(x1) \in Nat /\ Len(x1) > 0
  BY SchedulerAt
<1>2. PICK q \in {"after", "last"} :
         /\ o.pc \in {"restoredCron", "afterCron"}
         /\ Scheduler!Recovery(r, Scheduler!CronIsExact, [o EXCEPT !.pc = q])
  BY <1>1 DEF Scheduler!RestoredCron, Scheduler!AfterCron, Scheduler!At
<1>3. PICK u : u = [o EXCEPT !.pc = q]
  OBVIOUS
<1>4. q \in Scheduler!Steps
  BY SchedulerPhases DEF Scheduler!Steps
<1>5. /\ u \in Scheduler!RunStates /\ u.previous = o.previous /\ u.owned = o.owned /\ u.pc = q /\ u.seen = o.seen
      /\ u.left = o.left
  BY <1>3, <1>4 DEF Scheduler!RunStates
<1>6. Scheduler!RunSound(r, u)
  BY <1>1, <1>2, <1>5, SchedulerPhases DEF Scheduler!RunSound, Scheduler!Restoring
<1>7. PICK good \in BOOLEAN : good = Scheduler!CronIsExact
  BY DEF Scheduler!CronIsExact
<1>8. x5[r].pc \notin Scheduler!Unsettled
  BY <1>1, <1>2 DEF Scheduler!Unsettled
<1> QED
  BY <1>1, <1>2, <1>3, <1>5, <1>6, <1>7, <1>8, SchedulerRecovers

LEMMA SchedulerLast ==
  ASSUME Scheduler!SchedulerIInv, NEW r \in Runs, Scheduler!Last(r)
  PROVE  Scheduler!SchedulerIInv'
<1>1. PICK o \in Scheduler!RunStates :
         o = x5[r] /\ Scheduler!RunSound(r, o) /\ o.pc = "last" /\ Len(x1) \in Nat /\ Len(x1) > 0 /\ Scheduler!Kinds
  BY SchedulerAt DEF Scheduler!Last, Scheduler!At
<1>2. PICK pc \in {"refused", "recovered"} :
         /\ x5' = [x5 EXCEPT ![r] = [Scheduler!Fresh EXCEPT !.pc = pc, !.owned = x5[r].owned]]
         /\ pc = "recovered" => Len(x1) = o.seen /\ ~o.left
  BY <1>1 DEF Scheduler!Last, Scheduler!End, Scheduler!Refuse, Scheduler!Active
<1>3. ASSUME pc = "recovered" PROVE (\A m \in x4 : m.by # r) /\ x1[Len(x1)] # [by |-> r, versions |-> {r}]
  <2>1. /\ x1[o.seen].versions = x1[o.previous].versions /\ x1[o.previous].versions # {r}
        /\ \A m \in x4 : m.by # r
    BY <1>1, <1>2, <1>3, SchedulerPhases DEF Scheduler!RunSound, Scheduler!Restoring
  <2>2. x1[Len(x1)].versions # {r}
    BY <1>2, <1>3, <2>1
  <2> QED
    BY <2>1, <2>2
<1>4. PICK u : u = [Scheduler!Fresh EXCEPT !.pc = pc, !.owned = x5[r].owned]
  OBVIOUS
<1>5. u \in Scheduler!RunStates /\ Scheduler!RunSound(r, u) /\ u.owned = x5[r].owned
  BY <1>3, <1>4, SchedulerEnded
<1>6. x1' = x1 /\ x2' = x2 /\ x3' = x3 /\ x4' = x4 /\ x6' = x6 /\ x5' = [x5 EXCEPT ![r] = u]
  BY <1>2, <1>4 DEF Scheduler!Last, Scheduler!Reads
<1>7. x6 \in 0 .. MaxReleaseFailures /\ x2 \in {"exact", "other"} /\ x5[r].pc \notin Scheduler!Unsettled
  BY <1>1 DEF Scheduler!Kinds, Scheduler!Unsettled
<1> QED
  BY <1>5, <1>6, <1>7, SchedulerMoves

LEMMA SchedulerFails ==
  ASSUME Scheduler!SchedulerIInv, NEW r \in Runs, Scheduler!Fails(r)
  PROVE  Scheduler!SchedulerIInv'
<1>1. PICK o \in Scheduler!RunStates :
         o = x5[r] /\ Scheduler!RunSound(r, o) /\ Len(x1) \in Nat /\ Len(x1) > 0 /\ Scheduler!Kinds
  BY SchedulerAt
<1>2. /\ x1' = x1 /\ x2' = x2 /\ x3' = x3 /\ x6' \in 0 .. MaxReleaseFailures /\ x2 \in {"exact", "other"}
      /\ o.pc \notin Scheduler!Ended \cup Scheduler!InRecovery \cup {"start"}
  BY <1>1, WorkspaceAssumption DEF Scheduler!Fails, Scheduler!Fault, Scheduler!Kinds
<1>3. SchedulerGrow /\ \A d \in 1 .. Len(x1') : ~(d > Len(x1))
  BY <1>1, <1>2 DEF SchedulerGrow, Scheduler!Kinds
<1>4. CASE Scheduler!Throw(r)
  BY <1>1, <1>2, <1>3, <1>4, SchedulerThrows
<1>5. CASE Scheduler!ThrowAndLeave(r)
  <2>1. PICK m \in x4 : m.by = r
    BY <1>5 DEF Scheduler!ThrowAndLeave
  <2>2. o.owned # 0
    <3>1. Scheduler!ManifestSound(m) /\ m.deployment \in 1 .. Len(x1)
      BY <1>1, <2>1 DEF Scheduler!SchedulerIInv, Scheduler!ManifestSound, Scheduler!Kinds
    <3> QED
      BY <1>1, <2>1, <3>1, WorkspaceAssumption DEF Scheduler!ManifestSound
  <2>3. PICK u : u = [o EXCEPT !.pc = "recover", !.left = TRUE]
    OBVIOUS
  <2>4. u \in Scheduler!RunStates /\ u.previous = o.previous /\ u.owned = o.owned /\ u.pc = "recover" /\ u.left
    BY <1>1, <2>3, SchedulerPhases DEF Scheduler!RunStates, Scheduler!Steps
  <2>5. Scheduler!RunSound(r, u)
    BY <1>1, <1>2, <2>2, <2>4, SchedulerPhases DEF Scheduler!RunSound, Scheduler!Restoring
  <2>6. x4' = x4 /\ x5' = [x5 EXCEPT ![r] = u]
    BY <1>1, <1>5, <2>3 DEF Scheduler!ThrowAndLeave, Scheduler!Set
  <2>7. u.pc \in Scheduler!Unsettled
    BY <2>4 DEF Scheduler!Unsettled
  <2> QED
    BY <1>1, <1>2, <2>4, <2>5, <2>6, <2>7, SchedulerMoves
<1> QED
  BY <1>4, <1>5 DEF Scheduler!Fails

LEMMA SchedulerRecoveryFails ==
  ASSUME Scheduler!SchedulerIInv, NEW r \in Runs, Scheduler!RecoveryFails(r)
  PROVE  Scheduler!SchedulerIInv'
<1>1. x2 \in {"exact", "other"} /\ Len(x1) \in Nat /\ Scheduler!Kinds
  BY SchedulerAt DEF Scheduler!Kinds
<1>2. PICK u : u = [Scheduler!Fresh EXCEPT !.pc = "refused", !.owned = x5[r].owned]
  OBVIOUS
<1>3. u \in Scheduler!RunStates /\ Scheduler!RunSound(r, u) /\ u.owned = x5[r].owned /\ u.pc = "refused"
  BY <1>2, SchedulerEnded
<1>4. /\ x2' \in {"exact", "other"} /\ x3' = x3 /\ x4' = x4 /\ x6' \in 0 .. MaxReleaseFailures /\ x5' = [x5 EXCEPT ![r] = u]
  BY <1>1, <1>2, WorkspaceAssumption
     DEF Scheduler!RecoveryFails, Scheduler!Refuse, Scheduler!End, Scheduler!Fault, Scheduler!Kinds
<1>5. /\ SchedulerGrow
      /\ \A d \in 1 .. Len(x1') : d > Len(x1) =>
            x1'[d].by = r /\ \A s \in Runs : x1'[d].versions = {s} /\ x5[s].owned = 0 => x1'[d].by = s
  <2>1. CASE x5[r].pc = "rollback" /\ Scheduler!Deploy(r, Scheduler!Previous(r))
    BY <2>1, SchedulerRollsBack
  <2>2. CASE x1' = x1
    <3>1. \A d \in 1 .. Len(x1') : ~(d > Len(x1))
      BY <1>1, <2>2
    <3> QED
      BY <1>1, <2>2, <3>1 DEF SchedulerGrow, Scheduler!Kinds
  <2> QED
    BY <2>1, <2>2 DEF Scheduler!RecoveryFails
<1>6. u.pc \in Scheduler!Unsettled
  BY <1>3 DEF Scheduler!Unsettled
<1> QED
  BY <1>3, <1>4, <1>5, <1>6, SchedulerDeploys

LEMMA SchedulerDies ==
  ASSUME Scheduler!SchedulerIInv, NEW r \in Runs, Scheduler!Dies(r)
  PROVE  Scheduler!SchedulerIInv'
<1>1. x2 \in {"exact", "other"} /\ Len(x1) \in Nat /\ Scheduler!Kinds
  BY SchedulerAt DEF Scheduler!Kinds
<1>2. PICK u : u = [Scheduler!Fresh EXCEPT !.pc = "dead", !.owned = x5[r].owned]
  OBVIOUS
<1>3. u \in Scheduler!RunStates /\ Scheduler!RunSound(r, u) /\ u.owned = x5[r].owned /\ u.pc = "dead"
  BY <1>2, SchedulerEnded
<1>4. /\ x1' = x1 /\ x2' = x2 /\ x3' = x3 /\ x4' = x4 /\ x6' \in 0 .. MaxReleaseFailures /\ x5' = [x5 EXCEPT ![r] = u]
  BY <1>1, <1>2, WorkspaceAssumption DEF Scheduler!Dies, Scheduler!End, Scheduler!Fault, Scheduler!Kinds
<1>5. u.pc \in Scheduler!Unsettled
  BY <1>3 DEF Scheduler!Unsettled
<1> QED
  BY <1>1, <1>3, <1>4, <1>5, SchedulerMoves

LEMMA SchedulerDeployedByHand ==
  ASSUME Scheduler!SchedulerIInv, Scheduler!DeployByHand
  PROVE  Scheduler!SchedulerIInv'
<1>1. /\ Scheduler!Kinds /\ Scheduler!Past1 /\ Len(x1) \in Nat /\ Len(x1) > 0 /\ x4 \subseteq Scheduler!Manifests
      /\ x2 \in {"exact", "other"} /\ x3 \in BOOLEAN /\ x6 \in 0 .. MaxReleaseFailures /\ "hand" \in Scheduler!Makers
  BY DEF Scheduler!SchedulerIInv, Scheduler!Kinds, Scheduler!Makers
<1>2. x1[1].versions \in {{"legacy"}, {"reviewed"}}
  BY <1>1 DEF Scheduler!Past1
<1>3. PICK versions : /\ versions = x1[1].versions \/ versions = {"hand"} \/ \E r \in Runs : versions = x1[1].versions \cup {r}
                      /\ Scheduler!Deploy("hand", versions)
  BY DEF Scheduler!DeployByHand
<1>4. versions \in SUBSET (Runs \cup {"hand", "legacy", "reviewed"}) /\ \A s \in Runs : versions # {s}
  BY <1>2, <1>3, WorkspaceAssumption
<1>5. SchedulerGrow /\ \A d \in 1 .. Len(x1') : d > Len(x1) => x1'[d] = [by |-> "hand", versions |-> versions]
  BY <1>1, <1>3, <1>4, SchedulerDeployed
<1>6. x2' = x2 /\ x3' = x3 /\ x4' = x4 /\ x5' = x5 /\ x6' = x6 /\ "hand" \notin Runs
  BY WorkspaceAssumption DEF Scheduler!DeployByHand
<1>7. \A d \in 1 .. Len(x1') : d > Len(x1) =>
         x1'[d].by = "hand" /\ \A s \in Runs : x1'[d].versions = {s} /\ x5[s].owned = 0 => x1'[d].by = s
  <2>1. ASSUME NEW d \in 1 .. Len(x1'), d > Len(x1)
        PROVE  x1'[d].by = "hand" /\ \A s \in Runs : x1'[d].versions # {s}
    <3>1. x1'[d].by = "hand" /\ x1'[d].versions = versions
      BY <1>5, <2>1
    <3> QED
      BY <1>4, <3>1
  <2> QED
    BY <2>1
<1>8. Scheduler!CronAccounted'
  BY <1>6 DEF Scheduler!SchedulerIInv, Scheduler!CronAccounted
<1>9. PICK u \in Scheduler!RunStates : TRUE
  BY SchedulerFresh
<1> QED
  BY <1>1, <1>5, <1>6, <1>7, <1>8, <1>9, SchedulerStep

LEMMA SchedulerCronByHand ==
  ASSUME Scheduler!SchedulerIInv, Scheduler!CronByHand
  PROVE  Scheduler!SchedulerIInv'
<1>1. Scheduler!Kinds /\ Len(x1) \in Nat /\ x4 \subseteq Scheduler!Manifests
  BY DEF Scheduler!SchedulerIInv, Scheduler!Kinds
<1>2. /\ x1' = x1 /\ x2' = "other" /\ x3' = TRUE /\ x4' = x4 /\ x5' = x5 /\ "hand" \notin Runs
      /\ x6' \in 0 .. MaxReleaseFailures
  BY <1>1, WorkspaceAssumption DEF Scheduler!CronByHand, Scheduler!Fault, Scheduler!Kinds
<1>3. SchedulerGrow /\ \A d \in 1 .. Len(x1') : ~(d > Len(x1))
  BY <1>1, <1>2 DEF SchedulerGrow, Scheduler!Kinds
<1>4. Scheduler!CronAccounted'
  BY <1>2 DEF Scheduler!CronAccounted
<1>5. PICK u \in Scheduler!RunStates : TRUE
  BY SchedulerFresh
<1> QED
  BY <1>1, <1>2, <1>3, <1>4, <1>5, SchedulerStep

\* What a release of the deletion scheduler relies on holds at first ...
LEMMA SchedulerBegins ==
  ASSUME Scheduler!Init
  PROVE  Scheduler!SchedulerIInv
<1>1. PICK v \in {"legacy", "reviewed"} :
         /\ x1 = <<[by |-> "past", versions |-> {v}]>>
         /\ x4 = IF v = "reviewed" THEN {[by |-> "past", deployment |-> 1]} ELSE {}
  BY DEF Scheduler!Init
<1>2. PICK e \in [by : Scheduler!Makers, versions : SUBSET (Runs \cup {"hand", "legacy", "reviewed"})] :
         e.by = "past" /\ e.versions = {v} /\ x1 = <<e>>
  BY <1>1 DEF Scheduler!Makers
<1>3. /\ x1 \in Seq([by : Scheduler!Makers, versions : SUBSET (Runs \cup {"hand", "legacy", "reviewed"})])
      /\ Len(x1) = 1 /\ DOMAIN x1 = {1} /\ x1[1] = e
  BY <1>2
<1>4. PICK f \in Scheduler!RunStates :
         f = Scheduler!Fresh /\ f.previous = 0 /\ f.owned = 0 /\ f.pc = "start" /\ ~f.triggered /\ f.check = 1
  BY SchedulerFresh DEF Scheduler!Fresh
<1>5. x5 = [r \in Runs |-> f] /\ x2 = "exact" /\ x3 = FALSE /\ x6 = 0
  BY <1>4 DEF Scheduler!Init
<1>6. x4 \subseteq Scheduler!Manifests /\ \A m \in x4 : m.by = "past" /\ m.deployment = 1
  BY <1>1 DEF Scheduler!Manifests
<1>7. Scheduler!Kinds
  <2>1. x2 \in {"exact", "other"} /\ x3 \in BOOLEAN
    BY <1>5
  <2>2. Len(x1) > 0
    BY <1>3
  <2>3. x5 \in [Runs -> Scheduler!RunStates]
    BY <1>5
  <2>4. x6 \in 0 .. MaxReleaseFailures
    BY <1>5, WorkspaceAssumption
  <2> QED
    BY <1>3, <1>6, <2>1, <2>4, <2>2, <2>3 DEF Scheduler!Kinds
<1>8. Scheduler!Past1
  BY <1>2, <1>3 DEF Scheduler!Past1
<1>9. \A d \in DOMAIN x1 : Scheduler!DeploymentSound(d)
  BY <1>2, <1>3, WorkspaceAssumption DEF Scheduler!DeploymentSound
<1>10. \A m \in x4 : Scheduler!ManifestSound(m)
  BY <1>3, <1>6 DEF Scheduler!ManifestSound
<1>11. ASSUME NEW r \in Runs PROVE Scheduler!RunSound(r, x5[r])
  <2>1. Scheduler!RunSound(r, f)
    BY <1>3, <1>4, <1>6, SchedulerPhases DEF Scheduler!RunSound, Scheduler!Restoring
  <2> QED
    BY <1>5, <2>1
<1>12. Scheduler!CronAccounted
  BY <1>5 DEF Scheduler!CronAccounted
<1> QED
  BY <1>7, <1>8, <1>9, <1>10, <1>11, <1>12 DEF Scheduler!SchedulerIInv

\* ... every step keeps it ...
LEMMA SchedulerGoesOn ==
  ASSUME Scheduler!SchedulerIInv, Scheduler!Next
  PROVE  Scheduler!SchedulerIInv'
<1>1. CASE Scheduler!DeployByHand \/ Scheduler!CronByHand
  BY <1>1, SchedulerDeployedByHand, SchedulerCronByHand
<1>2. CASE \E r \in Runs :
             \/ Scheduler!Start(r) \/ Scheduler!Approve(r) \/ Scheduler!Upload(r) \/ Scheduler!Staged(r)
             \/ Scheduler!Trigger(r) \/ Scheduler!TriggerFails(r) \/ Scheduler!Schedule(r) \/ Scheduler!PreActivation(r)
             \/ Scheduler!Activate(r) \/ Scheduler!ActivateFails(r)
  BY <1>2, SchedulerStarts, SchedulerApproves, SchedulerUploads, SchedulerStages, SchedulerTriggers, SchedulerTriggerFails,
     SchedulerSchedules, SchedulerPreActivates, SchedulerActivates, SchedulerActivateFails
<1>3. CASE \E r \in Runs :
             \/ Scheduler!Own(r) \/ Scheduler!OwnCron(r) \/ Scheduler!OwnAgain(r) \/ Scheduler!Link(r)
             \/ Scheduler!Recover(r) \/ Scheduler!Check(r) \/ Scheduler!Rollback(r) \/ Scheduler!Restored(r)
  BY <1>3, SchedulerOwns, SchedulerOwnsCron, SchedulerOwnsAgain, SchedulerLinks, SchedulerRecoverStarts, SchedulerChecks,
     SchedulerRollback, SchedulerRestored
<1>4. CASE \E r \in Runs :
             \/ Scheduler!Restore(r) \/ Scheduler!RestoredCron(r) \/ Scheduler!AfterCron(r) \/ Scheduler!Last(r)
             \/ Scheduler!Fails(r) \/ Scheduler!RecoveryFails(r) \/ Scheduler!Dies(r)
  BY <1>4, SchedulerRestores, SchedulerReadsCron, SchedulerLast, SchedulerFails, SchedulerRecoveryFails, SchedulerDies
<1> QED
  BY <1>1, <1>2, <1>3, <1>4 DEF Scheduler!Next

\* ... and it says what the runs check.
LEMMA SchedulerStands ==
  ASSUME Scheduler!SchedulerIInv
  PROVE  Scheduler!TypeOK /\ Scheduler!ManifestTellsTheTruth /\ Scheduler!CronStaysInPlace
<1>1. /\ Scheduler!Kinds /\ Len(x1) \in Nat /\ DOMAIN x1 = 1 .. Len(x1) /\ x4 \subseteq Scheduler!Manifests
      /\ x5 \in [Runs -> Scheduler!RunStates]
  BY DEF Scheduler!SchedulerIInv, Scheduler!Kinds
<1>2. ASSUME NEW r \in Runs
      PROVE  /\ x5[r].previous \in 0 .. Len(x1) /\ x5[r].owned \in 0 .. Len(x1)
             /\ x5[r].pc = "released" => [by |-> r, deployment |-> x5[r].owned] \in x4
             /\ x5[r].pc = "recovered" => (\A m \in x4 : m.by # r) /\ x1[Scheduler!Active] # [by |-> r, versions |-> {r}]
  <2>1. PICK o \in Scheduler!RunStates : o = x5[r] /\ Scheduler!RunSound(r, o)
    BY <1>1 DEF Scheduler!SchedulerIInv
  <2>2. o.previous \in Nat /\ o.owned \in Nat
    BY DEF Scheduler!RunStates
  <2> QED
    BY <1>1, <2>1, <2>2 DEF Scheduler!RunSound, Scheduler!Owned
<1>3. ASSUME NEW m \in x4
      PROVE  /\ m.by \in Runs \cup {"past"} /\ m.deployment \in DOMAIN x1
             /\ m.by = "past" \/ x1[m.deployment] = [by |-> m.by, versions |-> {m.by}]
  <2>1. Scheduler!ManifestSound(m) /\ m \in Scheduler!Manifests /\ m.by \in Runs \cup {"past"}
    BY <1>1 DEF Scheduler!SchedulerIInv, Scheduler!Manifests
  <2>2. CASE m.by # "past"
    <3>1. PICK t \in Runs : t = m.by
      BY <2>1, <2>2
    <3>2. m.deployment = x5[t].owned /\ m.deployment \in 1 .. Len(x1)
      BY <1>1, <2>1, <2>2, <3>1 DEF Scheduler!ManifestSound
    <3>3. Scheduler!RunSound(t, x5[t]) /\ x5[t].owned # 0
      BY <1>1, <3>2 DEF Scheduler!SchedulerIInv
    <3> QED
      BY <2>1, <3>1, <3>2, <3>3 DEF Scheduler!RunSound, Scheduler!Owned
  <2> QED
    BY <2>1, <2>2 DEF Scheduler!ManifestSound
<1>4. Scheduler!TypeOK
  BY <1>1, <1>2, <1>3 DEF Scheduler!TypeOK, Scheduler!Kinds
<1>5. Scheduler!ManifestTellsTheTruth
  BY <1>2, <1>3 DEF Scheduler!ManifestTellsTheTruth
<1>6. Scheduler!CronStaysInPlace
  BY DEF Scheduler!SchedulerIInv, Scheduler!CronAccounted, Scheduler!CronStaysInPlace, Scheduler!Unsettled
<1> QED
  BY <1>4, <1>5, <1>6

HIDE DEF Scheduler!Beginning, Scheduler!Hand, Scheduler!Past, Scheduler!Legacy, Scheduler!Reviewed

-------------------------------------------------------------------------------
(* The components together.                                                 *)

KeepingIInv ==
  /\ component = "Transfer" => Transfer!TransferIInv
  /\ component = "Callback" => Callback!CallbackIInv
  /\ component = "Durable" => Durable!DurableIInv
  /\ component = "Settings" => \A b \in SettingsBounds : bounds = b => Settings(b)!SettingsIInv
  /\ component = "Pages" => \A b \in PagesBounds : bounds = b => Pages(b)!PagesIInv
  /\ component = "Scheduler" => Scheduler!SchedulerIInv

LEMMA KeepingBegins == KeepingInit => KeepingIInv
<1>1. ASSUME component = "Settings", NEW b \in SettingsBounds, bounds = b, KeepingInit PROVE Settings(b)!SettingsIInv
  <2>1. Settings(b)!PpInit
    BY <1>1 DEF KeepingInit
  <2> QED
    BY <2>1, SettingsBegins
<1>2. ASSUME component = "Pages", NEW b \in PagesBounds, bounds = b, KeepingInit PROVE Pages(b)!PagesIInv
  <2>1. Pages(b)!Init /\ "hand" \notin b.releases
    BY <1>2, WorkspaceAssumption DEF KeepingInit
  <2> QED
    BY <2>1, PagesBegins
<1> QED
  BY <1>1, <1>2, TransferBegins, CallbackInits, DurableBegins, SchedulerBegins DEF KeepingInit, KeepingIInv

LEMMA KeepingStands == KeepingIInv => StoredWholeAndOnce /\ ReleasesAreSafe
  BY TransferStands, CallbackStands, DurableStands, SettingsStand, PagesStand, SchedulerStands
     DEF KeepingIInv, StoredWholeAndOnce, ReleasesAreSafe

LEMMA KeepingGoesOn == KeepingIInv /\ KeepingNext => KeepingIInv'
<1> SUFFICES ASSUME KeepingIInv, KeepingNext PROVE KeepingIInv'
  OBVIOUS
<1>1. component' = component /\ bounds' = bounds
  BY DEF KeepingNext, rest3, rest4, rest5, rest6, rest7, rest9, rest10, rest11, rest12, rest14, rest15, rest19
<1>2. ASSUME component = "Settings", NEW b \in SettingsBounds, bounds = b PROVE Settings(b)!SettingsIInv'
  <2>1. Settings(b)!SettingsIInv /\ Settings(b)!PpNext
    BY <1>2 DEF KeepingIInv, KeepingNext
  <2> QED
    BY <2>1, SettingsGoesOn
<1>3. ASSUME component = "Pages", NEW b \in PagesBounds, bounds = b PROVE Pages(b)!PagesIInv'
  <2>1. Pages(b)!PagesIInv /\ Pages(b)!Next /\ "hand" \notin b.releases
    BY <1>3, WorkspaceAssumption DEF KeepingIInv, KeepingNext
  <2> QED
    BY <2>1, PagesGoesOn
<1>4. component = "Transfer" => Transfer!TransferIInv'
  BY TransferGoesOn DEF KeepingIInv, KeepingNext
<1>5. component = "Callback" => Callback!CallbackIInv'
  BY CallbackGoesOn DEF KeepingIInv, KeepingNext
<1>6. component = "Durable" => Durable!DurableIInv'
  BY DurableGoesOn DEF KeepingIInv, KeepingNext
<1>7. component = "Scheduler" => Scheduler!SchedulerIInv'
  BY SchedulerGoesOn DEF KeepingIInv, KeepingNext
<1> QED
  BY <1>1, <1>2, <1>3, <1>4, <1>5, <1>6, <1>7 DEF KeepingIInv

LEMMA KeepingConcludes ==
  KeepingIInv /\ KeepingNext =>
    /\ component = "Callback" => Callback!ConcludesForWhoBegan
    /\ component = "Durable" => Durable!ConfirmedForGood
  BY CallbackForWhoBegan, DurableForGood DEF KeepingIInv, KeepingNext

\* A step that changes nothing keeps what held.
LEMMA TransferStutters ==
  Transfer!TransferIInv /\ UNCHANGED <<x1, x2, x3, x4, x5, x6, x7, x8, x9, x10, x11>> => Transfer!TransferIInv'
BY DEF Transfer!TransferIInv, Transfer!Kinds, Transfer!TypeOK, Transfer!Sound, Transfer!HasItsPart, Transfer!JoinsTheRecorded,
       Transfer!RemovesWhatItSaw, Transfer!JoinedIsRecorded, Transfer!GoneLeavesNothing

LEMMA CallbackStutters ==
  Callback!CallbackIInv /\ UNCHANGED <<x1, x2, x3, x4, x5, x6, x7, x8, x9, x10, x11>> => Callback!CallbackIInv'
BY DEF Callback!CallbackIInv, Callback!Kinds, Callback!Sound, Callback!TakesItsAttempt, Callback!ProvedItsSession,
       Callback!Counted

LEMMA DurableStutters ==
  Durable!DurableIInv /\ UNCHANGED <<x1, x2, x3, x4, x5, x6, x7, x8, x9>> => Durable!DurableIInv'
BY DEF Durable!DurableIInv, Durable!DuKinds, Durable!Sound, Durable!SavesAnew, Durable!ReadsTheRecord, Durable!Agree,
       Durable!SavedIsKept, Durable!RecordsHaveBytes, Durable!FilesAreOwned, Durable!Bytes

LEMMA SchedulerStutters ==
  Scheduler!SchedulerIInv /\ UNCHANGED <<x1, x2, x3, x4, x5, x6>> => Scheduler!SchedulerIInv'
BY DEF Scheduler!SchedulerIInv, Scheduler!Kinds, Scheduler!Past1, Scheduler!DeploymentSound, Scheduler!ManifestSound,
       Scheduler!RunSound, Scheduler!Owned, Scheduler!CronAccounted, Scheduler!Active

LEMMA PagesStutter ==
  ASSUME NEW b, Pages(b)!PagesIInv, UNCHANGED <<x1, x2, x3, x4, x5>> PROVE Pages(b)!PagesIInv'
BY DEF Pages!PagesIInv, Pages!Kinds, Pages!RunKnows, Pages!RunLooks, Pages!InOneOrder, Pages!Seen, Pages!MadeBy,
       Pages!WentWell, Pages!Listed

LEMMA SettingsStutter ==
  ASSUME NEW b, Settings(b)!SettingsIInv, UNCHANGED <<x1, x2, x3, x4, x5, x6, x7, x8, x9, x10, x11, x12>>
  PROVE  Settings(b)!SettingsIInv'
<1> USE DEF Settings!SettingsIInv
<1>1. Settings(b)!PpKinds'
  BY DEF Settings!PpKinds, Settings!Pages, Settings!Readings, Settings!Choices, Settings!Wires, Settings!Prefs, Settings!Values
<1>2. Settings(b)!PageSound(x5)'
  BY DEF Settings!PageSound, Settings!ShowsItsOwn, Settings!SetsAside, Settings!Theirs, Settings!Careful, Settings!BelongTo,
         Settings!Filled
<1>3. Settings(b)!ReadSound(x6)'
  BY DEF Settings!ReadSound, Settings!Careful, Settings!BelongTo
<1>4. \A c \in x9' : Settings(b)!ChoiceSound(c)'
  BY DEF Settings!ChoiceSound, Settings!Theirs
<1>5. \A w \in x8' : Settings(b)!WireSound(w)'
  BY DEF Settings!WireSound, Settings!Careful, Settings!BelongTo, Settings!Filled
<1>6. Settings(b)!RowsSound'
  BY DEF Settings!RowsSound, Settings!Careful, Settings!BelongTo, Settings!Filled
<1>7. Settings(b)!LocalSound'
  BY DEF Settings!LocalSound, Settings!BelongTo, Settings!Saves
<1>8. Settings(b)!EditsOnTheWay'
  BY DEF Settings!EditsOnTheWay, Settings!Saves
<1> QED
  BY <1>1, <1>2, <1>3, <1>4, <1>5, <1>6, <1>7, <1>8

LEMMA KeepingStutters == KeepingIInv /\ UNCHANGED workspacevars => KeepingIInv'
<1> SUFFICES ASSUME KeepingIInv, UNCHANGED workspacevars PROVE KeepingIInv'
  OBVIOUS
<1>1. component' = component /\ bounds' = bounds
  BY DEF workspacevars
<1>2. ASSUME component = "Settings", NEW b \in SettingsBounds, bounds = b PROVE Settings(b)!SettingsIInv'
  <2>1. Settings(b)!SettingsIInv
    BY <1>2 DEF KeepingIInv
  <2> QED
    BY <2>1, SettingsStutter DEF workspacevars
<1>3. ASSUME component = "Pages", NEW b \in PagesBounds, bounds = b PROVE Pages(b)!PagesIInv'
  <2>1. Pages(b)!PagesIInv
    BY <1>3 DEF KeepingIInv
  <2> QED
    BY <2>1, PagesStutter DEF workspacevars
<1> QED
  BY <1>1, <1>2, <1>3, TransferStutters, CallbackStutters, DurableStutters, SchedulerStutters DEF KeepingIInv, workspacevars

-------------------------------------------------------------------------------
\* In every state a component can reach, what it keeps from step to step holds.
THEOREM KeepingIInvHolds == KeepingSpec => []KeepingIInv
<1>1. KeepingIInv /\ [KeepingNext]_workspacevars => KeepingIInv'
  BY KeepingGoesOn, KeepingStutters
<1> QED
  BY KeepingBegins, <1>1, PTL DEF KeepingSpec

\* What was uploaded whole is downloaded whole, a removed transfer leaves no
\* bytes, a saved video can be had again, a sign-in page posted twice changes
\* one thing, and an edit of the usual finish is kept, however many parts,
\* requests, tabs, posts and accounts there are.
THEOREM StoredOnce == KeepingSpec => []StoredWholeAndOnce
<1>1. KeepingIInv => StoredWholeAndOnce
  BY KeepingStands
<1> QED
  BY KeepingIInvHolds, <1>1, PTL

\* No release of the pages replaces another unseen, one that says it was
\* undone is, and no manifest of the scheduler names a deployment its run did
\* not make nor is its Cron lost, however many releases run at once.
THEOREM ReleasesHold == KeepingSpec => []ReleasesAreSafe
<1>1. KeepingIInv => ReleasesAreSafe
  BY KeepingStands
<1> QED
  BY KeepingIInvHolds, <1>1, PTL

\* A link or a step-up by a provider never changes an account other than the
\* one whose live session began it, and no step takes a confirmed video for
\* one that has to be paid.
THEOREM ConcludedForWhoBegan == KeepingSpec => ConcludedAsBegun
<1>1. KeepingIInv /\ [KeepingNext]_workspacevars =>
        [/\ component = "Callback" => Callback!ConcludesForWhoBegan
         /\ component = "Durable" => Durable!ConfirmedForGood]_workspacevars
  BY KeepingConcludes
<1> QED
  BY KeepingIInvHolds, <1>1, PTL DEF KeepingSpec, ConcludedAsBegun
===============================================================================
