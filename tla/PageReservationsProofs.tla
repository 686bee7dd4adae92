------------------------- MODULE PageReservationsProofs ------------------------
(***************************************************************************)
(* What PageReservations promises of the three pages that hold usage       *)
(* reservations, for every value of the constants:                         *)
(* ReservationsAreAccountedFor.  Each page has its inductive invariant in  *)
(* its own module; the section of a page shows that it holds at first      *)
(* (Begins), that every action keeps it (GoesOn) and that it says what the *)
(* run checks (Stands).  The last section puts the pages together.         *)
(*                                                                         *)
(* Most steps change the page and leave the server alone, or the other way *)
(* about: MixDoes, MixServed, EditingTurn and the like say what is left to *)
(* show then.                                                              *)
(*                                                                         *)
(* The editing page's two choices for a silent video are not checked       *)
(* against what the page does meanwhile.  What is known of its runs and    *)
(* exports (EdTidy) is only kept until one goes astray; that every held    *)
(* reservation is accounted for (EdCore) is kept in any case, so every     *)
(* step is shown to keep both apart: EditingGoes.                          *)
(***************************************************************************)
EXTENDS PageReservations, FiniteSetTheorems, FunctionTheorems, SequenceTheorems, TLAPS

-------------------------------------------------------------------------------
(* The page that joins videos (Mix).                                        *)

LEMMA MixIds ==
  ASSUME NEW b, Mix(b)!MixKinds
  PROVE  /\ x1 \in Seq(Mix(b)!Leases) /\ Len(x1) \in Nat /\ DOMAIN x1 = Mix(b)!Keys /\ 0 \notin Mix(b)!Keys
         /\ \A k \in Mix(b)!Keys : /\ k \in Nat /\ k # 0 /\ x1[k] \in Mix(b)!Leases
                                   /\ x1[k].status \in Mix(b)!Statuses /\ x1[k].bucket \in Mix(b)!Buckets
<1>1. x1 \in Seq(Mix(b)!Leases)
  BY DEF Mix!MixKinds
<1>2. Len(x1) \in Nat /\ DOMAIN x1 = 1 .. Len(x1)
  BY <1>1, LenProperties
<1>3. \A k \in 1 .. Len(x1) : x1[k] \in Mix(b)!Leases
  BY <1>1, ElementOfSeq
<1>4. \A k \in 1 .. Len(x1) : x1[k].status \in Mix(b)!Statuses /\ x1[k].bucket \in Mix(b)!Buckets
  BY <1>3 DEF Mix!Leases
<1>5. \A k \in 1 .. Len(x1) : k \in Nat /\ k # 0
  BY <1>2
<1> QED
  BY <1>1, <1>2, <1>3, <1>4, <1>5 DEF Mix!Keys

LEMMA MixPage ==
  ASSUME NEW b, Mix(b)!MixKinds
  PROVE  /\ x2 \in Mix(b)!Shown /\ x2.mounted \in BOOLEAN /\ x2.active \in Mix(b)!Keys \cup {0} /\ x2.key \in Mix(b)!Keys \cup {0}
         /\ x2.pending \in Mix(b)!Keys \cup {0} /\ x2.invalid \in BOOLEAN /\ x2.bucket \in Mix(b)!Buckets \cup {"none"}
         /\ x4 \in Mix(b)!Works /\ x4.own \in Mix(b)!Keys \cup {0} /\ x4.pc \in Mix(b)!Places /\ x4.aborted \in BOOLEAN
         /\ x4.kind \in {"none", "ai", "export", "retry", "discard"}
         /\ x5 \subseteq Mix(b)!Keys /\ x9 \subseteq Mix(b)!Keys /\ x10 \subseteq Mix(b)!Keys /\ DOMAIN x6 \subseteq Mix(b)!Keys
<1>1. x2 \in Mix(b)!Shown /\ x4 \in Mix(b)!Works /\ x5 \subseteq Mix(b)!Keys /\ x9 \subseteq Mix(b)!Keys /\ x10 \subseteq Mix(b)!Keys
      /\ DOMAIN x6 \subseteq Mix(b)!Keys
  BY DEF Mix!MixKinds
<1> QED
  BY <1>1 DEF Mix!Shown, Mix!Works

LEMMA MixLine ==
  ASSUME NEW b, Mix(b)!MixKinds
  PROVE  /\ x3 \in Seq(Mix(b)!Ops) /\ Len(x3) \in Nat /\ DOMAIN x3 = 1 .. Len(x3)
         /\ \A i \in DOMAIN x3 : x3[i] \in Mix(b)!Ops
         /\ x3 # <<>> => 1 \in DOMAIN x3 /\ Len(x3) > 0
<1>1. x3 \in Seq(Mix(b)!Ops)
  BY DEF Mix!MixKinds
<1>2. Len(x3) \in Nat /\ DOMAIN x3 = 1 .. Len(x3)
  BY <1>1, LenProperties
<1>3. \A i \in 1 .. Len(x3) : x3[i] \in Mix(b)!Ops
  BY <1>1, ElementOfSeq
<1>4. x3 # <<>> => Len(x3) # 0
  BY <1>1, EmptySeq
<1>5. x3 # <<>> => 1 \in 1 .. Len(x3) /\ Len(x3) > 0
  BY <1>2, <1>4
<1> QED
  BY <1>1, <1>2, <1>3, <1>5

LEMMA MixHead ==
  ASSUME NEW b, Mix(b)!MixIInv, x3 # <<>>
  PROVE  /\ 1 \in DOMAIN x3 /\ x3[1] \in Mix(b)!Ops /\ Mix(b)!HeadSound(x3[1]) /\ Mix(b)!Queued(x3[1])
         /\ x3[1].op \in {"ensure", "release", "letgo", "complete"} /\ x3[1].at \in Mix(b)!Labels
         /\ x3[1].id \in Mix(b)!Keys \cup {0} /\ x3[1].mine \in BOOLEAN /\ x3[1].answer \in Mix(b)!Statuses \cup {"refused"}
<1>1. 1 \in DOMAIN x3 /\ x3[1] \in Mix(b)!Ops
  BY MixLine DEF Mix!MixIInv
<1>2. Mix(b)!HeadSound(x3[1]) /\ Mix(b)!Queued(x3[1])
  BY <1>1 DEF Mix!MixIInv, Mix!LineSound
<1> QED
  BY <1>1, <1>2 DEF Mix!Ops

\* What waits has asked nothing.
LEMMA MixWaits ==
  ASSUME NEW b, NEW o, o.at = "start", o.answer = "none", o.op \in {"ensure", "release", "letgo", "complete"}
  PROVE  Mix(b)!HeadSound(o) /\ Mix(b)!HeadSound(o)'
<1>1. Mix(b)!HeadSound(o)
  BY DEF Mix!HeadSound, Mix!Looks, Mix!Drops
<1>2. Mix(b)!HeadSound(o)'
  BY DEF Mix!HeadSound, Mix!Looks, Mix!Drops
<1> QED
  BY <1>1, <1>2

\* The first of line ends.
LEMMA MixEnds ==
  ASSUME NEW b, Mix(b)!MixIInv, x3 # <<>>, NEW ok \in BOOLEAN, NEW id \in Mix(b)!Keys \cup {0}, Mix(b)!Ends(ok, id), x1' = x1
  PROVE  /\ x3' \in Seq(Mix(b)!Ops)' /\ Mix(b)!LineSound' /\ x4' \in Mix(b)!Works'
         /\ ~x3[1].mine => x4' = x4
         /\ x3[1].mine => /\ x4'.kind = x4.kind /\ x4'.aborted = x4.aborted
                          /\ x4'.own = (IF ok /\ x3[1].op = "ensure" THEN id ELSE x4.own)
                          /\ x3[1].op = "ensure" => x4'.pc = IF ok THEN "ensured" ELSE "ensurex"
                          /\ x3[1].op = "letgo" => x4'.pc = IF ok THEN "letgod" ELSE "letgox"
                          /\ x3[1].op = "complete" => x4'.pc = IF ok THEN "finald" ELSE "finalx"
<1> USE DEF Mix!MixIInv
<1>1. PICK h : h = x3[1]
  OBVIOUS
<1>2. /\ h \in Mix(b)!Ops /\ Mix(b)!Queued(h) /\ h.op \in {"ensure", "release", "letgo", "complete"} /\ (h.mine <=> h.op # "release")
  BY <1>1, MixHead DEF Mix!Queued
<1>3. x3' = Tail(x3) /\ Mix(b)!Ops' = Mix(b)!Ops /\ Mix(b)!Works' = Mix(b)!Works
  BY DEF Mix!Ends, Mix!Ops, Mix!Works, Mix!Keys
<1>4. /\ x3' \in Seq(Mix(b)!Ops) /\ DOMAIN x3' = 1 .. Len(x3')
      /\ \A i \in DOMAIN x3' : i + 1 \in DOMAIN x3 /\ i + 1 # 1 /\ x3'[i] = x3[i + 1]
  <2>1. x3 \in Seq(Mix(b)!Ops) /\ Len(x3) \in Nat /\ DOMAIN x3 = 1 .. Len(x3) /\ Len(x3) > 0
    BY MixLine
  <2>2. x3' \in Seq(Mix(b)!Ops) /\ Len(x3') = Len(x3) - 1 /\ \A i \in 1 .. Len(x3') : x3'[i] = x3[i + 1]
    BY <1>3, <2>1, HeadTailProperties
  <2>3. DOMAIN x3' = 1 .. Len(x3')
    BY <2>2, LenProperties
  <2>4. \A i \in 1 .. Len(x3') : i + 1 \in 1 .. Len(x3) /\ i + 1 # 1
    BY <2>1, <2>2
  <2> QED
    BY <2>1, <2>2, <2>3, <2>4
<1>5. /\ x4' \in Mix(b)!Works
      /\ ~h.mine => x4' = x4
      /\ h.mine => /\ x4'.kind = x4.kind /\ x4'.aborted = x4.aborted
                   /\ x4'.own = (IF ok /\ h.op = "ensure" THEN id ELSE x4.own)
                   /\ h.op = "ensure" => x4'.pc = IF ok THEN "ensured" ELSE "ensurex"
                   /\ h.op = "letgo" => x4'.pc = IF ok THEN "letgod" ELSE "letgox"
                   /\ h.op = "complete" => x4'.pc = IF ok THEN "finald" ELSE "finalx"
  <2>1. x4 \in Mix(b)!Works
    BY MixPage
  <2>2. CASE ~h.mine
    BY <1>1, <2>1, <2>2 DEF Mix!Ends, Mix!Head1
  <2>3. CASE h.mine
    <3>1. PICK pc \in Mix(b)!Places : pc = (IF ok THEN Mix(b)!Done ELSE Mix(b)!Failed)[h.op]
      BY <1>2, <2>3 DEF Mix!Done, Mix!Failed, Mix!Places
    <3>2. /\ h.op = "ensure" => pc = IF ok THEN "ensured" ELSE "ensurex"
          /\ h.op = "letgo" => pc = IF ok THEN "letgod" ELSE "letgox"
          /\ h.op = "complete" => pc = IF ok THEN "finald" ELSE "finalx"
      BY <3>1 DEF Mix!Done, Mix!Failed
    <3>3. PICK own \in Mix(b)!Keys \cup {0} : own = IF ok /\ h.op = "ensure" THEN id ELSE x4.own
      BY MixPage
    <3>4. x4' = [x4 EXCEPT !.pc = pc, !.own = own]
      BY <1>1, <2>3, <3>1, <3>3 DEF Mix!Ends, Mix!Head1
    <3> QED
      BY <2>1, <2>3, <3>2, <3>3, <3>4 DEF Mix!Works
  <2> QED
    BY <2>2, <2>3
<1>6. ASSUME NEW i \in DOMAIN x3', NEW o, o = x3'[i]
      PROVE  /\ Mix(b)!Queued(o)' /\ o.at = "start" /\ o.answer = "none" /\ o.op \in {"ensure", "release", "letgo", "complete"}
  <2>1. /\ i + 1 \in DOMAIN x3 /\ o = x3[i + 1] /\ i + 1 # 1
    BY <1>4, <1>6
  <2>2. Mix(b)!Queued(o) /\ o.at = "start" /\ o.answer = "none" /\ o \in Mix(b)!Ops
    BY <2>1, MixLine DEF Mix!LineSound
  <2>3. h.mine => ~o.mine
    BY <1>1, <2>1, MixHead DEF Mix!LineSound
  <2>4. CASE h.mine
    BY <2>2, <2>3, <2>4 DEF Mix!Queued, Mix!Ops
  <2>5. CASE ~h.mine
    BY <1>5, <2>2, <2>5 DEF Mix!Queued, Mix!Ops
  <2> QED
    BY <2>4, <2>5
<1>7. ASSUME NEW i \in DOMAIN x3', NEW j \in DOMAIN x3', x3'[i].mine, x3'[j].mine PROVE i = j
  <2>1. i \in Nat /\ j \in Nat /\ i + 1 = j + 1
    BY <1>4, <1>7 DEF Mix!LineSound
  <2> QED
    BY <2>1
<1>8. x3' # <<>> => 1 \in DOMAIN x3'
  <2>1. Len(x3') \in Nat /\ (x3' # <<>> => Len(x3') # 0)
    BY <1>4, EmptySeq, LenProperties
  <2>2. x3' # <<>> => 1 \in 1 .. Len(x3')
    BY <2>1
  <2> QED
    BY <1>4, <2>2
<1>9. ASSUME x3' # <<>>, NEW o, o = x3'[1] PROVE Mix(b)!HeadSound(o)'
  BY <1>6, <1>8, <1>9, MixWaits
<1>10. Mix(b)!LineSound'
  BY <1>6, <1>7, <1>9 DEF Mix!LineSound
<1> QED
  BY <1>1, <1>3, <1>4, <1>5, <1>10

\* What the first of line rests on, after a step that doesn't concern it.
LEMMA MixHeadKept ==
  ASSUME NEW b, Mix(b)!MixIInv, x3 # <<>>, NEW o, o = x3[1],
         o.op = "ensure" => x2'.active = x2.active /\ x2'.key = x2.key,
         Mix(b)!Keys \subseteq Mix(b)!Keys',
         \A k \in Mix(b)!Keys : /\ x1[k].status \notin {"none", "intent"} => x1'[k].status \notin {"none", "intent"}
                                /\ x1[k].status = "intent" => x1'[k].status # "none"
                                /\ x1[k].status = "completed" => x1'[k].status = "completed",
         o.id \in Mix(b)!Keys /\ o.at \in Mix(b)!Looks /\ o.id \in {x2.key} \cup x9
            => x1'[o.id].status # "none" \/ o.id \in {x2'.key} \cup x9',
         o.id \in Mix(b)!Keys /\ o.op \in {"ensure", "release"} /\ x1'[o.id].status = "held"
            => \/ x1[o.id].status = "held" /\ (o.id = x2.pending => o.id = x2'.pending)
               \/ o.op = "release" /\ o.id = x2'.pending,
         o.id \in Mix(b)!Keys /\ o.op = "letgo" /\ x1[o.id].status = "released" => x1'[o.id].status = "released"
  PROVE  Mix(b)!HeadSound(o)'
<1>1. /\ Mix(b)!HeadSound(o) /\ o.op \in {"ensure", "release", "letgo", "complete"} /\ o.id \in Mix(b)!Keys \cup {0}
      /\ 0 \notin Mix(b)!Keys /\ Mix(b)!Queued(o)
  BY MixHead, MixIds DEF Mix!MixIInv
<1>2. /\ o.op = "ensure" => o.at \in {"start", "fresh", "renew", "swap"} \cup Mix(b)!Looks \cup Mix(b)!Drops
      /\ o.op = "release" => o.at \in {"start", "drop", "recover", "recovered"}
      /\ o.op \in {"letgo", "complete"} => o.at \in {"start", o.op}
      /\ o.at \in {"start", "fresh"} => o.answer = "none"
      /\ o.op = "ensure" /\ o.at \in {"drop", "swap", "renew"} => o.id = x2'.active
      /\ o.op = "ensure" /\ o.at \in Mix(b)!Looks \cup {"recovered", "handback"} => o.id = x2'.key /\ x2'.active = 0
  BY <1>1 DEF Mix!HeadSound
<1>3. Mix(b)!Real(o.id) => Mix(b)!Real(o.id)'
  BY <1>1 DEF Mix!Real
<1>4. /\ o.at \in Mix(b)!Drops \cup {"renew"} => Mix(b)!Real(o.id)'
      /\ o.at \in Mix(b)!Looks => o.id \in Mix(b)!Keys'
      /\ o.at \in Mix(b)!Looks /\ o.answer # "none" => Mix(b)!Real(o.id)'
  BY <1>1, <1>3 DEF Mix!HeadSound
<1>5. ASSUME o.at \in Mix(b)!Looks, o.answer = "none"
      PROVE  Mix(b)!Real(o.id)' \/ x1'[o.id].status = "intent" \/ o.id \in {x2'.key} \cup x9'
  BY <1>1, <1>3, <1>5 DEF Mix!HeadSound, Mix!Real
<1>6. ASSUME o.at \in Mix(b)!Drops, o.answer \notin {"none", "refused"}, Mix(b)!Held(o.id)'
      PROVE  o.op = "release" /\ o.id = x2'.pending
  <2>1. o.id \in Mix(b)!Keys /\ o.op \in {"ensure", "release"} /\ x1'[o.id].status = "held"
    BY <1>1, <1>6 DEF Mix!Held, Mix!HeadSound, Mix!Drops, Mix!Real
  <2>2. x1[o.id].status = "held" => o.op = "release" /\ o.id = x2.pending
    BY <1>1, <1>6, <2>1 DEF Mix!Held, Mix!HeadSound
  <2> QED
    BY <2>1, <2>2
<1>7. o.at = "letgo" /\ o.answer \notin {"none", "refused"} => x1'[o.id].status = "released"
  <2>1. ASSUME o.at = "letgo", o.answer \notin {"none", "refused"} PROVE x1'[o.id].status = "released"
    <3>1. o.op = "letgo" /\ x1[o.id].status = "released"
      BY <1>1, <2>1 DEF Mix!HeadSound, Mix!Looks, Mix!Drops
    <3>2. o.id \in Mix(b)!Keys
      BY <1>1, <3>1, MixPage DEF Mix!Queued, Mix!MixIInv, Mix!WorkSound
    <3> QED
      BY <3>1, <3>2
  <2> QED
    BY <2>1
<1>8. ASSUME x1[o.id].status = "completed", o.at \in {"renew", "reserve", "complete"} PROVE x1'[o.id].status = "completed"
  <2>1. o.op = "complete" \/ o.id \in Mix(b)!Keys
    BY <1>1, <1>8 DEF Mix!HeadSound, Mix!Looks, Mix!Drops, Mix!Real
  <2>2. o.op = "complete" => o.id \in Mix(b)!Keys
    BY <1>1, MixPage DEF Mix!Queued, Mix!MixIInv, Mix!WorkSound
  <2> QED
    BY <1>8, <2>1, <2>2
<1>9. /\ o.at \in {"renew", "reserve"} /\ o.answer = "completed" => x1'[o.id].status = "completed"
      /\ o.at = "complete" /\ o.answer \notin {"none", "refused"} => x1'[o.id].status = "completed"
  BY <1>1, <1>8 DEF Mix!HeadSound
<1> QED
  BY <1>2, <1>4, <1>5, <1>6, <1>7, <1>9 DEF Mix!HeadSound

\* The same where no reservation changes.
LEMMA MixHeadStays ==
  ASSUME NEW b, Mix(b)!MixIInv, x3 # <<>>, NEW o, o = x3[1], x1' = x1,
         o.op = "ensure" => x2'.active = x2.active /\ x2'.key = x2.key,
         o.id \in Mix(b)!Keys /\ o.at \in Mix(b)!Looks /\ o.id \in {x2.key} \cup x9
            => x1[o.id].status # "none" \/ o.id \in {x2'.key} \cup x9',
         o.id # 0 /\ o.id = x2.pending /\ x1[o.id].status = "held" => o.id = x2'.pending
  PROVE  Mix(b)!HeadSound(o)'
<1>1. Mix(b)!Keys' = Mix(b)!Keys /\ 0 \notin Mix(b)!Keys
  BY MixIds DEF Mix!Keys, Mix!MixIInv
<1> QED
  BY <1>1, MixHeadKept

\* The line as it is, with another at its end or none.
LEMMA MixLineKept ==
  ASSUME NEW b, Mix(b)!MixIInv, Mix(b)!Ops \subseteq Mix(b)!Ops', x3' = x3,
         (x4'.pc = x4.pc /\ x4'.own = x4.own) \/ x4.pc \notin {"ensure", "letgo", "final"},
         \A o : x3 # <<>> /\ o = x3[1] => Mix(b)!HeadSound(o)'
  PROVE  x3' \in Seq(Mix(b)!Ops)' /\ Mix(b)!LineSound'
<1>1. x3 \in Seq(Mix(b)!Ops) /\ \A i \in DOMAIN x3 : x3[i] \in Mix(b)!Ops /\ x3[i].op \in {"ensure", "release", "letgo", "complete"}
  BY MixLine DEF Mix!MixIInv, Mix!Ops
<1>2. x3' \in Seq(Mix(b)!Ops)'
  BY <1>1, ElementOfSeq, LenProperties, SeqDef
<1>3. ASSUME NEW i \in DOMAIN x3', NEW o, o = x3'[i] PROVE Mix(b)!Queued(o)'
  <2>1. Mix(b)!Queued(o) /\ o.op \in {"ensure", "release", "letgo", "complete"}
    BY <1>1, <1>3 DEF Mix!LineSound, Mix!MixIInv
  <2> QED
    BY <2>1 DEF Mix!Queued
<1>4. ASSUME x3' # <<>>, NEW o, o = x3'[1] PROVE Mix(b)!HeadSound(o)'
  BY <1>4
<1>5. Mix(b)!LineSound'
  BY <1>3, <1>4 DEF Mix!LineSound, Mix!MixIInv
<1> QED
  BY <1>2, <1>5

LEMMA MixLineGrows ==
  ASSUME NEW b, Mix(b)!MixIInv, Mix(b)!Ops \subseteq Mix(b)!Ops',
         NEW q \in Mix(b)!Ops', q.at = "start", q.answer = "none", Mix(b)!Queued(q)', x3' = Append(x3, q),
         (x4'.pc = x4.pc /\ x4'.own = x4.own /\ ~q.mine) \/ x4.pc \notin {"ensure", "letgo", "final"},
         \A o : x3 # <<>> /\ o = x3[1] => Mix(b)!HeadSound(o)'
  PROVE  x3' \in Seq(Mix(b)!Ops)' /\ Mix(b)!LineSound'
<1>1. /\ x3 \in Seq(Mix(b)!Ops) /\ Len(x3) \in Nat /\ DOMAIN x3 = 1 .. Len(x3)
      /\ \A i \in DOMAIN x3 : x3[i] \in Mix(b)!Ops /\ x3[i].op \in {"ensure", "release", "letgo", "complete"}
      /\ (x3 # <<>> => 1 \in DOMAIN x3)
  BY MixLine DEF Mix!MixIInv, Mix!Ops
<1>2. x3 \in Seq(Mix(b)!Ops')
  BY <1>1, ElementOfSeq, LenProperties, SeqDef
<1>3. x3' \in Seq(Mix(b)!Ops') /\ Len(x3') = Len(x3) + 1 /\ x3'[Len(x3) + 1] = q /\ \A i \in 1 .. Len(x3) : x3'[i] = x3[i]
  BY <1>2, AppendProperties
<1>4. DOMAIN x3' = 1 .. Len(x3')
  BY <1>3, LenProperties
<1>5. \A i \in DOMAIN x3' : (i \in DOMAIN x3 /\ x3'[i] = x3[i]) \/ (i = Len(x3) + 1 /\ x3'[i] = q)
  BY <1>1, <1>3, <1>4
<1>6. \A i \in DOMAIN x3 : x3[i].mine => x4.pc \in {"ensure", "letgo", "final"}
  BY <1>1 DEF Mix!LineSound, Mix!MixIInv, Mix!Queued
<1>7. ASSUME NEW i \in DOMAIN x3', NEW o, o = x3'[i]
      PROVE  Mix(b)!Queued(o)' /\ (i # 1 => o.at = "start" /\ o.answer = "none")
  <2>1. CASE i \in DOMAIN x3 /\ o = x3[i]
    <3>1. Mix(b)!Queued(o) /\ o.op \in {"ensure", "release", "letgo", "complete"} /\ (i # 1 => o.at = "start" /\ o.answer = "none")
      BY <1>1, <2>1 DEF Mix!LineSound, Mix!MixIInv
    <3> QED
      BY <3>1 DEF Mix!Queued
  <2>2. CASE o = q
    BY <2>2
  <2> QED
    BY <1>5, <1>7, <2>1, <2>2
<1>8. ASSUME NEW i \in DOMAIN x3', NEW j \in DOMAIN x3', x3'[i].mine, x3'[j].mine PROVE i = j
  <2>1. CASE i \in DOMAIN x3 /\ j \in DOMAIN x3 /\ x3'[i] = x3[i] /\ x3'[j] = x3[j]
    BY <1>8, <2>1 DEF Mix!LineSound, Mix!MixIInv
  <2>2. CASE ~(i \in DOMAIN x3 /\ j \in DOMAIN x3 /\ x3'[i] = x3[i] /\ x3'[j] = x3[j])
    <3>1. q.mine
      BY <1>5, <1>8, <2>2
    <3>2. \A n \in DOMAIN x3 : ~x3[n].mine
      BY <1>6, <3>1
    <3>3. i = Len(x3) + 1 /\ j = Len(x3) + 1
      BY <1>5, <1>8, <3>2
    <3> QED
      BY <3>3
  <2> QED
    BY <2>1, <2>2
<1>9. ASSUME x3' # <<>>, NEW o, o = x3'[1] PROVE Mix(b)!HeadSound(o)'
  <2>1. CASE x3 # <<>>
    BY <1>1, <1>5, <1>9, <2>1, <1>3
  <2>2. CASE x3 = <<>>
    <3>1. Len(x3) = 0
      BY <2>2
    <3>2. o = q
      BY <1>3, <1>9, <3>1
    <3>3. q.op \in {"ensure", "release", "letgo", "complete"}
      BY DEF Mix!Ops
    <3> QED
      BY <3>2, <3>3, MixWaits
  <2> QED
    BY <2>1, <2>2
<1>10. Mix(b)!LineSound'
  BY <1>7, <1>8, <1>9 DEF Mix!LineSound
<1> QED
  BY <1>3, <1>10

\* withReservationLock(releaseActiveReservationLocked), unless one waits.
LEMMA MixLineReleases ==
  ASSUME NEW b, Mix(b)!MixIInv, Mix(b)!Ops \subseteq Mix(b)!Ops', x3' = Mix(b)!WithRelease(x3),
         (x4'.pc = x4.pc /\ x4'.own = x4.own) \/ x4.pc \notin {"ensure", "letgo", "final"},
         \A o : x3 # <<>> /\ o = x3[1] => Mix(b)!HeadSound(o)'
  PROVE  x3' \in Seq(Mix(b)!Ops)' /\ Mix(b)!LineSound'
<1>1. PICK q : q = Mix(b)!Op("release", 0, FALSE)
  OBVIOUS
<1>2. q \in Mix(b)!Ops /\ q.at = "start" /\ q.answer = "none" /\ ~q.mine /\ q.op = "release"
  BY <1>1 DEF Mix!Op, Mix!Ops, Mix!Labels, Mix!Statuses
<1>3. Mix(b)!Queued(q)'
  BY <1>2 DEF Mix!Queued
<1>4. x3' = x3 \/ x3' = Append(x3, q)
  BY <1>1 DEF Mix!WithRelease
<1>5. CASE x3' = x3
  BY <1>5, MixLineKept
<1>6. CASE x3' = Append(x3, q)
  BY <1>2, <1>3, <1>6, MixLineGrows
<1> QED
  BY <1>4, <1>5, <1>6

\* The first of line asks, or learns, and the others wait.
LEMMA MixLineTurns ==
  ASSUME NEW b, Mix(b)!MixIInv, x3 # <<>>, Mix(b)!Ops \subseteq Mix(b)!Ops', x4' = x4,
         NEW h, h = x3[1], NEW k \in Mix(b)!Ops', k.op = h.op, k.mine = h.mine,
         h.op \in {"ensure", "release"} \/ k.id = h.id,
         x3' = [x3 EXCEPT ![1] = k], Mix(b)!HeadSound(k)'
  PROVE  x3' \in Seq(Mix(b)!Ops)' /\ Mix(b)!LineSound'
<1>1. /\ x3 \in Seq(Mix(b)!Ops) /\ Len(x3) \in Nat /\ DOMAIN x3 = 1 .. Len(x3) /\ 1 \in DOMAIN x3
      /\ \A i \in DOMAIN x3 : x3[i] \in Mix(b)!Ops /\ x3[i].op \in {"ensure", "release", "letgo", "complete"}
  BY MixLine DEF Mix!MixIInv, Mix!Ops
<1>2. x3 \in Seq(Mix(b)!Ops')
  BY <1>1, ElementOfSeq, LenProperties, SeqDef
<1>3. x3' \in Seq(Mix(b)!Ops') /\ DOMAIN x3' = DOMAIN x3 /\ x3'[1] = k /\ \A i \in DOMAIN x3 : i # 1 => x3'[i] = x3[i]
  <2>1. PICK T : T = Mix(b)!Ops'
    OBVIOUS
  <2>2. x3 \in Seq(T) /\ k \in T /\ 1 \in 1 .. Len(x3)
    BY <1>1, <1>2, <2>1
  <2>3. PICK y : y = [x3 EXCEPT ![1] = k]
    OBVIOUS
  <2>4. y \in Seq(T) /\ Len(y) = Len(x3) /\ \A j \in 1 .. Len(x3) : y[j] = IF j = 1 THEN k ELSE x3[j]
    BY <2>2, <2>3, ExceptSeq
  <2>5. DOMAIN y = DOMAIN x3
    BY <1>1, <2>4, LenProperties
  <2> QED
    BY <1>1, <2>1, <2>3, <2>4, <2>5
<1>4. Mix(b)!Queued(k)'
  BY <1>1 DEF Mix!Queued, Mix!LineSound, Mix!MixIInv
<1>5. ASSUME NEW i \in DOMAIN x3', NEW o, o = x3'[i]
      PROVE  Mix(b)!Queued(o)' /\ (i # 1 => o.at = "start" /\ o.answer = "none")
  <2>1. CASE i # 1
    <3>1. o = x3[i] /\ i \in DOMAIN x3
      BY <1>3, <1>5, <2>1
    <3>2. Mix(b)!Queued(o) /\ o.at = "start" /\ o.answer = "none" /\ o.op \in {"ensure", "release", "letgo", "complete"}
      BY <1>1, <2>1, <3>1 DEF Mix!LineSound, Mix!MixIInv
    <3> QED
      BY <3>2 DEF Mix!Queued
  <2>2. CASE i = 1
    BY <1>3, <1>4, <1>5, <2>2
  <2> QED
    BY <2>1, <2>2
<1>6. \A i \in DOMAIN x3' : x3'[i].mine = x3[i].mine /\ i \in DOMAIN x3
  BY <1>3
<1>7. ASSUME x3' # <<>>, NEW o, o = x3'[1] PROVE Mix(b)!HeadSound(o)'
  BY <1>3, <1>7
<1>8. Mix(b)!LineSound'
  BY <1>5, <1>6, <1>7 DEF Mix!LineSound, Mix!MixIInv
<1> QED
  BY <1>3, <1>8

LEMMA MixLineAsks ==
  ASSUME NEW b, Mix(b)!MixIInv, x3 # <<>>, Mix(b)!Ops \subseteq Mix(b)!Ops', x4' = x4,
         NEW at \in Mix(b)!Labels, NEW id \in Mix(b)!Keys' \cup {0}, Mix(b)!Asks(at, id),
         x3[1].op \in {"ensure", "release"} \/ id = x3[1].id,
         \A o : /\ o.op = x3[1].op /\ o.mine = x3[1].mine /\ o.at = at /\ o.id = id /\ o.answer = "none"
                => Mix(b)!HeadSound(o)'
  PROVE  x3' \in Seq(Mix(b)!Ops)' /\ Mix(b)!LineSound'
<1>1. PICK h : h = x3[1]
  OBVIOUS
<1>2. h \in Mix(b)!Ops' /\ 1 \in DOMAIN x3
  BY <1>1, MixLine DEF Mix!MixIInv
<1>3. PICK k : k = [h EXCEPT !.at = at, !.id = id, !.answer = "none"]
  OBVIOUS
<1>4. k \in Mix(b)!Ops' /\ k.op = h.op /\ k.mine = h.mine /\ k.at = at /\ k.id = id /\ k.answer = "none"
  BY <1>2, <1>3 DEF Mix!Ops, Mix!Statuses, Mix!Labels
<1>5. x3' = [x3 EXCEPT ![1] = k]
  BY <1>1, <1>2, <1>3 DEF Mix!Asks
<1>6. Mix(b)!HeadSound(k)'
  BY <1>1, <1>4
<1> QED
  BY <1>1, <1>4, <1>5, <1>6, MixLineTurns

LEMMA MixSame ==
  ASSUME NEW b, x1' = x1
  PROVE  /\ Mix(b)!Keys' = Mix(b)!Keys /\ Mix(b)!Leases' = Mix(b)!Leases /\ Mix(b)!Shown' = Mix(b)!Shown
         /\ Mix(b)!Works' = Mix(b)!Works /\ Mix(b)!Ops' = Mix(b)!Ops
  BY DEF Mix!Keys, Mix!Leases, Mix!Statuses, Mix!Buckets, Mix!Shown, Mix!Works, Mix!Places, Mix!Ops, Mix!Labels

\* How the work goes on when the first of line ends.
MixLearns(b) ==
  \/ x4' = x4
  \/ /\ x4.pc = "ensure" /\ x4'.pc = "ensured" /\ x4'.own = x2'.active /\ x4'.own # 0
     /\ Mix(b)!Real(x2'.active) /\ x2'.key \in {0, x2'.active} \cup x9
  \/ /\ x4'.own = x4.own
     /\ \/ x4.pc = "ensure" /\ x4'.pc = "ensurex"
        \/ x4.pc = "letgo" /\ x4'.pc \in {"letgod", "letgox"} /\ (x4'.pc = "letgod" => x1[x4.own].status = "released")
        \/ x4.pc = "final" /\ x4'.pc \in {"finald", "finalx"} /\ (x4'.pc = "finald" => x1[x4.own].status = "completed")

\* A step of the line that changes no reservation.
LEMMA MixTurn ==
  ASSUME NEW b, Mix(b)!MixIInv, UNCHANGED <<x1, x5, x6, x9, x10>>,
         x2' \in Mix(b)!Shown, x2'.pending = x2.pending,
         x3' \in Seq(Mix(b)!Ops)', Mix(b)!LineSound',
         x4' \in Mix(b)!Works, x4'.kind = x4.kind, MixLearns(b),
         \/ x4.pc = "ensure" /\ x4'.pc = "ensured"
         \/ x2'.active \in {0, x2.active, x4.own} /\ x2'.key \in {0, x2.key},
         \A k \in {x2.active, x2.key} : k \in Mix(b)!Keys /\ x1[k].status = "held"
            => \/ k \in {x2'.active, x2'.key, x2.pending} \cup x5 \cup x9
               \/ k = x4'.own /\ x4'.pc \in {"final", "finalx"}
  PROVE  Mix(b)!MixIInv'
<1> USE DEF Mix!MixIInv
<1>1. /\ x4 \in Mix(b)!Works /\ x4.own \in Mix(b)!Keys \cup {0} /\ 0 \notin Mix(b)!Keys
      /\ x2'.active \in Mix(b)!Keys \cup {0} /\ x2'.key \in Mix(b)!Keys \cup {0}
      /\ x4'.own \in Mix(b)!Keys \cup {0}
  BY MixPage, MixIds DEF Mix!Shown, Mix!Works
<1>2. /\ Mix(b)!Keys' = Mix(b)!Keys /\ Mix(b)!Leases' = Mix(b)!Leases /\ Mix(b)!Shown' = Mix(b)!Shown
      /\ Mix(b)!Works' = Mix(b)!Works /\ Mix(b)!Ops' = Mix(b)!Ops
  BY MixSame
<1>3. Mix(b)!MixKinds'
  BY <1>2 DEF Mix!MixKinds
<1>4. /\ x4.pc \in {"idle", "ensure", "ensurex"} <=> x4.own = 0
      /\ x4.pc = "idle" <=> x4 = Mix(b)!Nothing
      /\ x4.kind = "none" => x4.pc = "idle"
      /\ x4.kind = "ai" => x4.pc \in {"ensure", "ensured", "ensurex"}
      /\ x4.pc \in {"encode", "saved"} => x4.kind = "export"
      /\ x4.pc = "again" => x4.kind = "retry"
      /\ x4.kind \in {"retry", "discard"} => x4.own = x2.pending /\ x4.pc \notin {"idle", "ensure", "ensured", "ensurex"}
      /\ x4.kind \in {"ai", "export"} => x2.pending = 0
  BY DEF Mix!WorkSound
<1>5. x4' # x4 => x4'.pc # "idle" /\ x4' # Mix(b)!Nothing /\ x4.pc # "idle"
  BY DEF MixLearns, Mix!Nothing
<1>6. Mix(b)!WorkSound'
  <2>1. x4'.pc = "idle" <=> x4' = Mix(b)!Nothing'
    BY <1>4, <1>5 DEF Mix!Nothing
  <2>2. x4'.own = 0 <=> x4'.pc \in {"idle", "ensure", "ensurex"}
    BY <1>4 DEF MixLearns
  <2>3. /\ x4'.kind = "none" => x4'.pc = "idle"
        /\ x4'.kind = "ai" => x4'.pc \in {"ensure", "ensured", "ensurex"}
        /\ x4'.pc \in {"encode", "saved"} => x4'.kind = "export"
        /\ x4'.pc = "again" => x4'.kind = "retry"
    BY <1>4 DEF MixLearns
  <2>4. x4'.kind \in {"retry", "discard"} => x4'.own = x2'.pending /\ x4'.pc \notin {"idle", "ensure", "ensured", "ensurex"}
    BY <1>4 DEF MixLearns
  <2> QED
    BY <1>4, <2>1, <2>2, <2>3, <2>4 DEF Mix!WorkSound
<1>7. /\ \A k \in {x2.active, x2.pending, x4.own} \ {0} : Mix(b)!Real(k)
      /\ \A j, k \in {x2.active, x2.pending, x4.own} \ {0} : j = k /\ x2.key \in {0, k} \cup x9
  BY DEF Mix!OneInUse, Mix!InUse, Mix!LeaseSound
<1>8. /\ \A k \in {x2'.active, x2'.pending, x4'.own} \ {0} : Mix(b)!Real(k)
      /\ \A j, k \in {x2'.active, x2'.pending, x4'.own} \ {0} : j = k /\ x2'.key \in {0, k} \cup x9
  <2>1. CASE x4.pc = "ensure" /\ x4'.pc = "ensured"
    <3>1. x4.kind \notin {"retry", "discard", "none"}
      BY <1>1, <1>4, <2>1 DEF Mix!Nothing, Mix!Works
    <3>2. x2'.pending = 0
      BY <1>1, <1>4, <3>1 DEF Mix!Works
    <3>3. /\ x4'.own = x2'.active /\ x4'.own # 0 /\ Mix(b)!Real(x2'.active) /\ x2'.key \in {0, x2'.active} \cup x9
      BY <2>1 DEF MixLearns
    <3> QED
      BY <3>2, <3>3
  <2>2. CASE ~(x4.pc = "ensure" /\ x4'.pc = "ensured")
    <3>1. x4'.own = x4.own
      BY <2>2 DEF MixLearns
    <3>2. x2'.active \in {0, x2.active, x4.own} /\ x2'.key \in {0, x2.key}
      BY <2>2
    <3> QED
      BY <1>7, <3>1, <3>2
  <2> QED
    BY <2>1, <2>2
<1>9. Mix(b)!OneInUse'
  BY <1>8 DEF Mix!OneInUse, Mix!InUse
<1>10. Mix(b)!LeaseSound'
  <2>1. \A k : Mix(b)!Real(k)' = Mix(b)!Real(k) /\ Mix(b)!PaidFor(k)' = Mix(b)!PaidFor(k)
    BY <1>2 DEF Mix!Real, Mix!PaidFor
  <2>2. \A k \in Mix(b)!InUse' : Mix(b)!Real(k)'
    BY <1>8, <2>1 DEF Mix!InUse
  <2>3. x4'.pc = "encode" => x4' = x4
    BY DEF MixLearns
  <2>4. x4'.pc = "encode" => x4'.own \in Mix(b)!Keys /\ x1[x4'.own].status \notin {"none", "intent"} /\ x1[x4'.own].bucket = "paid"
    BY <2>3 DEF Mix!LeaseSound, Mix!PaidFor, Mix!Real
  <2>5. Mix(b)!Storing' => Mix(b)!Storing /\ x4'.own = x4.own
    BY <1>4 DEF Mix!Storing, MixLearns
  <2>6. /\ x4'.pc = "finald" => x1[x4'.own].status = "completed"
        /\ x4'.pc = "letgod" => x1[x4'.own].status = "released"
    BY DEF MixLearns, Mix!LeaseSound
  <2>7. x2'.pending # 0 => x2'.pending \in Mix(b)!Keys /\ x1[x2'.pending].status \notin {"none", "intent"} /\ x1[x2'.pending].bucket = "paid"
    BY DEF Mix!LeaseSound, Mix!PaidFor, Mix!Real
  <2>8. \A k \in DOMAIN x6' \cup x10' : Mix(b)!PaidFor(k)'
    BY <2>1 DEF Mix!LeaseSound
  <2>9. Mix(b)!Storing' => x4'.own \in DOMAIN x6' /\ x6'[x4'.own] = "pending-completion"
    BY <2>5 DEF Mix!LeaseSound
  <2> QED
    BY <1>2, <2>2, <2>4, <2>6, <2>7, <2>8, <2>9 DEF Mix!LeaseSound, Mix!PaidFor, Mix!Real
<1>11. Mix(b)!Known'
  <2>1. SUFFICES ASSUME NEW k \in Mix(b)!Keys, x1[k].status = "held"
        PROVE  \/ k \in {x2'.active, x2'.key, x2'.pending} \cup x5 \cup x9
               \/ k = x4'.own /\ x4'.pc \in {"final", "finalx"}
    BY <1>2 DEF Mix!Known, Mix!Held
  <2>2. \/ k \in x9 \cup x5 \cup {x2.active, x2.key, x2.pending}
        \/ (x4.pc \in {"final", "finalx"} /\ k = x4.own)
    BY <1>1, <2>1 DEF Mix!Known, Mix!Held
  <2>3. CASE x4.pc \in {"final", "finalx"} /\ k = x4.own
    BY <2>1, <2>3 DEF MixLearns
  <2> QED
    BY <2>1, <2>2, <2>3
<1> QED
  BY <1>3, <1>6, <1>9, <1>10, <1>11

\* The first of line asks the server.
LEMMA MixAsks ==
  ASSUME NEW b, Mix(b)!MixIInv, x3 # <<>>, UNCHANGED <<x1, x4, x5, x6, x9, x10>>,
         x2' \in Mix(b)!Shown, x2'.pending = x2.pending, x2'.active \in {0, x2.active}, x2'.key \in {0, x2.key},
         NEW at \in Mix(b)!Labels, NEW id \in Mix(b)!Keys \cup {0}, Mix(b)!Asks(at, id),
         \A k \in {x2.active, x2.key} : k \in Mix(b)!Keys /\ x1[k].status = "held"
            => \/ k \in {x2'.active, x2'.key, x2.pending} \cup x5 \cup x9
               \/ k = x4.own /\ x4.pc = "final",
         \A o : /\ o.op = x3[1].op /\ o.mine = x3[1].mine /\ o.at = at /\ o.id = id /\ o.answer = "none"
                => Mix(b)!HeadSound(o)',
         x3[1].op \in {"ensure", "release"} \/ id = x3[1].id
  PROVE  Mix(b)!MixIInv'
<1>1. /\ Mix(b)!Ops \subseteq Mix(b)!Ops' /\ id \in Mix(b)!Keys' \cup {0} /\ x4' = x4
  BY MixSame
<1>2. x3' \in Seq(Mix(b)!Ops)' /\ Mix(b)!LineSound'
  BY <1>1, MixLineAsks
<1>3. x4' \in Mix(b)!Works /\ MixLearns(b)
  BY MixPage DEF Mix!MixIInv, MixLearns
<1> QED
  BY <1>2, <1>3, MixTurn

\* The first of line ends.
LEMMA MixConcludes ==
  ASSUME NEW b, Mix(b)!MixIInv, x3 # <<>>, UNCHANGED <<x1, x5, x6, x9, x10>>,
         x2' \in Mix(b)!Shown, x2'.pending = x2.pending,
         NEW ok \in BOOLEAN, NEW id \in Mix(b)!Keys \cup {0}, Mix(b)!Ends(ok, id),
         x3[1].op = "ensure" /\ ok => id = x2'.active /\ id # 0 /\ Mix(b)!Real(id) /\ x2'.key \in {0, id} \cup x9,
         x3[1].op = "letgo" /\ ok => x1[x3[1].id].status = "released",
         x3[1].op = "complete" /\ ok => x1[x3[1].id].status = "completed",
         \/ x3[1].op = "ensure" /\ ok
         \/ x2'.active \in {0, x2.active, x4.own} /\ x2'.key \in {0, x2.key},
         \A k \in {x2.active, x2.key} : k \in Mix(b)!Keys /\ x1[k].status = "held"
            => \/ k \in {x2'.active, x2'.key, x2.pending} \cup x5 \cup x9
               \/ k = x4.own /\ x4.pc = "final" /\ (x3[1].op = "complete" => ~ok)
  PROVE  Mix(b)!MixIInv'
<1>1. PICK h : h = x3[1]
  OBVIOUS
<1>2. /\ h \in Mix(b)!Ops /\ Mix(b)!Queued(h) /\ h.op \in {"ensure", "release", "letgo", "complete"} /\ h.mine \in BOOLEAN
      /\ (h.mine <=> h.op # "release")
  BY <1>1, MixHead DEF Mix!Queued
<1>3. /\ h.op = "ensure" => x4.pc = "ensure"
      /\ h.op = "letgo" => x4.pc = "letgo" /\ h.id = x4.own
      /\ h.op = "complete" => x4.pc = "final" /\ h.id = x4.own
  BY <1>2 DEF Mix!Queued
<1>4. x3' \in Seq(Mix(b)!Ops)' /\ Mix(b)!LineSound' /\ x4' \in Mix(b)!Works' /\ Mix(b)!Works' = Mix(b)!Works
  BY MixEnds, MixSame
<1>5. /\ ~h.mine => x4' = x4
      /\ h.mine => /\ x4'.kind = x4.kind /\ x4'.aborted = x4.aborted
                   /\ x4'.own = (IF ok /\ h.op = "ensure" THEN id ELSE x4.own)
                   /\ h.op = "ensure" => x4'.pc = IF ok THEN "ensured" ELSE "ensurex"
                   /\ h.op = "letgo" => x4'.pc = IF ok THEN "letgod" ELSE "letgox"
                   /\ h.op = "complete" => x4'.pc = IF ok THEN "finald" ELSE "finalx"
  BY <1>1, MixEnds
<1>6. x4'.kind = x4.kind /\ MixLearns(b)
  <2>1. CASE h.op = "release"
    BY <1>2, <1>5, <2>1 DEF MixLearns
  <2>2. CASE h.op = "ensure"
    BY <1>1, <1>2, <1>3, <1>5, <2>2 DEF MixLearns
  <2>3. CASE h.op = "letgo"
    BY <1>1, <1>2, <1>3, <1>5, <2>3 DEF MixLearns
  <2>4. CASE h.op = "complete"
    BY <1>1, <1>2, <1>3, <1>5, <2>4 DEF MixLearns
  <2> QED
    BY <1>2, <2>1, <2>2, <2>3, <2>4
<1>7. h.op = "ensure" /\ ok => x4.pc = "ensure" /\ x4'.pc = "ensured"
  BY <1>2, <1>3, <1>5
<1>8. x4.pc = "final" /\ (h.op = "complete" => ~ok) => x4'.own = x4.own /\ x4'.pc \in {"final", "finalx"}
  BY <1>2, <1>3, <1>5
<1> QED
  BY <1>1, <1>4, <1>6, <1>7, <1>8, MixTurn

\* What the page holds, and is asked for or let go.
LEMMA MixHeldOne ==
  ASSUME NEW b, Mix(b)!MixIInv
  PROVE  /\ x2.active # 0 => /\ Mix(b)!Real(x2.active) /\ x2.key \in {0, x2.active} \cup x9
                             /\ x2.pending \in {0, x2.active} /\ x4.own \in {0, x2.active}
         /\ x2.pending # 0 => /\ Mix(b)!Real(x2.pending) /\ x2.key \in {0, x2.pending} \cup x9
                              /\ x2.active \in {0, x2.pending} /\ x4.own \in {0, x2.pending}
         /\ x4.own # 0 => /\ Mix(b)!Real(x4.own) /\ x2.key \in {0, x4.own} \cup x9
                          /\ x2.active \in {0, x4.own} /\ x2.pending \in {0, x4.own}
<1>1. /\ \A k \in {x2.active, x2.pending, x4.own} \ {0} : Mix(b)!Real(k)
      /\ \A j, k \in {x2.active, x2.pending, x4.own} \ {0} : j = k /\ x2.key \in {0, k} \cup x9
  BY DEF Mix!OneInUse, Mix!InUse, Mix!LeaseSound, Mix!MixIInv
<1> QED
  BY <1>1

LEMMA MixEnsureStart == ASSUME NEW b, Mix(b)!MixIInv, Mix(b)!EnsureStart PROVE Mix(b)!MixIInv'
<1>1. PICK h : h = x3[1]
  OBVIOUS
<1>2. x3 # <<>> /\ h.at = "start" /\ h.op = "ensure" /\ UNCHANGED <<x1, x5, x6, x9, x10>>
  BY <1>1 DEF Mix!EnsureStart, Mix!At, Mix!Head1, Mix!Rest
<1>3. /\ x2 \in Mix(b)!Shown /\ x2.active \in Mix(b)!Keys \cup {0} /\ x2.key \in Mix(b)!Keys \cup {0} /\ x2.invalid \in BOOLEAN
      /\ h.id \in Mix(b)!Keys \cup {0} /\ 0 \notin Mix(b)!Keys
  BY <1>1, <1>2, MixPage, MixHead, MixIds DEF Mix!MixIInv
<1>4. CASE Mix(b)!Ends(FALSE, 0) /\ x2' = x2
  BY <1>1, <1>2, <1>3, <1>4, MixConcludes
<1>5. CASE /\ x4' = x4 /\ x2' = [x2 EXCEPT !.invalid = @ /\ (x2.active # 0 \/ x2.key # 0)]
           /\ \/ Mix(b)!Asks("drop", x2.active) /\ x2.active # 0
              \/ Mix(b)!Asks("recover", x2.key) /\ x2.active = 0 /\ x2.key # 0
              \/ Mix(b)!Asks("fresh", h.id)
  <2>1. PICK v \in BOOLEAN : v = (x2.invalid /\ (x2.active # 0 \/ x2.key # 0))
    OBVIOUS
  <2>2. x2' = [x2 EXCEPT !.invalid = v]
    BY <1>5, <2>1
  <2>3. /\ x2' \in Mix(b)!Shown /\ x2'.pending = x2.pending /\ x2'.active = x2.active /\ x2'.key = x2.key
    BY <1>3, <2>2 DEF Mix!Shown
  <2>4. CASE Mix(b)!Asks("drop", x2.active) /\ x2.active # 0
    <3>1. ASSUME NEW o, o.op = h.op, o.at = "drop", o.id = x2.active, o.answer = "none" PROVE Mix(b)!HeadSound(o)'
      BY <1>2, <2>3, <2>4, <3>1, MixHeldOne, MixSame DEF Mix!HeadSound, Mix!Looks, Mix!Drops, Mix!Real
    <3>2. "drop" \in Mix(b)!Labels
      BY DEF Mix!Labels
    <3> QED
      BY <1>1, <1>2, <1>3, <1>5, <2>3, <2>4, <3>1, <3>2, MixAsks
  <2>5. CASE Mix(b)!Asks("recover", x2.key) /\ x2.active = 0 /\ x2.key # 0
    <3>1. ASSUME NEW o, o.op = h.op, o.at = "recover", o.id = x2.key, o.answer = "none" PROVE Mix(b)!HeadSound(o)'
      BY <1>2, <1>3, <2>3, <2>5, <3>1, MixSame DEF Mix!HeadSound, Mix!Looks, Mix!Drops
    <3>2. "recover" \in Mix(b)!Labels
      BY DEF Mix!Labels
    <3> QED
      BY <1>1, <1>2, <1>3, <1>5, <2>3, <2>5, <3>1, <3>2, MixAsks
  <2>6. CASE Mix(b)!Asks("fresh", h.id)
    <3>1. ASSUME NEW o, o.op = h.op, o.at = "fresh", o.answer = "none" PROVE Mix(b)!HeadSound(o)'
      BY <1>2, <3>1 DEF Mix!HeadSound, Mix!Looks, Mix!Drops
    <3>2. "fresh" \in Mix(b)!Labels
      BY DEF Mix!Labels
    <3> QED
      BY <1>1, <1>2, <1>3, <1>5, <2>3, <2>6, <3>1, <3>2, MixAsks
  <2> QED
    BY <1>5, <2>4, <2>5, <2>6
<1> QED
  BY <1>1, <1>4, <1>5 DEF Mix!EnsureStart, Mix!Starts, Mix!Head1

LEMMA MixFresh ==
  ASSUME NEW b, NEW o, o.op = "ensure", o.at = "fresh", o.answer = "none"
  PROVE  Mix(b)!HeadSound(o)'
BY DEF Mix!HeadSound, Mix!Looks, Mix!Drops

LEMMA MixEnsureDropped == ASSUME NEW b, Mix(b)!MixIInv, x3 # <<>>, Mix(b)!EnsureDropped PROVE Mix(b)!MixIInv'
<1>1. PICK h : h = x3[1]
  OBVIOUS
<1>2. /\ h.op = "ensure" /\ h.answer \notin {"none", "refused"} /\ UNCHANGED <<x1, x4, x5, x6, x9, x10>>
      /\ h.at \in {"recovered", "drop", "swap"} /\ Mix(b)!Asks("fresh", h.id)
      /\ h.at = "recovered" => x2' = Mix(b)!Forgets(h.id)
      /\ h.at # "recovered" => x2' = Mix(b)!ClearedIf(h.id)
  BY <1>1 DEF Mix!EnsureDropped, Mix!Answered, Mix!At, Mix!Head1, Mix!Rest, Mix!Starts
<1>3. /\ x2 \in Mix(b)!Shown /\ x2.active \in Mix(b)!Keys \cup {0} /\ x2.key \in Mix(b)!Keys \cup {0}
      /\ Mix(b)!HeadSound(h) /\ h.id \in Mix(b)!Keys \cup {0} /\ 0 \notin Mix(b)!Keys
  BY <1>1, MixPage, MixHead, MixIds DEF Mix!MixIInv
<1>4. h.id \in Mix(b)!Keys /\ x1[h.id].status # "held"
  BY <1>2, <1>3 DEF Mix!HeadSound, Mix!Drops, Mix!Real, Mix!Held
<1>5. CASE h.at = "recovered"
  <2>1. h.id = x2.key /\ x2.active = 0
    BY <1>2, <1>3, <1>5 DEF Mix!HeadSound
  <2>2. x2' = [x2 EXCEPT !.key = 0, !.invalid = FALSE, !.active = 0]
    BY <1>2, <1>3, <1>5, <2>1 DEF Mix!Forgets, Mix!Shown
  <2>3. x2' \in Mix(b)!Shown /\ x2'.pending = x2.pending /\ x2'.active = 0 /\ x2'.key = 0
    BY <1>3, <2>2 DEF Mix!Shown
  <2>4. ASSUME NEW o, o.op = h.op, o.at = "fresh", o.id = h.id, o.answer = "none" PROVE Mix(b)!HeadSound(o)'
    BY <1>2, <2>4, MixFresh
  <2>5. "fresh" \in Mix(b)!Labels
    BY DEF Mix!Labels
  <2> QED
    BY <1>1, <1>2, <1>3, <1>4, <2>1, <2>3, <2>4, <2>5, MixAsks
<1>6. CASE h.at \in {"drop", "swap"}
  <2>1. h.id = x2.active /\ x2.active # 0
    BY <1>2, <1>3, <1>4, <1>6 DEF Mix!HeadSound
  <2>2. x2' = [x2 EXCEPT !.active = 0, !.bucket = "none", !.key = 0, !.invalid = FALSE]
    BY <1>2, <1>6, <2>1 DEF Mix!ClearedIf, Mix!Cleared
  <2>3. x2' \in Mix(b)!Shown /\ x2'.pending = x2.pending /\ x2'.active = 0 /\ x2'.key = 0
    BY <1>3, <2>2 DEF Mix!Shown
  <2>4. x2.key \in {0, x2.active} \cup x9
    BY <2>1, MixHeldOne
  <2>5. ASSUME NEW o, o.op = h.op, o.at = "fresh", o.id = h.id, o.answer = "none" PROVE Mix(b)!HeadSound(o)'
    BY <1>2, <2>5, MixFresh
  <2>6. "fresh" \in Mix(b)!Labels
    BY DEF Mix!Labels
  <2> QED
    BY <1>1, <1>2, <1>3, <1>4, <2>1, <2>3, <2>4, <2>5, <2>6, MixAsks
<1> QED
  BY <1>2, <1>5, <1>6

LEMMA MixRecovered == ASSUME NEW b, Mix(b)!MixIInv, Mix(b)!Recovered PROVE Mix(b)!MixIInv'
<1>1. PICK h : h = x3[1]
  OBVIOUS
<1>2. /\ x3 # <<>> /\ h.answer # "none" /\ h.at = "recover" /\ UNCHANGED <<x1, x2, x4, x5, x6, x9, x10>>
      /\ Mix(b)!Asks("recovered", h.id)
  BY <1>1 DEF Mix!Recovered, Mix!Answered, Mix!At, Mix!Head1, Mix!Rest
<1>3. /\ x2 \in Mix(b)!Shown /\ Mix(b)!HeadSound(h) /\ h.id \in Mix(b)!Keys \cup {0}
      /\ h.op \in {"ensure", "release", "letgo", "complete"}
  BY <1>1, <1>2, MixPage, MixHead DEF Mix!MixIInv
<1>4. /\ h.op \in {"ensure", "release"} /\ Mix(b)!Real(h.id) /\ (h.op = "ensure" => h.id = x2.key /\ x2.active = 0)
  BY <1>2, <1>3 DEF Mix!HeadSound, Mix!Looks
<1>5. ASSUME NEW o, o.op = h.op, o.at = "recovered", o.id = h.id, o.answer = "none" PROVE Mix(b)!HeadSound(o)'
  BY <1>2, <1>4, <1>5, MixSame DEF Mix!HeadSound, Mix!Looks, Mix!Drops, Mix!Real
<1>6. "recovered" \in Mix(b)!Labels
  BY DEF Mix!Labels
<1> QED
  BY <1>1, <1>2, <1>3, <1>4, <1>5, <1>6, MixAsks

LEMMA MixEnsureRenewed == ASSUME NEW b, Mix(b)!MixIInv, Mix(b)!EnsureRenewed PROVE Mix(b)!MixIInv'
<1>1. PICK h : h = x3[1]
  OBVIOUS
<1>2. x3 # <<>> /\ h.answer # "none" /\ h.at = "renew" /\ UNCHANGED <<x1, x5, x6, x9, x10>>
  BY <1>1 DEF Mix!EnsureRenewed, Mix!Answered, Mix!At, Mix!Head1, Mix!Rest
<1>3. /\ x2 \in Mix(b)!Shown /\ x2.active \in Mix(b)!Keys \cup {0} /\ x2.key \in Mix(b)!Keys \cup {0}
      /\ Mix(b)!HeadSound(h) /\ h.id \in Mix(b)!Keys \cup {0} /\ 0 \notin Mix(b)!Keys
      /\ h.op \in {"ensure", "release", "letgo", "complete"}
  BY <1>1, <1>2, MixPage, MixHead, MixIds DEF Mix!MixIInv
<1>4. h.op = "ensure" /\ h.id = x2.active /\ Mix(b)!Real(h.id)
  BY <1>2, <1>3 DEF Mix!HeadSound
<1>5. h.id \in Mix(b)!Keys /\ h.id # 0 /\ x2.key \in {0, h.id} \cup x9 /\ x1[h.id].bucket \in Mix(b)!Buckets
  BY <1>3, <1>4, MixHeldOne, MixIds DEF Mix!Real, Mix!MixIInv
<1>6. CASE h.answer = "completed" /\ x2' = Mix(b)!Cleared /\ Mix(b)!Asks("fresh", h.id) /\ x4' = x4
  <2>1. x1[h.id].status = "completed"
    BY <1>2, <1>3, <1>6 DEF Mix!HeadSound
  <2>2. x2' \in Mix(b)!Shown /\ x2'.pending = x2.pending /\ x2'.active = 0 /\ x2'.key = 0
    BY <1>3, <1>6 DEF Mix!Shown, Mix!Cleared
  <2>3. ASSUME NEW o, o.op = h.op, o.at = "fresh", o.id = h.id, o.answer = "none" PROVE Mix(b)!HeadSound(o)'
    BY <1>4, <2>3, MixFresh
  <2>4. "fresh" \in Mix(b)!Labels
    BY DEF Mix!Labels
  <2> QED
    BY <1>1, <1>2, <1>3, <1>4, <1>5, <1>6, <2>1, <2>2, <2>3, <2>4, MixAsks
<1>7. CASE x2' = [x2 EXCEPT !.active = h.id, !.bucket = x1[h.id].bucket] /\ Mix(b)!Ends(TRUE, h.id)
  <2>1. x2' \in Mix(b)!Shown /\ x2'.pending = x2.pending /\ x2'.active = h.id /\ x2'.key = x2.key
    BY <1>3, <1>5, <1>7 DEF Mix!Shown
  <2> QED
    BY <1>1, <1>2, <1>3, <1>4, <1>5, <1>7, <2>1, MixConcludes
<1> QED
  BY <1>1, <1>6, <1>7 DEF Mix!EnsureRenewed, Mix!Starts, Mix!Head1

LEMMA MixEnsureReserved == ASSUME NEW b, Mix(b)!MixIInv, Mix(b)!EnsureReserved PROVE Mix(b)!MixIInv'
<1>1. PICK h : h = x3[1]
  OBVIOUS
<1>2. x3 # <<>> /\ h.answer # "none" /\ h.at = "reserve" /\ UNCHANGED <<x1, x5, x6, x9, x10>>
  BY <1>1 DEF Mix!EnsureReserved, Mix!Answered, Mix!At, Mix!Head1, Mix!Rest
<1>3. /\ x2 \in Mix(b)!Shown /\ x2.active \in Mix(b)!Keys \cup {0} /\ x2.key \in Mix(b)!Keys \cup {0}
      /\ Mix(b)!HeadSound(h) /\ h.id \in Mix(b)!Keys \cup {0} /\ 0 \notin Mix(b)!Keys
      /\ h.op \in {"ensure", "release", "letgo", "complete"}
  BY <1>1, <1>2, MixPage, MixHead, MixIds DEF Mix!MixIInv
<1>4. h.op = "ensure" /\ h.id = x2.key /\ x2.active = 0 /\ Mix(b)!Real(h.id)
  BY <1>2, <1>3 DEF Mix!HeadSound, Mix!Looks
<1>5. h.id \in Mix(b)!Keys /\ h.id # 0 /\ x1[h.id].bucket \in Mix(b)!Buckets
  BY <1>3, <1>4, MixIds DEF Mix!Real, Mix!MixIInv
<1>6. CASE h.answer = "completed" /\ x2' = [x2 EXCEPT !.key = 0] /\ Mix(b)!Asks("fresh", h.id) /\ x4' = x4
  <2>1. x1[h.id].status = "completed"
    BY <1>2, <1>3, <1>6 DEF Mix!HeadSound
  <2>2. x2' \in Mix(b)!Shown /\ x2'.pending = x2.pending /\ x2'.active = 0 /\ x2'.key = 0
    BY <1>3, <1>4, <1>6 DEF Mix!Shown
  <2>3. ASSUME NEW o, o.op = h.op, o.at = "fresh", o.id = h.id, o.answer = "none" PROVE Mix(b)!HeadSound(o)'
    BY <1>4, <2>3, MixFresh
  <2>4. "fresh" \in Mix(b)!Labels
    BY DEF Mix!Labels
  <2> QED
    BY <1>1, <1>2, <1>3, <1>4, <1>5, <1>6, <2>1, <2>2, <2>3, <2>4, MixAsks
<1>7. CASE Mix(b)!Asks("handback", h.id) /\ UNCHANGED <<x2, x4>>
  <2>1. ASSUME NEW o, o.op = h.op, o.at = "handback", o.id = h.id, o.answer = "none" PROVE Mix(b)!HeadSound(o)'
    BY <1>2, <1>4, <1>7, <2>1, MixSame DEF Mix!HeadSound, Mix!Looks, Mix!Drops, Mix!Real
  <2>2. "handback" \in Mix(b)!Labels
    BY DEF Mix!Labels
  <2> QED
    BY <1>1, <1>2, <1>3, <1>4, <1>7, <2>1, <2>2, MixAsks
<1>8. CASE /\ x2' = [x2 EXCEPT !.active = h.id, !.bucket = x1[h.id].bucket, !.invalid = FALSE] /\ Mix(b)!Ends(TRUE, h.id)
  <2>1. x2' \in Mix(b)!Shown /\ x2'.pending = x2.pending /\ x2'.active = h.id /\ x2'.key = h.id
    BY <1>3, <1>4, <1>5, <1>8 DEF Mix!Shown
  <2> QED
    BY <1>1, <1>2, <1>3, <1>4, <1>5, <1>8, <2>1, MixConcludes
<1> QED
  BY <1>1, <1>6, <1>7, <1>8 DEF Mix!EnsureReserved, Mix!Starts, Mix!Head1

LEMMA MixHandedBack == ASSUME NEW b, Mix(b)!MixIInv, Mix(b)!HandedBack PROVE Mix(b)!MixIInv'
<1>1. PICK h : h = x3[1]
  OBVIOUS
<1>2. /\ x3 # <<>> /\ h.answer \notin {"none", "refused"} /\ h.at = "handback" /\ UNCHANGED <<x1, x5, x6, x9, x10>>
      /\ x2' = Mix(b)!Forgets(h.id) /\ Mix(b)!Ends(FALSE, 0)
  BY <1>1 DEF Mix!HandedBack, Mix!Answered, Mix!At, Mix!Head1, Mix!Rest
<1>3. /\ x2 \in Mix(b)!Shown /\ x2.active \in Mix(b)!Keys \cup {0} /\ x2.key \in Mix(b)!Keys \cup {0}
      /\ Mix(b)!HeadSound(h) /\ h.id \in Mix(b)!Keys \cup {0} /\ 0 \notin Mix(b)!Keys
      /\ h.op \in {"ensure", "release", "letgo", "complete"}
  BY <1>1, <1>2, MixPage, MixHead, MixIds DEF Mix!MixIInv
<1>4. h.op = "ensure" /\ h.id = x2.key /\ x2.active = 0 /\ h.id \in Mix(b)!Keys /\ x1[h.id].status # "held"
  BY <1>2, <1>3 DEF Mix!HeadSound, Mix!Drops, Mix!Real, Mix!Held
<1>5. x2' = [x2 EXCEPT !.key = 0, !.invalid = FALSE, !.active = 0]
  BY <1>2, <1>3, <1>4 DEF Mix!Forgets, Mix!Shown
<1>6. x2' \in Mix(b)!Shown /\ x2'.pending = x2.pending /\ x2'.active = 0 /\ x2'.key = 0
  BY <1>3, <1>5 DEF Mix!Shown
<1> QED
  BY <1>1, <1>2, <1>3, <1>4, <1>6, MixConcludes

LEMMA MixOpFails == ASSUME NEW b, Mix(b)!MixIInv, Mix(b)!OpFails PROVE Mix(b)!MixIInv'
<1>1. PICK h : h = x3[1]
  OBVIOUS
<1>2. x3 # <<>> /\ UNCHANGED <<x1, x5, x6, x9, x10>> /\ Mix(b)!Ends(FALSE, 0)
  BY DEF Mix!OpFails
<1>3. /\ x2 \in Mix(b)!Shown /\ x2.active \in Mix(b)!Keys \cup {0} /\ x2.invalid \in BOOLEAN /\ h.id \in Mix(b)!Keys \cup {0}
      /\ Mix(b)!Queued(h) /\ x4.own \in Mix(b)!Keys \cup {0} /\ 0 \notin Mix(b)!Keys
  BY <1>1, <1>2, MixPage, MixHead, MixIds DEF Mix!MixIInv
<1>4. CASE h.op = "complete" /\ x2.active = 0
  <2>1. h.id = x4.own /\ h.id \in Mix(b)!Keys
    BY <1>3, <1>4 DEF Mix!Queued, Mix!WorkSound, Mix!MixIInv
  <2>2. x1[h.id].bucket \in Mix(b)!Buckets
    BY <2>1, MixIds DEF Mix!MixIInv
  <2>3. x2' = [x2 EXCEPT !.active = h.id, !.bucket = x1[h.id].bucket]
    BY <1>1, <1>4 DEF Mix!OpFails, Mix!Head1
  <2>4. x2' \in Mix(b)!Shown /\ x2'.pending = x2.pending /\ x2'.active = x4.own /\ x2'.key = x2.key
    BY <1>3, <2>1, <2>2, <2>3 DEF Mix!Shown
  <2> QED
    BY <1>1, <1>2, <1>3, <1>4, <2>4, MixConcludes
<1>5. CASE ~(h.op = "complete" /\ x2.active = 0)
  <2>1. x2' = Mix(b)!LostKeepsKey
    BY <1>1, <1>5 DEF Mix!OpFails, Mix!Head1
  <2>2. PICK v \in BOOLEAN : v = (x2.invalid \/ h.at = "reserve")
    OBVIOUS
  <2>3. x2' = [x2 EXCEPT !.invalid = v]
    BY <1>1, <2>1, <2>2 DEF Mix!LostKeepsKey, Mix!Head1
  <2>4. x2' \in Mix(b)!Shown /\ x2'.pending = x2.pending /\ x2'.active = x2.active /\ x2'.key = x2.key
    BY <1>3, <2>3 DEF Mix!Shown
  <2> QED
    BY <1>1, <1>2, <2>4, MixConcludes
<1> QED
  BY <1>4, <1>5

LEMMA MixReleaseStart == ASSUME NEW b, Mix(b)!MixIInv, Mix(b)!ReleaseStart PROVE Mix(b)!MixIInv'
<1>1. PICK h : h = x3[1]
  OBVIOUS
<1>2. x3 # <<>> /\ h.at = "start" /\ h.op = "release" /\ UNCHANGED <<x1, x5, x6, x9, x10>>
  BY <1>1 DEF Mix!ReleaseStart, Mix!At, Mix!Head1, Mix!Rest
<1>3. /\ x2 \in Mix(b)!Shown /\ x2.active \in Mix(b)!Keys \cup {0} /\ x2.key \in Mix(b)!Keys \cup {0}
      /\ 0 \notin Mix(b)!Keys
  BY <1>1, <1>2, MixPage, MixHead, MixIds DEF Mix!MixIInv
<1>4. CASE x2.active # 0 /\ Mix(b)!Asks("drop", x2.active) /\ UNCHANGED <<x2, x4>>
  <2>1. ASSUME NEW o, o.op = h.op, o.at = "drop", o.id = x2.active, o.answer = "none" PROVE Mix(b)!HeadSound(o)'
    BY <1>2, <1>4, <2>1, MixHeldOne, MixSame DEF Mix!HeadSound, Mix!Looks, Mix!Drops, Mix!Real
  <2>2. "drop" \in Mix(b)!Labels
    BY DEF Mix!Labels
  <2> QED
    BY <1>1, <1>2, <1>3, <1>4, <2>1, <2>2, MixAsks
<1>5. CASE x2.key # 0 /\ Mix(b)!Asks("recover", x2.key) /\ UNCHANGED <<x2, x4>>
  <2>1. ASSUME NEW o, o.op = h.op, o.at = "recover", o.id = x2.key, o.answer = "none" PROVE Mix(b)!HeadSound(o)'
    BY <1>2, <1>3, <1>5, <2>1, MixSame DEF Mix!HeadSound, Mix!Looks, Mix!Drops
  <2>2. "recover" \in Mix(b)!Labels
    BY DEF Mix!Labels
  <2> QED
    BY <1>1, <1>2, <1>3, <1>5, <2>1, <2>2, MixAsks
<1>6. CASE x2' = [x2 EXCEPT !.invalid = FALSE] /\ Mix(b)!Ends(TRUE, 0)
  <2>1. x2' \in Mix(b)!Shown /\ x2'.pending = x2.pending /\ x2'.active = x2.active /\ x2'.key = x2.key
    BY <1>3, <1>6 DEF Mix!Shown
  <2> QED
    BY <1>1, <1>2, <1>6, <2>1, MixConcludes
<1> QED
  BY <1>4, <1>5, <1>6 DEF Mix!ReleaseStart

LEMMA MixReleaseDone == ASSUME NEW b, Mix(b)!MixIInv, x3 # <<>>, Mix(b)!ReleaseDone PROVE Mix(b)!MixIInv'
<1>1. PICK h : h = x3[1]
  OBVIOUS
<1>2. /\ h.op = "release" /\ h.answer \notin {"none", "refused"} /\ UNCHANGED <<x1, x5, x6, x9, x10>>
      /\ h.at \in {"recovered", "drop"} /\ Mix(b)!Ends(TRUE, 0)
      /\ h.at = "recovered" => x2' = [x2 EXCEPT !.key = IF @ = h.id THEN 0 ELSE @, !.invalid = @ /\ x2.key \notin {0, h.id}]
      /\ h.at # "recovered" => x2' = Mix(b)!ClearedIf(h.id)
  BY <1>1 DEF Mix!ReleaseDone, Mix!Answered, Mix!At, Mix!Head1, Mix!Rest
<1>3. /\ x2 \in Mix(b)!Shown /\ x2.active \in Mix(b)!Keys \cup {0} /\ x2.key \in Mix(b)!Keys \cup {0} /\ x2.invalid \in BOOLEAN
      /\ Mix(b)!HeadSound(h) /\ h.id \in Mix(b)!Keys \cup {0} /\ 0 \notin Mix(b)!Keys
  BY <1>1, MixPage, MixHead, MixIds DEF Mix!MixIInv
<1>4. h.id \in Mix(b)!Keys /\ h.id # 0 /\ (x1[h.id].status = "held" => h.id = x2.pending)
  BY <1>2, <1>3 DEF Mix!HeadSound, Mix!Drops, Mix!Real, Mix!Held
<1>5. CASE h.at = "recovered"
  <2>1. PICK v \in BOOLEAN : v = (x2.invalid /\ x2.key \notin {0, h.id})
    OBVIOUS
  <2>2. PICK key \in {0, x2.key} : key = IF x2.key = h.id THEN 0 ELSE x2.key
    OBVIOUS
  <2>3. x2' = [x2 EXCEPT !.key = key, !.invalid = v]
    BY <1>2, <1>5, <2>1, <2>2
  <2>4. x2' \in Mix(b)!Shown /\ x2'.pending = x2.pending /\ x2'.active = x2.active /\ x2'.key = key
    BY <1>3, <2>3 DEF Mix!Shown
  <2>5. x2.key \in {key, h.id}
    BY <2>2
  <2> QED
    BY <1>1, <1>2, <1>3, <1>4, <2>4, <2>5, MixConcludes
<1>6. CASE h.at = "drop" /\ x2.active = h.id
  <2>1. x2' = [x2 EXCEPT !.active = 0, !.bucket = "none", !.key = 0, !.invalid = FALSE]
    BY <1>2, <1>6 DEF Mix!ClearedIf, Mix!Cleared
  <2>2. x2' \in Mix(b)!Shown /\ x2'.pending = x2.pending /\ x2'.active = 0 /\ x2'.key = 0
    BY <1>3, <2>1 DEF Mix!Shown
  <2>3. x2.key \in {0, x2.active} \cup x9
    BY <1>4, <1>6, MixHeldOne
  <2>4. \A k \in {x2.active, x2.key} : k \in Mix(b)!Keys /\ x1[k].status = "held"
          => k \in {x2'.active, x2'.key, x2.pending} \cup x5 \cup x9
    BY <1>3, <1>4, <1>6, <2>3
  <2>5. h.op = "release" /\ Mix(b)!Ends(TRUE, 0) /\ UNCHANGED <<x1, x5, x6, x9, x10>>
    BY <1>2
  <2> QED
    BY <1>1, <2>2, <2>4, <2>5, MixConcludes
<1>7. CASE h.at = "drop" /\ x2.active # h.id
  <2>1. x2' = x2
    BY <1>2, <1>7 DEF Mix!ClearedIf
  <2>2. x2' \in Mix(b)!Shown /\ x2'.pending = x2.pending /\ x2'.active = x2.active /\ x2'.key = x2.key
    BY <1>3, <2>1
  <2>3. h.op = "release" /\ Mix(b)!Ends(TRUE, 0) /\ UNCHANGED <<x1, x5, x6, x9, x10>>
    BY <1>2
  <2> QED
    BY <1>1, <2>2, <2>3, MixConcludes
<1> QED
  BY <1>2, <1>5, <1>6, <1>7

LEMMA MixNamedStart == ASSUME NEW b, Mix(b)!MixIInv, Mix(b)!NamedStart PROVE Mix(b)!MixIInv'
<1>1. PICK h : h = x3[1]
  OBVIOUS
<1>2. /\ x3 # <<>> /\ h.op \in {"letgo", "complete"} /\ UNCHANGED <<x1, x2, x4, x5, x6, x9, x10>>
      /\ Mix(b)!Asks(h.op, h.id)
  BY <1>1 DEF Mix!NamedStart, Mix!At, Mix!Head1, Mix!Rest, Mix!Starts
<1>3. x2 \in Mix(b)!Shown /\ h.id \in Mix(b)!Keys \cup {0}
  BY <1>1, <1>2, MixPage, MixHead DEF Mix!MixIInv
<1>4. ASSUME NEW o, o.op = h.op, o.at = h.op, o.id = h.id, o.answer = "none" PROVE Mix(b)!HeadSound(o)'
  BY <1>2, <1>4 DEF Mix!HeadSound, Mix!Looks, Mix!Drops
<1>5. PICK at \in Mix(b)!Labels : at = h.op
  BY <1>2 DEF Mix!Labels
<1>6. Mix(b)!Asks(at, h.id)
  BY <1>2, <1>5
<1> QED
  BY <1>1, <1>2, <1>3, <1>4, <1>5, <1>6, MixAsks

LEMMA MixLetGoDone == ASSUME NEW b, Mix(b)!MixIInv, Mix(b)!LetGoDone PROVE Mix(b)!MixIInv'
<1>1. PICK h : h = x3[1]
  OBVIOUS
<1>2. /\ x3 # <<>> /\ h.at = "letgo" /\ h.answer \notin {"none", "refused"} /\ UNCHANGED <<x1, x5, x6, x9, x10>>
      /\ x2' = Mix(b)!ClearedIf(h.id) /\ Mix(b)!Ends(TRUE, 0)
  BY <1>1 DEF Mix!LetGoDone, Mix!Answered, Mix!At, Mix!Head1, Mix!Rest
<1>3. /\ x2 \in Mix(b)!Shown /\ Mix(b)!HeadSound(h) /\ Mix(b)!Queued(h) /\ h.op \in {"ensure", "release", "letgo", "complete"}
      /\ 0 \notin Mix(b)!Keys /\ x2.active \in Mix(b)!Keys \cup {0} /\ x2.key \in Mix(b)!Keys \cup {0}
  BY <1>1, <1>2, MixPage, MixHead, MixIds DEF Mix!MixIInv
<1>4. h.op = "letgo" /\ x1[h.id].status = "released" /\ h.id = x4.own
  BY <1>2, <1>3 DEF Mix!HeadSound, Mix!Looks, Mix!Drops, Mix!Queued
<1>5. CASE x2.active = h.id
  <2>1. x2' = [x2 EXCEPT !.active = 0, !.bucket = "none", !.key = 0, !.invalid = FALSE]
    BY <1>2, <1>5 DEF Mix!ClearedIf, Mix!Cleared
  <2>2. x2' \in Mix(b)!Shown /\ x2'.pending = x2.pending /\ x2'.active = 0 /\ x2'.key = 0
    BY <1>3, <2>1 DEF Mix!Shown
  <2>3. x4.own # 0
    BY <1>3, <1>4 DEF Mix!MixIInv, Mix!WorkSound, Mix!Queued
  <2>4. x2.key \in {0, h.id} \cup x9
    BY <1>4, <2>3, MixHeldOne
  <2> QED
    BY <1>1, <1>2, <1>3, <1>4, <1>5, <2>2, <2>4, MixConcludes
<1>6. CASE x2.active # h.id
  <2>1. x2' = x2
    BY <1>2, <1>6 DEF Mix!ClearedIf
  <2> QED
    BY <1>1, <1>2, <1>3, <1>4, <2>1, MixConcludes
<1> QED
  BY <1>5, <1>6

LEMMA MixCompleteDone == ASSUME NEW b, Mix(b)!MixIInv, Mix(b)!CompleteDone PROVE Mix(b)!MixIInv'
<1>1. PICK h : h = x3[1]
  OBVIOUS
<1>2. /\ x3 # <<>> /\ h.at = "complete" /\ h.answer \notin {"none", "refused"} /\ UNCHANGED <<x1, x5, x6, x9, x10>>
      /\ x2' = [x2 EXCEPT !.key = 0, !.invalid = FALSE] /\ Mix(b)!Ends(TRUE, 0)
  BY <1>1 DEF Mix!CompleteDone, Mix!Answered, Mix!At, Mix!Head1, Mix!Rest
<1>3. /\ x2 \in Mix(b)!Shown /\ Mix(b)!HeadSound(h) /\ Mix(b)!Queued(h) /\ h.op \in {"ensure", "release", "letgo", "complete"}
      /\ 0 \notin Mix(b)!Keys /\ x2.active \in Mix(b)!Keys \cup {0} /\ x2.key \in Mix(b)!Keys \cup {0}
  BY <1>1, <1>2, MixPage, MixHead, MixIds DEF Mix!MixIInv
<1>4. h.op = "complete" /\ x1[h.id].status = "completed" /\ h.id = x4.own
  BY <1>2, <1>3 DEF Mix!HeadSound, Mix!Looks, Mix!Drops, Mix!Queued
<1>5. x4.own # 0
  BY <1>3, <1>4 DEF Mix!MixIInv, Mix!WorkSound, Mix!Queued
<1>6. x2.key \in {0, h.id} \cup x9
  BY <1>4, <1>5, MixHeldOne
<1>7. x2' \in Mix(b)!Shown /\ x2'.pending = x2.pending /\ x2'.active = x2.active /\ x2'.key = 0
  BY <1>2, <1>3 DEF Mix!Shown
<1> QED
  BY <1>1, <1>2, <1>3, <1>4, <1>6, <1>7, MixConcludes

\* What the usage API does to the reservation it is asked about.
LEMMA MixPerforms ==
  ASSUME NEW b, Mix(b)!MixKinds, NEW k \in Mix(b)!Keys, NEW request, NEW bought \in {"free", "paid"},
         Mix(b)!Performs(request, k, bought),
         request \in {"reserve", "renew"} /\ x1[k].status \notin {"none", "intent"} => bought \in {x1[k].bucket, "paid"}
  PROVE  /\ x1' \in Seq(Mix(b)!Leases) /\ Mix(b)!Keys' = Mix(b)!Keys
         /\ \A j \in Mix(b)!Keys : j # k => x1'[j] = x1[j]
         /\ request = "reserve" => x1'[k].status \notin {"none", "intent"}
         /\ request = "release" => x1'[k].status # "held" /\ (x1[k].status = "held" => x1'[k].status = "released")
         /\ \A j \in Mix(b)!Keys :
               /\ x1[j].status \notin {"none", "intent"} => x1'[j].status \notin {"none", "intent"}
               /\ x1[j].status = "intent" => x1'[j].status # "none"
               /\ x1[j].status \notin {"none", "intent"} /\ x1[j].bucket = "paid" => x1'[j].bucket = "paid"
               /\ x1[j].status = "completed" => x1'[j].status = "completed"
               /\ x1'[j].status = "completed" => x1[j].status = "completed" \/ (j = k /\ request = "complete")
               /\ x1[j].status = "released" => x1'[j].status = "released" \/ (j = k /\ request = "renew")
               /\ x1'[j].status = "held" =>
                     \/ x1[j].status = "held" /\ ~(j = k /\ request \in {"release", "complete"})
                     \/ j = k /\ request = "reserve" /\ x1[k].status = "none"
                     \/ j = k /\ request = "renew" /\ x1[k].status = "released"
<1>1. PICK s \in Mix(b)!Statuses : s = x1[k].status
  BY MixIds
<1>2. PICK c \in Mix(b)!Buckets : c = x1[k].bucket
  BY MixIds
<1>3. PICK became \in Mix(b)!Statuses : became = CASE request = "reserve" /\ s = "none" -> "held"
                    [] request = "reserve" /\ s = "intent" -> "released"
                    [] request = "renew" /\ s = "released" -> "held"
                    [] request = "release" /\ s = "held" -> "released"
                    [] request = "complete" /\ s = "held" -> "completed"
                    [] OTHER -> s
  BY DEF Mix!Statuses
<1>4. PICK chosen \in Mix(b)!Buckets :
         chosen = IF request \in {"reserve", "renew"} /\ s \in {"none", "held", "released"} THEN bought ELSE c
  BY DEF Mix!Buckets
<1>5. PICK row : row = [status |-> became, bucket |-> chosen]
  OBVIOUS
<1>6. row \in Mix(b)!Leases /\ row.status = became /\ row.bucket = chosen
  BY <1>3, <1>4, <1>5 DEF Mix!Leases
<1>7. x1' = [x1 EXCEPT ![k] = row]
  BY <1>1, <1>2, <1>3, <1>4, <1>5 DEF Mix!Performs
<1>8. /\ x1' \in Seq(Mix(b)!Leases) /\ Len(x1') = Len(x1)
      /\ \A j \in Mix(b)!Keys : x1'[j] = IF j = k THEN row ELSE x1[j]
  <2>1. x1 \in Seq(Mix(b)!Leases) /\ k \in 1 .. Len(x1)
    BY MixIds DEF Mix!Keys
  <2>2. PICK y : y = [x1 EXCEPT ![k] = row]
    OBVIOUS
  <2>3. /\ y \in Seq(Mix(b)!Leases) /\ Len(y) = Len(x1)
        /\ \A j \in 1 .. Len(x1) : y[j] = IF j = k THEN row ELSE x1[j]
    BY <1>6, <2>1, <2>2, ExceptSeq
  <2> QED
    BY <1>7, <2>2, <2>3 DEF Mix!Keys
<1>9. Mix(b)!Keys' = Mix(b)!Keys
  BY <1>8 DEF Mix!Keys
<1>10. /\ request = "reserve" => became = IF s = "none" THEN "held" ELSE IF s = "intent" THEN "released" ELSE s
       /\ request = "renew" => became = IF s = "released" THEN "held" ELSE s
       /\ request = "release" => became = IF s = "held" THEN "released" ELSE s
       /\ request = "complete" => became = IF s = "held" THEN "completed" ELSE s
       /\ request \notin {"reserve", "renew", "release", "complete"} => became = s
  BY <1>3
<1>11. /\ s \notin {"none", "intent"} => became \notin {"none", "intent"}
       /\ s = "intent" => became # "none"
       /\ s \notin {"none", "intent"} /\ c = "paid" => chosen = "paid"
       /\ s = "completed" => became = "completed"
       /\ became = "completed" => s = "completed" \/ request = "complete"
       /\ s = "released" => became = "released" \/ request = "renew"
       /\ became = "held" => \/ s = "held" /\ request \notin {"release", "complete"}
                             \/ request = "reserve" /\ s = "none"
                             \/ request = "renew" /\ s = "released"
       /\ request = "reserve" => became \notin {"none", "intent"}
       /\ request = "release" => became # "held" /\ (s = "held" => became = "released")
  <2>1. /\ s \notin {"none", "intent"} => became \notin {"none", "intent"}
        /\ s = "intent" => became # "none"
        /\ s = "completed" => became = "completed"
        /\ became = "completed" => s = "completed" \/ request = "complete"
    BY <1>10
  <2>2. /\ s = "released" => became = "released" \/ request = "renew"
        /\ became = "held" => \/ s = "held" /\ request \notin {"release", "complete"}
                              \/ request = "reserve" /\ s = "none"
                              \/ request = "renew" /\ s = "released"
    BY <1>10
  <2>3. s \notin {"none", "intent"} /\ c = "paid" => chosen = "paid"
    BY <1>1, <1>2, <1>4
  <2>4. /\ request = "reserve" => became \notin {"none", "intent"}
        /\ request = "release" => became # "held" /\ (s = "held" => became = "released")
    BY <1>1, <1>10
  <2> QED
    BY <2>1, <2>2, <2>3, <2>4
<1>12. \A j \in Mix(b)!Keys :
               /\ x1[j].status \notin {"none", "intent"} => x1'[j].status \notin {"none", "intent"}
               /\ x1[j].status = "intent" => x1'[j].status # "none"
               /\ x1[j].status \notin {"none", "intent"} /\ x1[j].bucket = "paid" => x1'[j].bucket = "paid"
               /\ x1[j].status = "completed" => x1'[j].status = "completed"
               /\ x1'[j].status = "completed" => x1[j].status = "completed" \/ (j = k /\ request = "complete")
               /\ x1[j].status = "released" => x1'[j].status = "released" \/ (j = k /\ request = "renew")
               /\ x1'[j].status = "held" =>
                     \/ x1[j].status = "held" /\ ~(j = k /\ request \in {"release", "complete"})
                     \/ j = k /\ request = "reserve" /\ x1[k].status = "none"
                     \/ j = k /\ request = "renew" /\ x1[k].status = "released"
  <2>1. SUFFICES ASSUME NEW j \in Mix(b)!Keys, j = k
        PROVE  /\ x1[j].status \notin {"none", "intent"} => x1'[j].status \notin {"none", "intent"}
               /\ x1[j].status = "intent" => x1'[j].status # "none"
               /\ x1[j].status \notin {"none", "intent"} /\ x1[j].bucket = "paid" => x1'[j].bucket = "paid"
               /\ x1[j].status = "completed" => x1'[j].status = "completed"
               /\ x1'[j].status = "completed" => x1[j].status = "completed" \/ (j = k /\ request = "complete")
               /\ x1[j].status = "released" => x1'[j].status = "released" \/ (j = k /\ request = "renew")
               /\ x1'[j].status = "held" =>
                     \/ x1[j].status = "held" /\ ~(j = k /\ request \in {"release", "complete"})
                     \/ j = k /\ request = "reserve" /\ x1[k].status = "none"
                     \/ j = k /\ request = "renew" /\ x1[k].status = "released"
    BY <1>8
  <2>2. x1'[j].status = became /\ x1'[j].bucket = chosen /\ x1[j].status = s /\ x1[j].bucket = c
    BY <1>1, <1>2, <1>6, <1>8, <2>1
  <2> QED
    BY <1>1, <1>11, <2>1, <2>2
<1>13. /\ request = "reserve" => x1'[k].status \notin {"none", "intent"}
       /\ request = "release" => x1'[k].status # "held" /\ (x1[k].status = "held" => x1'[k].status = "released")
  BY <1>1, <1>6, <1>8, <1>11
<1> QED
  BY <1>8, <1>9, <1>12, <1>13

\* The rows are as before but for one a request is about; the page knows what
\* it holds.
LEMMA MixServed ==
  ASSUME NEW b, Mix(b)!MixIInv, UNCHANGED <<x2, x4, x6, x9, x10>>, x5' \subseteq Mix(b)!Keys,
         x1' \in Seq(Mix(b)!Leases), Mix(b)!Keys \subseteq Mix(b)!Keys', Mix(b)!Keys' \subseteq Mix(b)!Keys,
         \A j \in Mix(b)!Keys :
               /\ x1[j].status \notin {"none", "intent"} => x1'[j].status \notin {"none", "intent"}
               /\ x1[j].status \notin {"none", "intent"} /\ x1[j].bucket = "paid" => x1'[j].bucket = "paid"
               /\ x1[j].status = "completed" => x1'[j].status = "completed"
               /\ x1'[j].status = "completed" => x1[j].status = "completed" \/ (j = x4.own /\ x4.pc = "final")
               /\ x1[j].status = "released" => x1'[j].status = "released" \/ x4.pc # "letgod"
               /\ x1'[j].status = "held" =>
                     \/ x1[j].status = "held" /\ (j \in x5 => j \in x5')
                     \/ j \in {x2.active, x2.key} \cup x9,
         x3' \in Seq(Mix(b)!Ops)', Mix(b)!LineSound'
  PROVE  Mix(b)!MixIInv'
<1> USE DEF Mix!MixIInv
<1>1. /\ x4.own \in Mix(b)!Keys \cup {0} /\ 0 \notin Mix(b)!Keys /\ x2.pending \in Mix(b)!Keys \cup {0}
      /\ x5 \subseteq Mix(b)!Keys /\ x9 \subseteq Mix(b)!Keys /\ x10 \subseteq Mix(b)!Keys /\ DOMAIN x6 \subseteq Mix(b)!Keys
  BY MixPage, MixIds
<1>2. /\ Mix(b)!Keys' = Mix(b)!Keys /\ Mix(b)!Leases' = Mix(b)!Leases /\ Mix(b)!Shown' = Mix(b)!Shown
      /\ Mix(b)!Works' = Mix(b)!Works
  BY DEF Mix!Leases, Mix!Statuses, Mix!Buckets, Mix!Shown, Mix!Works, Mix!Places
<1>3. Mix(b)!MixKinds'
  BY <1>2 DEF Mix!MixKinds
<1>4. Mix(b)!WorkSound'
  BY DEF Mix!WorkSound, Mix!Nothing
<1>5. Mix(b)!OneInUse'
  <2>1. Mix(b)!InUse' = Mix(b)!InUse /\ x2'.key = x2.key /\ x9' = x9
    BY DEF Mix!InUse
  <2> QED
    BY <2>1 DEF Mix!OneInUse
<1>6. \A j : /\ Mix(b)!Real(j) => Mix(b)!Real(j)'
             /\ Mix(b)!PaidFor(j) => Mix(b)!PaidFor(j)'
  BY <1>2 DEF Mix!Real, Mix!PaidFor
<1>7. Mix(b)!LeaseSound'
  <2>1. \A j \in Mix(b)!InUse' : Mix(b)!Real(j)'
    BY <1>6 DEF Mix!LeaseSound, Mix!InUse
  <2>2. \A j \in DOMAIN x6' \cup x10' : Mix(b)!PaidFor(j)'
    BY <1>6 DEF Mix!LeaseSound
  <2>3. x2'.pending # 0 => x2'.pending \in Mix(b)!Keys' /\ x1'[x2'.pending].status \notin {"none", "intent"} /\ x1'[x2'.pending].bucket = "paid"
    BY DEF Mix!LeaseSound, Mix!PaidFor, Mix!Real
  <2>4. x4'.pc = "encode" => x4'.own \in Mix(b)!Keys' /\ x1'[x4'.own].status \notin {"none", "intent"} /\ x1'[x4'.own].bucket = "paid"
    BY DEF Mix!LeaseSound, Mix!PaidFor, Mix!Real
  <2>5. Mix(b)!Storing' => x4'.own \in DOMAIN x6' /\ x6'[x4'.own] = "pending-completion"
    BY DEF Mix!LeaseSound, Mix!Storing
  <2>6. /\ \A k \in DOMAIN x6' : x6'[k] = "completed" => x1'[k].status = "completed"
        /\ \A k \in x10' : x1'[k].status = "completed"
    BY <1>1 DEF Mix!LeaseSound
  <2>7. \A k \in Mix(b)!Keys' : x1'[k].status = "completed" => k \in DOMAIN x6' \cup x10'
    BY <1>2 DEF Mix!LeaseSound, Mix!Storing
  <2>8. /\ x4'.pc = "finald" => x1'[x4'.own].status = "completed"
        /\ x4'.pc = "letgod" => x1'[x4'.own].status = "released"
    <3>1. x4.pc \in {"finald", "letgod"} => x4.own \in Mix(b)!Keys
      BY <1>1 DEF Mix!WorkSound
    <3> QED
      BY <3>1 DEF Mix!LeaseSound
  <2> QED
    BY <2>1, <2>2, <2>3, <2>4, <2>5, <2>6, <2>7, <2>8 DEF Mix!LeaseSound, Mix!PaidFor, Mix!Real
<1>8. Mix(b)!Known'
  BY <1>1, <1>2 DEF Mix!Known, Mix!Held
<1> QED
  BY <1>3, <1>4, <1>5, <1>7, <1>8

LEMMA MixRequests ==
  ASSUME NEW b, Mix(b)!MixIInv, x3 # <<>>, NEW h, h = x3[1], Mix(b)!Request(h.at) # "none", h.answer = "none"
  PROVE  /\ h.id \in Mix(b)!Keys
         /\ Mix(b)!Request(h.at) \in {"reserve", "renew", "release", "complete"}
         /\ Mix(b)!Request(h.at) = "reserve" => /\ h.at \in Mix(b)!Looks
                                                /\ \/ x1[h.id].status # "none"
                                                   \/ h.id \in {x2.key} \cup x9
         /\ Mix(b)!Request(h.at) = "renew" => h.at = "renew" /\ h.op = "ensure" /\ h.id = x2.active /\ x4.pc = "ensure"
         /\ Mix(b)!Request(h.at) = "release" => \/ h.at \in Mix(b)!Drops
                                                \/ h.at = "letgo" /\ h.id = x4.own /\ x4.pc = "letgo"
         /\ Mix(b)!Request(h.at) = "complete" => h.at = "complete" /\ h.id = x4.own /\ x4.pc = "final"
<1>1. /\ Mix(b)!HeadSound(h) /\ Mix(b)!Queued(h) /\ h.op \in {"ensure", "release", "letgo", "complete"}
      /\ h.id \in Mix(b)!Keys \cup {0} /\ h.at \in Mix(b)!Labels /\ 0 \notin Mix(b)!Keys
  BY MixHead, MixIds DEF Mix!MixIInv
<1>2. x4.pc \in {"letgo", "final"} => x4.own \in Mix(b)!Keys
  BY MixPage DEF Mix!MixIInv, Mix!WorkSound
<1>3. CASE h.at \in {"recover", "reserve"}
  <2>1. Mix(b)!Request(h.at) = "reserve" /\ h.at \in Mix(b)!Looks
    BY <1>3 DEF Mix!Request, Mix!Looks
  <2> QED
    BY <1>1, <2>1 DEF Mix!HeadSound, Mix!Real
<1>4. CASE h.at = "renew"
  <2>1. Mix(b)!Request(h.at) = "renew"
    BY <1>4 DEF Mix!Request
  <2>2. h.op = "ensure" /\ h.id = x2.active /\ Mix(b)!Real(h.id)
    BY <1>1, <1>4 DEF Mix!HeadSound
  <2> QED
    BY <1>1, <1>4, <2>1, <2>2 DEF Mix!Real, Mix!Queued
<1>5. CASE h.at \in {"recovered", "drop", "swap", "handback"}
  <2>1. Mix(b)!Request(h.at) = "release" /\ h.at \in Mix(b)!Drops
    BY <1>5 DEF Mix!Request, Mix!Drops
  <2> QED
    BY <1>1, <2>1 DEF Mix!HeadSound, Mix!Real
<1>6. CASE h.at = "letgo"
  <2>1. Mix(b)!Request(h.at) = "release"
    BY <1>6 DEF Mix!Request
  <2>2. h.op = "letgo"
    BY <1>1, <1>6 DEF Mix!HeadSound, Mix!Looks, Mix!Drops
  <2> QED
    BY <1>1, <1>2, <1>6, <2>1, <2>2 DEF Mix!Queued
<1>7. CASE h.at = "complete"
  <2>1. Mix(b)!Request(h.at) = "complete"
    BY <1>7 DEF Mix!Request
  <2>2. h.op = "complete"
    BY <1>1, <1>7 DEF Mix!HeadSound, Mix!Looks, Mix!Drops
  <2> QED
    BY <1>1, <1>2, <1>7, <2>1, <2>2 DEF Mix!Queued
<1>8. CASE h.at \in {"start", "fresh"}
  BY <1>8 DEF Mix!Request
<1> QED
  BY <1>1, <1>3, <1>4, <1>5, <1>6, <1>7, <1>8 DEF Mix!Labels

LEMMA MixServe == ASSUME NEW b, Mix(b)!MixIInv, Mix(b)!Serve PROVE Mix(b)!MixIInv'
<1>1. PICK h : h = x3[1]
  OBVIOUS
<1>2. PICK request : request = Mix(b)!Request(h.at)
  OBVIOUS
<1>3. /\ x3 # <<>> /\ request # "none" /\ h.answer = "none" /\ UNCHANGED <<x2, x4, x5, x6, x9, x10>>
      /\ x3' = [x3 EXCEPT ![1].answer = Mix(b)!Says(request, h.id)]
  BY <1>1, <1>2 DEF Mix!Serve, Mix!Head1
<1>4. PICK bought \in {"free", "paid"} :
         /\ Mix(b)!Performs(request, h.id, bought)
         /\ (request = "reserve" /\ x1[h.id].status # "none") => bought = x1[h.id].bucket
         /\ (request = "renew") => bought \in {x1[h.id].bucket, "paid"}
  BY <1>1, <1>2 DEF Mix!Serve, Mix!Head1
<1>5. /\ h.id \in Mix(b)!Keys /\ request \in {"reserve", "renew", "release", "complete"}
      /\ request = "reserve" => h.at \in Mix(b)!Looks /\ (x1[h.id].status # "none" \/ h.id \in {x2.key} \cup x9)
      /\ request = "renew" => h.at = "renew" /\ h.op = "ensure" /\ h.id = x2.active /\ x4.pc = "ensure"
      /\ request = "release" => h.at \in Mix(b)!Drops \/ (h.at = "letgo" /\ h.id = x4.own /\ x4.pc = "letgo")
      /\ request = "complete" => h.at = "complete" /\ h.id = x4.own /\ x4.pc = "final"
  BY <1>1, <1>2, <1>3, MixRequests
<1>6. /\ x1' \in Seq(Mix(b)!Leases) /\ Mix(b)!Keys' = Mix(b)!Keys
      /\ \A j \in Mix(b)!Keys : j # h.id => x1'[j] = x1[j]
      /\ request = "reserve" => x1'[h.id].status \notin {"none", "intent"}
      /\ request = "release" => x1'[h.id].status # "held" /\ (x1[h.id].status = "held" => x1'[h.id].status = "released")
      /\ \A j \in Mix(b)!Keys :
            /\ x1[j].status \notin {"none", "intent"} => x1'[j].status \notin {"none", "intent"}
            /\ x1[j].status = "intent" => x1'[j].status # "none"
            /\ x1[j].status \notin {"none", "intent"} /\ x1[j].bucket = "paid" => x1'[j].bucket = "paid"
            /\ x1[j].status = "completed" => x1'[j].status = "completed"
            /\ x1'[j].status = "completed" => x1[j].status = "completed" \/ (j = h.id /\ request = "complete")
            /\ x1[j].status = "released" => x1'[j].status = "released" \/ (j = h.id /\ request = "renew")
            /\ x1'[j].status = "held" =>
                  \/ x1[j].status = "held"
                  \/ j = h.id /\ request = "reserve" /\ x1[h.id].status = "none"
                  \/ j = h.id /\ request = "renew"
  BY <1>3, <1>4, <1>5, MixPerforms DEF Mix!MixIInv
<1>7. x1'[h.id] \in Mix(b)!Leases /\ x1'[h.id].status \in Mix(b)!Statuses
  <2>1. h.id \in 1 .. Len(x1')
    BY <1>5, <1>6 DEF Mix!Keys
  <2>2. x1'[h.id] \in Mix(b)!Leases
    BY <1>6, <2>1, ElementOfSeq
  <2> QED
    BY <2>2 DEF Mix!Leases
<1>8. PICK answer \in Mix(b)!Statuses \cup {"refused"} : answer = Mix(b)!Says(request, h.id)
  BY <1>7 DEF Mix!Says
<1>9. /\ answer \in {x1'[h.id].status, "refused"}
      /\ request = "complete" /\ answer # "refused" => x1'[h.id].status = "completed"
      /\ request = "release" /\ answer # "refused" => x1'[h.id].status # "completed"
  BY <1>8 DEF Mix!Says
<1>10. /\ h \in Mix(b)!Ops /\ Mix(b)!HeadSound(h) /\ Mix(b)!Queued(h) /\ h.op \in {"ensure", "release", "letgo", "complete"}
       /\ h.at \in Mix(b)!Labels
  BY <1>1, <1>3, MixHead
<1>11. /\ Mix(b)!Ops \subseteq Mix(b)!Ops' /\ Mix(b)!Statuses' = Mix(b)!Statuses
  BY <1>5, <1>6 DEF Mix!Ops, Mix!Labels, Mix!Statuses
<1>12. ASSUME NEW o, o.op = h.op, o.at = h.at, o.id = h.id, o.answer = answer
       PROVE  Mix(b)!HeadSound(o)'
  <2>1. /\ h.op = "ensure" => h.at \in {"start", "fresh", "renew", "swap"} \cup Mix(b)!Looks \cup Mix(b)!Drops
        /\ h.op = "release" => h.at \in {"start", "drop", "recover", "recovered"}
        /\ h.op \in {"letgo", "complete"} => h.at \in {"start", h.op}
        /\ h.op = "ensure" /\ h.at \in {"drop", "swap", "renew"} => h.id = x2'.active
        /\ h.op = "ensure" /\ h.at \in Mix(b)!Looks \cup {"recovered", "handback"} => h.id = x2'.key /\ x2'.active = 0
    BY <1>3, <1>10 DEF Mix!HeadSound
  <2>2. h.at \notin {"start", "fresh"}
    BY <1>2, <1>3 DEF Mix!Request
  <2>3. h.at \in Mix(b)!Drops \cup {"renew"} => Mix(b)!Real(h.id)'
    BY <1>5, <1>6, <1>10 DEF Mix!HeadSound, Mix!Real
  <2>4. h.at \in Mix(b)!Looks => request = "reserve" /\ Mix(b)!Real(h.id)' /\ answer # "none"
    BY <1>2, <1>5, <1>6, <1>9 DEF Mix!Looks, Mix!Real, Mix!Request
  <2>5. h.at \in Mix(b)!Drops => request = "release" /\ ~Mix(b)!Held(h.id)'
    BY <1>2, <1>5, <1>6 DEF Mix!Drops, Mix!Held, Mix!Request
  <2>6. h.at = "letgo" /\ answer \notin {"none", "refused"} => x1'[h.id].status = "released"
    <3>1. SUFFICES ASSUME h.at = "letgo", answer \notin {"none", "refused"} PROVE x1'[h.id].status = "released"
      OBVIOUS
    <3>2. request = "release" /\ h.op = "letgo"
      BY <1>2, <1>10, <2>1, <3>1 DEF Mix!Request, Mix!Looks, Mix!Drops
    <3>3. h.id = x4.own /\ x4.own # 0
      BY <1>5, <1>10, <3>2, MixIds DEF Mix!Queued, Mix!MixIInv
    <3>4. x1[h.id].status \notin {"none", "intent"}
      BY <3>3, MixHeldOne DEF Mix!Real
    <3>5. x1'[h.id].status \notin {"none", "intent", "held", "completed"}
      BY <1>5, <1>6, <1>9, <3>1, <3>2, <3>4
    <3> QED
      BY <1>7, <3>5 DEF Mix!Statuses
  <2>7. h.at \in {"renew", "reserve"} /\ answer = "completed" => x1'[h.id].status = "completed"
    BY <1>9
  <2>8. h.at = "complete" /\ answer \notin {"none", "refused"} => x1'[h.id].status = "completed"
    BY <1>2, <1>9 DEF Mix!Request
  <2> QED
    BY <1>3, <1>5, <1>6, <1>12, <2>1, <2>2, <2>3, <2>4, <2>5, <2>6, <2>7, <2>8 DEF Mix!HeadSound
<1>13. PICK k : k = [h EXCEPT !.answer = answer]
  OBVIOUS
<1>14. x3' \in Seq(Mix(b)!Ops)' /\ Mix(b)!LineSound'
  <2>1. k \in Mix(b)!Ops' /\ k.op = h.op /\ k.at = h.at /\ k.id = h.id /\ k.mine = h.mine /\ k.answer = answer
    BY <1>10, <1>11, <1>13 DEF Mix!Ops
  <2>2. Mix(b)!HeadSound(k)'
    BY <1>12, <2>1
  <2>3. x3' = [x3 EXCEPT ![1] = k]
    BY <1>1, <1>3, <1>8, <1>13
  <2> QED
    BY <1>1, <1>3, <1>11, <2>1, <2>2, <2>3, MixLineTurns
<1>15. \A j \in Mix(b)!Keys :
               /\ x1[j].status \notin {"none", "intent"} => x1'[j].status \notin {"none", "intent"}
               /\ x1[j].status \notin {"none", "intent"} /\ x1[j].bucket = "paid" => x1'[j].bucket = "paid"
               /\ x1[j].status = "completed" => x1'[j].status = "completed"
               /\ x1'[j].status = "completed" => x1[j].status = "completed" \/ (j = x4.own /\ x4.pc = "final")
               /\ x1[j].status = "released" => x1'[j].status = "released" \/ x4.pc # "letgod"
               /\ x1'[j].status = "held" =>
                     \/ x1[j].status = "held" /\ (j \in x5 => j \in x5')
                     \/ j \in {x2.active, x2.key} \cup x9
  BY <1>3, <1>5, <1>6
<1>16. x5' \subseteq Mix(b)!Keys /\ UNCHANGED <<x2, x4, x6, x9, x10>> /\ x1' \in Seq(Mix(b)!Leases)
       /\ Mix(b)!Keys \subseteq Mix(b)!Keys' /\ Mix(b)!Keys' \subseteq Mix(b)!Keys
  BY <1>3, <1>6, MixPage DEF Mix!MixIInv
<1> QED
  BY <1>14, <1>15, <1>16, MixServed

LEMMA MixEnsureFresh == ASSUME NEW b, Mix(b)!MixIInv, Mix(b)!EnsureFresh PROVE Mix(b)!MixIInv'
<1>1. PICK h : h = x3[1]
  OBVIOUS
<1>2. x3 # <<>> /\ h.at = "fresh" /\ UNCHANGED <<x5, x6, x9, x10>>
  BY <1>1 DEF Mix!EnsureFresh, Mix!At, Mix!Head1
<1>3. /\ x2 \in Mix(b)!Shown /\ x2.active \in Mix(b)!Keys \cup {0} /\ x2.key \in Mix(b)!Keys \cup {0}
      /\ Mix(b)!HeadSound(h) /\ Mix(b)!Queued(h) /\ h.op \in {"ensure", "release", "letgo", "complete"}
      /\ 0 \notin Mix(b)!Keys /\ x4 \in Mix(b)!Works
  BY <1>1, <1>2, MixPage, MixHead, MixIds DEF Mix!MixIInv
<1>4. h.op = "ensure" /\ x4.pc = "ensure"
  BY <1>2, <1>3 DEF Mix!HeadSound, Mix!Looks, Mix!Drops, Mix!Queued
<1>5. CASE Mix(b)!Ends(FALSE, 0) /\ UNCHANGED <<x1, x2>>
  BY <1>1, <1>2, <1>3, <1>5, MixConcludes
<1>6. CASE x4' = x4 /\ x1' = x1 /\ x2.active # 0 /\ Mix(b)!Asks("swap", x2.active) /\ x2' = [x2 EXCEPT !.invalid = TRUE]
  <2>1. x2' \in Mix(b)!Shown /\ x2'.pending = x2.pending /\ x2'.active = x2.active /\ x2'.key = x2.key
    BY <1>3, <1>6 DEF Mix!Shown
  <2>2. ASSUME NEW o, o.op = h.op, o.at = "swap", o.id = x2.active, o.answer = "none" PROVE Mix(b)!HeadSound(o)'
    BY <1>4, <1>6, <2>1, <2>2, MixHeldOne, MixSame DEF Mix!HeadSound, Mix!Looks, Mix!Drops, Mix!Real
  <2>3. "swap" \in Mix(b)!Labels
    BY DEF Mix!Labels
  <2> QED
    BY <1>1, <1>2, <1>3, <1>4, <1>6, <2>1, <2>2, <2>3, MixAsks
<1>7. CASE x4' = x4 /\ x1' = x1 /\ x2.active # 0 /\ Mix(b)!Asks("renew", x2.active) /\ x2' = x2
  <2>1. ASSUME NEW o, o.op = h.op, o.at = "renew", o.id = x2.active, o.answer = "none" PROVE Mix(b)!HeadSound(o)'
    BY <1>4, <1>7, <2>1, MixHeldOne, MixSame DEF Mix!HeadSound, Mix!Looks, Mix!Drops, Mix!Real
  <2>2. "renew" \in Mix(b)!Labels
    BY DEF Mix!Labels
  <2> QED
    BY <1>1, <1>2, <1>3, <1>4, <1>7, <2>1, <2>2, MixAsks
<1>8. CASE x4' = x4 /\ x1' = x1 /\ x2.active = 0 /\ x2.key # 0 /\ Mix(b)!Asks("reserve", x2.key) /\ x2' = [x2 EXCEPT !.key = x2.key]
  <2>1. x2' \in Mix(b)!Shown /\ x2'.pending = x2.pending /\ x2'.active = x2.active /\ x2'.key = x2.key
    BY <1>3, <1>8 DEF Mix!Shown
  <2>2. ASSUME NEW o, o.op = h.op, o.at = "reserve", o.id = x2.key, o.answer = "none" PROVE Mix(b)!HeadSound(o)'
    BY <1>3, <1>4, <1>8, <2>1, <2>2, MixSame DEF Mix!HeadSound, Mix!Looks, Mix!Drops
  <2>3. "reserve" \in Mix(b)!Labels
    BY DEF Mix!Labels
  <2> QED
    BY <1>1, <1>2, <1>3, <1>4, <1>8, <2>1, <2>2, <2>3, MixAsks
<1>9. CASE /\ x4' = x4 /\ x2.active = 0 /\ x2.key = 0 /\ x1' = Append(x1, [status |-> "none", bucket |-> "free"])
           /\ x2' = [x2 EXCEPT !.key = Len(x1) + 1] /\ Mix(b)!Asks("reserve", Len(x1) + 1)
  <2> DEFINE id == Len(x1) + 1
  <2>1. PICK row : row = [status |-> "none", bucket |-> "free"]
    OBVIOUS
  <2>2. row \in Mix(b)!Leases /\ row.status = "none"
    BY <2>1 DEF Mix!Leases, Mix!Statuses, Mix!Buckets
  <2>3. /\ x1' \in Seq(Mix(b)!Leases) /\ Len(x1') = Len(x1) + 1 /\ x1'[id] = row
        /\ \A j \in 1 .. Len(x1) : x1'[j] = x1[j]
    BY <1>9, <2>1, <2>2, MixIds, AppendProperties DEF Mix!MixIInv
  <2>4. /\ Len(x1) \in Nat /\ Mix(b)!Keys' = Mix(b)!Keys \cup {id} /\ id \notin Mix(b)!Keys /\ id # 0
        /\ \A j \in Mix(b)!Keys : x1'[j] = x1[j]
    BY <2>3, MixIds DEF Mix!Keys, Mix!MixIInv
  <2>5. x2' \in Mix(b)!Shown' /\ x2'.pending = x2.pending /\ x2'.active = 0 /\ x2'.key = id
    BY <1>3, <1>9, <2>4 DEF Mix!Shown, Mix!Buckets
  <2>6. x2.pending = 0 /\ x4.own = 0 /\ x4.kind \in {"ai", "export"}
    BY <1>3, <1>4 DEF Mix!WorkSound, Mix!MixIInv, Mix!Works
  <2>7. /\ Mix(b)!Leases' = Mix(b)!Leases /\ Mix(b)!Works \subseteq Mix(b)!Works' /\ Mix(b)!Ops \subseteq Mix(b)!Ops'
    BY <2>4 DEF Mix!Leases, Mix!Statuses, Mix!Buckets, Mix!Works, Mix!Places, Mix!Ops, Mix!Labels
  <2>8. ASSUME NEW o, o.op = h.op, o.at = "reserve", o.id = id, o.answer = "none" PROVE Mix(b)!HeadSound(o)'
    BY <1>4, <2>4, <2>5, <2>8 DEF Mix!HeadSound, Mix!Looks, Mix!Drops
  <2>9. x3' \in Seq(Mix(b)!Ops)' /\ Mix(b)!LineSound'
    <3>1. PICK key \in Mix(b)!Keys' \cup {0} : key = id
      BY <2>4
    <3>2. "reserve" \in Mix(b)!Labels
      BY DEF Mix!Labels
    <3>3. \A o : o.op = x3[1].op /\ o.mine = x3[1].mine /\ o.at = "reserve" /\ o.id = key /\ o.answer = "none" => Mix(b)!HeadSound(o)'
      BY <1>1, <2>8, <3>1
    <3>4. x3[1].op \in {"ensure", "release"} /\ Mix(b)!Asks("reserve", key) /\ x4' = x4
      BY <1>1, <1>4, <1>9, <3>1
    <3> QED
      BY <1>2, <2>7, <3>2, <3>3, <3>4, MixLineAsks
  <2>10. Mix(b)!MixKinds'
    BY <1>2, <1>3, <1>9, <2>3, <2>4, <2>5, <2>7, <2>9 DEF Mix!MixKinds, Mix!MixIInv
  <2>11. Mix(b)!WorkSound'
    BY <1>9, <2>5 DEF Mix!WorkSound, Mix!MixIInv, Mix!Nothing
  <2>12. Mix(b)!OneInUse' /\ Mix(b)!InUse' = {}
    BY <1>9, <2>5, <2>6 DEF Mix!OneInUse, Mix!InUse
  <2>13. Mix(b)!LeaseSound'
    <3>1. \A j \in Mix(b)!Keys : Mix(b)!PaidFor(j) => Mix(b)!PaidFor(j)'
      BY <2>4 DEF Mix!PaidFor, Mix!Real
    <3>2. x10 \subseteq Mix(b)!Keys /\ DOMAIN x6 \subseteq Mix(b)!Keys
      BY MixPage DEF Mix!MixIInv
    <3>3. \A j \in DOMAIN x6' \cup x10' : Mix(b)!PaidFor(j)'
      BY <1>2, <3>1, <3>2 DEF Mix!LeaseSound, Mix!MixIInv
    <3>4. x4'.pc = "ensure" /\ x4'.kind # "retry" /\ x2'.pending = 0
      BY <1>4, <1>9, <2>5, <2>6
    <3>5. /\ \A j \in DOMAIN x6' : x6'[j] = "completed" => x1'[j].status = "completed"
          /\ \A j \in x10' : x1'[j].status = "completed"
      BY <1>2, <2>4, <3>2 DEF Mix!LeaseSound, Mix!MixIInv
    <3>6. \A j \in Mix(b)!Keys' : x1'[j].status = "completed" => j \in DOMAIN x6' \cup x10'
      BY <1>2, <2>2, <2>3, <2>4 DEF Mix!LeaseSound, Mix!MixIInv
    <3> QED
      BY <2>12, <3>3, <3>4, <3>5, <3>6 DEF Mix!LeaseSound, Mix!Storing
  <2>14. Mix(b)!Known'
    BY <1>2, <1>3, <1>4, <1>9, <2>2, <2>3, <2>4, <2>5, <2>6 DEF Mix!Known, Mix!Held, Mix!MixIInv
  <2> QED
    BY <2>10, <2>11, <2>12, <2>13, <2>14, <2>9 DEF Mix!MixIInv
<1> QED
  BY <1>1, <1>5, <1>6, <1>7, <1>8, <1>9 DEF Mix!EnsureFresh

\* A reservation that was held or not even made is released.
LEMMA MixFalls ==
  ASSUME NEW b, Mix(b)!MixIInv, UNCHANGED <<x2, x3, x4, x6, x9, x10>>, NEW k \in Mix(b)!Keys, x5 \ {k} \subseteq x5', x5' \subseteq x5,
         NEW status \in Mix(b)!Statuses, x1' = [x1 EXCEPT ![k].status = status],
         \/ x1[k].status = "held" /\ status = "released"
         \/ x1[k].status = "none" /\ status = "intent"
         \/ x1[k].status # "held" /\ status = x1[k].status
  PROVE  Mix(b)!MixIInv'
<1>1. PICK row : row = [x1[k] EXCEPT !.status = status]
  OBVIOUS
<1>2. row \in Mix(b)!Leases /\ row.status = status /\ row.bucket = x1[k].bucket /\ x1' = [x1 EXCEPT ![k] = row]
  BY <1>1, MixIds DEF Mix!Leases, Mix!MixIInv
<1>3. /\ x1' \in Seq(Mix(b)!Leases) /\ Mix(b)!Keys' = Mix(b)!Keys
      /\ \A j \in Mix(b)!Keys : x1'[j] = IF j = k THEN row ELSE x1[j]
  <2>1. x1 \in Seq(Mix(b)!Leases) /\ k \in 1 .. Len(x1)
    BY MixIds DEF Mix!Keys, Mix!MixIInv
  <2>2. PICK y : y = [x1 EXCEPT ![k] = row]
    OBVIOUS
  <2>3. /\ y \in Seq(Mix(b)!Leases) /\ Len(y) = Len(x1)
        /\ \A j \in 1 .. Len(x1) : y[j] = IF j = k THEN row ELSE x1[j]
    BY <1>2, <2>1, <2>2, ExceptSeq
  <2> QED
    BY <1>2, <2>2, <2>3 DEF Mix!Keys
<1>4. \A j \in Mix(b)!Keys :
         /\ x1[j].status \notin {"none", "intent"} => x1'[j].status \notin {"none", "intent"}
         /\ x1[j].status = "intent" => x1'[j].status # "none"
         /\ x1'[j].bucket = x1[j].bucket
         /\ x1[j].status = "completed" => x1'[j].status = "completed"
         /\ x1'[j].status = "completed" => x1[j].status = "completed"
         /\ x1[j].status = "released" => x1'[j].status = "released"
         /\ x1'[j].status = "held" => x1[j].status = "held" /\ j # k
  BY <1>2, <1>3
<1>5. Mix(b)!Keys \subseteq Mix(b)!Keys' /\ Mix(b)!Keys' \subseteq Mix(b)!Keys /\ Mix(b)!Ops \subseteq Mix(b)!Ops'
  BY <1>3 DEF Mix!Ops, Mix!Labels, Mix!Statuses
<1>6. ASSUME NEW o, x3 # <<>>, o = x3[1] PROVE Mix(b)!HeadSound(o)'
  <2>1. o.id \in Mix(b)!Keys /\ x1'[o.id].status = "held" => x1[o.id].status = "held" /\ (o.id = x2.pending => o.id = x2'.pending)
    BY <1>4
  <2>2. o.id \in Mix(b)!Keys /\ o.at \in Mix(b)!Looks /\ o.id \in {x2.key} \cup x9
            => x1'[o.id].status # "none" \/ o.id \in {x2'.key} \cup x9'
    OBVIOUS
  <2>3. o.id \in Mix(b)!Keys /\ o.op = "letgo" /\ x1[o.id].status = "released" => x1'[o.id].status = "released"
    BY <1>4
  <2>4. \A j \in Mix(b)!Keys : /\ x1[j].status \notin {"none", "intent"} => x1'[j].status \notin {"none", "intent"}
                               /\ x1[j].status = "intent" => x1'[j].status # "none"
                               /\ x1[j].status = "completed" => x1'[j].status = "completed"
    BY <1>4
  <2>5. o.op = "ensure" => x2'.active = x2.active /\ x2'.key = x2.key
    OBVIOUS
  <2> QED
    BY <1>5, <1>6, <2>1, <2>2, <2>3, <2>4, <2>5, MixHeadKept
<1>7. x3' \in Seq(Mix(b)!Ops)' /\ Mix(b)!LineSound'
  BY <1>5, <1>6, MixLineKept
<1>8. \A j \in Mix(b)!Keys :
               /\ x1[j].status \notin {"none", "intent"} => x1'[j].status \notin {"none", "intent"}
               /\ x1[j].status \notin {"none", "intent"} /\ x1[j].bucket = "paid" => x1'[j].bucket = "paid"
               /\ x1[j].status = "completed" => x1'[j].status = "completed"
               /\ x1'[j].status = "completed" => x1[j].status = "completed" \/ (j = x4.own /\ x4.pc = "final")
               /\ x1[j].status = "released" => x1'[j].status = "released" \/ x4.pc # "letgod"
               /\ x1'[j].status = "held" =>
                     \/ x1[j].status = "held" /\ (j \in x5 => j \in x5')
                     \/ j \in {x2.active, x2.key} \cup x9
  BY <1>4
<1>9. x5' \subseteq Mix(b)!Keys /\ UNCHANGED <<x2, x4, x6, x9, x10>>
  BY MixPage DEF Mix!MixIInv
<1> QED
  BY <1>3, <1>5, <1>7, <1>8, <1>9, MixServed

LEMMA MixBeaconArrives == ASSUME NEW b, Mix(b)!MixIInv, NEW k \in x5, Mix(b)!BeaconArrives(k) PROVE Mix(b)!MixIInv'
<1>1. k \in Mix(b)!Keys /\ x1[k].status \in Mix(b)!Statuses
  BY MixPage, MixIds DEF Mix!MixIInv
<1>2. PICK status \in Mix(b)!Statuses :
         status = IF x1[k].status = "held" THEN "released" ELSE IF x1[k].status = "none" THEN "intent" ELSE x1[k].status
  BY <1>1 DEF Mix!Statuses
<1>3. /\ x1' = [x1 EXCEPT ![k].status = status] /\ UNCHANGED <<x2, x3, x4, x6, x9, x10>>
      /\ x5 \ {k} \subseteq x5' /\ x5' \subseteq x5
  BY <1>2 DEF Mix!BeaconArrives
<1>4. \/ x1[k].status = "held" /\ status = "released"
      \/ x1[k].status = "none" /\ status = "intent"
      \/ x1[k].status # "held" /\ status = x1[k].status
  BY <1>2
<1> QED
  BY <1>1, <1>3, <1>4, MixFalls

LEMMA MixLapse == ASSUME NEW b, Mix(b)!MixIInv, NEW k \in Mix(b)!Keys, Mix(b)!Lapse(k) PROVE Mix(b)!MixIInv'
<1>1. PICK status \in Mix(b)!Statuses : status = "released"
  BY DEF Mix!Statuses
<1>2. /\ x1' = [x1 EXCEPT ![k].status = status] /\ UNCHANGED <<x2, x3, x4, x6, x9, x10>>
      /\ x5 \ {k} \subseteq x5' /\ x5' \subseteq x5 /\ x1[k].status = "held"
  BY <1>1 DEF Mix!Lapse, Mix!Held
<1> QED
  BY <1>1, <1>2, MixFalls

\* What a request leaves as it was.
LEMMA MixRows ==
  ASSUME NEW b, Mix(b)!MixIInv, UNCHANGED <<x6, x10>>, Mix(b)!Keys' = Mix(b)!Keys,
         \A j \in Mix(b)!Keys :
               /\ x1[j].status \notin {"none", "intent"} => x1'[j].status \notin {"none", "intent"}
               /\ x1[j].status \notin {"none", "intent"} /\ x1[j].bucket = "paid" => x1'[j].bucket = "paid"
               /\ x1[j].status = "completed" => x1'[j].status = "completed"
               /\ x1'[j].status = "completed" => x1[j].status = "completed" \/ (j = x4.own /\ x4.pc \in {"final", "again"})
  PROVE  /\ \A j : Mix(b)!Real(j) => Mix(b)!Real(j)'
         /\ \A j : Mix(b)!PaidFor(j) => Mix(b)!PaidFor(j)'
         /\ \A j \in DOMAIN x6' \cup x10' : Mix(b)!PaidFor(j)'
         /\ \A j \in DOMAIN x6' : x6'[j] = "completed" => x1'[j].status = "completed"
         /\ \A j \in x10' : x1'[j].status = "completed"
         /\ \A j \in Mix(b)!Keys' : x1'[j].status = "completed" => j \in DOMAIN x6' \cup x10'
<1> USE DEF Mix!MixIInv
<1>1. x10 \subseteq Mix(b)!Keys /\ DOMAIN x6 \subseteq Mix(b)!Keys
  BY MixPage
<1>2. /\ \A j : Mix(b)!Real(j) => Mix(b)!Real(j)'
      /\ \A j : Mix(b)!PaidFor(j) => Mix(b)!PaidFor(j)'
  BY DEF Mix!Real, Mix!PaidFor
<1>3. \A j \in DOMAIN x6' \cup x10' : Mix(b)!PaidFor(j)'
  BY <1>2 DEF Mix!LeaseSound
<1>4. /\ \A j \in DOMAIN x6' : x6'[j] = "completed" => x1'[j].status = "completed"
      /\ \A j \in x10' : x1'[j].status = "completed"
  BY <1>1 DEF Mix!LeaseSound
<1>5. \A j \in Mix(b)!Keys' : x1'[j].status = "completed" => j \in DOMAIN x6' \cup x10'
  BY DEF Mix!LeaseSound, Mix!Storing, Mix!WorkSound
<1> QED
  BY <1>2, <1>3, <1>4, <1>5

LEMMA MixRetryRenews == ASSUME NEW b, Mix(b)!MixIInv, Mix(b)!RetryRenews PROVE Mix(b)!MixIInv'
<1>1. x4.pc = "again" /\ UNCHANGED <<x5, x6, x10>>
  BY DEF Mix!RetryRenews
<1>2. /\ x4 \in Mix(b)!Works /\ x4.own \in Mix(b)!Keys /\ x4.own # 0 /\ x4.kind = "retry" /\ x4.own = x2.pending
      /\ x2 \in Mix(b)!Shown /\ x2.active \in {0, x4.own} /\ x2.key \in {0, x4.own} \cup x9 /\ x9 \subseteq Mix(b)!Keys
      /\ 0 \notin Mix(b)!Keys /\ x5 \subseteq Mix(b)!Keys
      /\ Mix(b)!PaidFor(x4.own) /\ x4.own \in DOMAIN x6 /\ x6[x4.own] = "pending-completion"
  <2>1. /\ x4 \in Mix(b)!Works /\ x4.own \in Mix(b)!Keys \cup {0} /\ x2 \in Mix(b)!Shown /\ x9 \subseteq Mix(b)!Keys
        /\ 0 \notin Mix(b)!Keys /\ x5 \subseteq Mix(b)!Keys
    BY MixPage, MixIds DEF Mix!MixIInv
  <2>2. x4.kind = "retry" /\ x4.own = x2.pending /\ x4.own # 0
    BY <1>1 DEF Mix!MixIInv, Mix!WorkSound
  <2>3. x2.active \in {0, x4.own} /\ x2.key \in {0, x4.own} \cup x9
    BY <2>2, MixHeldOne
  <2>4. Mix(b)!PaidFor(x4.own) /\ x4.own \in DOMAIN x6 /\ x6[x4.own] = "pending-completion"
    BY <2>2 DEF Mix!MixIInv, Mix!LeaseSound, Mix!Storing
  <2> QED
    BY <2>1, <2>2, <2>3, <2>4
<1>3. PICK k \in Mix(b)!Keys : k = x4.own
  BY <1>2
<1>4. PICK bought \in {"free", "paid"} : bought \in {x1[k].bucket, "paid"} /\ Mix(b)!Performs("renew", k, bought)
  <2>1. \A c \in {x1[k].bucket, "paid"} : c \in {"free", "paid"}
    BY MixIds DEF Mix!MixIInv, Mix!Buckets
  <2> QED
    BY <1>3, <2>1 DEF Mix!RetryRenews
<1>5. /\ x1' \in Seq(Mix(b)!Leases) /\ Mix(b)!Keys' = Mix(b)!Keys
      /\ \A j \in Mix(b)!Keys : j # k => x1'[j] = x1[j]
      /\ \A j \in Mix(b)!Keys :
            /\ x1[j].status \notin {"none", "intent"} => x1'[j].status \notin {"none", "intent"}
            /\ x1[j].status = "intent" => x1'[j].status # "none"
            /\ x1[j].status \notin {"none", "intent"} /\ x1[j].bucket = "paid" => x1'[j].bucket = "paid"
            /\ x1[j].status = "completed" => x1'[j].status = "completed"
            /\ x1'[j].status = "completed" => x1[j].status = "completed"
            /\ x1[j].status = "released" => x1'[j].status = "released" \/ j = k
            /\ x1'[j].status = "held" => x1[j].status = "held" \/ j = k
  BY <1>4, MixPerforms DEF Mix!MixIInv
<1>6. x9' = x9
  BY <1>2 DEF Mix!RetryRenews, Mix!OtherActive
<1>7. /\ Mix(b)!Leases' = Mix(b)!Leases /\ Mix(b)!Works' = Mix(b)!Works /\ Mix(b)!Ops' = Mix(b)!Ops /\ Mix(b)!Shown' = Mix(b)!Shown
  BY <1>5 DEF Mix!Leases, Mix!Statuses, Mix!Buckets, Mix!Works, Mix!Places, Mix!Ops, Mix!Labels, Mix!Shown
<1>8. /\ x2' \in Mix(b)!Shown /\ x2'.active \in {0, x2.active} /\ x2'.pending = x2.pending /\ x2'.key = x2.key
      /\ x4' \in Mix(b)!Works
      /\ x4'.pc = "idle" <=> x4' = Mix(b)!Nothing
      /\ \/ x4'.pc = "finald" /\ x4'.own = k /\ x4'.kind = "retry" /\ x1'[k].status = "completed" /\ x3' = x3
         \/ /\ x4'.pc = "final" /\ x4'.own = k /\ x4'.kind = "retry"
            /\ x3' = Append(x3, Mix(b)!Op("complete", k, TRUE))
         \/ x4' = Mix(b)!Nothing /\ x4'.pc = "idle" /\ x4'.kind = "none" /\ x4'.own = 0 /\ x3' = x3
  <2>1. CASE x1'[k].status = "completed" /\ x4' = [x4 EXCEPT !.pc = "finald"] /\ UNCHANGED <<x2, x3>>
    BY <1>2, <1>3, <2>1 DEF Mix!Works, Mix!Places, Mix!Nothing
  <2>2. CASE x2' = Mix(b)!Detached /\ x4' = [x4 EXCEPT !.pc = "final"] /\ x3' = Append(x3, Mix(b)!Op("complete", k, TRUE))
    <3>1. x2' \in Mix(b)!Shown /\ x2'.active = 0 /\ x2'.pending = x2.pending /\ x2'.key = x2.key
      BY <1>2, <2>2 DEF Mix!Detached, Mix!Shown
    <3> QED
      BY <1>2, <1>3, <2>2, <3>1 DEF Mix!Works, Mix!Places, Mix!Nothing
  <2>3. CASE x4' = Mix(b)!Nothing /\ UNCHANGED <<x2, x3>>
    BY <1>2, <2>3 DEF Mix!Works, Mix!Places, Mix!Nothing
  <2> QED
    BY <1>3, <2>1, <2>2, <2>3 DEF Mix!RetryRenews, Mix!Pc
<1>9. ASSUME NEW o, x3 # <<>>, o = x3[1] PROVE Mix(b)!HeadSound(o)'
  <2>1. o.op = "release"
    BY <1>1, <1>9, MixHead DEF Mix!Queued
  <2>2. o.id \in Mix(b)!Keys /\ x1'[o.id].status = "held"
            => (x1[o.id].status = "held" /\ (o.id = x2.pending => o.id = x2'.pending)) \/ (o.op = "release" /\ o.id = x2'.pending)
    BY <1>2, <1>3, <1>5, <1>8, <2>1
  <2>3. o.id \in Mix(b)!Keys /\ o.at \in Mix(b)!Looks /\ o.id \in {x2.key} \cup x9
            => x1'[o.id].status # "none" \/ o.id \in {x2'.key} \cup x9'
    BY <1>6, <1>8
  <2>4. \A j \in Mix(b)!Keys : /\ x1[j].status \notin {"none", "intent"} => x1'[j].status \notin {"none", "intent"}
                               /\ x1[j].status = "intent" => x1'[j].status # "none"
                               /\ x1[j].status = "completed" => x1'[j].status = "completed"
    BY <1>5
  <2>5. o.op = "ensure" => x2'.active = x2.active /\ x2'.key = x2.key
    BY <2>1
  <2>6. o.id \in Mix(b)!Keys /\ o.op = "letgo" /\ x1[o.id].status = "released" => x1'[o.id].status = "released"
    BY <2>1
  <2>7. Mix(b)!Keys \subseteq Mix(b)!Keys'
    BY <1>5
  <2> QED
    BY <1>9, <2>2, <2>3, <2>4, <2>5, <2>6, <2>7, MixHeadKept
<1>10. x3' \in Seq(Mix(b)!Ops)' /\ Mix(b)!LineSound'
  <2>1. CASE x3' = x3
    BY <1>1, <1>7, <1>9, <2>1, MixLineKept
  <2>2. CASE x4'.pc = "final" /\ x4'.own = k /\ x3' = Append(x3, Mix(b)!Op("complete", k, TRUE))
    <3>1. PICK q : q = Mix(b)!Op("complete", k, TRUE)
      OBVIOUS
    <3>2. q \in Mix(b)!Ops' /\ q.at = "start" /\ q.answer = "none" /\ q.op = "complete" /\ q.mine /\ q.id = k
      BY <1>7, <3>1 DEF Mix!Op, Mix!Ops, Mix!Labels, Mix!Statuses
    <3>3. Mix(b)!Queued(q)'
      BY <2>2, <3>2 DEF Mix!Queued
    <3> QED
      BY <1>1, <1>7, <1>9, <2>2, <3>1, <3>2, <3>3, MixLineGrows
  <2> QED
    BY <1>8, <2>1, <2>2
<1>11. Mix(b)!MixKinds'
  BY <1>1, <1>2, <1>5, <1>6, <1>7, <1>8, <1>10 DEF Mix!MixKinds, Mix!MixIInv
<1>12. Mix(b)!WorkSound'
  BY <1>2, <1>3, <1>8 DEF Mix!WorkSound, Mix!Nothing
<1>13. Mix(b)!OneInUse' /\ \A j \in Mix(b)!InUse' : j = k
  BY <1>2, <1>3, <1>6, <1>8 DEF Mix!OneInUse, Mix!InUse
<1>14. Mix(b)!LeaseSound'
  <2>1. /\ \A j : Mix(b)!Real(j) => Mix(b)!Real(j)'
        /\ \A j : Mix(b)!PaidFor(j) => Mix(b)!PaidFor(j)'
        /\ \A j \in DOMAIN x6' \cup x10' : Mix(b)!PaidFor(j)'
        /\ \A j \in DOMAIN x6' : x6'[j] = "completed" => x1'[j].status = "completed"
        /\ \A j \in x10' : x1'[j].status = "completed"
        /\ \A j \in Mix(b)!Keys' : x1'[j].status = "completed" => j \in DOMAIN x6' \cup x10'
    BY <1>1, <1>5, MixRows
  <2>2. Mix(b)!PaidFor(k)' /\ Mix(b)!Real(k)'
    BY <1>2, <1>3, <2>1 DEF Mix!PaidFor
  <2>3. \A j \in Mix(b)!InUse' : Mix(b)!Real(j)'
    BY <1>13, <2>2
  <2>4. x2'.pending = k
    BY <1>2, <1>3, <1>8
  <2>5. Mix(b)!Storing' => x4'.own = k /\ k \in DOMAIN x6' /\ x6'[k] = "pending-completion"
    BY <1>1, <1>2, <1>3, <1>8 DEF Mix!Storing
  <2>6. /\ x4'.pc \notin {"encode", "letgod"}
        /\ x4'.pc = "finald" => x1'[x4'.own].status = "completed"
    BY <1>8
  <2>7. k \in Mix(b)!Keys' /\ x1'[k].status \notin {"none", "intent"} /\ x1'[k].bucket = "paid"
    BY <2>2 DEF Mix!PaidFor, Mix!Real
  <2> QED
    BY <2>1, <2>3, <2>4, <2>5, <2>6, <2>7 DEF Mix!LeaseSound, Mix!PaidFor, Mix!Real
<1>15. Mix(b)!Known'
  <2>1. SUFFICES ASSUME NEW j \in Mix(b)!Keys, x1'[j].status = "held"
        PROVE  j \in x9' \cup x5' \cup {x2'.active, x2'.key, x2'.pending}
    BY <1>5 DEF Mix!Known, Mix!Held
  <2>2. CASE j = k
    BY <1>2, <1>3, <1>8, <2>2
  <2>3. CASE j # k
    <3>1. j \in x9 \cup x5 \cup {x2.active, x2.key, x2.pending}
      BY <1>1, <1>2, <1>3, <1>5, <2>1, <2>3 DEF Mix!Known, Mix!Held, Mix!MixIInv
    <3> QED
      BY <1>1, <1>2, <1>3, <1>6, <1>8, <2>3, <3>1
  <2> QED
    BY <2>2, <2>3
<1> QED
  BY <1>11, <1>12, <1>13, <1>14, <1>15, <1>10 DEF Mix!MixIInv

LEMMA MixPageHide == ASSUME NEW b, Mix(b)!MixIInv, Mix(b)!PageHide PROVE Mix(b)!MixIInv'
<1>1. /\ UNCHANGED <<x6, x10>> /\ x2' = [Mix(b)!Opened EXCEPT !.mounted = FALSE] /\ x3' = <<>> /\ x4' = Mix(b)!Nothing
      /\ x5' = x5 \cup Mix(b)!Beacon /\ x9' = x9 \cup {k \in DOMAIN x1' : x1'[k].status = "held"}
  BY DEF Mix!PageHide
<1>2. /\ x1' \in Seq(Mix(b)!Leases) /\ Mix(b)!Keys' = Mix(b)!Keys
      /\ \A j \in Mix(b)!Keys :
            /\ x1[j].status \notin {"none", "intent"} => x1'[j].status \notin {"none", "intent"}
            /\ x1[j].status \notin {"none", "intent"} /\ x1[j].bucket = "paid" => x1'[j].bucket = "paid"
            /\ x1[j].status = "completed" => x1'[j].status = "completed"
            /\ x1'[j].status = "completed" => x1[j].status = "completed" \/ (j = x4.own /\ x4.pc \in {"final", "again"})
  <2>1. CASE x1' = x1
    BY <2>1, MixSame, MixIds DEF Mix!MixIInv
  <2>2. CASE x3 # <<>> /\ Mix(b)!Request(x3[1].at) # "none" /\ x3[1].answer = "none"
             /\ \E c \in {x1[x3[1].id].bucket, "paid"} : Mix(b)!Performs(Mix(b)!Request(x3[1].at), x3[1].id, c)
    <3>1. PICK h : h = x3[1]
      OBVIOUS
    <3>2. PICK request : request = Mix(b)!Request(h.at)
      OBVIOUS
    <3>3. h.id \in Mix(b)!Keys /\ (request = "complete" => h.id = x4.own /\ x4.pc = "final")
      BY <2>2, <3>1, <3>2, MixRequests
    <3>4. PICK c \in {"free", "paid"} : c \in {x1[h.id].bucket, "paid"} /\ Mix(b)!Performs(request, h.id, c)
      <4>1. \A c \in {x1[h.id].bucket, "paid"} : c \in {"free", "paid"}
        BY <3>3, MixIds DEF Mix!MixIInv, Mix!Buckets
      <4> QED
        BY <2>2, <3>1, <3>2, <4>1
    <3>5. /\ x1' \in Seq(Mix(b)!Leases) /\ Mix(b)!Keys' = Mix(b)!Keys
          /\ \A j \in Mix(b)!Keys :
                /\ x1[j].status \notin {"none", "intent"} => x1'[j].status \notin {"none", "intent"}
                /\ x1[j].status \notin {"none", "intent"} /\ x1[j].bucket = "paid" => x1'[j].bucket = "paid"
                /\ x1[j].status = "completed" => x1'[j].status = "completed"
                /\ x1'[j].status = "completed" => x1[j].status = "completed" \/ (j = h.id /\ request = "complete")
      BY <3>3, <3>4, MixPerforms DEF Mix!MixIInv
    <3> QED
      BY <3>3, <3>5
  <2> QED
    BY <2>1, <2>2 DEF Mix!PageHide, Mix!Head1
<1>3. /\ x2'.active = 0 /\ x2'.key = 0 /\ x2'.pending = 0 /\ x2' \in Mix(b)!Shown'
      /\ x4'.pc = "idle" /\ x4'.kind = "none" /\ x4'.own = 0 /\ x4' \in Mix(b)!Works'
  BY <1>1 DEF Mix!Opened, Mix!Nothing, Mix!Shown, Mix!Works, Mix!Places
<1>4. x5' \subseteq Mix(b)!Keys /\ x9' \subseteq Mix(b)!Keys /\ DOMAIN x1' = Mix(b)!Keys
  <2>1. x5 \subseteq Mix(b)!Keys /\ x9 \subseteq Mix(b)!Keys /\ x2.active \in Mix(b)!Keys \cup {0} /\ x2.key \in Mix(b)!Keys \cup {0}
    BY MixPage DEF Mix!MixIInv
  <2>2. DOMAIN x1' = Mix(b)!Keys
    BY <1>2, LenProperties DEF Mix!Keys
  <2>3. Mix(b)!Beacon \subseteq Mix(b)!Keys
    BY <2>1 DEF Mix!Beacon
  <2> QED
    BY <1>1, <2>1, <2>2, <2>3
<1>5. Mix(b)!MixKinds'
  <2>1. x3' \in Seq(Mix(b)!Ops)'
    BY <1>1
  <2>2. Mix(b)!Leases' = Mix(b)!Leases
    BY DEF Mix!Leases, Mix!Statuses, Mix!Buckets
  <2>3. x10' \subseteq Mix(b)!Keys /\ DOMAIN x6' \subseteq Mix(b)!Keys
    BY <1>1, MixPage DEF Mix!MixIInv
  <2>4. \A k \in DOMAIN x6' : x6'[k] \in {"pending-completion", "completed"}
    BY <1>1 DEF Mix!MixIInv, Mix!MixKinds
  <2> QED
    BY <1>2, <1>3, <1>4, <2>1, <2>2, <2>3, <2>4 DEF Mix!MixKinds
<1>6. Mix(b)!WorkSound' /\ Mix(b)!OneInUse' /\ Mix(b)!InUse' = {}
  BY <1>1, <1>3 DEF Mix!WorkSound, Mix!OneInUse, Mix!InUse, Mix!Nothing
<1>7. Mix(b)!LeaseSound'
  <2>1. /\ \A j \in DOMAIN x6' \cup x10' : Mix(b)!PaidFor(j)'
        /\ \A j \in DOMAIN x6' : x6'[j] = "completed" => x1'[j].status = "completed"
        /\ \A j \in x10' : x1'[j].status = "completed"
        /\ \A j \in Mix(b)!Keys' : x1'[j].status = "completed" => j \in DOMAIN x6' \cup x10'
    BY <1>1, <1>2, MixRows
  <2>2. ~Mix(b)!Storing'
    BY <1>3 DEF Mix!Storing
  <2> QED
    BY <1>3, <1>6, <2>1, <2>2 DEF Mix!LeaseSound
<1>8. Mix(b)!LineSound'
  BY <1>1 DEF Mix!LineSound
<1>9. Mix(b)!Known'
  BY <1>1, <1>2, <1>4 DEF Mix!Known, Mix!Held
<1> QED
  BY <1>5, <1>6, <1>7, <1>8, <1>9 DEF Mix!MixIInv

\* The line while the page's work waits for nothing in it.
LEMMA MixLineWaits ==
  ASSUME NEW b, Mix(b)!MixIInv, x1' = x1, x4.pc \notin {"ensure", "letgo", "final"},
         \A j \in Mix(b)!Keys : j \in {x2.key} \cup x9 => x1[j].status # "none" \/ j \in {x2'.key} \cup x9',
         x2.pending # 0 /\ x1[x2.pending].status = "held" => x2'.pending = x2.pending,
         NEW name \in {"ensure", "letgo", "complete"}, NEW id \in Mix(b)!Keys \cup {0},
         \/ x3' = x3
         \/ x3' = Mix(b)!WithRelease(x3)
         \/ /\ x3' = Append(x3, Mix(b)!Op(name, id, TRUE))
            /\ name = "ensure" => x4'.pc = "ensure"
            /\ name = "letgo" => x4'.pc = "letgo" /\ x4'.own = id
            /\ name = "complete" => x4'.pc = "final" /\ x4'.own = id
  PROVE  x3' \in Seq(Mix(b)!Ops)' /\ Mix(b)!LineSound'
<1>1. Mix(b)!Ops' = Mix(b)!Ops
  BY MixSame
<1>2. ASSUME NEW o, x3 # <<>>, o = x3[1] PROVE Mix(b)!HeadSound(o)'
  <2>1. o.op = "release"
    BY <1>2, MixHead DEF Mix!Queued
  <2>2. o.op = "ensure" => x2'.active = x2.active /\ x2'.key = x2.key
    BY <2>1
  <2>3. o.id # 0 /\ o.id = x2.pending /\ x1[o.id].status = "held" => o.id = x2'.pending
    OBVIOUS
  <2>4. o.id \in Mix(b)!Keys /\ o.at \in Mix(b)!Looks /\ o.id \in {x2.key} \cup x9
            => x1[o.id].status # "none" \/ o.id \in {x2'.key} \cup x9'
    OBVIOUS
  <2> QED
    BY <1>2, <2>2, <2>3, <2>4, MixHeadStays
<1>3. CASE x3' = x3
  BY <1>1, <1>2, <1>3, MixLineKept
<1>4. CASE x3' = Mix(b)!WithRelease(x3)
  BY <1>1, <1>2, <1>4, MixLineReleases
<1>5. CASE /\ x3' = Append(x3, Mix(b)!Op(name, id, TRUE))
           /\ name = "ensure" => x4'.pc = "ensure"
           /\ name = "letgo" => x4'.pc = "letgo" /\ x4'.own = id
           /\ name = "complete" => x4'.pc = "final" /\ x4'.own = id
  <2>1. PICK q : q = Mix(b)!Op(name, id, TRUE)
    OBVIOUS
  <2>2. q \in Mix(b)!Ops' /\ q.at = "start" /\ q.answer = "none" /\ q.op = name /\ q.mine /\ q.id = id
    BY <1>1, <2>1 DEF Mix!Op, Mix!Ops, Mix!Labels, Mix!Statuses
  <2>3. Mix(b)!Queued(q)'
    BY <1>5, <2>2 DEF Mix!Queued
  <2>4. Mix(b)!Ops \subseteq Mix(b)!Ops' /\ x3' = Append(x3, q)
    BY <1>1, <1>5, <2>1
  <2> QED
    BY <1>2, <2>2, <2>3, <2>4, MixLineGrows
<1> QED
  BY <1>3, <1>4, <1>5

\* The line while nothing changes that it knows of.
LEMMA MixLineLeft ==
  ASSUME NEW b, Mix(b)!MixIInv, x1' = x1, x4'.pc = x4.pc, x4'.own = x4.own,
         x2'.active = x2.active, x2'.key = x2.key, x2'.pending = x2.pending, x9 \subseteq x9',
         x3' = x3 \/ x3' = Mix(b)!WithRelease(x3)
  PROVE  x3' \in Seq(Mix(b)!Ops)' /\ Mix(b)!LineSound'
<1>1. Mix(b)!Ops' = Mix(b)!Ops
  BY MixSame
<1>2. ASSUME NEW o, x3 # <<>>, o = x3[1] PROVE Mix(b)!HeadSound(o)'
  BY <1>2, MixHeadStays
<1>3. CASE x3' = x3
  BY <1>1, <1>2, <1>3, MixLineKept
<1>4. CASE x3' = Mix(b)!WithRelease(x3)
  BY <1>1, <1>2, <1>4, MixLineReleases
<1> QED
  BY <1>3, <1>4

\* A step that changes no reservation.
LEMMA MixActs ==
  ASSUME NEW b, Mix(b)!MixIInv, UNCHANGED <<x1, x5>>,
         x2' \in Mix(b)!Shown, x4' \in Mix(b)!Works, x3' \in Seq(Mix(b)!Ops)', Mix(b)!LineSound',
         x9' \subseteq Mix(b)!Keys, x10' \subseteq Mix(b)!Keys, DOMAIN x6' \subseteq Mix(b)!Keys,
         \A k \in DOMAIN x6' : x6'[k] \in {"pending-completion", "completed"},
         x4'.pc = "idle" <=> x4' = Mix(b)!Nothing,
         x4'.kind = "none" => x4'.pc = "idle",
         x4'.kind = "ai" => x4'.pc \in {"ensure", "ensured", "ensurex"},
         x4'.pc \in {"encode", "saved"} => x4'.kind = "export",
         x4'.pc = "again" => x4'.kind = "retry",
         x4'.kind \in {"retry", "discard"} => x4'.own = x2'.pending /\ x4'.pc \notin {"idle", "ensure", "ensured", "ensurex"},
         x4'.kind \in {"ai", "export"} => x2'.pending = 0,
         x4'.own = 0 <=> x4'.pc \in {"idle", "ensure", "ensurex"},
         \A j \in {x2'.active, x2'.pending, x4'.own} \ {0} : Mix(b)!Real(j),
         \A j, k \in {x2'.active, x2'.pending, x4'.own} \ {0} : j = k /\ x2'.key \in {0, k} \cup x9',
         \A j \in DOMAIN x6' \cup x10' : Mix(b)!PaidFor(j),
         \A j : j = x2'.pending /\ j # 0 => Mix(b)!PaidFor(j),
         \A j : j = x4'.own /\ x4'.pc = "encode" => Mix(b)!PaidFor(j),
         x4'.pc \in {"saved", "final", "finald", "finalx"} \/ x4'.kind = "retry"
            => x4'.own \in DOMAIN x6' /\ x6'[x4'.own] = "pending-completion",
         \A k \in DOMAIN x6' : x6'[k] = "completed" => x1[k].status = "completed",
         \A k \in x10' : x1[k].status = "completed",
         \A k \in Mix(b)!Keys : x1[k].status = "completed" => k \in DOMAIN x6' \cup x10',
         x4'.pc = "finald" => x1[x4'.own].status = "completed",
         x4'.pc = "letgod" => x1[x4'.own].status = "released",
         \A k \in Mix(b)!Keys : x1[k].status = "held" =>
            \/ k \in x9' \cup x5 \cup {x2'.active, x2'.key, x2'.pending}
            \/ (x4'.pc \in {"final", "finalx"} /\ k = x4'.own)
  PROVE  Mix(b)!MixIInv'
<1>1. /\ Mix(b)!Keys' = Mix(b)!Keys /\ Mix(b)!Leases' = Mix(b)!Leases /\ Mix(b)!Shown' = Mix(b)!Shown
      /\ Mix(b)!Works' = Mix(b)!Works
  BY MixSame
<1>2. Mix(b)!MixKinds'
  BY <1>1 DEF Mix!MixKinds, Mix!MixIInv
<1>3. Mix(b)!WorkSound'
  BY DEF Mix!WorkSound, Mix!Nothing
<1>4. Mix(b)!OneInUse'
  BY DEF Mix!OneInUse, Mix!InUse
<1>5. \A j : (Mix(b)!Real(j) => Mix(b)!Real(j)') /\ (Mix(b)!PaidFor(j) => Mix(b)!PaidFor(j)')
  BY <1>1 DEF Mix!Real, Mix!PaidFor
<1>6. Mix(b)!LeaseSound'
  <2>1. \A j \in Mix(b)!InUse' : Mix(b)!Real(j)'
    BY <1>5 DEF Mix!InUse
  <2>2. \A j \in DOMAIN x6' \cup x10' : Mix(b)!PaidFor(j)'
    BY <1>5
  <2>3. x2'.pending # 0 => x2'.pending \in Mix(b)!Keys' /\ x1'[x2'.pending].status \notin {"none", "intent"} /\ x1'[x2'.pending].bucket = "paid"
    BY <1>1 DEF Mix!PaidFor, Mix!Real
  <2>4. x4'.pc = "encode" => x4'.own \in Mix(b)!Keys' /\ x1'[x4'.own].status \notin {"none", "intent"} /\ x1'[x4'.own].bucket = "paid"
    BY <1>1 DEF Mix!PaidFor, Mix!Real
  <2>5. Mix(b)!Storing' => x4'.own \in DOMAIN x6' /\ x6'[x4'.own] = "pending-completion"
    BY DEF Mix!Storing
  <2>6. /\ \A k \in DOMAIN x6' : x6'[k] = "completed" => x1'[k].status = "completed"
        /\ \A k \in x10' : x1'[k].status = "completed"
        /\ \A k \in Mix(b)!Keys' : x1'[k].status = "completed" => k \in DOMAIN x6' \cup x10'
        /\ x4'.pc = "finald" => x1'[x4'.own].status = "completed"
        /\ x4'.pc = "letgod" => x1'[x4'.own].status = "released"
    BY <1>1
  <2> QED
    BY <2>1, <2>2, <2>3, <2>4, <2>5, <2>6 DEF Mix!LeaseSound, Mix!PaidFor, Mix!Real
<1>7. Mix(b)!Known'
  BY <1>1 DEF Mix!Known, Mix!Held
<1> QED
  BY <1>2, <1>3, <1>4, <1>6, <1>7 DEF Mix!MixIInv

\* What is stored, let go and handed over as it was.
LEMMA MixDoes ==
  ASSUME NEW b, Mix(b)!MixIInv, UNCHANGED <<x1, x5, x6, x9, x10>>,
         x2' \in Mix(b)!Shown, x4' \in Mix(b)!Works, x3' \in Seq(Mix(b)!Ops)', Mix(b)!LineSound',
         x4'.pc = "idle" <=> x4' = Mix(b)!Nothing,
         x4'.kind = "none" => x4'.pc = "idle",
         x4'.kind = "ai" => x4'.pc \in {"ensure", "ensured", "ensurex"},
         x4'.pc \in {"encode", "saved"} => x4'.kind = "export",
         x4'.pc = "again" => x4'.kind = "retry",
         x4'.kind \in {"retry", "discard"} => x4'.own = x2'.pending /\ x4'.pc \notin {"idle", "ensure", "ensured", "ensurex"},
         x4'.kind \in {"ai", "export"} => x2'.pending = 0,
         x4'.own = 0 <=> x4'.pc \in {"idle", "ensure", "ensurex"},
         \A j \in {x2'.active, x2'.pending, x4'.own} \ {0} : j \in {x2.active, x2.pending, x4.own},
         x2'.key \in {0, x2.key},
         \A j : j = x2'.pending /\ j # 0 => Mix(b)!PaidFor(j),
         \A j : j = x4'.own /\ x4'.pc = "encode" => Mix(b)!PaidFor(j),
         x4'.pc \in {"saved", "final", "finald", "finalx"} \/ x4'.kind = "retry"
            => x4'.own \in DOMAIN x6 /\ x6[x4'.own] = "pending-completion",
         x4'.pc = "finald" => x1[x4'.own].status = "completed",
         x4'.pc = "letgod" => x1[x4'.own].status = "released",
         \A k \in Mix(b)!Keys : x1[k].status = "held" /\ k \in {x2.active, x2.key, x2.pending, x4.own} =>
            \/ k \in x9 \cup x5 \cup {x2'.active, x2'.key, x2'.pending}
            \/ (x4'.pc \in {"final", "finalx"} /\ k = x4'.own)
            \/ (x4.pc \notin {"final", "finalx"} /\ k = x4.own /\ k \notin {x2.active, x2.key, x2.pending})
  PROVE  Mix(b)!MixIInv'
<1>1. /\ \A k \in {x2.active, x2.pending, x4.own} \ {0} : Mix(b)!Real(k)
      /\ \A j, k \in {x2.active, x2.pending, x4.own} \ {0} : j = k /\ x2.key \in {0, k} \cup x9
  BY DEF Mix!OneInUse, Mix!InUse, Mix!LeaseSound, Mix!MixIInv
<1>2. /\ \A j \in {x2'.active, x2'.pending, x4'.own} \ {0} : Mix(b)!Real(j)
      /\ \A j, k \in {x2'.active, x2'.pending, x4'.own} \ {0} : j = k /\ x2'.key \in {0, k} \cup x9'
  BY <1>1
<1>3. /\ x9' \subseteq Mix(b)!Keys /\ x10' \subseteq Mix(b)!Keys /\ DOMAIN x6' \subseteq Mix(b)!Keys
      /\ \A k \in DOMAIN x6' : x6'[k] \in {"pending-completion", "completed"}
  BY DEF Mix!MixKinds, Mix!MixIInv
<1>4. /\ \A j \in DOMAIN x6' \cup x10' : Mix(b)!PaidFor(j)
      /\ \A k \in DOMAIN x6' : x6'[k] = "completed" => x1[k].status = "completed"
      /\ \A k \in x10' : x1[k].status = "completed"
      /\ \A k \in Mix(b)!Keys : x1[k].status = "completed" => k \in DOMAIN x6' \cup x10'
  BY DEF Mix!LeaseSound, Mix!MixIInv
<1>5. \A k \in Mix(b)!Keys : x1[k].status = "held" =>
            \/ k \in x9' \cup x5 \cup {x2'.active, x2'.key, x2'.pending}
            \/ (x4'.pc \in {"final", "finalx"} /\ k = x4'.own)
  <2>1. SUFFICES ASSUME NEW k \in Mix(b)!Keys, x1[k].status = "held"
        PROVE  \/ k \in x9' \cup x5 \cup {x2'.active, x2'.key, x2'.pending}
               \/ (x4'.pc \in {"final", "finalx"} /\ k = x4'.own)
    OBVIOUS
  <2>2. \/ k \in x9 \cup x5 \cup {x2.active, x2.key, x2.pending}
        \/ (x4.pc \in {"final", "finalx"} /\ k = x4.own)
    BY <2>1, MixIds DEF Mix!Known, Mix!Held, Mix!MixIInv
  <2> QED
    BY <2>1, <2>2
<1>6. x4'.pc \in {"saved", "final", "finald", "finalx"} \/ x4'.kind = "retry"
            => x4'.own \in DOMAIN x6' /\ x6'[x4'.own] = "pending-completion"
  OBVIOUS
<1> QED
  BY <1>2, <1>3, <1>4, <1>5, <1>6, MixActs

LEMMA MixNow ==
  ASSUME NEW b, Mix(b)!MixIInv
  PROVE  /\ x4.pc = "idle" <=> x4 = Mix(b)!Nothing
         /\ x4.kind = "none" => x4.pc = "idle"
         /\ x4.kind = "ai" => x4.pc \in {"ensure", "ensured", "ensurex"}
         /\ x4.pc \in {"encode", "saved"} => x4.kind = "export"
         /\ x4.pc = "again" => x4.kind = "retry"
         /\ x4.kind \in {"retry", "discard"} => x4.own = x2.pending /\ x4.pc \notin {"idle", "ensure", "ensured", "ensurex"}
         /\ x4.kind \in {"ai", "export"} => x2.pending = 0
         /\ x4.own = 0 <=> x4.pc \in {"idle", "ensure", "ensurex"}
         /\ \A j : j = x2.pending /\ j # 0 => Mix(b)!PaidFor(j)
         /\ \A j : j = x4.own /\ x4.pc = "encode" => Mix(b)!PaidFor(j)
         /\ x4.pc \in {"saved", "final", "finald", "finalx"} \/ x4.kind = "retry"
               => x4.own \in DOMAIN x6 /\ x6[x4.own] = "pending-completion" /\ Mix(b)!PaidFor(x4.own)
         /\ x4.pc = "finald" => x1[x4.own].status = "completed"
         /\ x4.pc = "letgod" => x1[x4.own].status = "released"
BY DEF Mix!MixIInv, Mix!WorkSound, Mix!LeaseSound, Mix!Storing

LEMMA MixNothing ==
  ASSUME NEW b
  PROVE  /\ Mix(b)!Nothing.pc = "idle" /\ Mix(b)!Nothing.kind = "none" /\ Mix(b)!Nothing.own = 0
         /\ Mix(b)!Nothing \in Mix(b)!Works
BY DEF Mix!Nothing, Mix!Works, Mix!Places

\* The work ends and the page is left with what it had.
LEMMA MixStops ==
  ASSUME NEW b, Mix(b)!MixIInv, UNCHANGED <<x1, x5, x6, x9, x10>>, x4' = Mix(b)!Nothing,
         x2' \in Mix(b)!Shown, x3' \in Seq(Mix(b)!Ops)', Mix(b)!LineSound',
         \A j \in {x2'.active, x2'.pending} \ {0} : j \in {x2.active, x2.pending, x4.own},
         x2'.key \in {0, x2.key},
         \A j : j = x2'.pending /\ j # 0 => Mix(b)!PaidFor(j),
         \A k \in Mix(b)!Keys : x1[k].status = "held" /\ k \in {x2.active, x2.key, x2.pending, x4.own} =>
            \/ k \in x9 \cup x5 \cup {x2'.active, x2'.key, x2'.pending}
            \/ (x4.pc \notin {"final", "finalx"} /\ k = x4.own /\ k \notin {x2.active, x2.key, x2.pending})
  PROVE  Mix(b)!MixIInv'
<1>1. x4'.pc = "idle" /\ x4'.kind = "none" /\ x4'.own = 0 /\ x4' \in Mix(b)!Works
  BY MixNothing
<1> QED
  BY <1>1, MixDoes

LEMMA MixStartWork ==
  ASSUME NEW b, Mix(b)!MixIInv, NEW kind \in {"ai", "export"}, Mix(b)!StartWork(kind)
  PROVE  Mix(b)!MixIInv'
<1>1. /\ x4.pc = "idle" /\ x2.pending = 0 /\ UNCHANGED <<x1, x2, x5, x6, x9, x10>>
      /\ x4' = [pc |-> "ensure", kind |-> kind, own |-> 0, aborted |-> FALSE]
      /\ x3' = Append(x3, Mix(b)!Op("ensure", 0, TRUE))
  BY DEF Mix!StartWork, Mix!Outside
<1>2. /\ x4' \in Mix(b)!Works /\ x4'.pc = "ensure" /\ x4'.kind = kind /\ x4'.own = 0 /\ x4' # Mix(b)!Nothing
  BY <1>1 DEF Mix!Works, Mix!Places, Mix!Nothing
<1>3. x3' \in Seq(Mix(b)!Ops)' /\ Mix(b)!LineSound'
  BY <1>1, <1>2, MixLineWaits
<1>4. x2 \in Mix(b)!Shown /\ x4.own = 0
  BY <1>1, MixPage, MixNow DEF Mix!MixIInv
<1> QED
  BY <1>1, <1>2, <1>3, <1>4, MixDoes

LEMMA MixAiEnds == ASSUME NEW b, Mix(b)!MixIInv, Mix(b)!AiEnds PROVE Mix(b)!MixIInv'
<1>1. /\ x4.pc \in {"ensured", "ensurex"} /\ x4.kind = "ai" /\ UNCHANGED <<x1, x5, x6, x9, x10>> /\ x4' = Mix(b)!Nothing
      /\ (x2' = x2 /\ x3' = x3) \/ (x2' = [x2 EXCEPT !.invalid = TRUE] /\ x3' = Mix(b)!WithRelease(x3))
  BY DEF Mix!AiEnds
<1>2. x2 \in Mix(b)!Shown /\ x2.pending = 0
  BY <1>1, MixPage, MixNow DEF Mix!MixIInv
<1>3. x2' \in Mix(b)!Shown /\ x2'.active = x2.active /\ x2'.key = x2.key /\ x2'.pending = x2.pending
  BY <1>1, <1>2 DEF Mix!Shown
<1>4. x3' \in Seq(Mix(b)!Ops)' /\ Mix(b)!LineSound'
  <2>1. PICK name \in {"ensure", "letgo", "complete"} : TRUE
    OBVIOUS
  <2>2. PICK id \in Mix(b)!Keys \cup {0} : TRUE
    OBVIOUS
  <2> QED
    BY <1>1, <1>3, <2>1, <2>2, MixLineWaits
<1> QED
  BY <1>1, <1>2, <1>3, <1>4, MixStops

LEMMA MixExportEnsured == ASSUME NEW b, Mix(b)!MixIInv, Mix(b)!ExportEnsured PROVE Mix(b)!MixIInv'
<1>1. /\ x4.pc \in {"ensured", "ensurex"} /\ x4.kind = "export" /\ UNCHANGED <<x1, x2, x5, x6, x9, x10>>
      /\ \/ x4.pc = "ensurex" /\ x4' = Mix(b)!Nothing /\ x3' = x3
         \/ x4.pc = "ensured" /\ x4' = [x4 EXCEPT !.pc = "letgo"] /\ x3' = Append(x3, Mix(b)!Op("letgo", x4.own, TRUE))
         \/ x4.pc = "ensured" /\ Mix(b)!Savable(x4.own) /\ x4' = [x4 EXCEPT !.pc = "encode"] /\ x3' = x3
  BY DEF Mix!ExportEnsured, Mix!Outside, Mix!Pc
<1>2. x2 \in Mix(b)!Shown /\ x4 \in Mix(b)!Works /\ x4.own \in Mix(b)!Keys \cup {0} /\ x2.pending = 0
  BY <1>1, MixPage, MixNow DEF Mix!MixIInv
<1>3. CASE x4.pc = "ensurex" /\ x4' = Mix(b)!Nothing /\ x3' = x3
  <2>1. x3' \in Seq(Mix(b)!Ops)' /\ Mix(b)!LineSound'
    <3>1. PICK name \in {"ensure", "letgo", "complete"} : TRUE
      OBVIOUS
    <3> QED
      BY <1>1, <1>2, <1>3, <3>1, MixLineWaits
  <2> QED
    BY <1>1, <1>2, <1>3, <2>1, MixStops
<1>4. CASE x4.pc = "ensured" /\ x4' = [x4 EXCEPT !.pc = "letgo"] /\ x3' = Append(x3, Mix(b)!Op("letgo", x4.own, TRUE))
  <2>1. x4' \in Mix(b)!Works /\ x4'.pc = "letgo" /\ x4'.kind = "export" /\ x4'.own = x4.own /\ x4' # Mix(b)!Nothing /\ x4.own # 0
    BY <1>1, <1>2, <1>4, MixNow DEF Mix!Works, Mix!Places, Mix!Nothing
  <2>2. x3' \in Seq(Mix(b)!Ops)' /\ Mix(b)!LineSound'
    BY <1>1, <1>2, <1>4, <2>1, MixLineWaits
  <2> QED
    BY <1>1, <1>2, <1>4, <2>1, <2>2, MixDoes
<1>5. CASE x4.pc = "ensured" /\ Mix(b)!Savable(x4.own) /\ x4' = [x4 EXCEPT !.pc = "encode"] /\ x3' = x3
  <2>1. x4' \in Mix(b)!Works /\ x4'.pc = "encode" /\ x4'.kind = "export" /\ x4'.own = x4.own /\ x4' # Mix(b)!Nothing /\ x4.own # 0
    BY <1>1, <1>2, <1>5, MixNow DEF Mix!Works, Mix!Places, Mix!Nothing
  <2>2. x3' \in Seq(Mix(b)!Ops)' /\ Mix(b)!LineSound'
    <3>1. PICK name \in {"ensure", "letgo", "complete"} : TRUE
      OBVIOUS
    <3> QED
      BY <1>1, <1>2, <1>5, <3>1, MixLineWaits
  <2>3. Mix(b)!PaidFor(x4.own)
    BY <1>5, <2>1, MixHeldOne DEF Mix!PaidFor, Mix!Savable
  <2> QED
    BY <1>1, <1>2, <1>5, <2>1, <2>2, <2>3, MixDoes
<1> QED
  BY <1>1, <1>3, <1>4, <1>5

LEMMA MixEncodeFails == ASSUME NEW b, Mix(b)!MixIInv, Mix(b)!EncodeFails PROVE Mix(b)!MixIInv'
<1>1. /\ x4.pc \in {"encode", "saved"} /\ UNCHANGED <<x1, x2, x5, x6, x9, x10>>
      /\ x4' = [x4 EXCEPT !.pc = "letgo"] /\ x3' = Append(x3, Mix(b)!Op("letgo", x4.own, TRUE))
  BY DEF Mix!EncodeFails, Mix!Pc
<1>2. x2 \in Mix(b)!Shown /\ x4 \in Mix(b)!Works /\ x4.own \in Mix(b)!Keys \cup {0} /\ x4.kind = "export" /\ x2.pending = 0
  BY <1>1, MixPage, MixNow DEF Mix!MixIInv
<1>3. x4' \in Mix(b)!Works /\ x4'.pc = "letgo" /\ x4'.kind = "export" /\ x4'.own = x4.own /\ x4' # Mix(b)!Nothing /\ x4.own # 0
  BY <1>1, <1>2, MixNow DEF Mix!Works, Mix!Places, Mix!Nothing
<1>4. x3' \in Seq(Mix(b)!Ops)' /\ Mix(b)!LineSound'
  BY <1>1, <1>2, <1>3, MixLineWaits
<1> QED
  BY <1>1, <1>2, <1>3, <1>4, MixDoes

LEMMA MixSaved == ASSUME NEW b, Mix(b)!MixIInv, Mix(b)!Saved PROVE Mix(b)!MixIInv'
<1>1. /\ x4.pc = "saved" /\ UNCHANGED <<x1, x5, x6, x9, x10>>
  BY DEF Mix!Saved, Mix!Outside
<1>2. /\ x2 \in Mix(b)!Shown /\ x4 \in Mix(b)!Works /\ x4.own \in Mix(b)!Keys \cup {0} /\ x4.kind = "export" /\ x2.pending = 0
      /\ x4.own # 0 /\ x2.active \in {0, x4.own}
      /\ x4.own \in DOMAIN x6 /\ x6[x4.own] = "pending-completion"
  <2>1. x2 \in Mix(b)!Shown /\ x4 \in Mix(b)!Works /\ x4.own \in Mix(b)!Keys \cup {0}
    BY MixPage DEF Mix!MixIInv
  <2>2. x4.own # 0 /\ x4.kind = "export" /\ x2.pending = 0 /\ x4.own \in DOMAIN x6 /\ x6[x4.own] = "pending-completion"
    BY <1>1, MixNow
  <2> QED
    BY <2>1, <2>2, MixHeldOne
<1>3. x2' = Mix(b)!Detached /\ x4' = [x4 EXCEPT !.pc = "final"] /\ x3' = Append(x3, Mix(b)!Op("complete", x4.own, TRUE))
  BY <1>2 DEF Mix!Saved, Mix!OtherActive, Mix!Pc
<1>4. x2' \in Mix(b)!Shown /\ x2'.active = 0 /\ x2'.key = x2.key /\ x2'.pending = 0
  BY <1>2, <1>3 DEF Mix!Shown, Mix!Detached
<1>5. x4' \in Mix(b)!Works /\ x4'.pc = "final" /\ x4'.kind = "export" /\ x4'.own = x4.own /\ x4' # Mix(b)!Nothing
  BY <1>2, <1>3 DEF Mix!Works, Mix!Places, Mix!Nothing
<1>6. x3' \in Seq(Mix(b)!Ops)' /\ Mix(b)!LineSound'
  BY <1>1, <1>2, <1>3, <1>4, <1>5, MixLineWaits
<1> QED
  BY <1>1, <1>2, <1>4, <1>5, <1>6, MixDoes

LEMMA MixRetryFails == ASSUME NEW b, Mix(b)!MixIInv, Mix(b)!RetryFails PROVE Mix(b)!MixIInv'
<1>1. x4.pc = "again" /\ UNCHANGED <<x1, x2, x3, x5, x6, x9, x10>> /\ x4' = Mix(b)!Nothing
  BY DEF Mix!RetryFails
<1>2. x2 \in Mix(b)!Shown /\ x4.own = x2.pending
  BY <1>1, MixPage, MixNow DEF Mix!MixIInv
<1>3. x3' \in Seq(Mix(b)!Ops)' /\ Mix(b)!LineSound'
  <2>1. PICK name \in {"ensure", "letgo", "complete"} : TRUE
    OBVIOUS
  <2>2. PICK id \in Mix(b)!Keys \cup {0} : TRUE
    OBVIOUS
  <2> QED
    BY <1>1, <2>1, <2>2, MixLineWaits
<1>4. \A j : j = x2'.pending /\ j # 0 => Mix(b)!PaidFor(j)
  BY <1>1, MixNow
<1> QED
  BY <1>1, <1>2, <1>3, <1>4, MixStops

LEMMA MixDiscardPending == ASSUME NEW b, Mix(b)!MixIInv, Mix(b)!DiscardPending PROVE Mix(b)!MixIInv'
<1>1. /\ x4.pc = "idle" /\ x2.pending # 0 /\ UNCHANGED <<x1, x2, x5, x6, x9, x10>>
      /\ x4' = [pc |-> "letgo", kind |-> "discard", own |-> x2.pending, aborted |-> FALSE]
      /\ x3' = Append(x3, Mix(b)!Op("letgo", x2.pending, TRUE))
  BY DEF Mix!DiscardPending, Mix!Outside
<1>2. x2 \in Mix(b)!Shown /\ x2.pending \in Mix(b)!Keys \cup {0} /\ x4.own = 0
  BY <1>1, MixPage, MixNow DEF Mix!MixIInv
<1>3. /\ x4' \in Mix(b)!Works /\ x4'.pc = "letgo" /\ x4'.kind = "discard" /\ x4'.own = x2.pending /\ x4' # Mix(b)!Nothing
  BY <1>1, <1>2 DEF Mix!Works, Mix!Places, Mix!Nothing
<1>4. x3' \in Seq(Mix(b)!Ops)' /\ Mix(b)!LineSound'
  BY <1>1, <1>2, <1>3, MixLineWaits
<1>5. \A j : j = x2'.pending /\ j # 0 => Mix(b)!PaidFor(j)
  BY <1>1, MixNow
<1> QED
  BY <1>1, <1>2, <1>3, <1>4, <1>5, MixDoes

\* The work goes on, called off or not, and the page knows what it did.
LEMMA MixCalledOff ==
  ASSUME NEW b, Mix(b)!MixIInv, UNCHANGED <<x1, x5, x6, x9, x10>>,
         NEW aborted \in BOOLEAN, x4' = [x4 EXCEPT !.aborted = aborted], x4.kind = "none" => aborted = x4.aborted,
         x2' \in Mix(b)!Shown, x2'.active = x2.active, x2'.key = x2.key, x2'.pending = x2.pending,
         x3' = x3 \/ x3' = Mix(b)!WithRelease(x3)
  PROVE  Mix(b)!MixIInv'
<1>1. x4 \in Mix(b)!Works /\ x4.own \in Mix(b)!Keys \cup {0} /\ x4.kind \in {"none", "ai", "export", "retry", "discard"}
  BY MixPage DEF Mix!MixIInv
<1>2. x4' \in Mix(b)!Works /\ x4'.pc = x4.pc /\ x4'.kind = x4.kind /\ x4'.own = x4.own
  BY <1>1 DEF Mix!Works
<1>3. x4'.pc = "idle" <=> x4' = Mix(b)!Nothing
  <2>1. CASE x4.kind = "none"
    <3>1. x4' = x4
      BY <1>1, <2>1 DEF Mix!Works
    <3> QED
      BY <3>1, MixNow
  <2>2. CASE x4.kind # "none"
    <3>1. x4 # Mix(b)!Nothing /\ x4' # Mix(b)!Nothing
      BY <1>2, <2>2, MixNothing
    <3>2. x4.pc = "idle" <=> x4 = Mix(b)!Nothing
      BY MixNow
    <3> QED
      BY <1>2, <3>1, <3>2
  <2> QED
    BY <2>1, <2>2
<1>4. x3' \in Seq(Mix(b)!Ops)' /\ Mix(b)!LineSound'
  BY <1>2, MixLineLeft
<1>5. /\ \A j : j = x2'.pending /\ j # 0 => Mix(b)!PaidFor(j)
      /\ \A j : j = x4'.own /\ x4'.pc = "encode" => Mix(b)!PaidFor(j)
  BY <1>2, MixNow
<1>6. /\ x4'.kind = "none" => x4'.pc = "idle"
      /\ x4'.kind = "ai" => x4'.pc \in {"ensure", "ensured", "ensurex"}
      /\ x4'.pc \in {"encode", "saved"} => x4'.kind = "export"
      /\ x4'.pc = "again" => x4'.kind = "retry"
      /\ x4'.kind \in {"retry", "discard"} => x4'.own = x2'.pending /\ x4'.pc \notin {"idle", "ensure", "ensured", "ensurex"}
      /\ x4'.kind \in {"ai", "export"} => x2'.pending = 0
      /\ x4'.own = 0 <=> x4'.pc \in {"idle", "ensure", "ensurex"}
      /\ x4'.pc \in {"saved", "final", "finald", "finalx"} \/ x4'.kind = "retry"
            => x4'.own \in DOMAIN x6 /\ x6[x4'.own] = "pending-completion"
      /\ x4'.pc = "finald" => x1[x4'.own].status = "completed"
      /\ x4'.pc = "letgod" => x1[x4'.own].status = "released"
  BY <1>2, MixNow
<1>7. \A k \in Mix(b)!Keys : x1[k].status = "held" /\ k \in {x2.active, x2.key, x2.pending, x4.own} =>
            \/ k \in x9 \cup x5 \cup {x2'.active, x2'.key, x2'.pending}
            \/ (x4'.pc \in {"final", "finalx"} /\ k = x4'.own)
            \/ (x4.pc \notin {"final", "finalx"} /\ k = x4.own /\ k \notin {x2.active, x2.key, x2.pending})
  BY <1>2
<1> QED
  BY <1>2, <1>3, <1>4, <1>5, <1>6, <1>7, MixDoes

LEMMA MixCancelWork == ASSUME NEW b, Mix(b)!MixIInv, Mix(b)!CancelWork PROVE Mix(b)!MixIInv'
<1>1. /\ x4.kind \in {"ai", "export"} /\ UNCHANGED <<x1, x2, x3, x5, x6, x9, x10>> /\ x4' = [x4 EXCEPT !.aborted = TRUE]
  BY DEF Mix!CancelWork, Mix!Outside
<1>2. x2 \in Mix(b)!Shown
  BY MixPage DEF Mix!MixIInv
<1>3. x4.kind # "none"
  BY <1>1
<1> QED
  BY <1>1, <1>2, <1>3, MixCalledOff

LEMMA MixSourcesChange ==
  ASSUME NEW b, Mix(b)!MixIInv, Mix(b)!ChangeSources \/ Mix(b)!ShownAgain
  PROVE  Mix(b)!MixIInv'
<1>1. /\ UNCHANGED <<x1, x4, x5, x6, x9, x10>> /\ x2' = [x2 EXCEPT !.invalid = TRUE] /\ x3' = Mix(b)!WithRelease(x3)
  BY DEF Mix!ChangeSources, Mix!ShownAgain, Mix!Outside
<1>2. x2 \in Mix(b)!Shown /\ x4 \in Mix(b)!Works /\ x4.aborted \in BOOLEAN
  BY MixPage DEF Mix!MixIInv
<1>3. x2' \in Mix(b)!Shown /\ x2'.active = x2.active /\ x2'.key = x2.key /\ x2'.pending = x2.pending
  BY <1>1, <1>2 DEF Mix!Shown
<1>4. PICK aborted \in BOOLEAN : aborted = x4.aborted
  BY <1>2
<1>5. x4' = [x4 EXCEPT !.aborted = aborted]
  BY <1>1, <1>2, <1>4 DEF Mix!Works
<1> QED
  BY <1>1, <1>3, <1>4, <1>5, MixCalledOff

LEMMA MixUnmount == ASSUME NEW b, Mix(b)!MixIInv, Mix(b)!Unmount PROVE Mix(b)!MixIInv'
<1>1. /\ UNCHANGED <<x1, x5, x6, x9, x10>> /\ x2' = [x2 EXCEPT !.mounted = FALSE, !.invalid = TRUE]
      /\ x4' = [x4 EXCEPT !.aborted = @ \/ (x4.pc # "idle" /\ x4.kind \in {"ai", "export"})]
      /\ x3' = Mix(b)!WithRelease(x3)
  BY DEF Mix!Unmount, Mix!Outside
<1>2. x2 \in Mix(b)!Shown /\ x4 \in Mix(b)!Works /\ x4.aborted \in BOOLEAN
  BY MixPage DEF Mix!MixIInv
<1>3. x2' \in Mix(b)!Shown /\ x2'.active = x2.active /\ x2'.key = x2.key /\ x2'.pending = x2.pending
  BY <1>1, <1>2 DEF Mix!Shown
<1>4. PICK aborted \in BOOLEAN : aborted = (x4.aborted \/ (x4.pc # "idle" /\ x4.kind \in {"ai", "export"}))
  BY <1>2
<1>5. x4' = [x4 EXCEPT !.aborted = aborted] /\ (x4.kind = "none" => aborted = x4.aborted)
  BY <1>1, <1>2, <1>4
<1> QED
  BY <1>1, <1>3, <1>5, MixCalledOff

\* A step after which the line stays as it is.
LEMMA MixLineStands ==
  ASSUME NEW b, Mix(b)!MixIInv, UNCHANGED <<x1, x3>>, x4.pc \notin {"ensure", "letgo", "final"},
         \A j \in Mix(b)!Keys : j \in {x2.key} \cup x9 => x1[j].status # "none" \/ j \in {x2'.key} \cup x9',
         x2.pending # 0 /\ x1[x2.pending].status = "held" => x2'.pending = x2.pending
  PROVE  x3' \in Seq(Mix(b)!Ops)' /\ Mix(b)!LineSound'
<1>1. PICK name \in {"ensure", "letgo", "complete"} : TRUE
  OBVIOUS
<1>2. PICK id \in Mix(b)!Keys \cup {0} : TRUE
  OBVIOUS
<1> QED
  BY <1>1, <1>2, MixLineWaits

\* One reservation in use, and what is stored of it.
LEMMA MixOwned ==
  ASSUME NEW b, Mix(b)!MixIInv, x4.own # 0
  PROVE  /\ x4.own \in Mix(b)!Keys /\ Mix(b)!Real(x4.own)
         /\ x2.active \in {0, x4.own} /\ x2.pending \in {0, x4.own} /\ x2.key \in {0, x4.own} \cup x9
<1>1. x4.own \in Mix(b)!Keys \cup {0}
  BY MixPage DEF Mix!MixIInv
<1> QED
  BY <1>1 DEF Mix!MixIInv, Mix!OneInUse, Mix!InUse, Mix!LeaseSound

LEMMA MixStored ==
  ASSUME NEW b, Mix(b)!MixIInv
  PROVE  /\ DOMAIN x6 \subseteq Mix(b)!Keys
         /\ x9 \subseteq Mix(b)!Keys /\ x10 \subseteq Mix(b)!Keys
         /\ \A k \in DOMAIN x6 : x6[k] \in {"pending-completion", "completed"}
         /\ \A j \in DOMAIN x6 \cup x10 : Mix(b)!PaidFor(j)
         /\ \A k \in DOMAIN x6 : x6[k] = "completed" => x1[k].status = "completed"
         /\ \A k \in x10 : x1[k].status = "completed"
         /\ \A k \in Mix(b)!Keys : x1[k].status = "completed" => k \in DOMAIN x6 \cup x10
         /\ \A j \in {x2.active, x2.pending, x4.own} \ {0} : Mix(b)!Real(j)
         /\ \A j, k \in {x2.active, x2.pending, x4.own} \ {0} : j = k /\ x2.key \in {0, k} \cup x9
         /\ \A k \in Mix(b)!Keys : x1[k].status = "held" =>
              \/ k \in x9 \cup x5 \cup {x2.active, x2.key, x2.pending}
              \/ (x4.pc \in {"final", "finalx"} /\ k = x4.own)
<1>1. \A k \in Mix(b)!Keys : x1[k].status = "held" =>
              \/ k \in x9 \cup x5 \cup {x2.active, x2.key, x2.pending}
              \/ (x4.pc \in {"final", "finalx"} /\ k = x4.own)
  BY MixIds DEF Mix!Known, Mix!Held, Mix!MixIInv
<1> QED
  BY <1>1 DEF Mix!MixIInv, Mix!MixKinds, Mix!LeaseSound, Mix!OneInUse, Mix!InUse

LEMMA MixEncoded == ASSUME NEW b, Mix(b)!MixIInv, Mix(b)!Encoded PROVE Mix(b)!MixIInv'
<1>1. x4.pc = "encode" /\ UNCHANGED <<x1, x3, x5, x9, x10>>
  BY DEF Mix!Encoded
<1>2. /\ x2 \in Mix(b)!Shown /\ x4 \in Mix(b)!Works /\ x4.kind = "export" /\ x2.pending = 0 /\ x4.own # 0 /\ Mix(b)!PaidFor(x4.own)
  BY <1>1, MixPage, MixNow DEF Mix!MixIInv
<1>3. x4.own \in Mix(b)!Keys /\ x2.active \in {0, x4.own} /\ x2.key \in {0, x4.own} \cup x9
  BY <1>2, MixOwned
<1>4. CASE /\ x6' = [k \in DOMAIN x6 \cup {x4.own} |-> IF k = x4.own THEN "pending-completion" ELSE x6[k]]
           /\ x4' = [x4 EXCEPT !.pc = "saved"] /\ x2' = x2
  <2>1. x4' \in Mix(b)!Works /\ x4'.pc = "saved" /\ x4'.kind = "export" /\ x4'.own = x4.own /\ x4' # Mix(b)!Nothing
    BY <1>2, <1>4 DEF Mix!Works, Mix!Places, Mix!Nothing
  <2>2. x3' \in Seq(Mix(b)!Ops)' /\ Mix(b)!LineSound'
    BY <1>1, <1>4, MixLineStands
  <2>3. /\ DOMAIN x6' = DOMAIN x6 \cup {x4.own} /\ x6'[x4.own] = "pending-completion"
        /\ \A k \in DOMAIN x6 : k # x4.own => x6'[k] = x6[k]
    BY <1>4
  <2>4. /\ DOMAIN x6' \subseteq Mix(b)!Keys
        /\ \A k \in DOMAIN x6' : x6'[k] \in {"pending-completion", "completed"}
        /\ \A j \in DOMAIN x6' \cup x10' : Mix(b)!PaidFor(j)
        /\ \A k \in DOMAIN x6' : x6'[k] = "completed" => x1[k].status = "completed"
        /\ \A k \in x10' : x1[k].status = "completed"
        /\ \A k \in Mix(b)!Keys : x1[k].status = "completed" => k \in DOMAIN x6' \cup x10'
    BY <1>1, <1>2, <1>3, <2>3, MixStored
  <2>5. /\ \A j \in {x2'.active, x2'.pending, x4'.own} \ {0} : Mix(b)!Real(j)
        /\ \A j, k \in {x2'.active, x2'.pending, x4'.own} \ {0} : j = k /\ x2'.key \in {0, k} \cup x9'
    <3>1. x2'.active = x2.active /\ x2'.pending = x2.pending /\ x4'.own = x4.own /\ x2'.key = x2.key /\ x9' = x9
      BY <1>1, <1>4, <2>1
    <3> QED
      BY <3>1, MixStored
  <2>7. x9' \subseteq Mix(b)!Keys /\ x10' \subseteq Mix(b)!Keys
    BY <1>1, MixStored
  <2>6. \A k \in Mix(b)!Keys : x1[k].status = "held" => k \in x9' \cup x5 \cup {x2'.active, x2'.key, x2'.pending}
    BY <1>1, <1>4, MixStored
  <2> QED
    BY <1>1, <1>2, <1>4, <2>1, <2>2, <2>3, <2>4, <2>5, <2>6, <2>7, MixActs
<1>5. CASE /\ x2' = [x2 EXCEPT !.pending = x4.own, !.active = x4.own] /\ x4' = Mix(b)!Nothing /\ x6' = x6
  <2>1. x2' \in Mix(b)!Shown /\ x2'.active = x4.own /\ x2'.pending = x4.own /\ x2'.key = x2.key
    BY <1>2, <1>3, <1>5 DEF Mix!Shown
  <2>2. x3' \in Seq(Mix(b)!Ops)' /\ Mix(b)!LineSound'
    BY <1>1, <1>2, <2>1, MixLineStands
  <2>3. \A k \in Mix(b)!Keys : x1[k].status = "held" /\ k \in {x2.active, x2.key, x2.pending, x4.own}
            => k \in {x2'.active, x2'.key, x2'.pending}
    BY <1>2, <1>3, <2>1, MixIds DEF Mix!MixIInv
  <2> QED
    BY <1>1, <1>2, <1>3, <1>5, <2>1, <2>2, <2>3, MixStops
<1> QED
  BY <1>4, <1>5 DEF Mix!Encoded, Mix!Pc

LEMMA MixFinalized == ASSUME NEW b, Mix(b)!MixIInv, Mix(b)!Finalized PROVE Mix(b)!MixIInv'
<1>1. x4.pc \in {"finald", "finalx"} /\ UNCHANGED <<x1, x3, x5, x9>> /\ x4' = Mix(b)!Nothing
  BY DEF Mix!Finalized, Mix!Outside
<1>2. /\ x2 \in Mix(b)!Shown /\ x4 \in Mix(b)!Works /\ x4.own # 0 /\ Mix(b)!PaidFor(x4.own)
      /\ x4.own \in DOMAIN x6 /\ x6[x4.own] = "pending-completion"
      /\ x4.kind \in {"none", "ai", "export", "retry", "discard"}
  <2>1. x2 \in Mix(b)!Shown /\ x4 \in Mix(b)!Works
    BY MixPage DEF Mix!MixIInv
  <2>2. x4.kind \in {"none", "ai", "export", "retry", "discard"}
    BY <2>1 DEF Mix!Works
  <2> QED
    BY <1>1, <2>1, <2>2, MixNow
<1>3. x4.own \in Mix(b)!Keys /\ x2.active \in {0, x4.own} /\ x2.pending \in {0, x4.own} /\ x2.key \in {0, x4.own} \cup x9
  BY <1>2, MixOwned
<1>4. CASE x4.pc = "finald"
  <2>1. /\ x6' = [k \in DOMAIN x6 |-> IF k = x4.own THEN "completed" ELSE x6[k]]
        /\ x10' = x10 \cup {x4.own} /\ x1[x4.own].status = "completed"
        /\ x2' = [x2 EXCEPT !.pending = 0, !.key = IF x4.kind = "export" THEN 0 ELSE @]
    BY <1>4, MixNow DEF Mix!Finalized
  <2>2. x2' \in Mix(b)!Shown /\ x2'.active = x2.active /\ x2'.pending = 0 /\ x2'.key \in {0, x2.key}
        /\ (x4.kind # "export" => x2'.key = x2.key)
    BY <1>2, <2>1 DEF Mix!Shown
  <2>3. x3' \in Seq(Mix(b)!Ops)' /\ Mix(b)!LineSound'
    <3>1. \A j \in Mix(b)!Keys : j \in {x2.key} \cup x9 => x1[j].status # "none" \/ j \in {x2'.key} \cup x9'
      BY <1>1, <1>2, <1>3, <2>1, <2>2
    <3>2. x2.pending # 0 /\ x1[x2.pending].status = "held" => x2'.pending = x2.pending
      BY <1>3, <2>1
    <3> QED
      BY <1>1, <1>4, <3>1, <3>2, MixLineStands
  <2>4. DOMAIN x6' = DOMAIN x6 /\ x6'[x4.own] = "completed" /\ \A k \in DOMAIN x6 : k # x4.own => x6'[k] = x6[k]
    BY <1>2, <2>1
  <2>5. /\ DOMAIN x6' \subseteq Mix(b)!Keys /\ x9' \subseteq Mix(b)!Keys /\ x10' \subseteq Mix(b)!Keys
        /\ \A k \in DOMAIN x6' : x6'[k] \in {"pending-completion", "completed"}
        /\ \A j \in DOMAIN x6' \cup x10' : Mix(b)!PaidFor(j)
        /\ \A k \in DOMAIN x6' : x6'[k] = "completed" => x1[k].status = "completed"
        /\ \A k \in x10' : x1[k].status = "completed"
        /\ \A k \in Mix(b)!Keys : x1[k].status = "completed" => k \in DOMAIN x6' \cup x10'
    BY <1>1, <1>2, <1>3, <2>1, <2>4, MixStored
  <2>6. /\ x4'.pc = "idle" /\ x4'.kind = "none" /\ x4'.own = 0 /\ x4' \in Mix(b)!Works
    BY <1>1, MixNothing
  <2>7. /\ \A j \in {x2'.active, x2'.pending, x4'.own} \ {0} : Mix(b)!Real(j)
        /\ \A j, k \in {x2'.active, x2'.pending, x4'.own} \ {0} : j = k /\ x2'.key \in {0, k} \cup x9'
    BY <1>1, <2>2, <2>6, MixStored
  <2>8. \A k \in Mix(b)!Keys : x1[k].status = "held" => k \in x9' \cup x5 \cup {x2'.active, x2'.key, x2'.pending}
    BY <1>1, <1>3, <1>4, <2>1, <2>2, MixStored
  <2> QED
    BY <1>1, <2>2, <2>3, <2>5, <2>6, <2>7, <2>8, MixActs
<1>5. CASE x4.pc = "finalx"
  <2>1. /\ x6' = x6 /\ x10' = x10
        /\ x2' = IF x4.kind = "export" THEN [x2 EXCEPT !.pending = x4.own, !.active = x4.own] ELSE x2
    BY <1>5 DEF Mix!Finalized
  <2>2. CASE x4.kind = "export"
    <3>1. x2' \in Mix(b)!Shown /\ x2'.active = x4.own /\ x2'.pending = x4.own /\ x2'.key = x2.key
      BY <1>2, <1>3, <2>1, <2>2 DEF Mix!Shown
    <3>2. x3' \in Seq(Mix(b)!Ops)' /\ Mix(b)!LineSound'
      BY <1>1, <1>2, <1>3, <1>5, <3>1, MixLineStands
    <3>3. \A k \in Mix(b)!Keys : x1[k].status = "held" /\ k \in {x2.active, x2.key, x2.pending, x4.own}
            => k \in {x2'.active, x2'.key, x2'.pending}
      BY <1>2, <1>3, <3>1, MixIds DEF Mix!MixIInv
    <3> QED
      BY <1>1, <1>2, <1>3, <2>1, <3>1, <3>2, <3>3, MixStops
  <2>3. CASE x4.kind # "export"
    <3>1. x2' = x2 /\ x4.own = x2.pending
      BY <1>1, <1>2, <2>1, <2>3, MixNow
    <3>2. x3' \in Seq(Mix(b)!Ops)' /\ Mix(b)!LineSound'
      BY <1>1, <1>5, <3>1, MixLineStands
    <3> QED
      BY <1>1, <1>2, <2>1, <3>1, <3>2, MixStops
  <2> QED
    BY <2>2, <2>3
<1> QED
  BY <1>1, <1>4, <1>5

LEMMA MixLetGo == ASSUME NEW b, Mix(b)!MixIInv, Mix(b)!LetGo PROVE Mix(b)!MixIInv'
<1>1. x4.pc \in {"letgod", "letgox"} /\ UNCHANGED <<x1, x3, x5, x9, x10>> /\ x4' = Mix(b)!Nothing
  BY DEF Mix!LetGo, Mix!Outside
<1>2. x2 \in Mix(b)!Shown /\ x4.own # 0
  BY <1>1, MixPage, MixNow DEF Mix!MixIInv
<1>3. x4.own \in Mix(b)!Keys /\ x2.active \in {0, x4.own} /\ x2.pending \in {0, x4.own} /\ x2.key \in {0, x4.own} \cup x9
  BY <1>2, MixOwned
<1>4. CASE x4.kind = "discard" /\ x4.pc = "letgod"
  <2>1. /\ x6' = [k \in DOMAIN x6 \ {x4.own} |-> x6[k]] /\ x2' = [x2 EXCEPT !.pending = 0, !.key = 0]
        /\ x1[x4.own].status = "released"
    BY <1>4, MixNow DEF Mix!LetGo
  <2>2. x2' \in Mix(b)!Shown /\ x2'.active = x2.active /\ x2'.pending = 0 /\ x2'.key = 0
    BY <1>2, <2>1 DEF Mix!Shown
  <2>3. x3' \in Seq(Mix(b)!Ops)' /\ Mix(b)!LineSound'
    <3>1. \A j \in Mix(b)!Keys : j \in {x2.key} \cup x9 => x1[j].status # "none" \/ j \in {x2'.key} \cup x9'
      BY <1>1, <1>3, <2>1
    <3>2. x2.pending # 0 /\ x1[x2.pending].status = "held" => x2'.pending = x2.pending
      BY <1>3, <2>1
    <3> QED
      BY <1>1, <3>1, <3>2, MixLineStands
  <2>4. DOMAIN x6' = DOMAIN x6 \ {x4.own} /\ \A k \in DOMAIN x6' : x6'[k] = x6[k]
    BY <2>1
  <2>5. /\ DOMAIN x6' \subseteq Mix(b)!Keys /\ x9' \subseteq Mix(b)!Keys /\ x10' \subseteq Mix(b)!Keys
        /\ \A k \in DOMAIN x6' : x6'[k] \in {"pending-completion", "completed"}
        /\ \A j \in DOMAIN x6' \cup x10' : Mix(b)!PaidFor(j)
        /\ \A k \in DOMAIN x6' : x6'[k] = "completed" => x1[k].status = "completed"
        /\ \A k \in x10' : x1[k].status = "completed"
        /\ \A k \in Mix(b)!Keys : x1[k].status = "completed" => k \in DOMAIN x6' \cup x10'
    BY <1>1, <1>3, <2>1, <2>4, MixStored
  <2>6. /\ x4'.pc = "idle" /\ x4'.kind = "none" /\ x4'.own = 0 /\ x4' \in Mix(b)!Works
    BY <1>1, MixNothing
  <2>7. /\ \A j \in {x2'.active, x2'.pending, x4'.own} \ {0} : Mix(b)!Real(j)
        /\ \A j, k \in {x2'.active, x2'.pending, x4'.own} \ {0} : j = k /\ x2'.key \in {0, k} \cup x9'
    BY <1>1, <2>2, <2>6, MixStored
  <2>8. \A k \in Mix(b)!Keys : x1[k].status = "held" => k \in x9' \cup x5 \cup {x2'.active, x2'.key, x2'.pending}
    BY <1>1, <1>3, <1>4, <2>1, <2>2, MixStored
  <2> QED
    BY <1>1, <2>2, <2>3, <2>5, <2>6, <2>7, <2>8, MixActs
<1>5. CASE ~(x4.kind = "discard" /\ x4.pc = "letgod")
  <2>1. x2' = x2 /\ x6' = x6
    BY <1>5 DEF Mix!LetGo
  <2>2. x3' \in Seq(Mix(b)!Ops)' /\ Mix(b)!LineSound'
    BY <1>1, <2>1, MixLineStands
  <2>3. \A j : j = x2'.pending /\ j # 0 => Mix(b)!PaidFor(j)
    BY <2>1, MixNow
  <2> QED
    BY <1>1, <1>2, <2>1, <2>2, <2>3, MixStops
<1> QED
  BY <1>4, <1>5

LEMMA MixRetryFinalize == ASSUME NEW b, Mix(b)!MixIInv, Mix(b)!RetryFinalize PROVE Mix(b)!MixIInv'
<1>1. /\ x4.pc = "idle" /\ x2.pending # 0 /\ UNCHANGED <<x1, x2, x3, x5, x9, x10>>
      /\ x4' = [pc |-> "again", kind |-> "retry", own |-> x2.pending, aborted |-> FALSE]
      /\ x6' = [k \in DOMAIN x6 \cup {x2.pending} |-> IF k = x2.pending THEN "pending-completion" ELSE x6[k]]
  BY DEF Mix!RetryFinalize, Mix!Outside
<1>2. x2 \in Mix(b)!Shown /\ x2.pending \in Mix(b)!Keys \cup {0} /\ Mix(b)!PaidFor(x2.pending) /\ x4.own = 0
  BY <1>1, MixPage, MixNow DEF Mix!MixIInv
<1>3. x4' \in Mix(b)!Works /\ x4'.pc = "again" /\ x4'.kind = "retry" /\ x4'.own = x2.pending /\ x4' # Mix(b)!Nothing
  BY <1>1, <1>2 DEF Mix!Works, Mix!Places, Mix!Nothing
<1>4. x3' \in Seq(Mix(b)!Ops)' /\ Mix(b)!LineSound'
  BY <1>1, MixLineStands
<1>5. /\ DOMAIN x6' = DOMAIN x6 \cup {x2.pending} /\ x6'[x2.pending] = "pending-completion"
      /\ \A k \in DOMAIN x6 : k # x2.pending => x6'[k] = x6[k]
  BY <1>1
<1>6. /\ DOMAIN x6' \subseteq Mix(b)!Keys
      /\ \A k \in DOMAIN x6' : x6'[k] \in {"pending-completion", "completed"}
      /\ \A j \in DOMAIN x6' \cup x10' : Mix(b)!PaidFor(j)
      /\ \A k \in DOMAIN x6' : x6'[k] = "completed" => x1[k].status = "completed"
      /\ \A k \in x10' : x1[k].status = "completed"
      /\ \A k \in Mix(b)!Keys : x1[k].status = "completed" => k \in DOMAIN x6' \cup x10'
  BY <1>1, <1>2, <1>5, MixStored
<1>7. /\ \A j \in {x2'.active, x2'.pending, x4'.own} \ {0} : Mix(b)!Real(j)
      /\ \A j, k \in {x2'.active, x2'.pending, x4'.own} \ {0} : j = k /\ x2'.key \in {0, k} \cup x9'
      /\ x9' \subseteq Mix(b)!Keys /\ x10' \subseteq Mix(b)!Keys
  BY <1>1, <1>3, MixStored
<1>8. \A k \in Mix(b)!Keys : x1[k].status = "held" => k \in x9' \cup x5 \cup {x2'.active, x2'.key, x2'.pending}
  BY <1>1, MixStored
<1> QED
  BY <1>1, <1>2, <1>3, <1>4, <1>5, <1>6, <1>7, <1>8, MixActs

LEMMA MixReopen == ASSUME NEW b, Mix(b)!MixIInv, Mix(b)!Reopen PROVE Mix(b)!MixIInv'
<1>1. /\ x3 = <<>> /\ x3' = <<>> /\ x4.pc = "idle" /\ UNCHANGED <<x1, x4, x5, x6, x10>> /\ x2' = Mix(b)!Opened
      /\ x9' = x9 \cup {k \in Mix(b)!Keys : Mix(b)!Held(k)}
  BY DEF Mix!Reopen
<1>2. /\ x2' \in Mix(b)!Shown /\ x2'.active = 0 /\ x2'.key = 0 /\ x2'.pending = 0
  BY <1>1 DEF Mix!Opened, Mix!Shown
<1>3. x3' \in Seq(Mix(b)!Ops)' /\ Mix(b)!LineSound'
  <2>1. x3' \in Seq(Mix(b)!Ops')
    BY <1>1, EmptySeq
  <2>2. DOMAIN x3' = {}
    BY <1>1
  <2> QED
    BY <1>1, <2>1, <2>2 DEF Mix!LineSound
<1>4. x4 \in Mix(b)!Works /\ x4 = Mix(b)!Nothing /\ x4.own = 0 /\ x4.kind = "none"
  BY <1>1, MixPage, MixNow, MixNothing DEF Mix!MixIInv
<1>5. /\ x9' \subseteq Mix(b)!Keys
      /\ \A k \in Mix(b)!Keys : x1[k].status = "held" => k \in x9' \cup x5 \cup {x2'.active, x2'.key, x2'.pending}
  <2>1. \A k \in Mix(b)!Keys : x1[k].status = "held" => Mix(b)!Held(k)
    BY MixIds DEF Mix!Held, Mix!MixIInv
  <2> QED
    BY <1>1, <2>1, MixStored
<1>6. {x2'.active, x2'.pending, x4'.own} \ {0} = {}
  BY <1>1, <1>2, <1>4
<1>7. /\ DOMAIN x6' \subseteq Mix(b)!Keys /\ x10' \subseteq Mix(b)!Keys
      /\ \A k \in DOMAIN x6' : x6'[k] \in {"pending-completion", "completed"}
      /\ \A j \in DOMAIN x6' \cup x10' : Mix(b)!PaidFor(j)
      /\ \A k \in DOMAIN x6' : x6'[k] = "completed" => x1[k].status = "completed"
      /\ \A k \in x10' : x1[k].status = "completed"
      /\ \A k \in Mix(b)!Keys : x1[k].status = "completed" => k \in DOMAIN x6' \cup x10'
  BY <1>1, MixStored
<1> QED
  BY <1>1, <1>2, <1>3, <1>4, <1>5, <1>6, <1>7, MixActs

LEMMA MixRecover ==
  ASSUME NEW b, Mix(b)!MixIInv, NEW k \in DOMAIN x6, Mix(b)!Recover(k)
  PROVE  Mix(b)!MixIInv'
<1>1. /\ x4.pc = "idle" /\ x2.pending = 0 /\ UNCHANGED <<x1, x3, x4, x5, x6>>
      /\ \/ /\ x6[k] = "pending-completion" /\ x2' = [x2 EXCEPT !.pending = k, !.active = k, !.bucket = "paid"]
            /\ x9' = (x9 \ {k}) \cup ({x2.active, x2.key} \ {0, k}) /\ x10' = x10
         \/ x6[k] # "pending-completion" /\ x10' = x10 \cup {k} /\ x2' = x2 /\ x9' = x9
  BY DEF Mix!Recover
<1>2. /\ x2 \in Mix(b)!Shown /\ x2.active \in Mix(b)!Keys \cup {0} /\ x2.key \in Mix(b)!Keys \cup {0}
      /\ x4 \in Mix(b)!Works /\ x4 = Mix(b)!Nothing /\ x4.own = 0 /\ x4.kind = "none"
  BY <1>1, MixPage, MixNow, MixNothing DEF Mix!MixIInv
<1>3. k \in Mix(b)!Keys /\ Mix(b)!PaidFor(k) /\ k # 0 /\ Mix(b)!Real(k) /\ x1[k].status # "none"
  <2>1. k \in Mix(b)!Keys /\ Mix(b)!PaidFor(k) /\ k # 0
    BY MixStored, MixIds DEF Mix!MixIInv
  <2> QED
    BY <2>1 DEF Mix!PaidFor, Mix!Real
<1>4. /\ DOMAIN x6' \subseteq Mix(b)!Keys /\ x9 \subseteq Mix(b)!Keys /\ x10 \subseteq Mix(b)!Keys
      /\ \A j \in DOMAIN x6' : x6'[j] \in {"pending-completion", "completed"}
      /\ \A j \in DOMAIN x6' \cup x10 : Mix(b)!PaidFor(j)
      /\ \A j \in DOMAIN x6' : x6'[j] = "completed" => x1[j].status = "completed"
      /\ \A j \in x10 : x1[j].status = "completed"
      /\ \A j \in Mix(b)!Keys : x1[j].status = "completed" => j \in DOMAIN x6' \cup x10
  BY <1>1, MixStored
<1>5. \A j \in Mix(b)!Keys : x1[j].status = "held" => j \in x9 \cup x5 \cup {x2.active, x2.key, x2.pending}
  BY <1>1, MixStored
<1>6. CASE /\ x6[k] = "pending-completion" /\ x2' = [x2 EXCEPT !.pending = k, !.active = k, !.bucket = "paid"]
           /\ x9' = (x9 \ {k}) \cup ({x2.active, x2.key} \ {0, k}) /\ x10' = x10
  <2>1. x2' \in Mix(b)!Shown /\ x2'.active = k /\ x2'.pending = k /\ x2'.key = x2.key
    BY <1>2, <1>3, <1>6 DEF Mix!Shown, Mix!Buckets
  <2>2. x3' \in Seq(Mix(b)!Ops)' /\ Mix(b)!LineSound'
    <3>1. \A j \in Mix(b)!Keys : j \in {x2.key} \cup x9 => x1[j].status # "none" \/ j \in {x2'.key} \cup x9'
      BY <1>3, <1>6, <2>1
    <3> QED
      BY <1>1, <2>1, <3>1, MixLineStands
  <2>3. /\ \A j \in {x2'.active, x2'.pending, x4'.own} \ {0} : Mix(b)!Real(j)
        /\ \A j, i \in {x2'.active, x2'.pending, x4'.own} \ {0} : j = i /\ x2'.key \in {0, i} \cup x9'
    BY <1>1, <1>2, <1>3, <1>6, <2>1
  <2>4. x9' \subseteq Mix(b)!Keys
    BY <1>2, <1>4, <1>6
  <2>5. \A j \in Mix(b)!Keys : x1[j].status = "held" => j \in x9' \cup x5 \cup {x2'.active, x2'.key, x2'.pending}
    <3>1. SUFFICES ASSUME NEW j \in Mix(b)!Keys, x1[j].status = "held"
                   PROVE  j \in x9' \cup x5 \cup {x2'.active, x2'.key, x2'.pending}
      OBVIOUS
    <3>2. j # 0
      BY MixIds DEF Mix!MixIInv
    <3> QED
      BY <1>1, <1>5, <1>6, <2>1, <3>1, <3>2
  <2> QED
    BY <1>1, <1>2, <1>3, <1>4, <1>6, <2>1, <2>2, <2>3, <2>4, <2>5, MixActs
<1>7. CASE x6[k] # "pending-completion" /\ x10' = x10 \cup {k} /\ x2' = x2 /\ x9' = x9
  <2>1. x1[k].status = "completed"
    BY <1>1, <1>4, <1>7
  <2>2. x3' \in Seq(Mix(b)!Ops)' /\ Mix(b)!LineSound'
    BY <1>1, <1>7, MixLineStands
  <2>3. /\ \A j \in {x2'.active, x2'.pending, x4'.own} \ {0} : Mix(b)!Real(j)
        /\ \A j, i \in {x2'.active, x2'.pending, x4'.own} \ {0} : j = i /\ x2'.key \in {0, i} \cup x9'
    BY <1>1, <1>7, MixStored
  <2>4. /\ x10' \subseteq Mix(b)!Keys
        /\ \A j \in DOMAIN x6' \cup x10' : Mix(b)!PaidFor(j)
        /\ \A j \in x10' : x1[j].status = "completed"
        /\ \A j \in Mix(b)!Keys : x1[j].status = "completed" => j \in DOMAIN x6' \cup x10'
    BY <1>3, <1>4, <1>7, <2>1
  <2> QED
    BY <1>1, <1>2, <1>4, <1>5, <1>7, <2>2, <2>3, <2>4, MixActs
<1> QED
  BY <1>1, <1>6, <1>7

LEMMA MixDeleteCopy ==
  ASSUME NEW b, Mix(b)!MixIInv, NEW k \in DOMAIN x6, Mix(b)!DeleteCopy(k)
  PROVE  Mix(b)!MixIInv'
<1>1. /\ k \in x10 /\ x6[k] = "completed" /\ UNCHANGED <<x1, x2, x3, x4, x5, x9, x10>>
      /\ x6' = [j \in DOMAIN x6 \ {k} |-> x6[j]]
  BY DEF Mix!DeleteCopy
<1>2. x2 \in Mix(b)!Shown /\ x4 \in Mix(b)!Works
  BY MixPage DEF Mix!MixIInv
<1>3. x3' \in Seq(Mix(b)!Ops)' /\ Mix(b)!LineSound'
  BY <1>1, MixLineLeft
<1>4. DOMAIN x6' = DOMAIN x6 \ {k} /\ \A j \in DOMAIN x6' : x6'[j] = x6[j]
  BY <1>1
<1>5. /\ DOMAIN x6' \subseteq Mix(b)!Keys /\ x9' \subseteq Mix(b)!Keys /\ x10' \subseteq Mix(b)!Keys
      /\ \A j \in DOMAIN x6' : x6'[j] \in {"pending-completion", "completed"}
      /\ \A j \in DOMAIN x6' \cup x10' : Mix(b)!PaidFor(j)
      /\ \A j \in DOMAIN x6' : x6'[j] = "completed" => x1[j].status = "completed"
      /\ \A j \in x10' : x1[j].status = "completed"
      /\ \A j \in Mix(b)!Keys : x1[j].status = "completed" => j \in DOMAIN x6' \cup x10'
  BY <1>1, <1>4, MixStored
<1>6. /\ \A j \in {x2'.active, x2'.pending, x4'.own} \ {0} : Mix(b)!Real(j)
      /\ \A j, i \in {x2'.active, x2'.pending, x4'.own} \ {0} : j = i /\ x2'.key \in {0, i} \cup x9'
  BY <1>1, MixStored
<1>7. \A j \in Mix(b)!Keys : x1[j].status = "held" =>
           \/ j \in x9' \cup x5 \cup {x2'.active, x2'.key, x2'.pending}
           \/ (x4'.pc \in {"final", "finalx"} /\ j = x4'.own)
  BY <1>1, MixStored
<1>8. /\ x4'.pc = "idle" <=> x4' = Mix(b)!Nothing
      /\ x4'.kind = "none" => x4'.pc = "idle"
      /\ x4'.kind = "ai" => x4'.pc \in {"ensure", "ensured", "ensurex"}
      /\ x4'.pc \in {"encode", "saved"} => x4'.kind = "export"
      /\ x4'.pc = "again" => x4'.kind = "retry"
      /\ x4'.kind \in {"retry", "discard"} => x4'.own = x2'.pending /\ x4'.pc \notin {"idle", "ensure", "ensured", "ensurex"}
      /\ x4'.kind \in {"ai", "export"} => x2'.pending = 0
      /\ x4'.own = 0 <=> x4'.pc \in {"idle", "ensure", "ensurex"}
      /\ x4'.pc = "finald" => x1[x4'.own].status = "completed"
      /\ x4'.pc = "letgod" => x1[x4'.own].status = "released"
  BY <1>1, MixNow
<1>9. /\ \A j : j = x2'.pending /\ j # 0 => Mix(b)!PaidFor(j)
      /\ \A j : j = x4'.own /\ x4'.pc = "encode" => Mix(b)!PaidFor(j)
  BY <1>1, MixNow
<1>10. x4'.pc \in {"saved", "final", "finald", "finalx"} \/ x4'.kind = "retry"
            => x4'.own \in DOMAIN x6' /\ x6'[x4'.own] = "pending-completion"
  <2>1. x4.pc \in {"saved", "final", "finald", "finalx"} \/ x4.kind = "retry"
            => x4.own \in DOMAIN x6 /\ x6[x4.own] = "pending-completion"
    BY MixNow
  <2>2. SUFFICES ASSUME x4.pc \in {"saved", "final", "finald", "finalx"} \/ x4.kind = "retry"
                 PROVE  x4.own \in DOMAIN x6' /\ x6'[x4.own] = "pending-completion"
    BY <1>1
  <2>3. x4.own # k
    BY <1>1, <2>1, <2>2
  <2> QED
    BY <1>4, <2>1, <2>2, <2>3
<1> QED
  BY <1>1, <1>2, <1>3, <1>5, <1>6, <1>7, <1>8, <1>9, <1>10, MixActs

LEMMA MixBegins == ASSUME NEW b, Mix(b)!Init PROVE Mix(b)!MixIInv
<1>1. /\ x1 = <<>> /\ x2 = Mix(b)!Opened /\ x3 = <<>> /\ x4 = Mix(b)!Nothing /\ x5 = {}
      /\ DOMAIN x6 = {} /\ x9 = {} /\ x10 = {}
  BY DEF Mix!Init
<1>2. Mix(b)!Keys = {} /\ x1 \in Seq(Mix(b)!Leases) /\ x3 \in Seq(Mix(b)!Ops) /\ DOMAIN x3 = {}
  BY <1>1, EmptySeq DEF Mix!Keys
<1>3. /\ x2.active = 0 /\ x2.key = 0 /\ x2.pending = 0 /\ x2 \in Mix(b)!Shown
  BY <1>1 DEF Mix!Opened, Mix!Shown
<1>4. /\ x4.pc = "idle" /\ x4.kind = "none" /\ x4.own = 0 /\ x4 \in Mix(b)!Works
  BY <1>1, MixNothing
<1>5. Mix(b)!MixKinds
  BY <1>1, <1>2, <1>3, <1>4 DEF Mix!MixKinds
<1>6. Mix(b)!InUse = {}
  BY <1>3, <1>4 DEF Mix!InUse
<1>7. Mix(b)!WorkSound /\ Mix(b)!OneInUse
  BY <1>1, <1>3, <1>4, <1>6 DEF Mix!WorkSound, Mix!OneInUse
<1>8. Mix(b)!LeaseSound
  BY <1>1, <1>2, <1>3, <1>4, <1>6 DEF Mix!LeaseSound, Mix!Storing
<1>9. Mix(b)!LineSound /\ Mix(b)!Known
  BY <1>1, <1>2 DEF Mix!LineSound, Mix!Known
<1> QED
  BY <1>5, <1>7, <1>8, <1>9 DEF Mix!MixIInv

LEMMA MixGoesOn == ASSUME NEW b, Mix(b)!MixIInv, Mix(b)!Next PROVE Mix(b)!MixIInv'
<1>1. CASE Mix(b)!Serve \/ Mix(b)!OpFails \/ Mix(b)!EnsureStart \/ Mix(b)!EnsureFresh \/ Mix(b)!Recovered \/ Mix(b)!EnsureRenewed
           \/ Mix(b)!EnsureReserved \/ Mix(b)!HandedBack
  BY <1>1, MixServe, MixOpFails, MixEnsureStart, MixEnsureFresh, MixRecovered, MixEnsureRenewed, MixEnsureReserved, MixHandedBack
<1>2. CASE x3 # <<>> /\ (Mix(b)!EnsureDropped \/ Mix(b)!ReleaseDone)
  BY <1>2, MixEnsureDropped, MixReleaseDone
<1>3. CASE Mix(b)!ReleaseStart \/ Mix(b)!NamedStart \/ Mix(b)!LetGoDone \/ Mix(b)!CompleteDone
  BY <1>3, MixReleaseStart, MixNamedStart, MixLetGoDone, MixCompleteDone
<1>4. ASSUME NEW kind \in {"ai", "export"}, Mix(b)!StartWork(kind) PROVE Mix(b)!MixIInv'
  BY <1>4, MixStartWork
<1>5. CASE Mix(b)!AiEnds \/ Mix(b)!ExportEnsured \/ Mix(b)!EncodeFails \/ Mix(b)!Encoded \/ Mix(b)!Saved \/ Mix(b)!Finalized \/ Mix(b)!LetGo
  BY <1>5, MixAiEnds, MixExportEnsured, MixEncodeFails, MixEncoded, MixSaved, MixFinalized, MixLetGo
<1>6. CASE Mix(b)!RetryFinalize \/ Mix(b)!RetryRenews \/ Mix(b)!RetryFails \/ Mix(b)!DiscardPending \/ Mix(b)!CancelWork
  BY <1>6, MixRetryFinalize, MixRetryRenews, MixRetryFails, MixDiscardPending, MixCancelWork
<1>7. CASE Mix(b)!ChangeSources \/ Mix(b)!ShownAgain \/ Mix(b)!Unmount \/ Mix(b)!PageHide \/ Mix(b)!Reopen
  BY <1>7, MixSourcesChange, MixUnmount, MixPageHide, MixReopen
<1>8. ASSUME NEW k \in x5, Mix(b)!BeaconArrives(k) PROVE Mix(b)!MixIInv'
  BY <1>8, MixBeaconArrives
<1>9. ASSUME NEW k \in DOMAIN x6, Mix(b)!Recover(k) \/ Mix(b)!DeleteCopy(k) PROVE Mix(b)!MixIInv'
  BY <1>9, MixRecover, MixDeleteCopy
<1>10. ASSUME NEW k \in Mix(b)!Keys, Mix(b)!Lapse(k) PROVE Mix(b)!MixIInv'
  BY <1>10, MixLapse
<1>11. CASE Mix(b)!LineStep
  BY <1>1, <1>2, <1>3, <1>11 DEF Mix!LineStep
<1>12. CASE Mix(b)!WorkStep
  BY <1>4, <1>5, <1>6, <1>12 DEF Mix!WorkStep
<1> QED
  BY <1>7, <1>8, <1>9, <1>10, <1>11, <1>12 DEF Mix!Next

LEMMA MixCardinality == ASSUME NEW b PROVE \A s : Mix(b)!Cardinality(s) = Cardinality(s)
  BY DEF Mix!Cardinality, Cardinality

LEMMA MixStands ==
  ASSUME NEW b, Mix(b)!MixIInv
  PROVE  Mix(b)!TypeOK /\ Mix(b)!NoneStranded /\ Mix(b)!AtMostOneHeld /\ Mix(b)!HandedOverIsPaid /\ Mix(b)!PaidIsKept
<1>1. Mix(b)!TypeOK
  <2>1. \A k \in Mix(b)!Keys : x1[k] \in [status : {"none", "intent", "held", "released", "completed"}, bucket : {"free", "paid"}]
    BY MixIds DEF Mix!MixIInv, Mix!Leases, Mix!Statuses, Mix!Buckets
  <2>2. {x2.active, x2.key, x2.pending, x4.own} \subseteq Mix(b)!Keys \cup {0}
    BY MixPage DEF Mix!MixIInv
  <2>3. x9 \cup x10 \cup DOMAIN x6 \cup x5 \subseteq Mix(b)!Keys
    BY DEF Mix!MixIInv, Mix!MixKinds
  <2> QED
    BY <2>1, <2>2, <2>3 DEF Mix!TypeOK
<1>2. Mix(b)!NoneStranded
  BY DEF Mix!NoneStranded, Mix!Known, Mix!MixIInv
<1>3. Mix(b)!AtMostOneHeld
  <2>1. PICK s : s = {k \in Mix(b)!Keys : Mix(b)!Held(k)} \ (x9 \cup x5)
    OBVIOUS
  <2>2. \A j, k \in s : j = k
    <3>1. SUFFICES ASSUME NEW j \in s, NEW k \in s PROVE j = k
      OBVIOUS
    <3>2. j # 0 /\ k # 0 /\ {j, k} \cap x9 = {} /\ {j, k} \subseteq {x2.active, x2.key, x2.pending, x4.own}
      BY <2>1, <3>1 DEF Mix!Known, Mix!MixIInv, Mix!Held
    <3>3. \A i, l \in {x2.active, x2.pending, x4.own} \ {0} : i = l /\ x2.key \in {0, l} \cup x9
      BY MixStored
    <3> QED
      BY <3>2, <3>3
  <2>3. CASE s = {}
    BY <2>1, <2>3, MixCardinality, FS_EmptySet DEF Mix!AtMostOneHeld
  <2>4. CASE s # {}
    <3>1. PICK k : s = {k}
      BY <2>2, <2>4
    <3>2. Cardinality(s) = 1
      BY <3>1, FS_Singleton
    <3> QED
      BY <2>1, <3>2, MixCardinality DEF Mix!AtMostOneHeld
  <2> QED
    BY <2>3, <2>4
<1>4. Mix(b)!HandedOverIsPaid
  <2>1. ASSUME NEW k \in x10 PROVE x1[k] = [status |-> "completed", bucket |-> "paid"]
    <3>1. k \in Mix(b)!Keys /\ x1[k].status = "completed" /\ x1[k].bucket = "paid"
      BY MixStored DEF Mix!PaidFor
    <3>2. x1[k] \in [status : Mix(b)!Statuses, bucket : Mix(b)!Buckets]
      BY <3>1, MixIds DEF Mix!MixIInv, Mix!Leases
    <3> QED
      BY <3>1, <3>2
  <2> QED
    BY <2>1 DEF Mix!HandedOverIsPaid
<1>5. Mix(b)!PaidIsKept
  BY MixStored DEF Mix!PaidIsKept
<1> QED
  BY <1>1, <1>2, <1>3, <1>4, <1>5

LEMMA MixStutters ==
  ASSUME NEW b, Mix(b)!MixIInv, UNCHANGED <<x1, x2, x3, x4, x5, x6, x7, x8, x9, x10>>
  PROVE  Mix(b)!MixIInv'
<1>1. /\ Mix(b)!Keys' = Mix(b)!Keys /\ Mix(b)!Leases' = Mix(b)!Leases /\ Mix(b)!Shown' = Mix(b)!Shown
      /\ Mix(b)!Works' = Mix(b)!Works
  BY MixSame
<1>2. x3' \in Seq(Mix(b)!Ops)' /\ Mix(b)!LineSound'
  BY MixLineLeft
<1>3. Mix(b)!MixKinds'
  BY <1>1, <1>2 DEF Mix!MixKinds, Mix!MixIInv
<1>4. Mix(b)!WorkSound' /\ Mix(b)!OneInUse'
  BY DEF Mix!WorkSound, Mix!Nothing, Mix!OneInUse, Mix!InUse, Mix!MixIInv
<1>5. Mix(b)!LeaseSound'
  BY <1>1 DEF Mix!LeaseSound, Mix!InUse, Mix!Real, Mix!PaidFor, Mix!Storing, Mix!MixIInv
<1>6. Mix(b)!Known'
  BY <1>1 DEF Mix!Known, Mix!Held, Mix!MixIInv
<1> QED
  BY <1>2, <1>3, <1>4, <1>5, <1>6 DEF Mix!MixIInv

-------------------------------------------------------------------------------
(* The editing page (Editing).                                              *)

EditingRows == [bucket : {"free", "paid"}, status : {"held", "completed", "released"}]
EditingTidy(b) == Editing(b)!EdCore /\ Editing(b)!EdTidy

\* What a step keeps: the core, and the rest unless a choice for a silent video
\* has gone astray.
EditingGoes(b) ==
  /\ x10 \subseteq x10' /\ Editing(b)!EdCore'
  /\ EditingTidy(b) /\ Editing(b)!Orderly' => Editing(b)!EdTidy'

LEMMA EditingCounts ==
  \A n \in Nat : n + 1 \in Nat /\ n <= n /\ n <= n + 1 /\ n # n + 1 /\ \A m \in Nat : m <= n => m <= n + 1 /\ m # n + 1
  OBVIOUS

LEMMA EditingIds ==
  ASSUME NEW b, Editing(b)!EdKinds
  PROVE  /\ x1 \in Seq(EditingRows) /\ Len(x1) \in Nat /\ DOMAIN x1 = Editing(b)!Ids
         /\ \A id \in Editing(b)!Ids : id \in Nat /\ id # 0 /\ x1[id] \in EditingRows
         /\ 0 \notin Editing(b)!Ids
<1>1. x1 \in Seq(EditingRows)
  BY DEF Editing!EdKinds, EditingRows
<1>2. Len(x1) \in Nat /\ DOMAIN x1 = 1 .. Len(x1)
  BY <1>1, LenProperties
<1>3. \A id \in 1 .. Len(x1) : x1[id] \in EditingRows
  BY <1>1, ElementOfSeq
<1>4. \A id \in 1 .. Len(x1) : id \in Nat /\ id # 0
  BY <1>2
<1> QED
  BY <1>1, <1>2, <1>3, <1>4 DEF Editing!Ids

\* What a request does to a reservation: completed and released are for good.
LEMMA EditingBecomes ==
  ASSUME NEW b, Editing(b)!EdKinds, NEW id \in Editing(b)!Ids, NEW status \in {"completed", "released"},
         Editing(b)!Becomes(id, status)
  PROVE  /\ x1' \in Seq(EditingRows) /\ Editing(b)!Ids' = Editing(b)!Ids
         /\ \A j \in Editing(b)!Ids : x1'[j].bucket = x1[j].bucket
         /\ \A j \in Editing(b)!Ids : j # id => x1'[j].status = x1[j].status
         /\ x1'[id].status = (IF x1[id].status = "held" THEN status ELSE x1[id].status)
<1>1. x1 \in Seq(EditingRows) /\ Len(x1) \in Nat /\ id # 0 /\ x1[id] \in EditingRows
  BY EditingIds
<1>2. PICK row : row = [x1[id] EXCEPT !.status = status]
  OBVIOUS
<1>3. row \in EditingRows /\ row.bucket = x1[id].bucket /\ row.status = status
  BY <1>1, <1>2 DEF EditingRows
<1>4. x1' = (IF x1[id].status = "held" THEN [x1 EXCEPT ![id] = row] ELSE x1)
  BY <1>1, <1>2 DEF Editing!Becomes, Editing!Held
<1>5. id \in 1 .. Len(x1)
  BY DEF Editing!Ids
<1>6. CASE x1[id].status = "held"
  <2>1. x1' = [x1 EXCEPT ![id] = row]
    BY <1>4, <1>6
  <2>2. x1' \in Seq(EditingRows) /\ Len(x1') = Len(x1) /\ \A j \in 1 .. Len(x1) : x1'[j] = IF j = id THEN row ELSE x1[j]
    BY <1>1, <1>3, <1>5, <2>1, ExceptSeq
  <2> QED
    BY <1>3, <1>5, <1>6, <2>2 DEF Editing!Ids
<1>7. CASE x1[id].status # "held"
  BY <1>1, <1>4, <1>7 DEF Editing!Ids
<1> QED
  BY <1>6, <1>7

LEMMA EditingReserved ==
  ASSUME NEW b, Editing(b)!EdKinds, NEW bucket \in {"free", "paid"}, Editing(b)!Reserved(bucket)
  PROVE  /\ x1' \in Seq(EditingRows) /\ Editing(b)!Ids \subseteq Editing(b)!Ids'
         /\ \A j \in Editing(b)!Ids : x1'[j] = x1[j]
         /\ Len(x1) + 1 \notin Editing(b)!Ids /\ Len(x1) + 1 # 0
         /\ Editing(b)!Ids' = Editing(b)!Ids \cup {Len(x1) + 1} /\ x1'[Len(x1) + 1].status = "held"
<1>1. x1 \in Seq(EditingRows) /\ Len(x1) \in Nat
  BY EditingIds
<1>2. PICK row : row = [bucket |-> bucket, status |-> "held"]
  OBVIOUS
<1>3. row \in EditingRows /\ row.status = "held"
  BY <1>2 DEF EditingRows
<1>4. x1' = Append(x1, row)
  BY <1>2 DEF Editing!Reserved
<1>5. x1' \in Seq(EditingRows) /\ Len(x1') = Len(x1) + 1 /\ x1'[Len(x1) + 1] = row /\ \A j \in 1 .. Len(x1) : x1'[j] = x1[j]
  BY <1>1, <1>3, <1>4, AppendProperties
<1>6. 1 .. Len(x1) + 1 = (1 .. Len(x1)) \cup {Len(x1) + 1} /\ Len(x1) + 1 \notin 1 .. Len(x1) /\ Len(x1) + 1 # 0
  BY <1>1
<1> QED
  BY <1>3, <1>5, <1>6 DEF Editing!Ids

\* A run under way, and what is known of it.
LEMMA EditingRunKind ==
  ASSUME NEW b, Editing(b)!EdCore, NEW i \in RunSlots, x3[i].pc # "idle"
  PROVE  x3[i] \in Editing(b)!RunStates /\ Editing(b)!RunCounts(x3[i]) /\ Editing(b)!Keeps(x3[i])
<1>1. x3[i] \in {Editing(b)!Idle} \cup Editing(b)!RunStates
  BY DEF Editing!EdCore, Editing!EdKinds
<1>2. Editing(b)!Idle.pc = "idle"
  BY DEF Editing!Idle
<1> QED
  BY <1>1, <1>2 DEF Editing!EdCore, Editing!RunsCount, Editing!RunsKeep

LEMMA EditingRun ==
  ASSUME NEW b, EditingTidy(b), NEW i \in RunSlots, x3[i].pc # "idle"
  PROVE  /\ x3[i] \in Editing(b)!RunStates /\ Editing(b)!RunSound(x3[i])
         /\ x3[i].pc = "reserved" => Editing(b)!Untold(x3[i].rid)
<1>1. x3[i] \in Editing(b)!RunStates
  BY EditingRunKind DEF EditingTidy
<1> QED
  BY <1>1 DEF EditingTidy, Editing!EdTidy, Editing!RunsSound

LEMMA EditingTypes ==
  ASSUME NEW b, Editing(b)!EdKinds, Editing(b)!Ids \subseteq Editing(b)!Ids'
  PROVE  /\ Editing(b)!RunStates \subseteq Editing(b)!RunStates' /\ Editing(b)!Accesses \subseteq Editing(b)!Accesses'
         /\ Editing(b)!Exports \subseteq Editing(b)!Exports' /\ Editing(b)!Shown \subseteq Editing(b)!Shown'
         /\ Editing(b)!Choices \subseteq Editing(b)!Choices'
<1>1. Editing(b)!RunStates \subseteq Editing(b)!RunStates'
  BY DEF Editing!RunStates
<1>2. Editing(b)!Accesses \subseteq Editing(b)!Accesses'
  BY DEF Editing!Accesses
<1>3. Editing(b)!Exports \subseteq Editing(b)!Exports'
  BY DEF Editing!Exports
<1>4. Editing(b)!Shown \subseteq Editing(b)!Shown'
  BY DEF Editing!Shown
<1>5. Editing(b)!Choices \subseteq Editing(b)!Choices'
  BY DEF Editing!Choices
<1> QED
  BY <1>1, <1>2, <1>3, <1>4, <1>5

LEMMA EditingAborted ==
  ASSUME NEW b, Editing(b)!EdKinds, NEW o
  PROVE  /\ o \in Editing(b)!RunStates => /\ Editing(b)!Abort(o) \in Editing(b)!RunStates /\ Editing(b)!Abort(o).aborted
                                     /\ \A f \in {"pc", "kind", "gen", "file", "own", "rid", "pending"} : Editing(b)!Abort(o)[f] = o[f]
         /\ o \in Editing(b)!Changes => /\ Editing(b)!Abort(o) \in Editing(b)!Changes /\ Editing(b)!Abort(o).aborted
                                        /\ \A f \in {"pc", "kind", "gen", "file"} : Editing(b)!Abort(o)[f] = o[f]
         /\ o \in Editing(b)!Exports => /\ Editing(b)!Abort(o) \in Editing(b)!Exports /\ Editing(b)!Abort(o).aborted
                                        /\ \A f \in {"pc", "gen", "ref", "rid"} : Editing(b)!Abort(o)[f] = o[f]
<1>1. ASSUME o \in Editing(b)!RunStates
      PROVE  /\ Editing(b)!Abort(o) \in Editing(b)!RunStates /\ Editing(b)!Abort(o).aborted
             /\ \A f \in {"pc", "kind", "gen", "file", "own", "rid", "pending"} : Editing(b)!Abort(o)[f] = o[f]
  BY <1>1 DEF Editing!RunStates, Editing!RunPlaces, Editing!Abort
<1>2. ASSUME o \in Editing(b)!Changes
      PROVE  /\ Editing(b)!Abort(o) \in Editing(b)!Changes /\ Editing(b)!Abort(o).aborted
             /\ \A f \in {"pc", "kind", "gen", "file"} : Editing(b)!Abort(o)[f] = o[f]
  BY <1>2 DEF Editing!Changes, Editing!Abort
<1>3. ASSUME o \in Editing(b)!Exports
      PROVE  /\ Editing(b)!Abort(o) \in Editing(b)!Exports /\ Editing(b)!Abort(o).aborted
             /\ \A f \in {"pc", "gen", "ref", "rid"} : Editing(b)!Abort(o)[f] = o[f]
  BY <1>3 DEF Editing!Exports, Editing!Abort
<1> QED
  BY <1>1, <1>2, <1>3

LEMMA EditingPage ==
  ASSUME NEW b, Editing(b)!EdKinds
  PROVE  /\ x2 \in Editing(b)!Shown /\ x2.gen \in Nat /\ x2.ref \in Editing(b)!Ids \cup {0} /\ x2.file \in Nat
         /\ x2.stage \in {"start", "setup", "processing", "result", "gone"}
         /\ x2.pending \in BOOLEAN /\ x2.finalizing \in BOOLEAN /\ x2.fallback \in BOOLEAN
         /\ x2.transcript \in Nat /\ x2.audio \in Nat
  BY DEF Editing!EdKinds, Editing!Shown

LEMMA EditingExportKind ==
  ASSUME NEW b, Editing(b)!EdCore, x6.pc # "idle"
  PROVE  /\ x6 \in Editing(b)!Exports /\ x6.ref \in Editing(b)!Ids /\ x6.gen \in Nat /\ x6.rid \in Editing(b)!Ids \cup {0}
         /\ x6.aborted \in BOOLEAN /\ x6.ref # 0
         /\ x6.pc = "renew" \/ Editing(b)!Confirms => x6.rid # 0
<1>1. x6 \in Editing(b)!Exports
  BY DEF Editing!EdCore, Editing!EdKinds, Editing!Idle
<1>2. x6.ref \in Editing(b)!Ids /\ x6.gen \in Nat /\ x6.rid \in Editing(b)!Ids \cup {0} /\ x6.aborted \in BOOLEAN
  BY <1>1 DEF Editing!Exports
<1>3. x6.ref # 0
  BY <1>2, EditingIds DEF Editing!EdCore
<1> QED
  BY <1>1, <1>2, <1>3 DEF Editing!EdCore, Editing!Confirmed

LEMMA EditingExport ==
  ASSUME NEW b, EditingTidy(b), x6.pc # "idle"
  PROVE  /\ x6 \in Editing(b)!Exports /\ x6.ref \in Editing(b)!Ids /\ x6.gen \in Nat /\ x6.rid \in Editing(b)!Ids \cup {0}
         /\ x6.aborted \in BOOLEAN /\ x6.ref # 0
         /\ x6.gen <= x2.gen /\ x6.rid \in {0, x6.ref} /\ (x6.pc = "renew" \/ Editing(b)!Confirms => x6.rid # 0)
         /\ IF x6.gen = x2.gen THEN x2.stage = "result" ELSE x2.ref # x6.ref
         /\ x6.rid # 0 /\ (~x6.aborted \/ Editing(b)!Confirms) => x6.rid \notin x7
         /\ Editing(b)!Confirms /\ x2.ref = x6.rid => x2.finalizing
         /\ x6.pc = "completed" => x1[x6.rid].status # "held"
         /\ x6.pc = "deliver" /\ x6.rid # 0 => x1[x6.rid].status = "completed"
         /\ x6.rid = 0 /\ x10 = {} => x1[x6.ref].status = "completed"
<1>1. Editing(b)!EdCore /\ Editing(b)!ExportSound
  BY DEF EditingTidy, Editing!EdTidy
<1> QED
  BY <1>1, EditingExportKind DEF Editing!ExportSound

\* The core goes on when no run moves and nothing held is lost sight of.
LEMMA EditingSides ==
  ASSUME NEW b, Editing(b)!EdCore, Editing(b)!EdKinds', x3' = x3, x2'.gen = x2.gen, x2'.stage = "processing" => x2.stage = "processing",
         Editing(b)!Ids \subseteq Editing(b)!Ids', x9 \subseteq x9', Editing(b)!Confirmed',
         \A id \in Editing(b)!Ids : x1'[id].status = "held" =>
            x1[id].status = "held" /\ (id \in x7 \cup {x2.ref} => id \in x7' \cup x9' \cup {x2'.ref}),
         \A id \in Editing(b)!Ids' :
            x1'[id].status = "held" /\ (id \notin Editing(b)!Ids \/ Editing(b)!SeenTo(id) \/ (x5.pc = "answered" /\ x5.rid = id))
              => Editing(b)!SeenTo(id)' \/ (x5'.pc = "answered" /\ x5'.rid = id)
  PROVE  Editing(b)!EdCore'
<1>1. Editing(b)!RunsCount'
  BY DEF Editing!EdCore, Editing!RunsCount, Editing!RunCounts
<1>2. Editing(b)!RunsKeep'
  <2>1. ASSUME NEW i \in RunSlots, NEW r, r = x3[i], r.pc # "idle" PROVE Editing(b)!Keeps(r)'
    <3>1. r \in Editing(b)!RunStates /\ Editing(b)!Keeps(r) /\ r.own \in Editing(b)!Ids \cup {0}
      BY <2>1, EditingRunKind DEF Editing!RunStates
    <3> QED
      BY <3>1 DEF Editing!Keeps
  <2> QED
    BY <2>1 DEF Editing!RunsKeep, Editing!Keeps
<1>3. Editing(b)!Accounted'
  <2>1. ASSUME NEW id \in Editing(b)!Ids', x1'[id].status = "held"
        PROVE  Editing(b)!SeenTo(id)' \/ (\E i \in RunSlots : Editing(b)!Answers(x3[i], id)) \/ (x5'.pc = "answered" /\ x5'.rid = id)
    BY <2>1 DEF Editing!EdCore, Editing!Accounted
  <2> QED
    BY <2>1 DEF Editing!Accounted, Editing!Answers
<1> QED
  BY <1>1, <1>2, <1>3 DEF Editing!EdCore

\* The choices for a silent video stay what they are.
LEMMA EditingChoices ==
  ASSUME NEW b, EditingTidy(b), x12' = x12, x2'.gen = x2.gen, x2'.fallback = x2.fallback,
         x2.fallback => x2'.stage = x2.stage /\ x2'.ref = x2.ref,
         x2'.ref \in {0, x2.ref} \/ Editing(b)!Untold(x2'.ref),
         x2.fallback => \A id \in Editing(b)!Ids : x1'[id].bucket = x1[id].bucket
  PROVE  Editing(b)!ChoiceSound'
<1>1. /\ Editing(b)!EdKinds /\ Editing(b)!ChoiceSound /\ Editing(b)!Idle' = Editing(b)!Idle
      /\ \A id \in Editing(b)!Ids : id # 0
  BY EditingIds DEF EditingTidy, Editing!EdCore, Editing!EdTidy, Editing!Idle
<1>2. \A k \in {"narration", "result"} : x12[k] # Editing(b)!Idle => x12[k].ref \in Editing(b)!Ids
  BY <1>1 DEF Editing!EdKinds, Editing!Choices
<1>3. Editing(b)!Leaves' => Editing(b)!Leaves
  BY <1>1, <1>2 DEF Editing!Leaves, Editing!Untold
<1> QED
  BY <1>1, <1>2, <1>3 DEF Editing!ChoiceSound, Editing!Leaves

\* The runs go on when the page changes nothing they look at.
LEMMA EditingRunsStay ==
  ASSUME NEW b, EditingTidy(b), x3' = x3, x2'.gen = x2.gen, x2'.file = x2.file,
         \/ x2.stage # "processing" /\ x2'.stage # "processing"
         \/ /\ x2'.stage = x2.stage /\ x2'.ref = x2.ref
            /\ \A id \in Editing(b)!Ids : x1'[id].bucket = x1[id].bucket,
         \/ x2'.ref \in {0, x2.ref}
         \/ \A i \in RunSlots : x3[i].pc # "idle" => x3[i].rid # x2'.ref,
         \A i \in RunSlots : \A id : x3[i].pc = "reserved" /\ x3[i].rid = id => Editing(b)!Untold(id)'
  PROVE  Editing(b)!RunsSound'
<1>1. ASSUME NEW i \in RunSlots, NEW r, r = x3[i], r.pc # "idle" PROVE Editing(b)!RunSound(r)'
  <2>1. r \in Editing(b)!RunStates /\ Editing(b)!RunSound(r) /\ r.rid \in Editing(b)!Ids \cup {0}
    BY <1>1, EditingRun DEF Editing!RunStates
  <2>2. x2'.ref = x2.ref \/ x2'.ref = 0 \/ r.rid # x2'.ref
    BY <1>1
  <2>3. CASE x2.stage # "processing" /\ x2'.stage # "processing"
    <3>1. r.aborted
      BY <2>1, <2>3 DEF Editing!RunSound, Editing!RunCounts
    <3> QED
      BY <2>1, <2>2, <3>1 DEF Editing!RunSound, Editing!RunCounts
  <2>4. CASE x2'.stage = x2.stage /\ x2'.ref = x2.ref /\ \A id \in Editing(b)!Ids : x1'[id].bucket = x1[id].bucket
    <3>1. r.pc = "settle" => r.rid # 0
      BY <2>1 DEF Editing!RunSound, Editing!RunCounts
    <3> QED
      BY <2>1, <2>4, <3>1 DEF Editing!RunSound, Editing!RunCounts
  <2> QED
    BY <2>3, <2>4
<1>2. Editing(b)!RunsApart'
  BY DEF EditingTidy, Editing!EdTidy, Editing!RunsSound, Editing!RunsApart
<1>3. x2'.stage = "processing" => \E i \in RunSlots : x3'[i].pc # "idle" /\ ~x3'[i].aborted
  BY DEF EditingTidy, Editing!EdTidy, Editing!RunsSound
<1> QED
  BY <1>1, <1>2, <1>3 DEF Editing!RunsSound

LEMMA EditingChoiceKinds ==
  ASSUME NEW b, Editing(b)!EdKinds
  PROVE  /\ x12 \in [{"narration", "result"} -> {Editing(b)!Idle} \cup Editing(b)!Choices]
         /\ \A k \in {"narration", "result"} : x12[k] # Editing(b)!Idle =>
               x12[k] \in Editing(b)!Choices /\ x12[k].ref \in Editing(b)!Ids /\ x12[k].ref # 0 /\ x12[k].gen \in Nat
<1>1. x12 \in [{"narration", "result"} -> {Editing(b)!Idle} \cup Editing(b)!Choices]
  BY DEF Editing!EdKinds
<1> QED
  BY <1>1, EditingIds DEF Editing!Choices

LEMMA EditingCheckoutStarted == ASSUME NEW b, Editing(b)!EdCore, Editing(b)!CheckoutStarted PROVE EditingGoes(b)
<1> USE DEF Editing!EdCore
<1>1. /\ x2' = [x2 EXCEPT !.returning = TRUE] /\ UNCHANGED <<x1, x3, x4, x5, x6, x7, x8, x9, x10, x11, x12>>
      /\ Editing(b)!Ids' = Editing(b)!Ids
  BY DEF Editing!CheckoutStarted, Editing!Show, Editing!Sides, Editing!Ghosts, Editing!Ids
<1>2. x2' \in Editing(b)!Shown
      /\ \A f \in {"stage", "gen", "file", "ref", "pending", "finalizing", "transcript", "audio", "fallback"} : x2'[f] = x2[f]
  BY <1>1, EditingPage DEF Editing!Shown
<1>4. Editing(b)!EdKinds'
  BY <1>1, <1>2 DEF Editing!EdKinds, Editing!RunStates, Editing!Accesses, Editing!Exports, Editing!Choices, Editing!Shown
<1>10. Editing(b)!EdCore'
  BY <1>1, <1>2, <1>4, EditingSides DEF Editing!SeenTo, Editing!Confirmed, Editing!Confirms
<1>20. ASSUME EditingTidy(b), Editing(b)!Orderly' PROVE Editing(b)!EdTidy'
  <2> USE <1>20 DEF EditingTidy, Editing!EdTidy
  <2>3. \A id : Editing(b)!Untold(id) => Editing(b)!Untold(id)'
    BY <1>1, <1>2 DEF Editing!Untold
  <2>5. Editing(b)!RunsSound'
    <3>1. \A i \in RunSlots : \A id : x3[i].pc = "reserved" /\ x3[i].rid = id => Editing(b)!Untold(id)'
      BY <2>3, EditingRun
    <3> QED
      BY <1>1, <1>2, <3>1, EditingRunsStay
  <2>6. Editing(b)!AccessSound'
    BY <1>1, <1>2, <2>3 DEF Editing!AccessSound
  <2>7. Editing(b)!ChangeSound'
    BY <1>1, <1>2 DEF Editing!ChangeSound
  <2>8. Editing(b)!ExportSound'
    BY <1>1, <1>2 DEF Editing!ExportSound, Editing!Confirms
  <2>9. Editing(b)!RefSound'
    BY <1>1, <1>2 DEF Editing!RefSound, Editing!Leaves, Editing!Confirms
  <2>11. (x10 = {} => Editing(b)!ShownIsItsOwn)'
    BY <1>1, <1>2 DEF Editing!ShownIsItsOwn, Editing!ItsOwn, Editing!PaidIsPending, Editing!Paid
  <2>20. Editing(b)!ChoiceSound'
    BY <1>1, <1>2, EditingChoices
  <2> QED
    BY <2>5, <2>6, <2>7, <2>8, <2>9, <2>11, <2>20
<1> QED
  BY <1>1, <1>2, <1>10, <1>20 DEF EditingGoes

LEMMA EditingStartChange == ASSUME NEW b, Editing(b)!EdCore, NEW kind \in {"voice", "correction", "cut"}, Editing(b)!StartChange(kind) PROVE EditingGoes(b)
<1> USE DEF Editing!EdCore
<1>1. /\ x2.stage = "result" /\ x4' = Editing(b)!Changing(kind) /\ UNCHANGED <<x1, x2, x3, x5, x6, x7, x8, x9, x10, x11, x12>>
      /\ Editing(b)!Ids' = Editing(b)!Ids
  BY DEF Editing!StartChange, Editing!Others, Editing!Ids
<1>2. x4' \in Editing(b)!Changes /\ x4'.gen = x2.gen /\ x4'.file = x2.file /\ x2.gen <= x2.gen
  BY <1>1, EditingPage, EditingCounts DEF Editing!Changing, Editing!Changes
<1>4. Editing(b)!EdKinds'
  BY <1>1, <1>2 DEF Editing!EdKinds, Editing!RunStates, Editing!Accesses, Editing!Exports, Editing!Choices, Editing!Shown
<1>10. Editing(b)!EdCore'
  BY <1>1, <1>2, <1>4, EditingSides DEF Editing!SeenTo, Editing!Confirmed, Editing!Confirms
<1>20. ASSUME EditingTidy(b), Editing(b)!Orderly' PROVE Editing(b)!EdTidy'
  <2> USE <1>20 DEF EditingTidy, Editing!EdTidy
  <2>3. \A id : Editing(b)!Untold(id) => Editing(b)!Untold(id)'
    BY <1>1, <1>2 DEF Editing!Untold
  <2>5. Editing(b)!RunsSound'
    <3>1. \A i \in RunSlots : \A id : x3[i].pc = "reserved" /\ x3[i].rid = id => Editing(b)!Untold(id)'
      BY <2>3, EditingRun
    <3> QED
      BY <1>1, <1>2, <3>1, EditingRunsStay
  <2>6. Editing(b)!AccessSound'
    BY <1>1, <1>2, <2>3 DEF Editing!AccessSound
  <2>7. Editing(b)!ChangeSound'
    BY <1>1, <1>2 DEF Editing!ChangeSound
  <2>8. Editing(b)!ExportSound'
    BY <1>1, <1>2 DEF Editing!ExportSound, Editing!Confirms
  <2>9. Editing(b)!RefSound'
    BY <1>1, <1>2 DEF Editing!RefSound, Editing!Leaves, Editing!Confirms
  <2>11. (x10 = {} => Editing(b)!ShownIsItsOwn)'
    BY <1>1, <1>2 DEF Editing!ShownIsItsOwn, Editing!ItsOwn, Editing!PaidIsPending, Editing!Paid
  <2>20. Editing(b)!ChoiceSound'
    BY <1>1, <1>2, EditingChoices
  <2> QED
    BY <2>5, <2>6, <2>7, <2>8, <2>9, <2>11, <2>20
<1> QED
  BY <1>1, <1>2, <1>10, <1>20 DEF EditingGoes

LEMMA EditingStartAccess == ASSUME NEW b, Editing(b)!EdCore, Editing(b)!StartAccess PROVE EditingGoes(b)
<1> USE DEF Editing!EdCore
<1>1. /\ x2.stage = "result" /\ x5' = [pc |-> "reserve", gen |-> x2.gen, rid |-> 0] /\ UNCHANGED <<x1, x2, x3, x4, x6, x7, x8, x9, x10, x11, x12>>
      /\ Editing(b)!Ids' = Editing(b)!Ids
      /\ x5.pc = "idle"
  BY DEF Editing!StartAccess, Editing!Ghosts, Editing!Ids
<1>2. x5' \in Editing(b)!Accesses /\ x2.gen <= x2.gen
  BY <1>1, EditingPage, EditingCounts DEF Editing!Accesses
<1>4. Editing(b)!EdKinds'
  BY <1>1, <1>2 DEF Editing!EdKinds, Editing!RunStates, Editing!Accesses, Editing!Exports, Editing!Choices, Editing!Shown
<1>10. Editing(b)!EdCore'
  BY <1>1, <1>2, <1>4, EditingSides DEF Editing!SeenTo, Editing!Confirmed, Editing!Confirms
<1>20. ASSUME EditingTidy(b), Editing(b)!Orderly' PROVE Editing(b)!EdTidy'
  <2> USE <1>20 DEF EditingTidy, Editing!EdTidy
  <2>3. \A id : Editing(b)!Untold(id) => Editing(b)!Untold(id)'
    BY <1>1, <1>2 DEF Editing!Untold
  <2>5. Editing(b)!RunsSound'
    <3>1. \A i \in RunSlots : \A id : x3[i].pc = "reserved" /\ x3[i].rid = id => Editing(b)!Untold(id)'
      BY <2>3, EditingRun
    <3> QED
      BY <1>1, <1>2, <3>1, EditingRunsStay
  <2>6. Editing(b)!AccessSound'
    BY <1>1, <1>2, <2>3 DEF Editing!AccessSound
  <2>7. Editing(b)!ChangeSound'
    BY <1>1, <1>2 DEF Editing!ChangeSound
  <2>8. Editing(b)!ExportSound'
    BY <1>1, <1>2 DEF Editing!ExportSound, Editing!Confirms
  <2>9. Editing(b)!RefSound'
    BY <1>1, <1>2 DEF Editing!RefSound, Editing!Leaves, Editing!Confirms
  <2>11. (x10 = {} => Editing(b)!ShownIsItsOwn)'
    BY <1>1, <1>2 DEF Editing!ShownIsItsOwn, Editing!ItsOwn, Editing!PaidIsPending, Editing!Paid
  <2>20. Editing(b)!ChoiceSound'
    BY <1>1, <1>2, EditingChoices
  <2> QED
    BY <2>5, <2>6, <2>7, <2>8, <2>9, <2>11, <2>20
<1> QED
  BY <1>1, <1>2, <1>10, <1>20 DEF EditingGoes

LEMMA EditingEndChange == ASSUME NEW b, Editing(b)!EdCore, Editing(b)!EndChange PROVE EditingGoes(b)
<1> USE DEF Editing!EdCore
<1>1. /\ x4.pc = "work" /\ x4' = Editing(b)!Idle /\ UNCHANGED <<x1, x3, x5, x6, x7, x8, x9, x11, x12>>
      /\ Editing(b)!Ids' = Editing(b)!Ids
      /\ x12' = x12 /\ x10 \subseteq x10'
      /\ \/ UNCHANGED <<x2, x10, x12>>
         \/ /\ x2' = [x2 EXCEPT !.transcript = x4.file, !.audio = IF x4.kind = "cut" THEN @ ELSE x4.file]
            /\ x10' = {} => x10 = {} /\ x4.gen = x2.gen
  BY DEF Editing!EndChange, Editing!Others, Editing!Ids, Editing!Applies, Editing!Superseded, Editing!WritesLate, Editing!Show
<1>12. x4 \in Editing(b)!Changes /\ x4.file \in Nat
  BY <1>1 DEF Editing!EdKinds, Editing!Changes, Editing!Idle
<1>2. x2' \in Editing(b)!Shown /\ \A f \in {"stage", "gen", "file", "ref", "pending", "finalizing", "fallback"} : x2'[f] = x2[f]
  BY <1>1, <1>12, EditingPage DEF Editing!Shown
<1>4. Editing(b)!EdKinds'
  BY <1>1, <1>2 DEF Editing!EdKinds, Editing!RunStates, Editing!Accesses, Editing!Exports, Editing!Choices, Editing!Shown
<1>10. Editing(b)!EdCore'
  BY <1>1, <1>2, <1>4, EditingSides DEF Editing!SeenTo, Editing!Confirmed, Editing!Confirms
<1>20. ASSUME EditingTidy(b), Editing(b)!Orderly' PROVE Editing(b)!EdTidy'
  <2> USE <1>20 DEF EditingTidy, Editing!EdTidy
  <2>3. \A id : Editing(b)!Untold(id) => Editing(b)!Untold(id)'
    BY <1>1, <1>2 DEF Editing!Untold
  <2>5. Editing(b)!RunsSound'
    <3>1. \A i \in RunSlots : \A id : x3[i].pc = "reserved" /\ x3[i].rid = id => Editing(b)!Untold(id)'
      BY <2>3, EditingRun
    <3> QED
      BY <1>1, <1>2, <3>1, EditingRunsStay
  <2>6. Editing(b)!AccessSound'
    BY <1>1, <1>2, <2>3 DEF Editing!AccessSound
  <2>7. Editing(b)!ChangeSound'
    BY <1>1 DEF Editing!ChangeSound, Editing!Idle
  <2>8. Editing(b)!ExportSound'
    BY <1>1, <1>2 DEF Editing!ExportSound, Editing!Confirms
  <2>9. Editing(b)!RefSound'
    BY <1>1, <1>2 DEF Editing!RefSound, Editing!Leaves, Editing!Confirms
  <2>11. (x10 = {} => Editing(b)!ShownIsItsOwn)'
    <3>1. x10' = {} => x10 = {} /\ (x2' = x2 \/ (x2'.transcript = x2.file /\ x2'.audio \in {x2.audio, x2.file}))
      BY <1>1, <1>12, EditingPage DEF Editing!ChangeSound, Editing!Shown
    <3> QED
      BY <1>1, <1>2, <3>1 DEF Editing!ShownIsItsOwn, Editing!ItsOwn, Editing!PaidIsPending, Editing!Paid
  <2>20. Editing(b)!ChoiceSound'
    BY <1>1, <1>2, EditingChoices
  <2> QED
    BY <2>5, <2>6, <2>7, <2>8, <2>9, <2>11, <2>20
<1> QED
  BY <1>1, <1>2, <1>10, <1>20 DEF EditingGoes

LEMMA EditingReleaseArrives == ASSUME NEW b, Editing(b)!EdCore, NEW id \in x7, Editing(b)!ReleaseArrives(id) PROVE EditingGoes(b)
<1> USE DEF Editing!EdCore
<1>1. /\ id \in Editing(b)!Ids /\ x7' = x7 \ {id} /\ UNCHANGED <<x2, x3, x4, x5, x6, x10, x11, x12>>
      /\ \/ Editing(b)!Becomes(id, "released") /\ x9' = x9
         \/ x9' = x9 \cup {id} /\ x1' = x1
  BY DEF Editing!ReleaseArrives, Editing!Sides, Editing!EdKinds
<1>2. /\ x1' \in Seq(EditingRows) /\ Editing(b)!Ids' = Editing(b)!Ids
      /\ \A j \in Editing(b)!Ids : x1'[j].bucket = x1[j].bucket /\ (j # id => x1'[j].status = x1[j].status)
      /\ x1'[id].status = x1[id].status \/ (x1[id].status = "held" /\ x1'[id].status = "released")
      /\ x1'[id].status = "held" => id \in x9'
      /\ x9 \subseteq x9' /\ x9' \subseteq Editing(b)!Ids
  <2>1. x9 \subseteq Editing(b)!Ids
    BY DEF Editing!EdKinds
  <2>2. CASE Editing(b)!Becomes(id, "released") /\ x9' = x9
    BY <1>1, <2>1, <2>2, EditingBecomes
  <2>3. CASE x9' = x9 \cup {id} /\ x1' = x1
    BY <1>1, <2>1, <2>3, EditingIds DEF Editing!Ids
  <2> QED
    BY <1>1, <2>2, <2>3
<1>4. Editing(b)!EdKinds'
  <2>1. x1' \in Seq([bucket : {"free", "paid"}, status : {"held", "completed", "released"}])
    BY <1>2 DEF EditingRows
  <2> QED
    BY <1>1, <1>2, <2>1 DEF Editing!EdKinds, Editing!RunStates, Editing!Accesses, Editing!Exports, Editing!Choices, Editing!Shown
<1>10. Editing(b)!EdCore'
  <2>1. \A h \in Editing(b)!Ids : x1'[h].status = "held" => x1[h].status = "held" /\ (h \in x7 \cup {x2.ref} => h \in x7' \cup x9' \cup {x2'.ref})
    BY <1>1, <1>2
  <2>2. Editing(b)!Confirmed'
    <3>1. x2.ref \in Editing(b)!Ids \cup {0} /\ (Editing(b)!Confirms => x6.rid \in Editing(b)!Ids)
      BY EditingPage, EditingExportKind DEF Editing!Confirms
    <3> QED
      BY <1>1, <1>2, <2>1, <3>1 DEF Editing!Confirmed, Editing!Confirms
  <2>3. ASSUME NEW h \in Editing(b)!Ids, x1'[h].status = "held", Editing(b)!SeenTo(h) PROVE Editing(b)!SeenTo(h)'
    BY <1>1, <1>2, <2>3 DEF Editing!SeenTo
  <2> QED
    BY <1>1, <1>2, <1>4, <2>1, <2>2, <2>3, EditingSides
<1>20. ASSUME EditingTidy(b), Editing(b)!Orderly' PROVE Editing(b)!EdTidy'
  <2> USE <1>20 DEF EditingTidy, Editing!EdTidy
  <2>3. \A h : Editing(b)!Untold(h) => Editing(b)!Untold(h)'
    BY <1>1, <1>2 DEF Editing!Untold
  <2>5. Editing(b)!RunsSound'
    <3>1. \A i \in RunSlots : \A h : x3[i].pc = "reserved" /\ x3[i].rid = h => Editing(b)!Untold(h)'
      BY <2>3, EditingRun
    <3> QED
      BY <1>1, <1>2, <3>1, EditingRunsStay
  <2>6. Editing(b)!AccessSound'
    BY <1>1, <1>2, <2>3 DEF Editing!AccessSound
  <2>7. Editing(b)!ChangeSound'
    BY <1>1, <1>2 DEF Editing!ChangeSound
  <2>8. Editing(b)!ExportSound'
    <3> SUFFICES ASSUME x6.pc # "idle" PROVE Editing(b)!ExportSound'
      BY <1>1 DEF Editing!ExportSound
    <3>1. x6.ref \in Editing(b)!Ids /\ x6.rid \in Editing(b)!Ids \cup {0} /\ x6.rid \in {0, x6.ref}
      BY EditingExport
    <3>2. \A j \in Editing(b)!Ids : (x1[j].status = "completed" => x1'[j].status = "completed") /\ (x1[j].status # "held" => x1'[j].status # "held")
      BY <1>1, <1>2
    <3>3. x6.pc = "completed" => x6.rid # 0
      BY EditingExport DEF Editing!Confirms
    <3> QED
      BY <1>1, <1>2, <3>1, <3>2, <3>3 DEF Editing!ExportSound, Editing!Confirms
  <2>9. Editing(b)!RefSound'
    <3>1. x2.ref \in Editing(b)!Ids \cup {0}
      BY EditingPage
    <3> QED
      BY <1>1, <1>2, <3>1 DEF Editing!RefSound, Editing!Leaves, Editing!Confirms
  <2>11. (x10 = {} => Editing(b)!ShownIsItsOwn)'
    <3>1. \A j \in Editing(b)!Ids : x1[j].status = "completed" => x1'[j].status = "completed"
      BY <1>1, <1>2
    <3>2. x2.ref \in Editing(b)!Ids \cup {0} /\ x11 \subseteq Editing(b)!Ids
      BY EditingPage DEF Editing!EdKinds
    <3> QED
      BY <1>1, <1>2, <3>1, <3>2 DEF Editing!ShownIsItsOwn, Editing!ItsOwn, Editing!PaidIsPending, Editing!Paid
  <2>20. Editing(b)!ChoiceSound'
    BY <1>1, <1>2, EditingChoices
  <2> QED
    BY <2>5, <2>6, <2>7, <2>8, <2>9, <2>11, <2>20
<1> QED
  BY <1>1, <1>2, <1>10, <1>20 DEF EditingGoes

LEMMA EditingAccessReserves == ASSUME NEW b, Editing(b)!EdCore, Editing(b)!AccessReserves PROVE EditingGoes(b)
<1> USE DEF Editing!EdCore
<1>1. /\ x5.pc = "reserve" /\ UNCHANGED <<x3, x4, x6, x7, x9, x10, x11, x12>>
      /\ \/ /\ \E bucket \in {"free", "paid"} : Editing(b)!Reserved(bucket)
            /\ x5' = [x5 EXCEPT !.pc = "answered", !.rid = Len(x1) + 1] /\ x2' = x2
         \/ x5' = Editing(b)!Idle /\ (x2' = x2 \/ x2' = [x2 EXCEPT !.returning = FALSE]) /\ x1' = x1
  BY DEF Editing!AccessReserves, Editing!Ghosts, Editing!Show
<1>12. PICK n : n = Len(x1) + 1
  OBVIOUS
<1>2. /\ x1' \in Seq(EditingRows) /\ Editing(b)!Ids \subseteq Editing(b)!Ids' /\ \A j \in Editing(b)!Ids : x1'[j] = x1[j]
      /\ x2' \in Editing(b)!Shown /\ \A f \in {"stage", "gen", "file", "ref", "pending", "finalizing", "transcript", "audio", "fallback"} : x2'[f] = x2[f]
      /\ \/ x5' = Editing(b)!Idle /\ Editing(b)!Ids' = Editing(b)!Ids
         \/ /\ x5'.pc = "answered" /\ x5'.rid = n /\ x5'.gen = x5.gen /\ x5' \in Editing(b)!Accesses' /\ n # 0
            /\ n \notin Editing(b)!Ids /\ Editing(b)!Ids' = Editing(b)!Ids \cup {n} /\ x1'[n].status = "held"
  <2>1. CASE x5' = Editing(b)!Idle /\ (x2' = x2 \/ x2' = [x2 EXCEPT !.returning = FALSE]) /\ x1' = x1
    BY <2>1, EditingIds, EditingPage DEF Editing!Ids, Editing!Shown
  <2>2. CASE /\ \E bucket \in {"free", "paid"} : Editing(b)!Reserved(bucket)
             /\ x5' = [x5 EXCEPT !.pc = "answered", !.rid = Len(x1) + 1] /\ x2' = x2
    <3>1. PICK bucket \in {"free", "paid"} : Editing(b)!Reserved(bucket)
      BY <2>2
    <3>2. /\ x1' \in Seq(EditingRows) /\ Editing(b)!Ids \subseteq Editing(b)!Ids' /\ (\A j \in Editing(b)!Ids : x1'[j] = x1[j])
          /\ n \notin Editing(b)!Ids /\ n # 0 /\ Editing(b)!Ids' = Editing(b)!Ids \cup {n} /\ x1'[n].status = "held"
      BY <1>12, <3>1, EditingReserved
    <3>3. x5 \in Editing(b)!Accesses
      BY <1>1 DEF Editing!EdKinds, Editing!Idle
    <3>4. x5'.pc = "answered" /\ x5'.rid = n /\ x5'.gen = x5.gen /\ x5' \in Editing(b)!Accesses'
      BY <1>12, <2>2, <3>2, <3>3 DEF Editing!Accesses
    <3> QED
      BY <2>2, <3>2, <3>4, EditingPage
  <2> QED
    BY <1>1, <2>1, <2>2
<1>4. Editing(b)!EdKinds'
  <2>1. x1' \in Seq([bucket : {"free", "paid"}, status : {"held", "completed", "released"}])
    BY <1>2 DEF EditingRows
  <2>2. x5' \in {Editing(b)!Idle} \cup Editing(b)!Accesses' /\ Editing(b)!Idle' = Editing(b)!Idle /\ Editing(b)!Changes' = Editing(b)!Changes
    BY <1>2 DEF Editing!Idle, Editing!Changes
  <2>3. x3' \in [RunSlots -> {Editing(b)!Idle} \cup Editing(b)!RunStates']
    BY <1>1, <1>2, EditingTypes DEF Editing!EdKinds
  <2>4. x6' \in {Editing(b)!Idle} \cup Editing(b)!Exports'
    BY <1>1, <1>2, EditingTypes DEF Editing!EdKinds
  <2>5. x2' \in Editing(b)!Shown'
    BY <1>2, EditingTypes
  <2>6. x12' \in [{"narration", "result"} -> {Editing(b)!Idle} \cup Editing(b)!Choices']
    BY <1>1, <1>2, EditingTypes DEF Editing!EdKinds
  <2> QED
    BY <1>1, <1>2, <2>1, <2>2, <2>3, <2>4, <2>5, <2>6 DEF Editing!EdKinds
<1>10. Editing(b)!EdCore'
  <2>1. x2.ref \in Editing(b)!Ids \cup {0} /\ (Editing(b)!Confirms => x6.rid \in Editing(b)!Ids)
    BY EditingPage, EditingExportKind DEF Editing!Confirms
  <2>2. Editing(b)!Confirmed'
    BY <1>1, <1>2, <2>1 DEF Editing!Confirmed, Editing!Confirms
  <2>3. ASSUME NEW h \in Editing(b)!Ids, Editing(b)!SeenTo(h) PROVE Editing(b)!SeenTo(h)'
    BY <1>1, <1>2, <2>3 DEF Editing!SeenTo
  <2> QED
    BY <1>1, <1>2, <1>4, <2>2, <2>3, EditingSides
<1>20. ASSUME EditingTidy(b), Editing(b)!Orderly' PROVE Editing(b)!EdTidy'
  <2> USE <1>20 DEF EditingTidy, Editing!EdTidy
  <2>3. \A id : Editing(b)!Untold(id) => Editing(b)!Untold(id)'
    BY <1>1, <1>2 DEF Editing!Untold
  <2>5. Editing(b)!RunsSound'
    <3>1. \A i \in RunSlots : \A id : x3[i].pc = "reserved" /\ x3[i].rid = id => Editing(b)!Untold(id)'
      BY <2>3, EditingRun
    <3> QED
      BY <1>1, <1>2, <3>1, EditingRunsStay
  <2>6. Editing(b)!AccessSound'
    <3> SUFFICES ASSUME x5' # Editing(b)!Idle PROVE Editing(b)!AccessSound'
      BY DEF Editing!AccessSound, Editing!Idle
    <3>1. n \notin x7 /\ n \notin x11 /\ n # x2.ref /\ (x6.pc # "idle" => n # x6.ref)
      BY <1>2, EditingPage, EditingExport DEF Editing!EdKinds
    <3>4. x12["narration"] # Editing(b)!Idle => n # x12["narration"].ref
      BY <1>2 DEF Editing!EdKinds, Editing!Choices
    <3>5. Editing(b)!Idle' = Editing(b)!Idle
      BY DEF Editing!Idle
    <3>2. Editing(b)!Untold(n)'
      BY <1>1, <1>2, <3>1, <3>4, <3>5 DEF Editing!Untold
    <3>3. \A i \in RunSlots : x3[i].pc # "idle" => x3[i].rid # n
      <4>1. ASSUME NEW i \in RunSlots, x3[i].pc # "idle" PROVE x3[i].rid \in Editing(b)!Ids \cup {0}
        BY <4>1, EditingRun DEF Editing!RunStates
      <4> QED
        BY <1>2, <4>1
    <3> QED
      BY <1>1, <1>2, <3>2, <3>3 DEF Editing!AccessSound
  <2>7. Editing(b)!ChangeSound'
    BY <1>1, <1>2 DEF Editing!ChangeSound
  <2>8. Editing(b)!ExportSound'
    <3> SUFFICES ASSUME x6.pc # "idle" PROVE Editing(b)!ExportSound'
      BY <1>1 DEF Editing!ExportSound
    <3>1. x6.ref \in Editing(b)!Ids /\ x6.rid \in {0, x6.ref} /\ (Editing(b)!Confirms => x6.rid # 0)
      BY EditingExport
    <3> QED
      BY <1>1, <1>2, <3>1 DEF Editing!ExportSound, Editing!Confirms
  <2>9. Editing(b)!RefSound'
    <3>1. x2.ref \in Editing(b)!Ids \cup {0}
      BY EditingPage
    <3> QED
      BY <1>1, <1>2, <3>1 DEF Editing!RefSound, Editing!Leaves, Editing!Confirms
  <2>11. (x10 = {} => Editing(b)!ShownIsItsOwn)'
    <3>1. x2.ref \in Editing(b)!Ids \cup {0} /\ x11 \subseteq Editing(b)!Ids
      BY EditingPage DEF Editing!EdKinds
    <3> QED
      BY <1>1, <1>2, <3>1 DEF Editing!ShownIsItsOwn, Editing!ItsOwn, Editing!PaidIsPending, Editing!Paid
  <2>20. Editing(b)!ChoiceSound'
    BY <1>1, <1>2, EditingChoices
  <2> QED
    BY <2>5, <2>6, <2>7, <2>8, <2>9, <2>11, <2>20
<1> QED
  BY <1>1, <1>2, <1>10, <1>20 DEF EditingGoes

LEMMA EditingAccessAnswers == ASSUME NEW b, Editing(b)!EdCore, Editing(b)!AccessAnswers PROVE EditingGoes(b)
<1> USE DEF Editing!EdCore
<1>1. /\ x5.pc = "answered" /\ x5' = Editing(b)!Idle /\ UNCHANGED <<x1, x3, x4, x6, x8, x10, x11, x12>>
      /\ Editing(b)!Ids' = Editing(b)!Ids
      /\ \/ /\ x5.gen = x2.gen /\ x9' = x9 \cup Editing(b)!Overwritten(x5.rid) /\ x7' = x7
            /\ x2' = [[x2 EXCEPT !.returning = FALSE] EXCEPT !.ref = x5.rid, !.pending = TRUE, !.finalizing = FALSE]
         \/ x7' = x7 \cup {x5.rid} /\ (x2' = x2 \/ x2' = [x2 EXCEPT !.returning = FALSE]) /\ x9' = x9
  BY DEF Editing!AccessAnswers, Editing!Show, Editing!Remember, Editing!Ids
<1>12. PICK k : k = x5.rid
  OBVIOUS
<1>13. k \in Editing(b)!Ids /\ k # 0
  <2>1. x5 \in Editing(b)!Accesses
    BY <1>1 DEF Editing!EdKinds, Editing!Idle
  <2> QED
    BY <1>1, <1>12, <2>1, EditingIds DEF Editing!Accesses
<1>2. /\ x2' \in Editing(b)!Shown /\ \A f \in {"stage", "gen", "file", "transcript", "audio", "fallback"} : x2'[f] = x2[f]
      /\ \/ /\ x5.gen = x2.gen /\ x9' = x9 \cup Editing(b)!Overwritten(k) /\ x7' = x7
            /\ x2'.ref = k /\ x2'.pending /\ ~x2'.finalizing
         \/ x7' = x7 \cup {k} /\ x9' = x9 /\ x2'.ref = x2.ref /\ x2'.pending = x2.pending /\ x2'.finalizing = x2.finalizing
  <2>1. CASE /\ x5.gen = x2.gen /\ x9' = x9 \cup Editing(b)!Overwritten(x5.rid) /\ x7' = x7
             /\ x2' = [[x2 EXCEPT !.returning = FALSE] EXCEPT !.ref = x5.rid, !.pending = TRUE, !.finalizing = FALSE]
    BY <1>12, <1>13, <2>1, EditingPage DEF Editing!Shown
  <2>2. CASE x7' = x7 \cup {x5.rid} /\ (x2' = x2 \/ x2' = [x2 EXCEPT !.returning = FALSE]) /\ x9' = x9
    BY <1>12, <2>2, EditingPage DEF Editing!Shown
  <2> QED
    BY <1>1, <2>1, <2>2
<1>4. Editing(b)!EdKinds'
  <2>1. x7' \subseteq Editing(b)!Ids /\ x9' \subseteq Editing(b)!Ids
    BY <1>2, <1>13, EditingPage DEF Editing!EdKinds, Editing!Overwritten, Editing!Held
  <2> QED
    BY <1>1, <1>2, <2>1 DEF Editing!EdKinds, Editing!RunStates, Editing!Accesses, Editing!Exports, Editing!Choices, Editing!Shown
<1>10. Editing(b)!EdCore'
  <2>1. ASSUME NEW id \in Editing(b)!Ids, x1'[id].status = "held"
        PROVE  x1[id].status = "held" /\ (id \in x7 \cup {x2.ref} => id \in x7' \cup x9' \cup {x2'.ref})
    BY <1>1, <1>2, <1>13, <2>1, EditingIds DEF Editing!Overwritten, Editing!Held
  <2>2. Editing(b)!Confirmed'
    BY <1>1, <1>2 DEF Editing!Confirmed, Editing!Confirms
  <2>3. ASSUME NEW id \in Editing(b)!Ids, x1'[id].status = "held", Editing(b)!SeenTo(id) \/ (x5.pc = "answered" /\ x5.rid = id)
        PROVE  Editing(b)!SeenTo(id)'
    <3>1. CASE id = k
      BY <1>2, <3>1 DEF Editing!SeenTo
    <3>2. CASE id # k
      BY <1>1, <1>2, <1>12, <2>1, <2>3, <3>2 DEF Editing!SeenTo
    <3> QED
      BY <3>1, <3>2
  <2> QED
    BY <1>1, <1>2, <1>4, <2>1, <2>2, <2>3, EditingSides
<1>20. ASSUME EditingTidy(b), Editing(b)!Orderly' PROVE Editing(b)!EdTidy'
  <2> USE <1>20 DEF EditingTidy, Editing!EdTidy
  <2>14. /\ Editing(b)!Untold(k) /\ x1[k].status = "held" /\ k \notin x7 /\ k \notin x11 /\ k # x2.ref
         /\ \A i \in RunSlots : x3[i].pc # "idle" => x3[i].rid # k
         /\ x6.pc # "idle" => k # x6.ref
         /\ x5.gen = x2.gen => x2.stage = "result"
    BY <1>1, <1>12, <1>13 DEF Editing!AccessSound, Editing!Untold
  <2>3. ASSUME NEW id, Editing(b)!Untold(id), id # k PROVE Editing(b)!Untold(id)'
    BY <1>1, <1>2, <2>3 DEF Editing!Untold
  <2>5. Editing(b)!RunsSound'
    <3>1. \A i \in RunSlots : \A id : x3[i].pc = "reserved" /\ x3[i].rid = id => Editing(b)!Untold(id)'
      BY <2>3, <2>14, EditingRun
    <3>2. x2'.ref \in {0, x2.ref} \/ \A i \in RunSlots : x3[i].pc # "idle" => x3[i].rid # x2'.ref
      BY <1>2, <2>14
    <3>3. (x2.stage # "processing" /\ x2'.stage # "processing") \/ (x2'.stage = x2.stage /\ x2'.ref = x2.ref)
      BY <1>2, <2>14
    <3> QED
      BY <1>1, <1>2, <3>1, <3>2, <3>3, EditingRunsStay
  <2>6. Editing(b)!AccessSound'
    BY <1>1 DEF Editing!AccessSound, Editing!Idle
  <2>7. Editing(b)!ChangeSound'
    BY <1>1, <1>2 DEF Editing!ChangeSound
  <2>8. Editing(b)!ExportSound'
    <3> SUFFICES ASSUME x6.pc # "idle" PROVE Editing(b)!ExportSound'
      BY <1>1 DEF Editing!ExportSound
    <3>1. x6.rid \in {0, x6.ref} /\ x6.ref # 0 /\ (Editing(b)!Confirms => x6.rid # 0)
      BY EditingExport
    <3> QED
      BY <1>1, <1>2, <1>13, <2>14, <3>1 DEF Editing!ExportSound, Editing!Confirms
  <2>9. Editing(b)!RefSound'
    BY <1>1, <1>2, <1>13, <2>14 DEF Editing!RefSound, Editing!Leaves, Editing!Confirms
  <2>11. (x10 = {} => Editing(b)!ShownIsItsOwn)'
    <3>1. ASSUME x2.stage = "result", NEW i \in RunSlots, x3[i].pc # "idle" PROVE x3[i].aborted
      BY <3>1, EditingRun DEF Editing!RunSound, Editing!RunCounts
    <3> QED
      BY <1>1, <1>2, <2>14, <3>1 DEF Editing!ShownIsItsOwn, Editing!ItsOwn, Editing!PaidIsPending, Editing!Paid
  <2>20. Editing(b)!ChoiceSound'
    <3>1. x2.stage = "result" => ~x2.fallback
      BY DEF Editing!ChoiceSound
    <3> QED
      BY <1>1, <1>2, <2>14, <3>1, EditingChoices
  <2> QED
    BY <2>5, <2>6, <2>7, <2>8, <2>9, <2>11, <2>20
<1> QED
  BY <1>1, <1>2, <1>10, <1>20 DEF EditingGoes

LEMMA EditingStartExport == ASSUME NEW b, Editing(b)!EdCore, Editing(b)!StartExport PROVE EditingGoes(b)
<1> USE DEF Editing!EdCore
<1>1. /\ x2.stage = "result" /\ Editing(b)!Paid(x2.ref) /\ x6.pc = "idle" /\ UNCHANGED <<x1, x2, x3, x4, x5, x7, x8, x9, x10, x11, x12>>
      /\ Editing(b)!Ids' = Editing(b)!Ids
  BY DEF Editing!StartExport, Editing!Exporting, Editing!Show, Editing!EndExport, Editing!Ids
<1>2. /\ x2.ref # 0 /\ x2.ref \in Editing(b)!Ids /\ x2.gen \in Nat /\ x2.gen <= x2.gen /\ x1[x2.ref].bucket = "paid"
      /\ x6'.gen = x2.gen /\ ~x6'.aborted /\ x6'.ref = x2.ref /\ x6' \in Editing(b)!Exports
      /\ \/ x2.pending /\ x6'.pc = "renew" /\ x6'.rid = x2.ref
         \/ ~x2.pending /\ x6'.pc = "encode" /\ x6'.rid = 0
  <2>1. x2.ref # 0 /\ x2.ref \in Editing(b)!Ids /\ x2.gen \in Nat /\ x2.gen <= x2.gen /\ x2.pending \in BOOLEAN /\ x1[x2.ref].bucket = "paid"
    BY <1>1, EditingPage DEF Editing!Paid
  <2> QED
    BY <2>1 DEF Editing!StartExport, Editing!Exports
<1>12. ~Editing(b)!Confirms /\ ~Editing(b)!Confirms' /\ ~x2.finalizing
  BY <1>1, <1>2 DEF Editing!Confirms, Editing!Confirmed
<1>4. Editing(b)!EdKinds'
  BY <1>1, <1>2 DEF Editing!EdKinds, Editing!RunStates, Editing!Accesses, Editing!Exports, Editing!Choices, Editing!Shown
<1>10. Editing(b)!EdCore'
  BY <1>1, <1>2, <1>4, <1>12, EditingSides DEF Editing!SeenTo, Editing!Confirmed, Editing!Confirms
<1>20. ASSUME EditingTidy(b), Editing(b)!Orderly' PROVE Editing(b)!EdTidy'
  <2> USE <1>20 DEF EditingTidy, Editing!EdTidy
  <2>3. \A id : Editing(b)!Untold(id) => Editing(b)!Untold(id)'
    BY <1>1, <1>2 DEF Editing!Untold
  <2>5. Editing(b)!RunsSound'
    <3>1. \A i \in RunSlots : \A id : x3[i].pc = "reserved" /\ x3[i].rid = id => Editing(b)!Untold(id)'
      BY <2>3, EditingRun
    <3> QED
      BY <1>1, <1>2, <3>1, EditingRunsStay
  <2>6. Editing(b)!AccessSound'
    BY <1>1, <1>2, <2>3 DEF Editing!AccessSound
  <2>7. Editing(b)!ChangeSound'
    BY <1>1, <1>2 DEF Editing!ChangeSound
  <2>8. Editing(b)!ExportSound'
    <3>1. x2.ref \notin x7
      BY <1>1, <1>2 DEF Editing!RefSound, Editing!Leaves, Editing!ChoiceSound
    <3>2. ~x2.pending /\ x10 = {} => x1[x2.ref].status = "completed"
      BY <1>1 DEF Editing!ShownIsItsOwn, Editing!PaidIsPending
    <3>3. x6'.pc \in {"renew", "encode"} /\ x6'.rid \in {0, x6'.ref} /\ (x6'.pc = "renew" => x6'.rid # 0)
      BY <1>2
    <3>4. x6'.rid # 0 => x6'.rid \notin x7
      BY <1>2, <3>1
    <3>5. x6'.rid = 0 /\ x10 = {} => x1[x6'.ref].status = "completed"
      BY <1>2, <3>2
    <3> QED
      BY <1>1, <1>2, <1>12, <3>3, <3>4, <3>5 DEF Editing!ExportSound
  <2>9. Editing(b)!RefSound'
    BY <1>1, <1>2, <1>12 DEF Editing!RefSound, Editing!Leaves
  <2>11. (x10 = {} => Editing(b)!ShownIsItsOwn)'
    BY <1>1, <1>2 DEF Editing!ShownIsItsOwn, Editing!ItsOwn, Editing!PaidIsPending, Editing!Paid
  <2>20. Editing(b)!ChoiceSound'
    BY <1>1, <1>2, EditingChoices
  <2> QED
    BY <2>5, <2>6, <2>7, <2>8, <2>9, <2>11, <2>20
<1> QED
  BY <1>1, <1>2, <1>10, <1>20 DEF EditingGoes

LEMMA EditingExportRenews == ASSUME NEW b, Editing(b)!EdCore, Editing(b)!ExportRenews PROVE EditingGoes(b)
<1> USE DEF Editing!EdCore
<1>1. /\ x6.pc = "renew" /\ UNCHANGED <<x1, x2, x3, x4, x5, x7, x8, x9, x10, x11, x12>> /\ Editing(b)!Ids' = Editing(b)!Ids
      /\ x6' = [x6 EXCEPT !.pc = "encode"] \/ x6' = Editing(b)!Idle
  BY DEF Editing!ExportRenews, Editing!Exporting, Editing!Show, Editing!EndExport, Editing!Ids
<1>2. /\ x6 \in Editing(b)!Exports
      /\ \/ x6' = Editing(b)!Idle /\ x6'.pc = "idle"
         \/ x6' \in Editing(b)!Exports /\ x6'.pc = "encode" /\ \A f \in {"gen", "aborted", "ref", "rid"} : x6'[f] = x6[f]
  BY <1>1, EditingExportKind DEF Editing!Exports, Editing!Idle
<1>12. ~Editing(b)!Confirms /\ ~Editing(b)!Confirms' /\ ~x2.finalizing
  BY <1>1, <1>2 DEF Editing!Confirms, Editing!Confirmed
<1>4. Editing(b)!EdKinds'
  BY <1>1, <1>2 DEF Editing!EdKinds, Editing!RunStates, Editing!Accesses, Editing!Exports, Editing!Choices, Editing!Shown
<1>10. Editing(b)!EdCore'
  BY <1>1, <1>2, <1>4, <1>12, EditingSides DEF Editing!SeenTo, Editing!Confirmed, Editing!Confirms
<1>20. ASSUME EditingTidy(b), Editing(b)!Orderly' PROVE Editing(b)!EdTidy'
  <2> USE <1>20 DEF EditingTidy, Editing!EdTidy
  <2>3. \A id : Editing(b)!Untold(id) => Editing(b)!Untold(id)'
    BY <1>1, <1>2 DEF Editing!Untold
  <2>5. Editing(b)!RunsSound'
    <3>1. \A i \in RunSlots : \A id : x3[i].pc = "reserved" /\ x3[i].rid = id => Editing(b)!Untold(id)'
      BY <2>3, EditingRun
    <3> QED
      BY <1>1, <1>2, <3>1, EditingRunsStay
  <2>6. Editing(b)!AccessSound'
    BY <1>1, <1>2, <2>3 DEF Editing!AccessSound
  <2>7. Editing(b)!ChangeSound'
    BY <1>1, <1>2 DEF Editing!ChangeSound
  <2>8. Editing(b)!ExportSound'
    <3> SUFFICES ASSUME x6'.pc = "encode" PROVE Editing(b)!ExportSound'
      BY <1>2 DEF Editing!ExportSound
    <3> QED
      BY <1>1, <1>2, <1>12, EditingExport DEF Editing!ExportSound
  <2>9. Editing(b)!RefSound'
    BY <1>1, <1>2, <1>12 DEF Editing!RefSound, Editing!Leaves
  <2>11. (x10 = {} => Editing(b)!ShownIsItsOwn)'
    BY <1>1, <1>2 DEF Editing!ShownIsItsOwn, Editing!ItsOwn, Editing!PaidIsPending, Editing!Paid
  <2>20. Editing(b)!ChoiceSound'
    BY <1>1, <1>2, EditingChoices
  <2> QED
    BY <2>5, <2>6, <2>7, <2>8, <2>9, <2>11, <2>20
<1> QED
  BY <1>1, <1>2, <1>10, <1>20 DEF EditingGoes

LEMMA EditingEncode == ASSUME NEW b, Editing(b)!EdCore, Editing(b)!Encode PROVE EditingGoes(b)
<1> USE DEF Editing!EdCore
<1>1. /\ x6.pc = "encode" /\ UNCHANGED <<x1, x3, x4, x5, x7, x9, x10, x11, x12>> /\ Editing(b)!Ids' = Editing(b)!Ids
      /\ \/ ~x6.aborted /\ x6.rid = 0 /\ x6' = [x6 EXCEPT !.pc = "deliver"] /\ x2' = x2
         \/ ~x6.aborted /\ x6.rid # 0 /\ x6' = [x6 EXCEPT !.pc = "complete"] /\ x2' = [x2 EXCEPT !.finalizing = TRUE]
         \/ x6' = Editing(b)!Idle /\ x2' = x2
  BY DEF Editing!Encode, Editing!Exporting, Editing!Show, Editing!EndExport, Editing!Ids
<1>2. /\ x6 \in Editing(b)!Exports /\ x2' \in Editing(b)!Shown
      /\ \A f \in {"stage", "gen", "file", "ref", "pending", "transcript", "audio", "fallback"} : x2'[f] = x2[f]
      /\ \/ x6' = Editing(b)!Idle /\ x6'.pc = "idle" /\ x2'.finalizing = x2.finalizing
         \/ /\ x6' \in Editing(b)!Exports /\ ~x6.aborted /\ \A f \in {"gen", "aborted", "ref", "rid"} : x6'[f] = x6[f]
            /\ \/ x6'.pc = "deliver" /\ x6.rid = 0 /\ x2'.finalizing = x2.finalizing
               \/ x6'.pc = "complete" /\ x6.rid # 0 /\ x2'.finalizing
  <2>1. x6 \in Editing(b)!Exports /\ x2 \in Editing(b)!Shown
    BY <1>1, EditingExportKind, EditingPage
  <2>2. CASE x6' = Editing(b)!Idle /\ x2' = x2
    BY <2>1, <2>2 DEF Editing!Idle
  <2>3. CASE ~x6.aborted /\ x6.rid = 0 /\ x6' = [x6 EXCEPT !.pc = "deliver"] /\ x2' = x2
    BY <2>1, <2>3 DEF Editing!Exports
  <2>4. CASE ~x6.aborted /\ x6.rid # 0 /\ x6' = [x6 EXCEPT !.pc = "complete"] /\ x2' = [x2 EXCEPT !.finalizing = TRUE]
    <3>1. x2' \in Editing(b)!Shown /\ x2'.finalizing
          /\ \A f \in {"stage", "gen", "file", "ref", "pending", "transcript", "audio", "fallback"} : x2'[f] = x2[f]
      BY <2>1, <2>4 DEF Editing!Shown
    <3> QED
      BY <2>1, <2>4, <3>1 DEF Editing!Exports
  <2> QED
    BY <1>1, <2>2, <2>3, <2>4
<1>12. ~Editing(b)!Confirms /\ ~x2.finalizing
  BY <1>1 DEF Editing!Confirms, Editing!Confirmed
<1>4. Editing(b)!EdKinds'
  BY <1>1, <1>2 DEF Editing!EdKinds, Editing!RunStates, Editing!Accesses, Editing!Exports, Editing!Choices, Editing!Shown
<1>10. Editing(b)!EdCore'
  BY <1>1, <1>2, <1>4, <1>12, EditingSides DEF Editing!SeenTo, Editing!Confirmed, Editing!Confirms
<1>20. ASSUME EditingTidy(b), Editing(b)!Orderly' PROVE Editing(b)!EdTidy'
  <2> USE <1>20 DEF EditingTidy, Editing!EdTidy
  <2>3. \A id : Editing(b)!Untold(id) => Editing(b)!Untold(id)'
    BY <1>1, <1>2 DEF Editing!Untold
  <2>5. Editing(b)!RunsSound'
    <3>1. \A i \in RunSlots : \A id : x3[i].pc = "reserved" /\ x3[i].rid = id => Editing(b)!Untold(id)'
      BY <2>3, EditingRun
    <3> QED
      BY <1>1, <1>2, <3>1, EditingRunsStay
  <2>6. Editing(b)!AccessSound'
    BY <1>1, <1>2, <2>3 DEF Editing!AccessSound
  <2>7. Editing(b)!ChangeSound'
    BY <1>1, <1>2 DEF Editing!ChangeSound
  <2>8. Editing(b)!ExportSound'
    <3>1. CASE x6'.pc = "idle"
      BY <3>1 DEF Editing!ExportSound
    <3>2. CASE x6'.pc = "deliver"
      BY <1>1, <1>2, <3>2, EditingExport DEF Editing!ExportSound, Editing!Confirms
    <3>3. CASE x6'.pc = "complete"
      BY <1>1, <1>2, <3>3, EditingExport DEF Editing!ExportSound, Editing!Confirms
    <3> QED
      BY <1>2, <3>1, <3>2, <3>3
  <2>9. Editing(b)!RefSound'
    BY <1>1, <1>2, <1>12 DEF Editing!RefSound, Editing!Leaves, Editing!Confirms
  <2>11. (x10 = {} => Editing(b)!ShownIsItsOwn)'
    BY <1>1, <1>2 DEF Editing!ShownIsItsOwn, Editing!ItsOwn, Editing!PaidIsPending, Editing!Paid
  <2>20. Editing(b)!ChoiceSound'
    BY <1>1, <1>2, EditingChoices
  <2> QED
    BY <2>5, <2>6, <2>7, <2>8, <2>9, <2>11, <2>20
<1> QED
  BY <1>1, <1>2, <1>10, <1>20 DEF EditingGoes

LEMMA EditingComplete == ASSUME NEW b, Editing(b)!EdCore, Editing(b)!Complete PROVE EditingGoes(b)
<1> USE DEF Editing!EdCore
<1>1. /\ x6.pc = "complete" /\ UNCHANGED <<x2, x3, x4, x5, x7, x8, x9, x10, x11, x12>> /\ Editing(b)!Becomes(x6.rid, "completed")
      /\ x6' = [x6 EXCEPT !.pc = "completed"]
  BY DEF Editing!Complete, Editing!Exporting, Editing!Show, Editing!EndExport, Editing!Ids
<1>13. x6 \in Editing(b)!Exports /\ x6.rid # 0 /\ x6.rid \in Editing(b)!Ids
  BY <1>1, EditingExportKind DEF Editing!Confirms
<1>14. PICK k : k = x6.rid
  OBVIOUS
<1>2. /\ x6' \in Editing(b)!Exports /\ x6'.pc = "completed" /\ \A f \in {"gen", "aborted", "ref", "rid"} : x6'[f] = x6[f]
      /\ x1' \in Seq(EditingRows) /\ Editing(b)!Ids' = Editing(b)!Ids
      /\ \A j \in Editing(b)!Ids : x1'[j].bucket = x1[j].bucket /\ (j # k => x1'[j].status = x1[j].status)
      /\ x1'[k].status = (IF x1[k].status = "held" THEN "completed" ELSE x1[k].status)
  <2>1. x6' \in Editing(b)!Exports /\ x6'.pc = "completed" /\ \A f \in {"gen", "aborted", "ref", "rid"} : x6'[f] = x6[f]
    BY <1>1, <1>13 DEF Editing!Exports
  <2>2. k \in Editing(b)!Ids /\ Editing(b)!Becomes(k, "completed")
    BY <1>1, <1>13, <1>14
  <2> QED
    BY <2>1, <2>2, EditingBecomes
<1>12. Editing(b)!Confirms /\ Editing(b)!Confirms'
  BY <1>1, <1>2 DEF Editing!Confirms
<1>15. \A j \in Editing(b)!Ids : /\ x1'[j].status = "held" => x1[j].status = "held" /\ j # k
                                 /\ x1[j].status = "completed" => x1'[j].status = "completed"
                                 /\ x1[j].status # "released" => x1'[j].status # "released"
  BY <1>2
<1>4. Editing(b)!EdKinds'
  <2>1. x1' \in Seq([bucket : {"free", "paid"}, status : {"held", "completed", "released"}])
    BY <1>2 DEF EditingRows
  <2> QED
    BY <1>1, <1>2, <2>1 DEF Editing!EdKinds, Editing!RunStates, Editing!Accesses, Editing!Exports, Editing!Choices, Editing!Shown
<1>10. Editing(b)!EdCore'
  <2>1. Editing(b)!Confirmed'
    BY <1>1, <1>2, <1>12, <1>13, <1>14, <1>15 DEF Editing!Confirmed
  <2>2. ASSUME NEW id \in Editing(b)!Ids, x1'[id].status = "held", Editing(b)!SeenTo(id) PROVE Editing(b)!SeenTo(id)'
    BY <1>1, <1>14, <1>15, <2>2 DEF Editing!SeenTo
  <2> QED
    BY <1>1, <1>2, <1>4, <1>15, <2>1, <2>2, EditingSides
<1>20. ASSUME EditingTidy(b), Editing(b)!Orderly' PROVE Editing(b)!EdTidy'
  <2> USE <1>20 DEF EditingTidy, Editing!EdTidy
  <2>16. x6.rid = x6.ref /\ x6.rid \notin x7 /\ (x2.ref = x6.rid => x2.finalizing)
    BY <1>1, <1>13, EditingExport DEF Editing!Confirms
  <2>3. \A id : Editing(b)!Untold(id) => Editing(b)!Untold(id)'
    BY <1>1, <1>2, <1>13, <1>14, <2>16 DEF Editing!Untold
  <2>5. Editing(b)!RunsSound'
    <3>1. \A i \in RunSlots : \A id : x3[i].pc = "reserved" /\ x3[i].rid = id => Editing(b)!Untold(id)'
      BY <2>3, EditingRun
    <3> QED
      BY <1>1, <1>2, <3>1, EditingRunsStay
  <2>6. Editing(b)!AccessSound'
    BY <1>1, <1>2, <2>3 DEF Editing!AccessSound
  <2>7. Editing(b)!ChangeSound'
    BY <1>1, <1>2 DEF Editing!ChangeSound
  <2>8. Editing(b)!ExportSound'
    <3>1. x1'[k].status # "held"
      BY <1>2
    <3> QED
      BY <1>1, <1>2, <1>12, <1>13, <1>14, <2>16, <3>1, EditingExport DEF Editing!ExportSound
  <2>9. Editing(b)!RefSound'
    <3>1. x2.ref \in Editing(b)!Ids \cup {0}
      BY EditingPage
    <3> QED
      BY <1>1, <1>12, <1>15, <3>1 DEF Editing!RefSound, Editing!Leaves
  <2>11. (x10 = {} => Editing(b)!ShownIsItsOwn)'
    <3>1. x2.ref \in Editing(b)!Ids \cup {0} /\ x11 \subseteq Editing(b)!Ids
      BY EditingPage DEF Editing!EdKinds
    <3>2. Editing(b)!PaidIsPending => Editing(b)!PaidIsPending'
      BY <1>1, <1>2, <1>15, <3>1 DEF Editing!PaidIsPending, Editing!Paid
    <3>3. Editing(b)!ItsOwn' = Editing(b)!ItsOwn
      BY <1>1 DEF Editing!ItsOwn
    <3> QED
      BY <1>1, <1>15, <3>1, <3>2, <3>3 DEF Editing!ShownIsItsOwn
  <2>20. Editing(b)!ChoiceSound'
    BY <1>1, <1>2, EditingChoices
  <2> QED
    BY <2>5, <2>6, <2>7, <2>8, <2>9, <2>11, <2>20
<1> QED
  BY <1>1, <1>2, <1>10, <1>20 DEF EditingGoes

LEMMA EditingDeliver == ASSUME NEW b, Editing(b)!EdCore, Editing(b)!Deliver PROVE EditingGoes(b)
<1> USE DEF Editing!EdCore
<1>1. /\ x6.pc = "deliver" /\ UNCHANGED <<x1, x2, x3, x4, x5, x7, x8, x9, x10, x12>> /\ Editing(b)!Ids' = Editing(b)!Ids
      /\ x6' = Editing(b)!Idle /\ x11' = x11 \cup {x6.ref}
  BY DEF Editing!Deliver, Editing!Exporting, Editing!Show, Editing!EndExport, Editing!Ids
<1>2. x6'.pc = "idle" /\ x6.ref \in Editing(b)!Ids /\ ~Editing(b)!Confirms /\ ~Editing(b)!Confirms'
  BY <1>1, EditingExportKind DEF Editing!Idle, Editing!Confirms
<1>4. Editing(b)!EdKinds'
  BY <1>1, <1>2 DEF Editing!EdKinds, Editing!RunStates, Editing!Accesses, Editing!Exports, Editing!Choices, Editing!Shown
<1>10. Editing(b)!EdCore'
  BY <1>1, <1>2, <1>4, EditingSides DEF Editing!SeenTo, Editing!Confirmed
<1>20. ASSUME EditingTidy(b), Editing(b)!Orderly' PROVE Editing(b)!EdTidy'
  <2> USE <1>20 DEF EditingTidy, Editing!EdTidy
  <2>3. \A id : Editing(b)!Untold(id) => Editing(b)!Untold(id)'
    BY <1>1, <1>2 DEF Editing!Untold
  <2>5. Editing(b)!RunsSound'
    <3>1. \A i \in RunSlots : \A id : x3[i].pc = "reserved" /\ x3[i].rid = id => Editing(b)!Untold(id)'
      BY <2>3, EditingRun
    <3> QED
      BY <1>1, <1>2, <3>1, EditingRunsStay
  <2>6. Editing(b)!AccessSound'
    BY <1>1, <1>2, <2>3 DEF Editing!AccessSound
  <2>7. Editing(b)!ChangeSound'
    BY <1>1, <1>2 DEF Editing!ChangeSound
  <2>8. Editing(b)!ExportSound'
    BY <1>2 DEF Editing!ExportSound
  <2>9. Editing(b)!RefSound'
    BY <1>1, <1>2 DEF Editing!RefSound, Editing!Leaves
  <2>11. (x10 = {} => Editing(b)!ShownIsItsOwn)'
    <3>1. x10 = {} => x1[x6.ref].status = "completed"
      BY <1>1, EditingExport
    <3>2. Editing(b)!ItsOwn' = Editing(b)!ItsOwn /\ Editing(b)!PaidIsPending' = Editing(b)!PaidIsPending
      BY <1>1 DEF Editing!ItsOwn, Editing!PaidIsPending, Editing!Paid
    <3> QED
      BY <1>1, <3>1, <3>2 DEF Editing!ShownIsItsOwn
  <2>20. Editing(b)!ChoiceSound'
    BY <1>1, <1>2, EditingChoices
  <2> QED
    BY <2>5, <2>6, <2>7, <2>8, <2>9, <2>11, <2>20
<1> QED
  BY <1>1, <1>2, <1>10, <1>20 DEF EditingGoes

LEMMA EditingCompleted == ASSUME NEW b, Editing(b)!EdCore, Editing(b)!Completed PROVE EditingGoes(b)
<1> USE DEF Editing!EdCore
<1>1. /\ x6.pc = "completed" /\ UNCHANGED <<x1, x3, x4, x5, x7, x11, x12>> /\ Editing(b)!Ids' = Editing(b)!Ids
      /\ \/ /\ x1[x6.rid].status = "completed" /\ x2' = [x2 EXCEPT !.finalizing = FALSE, !.pending = FALSE]
            /\ x10 \subseteq x10' /\ x10' = (IF x2.pending /\ x2.ref # x6.rid THEN x10 \cup {"export"} ELSE x10)
            /\ x9' = x9 \cup Editing(b)!Overwritten(x6.rid) /\ x6' = [x6 EXCEPT !.pc = "deliver"]
         \/ /\ x2' = [x2 EXCEPT !.finalizing = FALSE] /\ UNCHANGED <<x9, x10, x12>>
            /\ x6' = [x6 EXCEPT !.pc = "encode"] \/ x6' = Editing(b)!Idle
  BY DEF Editing!Completed, Editing!Exporting, Editing!Show, Editing!EndExport, Editing!Ids
<1>13. x6 \in Editing(b)!Exports /\ x6.rid # 0 /\ x6.rid \in Editing(b)!Ids
  BY <1>1, EditingExportKind DEF Editing!Confirms
<1>14. PICK k : k = x6.rid
  OBVIOUS
<1>15. x2 \in Editing(b)!Shown /\ x2.ref \in Editing(b)!Ids \cup {0}
  BY EditingPage
<1>2. /\ x2' \in Editing(b)!Shown /\ ~x2'.finalizing
      /\ \A f \in {"stage", "gen", "file", "ref", "transcript", "audio", "fallback"} : x2'[f] = x2[f]
      /\ \/ /\ x1[k].status = "completed" /\ ~x2'.pending /\ x6' \in Editing(b)!Exports /\ x6'.pc = "deliver"
            /\ \A f \in {"gen", "aborted", "ref", "rid"} : x6'[f] = x6[f]
            /\ x9' = x9 \cup (IF x2.ref # 0 /\ x1[x2.ref].status = "held" THEN {x2.ref} ELSE {})
            /\ x10 \subseteq x10' /\ (x10' = {} => x10 = {} /\ (x2.pending => x2.ref = k))
         \/ /\ x2'.pending = x2.pending /\ UNCHANGED <<x9, x10, x12>>
            /\ \/ x6' \in Editing(b)!Exports /\ x6'.pc = "encode" /\ \A f \in {"gen", "aborted", "ref", "rid"} : x6'[f] = x6[f]
               \/ x6' = Editing(b)!Idle /\ x6'.pc = "idle"
  <2>1. CASE /\ x1[x6.rid].status = "completed" /\ x2' = [x2 EXCEPT !.finalizing = FALSE, !.pending = FALSE]
             /\ x10' = (IF x2.pending /\ x2.ref # x6.rid THEN x10 \cup {"export"} ELSE x10)
             /\ x9' = x9 \cup Editing(b)!Overwritten(x6.rid) /\ x6' = [x6 EXCEPT !.pc = "deliver"]
    <3>1. x2' \in Editing(b)!Shown /\ ~x2'.finalizing /\ ~x2'.pending
          /\ \A f \in {"stage", "gen", "file", "ref", "transcript", "audio", "fallback"} : x2'[f] = x2[f]
      BY <1>15, <2>1 DEF Editing!Shown
    <3>2. x6' \in Editing(b)!Exports /\ x6'.pc = "deliver" /\ \A f \in {"gen", "aborted", "ref", "rid"} : x6'[f] = x6[f]
      BY <1>13, <2>1 DEF Editing!Exports
    <3>3. x9' = x9 \cup (IF x2.ref # 0 /\ x1[x2.ref].status = "held" THEN {x2.ref} ELSE {})
      BY <1>13, <2>1 DEF Editing!Overwritten, Editing!Held
    <3>4. x10 \subseteq x10' /\ (x10' = {} => x10 = {} /\ (x2.pending => x2.ref = k))
      BY <1>14, <2>1
    <3>5. x1[k].status = "completed"
      BY <1>14, <2>1
    <3> QED
      BY <3>1, <3>2, <3>3, <3>4, <3>5
  <2>2. CASE /\ x2' = [x2 EXCEPT !.finalizing = FALSE] /\ UNCHANGED <<x9, x10, x12>>
             /\ x6' = [x6 EXCEPT !.pc = "encode"] \/ x6' = Editing(b)!Idle
    <3>1. x2' \in Editing(b)!Shown /\ ~x2'.finalizing /\ x2'.pending = x2.pending
          /\ \A f \in {"stage", "gen", "file", "ref", "transcript", "audio", "fallback"} : x2'[f] = x2[f]
      BY <1>15, <2>2 DEF Editing!Shown
    <3> QED
      BY <1>13, <2>2, <3>1 DEF Editing!Exports, Editing!Idle
  <2> QED
    BY <1>1, <2>1, <2>2
<1>12. Editing(b)!Confirms /\ ~Editing(b)!Confirms'
  BY <1>1, <1>2 DEF Editing!Confirms
<1>4. Editing(b)!EdKinds'
  <2>1. x9' \subseteq Editing(b)!Ids
    BY <1>2, <1>15 DEF Editing!EdKinds
  <2> QED
    BY <1>1, <1>2, <2>1 DEF Editing!EdKinds, Editing!RunStates, Editing!Accesses, Editing!Exports, Editing!Choices, Editing!Shown
<1>10. Editing(b)!EdCore'
  <2>1. Editing(b)!Confirmed'
    BY <1>1, <1>2, <1>12 DEF Editing!Confirmed
  <2>2. ASSUME NEW id \in Editing(b)!Ids, x1[id].status = "held"
        PROVE  /\ id \in x7 \cup {x2.ref} => id \in x7' \cup x9' \cup {x2'.ref}
               /\ Editing(b)!SeenTo(id) => Editing(b)!SeenTo(id)'
    <3>1. id # 0
      BY EditingIds
    <3> QED
      BY <1>1, <1>2, <2>2, <3>1 DEF Editing!SeenTo
  <2> QED
    BY <1>1, <1>2, <1>4, <2>1, <2>2, EditingSides
<1>20. ASSUME EditingTidy(b), Editing(b)!Orderly' PROVE Editing(b)!EdTidy'
  <2> USE <1>20 DEF EditingTidy, Editing!EdTidy
  <2>16. x6.rid = x6.ref /\ x6.rid \notin x7 /\ x1[x6.rid].status # "held"
    BY <1>1, EditingExport DEF Editing!Confirms
  <2>3. \A id : Editing(b)!Untold(id) => Editing(b)!Untold(id)'
    BY <1>1, <1>2 DEF Editing!Untold
  <2>5. Editing(b)!RunsSound'
    <3>1. \A i \in RunSlots : \A id : x3[i].pc = "reserved" /\ x3[i].rid = id => Editing(b)!Untold(id)'
      BY <2>3, EditingRun
    <3> QED
      BY <1>1, <1>2, <3>1, EditingRunsStay
  <2>6. Editing(b)!AccessSound'
    BY <1>1, <1>2, <2>3 DEF Editing!AccessSound
  <2>7. Editing(b)!ChangeSound'
    BY <1>1, <1>2 DEF Editing!ChangeSound
  <2>8. Editing(b)!ExportSound'
    <3>1. CASE x6'.pc = "idle"
      BY <3>1 DEF Editing!ExportSound
    <3>2. CASE x6'.pc \in {"encode", "deliver"}
      <4>1. \A f \in {"gen", "aborted", "ref", "rid"} : x6'[f] = x6[f]
        BY <1>2, <3>2
      <4>2. x6'.pc = "deliver" => x1[k].status = "completed"
        BY <1>2
      <4> QED
        BY <1>1, <1>2, <1>12, <1>13, <1>14, <2>16, <3>2, <4>1, <4>2, EditingExport DEF Editing!ExportSound
    <3> QED
      BY <1>2, <3>1, <3>2
  <2>9. Editing(b)!RefSound'
    BY <1>1, <1>2 DEF Editing!RefSound, Editing!Leaves
  <2>11. (x10 = {} => Editing(b)!ShownIsItsOwn)'
    <3> SUFFICES ASSUME x10' = {} PROVE Editing(b)!ShownIsItsOwn'
      OBVIOUS
    <3>1. x10 = {}
      BY <1>2
    <3>2. Editing(b)!PaidIsPending => Editing(b)!PaidIsPending'
      BY <1>1, <1>2 DEF Editing!PaidIsPending, Editing!Paid
    <3>3. Editing(b)!ItsOwn' = Editing(b)!ItsOwn
      BY <1>2 DEF Editing!ItsOwn
    <3> QED
      BY <1>1, <1>2, <3>1, <3>2, <3>3 DEF Editing!ShownIsItsOwn
  <2>20. Editing(b)!ChoiceSound'
    BY <1>1, <1>2, EditingChoices
  <2> QED
    BY <2>5, <2>6, <2>7, <2>8, <2>9, <2>11, <2>20
<1> QED
  BY <1>1, <1>2, <1>10, <1>20 DEF EditingGoes

LEMMA EditingCancelExport == ASSUME NEW b, Editing(b)!EdCore, Editing(b)!CancelExport PROVE EditingGoes(b)
<1> USE DEF Editing!EdCore
<1>1. /\ x6.pc \in {"renew", "encode"} /\ x6.gen = x2.gen /\ ~x2.finalizing /\ x6' = Editing(b)!Abort(x6)
      /\ UNCHANGED <<x1, x3, x4, x5, x8, x9, x10, x11, x12>> /\ Editing(b)!Ids' = Editing(b)!Ids
      /\ \/ /\ x2.pending /\ x2.ref # 0 /\ x7' = x7 \cup {x2.ref}
            /\ x2' = [x2 EXCEPT !.ref = 0, !.pending = FALSE, !.finalizing = FALSE]
         \/ x2' = x2 /\ x7' = x7
  BY DEF Editing!CancelExport, Editing!Ghosts, Editing!Remember, Editing!Exporting, Editing!Show, Editing!EndExport, Editing!Ids
<1>13. /\ x6 \in Editing(b)!Exports /\ x6' \in Editing(b)!Exports /\ x6'.aborted /\ x6'.pc = x6.pc
       /\ x6'.gen = x6.gen /\ x6'.ref = x6.ref /\ x6'.rid = x6.rid 
       /\ x2 \in Editing(b)!Shown /\ x2.ref \in Editing(b)!Ids \cup {0}
  BY <1>1, EditingExportKind, EditingAborted, EditingPage
<1>2. /\ x2' \in Editing(b)!Shown /\ \A f \in {"stage", "gen", "file", "transcript", "audio", "fallback"} : x2'[f] = x2[f]
      /\ ~x2'.finalizing
      /\ \/ x2.ref # 0 /\ x7' = x7 \cup {x2.ref} /\ x2'.ref = 0 /\ ~x2'.pending
         \/ x7' = x7 /\ x2'.ref = x2.ref /\ x2'.pending = x2.pending
  <2>1. CASE x2' = [x2 EXCEPT !.ref = 0, !.pending = FALSE, !.finalizing = FALSE] /\ x2.ref # 0 /\ x7' = x7 \cup {x2.ref}
    <3>1. /\ x2' \in Editing(b)!Shown /\ x2'.ref = 0 /\ ~x2'.pending /\ ~x2'.finalizing
          /\ \A f \in {"stage", "gen", "file", "transcript", "audio", "fallback"} : x2'[f] = x2[f]
      BY <1>13, <2>1 DEF Editing!Shown
    <3> QED
      BY <2>1, <3>1
  <2>2. CASE x2' = x2 /\ x7' = x7
    BY <1>1, <1>13, <2>2
  <2> QED
    BY <1>1, <2>1, <2>2
<1>12. ~Editing(b)!Confirms /\ ~Editing(b)!Confirms'
  BY <1>1, <1>13 DEF Editing!Confirms
<1>4. Editing(b)!EdKinds'
  <2>1. x7' \subseteq Editing(b)!Ids
    BY <1>2, <1>13 DEF Editing!EdKinds
  <2> QED
    BY <1>1, <1>2, <1>13, <2>1 DEF Editing!EdKinds, Editing!RunStates, Editing!Accesses, Editing!Exports, Editing!Choices, Editing!Shown
<1>10. Editing(b)!EdCore'
  <2>1. Editing(b)!Confirmed'
    BY <1>1, <1>2, <1>12, <1>13 DEF Editing!Confirmed, Editing!Confirms
  <2>2. ASSUME NEW id \in Editing(b)!Ids
        PROVE  /\ id \in x7 \cup {x2.ref} => id \in x7' \cup x9' \cup {x2'.ref}
               /\ Editing(b)!SeenTo(id) => Editing(b)!SeenTo(id)'
    <3>1. id # 0
      BY EditingIds
    <3> QED
      BY <1>1, <1>2, <1>12, <1>13, <3>1 DEF Editing!SeenTo, Editing!Confirms
  <2> QED
    BY <1>1, <1>2, <1>4, <2>1, <2>2, EditingSides
<1>20. ASSUME EditingTidy(b), Editing(b)!Orderly' PROVE Editing(b)!EdTidy'
  <2> USE <1>20 DEF EditingTidy, Editing!EdTidy
  <2>16. x2.stage = "result" /\ ~x2.fallback
    BY <1>1, EditingExport DEF Editing!ChoiceSound
  <2>3. \A id : Editing(b)!Untold(id) => Editing(b)!Untold(id)'
    <3>1. ASSUME NEW id, Editing(b)!Untold(id) PROVE id # 0 /\ id # x2.ref /\ id \notin x7
      BY <3>1, EditingIds DEF Editing!Untold
    <3> QED
      BY <1>1, <1>2, <1>13, <3>1 DEF Editing!Untold
  <2>5. Editing(b)!RunsSound'
    <3>1. \A i \in RunSlots : \A id : x3[i].pc = "reserved" /\ x3[i].rid = id => Editing(b)!Untold(id)'
      BY <2>3, EditingRun
    <3> QED
      BY <1>1, <1>2, <1>13, <2>16, <3>1, EditingRunsStay
  <2>6. Editing(b)!AccessSound'
    BY <1>1, <1>2, <2>3 DEF Editing!AccessSound
  <2>7. Editing(b)!ChangeSound'
    BY <1>1, <1>2 DEF Editing!ChangeSound
  <2>8. Editing(b)!ExportSound'
    <3>1. x6'.rid \in {0, x6'.ref} /\ (x6'.pc = "renew" => x6'.rid # 0) /\ x6'.gen <= x2.gen /\ x6'.gen = x2.gen
          /\ (x6'.rid = 0 /\ x10 = {} => x1[x6'.ref].status = "completed")
      BY <1>1, <1>13, EditingExport
    <3> QED
      BY <1>1, <1>2, <1>12, <1>13, <3>1 DEF Editing!ExportSound
  <2>9. Editing(b)!RefSound'
    BY <1>1, <1>2 DEF Editing!RefSound, Editing!Leaves
  <2>11. (x10 = {} => Editing(b)!ShownIsItsOwn)'
    <3>1. Editing(b)!PaidIsPending => Editing(b)!PaidIsPending'
      BY <1>1, <1>2, <2>16 DEF Editing!PaidIsPending, Editing!Paid
    <3>2. Editing(b)!ItsOwn' = Editing(b)!ItsOwn
      BY <1>2 DEF Editing!ItsOwn
    <3> QED
      BY <1>1, <1>2, <3>1, <3>2 DEF Editing!ShownIsItsOwn
  <2>20. Editing(b)!ChoiceSound'
    BY <1>1, <1>2, <2>16, EditingChoices
  <2> QED
    BY <2>5, <2>6, <2>7, <2>8, <2>9, <2>11, <2>20
<1> QED
  BY <1>1, <1>2, <1>10, <1>20 DEF EditingGoes

\* The person starts again: what the page holds goes, and every run, change
\* and export that it had is aborted.
LEMMA EditingSuperseded ==
  ASSUME NEW b, Editing(b)!EdCore, Editing(b)!Supersede, x2' \in Editing(b)!Shown, x2'.gen = x2.gen + 1, x2'.ref = 0,
         ~x2'.pending, ~x2'.finalizing, x2'.stage \notin {"processing", "result"}, x2'.audio = 0, ~x2'.fallback,
         x12' = x12 \/ x12' = [k \in {"narration", "result"} |-> Editing(b)!Idle]
  PROVE  EditingGoes(b)
<1> USE DEF Editing!EdCore
<1>1. /\ x1' = x1 /\ x5' = x5 /\ x8' = x8 /\ x10' = x10 /\ x11' = x11 /\ Editing(b)!Ids' = Editing(b)!Ids
      /\ x3' = [i \in RunSlots |-> Editing(b)!Abort(x3[i])] /\ x4' = Editing(b)!Abort(x4)
      /\ x6' = (IF x2.finalizing THEN x6 ELSE Editing(b)!Abort(x6))
      /\ x7' = (IF x2.pending /\ ~x2.finalizing /\ x2.ref # 0 THEN x7 \cup {x2.ref} ELSE x7)
      /\ x9' = x9 \cup (IF x2.finalizing THEN Editing(b)!Overwritten(0) \ {x6.rid} ELSE {})
  BY DEF Editing!Supersede, Editing!ReleasePending, Editing!Ids
<1>2. /\ x2 \in Editing(b)!Shown /\ x2.gen \in Nat /\ x2.ref \in Editing(b)!Ids \cup {0} /\ x2'.gen \in Nat
      /\ \A n \in Nat : n <= x2.gen => n <= x2'.gen /\ n # x2'.gen
  <2>1. x2 \in Editing(b)!Shown /\ x2.gen \in Nat /\ x2.ref \in Editing(b)!Ids \cup {0}
    BY DEF Editing!EdKinds, Editing!Shown
  <2> QED
    BY <2>1, EditingCounts
<1>3. ASSUME NEW i \in RunSlots
      PROVE  /\ x3'[i] = Editing(b)!Abort(x3[i]) /\ (x3'[i].pc = "idle" <=> x3[i].pc = "idle")
             /\ x3[i].pc = "idle" => x3[i] = Editing(b)!Idle /\ x3'[i] = x3[i]
             /\ x3[i].pc # "idle" => /\ x3[i] \in Editing(b)!RunStates /\ x3'[i] \in Editing(b)!RunStates /\ x3'[i].aborted
                                     /\ \A f \in {"pc", "kind", "gen", "file", "own", "rid", "pending"} : x3'[i][f] = x3[i][f]
  <2>1. x3'[i] = Editing(b)!Abort(x3[i])
    BY <1>1
  <2>2. x3[i].pc # "idle" => x3[i] \in Editing(b)!RunStates
    BY EditingRunKind
  <2>3. x3[i].pc = "idle" => x3[i] = Editing(b)!Idle
    BY DEF Editing!EdKinds, Editing!RunStates, Editing!RunPlaces
  <2>4. x3[i].pc = "idle" => Editing(b)!Abort(x3[i]) = x3[i]
    BY DEF Editing!Abort
  <2> QED
    BY <2>1, <2>2, <2>3, <2>4, EditingAborted
<1>4. /\ x6'.pc = x6.pc /\ x6' \in {Editing(b)!Idle} \cup Editing(b)!Exports
      /\ x6.pc # "idle" => /\ x6 \in Editing(b)!Exports /\ x6'.ref = x6.ref /\ x6'.rid = x6.rid /\ x6'.gen = x6.gen
                           /\ IF x2.finalizing THEN x6'.aborted = x6.aborted ELSE x6'.aborted
      /\ x6.pc # "idle" => x6.ref \in Editing(b)!Ids /\ x6.gen \in Nat
  <2>1. x6 \in {Editing(b)!Idle} \cup Editing(b)!Exports
    BY DEF Editing!EdKinds
  <2>2. CASE x6 = Editing(b)!Idle
    BY <1>1, <2>2 DEF Editing!Abort, Editing!Idle
  <2>3. CASE x6 \in Editing(b)!Exports
    <3>1. x6.ref \in Editing(b)!Ids /\ x6.gen \in Nat
      BY <2>3 DEF Editing!Exports
    <3> QED
      BY <1>1, <2>3, <3>1, EditingAborted
  <2> QED
    BY <2>1, <2>2, <2>3
<1>5. Editing(b)!EdKinds'
  <2>1. x3' \in [RunSlots -> {Editing(b)!Idle} \cup Editing(b)!RunStates]
    BY <1>1, <1>3
  <2>2. x4' \in {Editing(b)!Idle} \cup Editing(b)!Changes
    BY <1>1, EditingAborted DEF Editing!EdKinds, Editing!Idle, Editing!Abort
  <2>3. x7' \subseteq Editing(b)!Ids /\ x9' \subseteq Editing(b)!Ids
    BY <1>1, <1>2 DEF Editing!EdKinds, Editing!Overwritten, Editing!Held
  <2>4. Editing(b)!RunStates' = Editing(b)!RunStates /\ Editing(b)!Shown' = Editing(b)!Shown /\ Editing(b)!Exports' = Editing(b)!Exports
        /\ Editing(b)!Accesses' = Editing(b)!Accesses /\ Editing(b)!Choices' = Editing(b)!Choices
    BY <1>1 DEF Editing!RunStates, Editing!Shown, Editing!Exports, Editing!Accesses, Editing!Choices
  <2>5. x12' \in [{"narration", "result"} -> {Editing(b)!Idle} \cup Editing(b)!Choices] /\ Editing(b)!Idle' = Editing(b)!Idle
    BY DEF Editing!EdKinds, Editing!Idle
  <2> QED
    BY <1>1, <1>2, <1>4, <2>1, <2>2, <2>3, <2>4, <2>5 DEF Editing!EdKinds
<1>6. Editing(b)!RunsCount'
  <2>1. ASSUME NEW i \in RunSlots, NEW s, s = x3'[i], s.pc # "idle" PROVE Editing(b)!RunCounts(s)'
    <3>1. x3[i] \in Editing(b)!RunStates /\ Editing(b)!RunCounts(x3[i])
      BY <1>3, <2>1, EditingRunKind
    <3>2. PICK r : r = x3[i]
      OBVIOUS
    <3>3. s.aborted /\ s.pc = r.pc /\ s.gen = r.gen /\ s.own = r.own /\ s.rid = r.rid
      BY <1>3, <2>1, <3>2
    <3>4. r.gen <= x2'.gen /\ r.gen # x2'.gen
      BY <1>2, <3>1, <3>2 DEF Editing!RunCounts, Editing!RunStates
    <3> QED
      BY <3>1, <3>2, <3>3, <3>4 DEF Editing!RunCounts
  <2> QED
    BY <1>3, <2>1 DEF Editing!RunsCount
<1>7. Editing(b)!RunsKeep'
  BY <1>3 DEF Editing!RunsKeep, Editing!Keeps
<1>8. Editing(b)!Confirmed'
  BY <1>1, <1>4 DEF Editing!Confirmed, Editing!Confirms
<1>9. Editing(b)!Accounted'
  <2>1. ASSUME NEW id \in Editing(b)!Ids, x1[id].status = "held"
        PROVE  Editing(b)!SeenTo(id)' \/ (\E i \in RunSlots : Editing(b)!Answers(x3'[i], id)) \/ (x5.pc = "answered" /\ x5.rid = id)
    <3>1. CASE Editing(b)!SeenTo(id)
      <4>1. CASE id = x2.ref /\ x2.pending
        <5>1. id # 0
          BY EditingIds
        <5> QED
          BY <1>1, <1>4, <2>1, <4>1, <5>1 DEF Editing!SeenTo, Editing!Confirmed, Editing!Confirms, Editing!Overwritten, Editing!Held
      <4>2. CASE ~(id = x2.ref /\ x2.pending)
        BY <1>1, <1>4, <3>1, <4>2 DEF Editing!SeenTo, Editing!Confirms
      <4> QED
        BY <4>1, <4>2
    <3>2. ASSUME NEW i \in RunSlots, Editing(b)!Answers(x3[i], id) PROVE Editing(b)!Answers(x3'[i], id)
      BY <1>3, <3>2 DEF Editing!Answers
    <3> QED
      BY <2>1, <3>1, <3>2 DEF Editing!Accounted
  <2> QED
    BY <1>1, <2>1 DEF Editing!Accounted, Editing!Answers
<1>10. Editing(b)!EdCore'
  BY <1>5, <1>6, <1>7, <1>8, <1>9
<1>20. ASSUME EditingTidy(b), Editing(b)!Orderly' PROVE Editing(b)!EdTidy'
  <2> USE <1>20 DEF EditingTidy, Editing!EdTidy
  <2>6. ASSUME NEW id, Editing(b)!Untold(id) PROVE Editing(b)!Untold(id)'
    <3>1. id \in Editing(b)!Ids /\ id # x2.ref /\ id \notin x7 /\ id # 0
      BY <2>6, EditingIds DEF Editing!Untold
    <3>2. id \notin x7'
      BY <1>1, <3>1
    <3>3. Editing(b)!Idle' = Editing(b)!Idle
      BY DEF Editing!Idle
    <3> QED
      BY <1>1, <3>3, <1>4, <2>6, <3>1, <3>2 DEF Editing!Untold
  <2>7. Editing(b)!RunsSound'
    <3>1. ASSUME NEW i \in RunSlots, NEW s, s = x3'[i], s.pc # "idle"
          PROVE  Editing(b)!RunSound(s)' /\ (s.pc = "reserved" => Editing(b)!Untold(s.rid)')
      <4>1. x3[i].pc = "reserved" => Editing(b)!Untold(x3[i].rid)
        BY <1>3, <3>1, EditingRun
      <4>2. s.aborted /\ s.pc = x3[i].pc /\ s.rid = x3[i].rid /\ Editing(b)!RunCounts(s)'
        BY <1>3, <1>6, <3>1 DEF Editing!RunsCount
      <4> QED
        BY <2>6, <4>1, <4>2 DEF Editing!RunSound
    <3>2. Editing(b)!RunsApart'
      BY <1>3 DEF Editing!RunsSound, Editing!RunsApart
    <3> QED
      BY <3>1, <3>2 DEF Editing!RunsSound
  <2>8. Editing(b)!AccessSound'
    <3>1. x5.pc # "idle" => x5.gen \in Nat
      BY DEF Editing!EdKinds, Editing!Accesses, Editing!Idle
    <3>2. x5.pc # "idle" => x5.gen <= x2'.gen /\ x5.gen # x2'.gen
      BY <1>2, <3>1 DEF Editing!AccessSound
    <3> QED
      BY <1>1, <1>3, <2>6, <3>2 DEF Editing!AccessSound
  <2>9. Editing(b)!ChangeSound'
    <3>1. x4.pc # "idle" => x4 \in Editing(b)!Changes /\ x4.gen \in Nat
      BY DEF Editing!EdKinds, Editing!Changes, Editing!Idle
    <3>2. x4.pc = "idle" => x4' = x4
      BY <1>1 DEF Editing!Abort
    <3>3. x4.pc # "idle" => x4'.gen = x4.gen
      BY <1>1, <3>1, EditingAborted
    <3> QED
      BY <1>2, <3>1, <3>2, <3>3 DEF Editing!ChangeSound
  <2>10. Editing(b)!ExportSound'
    <3> SUFFICES ASSUME x6.pc # "idle" PROVE Editing(b)!ExportSound'
      BY <1>4 DEF Editing!ExportSound
    <3>1. x6.gen <= x2'.gen /\ x6.gen # x2'.gen /\ x6.ref # 0
      BY <1>2, <1>4, EditingIds DEF Editing!ExportSound
    <3>2. Editing(b)!Confirms' <=> Editing(b)!Confirms
      BY <1>4 DEF Editing!Confirms
    <3>3. x6.rid # 0 /\ (~x6'.aborted \/ Editing(b)!Confirms) => x6.rid \notin x7'
      <4>1. CASE x2.finalizing
        BY <1>1, <1>4, <4>1 DEF Editing!ExportSound
      <4>2. CASE ~x2.finalizing
        <5>1. x6'.aborted
          BY <1>4, <4>2
        <5>2. Editing(b)!Confirms => x6.rid # x2.ref
          BY <4>2 DEF Editing!ExportSound
        <5> QED
          BY <1>1, <5>1, <5>2 DEF Editing!ExportSound
      <4> QED
        BY <4>1, <4>2
    <3> QED
      BY <1>1, <1>4, <3>1, <3>2, <3>3 DEF Editing!ExportSound
  <2>14. ~Editing(b)!Leaves'
    <3>1. Editing(b)!Idle' = Editing(b)!Idle /\ (x12["narration"] # Editing(b)!Idle => x12["narration"].ref # 0)
      BY EditingIds DEF Editing!EdKinds, Editing!Choices, Editing!Idle
    <3> QED
      BY <3>1 DEF Editing!Leaves
  <2>11. Editing(b)!RefSound' /\ Editing(b)!ChoiceSound'
    <3>1. x12'["result"] # Editing(b)!Idle => x12'["result"].gen <= x2'.gen /\ x12'["result"].gen # x2'.gen
      <4>1. x12["result"] # Editing(b)!Idle => x12["result"].gen \in Nat
        BY DEF Editing!EdKinds, Editing!Choices
      <4> QED
        BY <1>2, <4>1 DEF Editing!ChoiceSound
    <3>2. Editing(b)!Idle' = Editing(b)!Idle
      BY DEF Editing!Idle
    <3> QED
      BY <2>14, <3>1, <3>2 DEF Editing!RefSound, Editing!ChoiceSound
  <2>13. (x10 = {} => Editing(b)!ShownIsItsOwn)'
    BY <1>1, <1>3 DEF Editing!ShownIsItsOwn
  <2> QED
    BY <2>7, <2>8, <2>9, <2>10, <2>11, <2>13
<1> QED
  BY <1>1, <1>10, <1>20 DEF EditingGoes

LEMMA EditingChooseFile == ASSUME NEW b, Editing(b)!EdCore, Editing(b)!ChooseFile PROVE EditingGoes(b)
<1>1. Editing(b)!Supersede
  BY DEF Editing!ChooseFile
<1>2. /\ x2'.gen = x2.gen + 1 /\ x2'.ref = 0 /\ ~x2'.pending /\ ~x2'.finalizing /\ x2'.stage = "setup" /\ x2'.audio = 0 /\ ~x2'.fallback
      /\ x2' \in Editing(b)!Shown
  <2>1. x2 \in Editing(b)!Shown /\ x2.gen \in Nat /\ x2.gen + 1 \in Nat
    BY EditingPage, EditingCounts DEF Editing!EdCore
  <2> QED
    BY <2>1 DEF Editing!ChooseFile, Editing!Show, Editing!Remember, Editing!Shown
<1>3. x12' = x12 \/ x12' = [k \in {"narration", "result"} |-> Editing(b)!Idle]
  BY DEF Editing!ChooseFile, Editing!Waits
<1> QED
  BY <1>1, <1>2, <1>3, EditingSuperseded

LEMMA EditingReset == ASSUME NEW b, Editing(b)!EdCore, Editing(b)!Reset PROVE EditingGoes(b)
<1>1. Editing(b)!Supersede
  BY DEF Editing!Reset
<1>2. /\ x2'.gen = x2.gen + 1 /\ x2'.ref = 0 /\ ~x2'.pending /\ ~x2'.finalizing /\ x2'.stage = "start" /\ x2'.audio = 0 /\ ~x2'.fallback
      /\ x2' \in Editing(b)!Shown
  <2>1. x2 \in Editing(b)!Shown /\ x2.gen \in Nat /\ x2.gen + 1 \in Nat
    BY EditingPage, EditingCounts DEF Editing!EdCore
  <2> QED
    BY <2>1 DEF Editing!Reset, Editing!Show, Editing!Remember, Editing!Shown
<1>3. x12' = x12 \/ x12' = [k \in {"narration", "result"} |-> Editing(b)!Idle]
  BY DEF Editing!Reset, Editing!Waits
<1> QED
  BY <1>1, <1>2, <1>3, EditingSuperseded

LEMMA EditingLeave == ASSUME NEW b, Editing(b)!EdCore, Editing(b)!Leave PROVE EditingGoes(b)
<1>1. Editing(b)!Supersede
  BY DEF Editing!Leave
<1>2. /\ x2'.gen = x2.gen + 1 /\ x2'.ref = 0 /\ ~x2'.pending /\ ~x2'.finalizing /\ x2'.stage = "gone" /\ x2'.audio = 0 /\ ~x2'.fallback
      /\ x2' \in Editing(b)!Shown
  <2>1. x2 \in Editing(b)!Shown /\ x2.gen \in Nat /\ x2.gen + 1 \in Nat
    BY EditingPage, EditingCounts DEF Editing!EdCore
  <2> QED
    BY <2>1 DEF Editing!Leave, Editing!Show, Editing!Remember, Editing!Shown
<1>3. x12' = x12 \/ x12' = [k \in {"narration", "result"} |-> Editing(b)!Idle]
  BY DEF Editing!Leave, Editing!Waits
<1> QED
  BY <1>1, <1>2, <1>3, EditingSuperseded

LEMMA EditingSilentNarration == ASSUME NEW b, Editing(b)!EdCore, Editing(b)!SilentNarration PROVE EditingGoes(b)
<1> USE DEF Editing!EdCore
<1>1. /\ x2.stage = "setup" /\ x2.fallback /\ x7' = x7 \cup ({x2.ref} \ {0}) /\ UNCHANGED <<x1, x3, x4, x5, x6, x8, x9, x11>>
      /\ Editing(b)!Ids' = Editing(b)!Ids /\ x10 \subseteq x10' /\ x12["narration"] = Editing(b)!Idle
      /\ Editing(b)!Orderly' => x10' = x10 /\ ~Editing(b)!Crossing("result")
      /\ Editing(b)!Idle' = Editing(b)!Idle
  BY DEF Editing!SilentNarration, Editing!Sides, Editing!Ids, Editing!OffersChoice, Editing!Strays, Editing!Orderly, Editing!Idle
<1>2. /\ x2' \in Editing(b)!Shown /\ \A f \in {"stage", "gen", "file", "ref", "transcript", "audio"} : x2'[f] = x2[f]
      /\ IF x2.ref = 0 THEN ~x2'.pending /\ ~x2'.finalizing /\ ~x2'.fallback /\ x12' = x12
                       ELSE x2' = x2 /\ x12' = [x12 EXCEPT !["narration"] = Editing(b)!Asked]
  BY EditingPage DEF Editing!SilentNarration, Editing!Show, Editing!Narrating, Editing!Remember, Editing!Shown
<1>3. /\ Editing(b)!Asked.ref = x2.ref /\ Editing(b)!Asked.gen = x2.gen /\ Editing(b)!Asked # Editing(b)!Idle
      /\ x2.ref # 0 => Editing(b)!Asked \in Editing(b)!Choices
      /\ x12'["result"] = x12["result"]
      /\ x12'["narration"] = (IF x2.ref = 0 THEN x12["narration"] ELSE Editing(b)!Asked)
  <2>1. Editing(b)!Asked # Editing(b)!Idle
    <3>1. Editing(b)!Asked.pc = "asked" /\ Editing(b)!Idle.pc = "idle"
      BY DEF Editing!Asked, Editing!Idle
    <3> QED
      BY <3>1
  <2> QED
    BY <1>2, <2>1, EditingPage, EditingChoiceKinds DEF Editing!Asked, Editing!Choices
<1>4. Editing(b)!EdKinds'
  <2>1. x12' \in [{"narration", "result"} -> {Editing(b)!Idle} \cup Editing(b)!Choices]
    BY <1>2, <1>3, EditingChoiceKinds
  <2>2. x7' \subseteq Editing(b)!Ids
    BY <1>1, EditingPage DEF Editing!EdKinds
  <2> QED
    BY <1>1, <1>2, <2>1, <2>2 DEF Editing!EdKinds, Editing!RunStates, Editing!Accesses, Editing!Exports, Editing!Choices, Editing!Shown
<1>10. Editing(b)!EdCore'
  <2>1. \A id \in Editing(b)!Ids : id # 0
    BY EditingIds
  <2>2. Editing(b)!Confirmed'
    BY <1>1, <1>2 DEF Editing!Confirmed, Editing!Confirms
  <2> QED
    BY <1>1, <1>2, <1>4, <2>1, <2>2, EditingSides DEF Editing!SeenTo
<1>20. ASSUME EditingTidy(b), Editing(b)!Orderly' PROVE Editing(b)!EdTidy'
  <2> USE <1>20 DEF EditingTidy, Editing!EdTidy
  <2>3. \A id : Editing(b)!Untold(id) => Editing(b)!Untold(id)'
    BY <1>1, <1>2, <1>3 DEF Editing!Untold
  <2>5. Editing(b)!RunsSound'
    <3>1. \A i \in RunSlots : \A id : x3[i].pc = "reserved" /\ x3[i].rid = id => Editing(b)!Untold(id)'
      BY <2>3, EditingRun
    <3> QED
      BY <1>1, <1>2, <3>1, EditingRunsStay
  <2>6. Editing(b)!AccessSound'
    BY <1>1, <1>2, <2>3 DEF Editing!AccessSound
  <2>7. Editing(b)!ChangeSound'
    BY <1>1, <1>2 DEF Editing!ChangeSound
  <2>8. Editing(b)!ExportSound'
    <3> SUFFICES ASSUME x6.pc # "idle" PROVE Editing(b)!ExportSound'
      BY <1>1 DEF Editing!ExportSound
    <3>1. x6.gen # x2.gen /\ x2.ref # x6.ref /\ x6.ref # 0 /\ x6.rid \in {0, x6.ref}
      BY <1>1, EditingExport
    <3> QED
      BY <1>1, <1>2, <3>1 DEF Editing!ExportSound, Editing!Confirms, Editing!Orderly
  <2>9. Editing(b)!RefSound' /\ Editing(b)!ChoiceSound'
    BY <1>1, <1>2, <1>3 DEF Editing!RefSound, Editing!ChoiceSound, Editing!Confirms, Editing!Leaves, Editing!Crossing
  <2>11. (x10 = {} => Editing(b)!ShownIsItsOwn)'
    <3>1. \A i \in RunSlots : x3[i].pc \in {"settle", "timer"} => x3[i].aborted
      BY <1>1, EditingRun DEF Editing!RunSound
    <3> QED
      BY <1>1, <1>2, <3>1 DEF Editing!ShownIsItsOwn
  <2> QED
    BY <2>5, <2>6, <2>7, <2>8, <2>9, <2>11
<1> QED
  BY <1>1, <1>10, <1>20 DEF EditingGoes

LEMMA EditingSilentNarrationAnswered == ASSUME NEW b, Editing(b)!EdCore, Editing(b)!SilentNarrationAnswered PROVE EditingGoes(b)
<1> USE DEF Editing!EdCore
<1>1. /\ UNCHANGED <<x1, x3, x4, x5, x6, x7, x8, x11>> /\ x9' = x9 \cup (Editing(b)!Overwritten(0) \ x7)
      /\ x12["narration"] # Editing(b)!Idle
      /\ x12' = [x12 EXCEPT !["narration"] = Editing(b)!Idle]
      /\ Editing(b)!Ids' = Editing(b)!Ids /\ x10 \subseteq x10' /\ Editing(b)!Idle' = Editing(b)!Idle
      /\ Editing(b)!Orderly' => x10' = x10 /\ x2.ref \in {0, x12["narration"].ref}
  BY DEF Editing!SilentNarrationAnswered, Editing!Sides, Editing!Ids, Editing!Strays, Editing!Orderly, Editing!Idle
<1>2. /\ x2' \in Editing(b)!Shown /\ x2'.ref = 0 /\ ~x2'.pending /\ ~x2'.finalizing /\ ~x2'.fallback
      /\ \A f \in {"stage", "gen", "file", "transcript", "audio"} : x2'[f] = x2[f]
  BY EditingPage DEF Editing!SilentNarrationAnswered, Editing!Show, Editing!Narrating, Editing!Remember, Editing!Shown
<1>3. x12'["narration"] = Editing(b)!Idle /\ x12'["result"] = x12["result"] /\ \A id \in Editing(b)!Ids : id # 0
  BY <1>1, EditingChoiceKinds, EditingIds
<1>4. Editing(b)!EdKinds'
  <2>1. x12' \in [{"narration", "result"} -> {Editing(b)!Idle} \cup Editing(b)!Choices]
    BY <1>1, EditingChoiceKinds
  <2>2. x9' \subseteq Editing(b)!Ids
    BY <1>1, EditingPage DEF Editing!EdKinds, Editing!Overwritten, Editing!Held
  <2> QED
    BY <1>1, <1>2, <2>1, <2>2 DEF Editing!EdKinds, Editing!RunStates, Editing!Accesses, Editing!Exports, Editing!Choices, Editing!Shown
<1>10. Editing(b)!EdCore'
  <2>1. \A id \in Editing(b)!Ids : x1[id].status = "held" /\ id \in x7 \cup {x2.ref} => id \in x7' \cup x9'
    BY <1>1, <1>3 DEF Editing!Overwritten, Editing!Held
  <2>2. Editing(b)!Confirmed'
    BY <1>1, <1>2 DEF Editing!Confirmed, Editing!Confirms
  <2> QED
    BY <1>1, <1>2, <1>4, <2>1, <2>2, EditingSides DEF Editing!SeenTo
<1>20. ASSUME EditingTidy(b), Editing(b)!Orderly' PROVE Editing(b)!EdTidy'
  <2> USE <1>20 DEF EditingTidy, Editing!EdTidy
  <2>1. x2.ref = 0 \/ (Editing(b)!Leaves /\ x2.stage = "setup")
    BY <1>1 DEF Editing!Leaves, Editing!ChoiceSound
  <2>3. \A id : Editing(b)!Untold(id) => Editing(b)!Untold(id)'
    BY <1>1, <1>2, <1>3 DEF Editing!Untold
  <2>5. Editing(b)!RunsSound'
    <3>1. \A i \in RunSlots : \A id : x3[i].pc = "reserved" /\ x3[i].rid = id => Editing(b)!Untold(id)'
      BY <2>3, EditingRun
    <3> QED
      BY <1>1, <1>2, <2>1, <3>1, EditingRunsStay
  <2>6. Editing(b)!AccessSound'
    BY <1>1, <1>2, <2>3 DEF Editing!AccessSound
  <2>7. Editing(b)!ChangeSound'
    BY <1>1, <1>2 DEF Editing!ChangeSound
  <2>8. Editing(b)!ExportSound'
    <3> SUFFICES ASSUME x6.pc # "idle" PROVE Editing(b)!ExportSound'
      BY <1>1 DEF Editing!ExportSound
    <3>1. x6.ref # 0 /\ x6.rid \in {0, x6.ref}
      BY EditingExport
    <3> QED
      BY <1>1, <1>2, <3>1 DEF Editing!ExportSound, Editing!Confirms, Editing!Orderly
  <2>9. Editing(b)!RefSound' /\ Editing(b)!ChoiceSound'
    <3>1. x12["result"] # Editing(b)!Idle => x12["result"].gen <= x2.gen /\ x12["result"].gen # x2.gen
      BY <2>1, EditingChoiceKinds DEF Editing!ChoiceSound
    <3> QED
      BY <1>1, <1>2, <1>3, <3>1 DEF Editing!RefSound, Editing!ChoiceSound, Editing!Leaves
  <2>11. (x10 = {} => Editing(b)!ShownIsItsOwn)'
    BY <1>1, <1>2 DEF Editing!ShownIsItsOwn, Editing!ItsOwn, Editing!PaidIsPending, Editing!Paid
  <2> QED
    BY <2>5, <2>6, <2>7, <2>8, <2>9, <2>11
<1> QED
  BY <1>1, <1>10, <1>20 DEF EditingGoes

LEMMA EditingSilentResult == ASSUME NEW b, Editing(b)!EdCore, Editing(b)!SilentResult PROVE EditingGoes(b)
<1> USE DEF Editing!EdCore
<1>1. /\ x2.stage = "setup" /\ x2.fallback /\ UNCHANGED <<x1, x3, x4, x5, x6, x7, x8, x9, x11>>
      /\ Editing(b)!Ids' = Editing(b)!Ids /\ x10 \subseteq x10' /\ x12["result"] = Editing(b)!Idle
      /\ Editing(b)!Orderly' => x10' = x10 /\ ~Editing(b)!Crossing("narration")
      /\ Editing(b)!Idle' = Editing(b)!Idle
  BY DEF Editing!SilentResult, Editing!Sides, Editing!Ids, Editing!OffersChoice, Editing!Strays, Editing!Orderly, Editing!Idle
<1>2. /\ x2' \in Editing(b)!Shown /\ \A f \in {"gen", "file", "ref", "finalizing", "audio"} : x2'[f] = x2[f]
      /\ \/ /\ x2'.stage = "result" /\ x2'.transcript = 0 /\ ~x2'.fallback /\ x12' = x12
            /\ \/ x2.ref = 0 /\ x2'.pending = x2.pending
               \/ x2'.pending
         \/ x2' = x2 /\ x2.ref # 0 /\ ~Editing(b)!Paid(x2.ref) /\ x12' = [x12 EXCEPT !["result"] = Editing(b)!Asked]
  <2>1. /\ Editing(b)!Unheard \in Editing(b)!Shown /\ Editing(b)!Unheard.stage = "result" /\ Editing(b)!Unheard.transcript = 0
        /\ ~Editing(b)!Unheard.fallback
        /\ \A f \in {"gen", "file", "ref", "pending", "finalizing", "audio"} : Editing(b)!Unheard[f] = x2[f]
    BY EditingPage DEF Editing!Unheard, Editing!Shown
  <2>2. PICK u : u = Editing(b)!Unheard
    OBVIOUS
  <2>3. \/ x2.ref = 0 /\ x2' = u /\ x12' = x12
        \/ x2' = [u EXCEPT !.pending = TRUE] /\ x12' = x12
        \/ x2' = x2 /\ x2.ref # 0 /\ ~Editing(b)!Paid(x2.ref) /\ x12' = [x12 EXCEPT !["result"] = Editing(b)!Asked]
    BY <2>2 DEF Editing!SilentResult, Editing!Show
  <2>4. CASE x2' = [u EXCEPT !.pending = TRUE] /\ x12' = x12
    BY <2>1, <2>2, <2>4 DEF Editing!Shown
  <2> QED
    BY <2>1, <2>2, <2>3, <2>4, EditingPage
<1>3. /\ Editing(b)!Asked.ref = x2.ref /\ Editing(b)!Asked.gen = x2.gen
      /\ x2.ref # 0 => Editing(b)!Asked \in Editing(b)!Choices
      /\ x12'["narration"] = x12["narration"]
      /\ x12'["result"] = (IF x2' = x2 /\ x12' # x12 THEN Editing(b)!Asked ELSE x12["result"])
  BY <1>2, EditingPage, EditingChoiceKinds DEF Editing!Asked, Editing!Choices
<1>4. Editing(b)!EdKinds'
  <2>1. x12' \in [{"narration", "result"} -> {Editing(b)!Idle} \cup Editing(b)!Choices]
    BY <1>2, <1>3, EditingChoiceKinds
  <2> QED
    BY <1>1, <1>2, <2>1 DEF Editing!EdKinds, Editing!RunStates, Editing!Accesses, Editing!Exports, Editing!Choices, Editing!Shown
<1>5. \A id \in Editing(b)!Ids : id # 0
  BY EditingIds
<1>10. Editing(b)!EdCore'
  <2>1. Editing(b)!Confirmed'
    BY <1>1, <1>2 DEF Editing!Confirmed, Editing!Confirms
  <2>2. \A id \in Editing(b)!Ids : Editing(b)!SeenTo(id) => Editing(b)!SeenTo(id)'
    BY <1>1, <1>2, <1>5 DEF Editing!SeenTo
  <2> QED
    BY <1>1, <1>2, <1>4, <2>1, <2>2, EditingSides
<1>20. ASSUME EditingTidy(b), Editing(b)!Orderly' PROVE Editing(b)!EdTidy'
  <2> USE <1>20 DEF EditingTidy, Editing!EdTidy
  <2>3. \A id : Editing(b)!Untold(id) => Editing(b)!Untold(id)'
    BY <1>1, <1>2, <1>3 DEF Editing!Untold
  <2>5. Editing(b)!RunsSound'
    <3>1. \A i \in RunSlots : \A id : x3[i].pc = "reserved" /\ x3[i].rid = id => Editing(b)!Untold(id)'
      BY <2>3, EditingRun
    <3>2. x2'.stage # "processing"
      BY <1>1, <1>2
    <3> QED
      BY <1>1, <1>2, <3>1, <3>2, EditingRunsStay
  <2>6. Editing(b)!AccessSound'
    BY <1>1, <1>2, <2>3 DEF Editing!AccessSound
  <2>7. Editing(b)!ChangeSound'
    BY <1>1, <1>2 DEF Editing!ChangeSound
  <2>8. Editing(b)!ExportSound'
    BY <1>1, <1>2 DEF Editing!ExportSound, Editing!Confirms, Editing!Orderly
  <2>9. ~Editing(b)!Leaves /\ ~Editing(b)!Leaves'
    BY <1>1, <1>2, <1>3 DEF Editing!Leaves, Editing!ChoiceSound, Editing!Crossing
  <2>10. Editing(b)!RefSound' /\ Editing(b)!ChoiceSound'
    <3>1. x2.ref # 0 /\ ~Editing(b)!Paid(x2.ref) => x1[x2.ref].bucket = "free"
      BY EditingPage, EditingIds DEF Editing!Paid, EditingRows
    <3>2. x2.gen <= x2.gen
      BY EditingPage, EditingCounts
    <3> QED
      BY <1>1, <1>2, <1>3, <2>9, <3>1, <3>2 DEF Editing!RefSound, Editing!ChoiceSound, Editing!Confirms
  <2>11. (x10 = {} => Editing(b)!ShownIsItsOwn)'
    <3>1. \A i \in RunSlots : x3[i].pc \in {"settle", "timer"} => x3[i].aborted
      BY <1>1, EditingRun DEF Editing!RunSound
    <3> QED
      BY <1>1, <1>2, <3>1 DEF Editing!ShownIsItsOwn, Editing!ItsOwn, Editing!PaidIsPending, Editing!Paid
  <2> QED
    BY <2>5, <2>6, <2>7, <2>8, <2>10, <2>11
<1> QED
  BY <1>1, <1>10, <1>20 DEF EditingGoes

LEMMA EditingSilentResultAnswered == ASSUME NEW b, Editing(b)!EdCore, Editing(b)!SilentResultAnswered PROVE EditingGoes(b)
<1> USE DEF Editing!EdCore
<1>1. PICK k : k = x12["result"].ref
  OBVIOUS
<1>2. /\ UNCHANGED <<x3, x4, x5, x6, x7, x11>> /\ x12["result"] # Editing(b)!Idle
      /\ \/ Editing(b)!Becomes(k, "completed") /\ UNCHANGED <<x8, x9>>
         \/ x9' = x9 \cup {k} /\ UNCHANGED x1
      /\ x12' = [x12 EXCEPT !["result"] = Editing(b)!Idle] /\ x10 \subseteq x10' /\ Editing(b)!Idle' = Editing(b)!Idle
      /\ Editing(b)!Orderly' => x10' = x10 /\ x2.gen = x12["result"].gen
  BY <1>1 DEF Editing!SilentResultAnswered, Editing!Sides, Editing!Strays, Editing!Orderly, Editing!Lose, Editing!Idle
<1>3. /\ x2' \in Editing(b)!Shown /\ x2'.stage = "result" /\ x2'.transcript = 0 /\ ~x2'.fallback
      /\ x2'.pending = (x2.pending /\ x2.ref # k)
      /\ \A f \in {"gen", "file", "ref", "finalizing", "audio"} : x2'[f] = x2[f]
  BY <1>1, EditingPage DEF Editing!SilentResultAnswered, Editing!Show, Editing!Unheard, Editing!Shown
<1>4. /\ k \in Editing(b)!Ids /\ x12'["narration"] = x12["narration"] /\ x12'["result"] = Editing(b)!Idle
      /\ \A id \in Editing(b)!Ids : id # 0
  BY <1>1, <1>2, EditingChoiceKinds, EditingIds
<1>5. /\ x1' \in Seq(EditingRows) /\ Editing(b)!Ids' = Editing(b)!Ids
      /\ \A id \in Editing(b)!Ids : /\ x1'[id].bucket = x1[id].bucket /\ (id # k => x1'[id].status = x1[id].status)
                                    /\ x1[id].status # "held" => x1'[id].status = x1[id].status
                                    /\ x1'[id].status = "released" => x1[id].status = "released"
      /\ x9 \subseteq x9' /\ x9' \subseteq x9 \cup {k} /\ (x1'[k].status = "held" => k \in x9' /\ x1[k].status = "held")
  <2>1. CASE Editing(b)!Becomes(k, "completed") /\ UNCHANGED <<x8, x9>>
    BY <1>4, <2>1, EditingBecomes
  <2>2. CASE x9' = x9 \cup {k} /\ UNCHANGED x1
    BY <1>4, <2>2, EditingIds DEF Editing!Ids
  <2> QED
    BY <1>2, <2>1, <2>2
<1>6. Editing(b)!EdKinds'
  <2>1. x12' \in [{"narration", "result"} -> {Editing(b)!Idle} \cup Editing(b)!Choices]
    BY <1>2, EditingChoiceKinds
  <2> QED
    BY <1>2, <1>3, <1>4, <1>5, <2>1
    DEF Editing!EdKinds, EditingRows, Editing!RunStates, Editing!Accesses, Editing!Exports, Editing!Choices, Editing!Shown
<1>10. Editing(b)!EdCore'
  <2>1. Editing(b)!Confirmed'
    <3>1. Editing(b)!Confirms => x6.rid \in Editing(b)!Ids
      BY EditingExportKind DEF Editing!Confirms
    <3> QED
      BY <1>2, <1>3, <1>5, <3>1 DEF Editing!Confirmed, Editing!Confirms
  <2>2. ASSUME NEW id \in Editing(b)!Ids, x1'[id].status = "held"
        PROVE  /\ x1[id].status = "held" /\ (id \in x7 \cup {x2.ref} => id \in x7' \cup x9' \cup {x2'.ref})
               /\ Editing(b)!SeenTo(id) => Editing(b)!SeenTo(id)'
    BY <1>2, <1>3, <1>4, <1>5, <2>2 DEF Editing!SeenTo
  <2> QED
    BY <1>2, <1>3, <1>5, <1>6, <2>1, <2>2, EditingSides
<1>20. ASSUME EditingTidy(b), Editing(b)!Orderly' PROVE Editing(b)!EdTidy'
  <2> USE <1>20 DEF EditingTidy, Editing!EdTidy
  <2>1. /\ x2.fallback /\ x2.stage = "setup" /\ ~Editing(b)!Leaves /\ k = x2.ref /\ x1[k].bucket = "free"
        /\ ~Editing(b)!Leaves'
    BY <1>1, <1>2, <1>3, <1>4 DEF Editing!Leaves, Editing!ChoiceSound
  <2>3. \A id : Editing(b)!Untold(id) => Editing(b)!Untold(id)'
    BY <1>2, <1>3, <1>4, <1>5, <2>1 DEF Editing!Untold
  <2>5. Editing(b)!RunsSound'
    <3>1. \A i \in RunSlots : \A id : x3[i].pc = "reserved" /\ x3[i].rid = id => Editing(b)!Untold(id)'
      BY <2>3, EditingRun
    <3>2. x2.stage # "processing" /\ x2'.stage # "processing"
      BY <1>3, <2>1
    <3> QED
      BY <1>2, <1>3, <3>1, <3>2, EditingRunsStay
  <2>6. Editing(b)!AccessSound'
    BY <1>2, <1>3, <2>1, <2>3 DEF Editing!AccessSound
  <2>7. Editing(b)!ChangeSound'
    BY <1>2, <1>3, <2>1 DEF Editing!ChangeSound
  <2>8. Editing(b)!ExportSound'
    <3> SUFFICES ASSUME x6.pc # "idle" PROVE Editing(b)!ExportSound'
      BY <1>2 DEF Editing!ExportSound
    <3>1. x6.ref \in Editing(b)!Ids /\ x6.rid \in Editing(b)!Ids \cup {0}
      BY EditingExport
    <3>2. \A id \in Editing(b)!Ids : x1[id].status = "completed" => x1'[id].status = "completed"
      BY <1>5
    <3>3. \A id \in Editing(b)!Ids : x1[id].status # "held" => x1'[id].status # "held"
      BY <1>5
    <3> QED
      BY <1>2, <1>3, <2>1, <3>1, <3>2, <3>3, EditingExport DEF Editing!ExportSound, Editing!Confirms, Editing!Orderly
  <2>9. Editing(b)!RefSound' /\ Editing(b)!ChoiceSound'
    BY <1>2, <1>3, <1>4, <1>5, <2>1 DEF Editing!RefSound, Editing!ChoiceSound, Editing!Confirms
  <2>11. (x10 = {} => Editing(b)!ShownIsItsOwn)'
    <3>1. \A i \in RunSlots : x3[i].pc \in {"settle", "timer"} => x3[i].aborted
      BY <2>1, EditingRun DEF Editing!RunSound
    <3>2. \A id \in x11 : id \in Editing(b)!Ids
      BY DEF Editing!EdKinds
    <3> QED
      BY <1>2, <1>3, <1>4, <1>5, <2>1, <3>1, <3>2 DEF Editing!ShownIsItsOwn, Editing!ItsOwn, Editing!PaidIsPending, Editing!Paid
  <2> QED
    BY <2>5, <2>6, <2>7, <2>8, <2>9, <2>11
<1> QED
  BY <1>2, <1>10, <1>20 DEF EditingGoes

\* The run r of slot i goes on as s: what it may do to the reservations, the
\* page and what was let go of.
EditingTurn(b, i, r, s) ==
  /\ x3' = [x3 EXCEPT ![i] = s] /\ UNCHANGED <<x4, x5, x6, x7, x11, x12>>
  /\ x1' \in Seq(EditingRows) /\ Editing(b)!Ids \subseteq Editing(b)!Ids' /\ x2' \in Editing(b)!Shown'
  /\ x9 \subseteq x9' /\ x9' \subseteq Editing(b)!Ids' /\ x10 \subseteq x10'
  /\ x2'.gen = x2.gen /\ (x2'.finalizing => x2.finalizing /\ x2'.ref = x2.ref)
  /\ x2'.stage = "processing" => x2.stage = "processing" /\ (~r.aborted => s # Editing(b)!Idle)
  /\ \A id \in Editing(b)!Ids : x1'[id].status = "held" =>
       /\ x1[id].status # "held" => ~r.aborted /\ ~x2'.finalizing
       /\ r.aborted /\ id = x2.ref => id \in x7 \cup x9' \cup {x2'.ref}
  /\ \/ s = Editing(b)!Idle
     \/ s \in Editing(b)!RunStates' /\ s.gen = r.gen /\ s.aborted = r.aborted /\ Editing(b)!RunCounts(s)' /\ Editing(b)!Keeps(s)'
  /\ \A id \in Editing(b)!Ids' :
       x1'[id].status = "held"
         /\ (id \notin Editing(b)!Ids \/ x1[id].status # "held" \/ Editing(b)!Answers(r, id) \/ (id = x2.ref /\ x2.pending))
         => Editing(b)!SeenTo(id)' \/ Editing(b)!Answers(s, id)

\* Only the page's own run changes the page, until a choice goes astray.
EditingNeat(b, i, r, s) ==
  /\ x2'.file = x2.file
  /\ \A id \in Editing(b)!Ids : x1'[id].status = x1[id].status \/ (id = r.rid /\ x1[id].status = "held")
  /\ r.aborted => /\ x2'.stage = x2.stage /\ x2'.ref = x2.ref /\ x2'.finalizing = x2.finalizing /\ x2'.fallback = x2.fallback
                  /\ \A id \in Editing(b)!Ids : x1'[id].bucket = x1[id].bucket
                  /\ x10' = {} => x2'.transcript = x2.transcript /\ x2'.audio = x2.audio /\ x2'.pending = x2.pending
  /\ ~r.aborted => /\ x2'.fallback => x2'.stage = "setup"
                   /\ x2'.ref # 0 => x1'[x2'.ref].status # "released"
  /\ x2'.ref \in {0, x2.ref} \/ (r.pc = "reserved" /\ x2'.ref = r.rid)
  /\ \/ s = Editing(b)!Idle
     \/ /\ Editing(b)!RunSound(s)'
        /\ IF s.pc = "reserved" THEN Editing(b)!Untold(s.rid)' /\ s.rid \notin Editing(b)!Ids ELSE s.rid \in {0, r.rid, x2.ref}
  /\ ~r.aborted /\ x10' = {} =>
       /\ x2'.audio \in {0, x2'.file}
       /\ x2'.stage = "result" \/ s.pc \in {"settle", "timer"} => Editing(b)!ItsOwn'
       /\ x2'.stage = "result" \/ s.pc = "timer" => Editing(b)!PaidIsPending'

LEMMA EditingTurns ==
  ASSUME NEW b, Editing(b)!EdCore, NEW i \in RunSlots, NEW r, r = x3[i], r.pc # "idle", NEW s, EditingTurn(b, i, r, s),
         EditingTidy(b) => EditingNeat(b, i, r, s)
  PROVE  EditingGoes(b)
<1> USE DEF Editing!EdCore
<1>1. /\ r \in Editing(b)!RunStates /\ Editing(b)!RunCounts(r) /\ Editing(b)!Keeps(r) /\ r.gen \in Nat /\ r.aborted \in BOOLEAN
      /\ r.gen <= x2.gen /\ (r.aborted <=> r.gen # x2.gen) /\ r.rid \in Editing(b)!Ids \cup {0}
  <2>1. r \in Editing(b)!RunStates /\ Editing(b)!RunCounts(r) /\ Editing(b)!Keeps(r)
    BY EditingRunKind
  <2> QED
    BY <2>1 DEF Editing!RunStates, Editing!RunCounts
<1>2. \A j \in RunSlots : x3'[j] = IF j = i THEN s ELSE x3[j]
  BY DEF EditingTurn, Editing!EdKinds
<1>3. s = Editing(b)!Idle \/ (s \in Editing(b)!RunStates' /\ s.pc # "idle" /\ s.gen = r.gen /\ s.aborted = r.aborted)
  BY DEF EditingTurn, Editing!RunStates, Editing!RunPlaces
<1>4. Editing(b)!Idle.pc = "idle"
  BY DEF Editing!Idle
<1>5. ASSUME NEW j \in RunSlots, j # i, x3[j].pc # "idle" PROVE r.aborted \/ x3[j].aborted
  <2>1. x3[j].gen # r.gen
    BY <1>5 DEF Editing!RunsCount
  <2> QED
    BY <1>1, <1>5, <2>1, EditingRunKind DEF Editing!RunCounts
<1>7. x2 \in Editing(b)!Shown /\ x2.ref \in Editing(b)!Ids \cup {0} /\ x2.gen \in Nat
  BY EditingPage
<1>8. Editing(b)!EdKinds'
  <2>1. x1' \in Seq([bucket : {"free", "paid"}, status : {"held", "completed", "released"}])
    BY DEF EditingTurn, EditingRows
  <2>2. Editing(b)!Idle' = Editing(b)!Idle /\ Editing(b)!Changes' = Editing(b)!Changes
    BY DEF Editing!Idle, Editing!Changes
  <2>3. x3' \in [RunSlots -> {Editing(b)!Idle} \cup Editing(b)!RunStates']
    <3>1. x3 \in [RunSlots -> {Editing(b)!Idle} \cup Editing(b)!RunStates']
      BY EditingTypes DEF EditingTurn, Editing!EdKinds
    <3> QED
      BY <1>3, <3>1 DEF EditingTurn
  <2>4. x5' \in {Editing(b)!Idle} \cup Editing(b)!Accesses' /\ x6' \in {Editing(b)!Idle} \cup Editing(b)!Exports'
    BY EditingTypes DEF EditingTurn, Editing!EdKinds
  <2>5. x4' \in {Editing(b)!Idle} \cup Editing(b)!Changes /\ x7' \subseteq Editing(b)!Ids' /\ x11' \subseteq Editing(b)!Ids'
    BY DEF EditingTurn, Editing!EdKinds
  <2>6. x12' \in [{"narration", "result"} -> {Editing(b)!Idle} \cup Editing(b)!Choices']
    BY EditingTypes DEF EditingTurn, Editing!EdKinds
  <2> QED
    BY <2>1, <2>2, <2>3, <2>4, <2>5, <2>6 DEF EditingTurn, Editing!EdKinds
<1>9. Editing(b)!RunsCount'
  <2>1. ASSUME NEW j \in RunSlots, j # i, NEW q, q = x3[j], q.pc # "idle" PROVE Editing(b)!RunCounts(q)' /\ q.gen # r.gen
    <3>1. Editing(b)!RunCounts(q)
      BY <2>1, EditingRunKind
    <3> QED
      BY <2>1, <3>1 DEF EditingTurn, Editing!RunCounts, Editing!RunsCount
  <2>2. s.pc # "idle" => Editing(b)!RunCounts(s)' /\ s.gen = r.gen
    BY <1>4 DEF EditingTurn
  <2>3. ASSUME NEW j \in RunSlots, NEW q, q = x3'[j], q.pc # "idle" PROVE Editing(b)!RunCounts(q)'
    <3>1. CASE j = i
      BY <1>2, <2>2, <2>3, <3>1
    <3>2. CASE j # i
      BY <1>2, <2>1, <2>3, <3>2
    <3> QED
      BY <3>1, <3>2
  <2>4. \A j, k \in RunSlots : (j # k /\ x3'[j].pc # "idle" /\ x3'[k].pc # "idle") => x3'[j].gen # x3'[k].gen
    BY <1>2, <2>1, <2>2 DEF Editing!RunsCount
  <2>5. x2'.stage = "processing" => \E j \in RunSlots : x3'[j].pc # "idle" /\ ~x3'[j].aborted
    <3> SUFFICES ASSUME x2'.stage = "processing" PROVE \E j \in RunSlots : x3'[j].pc # "idle" /\ ~x3'[j].aborted
      OBVIOUS
    <3>1. x2.stage = "processing" /\ (~r.aborted => s # Editing(b)!Idle)
      BY DEF EditingTurn
    <3>2. PICK j \in RunSlots : x3[j].pc # "idle" /\ ~x3[j].aborted
      BY <3>1 DEF Editing!RunsCount
    <3> QED
      BY <1>2, <1>3, <3>1, <3>2
  <2> QED
    BY <2>3, <2>4, <2>5 DEF Editing!RunsCount
<1>10. Editing(b)!RunsKeep'
  <2>1. ASSUME NEW j \in RunSlots, j # i, NEW q, q = x3[j] PROVE Editing(b)!Keeps(q)'
    <3> SUFFICES ASSUME q.pc # "idle", ~q.aborted, q.own # 0, x1'[q.own].status = "held"
                 PROVE  q.own = x2'.ref \/ q.own \in x9' \cup x7'
      BY DEF Editing!Keeps
    <3>1. r.aborted
      BY <1>1, <1>5, <2>1
    <3>2. q \in Editing(b)!RunStates /\ Editing(b)!Keeps(q)
      BY <2>1, EditingRunKind
    <3>3. q.own \in Editing(b)!Ids
      BY <3>2 DEF Editing!RunStates
    <3> QED
      BY <3>1, <3>2, <3>3 DEF EditingTurn, Editing!Keeps
  <2>2. Editing(b)!Keeps(s)'
    BY <1>4 DEF EditingTurn, Editing!Keeps
  <2>3. ASSUME NEW j \in RunSlots, NEW q, q = x3'[j] PROVE Editing(b)!Keeps(q)'
    <3>1. CASE j = i
      BY <1>2, <2>2, <2>3, <3>1
    <3>2. CASE j # i
      BY <1>2, <2>1, <2>3, <3>2
    <3> QED
      BY <3>1, <3>2
  <2> QED
    BY <2>3 DEF Editing!RunsKeep, Editing!Keeps
<1>11. Editing(b)!Confirmed'
  <2>1. x6' = x6 /\ (x2'.finalizing => x2.finalizing /\ x2'.ref = x2.ref) /\ (x2.ref = 0 \/ x2.ref \in Editing(b)!Ids)
    BY <1>7 DEF EditingTurn
  <2>2. x2'.finalizing => \A id \in Editing(b)!Ids : x1'[id].status = "held" => x1[id].status = "held"
    BY DEF EditingTurn
  <2> QED
    BY <2>1, <2>2 DEF Editing!Confirmed, Editing!Confirms
<1>12. Editing(b)!Accounted'
  <2>1. ASSUME NEW id \in Editing(b)!Ids', x1'[id].status = "held"
        PROVE  Editing(b)!SeenTo(id)' \/ (\E j \in RunSlots : Editing(b)!Answers(x3'[j], id)) \/ (x5.pc = "answered" /\ x5.rid = id)
    <3>1. CASE id \notin Editing(b)!Ids \/ x1[id].status # "held" \/ Editing(b)!Answers(r, id) \/ (id = x2.ref /\ x2.pending)
      BY <1>2, <2>1, <3>1 DEF EditingTurn
    <3>2. CASE id \in Editing(b)!Ids /\ x1[id].status = "held" /\ ~Editing(b)!Answers(r, id) /\ ~(id = x2.ref /\ x2.pending)
      <4>1. x1[id].status = "held"
        BY <3>2
      <4>2. Editing(b)!SeenTo(id) => Editing(b)!SeenTo(id)'
        BY <3>2 DEF EditingTurn, Editing!SeenTo, Editing!Confirms
      <4>3. ASSUME NEW j \in RunSlots, Editing(b)!Answers(x3[j], id) PROVE Editing(b)!Answers(x3'[j], id)
        <5>1. j # i
          BY <3>2, <4>3
        <5> QED
          BY <1>2, <4>3, <5>1
      <4> QED
        BY <3>2, <4>1, <4>2, <4>3 DEF Editing!Accounted
    <3> QED
      BY <3>1, <3>2
  <2>2. x5' = x5
    BY DEF EditingTurn
  <2> QED
    BY <2>1, <2>2 DEF Editing!Accounted, Editing!Answers
<1>13. Editing(b)!EdCore'
  BY <1>8, <1>9, <1>10, <1>11, <1>12
<1>20. ASSUME EditingTidy(b), Editing(b)!Orderly' PROVE Editing(b)!EdTidy'
  <2> USE <1>20 DEF EditingTidy, Editing!EdTidy
  <2>1. /\ r \in Editing(b)!RunStates /\ Editing(b)!RunSound(r) /\ (r.pc = "reserved" => Editing(b)!Untold(r.rid))
        /\ r.gen \in Nat /\ r.rid \in Editing(b)!Ids \cup {0} /\ r.aborted \in BOOLEAN /\ r.gen <= x2.gen /\ (r.aborted <=> r.gen # x2.gen)
        /\ ~r.aborted => x2.stage = "processing" /\ (r.pc \notin {"reserve", "reserved"} => r.rid = x2.ref)
        /\ r.pc = "reserve" <=> r.rid = 0
    <3>1. r \in Editing(b)!RunStates /\ Editing(b)!RunSound(r) /\ (r.pc = "reserved" => Editing(b)!Untold(r.rid))
      BY EditingRun
    <3> QED
      BY <3>1 DEF Editing!RunStates, Editing!RunSound, Editing!RunCounts
  <2>6. ASSUME NEW id, Editing(b)!Untold(id), id # r.rid PROVE Editing(b)!Untold(id)'
    <3>1. id \in Editing(b)!Ids /\ id # 0 /\ x1'[id].status = x1[id].status /\ id # x2'.ref
      BY <2>6, EditingIds DEF EditingTurn, EditingNeat, Editing!Untold
    <3>2. Editing(b)!Idle' = Editing(b)!Idle /\ x12' = x12
      BY DEF EditingTurn, Editing!Idle
    <3> QED
      BY <2>6, <3>1, <3>2 DEF EditingTurn, EditingNeat, Editing!Untold
  <2>9. Editing(b)!RunsSound'
    <3>1. ASSUME NEW j \in RunSlots, j # i, NEW q, q = x3[j], q.pc # "idle"
          PROVE  Editing(b)!RunSound(q)' /\ (q.pc = "reserved" => Editing(b)!Untold(q.rid)')
      <4>1. /\ q \in Editing(b)!RunStates /\ Editing(b)!RunSound(q) /\ (q.pc = "reserved" => Editing(b)!Untold(q.rid)) /\ q.rid \in Editing(b)!Ids \cup {0}
            /\ r.pc = "reserved" \/ q.pc = "reserved" => q.rid # r.rid
        <5>1. q \in Editing(b)!RunStates /\ Editing(b)!RunSound(q) /\ (q.pc = "reserved" => Editing(b)!Untold(q.rid))
          BY <3>1, EditingRun
        <5> QED
          BY <3>1, <5>1 DEF Editing!RunStates, Editing!RunsSound, Editing!RunsApart
      <4>2. PICK id : id = q.rid
        OBVIOUS
      <4>3. q.pc = "reserved" => Editing(b)!Untold(id)'
        BY <2>6, <4>1, <4>2
      <4>4. CASE r.aborted
        <5>1. x2'.stage = x2.stage /\ x2'.ref = x2.ref /\ x2'.gen = x2.gen /\ x2'.file = x2.file
          BY <4>4 DEF EditingTurn, EditingNeat
        <5>2. q.rid # 0 => x1'[q.rid].bucket = x1[q.rid].bucket
          BY <4>1, <4>4 DEF EditingTurn, EditingNeat
        <5>3. q.pc = "settle" => q.rid # 0
          BY <4>1 DEF Editing!RunSound, Editing!RunCounts
        <5>4. Editing(b)!RunSound(q)'
          BY <4>1, <5>1, <5>2, <5>3 DEF Editing!RunSound, Editing!RunCounts
        <5> QED
          BY <4>2, <4>3, <5>4
      <4>5. CASE ~r.aborted
        <5>1. q.aborted
          BY <1>5, <3>1, <4>5
        <5>2. q.rid = 0 \/ q.rid # x2'.ref
          BY <4>1, <5>1 DEF EditingTurn, EditingNeat, Editing!RunSound, Editing!RunCounts
        <5>3. x2'.gen = x2.gen
          BY DEF EditingTurn, EditingNeat
        <5>4. Editing(b)!RunSound(q)'
          BY <4>1, <5>1, <5>2, <5>3 DEF Editing!RunSound, Editing!RunCounts
        <5> QED
          BY <4>2, <4>3, <5>4
      <4> QED
        BY <2>1, <4>4, <4>5
    <3>2. s.pc # "idle" => Editing(b)!RunSound(s)' /\ (s.pc = "reserved" => Editing(b)!Untold(s.rid)')
      BY <1>4 DEF EditingTurn, EditingNeat
    <3>3. ASSUME NEW j \in RunSlots, NEW q, q = x3'[j], q.pc # "idle"
          PROVE  Editing(b)!RunSound(q)' /\ (q.pc = "reserved" => Editing(b)!Untold(q.rid)')
      <4>1. CASE j = i
        BY <1>2, <3>2, <3>3, <4>1
      <4>2. CASE j # i
        BY <1>2, <3>1, <3>3, <4>2
      <4> QED
        BY <4>1, <4>2
    <3>4. Editing(b)!RunsApart'
      <4>1. ASSUME NEW j \in RunSlots, j # i, x3[j].pc # "idle", s.pc # "idle"
            PROVE  x3[j].gen # s.gen /\ (s.pc = "reserved" => s.rid # x3[j].rid) /\ (x3[j].pc = "reserved" => x3[j].rid # s.rid)
        <5>1. s.gen = r.gen /\ x3[j].gen # r.gen /\ (x3[j].pc = "reserved" => x3[j].rid # r.rid)
          BY <1>3, <1>4, <4>1 DEF Editing!RunsSound, Editing!RunsApart
        <5>2. x3[j].rid \in Editing(b)!Ids \cup {0}
          BY <4>1, EditingRun DEF Editing!RunStates
        <5>3. x3[j].pc = "reserved" => x3[j].rid \in Editing(b)!Ids /\ x3[j].rid # 0 /\ x3[j].rid # x2.ref
          BY <4>1, EditingRun, EditingIds DEF Editing!Untold
        <5>4. IF s.pc = "reserved" THEN s.rid \notin Editing(b)!Ids /\ s.rid # 0 ELSE s.rid \in {0, r.rid, x2.ref}
          <6>1. s.pc = "reserved" => Editing(b)!RunSound(s)'
            BY <3>2, <4>1
          <6> QED
            BY <1>4, <4>1, <6>1 DEF EditingTurn, EditingNeat, Editing!RunSound, Editing!RunCounts
        <5> QED
          BY <5>1, <5>2, <5>3, <5>4
      <4> QED
        BY <1>2, <4>1 DEF Editing!RunsSound, Editing!RunsApart
    <3>5. x2'.stage = "processing" => \E j \in RunSlots : x3'[j].pc # "idle" /\ ~x3'[j].aborted
      <4>1. CASE ~r.aborted
        BY <1>2, <1>3, <4>1 DEF EditingTurn, EditingNeat
      <4>2. CASE r.aborted /\ x2'.stage = "processing"
        <5>1. x2.stage = "processing"
          BY <4>2 DEF EditingTurn, EditingNeat
        <5>2. PICK j \in RunSlots : x3[j].pc # "idle" /\ ~x3[j].aborted
          BY <5>1 DEF Editing!RunsSound
        <5>3. j # i
          BY <4>2, <5>2
        <5> QED
          BY <1>2, <5>2, <5>3
      <4> QED
        BY <4>1, <4>2
    <3> QED
      BY <3>3, <3>4, <3>5 DEF Editing!RunsSound
  <2>10. Editing(b)!AccessSound'
    <3> SUFFICES ASSUME x5.pc # "idle" PROVE Editing(b)!AccessSound'
      BY DEF EditingTurn, EditingNeat, Editing!AccessSound
    <3>1. x5.gen <= x2'.gen /\ (x5.gen = x2'.gen => x2'.stage = "result")
      BY <2>1 DEF EditingTurn, EditingNeat, Editing!AccessSound
    <3>2. ASSUME x5.pc = "answered" PROVE Editing(b)!Untold(x5.rid)' /\ \A j \in RunSlots : x3'[j].pc # "idle" => x3'[j].rid # x5.rid
      <4>1. PICK k : k = x5.rid
        OBVIOUS
      <4>2. Editing(b)!Untold(k) /\ \A j \in RunSlots : x3[j].pc # "idle" => x3[j].rid # k
        BY <3>2, <4>1 DEF Editing!AccessSound
      <4>3. k \in Editing(b)!Ids /\ k # 0 /\ k # x2.ref /\ k # r.rid
        BY <4>2, EditingIds DEF Editing!Untold
      <4>4. Editing(b)!Untold(k)'
        BY <2>6, <4>2, <4>3
      <4>5. s.pc # "idle" => s.rid # k
        BY <1>4, <4>3 DEF EditingTurn, EditingNeat
      <4>6. x5' = x5
        BY DEF EditingTurn, EditingNeat
      <4> QED
        BY <1>2, <4>1, <4>2, <4>4, <4>5, <4>6
    <3>3. x5' = x5
      BY DEF EditingTurn, EditingNeat
    <3> QED
      BY <3>1, <3>2, <3>3 DEF Editing!AccessSound
  <2>11. Editing(b)!ChangeSound'
    BY <2>1 DEF EditingTurn, EditingNeat, Editing!ChangeSound
  <2>12. ASSUME x6.pc # "idle" PROVE IF x6.gen = x2.gen THEN x2'.stage = "result" /\ r.aborted ELSE x2'.ref # x6.ref
    <3>1. x6.gen = x2.gen => x2.stage = "result"
      BY <2>12, EditingExport
    <3>2. x6.gen # x2.gen => x2.ref # x6.ref
      BY <2>12, EditingExport
    <3>3. x6.ref # 0 /\ (r.pc = "reserved" => r.rid # x6.ref)
      BY <2>1, <2>12, EditingExport DEF Editing!Untold
    <3> QED
      BY <2>1, <3>1, <3>2, <3>3 DEF EditingTurn, EditingNeat
  <2>13. Editing(b)!ExportSound'
    <3> SUFFICES ASSUME x6.pc # "idle" PROVE Editing(b)!ExportSound'
      BY DEF EditingTurn, EditingNeat, Editing!ExportSound
    <3>1. x6' = x6 /\ x7' = x7 /\ x2'.gen = x2.gen /\ (x10' = {} => x10 = {}) /\ Editing(b)!Confirms' = Editing(b)!Confirms
      BY DEF EditingTurn, EditingNeat, Editing!Confirms
    <3>2. Editing(b)!Confirms /\ x2'.ref = x6.rid => x2'.finalizing
      <4>1. Editing(b)!Confirms => x6.rid = x6.ref
        BY EditingExport
      <4>2. CASE x6.gen = x2.gen
        BY <2>12, <4>2, EditingExport DEF EditingTurn, EditingNeat
      <4>3. CASE x6.gen # x2.gen
        BY <2>12, <4>1, <4>3
      <4> QED
        BY <4>2, <4>3
    <3>3. \A id \in Editing(b)!Ids : /\ x1[id].status = "completed" => x1'[id].status = "completed"
                                     /\ x1[id].status # "held" => x1'[id].status # "held"
      BY DEF EditingTurn, EditingNeat
    <3>4. /\ x6.pc = "completed" => x1'[x6.rid].status # "held"
          /\ x6.pc = "deliver" /\ x6.rid # 0 => x1'[x6.rid].status = "completed"
          /\ x6.rid = 0 /\ x10 = {} => x1'[x6.ref].status = "completed"
      BY <3>3, EditingExport DEF Editing!Confirms
    <3>5. /\ x6.gen <= x2.gen /\ x6.rid \in {0, x6.ref} /\ (x6.pc = "renew" \/ Editing(b)!Confirms => x6.rid # 0)
          /\ x6.rid # 0 /\ (~x6.aborted \/ Editing(b)!Confirms) => x6.rid \notin x7
      BY EditingExport
    <3> QED
      BY <2>12, <3>1, <3>2, <3>4, <3>5 DEF Editing!ExportSound
  <2>14. Editing(b)!RefSound' /\ Editing(b)!ChoiceSound'
    <3>1. x2'.finalizing => Editing(b)!Confirms'
      BY DEF EditingTurn, Editing!RefSound, Editing!Confirms
    <3>2. Editing(b)!Idle' = Editing(b)!Idle /\ x12' = x12
      BY DEF EditingTurn, Editing!Idle
    <3>3. CASE r.aborted
      <4>1. x2.ref # 0 => x1'[x2.ref].status = x1[x2.ref].status
        BY <1>7, <2>1, <3>3 DEF EditingNeat, Editing!RunSound
      <4>2. Editing(b)!RefSound'
        BY <3>1, <3>2, <3>3, <4>1 DEF EditingTurn, EditingNeat, Editing!RefSound, Editing!Leaves
      <4>3. Editing(b)!ChoiceSound'
        BY <3>2, <3>3, EditingChoices DEF EditingTurn, EditingNeat
      <4> QED
        BY <4>2, <4>3
    <3>4. CASE ~r.aborted
      <4>1. ~x2.fallback /\ ~Editing(b)!Leaves
        BY <2>1, <3>4 DEF Editing!ChoiceSound
      <4>2. ~Editing(b)!Leaves'
        <5>1. x12["narration"] # Editing(b)!Idle => x12["narration"].ref # 0
          BY EditingChoiceKinds
        <5> QED
          BY <2>1, <3>2, <4>1, <5>1 DEF EditingNeat, Editing!Leaves, Editing!Untold
      <4>3. x2'.ref # 0 => x2'.ref \notin x7
        BY <2>1, <4>1 DEF EditingNeat, Editing!RefSound, Editing!Untold
      <4>4. Editing(b)!RefSound'
        BY <3>1, <3>4, <4>3 DEF EditingTurn, EditingNeat, Editing!RefSound
      <4> QED
        BY <3>2, <3>4, <4>1, <4>2, <4>4 DEF EditingTurn, EditingNeat, Editing!ChoiceSound
    <3> QED
      BY <1>1, <3>3, <3>4
  <2>16. (x10 = {} => Editing(b)!ShownIsItsOwn)'
    <3> SUFFICES ASSUME x10' = {} PROVE Editing(b)!ShownIsItsOwn'
      OBVIOUS
    <3>1. Editing(b)!ShownIsItsOwn
      BY DEF EditingTurn, EditingNeat
    <3>2. \A id \in x11' : x1'[id].status = "completed"
      BY <3>1 DEF EditingTurn, EditingNeat, Editing!ShownIsItsOwn, Editing!EdKinds
    <3>3. CASE r.aborted
      <4>1. Editing(b)!ItsOwn' = Editing(b)!ItsOwn
        BY <3>3 DEF EditingTurn, EditingNeat, Editing!ItsOwn
      <4>2. Editing(b)!PaidIsPending => Editing(b)!PaidIsPending'
        BY <1>7, <3>3 DEF EditingTurn, EditingNeat, Editing!PaidIsPending, Editing!Paid
      <4>3. s = Editing(b)!Idle \/ s.aborted
        BY <3>3 DEF EditingTurn, EditingNeat
      <4>4. ASSUME NEW j \in RunSlots, x3'[j].pc \in {"settle", "timer"}, ~x3'[j].aborted
            PROVE  Editing(b)!ItsOwn' /\ (x3'[j].pc = "timer" => Editing(b)!PaidIsPending')
        <5>1. x3'[j] = x3[j]
          BY <1>2, <1>4, <4>3, <4>4
        <5> QED
          BY <3>1, <4>1, <4>2, <4>4, <5>1 DEF Editing!ShownIsItsOwn
      <4>5. x2'.audio = x2.audio /\ x2'.stage = x2.stage /\ x2'.file = x2.file
        BY <3>3 DEF EditingTurn, EditingNeat
      <4> QED
        BY <3>1, <3>2, <4>1, <4>2, <4>4, <4>5 DEF Editing!ShownIsItsOwn
    <3>4. CASE ~r.aborted
      <4>1. /\ x2'.audio \in {0, x2'.file}
            /\ x2'.stage = "result" \/ s.pc \in {"settle", "timer"} => Editing(b)!ItsOwn'
            /\ x2'.stage = "result" \/ s.pc = "timer" => Editing(b)!PaidIsPending'
        BY <3>4 DEF EditingTurn, EditingNeat
      <4>2. ASSUME NEW j \in RunSlots, x3'[j].pc \in {"settle", "timer"}, ~x3'[j].aborted
            PROVE  Editing(b)!ItsOwn' /\ (x3'[j].pc = "timer" => Editing(b)!PaidIsPending')
        <5>1. j = i
          BY <1>2, <1>5, <3>4, <4>2
        <5> QED
          BY <1>2, <4>1, <4>2, <5>1
      <4> QED
        BY <3>2, <4>1, <4>2 DEF Editing!ShownIsItsOwn
    <3> QED
      BY <2>1, <3>3, <3>4
  <2> QED
    BY <2>9, <2>10, <2>11, <2>13, <2>14, <2>16
<1> QED
  BY <1>13, <1>20 DEF EditingGoes, EditingTurn

LEMMA EditingRunKept ==
  ASSUME NEW b, Editing(b)!EdCore, NEW i \in RunSlots, NEW r, r = x3[i], r.pc # "idle"
  PROVE  /\ r \in Editing(b)!RunStates /\ r.rid \in Editing(b)!Ids \cup {0} /\ r.own \in {0, r.rid} /\ r.own \in Editing(b)!Ids \cup {0}
         /\ r.aborted \in BOOLEAN /\ r.gen \in Nat /\ r.file \in Nat /\ r.pending \in BOOLEAN /\ r.gen <= x2.gen
         /\ r.pc = "release" => r.own # 0
         /\ r.pc \in {"renew", "reserve", "reserved"} => r.own = 0
         /\ r.pc = "reserve" <=> r.rid = 0
         /\ Editing(b)!IsCurrent(r) <=> ~r.aborted
         /\ r.aborted <=> r.gen # x2.gen
         /\ Editing(b)!Keeps(r)
<1>1. r \in Editing(b)!RunStates /\ Editing(b)!RunCounts(r) /\ Editing(b)!Keeps(r)
  BY EditingRunKind
<1>2. r.rid \in Editing(b)!Ids \cup {0} /\ r.own \in Editing(b)!Ids \cup {0} /\ r.aborted \in BOOLEAN /\ r.gen \in Nat /\ r.file \in Nat
      /\ r.pending \in BOOLEAN
  BY <1>1 DEF Editing!RunStates
<1> QED
  BY <1>1, <1>2 DEF Editing!RunCounts, Editing!IsCurrent

LEMMA EditingRunOf ==
  ASSUME NEW b, EditingTidy(b), NEW i \in RunSlots, NEW r, r = x3[i], r.pc # "idle"
  PROVE  /\ r.pc = "reserved" => Editing(b)!Untold(r.rid)
         /\ r.aborted => r.rid = 0 \/ r.rid # x2.ref
         /\ ~r.aborted => /\ x2.stage = "processing" /\ r.file = x2.file /\ ~x2.fallback /\ ~Editing(b)!Leaves
                          /\ r.pc \notin {"reserve", "reserved"} => r.rid = x2.ref
                          /\ r.pc = "settle" => x1[r.rid].bucket = "free"
                          /\ x2.ref # 0 => x1[x2.ref].status # "released" /\ x2.ref \notin x7
         /\ x10 = {} => x2.audio \in {0, x2.file}
<1>1. r \in Editing(b)!RunStates /\ Editing(b)!RunSound(r) /\ (r.pc = "reserved" => Editing(b)!Untold(r.rid))
  BY EditingRun
<1> QED
  BY <1>1 DEF EditingTidy, Editing!EdTidy, Editing!RunSound, Editing!ChoiceSound, Editing!RefSound, Editing!ShownIsItsOwn

LEMMA EditingShownKind ==
  ASSUME NEW b, Editing(b)!EdCore
  PROVE  /\ x2 \in Editing(b)!Shown /\ x2.ref \in Editing(b)!Ids \cup {0} /\ x2.gen \in Nat /\ x2.file \in Nat
         /\ x2.pending \in BOOLEAN /\ x2.finalizing \in BOOLEAN /\ x2.audio \in Nat /\ x2.transcript \in Nat
         /\ x9 \subseteq Editing(b)!Ids /\ x1 \in Seq(EditingRows)
         /\ \A id \in Editing(b)!Ids : id # 0 /\ x1[id] \in EditingRows
<1> USE DEF Editing!EdCore
<1>1. x2 \in Editing(b)!Shown /\ x2.ref \in Editing(b)!Ids \cup {0} /\ x2.gen \in Nat /\ x2.file \in Nat /\ x2.pending \in BOOLEAN
      /\ x2.finalizing \in BOOLEAN /\ x2.audio \in Nat /\ x2.transcript \in Nat
  BY EditingPage
<1>3. x9 \subseteq Editing(b)!Ids
  BY DEF Editing!EdKinds
<1>4. x1 \in Seq(EditingRows) /\ \A id \in Editing(b)!Ids : id # 0 /\ x1[id] \in EditingRows
  BY EditingIds
<1> QED
  BY <1>1, <1>3, <1>4

\* A run that fails releases what it reserved, or goes back to the setup.
LEMMA EditingThrown ==
  ASSUME NEW b, Editing(b)!EdCore, NEW i \in RunSlots, NEW r, r = x3[i], r.pc # "idle", NEW own \in {0, r.rid},
         Editing(b)!Throw(i, own), UNCHANGED <<x1, x4, x5, x6, x7, x10, x11, x12>>,
         x9 \subseteq x9', x9' \subseteq Editing(b)!Ids, own # 0 => r.aborted \/ own = r.own,
         \A id \in Editing(b)!Ids : Editing(b)!Answers(r, id) => id = own \/ id \in x9'
  PROVE  EditingGoes(b)
<1>1. Editing(b)!Ids' = Editing(b)!Ids /\ Editing(b)!Shown' = Editing(b)!Shown /\ Editing(b)!RunStates' = Editing(b)!RunStates
  BY DEF Editing!Ids, Editing!Shown, Editing!RunStates
<1>2. CASE own # 0
  <2>1. PICK s : s = [r EXCEPT !.pc = "release", !.own = own]
    OBVIOUS
  <2>10. r \in Editing(b)!RunStates /\ r.rid \in Editing(b)!Ids \cup {0} /\ own = r.rid /\ own \in Editing(b)!Ids \cup {0}
    BY <1>2, EditingRunKept
  <2>2. x3' = [x3 EXCEPT ![i] = s] /\ x2' = x2
    BY <1>2, <2>1 DEF Editing!Throw, Editing!Put
  <2>3. /\ s \in Editing(b)!RunStates /\ s.pc = "release" /\ s.gen = r.gen /\ s.aborted = r.aborted /\ s.own = own /\ s.rid = r.rid
        /\ s.file = r.file /\ r.rid # 0
    BY <1>2, <2>1, <2>10 DEF Editing!RunStates, Editing!RunPlaces
  <2>4. Editing(b)!RunCounts(s)' /\ Editing(b)!Keeps(s)'
    BY <1>2, <2>2, <2>3, EditingRunKept DEF Editing!RunCounts, Editing!Keeps
  <2>6. s # Editing(b)!Idle
    BY <2>3 DEF Editing!Idle
  <2>7. ASSUME NEW id \in Editing(b)!Ids, Editing(b)!Answers(r, id) \/ (id = x2.ref /\ x2.pending)
        PROVE  Editing(b)!SeenTo(id)' \/ Editing(b)!Answers(s, id)
    BY <2>2, <2>3, <2>7 DEF Editing!SeenTo, Editing!Answers
  <2>9. EditingTurn(b, i, r, s)
    BY <1>1, <2>2, <2>3, <2>4, <2>6, <2>7, EditingShownKind DEF EditingTurn
  <2>11. ASSUME EditingTidy(b) PROVE EditingNeat(b, i, r, s)
    <3>1. Editing(b)!RunSound(s)'
      BY <1>2, <2>2, <2>3, <2>4, <2>11, EditingRunOf, EditingRunKept DEF Editing!RunSound
    <3> QED
      BY <2>2, <2>3, <2>11, <3>1, EditingRunOf DEF EditingNeat
  <2> QED
    BY <2>9, <2>11, EditingTurns
<1>3. CASE own = 0
  <2>1. PICK s : s = Editing(b)!Idle
    OBVIOUS
  <2>2. /\ x3' = [x3 EXCEPT ![i] = s] /\ s.pc = "idle"
        /\ x2' = (IF ~r.aborted THEN [x2 EXCEPT !.stage = "setup"] ELSE x2)
    BY <1>3, <2>1, EditingRunKept DEF Editing!Throw, Editing!End, Editing!Show, Editing!Idle
  <2>3. /\ x2' \in Editing(b)!Shown
        /\ \A f \in {"gen", "file", "ref", "pending", "finalizing", "transcript", "audio", "fallback"} : x2'[f] = x2[f]
        /\ IF ~r.aborted THEN x2'.stage = "setup" ELSE x2'.stage = x2.stage
    BY <2>2, EditingShownKind DEF Editing!Shown
  <2>4. ASSUME NEW id \in Editing(b)!Ids, Editing(b)!Answers(r, id) \/ (id = x2.ref /\ x2.pending)
        PROVE  Editing(b)!SeenTo(id)'
    <3>1. id # 0
      BY EditingShownKind
    <3> QED
      BY <1>3, <2>3, <2>4, <3>1 DEF Editing!SeenTo
  <2>5. EditingTurn(b, i, r, s)
    BY <1>1, <2>1, <2>2, <2>3, <2>4, EditingShownKind DEF EditingTurn
  <2>6. EditingTidy(b) => EditingNeat(b, i, r, s)
    BY <2>1, <2>2, <2>3, EditingRunOf, EditingRunKept DEF EditingNeat
  <2> QED
    BY <2>5, <2>6, EditingTurns
<1> QED
  BY <1>2, <1>3

LEMMA EditingRenew == ASSUME NEW b, Editing(b)!EdCore, NEW i \in RunSlots, Editing(b)!Renew(i) PROVE EditingGoes(b)
<1>1. PICK r : r = x3[i]
  OBVIOUS
<1>2. r.pc = "renew" /\ UNCHANGED <<x4, x5, x6, x7, x10, x11, x12>>
  BY <1>1 DEF Editing!Renew, Editing!Quiet, Editing!Sides
<1>8. r \in Editing(b)!RunStates /\ r.own = 0 /\ r.rid \in Editing(b)!Ids /\ r.rid # 0 /\ r.pending \in BOOLEAN
  BY <1>1, <1>2, EditingRunKept
<1>3. \A id \in Editing(b)!Ids : ~Editing(b)!Answers(r, id)
  BY <1>2 DEF Editing!Answers
<1>9. PICK k : k = r.rid
  OBVIOUS
<1>4. CASE /\ ~r.aborted
           /\ \E bucket \in {x1[k].bucket, "paid"} :
                x1' = [x1 EXCEPT ![k] = [bucket |-> bucket, status |-> IF @.status = "completed" THEN @.status ELSE "held"]]
           /\ x3' = [x3 EXCEPT ![i] = [r EXCEPT !.pc = "work"]]
           /\ x2' = [x2 EXCEPT !.ref = k, !.pending = r.pending, !.finalizing = FALSE]
           /\ x9' = x9 \cup Editing(b)!Overwritten(k) \cup Editing(b)!TakenUp(r)
  <2>1. PICK s : s = [r EXCEPT !.pc = "work"]
    OBVIOUS
  <2>2. PICK bucket \in {x1[k].bucket, "paid"} :
          x1' = [x1 EXCEPT ![k] = [bucket |-> bucket, status |-> IF @.status = "completed" THEN @.status ELSE "held"]]
    BY <1>4
  <2>3. k \in Editing(b)!Ids /\ k # 0 /\ x1[k] \in EditingRows
    BY <1>8, <1>9, EditingShownKind
  <2>4. PICK row : row = [bucket |-> bucket, status |-> IF x1[k].status = "completed" THEN "completed" ELSE "held"]
    OBVIOUS
  <2>5. row \in EditingRows /\ row.status = (IF x1[k].status = "completed" THEN "completed" ELSE "held")
    BY <2>2, <2>3, <2>4 DEF EditingRows
  <2>6. x1' = [x1 EXCEPT ![k] = row]
    BY <2>2, <2>3, <2>4
  <2>7. /\ x1' \in Seq(EditingRows) /\ Editing(b)!Ids' = Editing(b)!Ids
        /\ \A id \in Editing(b)!Ids : id # k => x1'[id].status = x1[id].status
        /\ x1'[k].status = (IF x1[k].status = "completed" THEN "completed" ELSE "held")
    <3>1. k \in 1 .. Len(x1) /\ x1 \in Seq(EditingRows)
      BY <2>3, EditingShownKind DEF Editing!Ids
    <3>2. x1' \in Seq(EditingRows) /\ Len(x1') = Len(x1) /\ \A j \in 1 .. Len(x1) : x1'[j] = IF j = k THEN row ELSE x1[j]
      BY <2>5, <2>6, <3>1, ExceptSeq
    <3> QED
      BY <2>5, <3>1, <3>2 DEF Editing!Ids
  <2>8. /\ x2' \in Editing(b)!Shown /\ \A f \in {"stage", "gen", "file", "transcript", "audio", "fallback"} : x2'[f] = x2[f]
        /\ ~x2'.finalizing /\ x2'.ref = k /\ x2'.pending = r.pending
    BY <1>4, <1>8, <2>3, EditingShownKind DEF Editing!Shown
  <2>9. /\ s \in Editing(b)!RunStates /\ s.pc = "work" /\ s.gen = r.gen /\ s.aborted = r.aborted /\ s.rid = k
        /\ s.file = r.file /\ s.own = 0
    BY <1>8, <1>9, <2>1 DEF Editing!RunStates, Editing!RunPlaces
  <2>10. Editing(b)!RunCounts(s)' /\ Editing(b)!Keeps(s)'
    BY <1>1, <1>2, <2>3, <2>8, <2>9, EditingRunKept DEF Editing!RunCounts, Editing!Keeps
  <2>11. Editing(b)!Shown' = Editing(b)!Shown /\ Editing(b)!RunStates' = Editing(b)!RunStates
    BY <2>7 DEF Editing!Shown, Editing!RunStates
  <2>12. ASSUME NEW id \in Editing(b)!Ids, x1'[id].status = "held", x1[id].status # "held" \/ (id = x2.ref /\ x2.pending)
         PROVE  Editing(b)!SeenTo(id)'
    <3>1. id = k \/ (id # k /\ id = x2.ref /\ x1[id].status = "held" /\ id # 0)
      BY <2>7, <2>12, EditingShownKind
    <3>2. CASE id = k
      <4>1. r.pending \/ k \in Editing(b)!TakenUp(r)
        <5>1. x1[k].status # "held" => x1[k].status = "released"
          BY <2>3, <2>7, <2>12, <3>2 DEF EditingRows
        <5> QED
          BY <1>9, <2>12, <3>2, <5>1 DEF Editing!TakenUp
      <4> QED
        BY <1>4, <2>8, <3>2, <4>1 DEF Editing!SeenTo
    <3>3. CASE id # k
      BY <1>4, <3>1, <3>3 DEF Editing!SeenTo, Editing!Overwritten, Editing!Held
    <3> QED
      BY <3>2, <3>3
  <2>13. s # Editing(b)!Idle /\ x3' = [x3 EXCEPT ![i] = s]
    BY <1>4, <2>1, <2>9 DEF Editing!Idle
  <2>14. x9 \subseteq x9' /\ x9' \subseteq Editing(b)!Ids
    BY <1>4, <1>8, EditingShownKind DEF Editing!Overwritten, Editing!Held, Editing!TakenUp
  <2>15. ~r.aborted
    BY <1>4
  <2>16. EditingTurn(b, i, r, s)
    BY <1>2, <1>3, <2>7, <2>8, <2>9, <2>10, <2>11, <2>12, <2>13, <2>14, <2>15 DEF EditingTurn
  <2>17. ASSUME EditingTidy(b) PROVE EditingNeat(b, i, r, s)
    <3>1. /\ x2.stage = "processing" /\ r.file = x2.file /\ ~x2.fallback /\ r.rid = x2.ref /\ x1[k].status # "released"
          /\ x10 = {} => x2.audio \in {0, x2.file}
      BY <1>1, <1>2, <1>9, <2>3, <2>15, <2>17, EditingRunOf
    <3>2. Editing(b)!RunSound(s)'
      BY <1>9, <2>8, <2>9, <2>10, <2>15, <3>1 DEF Editing!RunSound
    <3>3. \A id \in Editing(b)!Ids : x1'[id].status = x1[id].status
      <4>1. x1[k].status \in {"held", "completed"}
        BY <2>3, <3>1 DEF EditingRows
      <4> QED
        BY <2>7, <4>1
    <3>4. x1'[x2'.ref].status # "released"
      BY <2>3, <2>8, <3>1, <3>3
    <3> QED
      BY <1>2, <1>9, <2>8, <2>9, <2>15, <3>1, <3>2, <3>3, <3>4 DEF EditingNeat
  <2> QED
    BY <1>1, <1>2, <2>16, <2>17, EditingTurns
<1>5. CASE /\ ~r.aborted
           /\ x3' = [x3 EXCEPT ![i] = [r EXCEPT !.pc = "reserve", !.rid = 0]]
           /\ x2' = [x2 EXCEPT !.ref = 0, !.pending = FALSE, !.finalizing = FALSE]
           /\ x9' = x9 \cup Editing(b)!Overwritten(0) /\ x1' = x1
  <2>1. PICK s : s = [r EXCEPT !.pc = "reserve", !.rid = 0]
    OBVIOUS
  <2>2. Editing(b)!Ids' = Editing(b)!Ids /\ Editing(b)!Shown' = Editing(b)!Shown /\ Editing(b)!RunStates' = Editing(b)!RunStates
    BY <1>5 DEF Editing!Ids, Editing!Shown, Editing!RunStates
  <2>3. /\ x2' \in Editing(b)!Shown /\ \A f \in {"stage", "gen", "file", "transcript", "audio", "fallback"} : x2'[f] = x2[f]
        /\ x2'.ref = 0 /\ ~x2'.pending /\ ~x2'.finalizing
    BY <1>5, EditingShownKind DEF Editing!Shown
  <2>4. /\ s \in Editing(b)!RunStates /\ s.pc = "reserve" /\ s.gen = r.gen /\ s.aborted = r.aborted /\ s.rid = 0
        /\ s.file = r.file /\ s.own = 0
    BY <1>8, <2>1 DEF Editing!RunStates, Editing!RunPlaces
  <2>5. Editing(b)!RunCounts(s)' /\ Editing(b)!Keeps(s)'
    BY <1>1, <1>2, <2>3, <2>4, EditingRunKept DEF Editing!RunCounts, Editing!Keeps
  <2>6. x9 \subseteq x9' /\ x9' \subseteq Editing(b)!Ids /\ \A id \in Editing(b)!Ids : id = x2.ref /\ x1[id].status = "held" => id \in x9'
    BY <1>5, EditingShownKind DEF Editing!Overwritten, Editing!Held
  <2>7. ASSUME NEW id \in Editing(b)!Ids, x1[id].status = "held", id = x2.ref PROVE Editing(b)!SeenTo(id)'
    BY <2>6, <2>7 DEF Editing!SeenTo
  <2>8. s # Editing(b)!Idle /\ x3' = [x3 EXCEPT ![i] = s] /\ ~r.aborted /\ x1' = x1
    BY <1>5, <2>1, <2>4 DEF Editing!Idle
  <2>9. EditingTurn(b, i, r, s)
    BY <1>2, <1>3, <2>2, <2>3, <2>4, <2>5, <2>6, <2>7, <2>8, EditingShownKind DEF EditingTurn
  <2>10. ASSUME EditingTidy(b) PROVE EditingNeat(b, i, r, s)
    <3>1. x2.stage = "processing" /\ r.file = x2.file /\ ~x2.fallback /\ (x10 = {} => x2.audio \in {0, x2.file})
      BY <1>1, <1>2, <2>8, <2>10, EditingRunOf
    <3>2. Editing(b)!RunSound(s)'
      BY <2>3, <2>4, <2>5, <2>8, <3>1 DEF Editing!RunSound
    <3> QED
      BY <1>2, <2>3, <2>4, <2>8, <3>1, <3>2 DEF EditingNeat
  <2> QED
    BY <1>1, <1>2, <2>9, <2>10, EditingTurns
<1>6. CASE Editing(b)!Throw(i, 0) /\ x1' = x1 /\ x9' = x9
  <2>1. x9 \subseteq x9' /\ x9' \subseteq Editing(b)!Ids
    BY <1>6, EditingShownKind
  <2> QED
    BY <1>1, <1>2, <1>3, <1>6, <2>1, EditingThrown
<1> QED
  BY <1>1, <1>4, <1>5, <1>6, <1>9 DEF Editing!Renew, Editing!Put, Editing!Show, Editing!Remember

LEMMA EditingReserve == ASSUME NEW b, Editing(b)!EdCore, NEW i \in RunSlots, Editing(b)!Reserve(i) PROVE EditingGoes(b)
<1>1. PICK r : r = x3[i]
  OBVIOUS
<1>2. r.pc = "reserve" /\ UNCHANGED <<x4, x5, x6, x7, x9, x10, x11, x12>>
  BY <1>1 DEF Editing!Reserve, Editing!Quiet, Editing!Sides
<1>8. r \in Editing(b)!RunStates /\ r.own = 0
  BY <1>1, <1>2, EditingRunKept
<1>3. \A id \in Editing(b)!Ids : ~Editing(b)!Answers(r, id)
  BY <1>2 DEF Editing!Answers
<1>4. CASE \E bucket \in {"free", "paid"} :
             /\ Editing(b)!Reserved(bucket)
             /\ x3' = [x3 EXCEPT ![i] = [r EXCEPT !.pc = "reserved", !.rid = Len(x1) + 1]] /\ x2' = x2
  <2>1. PICK bucket \in {"free", "paid"} :
             /\ Editing(b)!Reserved(bucket)
             /\ x3' = [x3 EXCEPT ![i] = [r EXCEPT !.pc = "reserved", !.rid = Len(x1) + 1]] /\ x2' = x2
    BY <1>4
  <2>2. PICK n : n = Len(x1) + 1
    OBVIOUS
  <2>3. PICK s : s = [r EXCEPT !.pc = "reserved", !.rid = n]
    OBVIOUS
  <2>4. /\ x1' \in Seq(EditingRows) /\ Editing(b)!Ids \subseteq Editing(b)!Ids' /\ (\A j \in Editing(b)!Ids : x1'[j] = x1[j])
        /\ n \notin Editing(b)!Ids /\ n # 0 /\ Editing(b)!Ids' = Editing(b)!Ids \cup {n} /\ x1'[n].status = "held"
    BY <2>1, <2>2, EditingReserved DEF Editing!EdCore
  <2>5. /\ s \in Editing(b)!RunStates' /\ s.pc = "reserved" /\ s.gen = r.gen /\ s.aborted = r.aborted /\ s.rid = n
        /\ s.file = r.file /\ s.own = 0
    BY <1>8, <2>3, <2>4 DEF Editing!RunStates, Editing!RunPlaces
  <2>6. /\ x2 \in Editing(b)!Shown' /\ n # x2.ref /\ n \notin x7 /\ n \notin x11 /\ (x6.pc # "idle" => n # x6.ref)
        /\ x12["narration"] # Editing(b)!Idle => n # x12["narration"].ref
    <3>1. x2 \in Editing(b)!Shown'
      BY <2>4, EditingTypes, EditingShownKind DEF Editing!EdCore
    <3>2. x7 \subseteq Editing(b)!Ids /\ x11 \subseteq Editing(b)!Ids
      BY DEF Editing!EdCore, Editing!EdKinds
    <3>3. x12["narration"] # Editing(b)!Idle => x12["narration"].ref \in Editing(b)!Ids
      BY EditingChoiceKinds DEF Editing!EdCore
    <3> QED
      BY <2>4, <3>1, <3>2, <3>3, EditingShownKind, EditingExportKind
  <2>7. Editing(b)!Untold(n)'
    <3>1. Editing(b)!Idle' = Editing(b)!Idle
      BY DEF Editing!Idle
    <3> QED
      BY <1>2, <2>1, <2>4, <2>6, <3>1 DEF Editing!Untold
  <2>8. Editing(b)!RunCounts(s)' /\ Editing(b)!Keeps(s)'
    BY <1>1, <1>2, <2>1, <2>4, <2>5, EditingRunKept DEF Editing!RunCounts, Editing!Keeps
  <2>9. ASSUME NEW id \in Editing(b)!Ids', id \notin Editing(b)!Ids \/ (id = x2.ref /\ x2.pending)
        PROVE  Editing(b)!SeenTo(id)' \/ Editing(b)!Answers(s, id)
    BY <2>1, <2>4, <2>5, <2>9 DEF Editing!SeenTo, Editing!Answers
  <2>10. s # Editing(b)!Idle /\ x3' = [x3 EXCEPT ![i] = s]
    BY <2>1, <2>2, <2>3, <2>5 DEF Editing!Idle
  <2>12. EditingTurn(b, i, r, s)
    BY <1>2, <1>3, <2>1, <2>4, <2>5, <2>6, <2>8, <2>9, <2>10, EditingShownKind DEF EditingTurn
  <2>13. ASSUME EditingTidy(b) PROVE EditingNeat(b, i, r, s)
    <3>1. Editing(b)!RunSound(s)'
      BY <1>1, <1>2, <2>1, <2>4, <2>5, <2>6, <2>8, <2>13, EditingRunOf DEF Editing!RunSound
    <3>2. /\ ~r.aborted => ~x2.fallback /\ x2.stage = "processing" /\ (x2.ref # 0 => x1[x2.ref].status # "released")
          /\ x10 = {} => x2.audio \in {0, x2.file}
      BY <1>1, <1>2, <2>13, EditingRunOf
    <3>3. x2.ref # 0 => x1'[x2.ref] = x1[x2.ref]
      BY <2>4, EditingShownKind
    <3> QED
      BY <1>2, <2>1, <2>4, <2>5, <2>7, <3>1, <3>2, <3>3 DEF EditingNeat
  <2> QED
    BY <1>1, <1>2, <2>12, <2>13, EditingTurns
<1>5. CASE Editing(b)!Throw(i, 0) /\ x1' = x1
  <2>1. x9 \subseteq x9' /\ x9' \subseteq Editing(b)!Ids
    BY <1>2, EditingShownKind
  <2> QED
    BY <1>1, <1>2, <1>3, <1>5, <2>1, EditingThrown
<1> QED
  BY <1>1, <1>4, <1>5 DEF Editing!Reserve, Editing!Put

LEMMA EditingReserveAnswers ==
  ASSUME NEW b, Editing(b)!EdCore, NEW i \in RunSlots, Editing(b)!ReserveAnswers(i) PROVE EditingGoes(b)
<1>1. PICK r : r = x3[i]
  OBVIOUS
<1>2. r.pc = "reserved" /\ UNCHANGED <<x1, x4, x5, x6, x7, x10, x11, x12>>
  BY <1>1 DEF Editing!ReserveAnswers, Editing!Quiet, Editing!Sides
<1>8. r \in Editing(b)!RunStates /\ r.own = 0
  BY <1>1, <1>2, EditingRunKept
<1>3. PICK k : k = r.rid
  OBVIOUS
<1>4. k \in Editing(b)!Ids /\ k # 0 /\ \A id \in Editing(b)!Ids : Editing(b)!Answers(r, id) => id = k
  BY <1>1, <1>2, <1>3, EditingRunKept DEF Editing!Answers
<1>5. CASE /\ ~r.aborted /\ x3' = [x3 EXCEPT ![i] = [r EXCEPT !.pc = "work", !.own = k]]
           /\ x2' = [x2 EXCEPT !.ref = k, !.pending = FALSE, !.finalizing = FALSE] /\ x9' = x9 \cup Editing(b)!Overwritten(k)
  <2>1. PICK s : s = [r EXCEPT !.pc = "work", !.own = k]
    OBVIOUS
  <2>2. Editing(b)!Ids' = Editing(b)!Ids /\ Editing(b)!Shown' = Editing(b)!Shown /\ Editing(b)!RunStates' = Editing(b)!RunStates
    BY <1>2 DEF Editing!Ids, Editing!Shown, Editing!RunStates
  <2>3. /\ x2' \in Editing(b)!Shown /\ \A f \in {"stage", "gen", "file", "transcript", "audio", "fallback"} : x2'[f] = x2[f]
        /\ x2'.ref = k /\ ~x2'.pending /\ ~x2'.finalizing
    BY <1>4, <1>5, EditingShownKind DEF Editing!Shown
  <2>4. /\ s \in Editing(b)!RunStates /\ s.pc = "work" /\ s.gen = r.gen /\ s.aborted = r.aborted /\ s.rid = k
        /\ s.file = r.file /\ s.own = k
    BY <1>3, <1>4, <1>8, <2>1 DEF Editing!RunStates, Editing!RunPlaces
  <2>5. Editing(b)!RunCounts(s)' /\ Editing(b)!Keeps(s)'
    BY <1>1, <1>2, <1>4, <2>3, <2>4, EditingRunKept DEF Editing!RunCounts, Editing!Keeps
  <2>6. x9 \subseteq x9' /\ x9' \subseteq Editing(b)!Ids
        /\ \A id \in Editing(b)!Ids : id = x2.ref /\ x1[id].status = "held" => id \in x9' \cup {k}
    BY <1>4, <1>5, EditingShownKind DEF Editing!Overwritten, Editing!Held
  <2>7. ASSUME NEW id \in Editing(b)!Ids, x1[id].status = "held", id = x2.ref \/ Editing(b)!Answers(r, id)
        PROVE  Editing(b)!SeenTo(id)' \/ Editing(b)!Answers(s, id)
    BY <1>4, <2>4, <2>6, <2>7 DEF Editing!SeenTo, Editing!Answers
  <2>8. s # Editing(b)!Idle /\ x3' = [x3 EXCEPT ![i] = s] /\ ~r.aborted
    BY <1>5, <2>1, <2>4 DEF Editing!Idle
  <2>9. EditingTurn(b, i, r, s)
    BY <1>2, <1>4, <2>2, <2>3, <2>4, <2>5, <2>6, <2>7, <2>8, EditingShownKind DEF EditingTurn
  <2>10. ASSUME EditingTidy(b) PROVE EditingNeat(b, i, r, s)
    <3>1. x2.stage = "processing" /\ r.file = x2.file /\ ~x2.fallback /\ (x10 = {} => x2.audio \in {0, x2.file})
      BY <1>1, <1>2, <2>8, <2>10, EditingRunOf
    <3>2. x1[k].status = "held"
      BY <1>1, <1>2, <1>3, <2>10, EditingRunOf DEF Editing!Untold
    <3>3. Editing(b)!RunSound(s)'
      BY <2>3, <2>4, <2>5, <2>8, <3>1 DEF Editing!RunSound
    <3> QED
      BY <1>2, <1>3, <2>3, <2>4, <2>8, <3>1, <3>2, <3>3 DEF EditingNeat
  <2> QED
    BY <1>1, <1>2, <2>9, <2>10, EditingTurns
<1>6. CASE r.aborted /\ Editing(b)!Throw(i, k) /\ x9' = x9
  <2>1. x9 \subseteq x9' /\ x9' \subseteq Editing(b)!Ids
    BY <1>6, EditingShownKind
  <2> QED
    BY <1>1, <1>2, <1>3, <1>4, <1>6, <2>1, EditingThrown
<1>7. CASE r.aborted /\ Editing(b)!Throw(i, 0) /\ x9' = x9 \cup {k}
  <2>1. x9 \subseteq x9' /\ x9' \subseteq Editing(b)!Ids /\ k \in x9'
    BY <1>4, <1>7, EditingShownKind
  <2> QED
    BY <1>1, <1>2, <1>4, <1>7, <2>1, EditingThrown
<1> QED
  BY <1>1, <1>3, <1>5, <1>6, <1>7 DEF Editing!ReserveAnswers, Editing!Put, Editing!Show, Editing!Remember

LEMMA EditingWork == ASSUME NEW b, Editing(b)!EdCore, NEW i \in RunSlots, Editing(b)!Work(i) PROVE EditingGoes(b)
<1>1. PICK r : r = x3[i]
  OBVIOUS
<1>2. r.pc = "work" /\ UNCHANGED <<x1, x4, x5, x6, x7, x9, x10, x11, x12>>
  BY <1>1 DEF Editing!Work, Editing!Quiet, Editing!Sides
<1>3. /\ r \in Editing(b)!RunStates /\ r.rid # 0 /\ r.own \in {0, r.rid}
      /\ Editing(b)!Ids' = Editing(b)!Ids /\ Editing(b)!Shown' = Editing(b)!Shown /\ Editing(b)!RunStates' = Editing(b)!RunStates
  BY <1>1, <1>2, EditingRunKept DEF Editing!Ids, Editing!Shown, Editing!RunStates
<1>4. CASE x3' = [x3 EXCEPT ![i] = [r EXCEPT !.pc = "finish"]] /\ x2' = x2
  <2>1. PICK s : s = [r EXCEPT !.pc = "finish"]
    OBVIOUS
  <2>2. /\ s \in Editing(b)!RunStates /\ s.pc = "finish" /\ s.gen = r.gen /\ s.aborted = r.aborted /\ s.rid = r.rid
        /\ s.file = r.file /\ s.own = r.own
    BY <1>3, <2>1 DEF Editing!RunStates, Editing!RunPlaces
  <2>3. Editing(b)!RunCounts(s)' /\ Editing(b)!Keeps(s)'
    BY <1>1, <1>2, <1>4, <2>2, EditingRunKept DEF Editing!RunCounts, Editing!Keeps
  <2>4. ASSUME NEW id \in Editing(b)!Ids, Editing(b)!Answers(r, id) \/ (id = x2.ref /\ x2.pending)
        PROVE  Editing(b)!SeenTo(id)' \/ Editing(b)!Answers(s, id)
    BY <1>2, <1>4, <2>2, <2>4 DEF Editing!SeenTo, Editing!Answers
  <2>5. s # Editing(b)!Idle /\ x3' = [x3 EXCEPT ![i] = s]
    BY <1>4, <2>1, <2>2 DEF Editing!Idle
  <2>8. x2' \in Editing(b)!Shown' /\ x1' \in Seq(EditingRows) /\ x9' \subseteq Editing(b)!Ids' /\ s \in Editing(b)!RunStates'
    BY <1>2, <1>3, <1>4, <2>2, EditingShownKind
  <2>6. EditingTurn(b, i, r, s)
    BY <1>2, <1>3, <1>4, <2>2, <2>3, <2>4, <2>5, <2>8 DEF EditingTurn
  <2>7. ASSUME EditingTidy(b) PROVE EditingNeat(b, i, r, s)
    <3>1. Editing(b)!RunSound(s)'
      BY <1>1, <1>2, <1>4, <2>2, <2>3, <2>7, EditingRunOf DEF Editing!RunSound
    <3>2. /\ ~r.aborted => ~x2.fallback /\ x2.stage = "processing" /\ (x2.ref # 0 => x1[x2.ref].status # "released")
          /\ x10 = {} => x2.audio \in {0, x2.file}
      BY <1>1, <1>2, <2>7, EditingRunOf
    <3> QED
      BY <1>2, <1>4, <2>2, <3>1, <3>2 DEF EditingNeat
  <2> QED
    BY <1>1, <1>2, <2>6, <2>7, EditingTurns
<1>5. CASE /\ Editing(b)!IsCurrent(r) /\ x2' = [x2 EXCEPT !.stage = "setup", !.pending = TRUE, !.fallback = TRUE]
           /\ x3' = [x3 EXCEPT ![i] = Editing(b)!Idle]
  <2>1. PICK s : s = Editing(b)!Idle
    OBVIOUS
  <2>2. /\ x2' \in Editing(b)!Shown /\ \A f \in {"gen", "file", "ref", "finalizing", "transcript", "audio"} : x2'[f] = x2[f]
        /\ x2'.stage = "setup" /\ x2'.pending
    BY <1>5, EditingShownKind DEF Editing!Shown
  <2>3. ~r.aborted /\ Editing(b)!Keeps(r) /\ s.pc = "idle"
    BY <1>1, <1>2, <1>5, <2>1, EditingRunKept DEF Editing!Idle
  <2>4. ASSUME NEW id \in Editing(b)!Ids, x1[id].status = "held", Editing(b)!Answers(r, id) \/ (id = x2.ref /\ x2.pending)
        PROVE  Editing(b)!SeenTo(id)'
    <3>1. id # 0
      BY EditingShownKind
    <3>2. id = x2.ref \/ id \in x9 \cup x7
      BY <1>2, <2>3, <2>4, <3>1 DEF Editing!Answers, Editing!Keeps
    <3> QED
      BY <1>2, <2>2, <3>2 DEF Editing!SeenTo
  <2>5. EditingTurn(b, i, r, s)
    BY <1>2, <1>3, <1>5, <2>1, <2>2, <2>3, <2>4, EditingShownKind DEF EditingTurn
  <2>6. EditingTidy(b) => EditingNeat(b, i, r, s)
    BY <1>1, <1>2, <2>1, <2>2, <2>3, EditingRunOf DEF EditingNeat
  <2> QED
    BY <1>1, <1>2, <2>5, <2>6, EditingTurns
<1>6. CASE Editing(b)!Throw(i, r.own)
  <2>1. x9 \subseteq x9' /\ x9' \subseteq Editing(b)!Ids
    BY <1>2, EditingShownKind
  <2>2. \A id \in Editing(b)!Ids : Editing(b)!Answers(r, id) => id = r.own
    BY <1>2 DEF Editing!Answers
  <2>3. PICK own \in {0, r.rid} : own = r.own
    BY <1>3
  <2> QED
    BY <1>1, <1>2, <1>6, <2>1, <2>2, <2>3, EditingThrown
<1> QED
  BY <1>1, <1>4, <1>5, <1>6 DEF Editing!Work, Editing!Put, Editing!Show, Editing!End

LEMMA EditingFinish == ASSUME NEW b, Editing(b)!EdCore, NEW i \in RunSlots, Editing(b)!Finish(i) PROVE EditingGoes(b)
<1>1. PICK r : r = x3[i]
  OBVIOUS
<1>2. r.pc = "finish" /\ UNCHANGED <<x1, x4, x5, x6, x7, x11, x12>>
  BY <1>1 DEF Editing!Finish, Editing!Sides
<1>3. /\ r \in Editing(b)!RunStates /\ r.rid # 0 /\ r.own \in {0, r.rid} /\ Editing(b)!Keeps(r)
      /\ r.rid \in Editing(b)!Ids /\ r.file \in Nat /\ (Editing(b)!IsCurrent(r) <=> ~r.aborted)
      /\ Editing(b)!Ids' = Editing(b)!Ids /\ Editing(b)!Shown' = Editing(b)!Shown /\ Editing(b)!RunStates' = Editing(b)!RunStates
  BY <1>1, <1>2, EditingRunKept DEF Editing!Ids, Editing!Shown, Editing!RunStates
<1>4. CASE r.aborted /\ Editing(b)!Throw(i, r.own) /\ UNCHANGED <<x9, x10>>
  <2>1. x9 \subseteq x9' /\ x9' \subseteq Editing(b)!Ids
    BY <1>4, EditingShownKind
  <2>2. \A id \in Editing(b)!Ids : Editing(b)!Answers(r, id) => id = r.own
    BY <1>2 DEF Editing!Answers
  <2>3. PICK own \in {0, r.rid} : own = r.own
    BY <1>3
  <2> QED
    BY <1>1, <1>2, <1>4, <2>1, <2>2, <2>3, EditingThrown
<1>5. ASSUME ~r.aborted, x10' = x10, x9' = x9, NEW settles, settles = (x2.ref = r.rid),
             x2' = [x2 EXCEPT !.transcript = r.file, !.audio = IF r.kind = "narration" THEN r.file ELSE @,
                              !.pending = @ \/ (settles /\ Editing(b)!Paid(r.rid))],
             NEW pc, pc = (IF settles /\ ~Editing(b)!Paid(r.rid) THEN "settle" ELSE "timer"),
             x3' = [x3 EXCEPT ![i] = [r EXCEPT !.pc = pc]]
      PROVE  EditingGoes(b)
  <2>1. PICK s : s = [r EXCEPT !.pc = pc]
    OBVIOUS
  <2>2. /\ s \in Editing(b)!RunStates /\ s.pc = (IF settles /\ ~Editing(b)!Paid(r.rid) THEN "settle" ELSE "timer") /\ s.gen = r.gen
        /\ s.aborted = r.aborted /\ s.rid = r.rid /\ s.file = r.file /\ s.own = r.own
    BY <1>3, <1>5, <2>1 DEF Editing!RunStates, Editing!RunPlaces
  <2>4. /\ x2' \in Editing(b)!Shown /\ \A f \in {"stage", "gen", "file", "ref", "finalizing", "fallback"} : x2'[f] = x2[f]
        /\ x2'.transcript = r.file /\ x2'.audio \in {x2.audio, r.file}
        /\ x2'.pending = (x2.pending \/ (settles /\ Editing(b)!Paid(r.rid)))
    <3>1. PICK p \in BOOLEAN : p = (x2.pending \/ (settles /\ Editing(b)!Paid(r.rid)))
      OBVIOUS
    <3>2. PICK a \in {x2.audio, r.file} : a = IF r.kind = "narration" THEN r.file ELSE x2.audio
      OBVIOUS
    <3>3. x2' = [x2 EXCEPT !.transcript = r.file, !.audio = a, !.pending = p]
      BY <1>5, <3>1, <3>2
    <3> QED
      BY <1>3, <3>1, <3>2, <3>3, EditingShownKind DEF Editing!Shown
  <2>6. Editing(b)!RunCounts(s)' /\ Editing(b)!Keeps(s)'
    BY <1>1, <1>2, <1>3, <1>5, <2>2, <2>4, EditingRunKept DEF Editing!RunCounts, Editing!Keeps
  <2>7. ASSUME NEW id \in Editing(b)!Ids, x1[id].status = "held", Editing(b)!Answers(r, id) \/ (id = x2.ref /\ x2.pending)
        PROVE  Editing(b)!SeenTo(id)' \/ Editing(b)!Answers(s, id)
    <3>1. id # 0
      BY EditingShownKind
    <3>2. CASE id = x2.ref /\ x2.pending
      BY <2>4, <3>2 DEF Editing!SeenTo
    <3>3. CASE Editing(b)!Answers(r, id)
      <4>1. id = r.own /\ id = r.rid
        BY <1>2, <1>3, <3>1, <3>3 DEF Editing!Answers
      <4>2. s.pc = "settle" \/ (id = x2'.ref /\ x2'.pending) \/ id # x2.ref
        BY <1>5, <2>2, <2>4, <4>1
      <4>3. id # x2.ref => id \in x9 \cup x7
        BY <1>2, <1>5, <1>3, <2>7, <3>1, <4>1 DEF Editing!Keeps
      <4> QED
        BY <1>2, <1>5, <2>2, <4>1, <4>2, <4>3 DEF Editing!SeenTo, Editing!Answers
    <3> QED
      BY <2>7, <3>2, <3>3
  <2>8. s # Editing(b)!Idle /\ x3' = [x3 EXCEPT ![i] = s]
    BY <1>5, <2>1, <2>2 DEF Editing!Idle
  <2>10. x2' \in Editing(b)!Shown' /\ x1' \in Seq(EditingRows) /\ x9' \subseteq Editing(b)!Ids' /\ s \in Editing(b)!RunStates'
    BY <1>2, <1>3, <1>5, <2>2, <2>4, EditingShownKind
  <2>11. EditingTurn(b, i, r, s)
    BY <1>2, <1>3, <1>5, <2>2, <2>4, <2>6, <2>7, <2>8, <2>10 DEF EditingTurn
  <2>12. ASSUME EditingTidy(b) PROVE EditingNeat(b, i, r, s)
    <3>1. /\ x2.stage = "processing" /\ ~x2.fallback /\ r.rid = x2.ref /\ r.file = x2.file /\ x1[x2.ref].status # "released"
          /\ x10 = {} => x2.audio \in {0, x2.file}
      BY <1>1, <1>2, <1>3, <1>5, <2>12, EditingRunOf
    <3>2. Editing(b)!Paid(r.rid) \/ x1[r.rid].bucket = "free"
      BY <1>3, EditingShownKind DEF Editing!Paid, EditingRows
    <3>3. Editing(b)!RunSound(s)'
      BY <1>2, <1>5, <2>2, <2>4, <2>6, <3>1, <3>2 DEF Editing!RunSound
    <3>4. Editing(b)!ItsOwn' /\ (s.pc = "timer" => Editing(b)!PaidIsPending')
      <4>1. settles /\ Editing(b)!Paid(r.rid)' = Editing(b)!Paid(r.rid)
        BY <1>2, <1>5, <3>1 DEF Editing!Paid
      <4> QED
        BY <1>2, <1>5, <2>2, <2>4, <3>1, <4>1 DEF Editing!ItsOwn, Editing!PaidIsPending, Editing!Paid
    <3> QED
      BY <1>2, <1>5, <2>2, <2>4, <3>1, <3>3, <3>4 DEF EditingNeat
  <2> QED
    BY <1>1, <1>2, <2>11, <2>12, EditingTurns
<1>6. CASE /\ r.aborted /\ x10' = x10 \cup {r.kind} /\ x9' = x9 \cup ({r.own} \ {0})
           /\ x2' = [x2 EXCEPT !.transcript = r.file, !.audio = IF r.kind = "narration" THEN r.file ELSE @,
                               !.pending = @ \/ (Editing(b)!IsCurrent(r) /\ r.rid # 0 /\ x2.ref = r.rid /\ Editing(b)!Paid(r.rid))]
           /\ x3' = [x3 EXCEPT ![i] = Editing(b)!Idle]
  <2>1. PICK s : s = Editing(b)!Idle
    OBVIOUS
  <2>2. /\ x2' \in Editing(b)!Shown
        /\ \A f \in {"stage", "gen", "file", "ref", "pending", "finalizing", "fallback"} : x2'[f] = x2[f]
    <3>1. PICK a \in Nat : a = IF r.kind = "narration" THEN r.file ELSE x2.audio
      BY <1>3, EditingShownKind
    <3>2. x2' = [x2 EXCEPT !.transcript = r.file, !.audio = a, !.pending = x2.pending]
      BY <1>3, <1>6, <3>1, EditingShownKind
    <3> QED
      BY <1>3, <3>1, <3>2, EditingShownKind DEF Editing!Shown
  <2>3. ASSUME NEW id \in Editing(b)!Ids, Editing(b)!Answers(r, id) \/ (id = x2.ref /\ x2.pending)
        PROVE  Editing(b)!SeenTo(id)'
    <3>1. id # 0
      BY EditingShownKind
    <3>2. id = r.own \/ (id = x2.ref /\ x2.pending)
      BY <1>2, <2>3 DEF Editing!Answers
    <3> QED
      BY <1>6, <2>2, <3>1, <3>2 DEF Editing!SeenTo
  <2>4. x10' # {} /\ x10 \subseteq x10' /\ x9 \subseteq x9' /\ x9' \subseteq Editing(b)!Ids /\ s.pc = "idle"
    BY <1>3, <1>6, <2>1, EditingShownKind DEF Editing!Idle
  <2>5. EditingTurn(b, i, r, s)
    BY <1>2, <1>3, <1>6, <2>1, <2>2, <2>3, <2>4, EditingShownKind DEF EditingTurn
  <2>6. EditingTidy(b) => EditingNeat(b, i, r, s)
    BY <1>2, <1>6, <2>1, <2>2, <2>4 DEF EditingNeat
  <2> QED
    BY <1>1, <1>2, <2>5, <2>6, EditingTurns
<1>7. CASE ~r.aborted
  <2>1. PICK settles : settles = (x2.ref = r.rid)
    OBVIOUS
  <2>2. PICK pc : pc = IF settles /\ ~Editing(b)!Paid(r.rid) THEN "settle" ELSE "timer"
    OBVIOUS
  <2>3. /\ x10' = x10 /\ x9' = x9
        /\ x2' = [x2 EXCEPT !.transcript = r.file, !.audio = IF r.kind = "narration" THEN r.file ELSE @,
                            !.pending = @ \/ (settles /\ Editing(b)!Paid(r.rid))]
        /\ IF settles /\ ~Editing(b)!Paid(r.rid) THEN x3' = [x3 EXCEPT ![i] = [r EXCEPT !.pc = "settle"]]
                                               ELSE x3' = [x3 EXCEPT ![i] = [r EXCEPT !.pc = "timer"]]
    BY <1>1, <1>3, <1>7, <2>1 DEF Editing!Finish, Editing!Put, Editing!Show, Editing!End
  <2>4. x3' = [x3 EXCEPT ![i] = [r EXCEPT !.pc = pc]]
    BY <2>2, <2>3
  <2> QED
    BY <1>5, <1>7, <2>1, <2>2, <2>3, <2>4
<1>8. CASE r.aborted
  BY <1>1, <1>3, <1>4, <1>6, <1>8 DEF Editing!Finish, Editing!Put, Editing!Show, Editing!End
<1> QED
  BY <1>7, <1>8

LEMMA EditingSettle == ASSUME NEW b, Editing(b)!EdCore, NEW i \in RunSlots, Editing(b)!Settle(i) PROVE EditingGoes(b)
<1>1. PICK r : r = x3[i]
  OBVIOUS
<1>2. PICK k : k = r.rid
  OBVIOUS
<1>3. r.pc = "settle" /\ UNCHANGED <<x4, x5, x6, x7, x10, x11, x12>>
  BY <1>1 DEF Editing!Settle, Editing!Quiet, Editing!Sides
<1>4. r \in Editing(b)!RunStates /\ k # 0 /\ k \in Editing(b)!Ids /\ r.own \in {0, k}
  BY <1>1, <1>2, <1>3, EditingRunKept
<1>6. /\ x1' \in Seq(EditingRows) /\ Editing(b)!Ids' = Editing(b)!Ids
      /\ \A j \in Editing(b)!Ids : x1'[j].bucket = x1[j].bucket /\ (j # k => x1'[j].status = x1[j].status)
      /\ x1'[k].status = x1[k].status \/ (x1[k].status = "held" /\ x1'[k].status = "completed")
      /\ x1'[k].status = "held" => k \in x9'
      /\ x9 \subseteq x9' /\ x9' \subseteq Editing(b)!Ids
  <2>1. CASE Editing(b)!Becomes(k, "completed") /\ x9' = x9
    BY <1>4, <2>1, EditingBecomes, EditingShownKind DEF Editing!EdCore
  <2>2. CASE x9' = x9 \cup {k} /\ x1' = x1
    BY <1>4, <2>2, EditingShownKind DEF Editing!Ids
  <2> QED
    BY <1>1, <1>2, <2>1, <2>2 DEF Editing!Settle
<1>7. PICK s : s = [r EXCEPT !.pc = "timer"]
  OBVIOUS
<1>8. /\ x3' = [x3 EXCEPT ![i] = s] /\ x2' = [x2 EXCEPT !.pending = @ /\ x2.ref # k]
  BY <1>1, <1>2, <1>7 DEF Editing!Settle, Editing!Put, Editing!Show
<1>9. /\ s \in Editing(b)!RunStates /\ s.pc = "timer" /\ s.gen = r.gen /\ s.aborted = r.aborted /\ s.rid = k
      /\ s.file = r.file /\ s.own = r.own
  BY <1>2, <1>4, <1>7 DEF Editing!RunStates, Editing!RunPlaces
<1>10. /\ x2' \in Editing(b)!Shown /\ x2'.pending = (x2.pending /\ x2.ref # k)
       /\ \A f \in {"stage", "gen", "file", "ref", "finalizing", "transcript", "audio", "fallback"} : x2'[f] = x2[f]
  <2>1. PICK p \in BOOLEAN : p = (x2.pending /\ x2.ref # k)
    OBVIOUS
  <2>2. x2' = [x2 EXCEPT !.pending = p]
    BY <1>8, <2>1
  <2> QED
    BY <2>1, <2>2, EditingShownKind DEF Editing!Shown
<1>11. Editing(b)!RunCounts(s)' /\ Editing(b)!Keeps(s)'
  BY <1>1, <1>2, <1>3, <1>4, <1>6, <1>9, <1>10, EditingRunKept DEF Editing!RunCounts, Editing!Keeps
<1>12. ASSUME NEW id \in Editing(b)!Ids, x1'[id].status = "held", Editing(b)!Answers(r, id) \/ (id = x2.ref /\ x2.pending)
       PROVE  Editing(b)!SeenTo(id)'
  <2>1. CASE id = k
    BY <1>6, <1>12, <2>1 DEF Editing!SeenTo
  <2>2. CASE id # k
    <3>1. id # 0
      BY EditingShownKind
    <3>2. id = x2.ref /\ x2.pending
      BY <1>3, <1>4, <1>12, <2>2, <3>1 DEF Editing!Answers
    <3> QED
      BY <1>10, <2>2, <3>2 DEF Editing!SeenTo
  <2> QED
    BY <2>1, <2>2
<1>13. s # Editing(b)!Idle /\ Editing(b)!Shown' = Editing(b)!Shown /\ Editing(b)!RunStates' = Editing(b)!RunStates
  BY <1>6, <1>9 DEF Editing!Idle, Editing!Shown, Editing!RunStates
<1>14. \A id \in Editing(b)!Ids : x1'[id].status = "held" => x1[id].status = "held"
  BY <1>6
<1>17. EditingTurn(b, i, r, s)
  BY <1>3, <1>6, <1>8, <1>9, <1>10, <1>11, <1>12, <1>13, <1>14 DEF EditingTurn
<1>18. ASSUME EditingTidy(b) PROVE EditingNeat(b, i, r, s)
  <2>1. /\ r.aborted => x2.ref # k
        /\ ~r.aborted => /\ x2.stage = "processing" /\ r.file = x2.file /\ ~x2.fallback /\ x2.ref = k /\ x1[k].bucket = "free"
                         /\ x1[k].status # "released"
        /\ x10 = {} => x2.audio \in {0, x2.file}
    BY <1>1, <1>2, <1>3, <1>4, <1>18, EditingRunOf
  <2>2. Editing(b)!RunSound(s)'
    BY <1>9, <1>10, <1>11, <2>1 DEF Editing!RunSound
  <2>3. ASSUME ~r.aborted, x10' = {} PROVE x2'.audio \in {0, x2'.file} /\ Editing(b)!ItsOwn' /\ Editing(b)!PaidIsPending'
    <3>1. x10 = {} /\ Editing(b)!ItsOwn /\ x2.audio \in {0, x2.file}
      BY <1>1, <1>3, <1>18, <2>1, <2>3 DEF EditingTidy, Editing!EdTidy, Editing!ShownIsItsOwn
    <3>2. x1'[x2'.ref].bucket = "free"
      BY <1>4, <1>6, <1>10, <2>1, <2>3
    <3> QED
      BY <1>10, <3>1, <3>2 DEF Editing!ItsOwn, Editing!PaidIsPending, Editing!Paid
  <2>4. r.aborted => x2'.pending = x2.pending
    BY <1>10, <2>1, EditingShownKind
  <2> QED
    BY <1>2, <1>3, <1>6, <1>9, <1>10, <2>1, <2>2, <2>3, <2>4 DEF EditingNeat
<1> QED
  BY <1>1, <1>3, <1>17, <1>18, EditingTurns

LEMMA EditingResult == ASSUME NEW b, Editing(b)!EdCore, NEW i \in RunSlots, Editing(b)!Result(i) PROVE EditingGoes(b)
<1>1. PICK r : r = x3[i]
  OBVIOUS
<1>2. PICK s : s = Editing(b)!Idle
  OBVIOUS
<1>3. r.pc = "timer" /\ UNCHANGED <<x1, x4, x5, x6, x7, x9, x10, x11, x12>> /\ x3' = [x3 EXCEPT ![i] = s] /\ s.pc = "idle"
  BY <1>1, <1>2 DEF Editing!Result, Editing!Quiet, Editing!Sides, Editing!End, Editing!Idle
<1>4. /\ r \in Editing(b)!RunStates /\ (Editing(b)!IsCurrent(r) <=> ~r.aborted)
      /\ Editing(b)!Ids' = Editing(b)!Ids /\ Editing(b)!Shown' = Editing(b)!Shown /\ Editing(b)!RunStates' = Editing(b)!RunStates
  BY <1>1, <1>3, EditingRunKept DEF Editing!Ids, Editing!Shown, Editing!RunStates
<1>5. /\ x2' \in Editing(b)!Shown
      /\ \A f \in {"gen", "file", "ref", "pending", "finalizing", "transcript", "audio", "fallback"} : x2'[f] = x2[f]
      /\ IF r.aborted THEN x2'.stage = x2.stage ELSE x2'.stage = "result"
  <2>1. IF r.aborted THEN x2' = x2 ELSE x2' = [x2 EXCEPT !.stage = "result"]
    BY <1>1, <1>4 DEF Editing!Result, Editing!Show
  <2> QED
    BY <2>1, EditingShownKind DEF Editing!Shown
<1>6. ASSUME NEW id \in Editing(b)!Ids, Editing(b)!Answers(r, id) \/ (id = x2.ref /\ x2.pending) PROVE Editing(b)!SeenTo(id)'
  BY <1>3, <1>5, <1>6 DEF Editing!SeenTo, Editing!Answers
<1>8. EditingTurn(b, i, r, s)
  BY <1>2, <1>3, <1>4, <1>5, <1>6, EditingShownKind DEF EditingTurn
<1>9. ASSUME EditingTidy(b) PROVE EditingNeat(b, i, r, s)
  <2>1. ASSUME ~r.aborted, x10' = {} PROVE x2'.audio \in {0, x2'.file} /\ Editing(b)!ItsOwn' /\ Editing(b)!PaidIsPending'
    <3>1. x10 = {} /\ Editing(b)!ItsOwn /\ Editing(b)!PaidIsPending /\ x2.audio \in {0, x2.file}
      BY <1>1, <1>3, <1>9, <2>1, EditingRunOf DEF EditingTidy, Editing!EdTidy, Editing!ShownIsItsOwn
    <3> QED
      BY <1>3, <1>5, <3>1 DEF Editing!ItsOwn, Editing!PaidIsPending, Editing!Paid
  <2> QED
    BY <1>1, <1>2, <1>3, <1>5, <1>9, <2>1, EditingRunOf DEF EditingNeat
<1> QED
  BY <1>1, <1>3, <1>8, <1>9, EditingTurns

LEMMA EditingReleaseOwn == ASSUME NEW b, Editing(b)!EdCore, NEW i \in RunSlots, Editing(b)!ReleaseOwn(i) PROVE EditingGoes(b)
<1>1. PICK r : r = x3[i]
  OBVIOUS
<1>2. PICK k : k = r.own
  OBVIOUS
<1>3. PICK s : s = Editing(b)!Idle
  OBVIOUS
<1>4. r.pc = "release" /\ UNCHANGED <<x4, x5, x6, x7, x10, x11, x12>> /\ x3' = [x3 EXCEPT ![i] = s] /\ s.pc = "idle"
  BY <1>1, <1>3 DEF Editing!ReleaseOwn, Editing!Quiet, Editing!Sides, Editing!End, Editing!Idle
<1>5. r \in Editing(b)!RunStates /\ k # 0 /\ k \in Editing(b)!Ids /\ r.rid = k /\ (Editing(b)!IsCurrent(r) <=> ~r.aborted)
  BY <1>1, <1>2, <1>4, EditingRunKept
<1>6. /\ x1' \in Seq(EditingRows) /\ Editing(b)!Ids' = Editing(b)!Ids
      /\ \A j \in Editing(b)!Ids : x1'[j].bucket = x1[j].bucket /\ (j # k => x1'[j].status = x1[j].status)
      /\ x1'[k].status = x1[k].status \/ (x1[k].status = "held" /\ x1'[k].status = "released")
      /\ x1'[k].status = "held" => k \in x9'
      /\ x9 \subseteq x9' /\ x9' \subseteq Editing(b)!Ids
  <2>1. CASE Editing(b)!Becomes(k, "released") /\ x9' = x9
    BY <1>5, <2>1, EditingBecomes, EditingShownKind DEF Editing!EdCore
  <2>2. CASE x9' = x9 \cup {k} /\ x1' = x1
    BY <1>5, <2>2, EditingShownKind DEF Editing!Ids
  <2> QED
    BY <1>1, <1>2, <2>1, <2>2 DEF Editing!ReleaseOwn
<1>7. /\ x2' \in Editing(b)!Shown /\ \A f \in {"gen", "file", "transcript", "audio", "fallback"} : x2'[f] = x2[f]
      /\ x2'.stage = (IF r.aborted THEN x2.stage ELSE "setup")
      /\ IF x2.ref = k THEN x2'.ref = 0 /\ ~x2'.finalizing
                       ELSE x2'.ref = x2.ref /\ x2'.pending = x2.pending /\ x2'.finalizing = x2.finalizing
  <2>1. PICK stage : stage = IF r.aborted THEN x2.stage ELSE "setup"
    OBVIOUS
  <2>2. stage \in {"start", "setup", "processing", "result", "gone"}
    BY <2>1, EditingPage DEF Editing!EdCore
  <2>3. x2' = (IF x2.ref = k THEN [[x2 EXCEPT !.stage = stage] EXCEPT !.ref = 0, !.pending = FALSE, !.finalizing = FALSE]
                             ELSE [x2 EXCEPT !.stage = stage])
    <3>1. (IF ~r.aborted THEN [x2 EXCEPT !.stage = "setup"] ELSE x2) = [x2 EXCEPT !.stage = stage]
      BY <1>5, <2>1, EditingShownKind DEF Editing!Shown
    <3> QED
      BY <1>1, <1>2, <1>5, <3>1 DEF Editing!ReleaseOwn, Editing!Show, Editing!Remember
  <2> QED
    BY <2>1, <2>2, <2>3, EditingShownKind DEF Editing!Shown
<1>8. ASSUME NEW id \in Editing(b)!Ids, x1'[id].status = "held", Editing(b)!Answers(r, id) \/ (id = x2.ref /\ x2.pending)
      PROVE  Editing(b)!SeenTo(id)'
  <2>1. CASE id = k
    BY <1>6, <1>8, <2>1 DEF Editing!SeenTo
  <2>2. CASE id # k
    <3>1. id = x2.ref /\ x2.pending
      BY <1>2, <1>4, <1>8, <2>2 DEF Editing!Answers
    <3> QED
      BY <1>7, <2>2, <3>1 DEF Editing!SeenTo
  <2> QED
    BY <2>1, <2>2
<1>9. \A id \in Editing(b)!Ids : x1'[id].status = "held" =>
        x1[id].status = "held" /\ (id = x2.ref => id \in x9' \cup {x2'.ref})
  BY <1>6, <1>7
<1>10. Editing(b)!Shown' = Editing(b)!Shown
  BY <1>6 DEF Editing!Shown
<1>11. x2'.stage = "processing" => x2.stage = "processing" /\ r.aborted
  BY <1>7
<1>12. EditingTurn(b, i, r, s)
  BY <1>3, <1>4, <1>5, <1>6, <1>7, <1>8, <1>9, <1>10, <1>11 DEF EditingTurn
<1>13. ASSUME EditingTidy(b) PROVE EditingNeat(b, i, r, s)
  <2>1. /\ r.aborted => x2.ref # k
        /\ ~r.aborted => x2.ref = k
        /\ x10 = {} => x2.audio \in {0, x2.file}
    BY <1>1, <1>2, <1>4, <1>5, <1>13, EditingRunOf
  <2> QED
    BY <1>3, <1>4, <1>5, <1>6, <1>7, <2>1 DEF EditingNeat
<1> QED
  BY <1>1, <1>4, <1>12, <1>13, EditingTurns

LEMMA EditingStartRun ==
  ASSUME NEW b, Editing(b)!EdCore, NEW i \in RunSlots, NEW kind \in {"spoken", "narration"}, NEW analyse \in BOOLEAN,
         Editing(b)!StartRun(i, kind, analyse)
  PROVE  EditingGoes(b)
<1> USE DEF Editing!EdCore
<1>1. PICK s : s = [pc |-> IF kind = "narration" \/ x2.ref = 0 THEN "reserve" ELSE IF analyse THEN "renew" ELSE "work",
                    kind |-> kind, gen |-> x2.gen + 1, file |-> x2.file, own |-> 0,
                    rid |-> IF kind = "spoken" THEN x2.ref ELSE 0, pending |-> x2.pending, aborted |-> FALSE]
  OBVIOUS
<1>2. /\ x3' = [j \in RunSlots |-> IF j # i THEN Editing(b)!Abort(x3[j]) ELSE s]
      /\ UNCHANGED <<x1, x4, x5, x6, x7, x9, x10, x11, x12>>
      /\ x2' = [x2 EXCEPT !.stage = "processing", !.gen = @ + 1] /\ x2.stage \in {"setup", "result"} /\ ~Editing(b)!Busy
      /\ x2.stage = "setup" => ~x2.fallback
      /\ x3[i].pc = "idle"
  BY <1>1 DEF Editing!StartRun, Editing!Quiet, Editing!Sides, Editing!Show
<1>3. /\ x2 \in Editing(b)!Shown /\ x2.gen \in Nat /\ x2.ref \in Editing(b)!Ids \cup {0} /\ x2.file \in Nat /\ x2.gen + 1 \in Nat
      /\ x2.pending \in BOOLEAN
      /\ \A n \in Nat : n <= x2.gen => n <= x2.gen + 1 /\ n # x2.gen + 1
  <2>1. x2 \in Editing(b)!Shown /\ x2.gen \in Nat /\ x2.ref \in Editing(b)!Ids \cup {0} /\ x2.file \in Nat /\ x2.pending \in BOOLEAN
    BY EditingPage
  <2> QED
    BY <2>1, EditingCounts
<1>4. /\ x2' \in Editing(b)!Shown
      /\ \A f \in {"file", "ref", "pending", "finalizing", "transcript", "audio", "fallback"} : x2'[f] = x2[f]
      /\ x2'.stage = "processing" /\ x2'.gen = x2.gen + 1 /\ x2'.gen <= x2.gen + 1
  BY <1>2, <1>3, EditingCounts DEF Editing!Shown
<1>5. Editing(b)!Ids' = Editing(b)!Ids /\ Editing(b)!Shown' = Editing(b)!Shown /\ Editing(b)!RunStates' = Editing(b)!RunStates
      /\ Editing(b)!Accesses' = Editing(b)!Accesses /\ Editing(b)!Exports' = Editing(b)!Exports
      /\ Editing(b)!Choices' = Editing(b)!Choices /\ Editing(b)!Idle' = Editing(b)!Idle /\ Editing(b)!Changes' = Editing(b)!Changes
  BY <1>2 DEF Editing!Ids, Editing!Shown, Editing!RunStates, Editing!Accesses, Editing!Exports, Editing!Choices, Editing!Idle,
     Editing!Changes
<1>6. /\ s \in Editing(b)!RunStates /\ s.pc \in {"reserve", "renew", "work"} /\ s.gen = x2'.gen /\ s.file = x2.file /\ s.own = 0
      /\ s.rid \in {0, x2.ref} /\ (s.pc = "reserve" <=> s.rid = 0) /\ (s.pc # "reserve" => s.rid = x2.ref) /\ ~s.aborted
  <2>1. PICK pc \in {"reserve", "renew", "work"} :
          pc = IF kind = "narration" \/ x2.ref = 0 THEN "reserve" ELSE IF analyse THEN "renew" ELSE "work"
    OBVIOUS
  <2>2. PICK rid \in {0, x2.ref} : rid = IF kind = "spoken" THEN x2.ref ELSE 0
    OBVIOUS
  <2>3. s = [pc |-> pc, kind |-> kind, gen |-> x2.gen + 1, file |-> x2.file, own |-> 0, rid |-> rid, pending |-> x2.pending,
             aborted |-> FALSE]
    BY <1>1, <2>1, <2>2
  <2>4. s \in Editing(b)!RunStates
    BY <1>3, <2>3 DEF Editing!RunStates, Editing!RunPlaces
  <2>5. (pc = "reserve" <=> rid = 0) /\ (pc # "reserve" => rid = x2.ref)
    BY <2>1, <2>2
  <2> QED
    BY <1>4, <2>3, <2>4, <2>5
<1>7. ASSUME NEW j \in RunSlots, j # i
      PROVE  /\ x3'[j] = Editing(b)!Abort(x3[j]) /\ (x3'[j].pc = "idle" <=> x3[j].pc = "idle")
             /\ x3[j].pc = "idle" => x3[j] = Editing(b)!Idle /\ x3'[j] = x3[j]
             /\ x3[j].pc # "idle" => /\ x3[j] \in Editing(b)!RunStates /\ x3'[j] \in Editing(b)!RunStates /\ x3'[j].aborted
                                     /\ \A f \in {"pc", "kind", "gen", "file", "own", "rid"} : x3'[j][f] = x3[j][f]
                                     /\ x3[j].gen \in Nat /\ x3[j].gen <= x2.gen
  <2>1. x3'[j] = Editing(b)!Abort(x3[j])
    BY <1>2, <1>7
  <2>2. x3[j].pc # "idle" => x3[j] \in Editing(b)!RunStates /\ x3[j].gen \in Nat /\ x3[j].gen <= x2.gen
    BY EditingRunKept
  <2>3. x3[j].pc = "idle" => x3[j] = Editing(b)!Idle
    BY DEF Editing!EdKinds, Editing!RunStates, Editing!RunPlaces
  <2>4. x3[j].pc = "idle" => Editing(b)!Abort(x3[j]) = x3[j]
    BY DEF Editing!Abort
  <2> QED
    BY <2>1, <2>2, <2>3, <2>4, EditingAborted
<1>8. x3'[i] = s
  BY <1>2
<1>9. Editing(b)!EdKinds'
  <2>1. \A j \in RunSlots : x3'[j] \in {Editing(b)!Idle} \cup Editing(b)!RunStates
    BY <1>6, <1>7, <1>8
  <2>2. x3' \in [RunSlots -> {Editing(b)!Idle} \cup Editing(b)!RunStates]
    BY <1>2, <2>1
  <2> QED
    BY <1>2, <1>4, <1>5, <2>2 DEF Editing!EdKinds
<1>10. Editing(b)!RunsCount'
  <2>1. ASSUME NEW j \in RunSlots, j # i, NEW q, q = x3'[j], q.pc # "idle"
        PROVE  Editing(b)!RunCounts(q)' /\ q.gen # s.gen /\ q.aborted
    <3>1. PICK r : r = x3[j]
      OBVIOUS
    <3>2. q.aborted /\ q.pc = r.pc /\ q.gen = r.gen /\ q.own = r.own /\ q.rid = r.rid /\ Editing(b)!RunCounts(r)
      BY <1>7, <2>1, <3>1, EditingRunKind
    <3>3. r.gen <= x2'.gen /\ r.gen # x2'.gen
      BY <1>3, <1>4, <1>7, <2>1, <3>1
    <3> QED
      BY <1>6, <3>2, <3>3 DEF Editing!RunCounts
  <2>2. Editing(b)!RunCounts(s)' /\ s.pc # "idle"
    <3>1. s.gen <= x2'.gen
      BY <1>4, <1>6
    <3> QED
      BY <1>4, <1>6, <3>1 DEF Editing!RunCounts
  <2>3. ASSUME NEW j \in RunSlots, NEW k \in RunSlots, j # k, x3'[j].pc # "idle", x3'[k].pc # "idle" PROVE x3'[j].gen # x3'[k].gen
    <3>1. CASE j = i \/ k = i
      BY <1>8, <2>1, <2>3, <3>1
    <3>2. CASE j # i /\ k # i
      BY <1>7, <2>3, <3>2 DEF Editing!RunsCount
    <3> QED
      BY <3>1, <3>2
  <2>4. ASSUME NEW j \in RunSlots, NEW q, q = x3'[j], q.pc # "idle" PROVE Editing(b)!RunCounts(q)'
    BY <1>8, <2>1, <2>2, <2>4
  <2>5. \E j \in RunSlots : x3'[j].pc # "idle" /\ ~x3'[j].aborted
    BY <1>6, <1>8, <2>2
  <2> QED
    BY <2>3, <2>4, <2>5 DEF Editing!RunsCount
<1>11. Editing(b)!RunsKeep'
  <2>1. ASSUME NEW j \in RunSlots, NEW q, q = x3'[j] PROVE Editing(b)!Keeps(q)'
    BY <1>6, <1>7, <1>8, <2>1 DEF Editing!Keeps
  <2> QED
    BY <2>1 DEF Editing!RunsKeep, Editing!Keeps
<1>12. Editing(b)!Confirmed'
  BY <1>2, <1>4 DEF Editing!Confirmed, Editing!Confirms
<1>13. Editing(b)!Accounted'
  <2>1. ASSUME NEW j \in RunSlots, NEW id, Editing(b)!Answers(x3[j], id) PROVE Editing(b)!Answers(x3'[j], id)
    BY <1>2, <1>7, <2>1 DEF Editing!Answers
  <2>2. ASSUME NEW id, Editing(b)!SeenTo(id) PROVE Editing(b)!SeenTo(id)'
    BY <1>2, <1>4, <2>2 DEF Editing!SeenTo
  <2>3. ASSUME NEW id \in Editing(b)!Ids, x1[id].status = "held"
        PROVE  Editing(b)!SeenTo(id)' \/ (\E j \in RunSlots : Editing(b)!Answers(x3'[j], id)) \/ (x5.pc = "answered" /\ x5.rid = id)
    BY <2>1, <2>2, <2>3 DEF Editing!Accounted
  <2> QED
    BY <1>2, <1>5, <2>3 DEF Editing!Accounted, Editing!Answers
<1>14. Editing(b)!EdCore'
  BY <1>9, <1>10, <1>11, <1>12, <1>13
<1>20. ASSUME EditingTidy(b), Editing(b)!Orderly' PROVE Editing(b)!EdTidy'
  <2> USE <1>20 DEF EditingTidy, Editing!EdTidy
  <2>1. ~x2.fallback /\ ~Editing(b)!Leaves /\ ~Editing(b)!Leaves'
    <3>1. ~x2.fallback /\ ~Editing(b)!Leaves
      BY <1>2 DEF Editing!ChoiceSound
    <3> QED
      BY <1>2, <1>4, <1>5, <3>1 DEF Editing!Leaves
  <2>2. ASSUME NEW id, Editing(b)!Untold(id) PROVE Editing(b)!Untold(id)' /\ id # x2.ref /\ id # 0
    <3>1. id \in Editing(b)!Ids /\ id # x2.ref /\ id # 0
      BY <2>2, EditingIds DEF Editing!Untold
    <3> QED
      BY <1>2, <1>4, <1>5, <2>2, <3>1 DEF Editing!Untold
  <2>3. Editing(b)!RunsSound'
    <3>1. ASSUME NEW j \in RunSlots, j # i, NEW q, q = x3'[j], q.pc # "idle"
          PROVE  Editing(b)!RunSound(q)' /\ (q.pc = "reserved" => Editing(b)!Untold(q.rid)')
      <4>1. PICK r : r = x3[j]
        OBVIOUS
      <4>2. q.aborted /\ q.pc = r.pc /\ q.rid = r.rid /\ r.pc # "idle" /\ Editing(b)!RunCounts(q)'
        BY <1>7, <1>10, <3>1, <4>1 DEF Editing!RunsCount
      <4>3. (r.pc = "reserved" => Editing(b)!Untold(r.rid)) /\ (r.rid = 0 \/ r.rid # x2.ref)
        <5>1. (r.pc = "reserved" => Editing(b)!Untold(r.rid)) /\ (r.aborted => r.rid = 0 \/ r.rid # x2.ref)
              /\ (~r.aborted => x2.stage = "processing") /\ r.aborted \in BOOLEAN
          BY <4>1, <4>2, EditingRunOf, EditingRunKept
        <5> QED
          BY <1>2, <5>1
      <4> QED
        BY <1>4, <2>2, <4>2, <4>3 DEF Editing!RunSound
    <3>2. Editing(b)!RunSound(s)' /\ s.pc # "reserved"
      BY <1>4, <1>6, <1>8, <1>10 DEF Editing!RunSound, Editing!RunsCount
    <3>3. ASSUME NEW j \in RunSlots, NEW k \in RunSlots, j # k, x3'[j].pc # "idle", x3'[k].pc # "idle"
          PROVE  x3'[j].gen # x3'[k].gen /\ (x3'[j].pc = "reserved" => x3'[j].rid # x3'[k].rid)
      <4>1. x3'[j].gen # x3'[k].gen
        BY <1>10, <3>3 DEF Editing!RunsCount
      <4>2. ASSUME x3'[j].pc = "reserved" PROVE x3'[j].rid # x3'[k].rid
        <5>1. j # i /\ x3[j].pc = "reserved" /\ x3'[j].rid = x3[j].rid
          BY <1>7, <1>8, <3>2, <3>3, <4>2
        <5>2. CASE k = i
          <6>1. x3[j].rid # x2.ref /\ x3[j].rid # 0
            BY <2>2, <5>1, EditingRun
          <6> QED
            BY <1>6, <1>8, <5>1, <5>2, <6>1
        <5>3. CASE k # i
          BY <1>7, <3>3, <5>1, <5>3 DEF Editing!RunsSound, Editing!RunsApart
        <5> QED
          BY <5>2, <5>3
      <4> QED
        BY <4>1, <4>2
    <3>4. ASSUME NEW j \in RunSlots, NEW q, q = x3'[j], q.pc # "idle"
          PROVE  Editing(b)!RunSound(q)' /\ (q.pc = "reserved" => Editing(b)!Untold(q.rid)')
      BY <1>8, <3>1, <3>2, <3>4
    <3>5. \E j \in RunSlots : x3'[j].pc # "idle" /\ ~x3'[j].aborted
      BY <1>6, <1>8
    <3> QED
      BY <3>3, <3>4, <3>5 DEF Editing!RunsSound, Editing!RunsApart
  <2>4. Editing(b)!AccessSound'
    <3>1. x5.pc # "idle" => x5.gen \in Nat
      BY DEF Editing!EdKinds, Editing!Accesses, Editing!Idle
    <3>2. x5.pc # "idle" => x5.gen <= x2'.gen /\ x5.gen # x2'.gen
      BY <1>3, <1>4, <3>1 DEF Editing!AccessSound
    <3>3. PICK k : k = x5.rid
      OBVIOUS
    <3>4. x5.pc = "answered" => Editing(b)!Untold(k)' /\ k # s.rid
      BY <1>6, <2>2, <3>3 DEF Editing!AccessSound
    <3>5. x5.pc = "answered" => Editing(b)!Untold(k)' /\ x5.rid # s.rid
      BY <3>3, <3>4
    <3>6. ASSUME x5.pc = "answered", NEW j \in RunSlots, x3'[j].pc # "idle" PROVE x3'[j].rid # x5.rid
      BY <1>7, <1>8, <3>5, <3>6 DEF Editing!AccessSound
    <3>7. x5'.pc = "answered" => Editing(b)!Untold(x5.rid)'
      BY <1>2, <3>5, <3>3
    <3> QED
      BY <1>2, <3>2, <3>6, <3>7 DEF Editing!AccessSound
  <2>5. Editing(b)!ChangeSound'
    <3>1. x4.pc # "idle" => x4.gen \in Nat
      BY DEF Editing!EdKinds, Editing!Changes, Editing!Idle
    <3>2. x4.pc # "idle" => x4.gen <= x2'.gen /\ x4.gen # x2'.gen
      BY <1>3, <1>4, <3>1 DEF Editing!ChangeSound
    <3> QED
      BY <1>2, <3>2 DEF Editing!ChangeSound
  <2>6. Editing(b)!ExportSound'
    <3> SUFFICES ASSUME x6.pc # "idle" PROVE Editing(b)!ExportSound'
      BY <1>2 DEF Editing!ExportSound
    <3>1. x6.gen \in Nat /\ x6.gen <= x2.gen /\ x6.gen # x2.gen /\ x2.ref # x6.ref
      BY <1>2, EditingExport DEF Editing!Busy
    <3>2. x6.gen <= x2'.gen /\ x6.gen # x2'.gen
      BY <1>3, <1>4, <3>1
    <3> QED
      BY <1>2, <1>4, <3>1, <3>2 DEF Editing!ExportSound, Editing!Confirms
  <2>7. Editing(b)!RefSound'
    BY <1>2, <1>4, <2>1 DEF Editing!RefSound, Editing!Confirms
  <2>8. Editing(b)!ChoiceSound'
    <3>1. x12["result"] # Editing(b)!Idle => x12["result"].gen \in Nat
      BY EditingChoiceKinds
    <3>2. x12["result"] # Editing(b)!Idle => x12["result"].gen <= x2'.gen /\ x12["result"].gen # x2'.gen
      BY <1>3, <1>4, <3>1 DEF Editing!ChoiceSound
    <3> QED
      BY <1>2, <1>4, <1>5, <2>1, <3>2 DEF Editing!ChoiceSound
  <2>9. (x10 = {} => Editing(b)!ShownIsItsOwn)'
    <3>1. \A j \in RunSlots : x3'[j].pc \in {"settle", "timer"} => x3'[j].aborted
      BY <1>6, <1>7, <1>8
    <3> QED
      BY <1>2, <1>4, <3>1 DEF Editing!ShownIsItsOwn
  <2> QED
    BY <2>3, <2>4, <2>5, <2>6, <2>7, <2>8, <2>9
<1> QED
  BY <1>2, <1>14, <1>20 DEF EditingGoes

LEMMA EditingBegins == ASSUME NEW b, Editing(b)!Init PROVE Editing(b)!EditingIInv
<1> USE DEF Editing!Init
<1>1. Editing(b)!Ids = {} /\ x1 \in Seq(EditingRows)
  BY EmptySeq DEF Editing!Ids
<1>2. Editing(b)!EdKinds
  <2>1. x2 \in Editing(b)!Shown
    BY DEF Editing!Shown
  <2>2. x1 \in Seq([bucket : {"free", "paid"}, status : {"held", "completed", "released"}])
    BY <1>1 DEF EditingRows
  <2> QED
    BY <2>1, <2>2 DEF Editing!EdKinds
<1>3. Editing(b)!EdCore
  BY <1>1, <1>2 DEF Editing!EdCore, Editing!RunsCount, Editing!RunsKeep, Editing!Keeps, Editing!Confirmed, Editing!Confirms,
     Editing!Accounted, Editing!Idle
<1>4. Editing(b)!RunsSound /\ Editing(b)!AccessSound /\ Editing(b)!ChangeSound /\ Editing(b)!ExportSound
  BY DEF Editing!RunsSound, Editing!RunsApart, Editing!AccessSound, Editing!ChangeSound, Editing!ExportSound, Editing!Idle
<1>5. Editing(b)!RefSound /\ Editing(b)!ChoiceSound
  BY <1>1 DEF Editing!RefSound, Editing!ChoiceSound, Editing!Leaves
<1>6. Editing(b)!ShownIsItsOwn
  BY DEF Editing!ShownIsItsOwn, Editing!Idle
<1> QED
  BY <1>3, <1>4, <1>5, <1>6 DEF Editing!EditingIInv, Editing!EdTidy

LEMMA EditingGoesOn == ASSUME NEW b, Editing(b)!EditingIInv, Editing(b)!Next PROVE Editing(b)!EditingIInv'
<1> USE DEF Editing!EditingIInv
<1>0. SUFFICES EditingGoes(b)
  BY <1>0 DEF EditingGoes, EditingTidy, Editing!Orderly
<1>1. ASSUME NEW i \in RunSlots, Editing(b)!RunStep(i) PROVE EditingGoes(b)
  BY <1>1, EditingRenew, EditingReserve, EditingReserveAnswers, EditingWork, EditingFinish, EditingSettle, EditingResult,
     EditingReleaseOwn DEF Editing!RunStep
<1>2. ASSUME NEW i \in RunSlots, NEW k \in {"spoken", "narration"}, NEW a \in BOOLEAN, Editing(b)!StartRun(i, k, a)
      PROVE  EditingGoes(b)
  BY <1>2, EditingStartRun
<1>3. ASSUME NEW id \in x7, Editing(b)!ReleaseArrives(id) PROVE EditingGoes(b)
  BY <1>3, EditingReleaseArrives
<1>4. ASSUME NEW k \in {"voice", "correction", "cut"}, Editing(b)!StartChange(k) PROVE EditingGoes(b)
  BY <1>4, EditingStartChange
<1>5. CASE Editing(b)!ChooseFile \/ Editing(b)!Reset \/ Editing(b)!Leave \/ Editing(b)!CheckoutStarted \/ Editing(b)!EndChange
  BY <1>5, EditingChooseFile, EditingReset, EditingLeave, EditingCheckoutStarted, EditingEndChange
<1>6. CASE Editing(b)!SilentNarration \/ Editing(b)!SilentNarrationAnswered \/ Editing(b)!SilentResult
           \/ Editing(b)!SilentResultAnswered
  BY <1>6, EditingSilentNarration, EditingSilentNarrationAnswered, EditingSilentResult, EditingSilentResultAnswered
<1>7. CASE Editing(b)!StartAccess \/ Editing(b)!AccessReserves \/ Editing(b)!AccessAnswers
  BY <1>7, EditingStartAccess, EditingAccessReserves, EditingAccessAnswers
<1>8. CASE Editing(b)!StartExport \/ Editing(b)!ExportRenews \/ Editing(b)!Encode \/ Editing(b)!Complete \/ Editing(b)!Completed
           \/ Editing(b)!Deliver \/ Editing(b)!CancelExport
  BY <1>8, EditingStartExport, EditingExportRenews, EditingEncode, EditingComplete, EditingCompleted, EditingDeliver,
     EditingCancelExport
<1> QED
  BY <1>1, <1>2, <1>3, <1>4, <1>5, <1>6, <1>7, <1>8 DEF Editing!Next

LEMMA EditingStands ==
  ASSUME NEW b, Editing(b)!EditingIInv
  PROVE  /\ Editing(b)!TypeOK /\ Editing(b)!NothingElseForgotten /\ Editing(b)!ProcessingHasItsRun
         /\ Editing(b)!ResultIsOfItsVideo /\ Editing(b)!NotReleasedWhileConfirmed
<1> USE DEF Editing!EditingIInv, Editing!EdCore
<1>1. /\ Len(x1) \in Nat /\ DOMAIN x1 = Editing(b)!Ids /\ Editing(b)!Ids \cup {0} = 0 .. Len(x1)
      /\ x2.stage \in {"start", "setup", "processing", "result", "gone"} /\ x2.ref \in Editing(b)!Ids \cup {0}
      /\ x9 \subseteq Editing(b)!Ids
  BY EditingIds, EditingPage DEF Editing!Ids, Editing!EdKinds
<1>2. ASSUME NEW i \in RunSlots, x3[i].pc # "idle" PROVE x3[i].gen <= x2.gen /\ x3[i].rid \in Editing(b)!Ids \cup {0}
  BY <1>2, EditingRunKept
<1>3. Editing(b)!TypeOK
  BY <1>1, <1>2 DEF Editing!TypeOK
<1>4. Editing(b)!NothingElseForgotten
  <2>1. ASSUME NEW id \in Editing(b)!Ids, NEW i \in RunSlots, Editing(b)!Answers(x3[i], id)
        PROVE  x3[i].pc # "idle" /\ id \in {x3[i].own, x3[i].rid}
    BY <2>1 DEF Editing!Answers
  <2> QED
    BY <1>1, <2>1 DEF Editing!NothingElseForgotten, Editing!Accounted, Editing!SeenTo, Editing!Held
<1>5. Editing(b)!ProcessingHasItsRun
  <2>1. ASSUME NEW i \in RunSlots, x3[i].pc # "idle", ~x3[i].aborted PROVE Editing(b)!IsCurrent(x3[i])
    BY <2>1, EditingRunKept
  <2> QED
    BY <2>1 DEF Editing!ProcessingHasItsRun, Editing!RunsCount
<1>6. Editing(b)!ResultIsOfItsVideo
  BY DEF Editing!ResultIsOfItsVideo, Editing!Orderly, Editing!EdTidy, Editing!ShownIsItsOwn, Editing!ItsOwn
<1>7. Editing(b)!NotReleasedWhileConfirmed
  <2>1. Editing(b)!Orderly => EditingTidy(b)
    BY DEF EditingTidy
  <2> QED
    BY <2>1, EditingExport DEF Editing!NotReleasedWhileConfirmed, Editing!Confirms, Editing!Orderly
<1> QED
  BY <1>3, <1>4, <1>5, <1>6, <1>7

LEMMA EditingStutters ==
  ASSUME NEW b, Editing(b)!EditingIInv, UNCHANGED <<x1, x2, x3, x4, x5, x6, x7, x8, x9, x10, x11, x12>>
  PROVE  Editing(b)!EditingIInv'
<1> USE DEF Editing!EditingIInv, Editing!EdCore, Editing!EdTidy
<1>1. Editing(b)!Ids' = Editing(b)!Ids /\ Editing(b)!Idle' = Editing(b)!Idle /\ (Editing(b)!Orderly' <=> Editing(b)!Orderly)
  BY DEF Editing!Ids, Editing!Idle, Editing!Orderly
<1>2. \A id : Editing(b)!Untold(id) => Editing(b)!Untold(id)'
  BY <1>1 DEF Editing!Untold
<1>3. Editing(b)!EdKinds'
  BY <1>1 DEF Editing!EdKinds, Editing!RunStates, Editing!Accesses, Editing!Exports, Editing!Shown, Editing!Changes, Editing!Choices
<1>4. Editing(b)!RunsCount' /\ Editing(b)!RunsKeep' /\ Editing(b)!Confirmed'
  BY DEF Editing!RunsCount, Editing!RunCounts, Editing!RunsKeep, Editing!Keeps, Editing!Confirmed, Editing!Confirms
<1>5. Editing(b)!Accounted'
  BY <1>1 DEF Editing!Accounted, Editing!SeenTo, Editing!Answers
<1>6. ASSUME Editing(b)!Orderly PROVE Editing(b)!EdTidy'
  <2> USE <1>6
  <2>1. Editing(b)!RunsSound'
    <3>1. \A i \in RunSlots : \A id : x3[i].pc = "reserved" /\ x3[i].rid = id => Editing(b)!Untold(id)'
      BY <1>2, EditingRun DEF EditingTidy
    <3>2. \A id \in Editing(b)!Ids : x1'[id].bucket = x1[id].bucket
      OBVIOUS
    <3> QED
      BY <3>1, <3>2, EditingRunsStay DEF EditingTidy
  <2>2. Editing(b)!AccessSound'
    BY <1>2 DEF Editing!AccessSound
  <2>3. Editing(b)!ChangeSound' /\ Editing(b)!RefSound' /\ Editing(b)!ChoiceSound'
    BY <1>1 DEF Editing!ChangeSound, Editing!RefSound, Editing!Confirms, Editing!ChoiceSound, Editing!Leaves
  <2>4. Editing(b)!ExportSound'
    BY DEF Editing!ExportSound, Editing!Confirms
  <2>5. (x10 = {} => Editing(b)!ShownIsItsOwn)'
    BY DEF Editing!ShownIsItsOwn, Editing!ItsOwn, Editing!PaidIsPending, Editing!Paid
  <2> QED
    BY <2>1, <2>2, <2>3, <2>4, <2>5
<1> QED
  BY <1>1, <1>3, <1>4, <1>5, <1>6


-------------------------------------------------------------------------------
(* The page of the photo reel (ReelPage).                                   *)

USE DEF ReelPage!NoPending, ReelPage!Off, ReelPage!Keys, ReelPage!Asking, ReelPage!Reserving, ReelPage!Sides,
        ReelPage!Photos, ReelPage!Ghosts

LEMMA ReelCardinality == \A s : ReelPage!Cardinality(s) = Cardinality(s)
  BY DEF ReelPage!Cardinality, Cardinality

LEMMA ReelFinite ==
  ASSUME NEW s \in SUBSET (1 .. MaxFiles)
  PROVE  IsFiniteSet(s) /\ Cardinality(s) \in Nat
<1>1. MaxFiles \in Nat
  BY ReservationsAssumption
<1>2. IsFiniteSet(1 .. MaxFiles)
  BY <1>1, FS_Interval
<1> QED
  BY <1>2, FS_Subset, FS_CardinalityType

LEMMA ReelKeyNumbers == \A j \in ReelPage!Keys : j \in Nat /\ j # 0
  BY ReservationsAssumption

\* What is shown goes when the photos, the music or the settings change.
LEMMA ReelClears ==
  ASSUME ReelPage!ReelIInv, x10' = 0, x17' = x17 \ {x10}, UNCHANGED <<x9, x11, x12, x19>>
  PROVE  ReelPage!VideoKinds'
<1>1. ReelPage!VideoKinds
  BY DEF ReelPage!ReelIInv
<1>2. x19 \in Nat /\ x17 \subseteq 1 .. x19 /\ x9.video <= x19 /\ x11.video <= x19
  BY <1>1 DEF ReelPage!VideoKinds
<1>3. x10' \in Nat /\ x10' <= x19'
  BY <1>2
<1>4. x17' \subseteq 1 .. x19'
  BY <1>2
<1> QED
  BY <1>1, <1>2, <1>3, <1>4 DEF ReelPage!VideoKinds

\* A step that is about the key the page keeps or makes, of which the page
\* still knows what became of it.
LEMMA ReelKeyStep ==
  ASSUME ReelPage!ReelIInv, NEW k \in ReelPage!Keys, x7 \in {0, k}, x7' \in {0, k},
         x1' \in [ReelPage!Keys -> {"none", "held", "done", "freed"}], \A j \in ReelPage!Keys \ {k} : x1'[j] = x1[j],
         \A j \in ReelPage!Keys : j > x8' => j > x8 /\ j # k, x22 \subseteq x22', x21 \subseteq x21',
         x1'[k] = "done" => k \in x22',
         x1'[k] = "held" => k \in x21' \/ (x7' = k /\ (x16' \/ x9'.pc \in ReelPage!Reserving \/ x20' > 0)),
         x7' = k => x1'[k] \in {"none", "held"} \/ x20' > 0,
         x7' = k => x1'[k] # "done" \/ x11' # ReelPage!NoPending,
         x10' # 0 => (x1'[k] = "done" \/ (x10 # 0 /\ x1' = x1))
  PROVE  ReelPage!KeysAreKnown'
<1>1. ReelPage!KeysAreKnown /\ ReelPage!KeyKinds
  BY DEF ReelPage!ReelIInv
<1>2. k # 0
  BY ReelKeyNumbers
<1>3. ASSUME NEW j \in ReelPage!Keys, j # k
      PROVE  /\ j > x8' => x1'[j] = "none"
             /\ x1'[j] = "done" => j \in x22'
             /\ x1'[j] = "held" => j \in x21'
  <2>1. x1'[j] = x1[j] /\ j # x7
    BY <1>3, ReelKeyNumbers
  <2> QED
    BY <1>1, <2>1 DEF ReelPage!KeysAreKnown
<1>4. x10' # 0 => \E j \in x22' : x1'[j] = "done"
  BY <1>1 DEF ReelPage!KeysAreKnown
<1>5. \A j \in ReelPage!Keys :
          /\ j > x8' => x1'[j] = "none"
          /\ x1'[j] = "done" => j \in x22'
          /\ x1'[j] = "held" /\ j \notin x21' => j = x7' /\ (~x16' /\ x9'.pc \notin ReelPage!Reserving => x20' > 0)
  BY <1>2, <1>3
<1>6. /\ x7' # 0 => x1'[x7'] \in {"none", "held"} \/ x20' > 0
      /\ x7' # 0 /\ x1'[x7'] = "done" => x11' # ReelPage!NoPending
  BY <1>2
<1> QED
  BY <1>4, <1>5, <1>6 DEF ReelPage!KeysAreKnown

LEMMA ReelAddPhotos == ReelPage!ReelIInv /\ ReelPage!AddPhotos => ReelPage!ReelIInv'
<1> SUFFICES ASSUME ReelPage!ReelIInv, ReelPage!AddPhotos PROVE ReelPage!ReelIInv'
  OBVIOUS
<1> USE DEF ReelPage!ReelIInv, ReelPage!AddPhotos, ReelPage!Clear, ReelPage!Locked
<1>1. ReelPage!KeyKinds'
  BY DEF ReelPage!KeyKinds, ReelPage!VideoKinds, ReelPage!OneReel
<1>6. ReelPage!VideoKinds'
  BY ReelClears
<1>7. ReelPage!FileKinds'
  BY DEF ReelPage!FileKinds, ReelPage!PhotosAreLive
<1>2. ReelPage!PhotosAreLive'
  BY DEF ReelPage!PhotosAreLive, ReelPage!KeyKinds, ReelPage!FileKinds, ReelPage!Chosen
<1>3. ReelPage!MusicIsItsOwn'
  BY DEF ReelPage!MusicIsItsOwn, ReelPage!KeyKinds, ReelPage!FileKinds
<1>4. ReelPage!OneReel'
  BY DEF ReelPage!OneReel, ReelPage!KeyKinds, ReelPage!VideoKinds, ReelPage!KeysAreKnown
<1>5. ReelPage!KeysAreKnown'
  BY DEF ReelPage!KeysAreKnown, ReelPage!KeyKinds, ReelPage!VideoKinds, ReelPage!OneReel
<1> QED
  BY <1>1, <1>2, <1>3, <1>4, <1>5, <1>6, <1>7

LEMMA ReelPrepareOne == ReelPage!ReelIInv /\ ReelPage!PrepareOne => ReelPage!ReelIInv'
<1> SUFFICES ASSUME ReelPage!ReelIInv, ReelPage!PrepareOne PROVE ReelPage!ReelIInv'
  OBVIOUS
<1> USE DEF ReelPage!ReelIInv, ReelPage!PrepareOne, ReelPage!Fails
<1>1. ReelPage!KeyKinds'
  BY DEF ReelPage!KeyKinds, ReelPage!VideoKinds, ReelPage!OneReel
<1>6. ReelPage!VideoKinds'
  BY DEF ReelPage!KeyKinds, ReelPage!VideoKinds, ReelPage!OneReel
<1>7. ReelPage!FileKinds'
  BY DEF ReelPage!FileKinds, ReelPage!PhotosAreLive
<1>2. ReelPage!PhotosAreLive'
  <2>1. CASE UNCHANGED <<x5, x18>>
    BY <2>1 DEF ReelPage!PhotosAreLive, ReelPage!Chosen
  <2>2. CASE ~UNCHANGED <<x5, x18>>
    <3>1. PICK photo \in (1 .. MaxFiles) \ x18 : x16 /\ x18' = x18 \union {photo} /\ x5' = [x5 EXCEPT !.ready = @ \union {photo}]
      BY <2>2
    <3>2. PICK s \in SUBSET (1 .. MaxFiles) : s = ReelPage!Chosen
      BY DEF ReelPage!FileKinds, ReelPage!Chosen
    <3>3. x18 = s /\ Cardinality(s) <= MaxPhotos /\ Cardinality(s) < MaxPhotos
      BY <3>1, <3>2, ReelCardinality DEF ReelPage!PhotosAreLive
    <3>4. IsFiniteSet(s) /\ Cardinality(s) \in Nat /\ MaxPhotos \in Nat
      BY ReelFinite, ReservationsAssumption
    <3>5. Cardinality(s \cup {photo}) = Cardinality(s) + 1
      BY <3>1, <3>3, <3>4, FS_AddElement
    <3>6. ReelPage!Chosen' = s \cup {photo} /\ x5'.pc = x5.pc
      BY <3>1, <3>2 DEF ReelPage!FileKinds, ReelPage!Chosen
    <3>7. x5.pc = "decoding" /\ x16' = x16 /\ Cardinality(ReelPage!Chosen') <= MaxPhotos
      BY <3>3, <3>4, <3>5, <3>6
    <3> QED
      BY <3>1, <3>3, <3>6, <3>7, ReelCardinality DEF ReelPage!PhotosAreLive
  <2> QED
    BY <2>1, <2>2
<1>3. ReelPage!MusicIsItsOwn'
  BY DEF ReelPage!MusicIsItsOwn, ReelPage!KeyKinds, ReelPage!FileKinds
<1>4. ReelPage!OneReel'
  BY DEF ReelPage!OneReel, ReelPage!KeyKinds, ReelPage!VideoKinds, ReelPage!KeysAreKnown
<1>5. ReelPage!KeysAreKnown'
  BY DEF ReelPage!KeysAreKnown, ReelPage!KeyKinds, ReelPage!VideoKinds, ReelPage!OneReel
<1> QED
  BY <1>1, <1>2, <1>3, <1>4, <1>5, <1>6, <1>7

LEMMA ReelPhotosReady == ReelPage!ReelIInv /\ ReelPage!PhotosReady => ReelPage!ReelIInv'
<1> SUFFICES ASSUME ReelPage!ReelIInv, ReelPage!PhotosReady PROVE ReelPage!ReelIInv'
  OBVIOUS
<1> USE DEF ReelPage!ReelIInv, ReelPage!PhotosReady
<1>1. ReelPage!KeyKinds'
  BY DEF ReelPage!KeyKinds, ReelPage!VideoKinds, ReelPage!OneReel
<1>6. ReelPage!VideoKinds'
  BY DEF ReelPage!KeyKinds, ReelPage!VideoKinds, ReelPage!OneReel
<1>7. ReelPage!FileKinds'
  <2>1. x4' \subseteq 1 .. MaxFiles
    BY DEF ReelPage!FileKinds, ReelPage!Chosen
  <2>2. x5' \in [pc : {"no", "decoding"}, ready : SUBSET (1 .. MaxFiles)]
    OBVIOUS
  <2> QED
    BY <2>1, <2>2 DEF ReelPage!FileKinds
<1>2. ReelPage!PhotosAreLive'
  <2>1. PICK s \in SUBSET (1 .. MaxFiles) : s = ReelPage!Chosen
    BY DEF ReelPage!FileKinds, ReelPage!Chosen
  <2>2. PICK t \in SUBSET (1 .. MaxFiles) : t = ReelPage!Chosen' /\ t \subseteq s /\ (x16 => t = s)
    BY <2>1 DEF ReelPage!FileKinds, ReelPage!Chosen
  <2>3. Cardinality(t) <= Cardinality(s) /\ Cardinality(t) \in Nat /\ Cardinality(s) \in Nat /\ MaxPhotos \in Nat
    BY <2>2, ReelFinite, FS_Subset, ReservationsAssumption
  <2>4. Cardinality(t) <= MaxPhotos
    BY <2>1, <2>3, ReelCardinality DEF ReelPage!PhotosAreLive
  <2> QED
    <3>1. x5'.pc = "no" /\ x5'.ready = {} /\ x16' = x16 /\ x16 \in BOOLEAN
      BY DEF ReelPage!KeyKinds
    <3>2. IF x16 THEN x18' = t ELSE x18' \subseteq x5'.ready
      BY <2>1, <2>2, <3>1 DEF ReelPage!PhotosAreLive
    <3> QED
      BY <2>2, <2>4, <3>1, <3>2, ReelCardinality DEF ReelPage!PhotosAreLive
<1>3. ReelPage!MusicIsItsOwn'
  BY DEF ReelPage!MusicIsItsOwn, ReelPage!KeyKinds, ReelPage!FileKinds
<1>4. ReelPage!OneReel'
  BY DEF ReelPage!OneReel, ReelPage!KeyKinds, ReelPage!VideoKinds, ReelPage!KeysAreKnown
<1>5. ReelPage!KeysAreKnown'
  BY DEF ReelPage!KeysAreKnown, ReelPage!KeyKinds, ReelPage!VideoKinds, ReelPage!OneReel
<1> QED
  BY <1>1, <1>2, <1>3, <1>4, <1>5, <1>6, <1>7

LEMMA ReelRemovePhoto == ReelPage!ReelIInv /\ ReelPage!RemovePhoto => ReelPage!ReelIInv'
<1> SUFFICES ASSUME ReelPage!ReelIInv, ReelPage!RemovePhoto PROVE ReelPage!ReelIInv'
  OBVIOUS
<1> USE DEF ReelPage!ReelIInv, ReelPage!RemovePhoto, ReelPage!Clear, ReelPage!Locked
<1>1. ReelPage!KeyKinds'
  BY DEF ReelPage!KeyKinds, ReelPage!VideoKinds, ReelPage!OneReel
<1>6. ReelPage!VideoKinds'
  BY ReelClears
<1>7. ReelPage!FileKinds'
  BY DEF ReelPage!FileKinds, ReelPage!PhotosAreLive
<1>2. ReelPage!PhotosAreLive'
  <2>1. PICK photo \in x4 : x4' = x4 \ {photo} /\ x18' = x18 \ {photo}
    OBVIOUS
  <2>2. x5.pc = "no" /\ x5.ready = {}
    BY DEF ReelPage!PhotosAreLive, ReelPage!FileKinds
  <2>3. PICK s \in SUBSET (1 .. MaxFiles) : s = x4
    BY DEF ReelPage!FileKinds
  <2>4. PICK t \in SUBSET (1 .. MaxFiles) : t = s \ {photo}
    BY <2>3
  <2>5. Cardinality(t) <= Cardinality(s) /\ Cardinality(t) \in Nat /\ Cardinality(s) \in Nat /\ MaxPhotos \in Nat
    BY <2>4, ReelFinite, FS_Subset, ReservationsAssumption
  <2>6. ReelPage!Chosen = s /\ ReelPage!Chosen' = t
    BY <2>1, <2>2, <2>3, <2>4 DEF ReelPage!Chosen
  <2>7. Cardinality(t) <= MaxPhotos
    BY <2>5, <2>6, ReelCardinality DEF ReelPage!PhotosAreLive
  <2>8. x16 /\ x16' /\ x18 = s
    BY <2>6 DEF ReelPage!PhotosAreLive
  <2> QED
    BY <2>1, <2>2, <2>4, <2>6, <2>7, <2>8, ReelCardinality DEF ReelPage!PhotosAreLive
<1>3. ReelPage!MusicIsItsOwn'
  BY DEF ReelPage!MusicIsItsOwn, ReelPage!KeyKinds, ReelPage!FileKinds
<1>4. ReelPage!OneReel'
  BY DEF ReelPage!OneReel, ReelPage!KeyKinds, ReelPage!VideoKinds, ReelPage!KeysAreKnown
<1>5. ReelPage!KeysAreKnown'
  BY DEF ReelPage!KeysAreKnown, ReelPage!KeyKinds, ReelPage!VideoKinds, ReelPage!OneReel
<1> QED
  BY <1>1, <1>2, <1>3, <1>4, <1>5, <1>6, <1>7

LEMMA ReelUpdateDuration == ReelPage!ReelIInv /\ ReelPage!UpdateDuration => ReelPage!ReelIInv'
<1> SUFFICES ASSUME ReelPage!ReelIInv, ReelPage!UpdateDuration PROVE ReelPage!ReelIInv'
  OBVIOUS
<1> USE DEF ReelPage!ReelIInv, ReelPage!UpdateDuration, ReelPage!Clear
<1>1. ReelPage!KeyKinds'
  <2>1. x6' \in {15, 30}
    BY DEF ReelPage!KeyKinds
  <2> QED
    BY <2>1 DEF ReelPage!KeyKinds
<1>6. ReelPage!VideoKinds'
  BY ReelClears
<1>7. ReelPage!FileKinds'
  BY DEF ReelPage!FileKinds, ReelPage!PhotosAreLive
<1>2. ReelPage!PhotosAreLive'
  BY DEF ReelPage!PhotosAreLive, ReelPage!KeyKinds, ReelPage!FileKinds, ReelPage!Chosen
<1>3. ReelPage!MusicIsItsOwn'
  BY DEF ReelPage!MusicIsItsOwn, ReelPage!KeyKinds, ReelPage!FileKinds
<1>4. ReelPage!OneReel'
  BY DEF ReelPage!OneReel, ReelPage!KeyKinds, ReelPage!VideoKinds, ReelPage!KeysAreKnown
<1>5. ReelPage!KeysAreKnown'
  BY DEF ReelPage!KeysAreKnown, ReelPage!KeyKinds, ReelPage!VideoKinds, ReelPage!OneReel
<1> QED
  BY <1>1, <1>2, <1>3, <1>4, <1>5, <1>6, <1>7

LEMMA ReelChooseAudio == ReelPage!ReelIInv /\ ReelPage!ChooseAudio => ReelPage!ReelIInv'
<1> SUFFICES ASSUME ReelPage!ReelIInv, ReelPage!ChooseAudio PROVE ReelPage!ReelIInv'
  OBVIOUS
<1> USE DEF ReelPage!ReelIInv, ReelPage!ChooseAudio, ReelPage!Locked, ReelPage!Others
<1>1. ReelPage!KeyKinds'
  BY DEF ReelPage!KeyKinds, ReelPage!VideoKinds, ReelPage!OneReel
<1>6. ReelPage!VideoKinds'
  BY DEF ReelPage!KeyKinds, ReelPage!VideoKinds, ReelPage!OneReel
<1>7. ReelPage!FileKinds'
  <2>1. x14.next \in Nat /\ x14.next + 1 \in Nat
    BY DEF ReelPage!FileKinds
  <2> QED
    BY <2>1 DEF ReelPage!FileKinds
<1>2. ReelPage!PhotosAreLive'
  BY DEF ReelPage!PhotosAreLive, ReelPage!KeyKinds, ReelPage!FileKinds, ReelPage!Chosen
<1>3. ReelPage!MusicIsItsOwn'
  BY DEF ReelPage!MusicIsItsOwn, ReelPage!KeyKinds, ReelPage!FileKinds
<1>4. ReelPage!OneReel'
  BY DEF ReelPage!OneReel, ReelPage!KeyKinds, ReelPage!VideoKinds, ReelPage!KeysAreKnown
<1>5. ReelPage!KeysAreKnown'
  BY DEF ReelPage!KeysAreKnown, ReelPage!KeyKinds, ReelPage!VideoKinds, ReelPage!OneReel
<1> QED
  BY <1>1, <1>2, <1>3, <1>4, <1>5, <1>6, <1>7

LEMMA ReelAudioInspected == ReelPage!ReelIInv /\ ReelPage!AudioInspected => ReelPage!ReelIInv'
<1> SUFFICES ASSUME ReelPage!ReelIInv, ReelPage!AudioInspected PROVE ReelPage!ReelIInv'
  OBVIOUS
<1> USE DEF ReelPage!ReelIInv, ReelPage!AudioInspected, ReelPage!Clear, ReelPage!RevokeNextPreview, ReelPage!Others
<1>1. ReelPage!KeyKinds'
  BY DEF ReelPage!KeyKinds, ReelPage!VideoKinds, ReelPage!OneReel
<1>6. ReelPage!VideoKinds'
  <2>1. CASE ReelPage!Clear
    BY <2>1, ReelClears
  <2>2. CASE UNCHANGED <<x10, x17>>
    BY <2>2 DEF ReelPage!VideoKinds
  <2> QED
    BY <2>1, <2>2
<1>7. ReelPage!FileKinds'
  <2>1. x14.trying \in Nat /\ x14 \in [file : Nat, beats : Nat, trying : Nat, next : Nat]
    BY DEF ReelPage!FileKinds
  <2>2. x14' \in [file : Nat, beats : Nat, trying : Nat, next : Nat]
    <3>1. CASE x14' = [x14 EXCEPT !.file = x14.trying, !.beats = x14.trying, !.trying = 0]
      BY <2>1, <3>1
    <3>2. CASE x14' = [x14 EXCEPT !.trying = 0]
      BY <2>1, <3>2
    <3> QED
      BY <3>1, <3>2
  <2> QED
    BY <2>2 DEF ReelPage!FileKinds
<1>2. ReelPage!PhotosAreLive'
  BY DEF ReelPage!PhotosAreLive, ReelPage!KeyKinds, ReelPage!FileKinds, ReelPage!Chosen
<1>3. ReelPage!MusicIsItsOwn'
  <2>1. x14 \in [file : Nat, beats : Nat, trying : Nat, next : Nat] /\ x16' = x16 /\ x16 \in BOOLEAN
    BY DEF ReelPage!FileKinds, ReelPage!KeyKinds
  <2>2. CASE x16 /\ x14' = [x14 EXCEPT !.file = x14.trying, !.beats = x14.trying, !.trying = 0] /\ x15' = x15 \ {x14.file}
    <3>1. x14'.file = x14.trying /\ x14'.beats = x14.trying /\ x14'.trying = 0 /\ x14'.next = x14.next
      BY <2>1, <2>2
    <3> QED
      BY <2>1, <2>2, <3>1 DEF ReelPage!MusicIsItsOwn
  <2>3. CASE x14' = [x14 EXCEPT !.trying = 0] /\ x15' = x15 \ {x14.trying}
    <3>1. x14'.file = x14.file /\ x14'.beats = x14.beats /\ x14'.trying = 0 /\ x14'.next = x14.next
      BY <2>1, <2>3
    <3> QED
      BY <2>1, <2>3, <3>1 DEF ReelPage!MusicIsItsOwn
  <2> QED
    BY <2>2, <2>3
<1>4. ReelPage!OneReel'
  BY DEF ReelPage!OneReel, ReelPage!KeyKinds, ReelPage!VideoKinds, ReelPage!KeysAreKnown
<1>5. ReelPage!KeysAreKnown'
  BY DEF ReelPage!KeysAreKnown, ReelPage!KeyKinds, ReelPage!VideoKinds, ReelPage!OneReel
<1> QED
  BY <1>1, <1>2, <1>3, <1>4, <1>5, <1>6, <1>7

LEMMA ReelCheckPurchase == ReelPage!ReelIInv /\ ReelPage!CheckPurchase => ReelPage!ReelIInv'
<1> SUFFICES ASSUME ReelPage!ReelIInv, ReelPage!CheckPurchase PROVE ReelPage!ReelIInv'
  OBVIOUS
<1> USE DEF ReelPage!ReelIInv, ReelPage!CheckPurchase, ReelPage!Others
<1>1. ReelPage!KeyKinds'
  BY DEF ReelPage!KeyKinds, ReelPage!VideoKinds, ReelPage!OneReel
<1>6. ReelPage!VideoKinds'
  BY DEF ReelPage!KeyKinds, ReelPage!VideoKinds, ReelPage!OneReel
<1>7. ReelPage!FileKinds'
  BY DEF ReelPage!FileKinds, ReelPage!PhotosAreLive
<1>2. ReelPage!PhotosAreLive'
  BY DEF ReelPage!PhotosAreLive, ReelPage!KeyKinds, ReelPage!FileKinds, ReelPage!Chosen
<1>3. ReelPage!MusicIsItsOwn'
  BY DEF ReelPage!MusicIsItsOwn, ReelPage!KeyKinds, ReelPage!FileKinds
<1>4. ReelPage!OneReel'
  BY DEF ReelPage!OneReel, ReelPage!KeyKinds, ReelPage!VideoKinds, ReelPage!KeysAreKnown
<1>5. ReelPage!KeysAreKnown'
  BY DEF ReelPage!KeysAreKnown, ReelPage!KeyKinds, ReelPage!VideoKinds, ReelPage!OneReel
<1> QED
  BY <1>1, <1>2, <1>3, <1>4, <1>5, <1>6, <1>7

LEMMA ReelPurchaseChecked == ReelPage!ReelIInv /\ ReelPage!PurchaseChecked => ReelPage!ReelIInv'
<1> SUFFICES ASSUME ReelPage!ReelIInv, ReelPage!PurchaseChecked PROVE ReelPage!ReelIInv'
  OBVIOUS
<1> USE DEF ReelPage!ReelIInv, ReelPage!PurchaseChecked, ReelPage!Others
<1>1. ReelPage!KeyKinds'
  BY DEF ReelPage!KeyKinds, ReelPage!VideoKinds, ReelPage!OneReel
<1>6. ReelPage!VideoKinds'
  BY DEF ReelPage!KeyKinds, ReelPage!VideoKinds, ReelPage!OneReel
<1>7. ReelPage!FileKinds'
  BY DEF ReelPage!FileKinds, ReelPage!PhotosAreLive
<1>2. ReelPage!PhotosAreLive'
  BY DEF ReelPage!PhotosAreLive, ReelPage!KeyKinds, ReelPage!FileKinds, ReelPage!Chosen
<1>3. ReelPage!MusicIsItsOwn'
  BY DEF ReelPage!MusicIsItsOwn, ReelPage!KeyKinds, ReelPage!FileKinds
<1>4. ReelPage!OneReel'
  BY DEF ReelPage!OneReel, ReelPage!KeyKinds, ReelPage!VideoKinds, ReelPage!KeysAreKnown
<1>5. ReelPage!KeysAreKnown'
  BY DEF ReelPage!KeysAreKnown, ReelPage!KeyKinds, ReelPage!VideoKinds, ReelPage!OneReel
<1> QED
  BY <1>1, <1>2, <1>3, <1>4, <1>5, <1>6, <1>7

LEMMA ReelStartReel == ReelPage!ReelIInv /\ ReelPage!StartReel => ReelPage!ReelIInv'
<1> SUFFICES ASSUME ReelPage!ReelIInv, ReelPage!StartReel PROVE ReelPage!ReelIInv'
  OBVIOUS
<1> USE DEF ReelPage!ReelIInv, ReelPage!StartReel, ReelPage!Clear, ReelPage!Locked
<1>1. ReelPage!KeyKinds'
  BY DEF ReelPage!KeyKinds, ReelPage!VideoKinds, ReelPage!OneReel
<1>6. ReelPage!VideoKinds'
  <2>1. ReelPage!VideoKinds /\ x19 \in Nat
    BY DEF ReelPage!VideoKinds
  <2>2. x17' \subseteq 1 .. x19
    <3>1. x17 \subseteq 1 .. x19
      BY DEF ReelPage!VideoKinds
    <3> QED
      BY <3>1
  <2>3. x9' \in [pc : {"idle"} \cup ReelPage!Asking \cup ReelPage!Reserving, key : ReelPage!Keys \cup {0}, video : Nat]
    OBVIOUS
  <2>4. x10' \in Nat /\ x10' <= x19 /\ x9'.video <= x19
    BY <2>1
  <2> QED
    BY <2>1, <2>2, <2>3, <2>4 DEF ReelPage!VideoKinds
<1>7. ReelPage!FileKinds'
  BY DEF ReelPage!FileKinds, ReelPage!PhotosAreLive
<1>2. ReelPage!PhotosAreLive'
  BY DEF ReelPage!PhotosAreLive, ReelPage!KeyKinds, ReelPage!FileKinds, ReelPage!Chosen
<1>3. ReelPage!MusicIsItsOwn'
  BY DEF ReelPage!MusicIsItsOwn, ReelPage!KeyKinds, ReelPage!FileKinds
<1>4. ReelPage!OneReel'
  BY DEF ReelPage!OneReel, ReelPage!KeyKinds, ReelPage!VideoKinds, ReelPage!KeysAreKnown
<1>5. ReelPage!KeysAreKnown'
  BY DEF ReelPage!KeysAreKnown, ReelPage!KeyKinds, ReelPage!VideoKinds, ReelPage!OneReel
<1> QED
  BY <1>1, <1>2, <1>3, <1>4, <1>5, <1>6, <1>7

LEMMA ReelAskToFinalize == ReelPage!ReelIInv /\ ReelPage!AskToFinalize => ReelPage!ReelIInv'
<1> SUFFICES ASSUME ReelPage!ReelIInv, ReelPage!AskToFinalize PROVE ReelPage!ReelIInv'
  OBVIOUS
<1> USE DEF ReelPage!ReelIInv, ReelPage!AskToFinalize, ReelPage!AskAgain
<1>1. ReelPage!KeyKinds'
  BY DEF ReelPage!KeyKinds, ReelPage!VideoKinds, ReelPage!OneReel
<1>6. ReelPage!VideoKinds'
  BY DEF ReelPage!KeyKinds, ReelPage!VideoKinds, ReelPage!OneReel
<1>7. ReelPage!FileKinds'
  BY DEF ReelPage!FileKinds, ReelPage!PhotosAreLive
<1>2. ReelPage!PhotosAreLive'
  BY DEF ReelPage!PhotosAreLive, ReelPage!KeyKinds, ReelPage!FileKinds, ReelPage!Chosen
<1>3. ReelPage!MusicIsItsOwn'
  BY DEF ReelPage!MusicIsItsOwn, ReelPage!KeyKinds, ReelPage!FileKinds
<1>4. ReelPage!OneReel'
  BY DEF ReelPage!OneReel, ReelPage!KeyKinds, ReelPage!VideoKinds, ReelPage!KeysAreKnown
<1>5. ReelPage!KeysAreKnown'
  BY DEF ReelPage!KeysAreKnown, ReelPage!KeyKinds, ReelPage!VideoKinds, ReelPage!OneReel
<1> QED
  BY <1>1, <1>2, <1>3, <1>4, <1>5, <1>6, <1>7

LEMMA ReelAskToDiscard == ReelPage!ReelIInv /\ ReelPage!AskToDiscard => ReelPage!ReelIInv'
<1> SUFFICES ASSUME ReelPage!ReelIInv, ReelPage!AskToDiscard PROVE ReelPage!ReelIInv'
  OBVIOUS
<1> USE DEF ReelPage!ReelIInv, ReelPage!AskToDiscard, ReelPage!AskAgain
<1>1. ReelPage!KeyKinds'
  BY DEF ReelPage!KeyKinds, ReelPage!VideoKinds, ReelPage!OneReel
<1>6. ReelPage!VideoKinds'
  BY DEF ReelPage!KeyKinds, ReelPage!VideoKinds, ReelPage!OneReel
<1>7. ReelPage!FileKinds'
  BY DEF ReelPage!FileKinds, ReelPage!PhotosAreLive
<1>2. ReelPage!PhotosAreLive'
  BY DEF ReelPage!PhotosAreLive, ReelPage!KeyKinds, ReelPage!FileKinds, ReelPage!Chosen
<1>3. ReelPage!MusicIsItsOwn'
  BY DEF ReelPage!MusicIsItsOwn, ReelPage!KeyKinds, ReelPage!FileKinds
<1>4. ReelPage!OneReel'
  BY DEF ReelPage!OneReel, ReelPage!KeyKinds, ReelPage!VideoKinds, ReelPage!KeysAreKnown
<1>5. ReelPage!KeysAreKnown'
  BY DEF ReelPage!KeysAreKnown, ReelPage!KeyKinds, ReelPage!VideoKinds, ReelPage!OneReel
<1> QED
  BY <1>1, <1>2, <1>3, <1>4, <1>5, <1>6, <1>7

LEMMA ReelCounts == \A n \in Nat : n + 1 \in Nat /\ n + 1 > 0 /\ n <= n + 1 /\ n + 1 <= n + 1 /\ 0 <= n
  OBVIOUS

LEMMA ReelOrder == \A m, n \in Nat : m <= n => ~(m > n)
  OBVIOUS

LEMMA ReelOff ==
  ASSUME ReelPage!VideoKinds
  PROVE  0 <= x19 /\ ReelPage!Off \in [pc : {"idle"} \cup ReelPage!Asking \cup ReelPage!Reserving, key : ReelPage!Keys \cup {0}, video : Nat]
<1>1. x19 \in Nat
  BY DEF ReelPage!VideoKinds
<1>2. 0 <= x19
  BY <1>1
<1>3. ReelPage!Off \in [pc : {"idle"} \cup ReelPage!Asking \cup ReelPage!Reserving, key : ReelPage!Keys \cup {0}, video : Nat]
  OBVIOUS
<1> QED
  BY <1>2, <1>3

LEMMA ReelAskForKey == ReelPage!ReelIInv /\ ReelPage!AskForKey => ReelPage!ReelIInv'
<1> SUFFICES ASSUME ReelPage!ReelIInv, ReelPage!AskForKey PROVE ReelPage!ReelIInv'
  OBVIOUS
<1> USE DEF ReelPage!ReelIInv, ReelPage!AskForKey, ReelPage!Done, ReelPage!Stays
<1>1. ReelPage!FileKinds' /\ ReelPage!PhotosAreLive' /\ ReelPage!MusicIsItsOwn'
  BY DEF ReelPage!FileKinds, ReelPage!PhotosAreLive, ReelPage!Chosen, ReelPage!MusicIsItsOwn
<1>2. CASE x9' = ReelPage!Off /\ UNCHANGED <<x7, x8>>
  <2>1. ReelPage!KeyKinds'
    BY <1>2 DEF ReelPage!KeyKinds
  <2>2. ReelPage!VideoKinds'
    BY <1>2, ReelOff DEF ReelPage!VideoKinds
  <2>3. ReelPage!OneReel'
    BY <1>2 DEF ReelPage!OneReel
  <2>4. ReelPage!KeysAreKnown'
    BY <1>2 DEF ReelPage!KeysAreKnown
  <2> QED
    BY <1>1, <2>1, <2>2, <2>3, <2>4
<1>3. CASE x9' = [x9 EXCEPT !.pc = "reserving"] /\ x7' = (IF x7 = 0 THEN x8 + 1 ELSE x7) /\ x8' = (IF x7 = 0 THEN x8 + 1 ELSE x8)
           /\ (x7 = 0 => x8 < MaxKeys)
  <2>1. x8 \in Nat /\ x8 <= MaxKeys /\ x7 \in ReelPage!Keys \cup {0} /\ x7 <= x8 /\ MaxKeys \in Nat /\ x20 \in Nat
    BY ReservationsAssumption DEF ReelPage!KeyKinds
  <2>2. x7' \in ReelPage!Keys /\ x7' # 0 /\ x8' \in Nat /\ x8' <= MaxKeys /\ x7' <= x8'
    BY <1>3, <2>1
  <2>3. PICK k \in ReelPage!Keys : k = x7'
    BY <2>2
  <2>4. \A j \in ReelPage!Keys : j > x8' => j > x8 /\ j # k
    BY <1>3, <2>1, <2>2, <2>3
  <2>5. IF x7 = 0 THEN x1[k] = "none" ELSE k = x7
    <3>1. x7 = 0 => k > x8
      BY <1>3, <2>1, <2>3
    <3> QED
      BY <1>3, <2>3, <3>1 DEF ReelPage!KeysAreKnown
  <2>6. ReelPage!KeyKinds'
    BY <2>2 DEF ReelPage!KeyKinds
  <2>7. ReelPage!VideoKinds'
    BY <1>3 DEF ReelPage!VideoKinds
  <2>8. x9'.pc = "reserving" /\ x9'.key = 0 /\ x9'.video = 0 /\ x11 = ReelPage!NoPending /\ x12 = "no" /\ x10 = 0 /\ x9.video = 0
    BY <1>3 DEF ReelPage!VideoKinds, ReelPage!OneReel
  <2>9. ReelPage!OneReel'
    BY <1>3, <2>2, <2>8 DEF ReelPage!OneReel
  <2>10. x1 \in [ReelPage!Keys -> {"none", "held", "done", "freed"}]
    BY DEF ReelPage!KeyKinds
  <2>11. x1[k] = "held" => k \in x21 \/ x16 \/ x20 > 0
    BY <2>5 DEF ReelPage!KeysAreKnown
  <2>12. (x1[k] \in {"none", "held"} \/ x20 > 0) /\ x1[k] # "done"
    BY <2>2, <2>3, <2>5, <2>8 DEF ReelPage!KeysAreKnown
  <2>13. x7 \in {0, k} /\ (x1[k] = "done" => k \in x22)
    BY <2>5 DEF ReelPage!KeysAreKnown
  <2>14. ReelPage!KeysAreKnown'
    BY <2>3, <2>4, <2>8, <2>10, <2>11, <2>12, <2>13, ReelKeyStep
  <2> QED
    BY <1>1, <2>6, <2>7, <2>9, <2>14
<1> QED
  BY <1>2, <1>3

\* A release asked for at the end of an export: confirmed, found completed, or
\* not answered.
LEMMA ReelLetsGo ==
  ASSUME ReelPage!ReelIInv, x9.pc \in {"cannot save", "failed"}, x9' = ReelPage!Off,
         ReelPage!Released(x9.key, ReelPage!DropKey, UNCHANGED x7), UNCHANGED <<x2, x3, x21>>, ReelPage!Unchanged
  PROVE  ReelPage!ReelIInv'
<1> USE DEF ReelPage!ReelIInv, ReelPage!Released, ReelPage!DropKey, ReelPage!Lose, ReelPage!Unchanged
<1>1. /\ x7 \in ReelPage!Keys /\ x9.key = x7 /\ x1[x7] # "none" /\ x11 = ReelPage!NoPending /\ x12 = "no" /\ x10 = 0
      /\ x9.video = 0 /\ x9 \in [pc : {"idle"} \cup ReelPage!Asking \cup ReelPage!Reserving, key : ReelPage!Keys \cup {0}, video : Nat]
  BY DEF ReelPage!KeyKinds, ReelPage!VideoKinds, ReelPage!OneReel
<1>2. PICK k \in ReelPage!Keys : k = x7
  BY <1>1
<1>3. x1 \in [ReelPage!Keys -> {"none", "held", "done", "freed"}] /\ x20 \in Nat /\ x8 \in Nat /\ x7 <= x8
  BY DEF ReelPage!KeyKinds
<1>4. \/ x1' = [x1 EXCEPT ![k] = "freed"] /\ x7' = 0 /\ x20' = x20
      \/ x1[k] = "done" /\ x1' = x1 /\ x7' = k /\ x20' = x20
      \/ x20' = x20 + 1 /\ x1' \in {x1, [x1 EXCEPT ![k] = IF @ = "held" THEN "freed" ELSE @]} /\ x7' = k
  BY <1>1, <1>2
<1>5. /\ x1' \in [ReelPage!Keys -> {"none", "held", "done", "freed"}]
      /\ \A j \in ReelPage!Keys \ {k} : x1'[j] = x1[j]
      /\ x1'[k] = "done" => x1[k] = "done"
      /\ x7' \in {0, k}
  BY <1>3, <1>4
<1>6. x20' \in Nat /\ (x7' = k => x20' > 0 \/ (x1[k] = "done" /\ x20' = x20))
  <2>1. x20' = x20 \/ x20' = x20 + 1
    BY <1>4
  <2>2. x20' \in Nat /\ (x20' = x20 + 1 => x20' > 0)
    BY <1>3, <2>1, ReelCounts
  <2>3. x7' = k => x20' = x20 + 1 \/ (x1[k] = "done" /\ x20' = x20)
    BY <1>4, ReelKeyNumbers
  <2> QED
    BY <2>2, <2>3
<1>7. (x20 > 0 \/ x1[k] # "done") /\ x1[k] # "done"
  BY <1>1, <1>2, ReelKeyNumbers DEF ReelPage!KeysAreKnown
<1>8. (x7' = k => x20' > 0) /\ (x1'[k] = "held" => x7' = k)
  BY <1>3, <1>4, <1>6, <1>7
<1>9. x1[k] = "done" => k \in x22
  BY DEF ReelPage!KeysAreKnown
<1>10. k <= x8 /\ 0 <= x8 /\ \A j \in ReelPage!Keys : j > x8 => j # k
  <2>1. k <= x8 /\ k \in Nat /\ x8 \in Nat
    BY <1>2, <1>3, ReelKeyNumbers
  <2>2. \A j \in ReelPage!Keys : j > x8 => j # k
    BY <2>1, ReelOrder
  <2>3. 0 <= x8
    BY <2>1, ReelCounts
  <2> QED
    BY <2>1, <2>2, <2>3
<1>11. ReelPage!KeysAreKnown'
  BY <1>1, <1>2, <1>5, <1>7, <1>8, <1>9, <1>10, ReelKeyStep
<1>12. ReelPage!KeyKinds'
  <2>1. x7' \in ReelPage!Keys \cup {0} /\ x7' <= x8
    BY <1>5, <1>10
  <2>2. x20' \in Nat /\ UNCHANGED <<x2, x3, x6, x8, x16, x21, x22>>
    BY <1>6
  <2> QED
    BY <1>5, <2>1, <2>2 DEF ReelPage!KeyKinds
<1>13. ReelPage!VideoKinds'
  BY ReelOff DEF ReelPage!VideoKinds
<1>14. ReelPage!OneReel'
  BY <1>1 DEF ReelPage!OneReel
<1>15. ReelPage!FileKinds' /\ ReelPage!PhotosAreLive' /\ ReelPage!MusicIsItsOwn'
  BY DEF ReelPage!FileKinds, ReelPage!PhotosAreLive, ReelPage!Chosen, ReelPage!MusicIsItsOwn
<1> QED
  BY <1>11, <1>12, <1>13, <1>14, <1>15

LEMMA ReelEndTrial == ReelPage!ReelIInv /\ ReelPage!EndTrial => ReelPage!ReelIInv'
  BY ReelLetsGo DEF ReelPage!EndTrial, ReelPage!Done

LEMMA ReelReleaseFailed == ReelPage!ReelIInv /\ ReelPage!ReleaseFailed => ReelPage!ReelIInv'
  BY ReelLetsGo DEF ReelPage!ReleaseFailed, ReelPage!Done

LEMMA ReelMakeReel == ReelPage!ReelIInv /\ ReelPage!MakeReel => ReelPage!ReelIInv'
<1> SUFFICES ASSUME ReelPage!ReelIInv, ReelPage!MakeReel PROVE ReelPage!ReelIInv'
  OBVIOUS
<1> USE DEF ReelPage!ReelIInv, ReelPage!MakeReel, ReelPage!Stays
<1>1. x9 \in [pc : {"idle"} \cup ReelPage!Asking \cup ReelPage!Reserving, key : ReelPage!Keys \cup {0}, video : Nat] /\ x9.video = 0
  BY DEF ReelPage!VideoKinds, ReelPage!OneReel
<1>2. x19 \in Nat /\ x17 \subseteq 1 .. x19 /\ x10 \in Nat /\ x10 <= x19 /\ x11.video \in Nat /\ x11.video <= x19
  BY DEF ReelPage!VideoKinds
<1>3. ReelPage!VideoKinds'
  <2>1. CASE x19' = x19 + 1 /\ x17' = x17 \union {x19 + 1} /\ x9' = [x9 EXCEPT !.pc = "completing", !.video = x19 + 1]
    <3>1. x19' \in Nat /\ x10 <= x19' /\ x9'.video <= x19'
      <4>1. x9'.video = x19 + 1
        BY <1>1, <2>1
      <4>2. PICK n \in Nat : n = x10
        BY <1>2
      <4>3. n <= x19 + 1
        BY <1>2, <4>2
      <4> QED
        BY <1>2, <2>1, <4>1, <4>2, <4>3, ReelCounts
    <3>5. PICK n \in Nat : n = x11.video
      BY <1>2
    <3>6. n <= x19'
      BY <1>2, <2>1, <3>5
    <3>7. x19 + 1 \in Nat
      BY <1>2
    <3>2. x17' \subseteq 1 .. x19'
      BY <1>2, <2>1
    <3>3. x9' \in [pc : {"idle"} \cup ReelPage!Asking \cup ReelPage!Reserving, key : ReelPage!Keys \cup {0}, video : Nat]
      BY <1>1, <2>1, <3>7
    <3>4. x9'.video <= x19'
      BY <3>1
    <3> QED
      BY <3>1, <3>2, <3>3, <3>4, <3>5, <3>6 DEF ReelPage!VideoKinds
  <2>2. CASE x9' = [x9 EXCEPT !.pc = "failed"] /\ UNCHANGED <<x19, x17>>
    BY <1>1, <2>2 DEF ReelPage!VideoKinds
  <2> QED
    BY <2>1, <2>2
<1>4. x9'.pc \in {"completing", "failed"} /\ x9'.key = x9.key /\ (x9'.pc = "failed" => x9'.video = 0)
  BY <1>1
<1>5. ReelPage!KeyKinds'
  BY DEF ReelPage!KeyKinds
<1>6. ReelPage!OneReel'
  <2>1. x16 => x17 \subseteq {x10, x11.video, 0}
    BY <1>1 DEF ReelPage!OneReel
  <2>2. 0 \notin x17
    BY <1>2
  <2>3. x16 => x17' \subseteq {x10, x11.video, x9'.video}
    <3>1. CASE x17' = x17 \union {x9'.video}
      BY <2>1, <2>2, <3>1
    <3>2. CASE x17' = x17
      BY <2>1, <2>2, <3>2
    <3>3. x19' = x19 + 1 /\ x9' = [x9 EXCEPT !.pc = "completing", !.video = x19 + 1] => x9'.video = x19 + 1
      BY <1>1
    <3> QED
      BY <3>1, <3>2, <3>3
  <2> QED
    BY <1>1, <1>4, <2>3 DEF ReelPage!OneReel
<1>7. ReelPage!KeysAreKnown'
  BY <1>4 DEF ReelPage!KeysAreKnown
<1>8. ReelPage!FileKinds' /\ ReelPage!PhotosAreLive' /\ ReelPage!MusicIsItsOwn'
  BY DEF ReelPage!FileKinds, ReelPage!PhotosAreLive, ReelPage!Chosen, ReelPage!MusicIsItsOwn
<1> QED
  BY <1>3, <1>5, <1>6, <1>7, <1>8

LEMMA ReelReserve == ReelPage!ReelIInv /\ ReelPage!Reserve => ReelPage!ReelIInv'
<1> SUFFICES ASSUME ReelPage!ReelIInv, ReelPage!Reserve PROVE ReelPage!ReelIInv'
  OBVIOUS
<1> USE DEF ReelPage!ReelIInv, ReelPage!Reserve, ReelPage!Lose, ReelPage!Done, ReelPage!Unchanged
<1>1. x9.pc = "reserving" /\ x7 \in ReelPage!Keys /\ x9.video = 0 /\ x11 = ReelPage!NoPending /\ x12 = "no" /\ x10 = 0
  BY DEF ReelPage!KeyKinds, ReelPage!VideoKinds, ReelPage!OneReel
<1>2. PICK k \in ReelPage!Keys : k = x7
  BY <1>1
<1>3. /\ x1 \in [ReelPage!Keys -> {"none", "held", "done", "freed"}] /\ x3 \in [ReelPage!Keys -> Nat] /\ x6 \in Nat /\ x2 \subseteq ReelPage!Keys
      /\ x21 \subseteq ReelPage!Keys
  BY DEF ReelPage!KeyKinds
<1>4. x9 \in [pc : {"idle"} \cup ReelPage!Asking \cup ReelPage!Reserving, key : ReelPage!Keys \cup {0}, video : Nat]
  BY DEF ReelPage!VideoKinds
<1>5. x20 \in Nat /\ x20 + 1 \in Nat /\ x20 + 1 > 0
  BY ReelCounts DEF ReelPage!KeyKinds
<1>6. k <= x8 /\ 0 <= x8 /\ \A j \in ReelPage!Keys : j > x8 => j # k
  <2>1. k <= x8 /\ k \in Nat /\ x8 \in Nat
    BY <1>2, ReelKeyNumbers DEF ReelPage!KeyKinds
  <2> QED
    BY <2>1, ReelOrder, ReelCounts
<1>7. /\ x1[k] = "done" => k \in x22
      /\ x1[k] \in {"none", "held"} \/ x20 > 0
      /\ x1[k] # "done"
      /\ x1[k] = "held" /\ k \notin x21 => x16 \/ x20 > 0
  BY <1>1, <1>2, ReelKeyNumbers DEF ReelPage!KeysAreKnown
<1>8. /\ x1' \in [ReelPage!Keys -> {"none", "held", "done", "freed"}] /\ \A j \in ReelPage!Keys \ {k} : x1'[j] = x1[j]
      /\ x3' \in [ReelPage!Keys -> Nat] /\ x2' \subseteq ReelPage!Keys /\ x20' \in Nat
      /\ x21 \subseteq x21' /\ x21' \subseteq ReelPage!Keys /\ x7' \in {0, k}
      /\ x9' = ReelPage!Off \/ (x9' = [x9 EXCEPT !.pc = x9'.pc, !.key = k] /\ x9'.pc \in {"exporting", "cannot save"} /\ x7' = k /\ x1'[k] # "none")
      /\ x1'[k] # "done"
      /\ x1'[k] = "held" => k \in x21' \/ (x7' = k /\ (x16' \/ x9'.pc \in ReelPage!Reserving \/ x20' > 0))
      /\ x7' = k => x1'[k] \in {"none", "held"} \/ x20' > 0
  <2> DEFINE answered == x9' = [x9 EXCEPT !.pc = IF k \in x2' THEN "exporting" ELSE "cannot save", !.key = k]
  <2>1. ASSUME answered PROVE x9' = [x9 EXCEPT !.pc = x9'.pc, !.key = k] /\ x9'.pc \in {"exporting", "cannot save"}
    BY <1>4, <2>1
  <2>2. CASE x1[k] = "none" /\ x1' = [x1 EXCEPT ![k] = "held"] /\ x3' = [x3 EXCEPT ![k] = x6] /\ x2' \in {x2, x2 \union {k}}
             /\ answered /\ UNCHANGED <<x7, x20, x21>>
    BY <1>2, <1>3, <1>5, <2>1, <2>2
  <2>3. CASE x1[k] # "none" /\ answered /\ UNCHANGED <<x1, x2, x3, x7, x20, x21>>
    BY <1>2, <1>3, <1>5, <1>7, <2>1, <2>3
  <2>4. CASE x7' = 0 /\ x9' = ReelPage!Off /\ x21' = (IF x1[k] = "held" THEN x21 \union {k} ELSE x21) /\ UNCHANGED <<x1, x2, x3, x20>>
    BY <1>3, <1>5, <1>7, <2>4, ReelKeyNumbers
  <2>5. CASE x20' = x20 + 1 /\ x9' = ReelPage!Off /\ UNCHANGED <<x7, x21>>
             /\ (UNCHANGED <<x1, x2, x3>> \/ (x1[k] = "none" /\ x1' = [x1 EXCEPT ![k] = "held"] /\ x3' = [x3 EXCEPT ![k] = x6] /\ x2' = x2 \union {k}))
    BY <1>2, <1>3, <1>5, <1>7, <2>5
  <2> QED
    BY <1>2, <2>2, <2>3, <2>4, <2>5
<1>9. ReelPage!KeysAreKnown'
  BY <1>1, <1>2, <1>6, <1>8, ReelKeyStep
<1>10. ReelPage!KeyKinds'
  <2>1. x7' \in ReelPage!Keys \cup {0} /\ x7' <= x8 /\ UNCHANGED <<x6, x8, x16, x22>>
    BY <1>6, <1>8
  <2> QED
    BY <1>8, <2>1 DEF ReelPage!KeyKinds
<1>11. x9' \in [pc : {"idle"} \cup ReelPage!Asking \cup ReelPage!Reserving, key : ReelPage!Keys \cup {0}, video : Nat] /\ x9'.video = 0
  <2>1. CASE x9' = ReelPage!Off
    <3>1. ReelPage!Off.video = 0
      OBVIOUS
    <3> QED
      BY <2>1, <3>1, ReelOff
  <2>2. ASSUME NEW p \in {"exporting", "cannot save"}, x9' = [x9 EXCEPT !.pc = p, !.key = k]
        PROVE  x9' \in [pc : {"idle"} \cup ReelPage!Asking \cup ReelPage!Reserving, key : ReelPage!Keys \cup {0}, video : Nat] /\ x9'.video = 0
    BY <1>1, <1>4, <2>2
  <2> QED
    BY <1>8, <2>1, <2>2
<1>12. ReelPage!VideoKinds'
  BY <1>11, ReelOff DEF ReelPage!VideoKinds
<1>13. ReelPage!OneReel'
  <2>1. CASE x9' = ReelPage!Off
    BY <1>1, <2>1 DEF ReelPage!OneReel
  <2>2. CASE x9' # ReelPage!Off
    <3>1. x9'.pc \in {"exporting", "cannot save"} /\ x9'.key = x7' /\ x7' # 0 /\ x1'[x7'] # "none"
      BY <1>4, <1>8, <2>2, ReelKeyNumbers
    <3> QED
      BY <1>1, <1>11, <3>1 DEF ReelPage!OneReel
  <2> QED
    BY <2>1, <2>2
<1>14. ReelPage!FileKinds' /\ ReelPage!PhotosAreLive' /\ ReelPage!MusicIsItsOwn'
  BY DEF ReelPage!FileKinds, ReelPage!PhotosAreLive, ReelPage!Chosen, ReelPage!MusicIsItsOwn
<1> QED
  BY <1>9, <1>10, <1>12, <1>13, <1>14

LEMMA ReelCompleteReel == ReelPage!ReelIInv /\ ReelPage!CompleteReel => ReelPage!ReelIInv'
<1> SUFFICES ASSUME ReelPage!ReelIInv, ReelPage!CompleteReel PROVE ReelPage!ReelIInv'
  OBVIOUS
<1> USE DEF ReelPage!ReelIInv, ReelPage!CompleteReel, ReelPage!Completed, ReelPage!Lose, ReelPage!Finalized, ReelPage!KeptAside, ReelPage!Done
<1>1. /\ x7 \in ReelPage!Keys /\ x9.key = x7 /\ x11 = ReelPage!NoPending /\ x12 = "no" /\ x10 = 0
      /\ x9.video \in Nat /\ x9.video <= x19 /\ x9' = ReelPage!Off
  BY DEF ReelPage!KeyKinds, ReelPage!VideoKinds, ReelPage!OneReel
<1>2. PICK k \in ReelPage!Keys : k = x7
  BY <1>1
<1>3. x1 \in [ReelPage!Keys -> {"none", "held", "done", "freed"}] /\ x22 \subseteq ReelPage!Keys /\ x21 \subseteq ReelPage!Keys
  BY DEF ReelPage!KeyKinds
<1>4. x20 \in Nat /\ x20 + 1 \in Nat /\ x20 + 1 > 0
  BY ReelCounts DEF ReelPage!KeyKinds
<1>5. k <= x8 /\ 0 <= x8 /\ \A j \in ReelPage!Keys : j > x8 => j # k
  <2>1. k <= x8 /\ k \in Nat /\ x8 \in Nat
    BY <1>2, ReelKeyNumbers DEF ReelPage!KeyKinds
  <2> QED
    BY <2>1, ReelOrder, ReelCounts
<1>6. /\ x1[k] = "done" => k \in x22
      /\ x1[k] \in {"none", "held"} \/ x20 > 0
  BY <1>1, <1>2, ReelKeyNumbers DEF ReelPage!KeysAreKnown
<1>7. x19 \in Nat /\ x17 \subseteq 1 .. x19 /\ 0 \notin x17 /\ (x16 => x17 \subseteq {x10, x11.video, x9.video})
  <2>1. x19 \in Nat /\ x17 \subseteq 1 .. x19
    BY DEF ReelPage!VideoKinds
  <2>2. 0 \notin x17
    BY <2>1
  <2> QED
    BY <2>1, <2>2 DEF ReelPage!OneReel
<1>9. /\ x22' = x22 \union {k} /\ UNCHANGED <<x2, x3, x6, x8, x12, x16, x19, x21>>
      /\ \/ /\ x1' = [x1 EXCEPT ![k] = "done"] /\ x7' = 0 /\ x20' = x20 /\ x11' = x11
            /\ IF x16 THEN x10' = x9.video /\ x17' = x17 \ {0} ELSE UNCHANGED <<x10, x17>>
         \/ /\ x11' = [video |-> x9.video, key |-> k] /\ UNCHANGED <<x7, x10, x17>>
            /\ \/ x1[k] = "freed" /\ UNCHANGED <<x1, x20>>
               \/ x20' = x20 + 1 /\ x1' \in {x1, [x1 EXCEPT ![k] = IF @ = "held" THEN "done" ELSE @]}
  BY <1>1, <1>2
<1>8. /\ x1' \in [ReelPage!Keys -> {"none", "held", "done", "freed"}] /\ \A j \in ReelPage!Keys \ {k} : x1'[j] = x1[j]
      /\ x20' \in Nat /\ x7' \in {0, k}
      /\ x1'[k] = "done" => k \in x22'
      /\ x1'[k] = "held" => x7' = k /\ x20' > 0
      /\ x7' = k => x20' > 0 /\ x11' # ReelPage!NoPending
      /\ x10' # 0 => x1'[k] = "done"
  <2>1. CASE x1' = [x1 EXCEPT ![k] = "done"] /\ x7' = 0 /\ x20' = x20
    BY <1>3, <1>4, <1>9, <2>1, ReelKeyNumbers
  <2>4. [video |-> x9.video, key |-> k] # ReelPage!NoPending
    BY ReelKeyNumbers
  <2>2. CASE x7' = x7 /\ x10' = x10 /\ x11' # ReelPage!NoPending /\ x1[k] = "freed" /\ UNCHANGED <<x1, x20>>
    BY <1>1, <1>2, <1>3, <1>4, <1>6, <1>9, <2>2
  <2>3. CASE x7' = x7 /\ x10' = x10 /\ x11' # ReelPage!NoPending /\ x20' = x20 + 1 /\ x1' \in {x1, [x1 EXCEPT ![k] = IF @ = "held" THEN "done" ELSE @]}
    BY <1>1, <1>2, <1>3, <1>4, <1>9, <2>3
  <2> QED
    BY <1>9, <2>1, <2>2, <2>3, <2>4
<1>10. ReelPage!KeysAreKnown'
  BY <1>2, <1>5, <1>8, <1>9, ReelKeyStep
<1>11. ReelPage!KeyKinds'
  <2>1. x7' \in ReelPage!Keys \cup {0} /\ x7' <= x8 /\ x22' \subseteq ReelPage!Keys
    BY <1>3, <1>5, <1>8, <1>9
  <2> QED
    BY <1>8, <1>9, <2>1 DEF ReelPage!KeyKinds
<1>12. ReelPage!VideoKinds'
  <2>1. x10' \in {0, x9.video} /\ (x17' = x17 \/ x17' = x17 \ {0})
    <3>1. CASE x16
      BY <1>1, <1>9, <3>1
    <3>2. CASE ~x16
      BY <1>1, <1>9, <3>2
    <3> QED
      BY <3>1, <3>2
  <2>2. x17' \subseteq 1 .. x19
    BY <1>7, <2>1
  <2>3. x9.video \in Nat /\ x9.video <= x19 /\ 0 <= x19
    BY ReelOff DEF ReelPage!VideoKinds
  <2>4. x10' \in Nat /\ x10' <= x19
    BY <2>1, <2>3
  <2>5. x11' \in [video : Nat, key : ReelPage!Keys \cup {0}] /\ x11'.video <= x19
    <3>1. x11 \in [video : Nat, key : ReelPage!Keys \cup {0}] /\ x11.video <= x19
      BY DEF ReelPage!VideoKinds
    <3>2. x11' = x11 \/ x11' = [video |-> x9.video, key |-> k]
      BY <1>9
    <3> QED
      BY <2>3, <3>1, <3>2
  <2>6. x9' = ReelPage!Off /\ x12' = x12 /\ x19' = x19
    OBVIOUS
  <2>7. x12' \in {"no", "retry", "discard"}
    BY <2>6 DEF ReelPage!VideoKinds
  <2> HIDE DEF ReelPage!ReelIInv, ReelPage!CompleteReel
  <2> QED
    BY <1>7, <2>2, <2>3, <2>4, <2>5, <2>6, <2>7, ReelOff DEF ReelPage!VideoKinds
<1>13. ReelPage!OneReel'
  <2>1. x16' => x17' \subseteq {x10', x11'.video, x9'.video}
    <3>1. x16 => x17 \subseteq {0, x9.video} /\ 0 \notin x17
      BY <1>1, <1>7
    <3>2. x16 => x17' \subseteq {x9.video}
      BY <1>9, <3>1
    <3>3. x16 => x10' = x9.video \/ x11'.video = x9.video
      BY <1>9
    <3> QED
      BY <1>9, <3>2, <3>3
  <2>2. (x11' # ReelPage!NoPending => x11'.key = x7' /\ x7' \in x22') /\ (x11' # ReelPage!NoPending => x10' = 0)
    BY <1>1, <1>2, <1>9
  <2> QED
    BY <1>1, <1>9, <2>1, <2>2 DEF ReelPage!OneReel
<1>14. ReelPage!FileKinds' /\ ReelPage!PhotosAreLive' /\ ReelPage!MusicIsItsOwn'
  BY DEF ReelPage!FileKinds, ReelPage!PhotosAreLive, ReelPage!Chosen, ReelPage!MusicIsItsOwn
<1> QED
  BY <1>10, <1>11, <1>12, <1>13, <1>14

LEMMA ReelRetryFinalize == ReelPage!ReelIInv /\ ReelPage!RetryFinalize => ReelPage!ReelIInv'
<1> SUFFICES ASSUME ReelPage!ReelIInv, ReelPage!RetryFinalize PROVE ReelPage!ReelIInv'
  OBVIOUS
<1> USE DEF ReelPage!ReelIInv, ReelPage!RetryFinalize, ReelPage!Completed, ReelPage!Lose, ReelPage!Finalized
<1>1. /\ x7 \in ReelPage!Keys /\ x11.key = x7 /\ x7 \in x22 /\ x9 = ReelPage!Off /\ x10 = 0
      /\ x11.video \in Nat /\ x11.video <= x19 /\ x11 # ReelPage!NoPending
  <2>1. x11 # ReelPage!NoPending /\ x9 = ReelPage!Off
    BY DEF ReelPage!OneReel
  <2> QED
    BY <2>1 DEF ReelPage!KeyKinds, ReelPage!VideoKinds, ReelPage!OneReel
<1>2. PICK k \in ReelPage!Keys : k = x7
  BY <1>1
<1>3. x1 \in [ReelPage!Keys -> {"none", "held", "done", "freed"}] /\ x22 \subseteq ReelPage!Keys /\ x21 \subseteq ReelPage!Keys
  BY DEF ReelPage!KeyKinds
<1>4. x20 \in Nat /\ x20 + 1 \in Nat /\ x20 + 1 > 0
  BY ReelCounts DEF ReelPage!KeyKinds
<1>5. k <= x8 /\ 0 <= x8 /\ \A j \in ReelPage!Keys : j > x8 => j # k
  <2>1. k <= x8 /\ k \in Nat /\ x8 \in Nat
    BY <1>2, ReelKeyNumbers DEF ReelPage!KeyKinds
  <2> QED
    BY <2>1, ReelOrder, ReelCounts
<1>6. /\ x1[k] = "done" => k \in x22
      /\ x1[k] \in {"none", "held"} \/ x20 > 0
  BY <1>1, <1>2, ReelKeyNumbers DEF ReelPage!KeysAreKnown
<1>7. x19 \in Nat /\ x17 \subseteq 1 .. x19 /\ 0 \notin x17 /\ (x16 => x17 \subseteq {x10, x11.video, x9.video})
  <2>1. x19 \in Nat /\ x17 \subseteq 1 .. x19
    BY DEF ReelPage!VideoKinds
  <2>2. 0 \notin x17
    BY <2>1
  <2> QED
    BY <2>1, <2>2 DEF ReelPage!OneReel
<1>9. /\ x12' = "no" /\ UNCHANGED <<x2, x3, x6, x8, x9, x16, x19, x21>>
      /\ \/ /\ x1' = [x1 EXCEPT ![k] = "done"] /\ x7' = 0 /\ x20' = x20 /\ x11' = ReelPage!NoPending /\ x22' = x22 \union {k}
            /\ IF x16 THEN x10' = x11.video /\ x17' = x17 \ {0} ELSE UNCHANGED <<x10, x17>>
         \/ /\ UNCHANGED <<x7, x10, x11, x17, x22>>
            /\ \/ x1[k] = "freed" /\ UNCHANGED <<x1, x20>>
               \/ x20' = x20 + 1 /\ x1' \in {x1, [x1 EXCEPT ![k] = IF @ = "held" THEN "done" ELSE @]}
  BY <1>1, <1>2
<1>8. /\ x1' \in [ReelPage!Keys -> {"none", "held", "done", "freed"}] /\ \A j \in ReelPage!Keys \ {k} : x1'[j] = x1[j]
      /\ x20' \in Nat /\ x7' \in {0, k}
      /\ x1'[k] = "done" => k \in x22'
      /\ x1'[k] = "held" => x7' = k /\ x20' > 0
      /\ x7' = k => x20' > 0 /\ x11' # ReelPage!NoPending
      /\ x10' # 0 => x1'[k] = "done"
  <2>1. CASE x1' = [x1 EXCEPT ![k] = "done"] /\ x7' = 0 /\ x20' = x20 /\ x22' = x22 \union {k}
    BY <1>3, <1>4, <2>1, ReelKeyNumbers
  <2>2. CASE x7' = x7 /\ x10' = x10 /\ x11' = x11 /\ x22' = x22 /\ x1[k] = "freed" /\ UNCHANGED <<x1, x20>>
    BY <1>1, <1>2, <1>3, <1>4, <1>6, <2>2
  <2>3. CASE x7' = x7 /\ x10' = x10 /\ x11' = x11 /\ x22' = x22 /\ x20' = x20 + 1 /\ x1' \in {x1, [x1 EXCEPT ![k] = IF @ = "held" THEN "done" ELSE @]}
    BY <1>1, <1>2, <1>3, <1>4, <2>3
  <2> QED
    BY <1>9, <2>1, <2>2, <2>3
<1>10. ReelPage!KeysAreKnown'
  <2>1. x22 \subseteq x22' /\ x8' = x8 /\ x21' = x21
    BY <1>9
  <2> QED
    BY <1>2, <1>5, <1>8, <2>1, ReelKeyStep
<1>11. ReelPage!KeyKinds'
  <2>1. x7' \in ReelPage!Keys \cup {0} /\ x7' <= x8 /\ x22' \subseteq ReelPage!Keys
    BY <1>3, <1>5, <1>8, <1>9
  <2> QED
    BY <1>8, <1>9, <2>1 DEF ReelPage!KeyKinds
<1>12. ReelPage!VideoKinds'
  <2>3. x10' \in {0, x11.video} /\ (x17' = x17 \/ x17' = x17 \ {0})
    <3>1. CASE x16
      BY <1>1, <1>9, <3>1
    <3>2. CASE ~x16
      BY <1>1, <1>9, <3>2
    <3> QED
      BY <3>1, <3>2
  <2>4. x17' \subseteq 1 .. x19
    BY <1>7, <2>3
  <2>1. x10' \in Nat /\ x10' <= x19 /\ x17' \subseteq 1 .. x19
    BY <1>1, <2>3, <2>4, ReelOff
  <2>2. x11' \in [video : Nat, key : ReelPage!Keys \cup {0}] /\ x11'.video <= x19
    <3>1. x11 \in [video : Nat, key : ReelPage!Keys \cup {0}]
      BY DEF ReelPage!VideoKinds
    <3>2. x11' = x11 \/ x11' = ReelPage!NoPending
      BY <1>9
    <3> QED
      BY <1>1, <1>7, <3>1, <3>2, ReelCounts
  <2> QED
    BY <1>1, <1>9, <2>1, <2>2, ReelOff DEF ReelPage!VideoKinds
<1>13. ReelPage!OneReel'
  <2>1. x16' => x17' \subseteq {x10', x11'.video, x9'.video}
    <3>1. x16 => x17 \subseteq {0, x11.video} /\ 0 \notin x17
      BY <1>1, <1>7
    <3>2. x16 => x17' \subseteq {x11.video}
      BY <1>9, <3>1
    <3>3. x16 => x10' = x11.video \/ x11'.video = x11.video
      BY <1>9
    <3> QED
      BY <1>9, <3>2, <3>3
  <2>2. (x11' # ReelPage!NoPending => x11'.key = x7' /\ x7' \in x22' /\ x10' = 0)
    BY <1>1, <1>2, <1>9
  <2> QED
    BY <1>1, <1>9, <2>1, <2>2 DEF ReelPage!OneReel
<1>14. ReelPage!FileKinds' /\ ReelPage!PhotosAreLive' /\ ReelPage!MusicIsItsOwn'
  BY DEF ReelPage!FileKinds, ReelPage!PhotosAreLive, ReelPage!Chosen, ReelPage!MusicIsItsOwn
<1> QED
  BY <1>10, <1>11, <1>12, <1>13, <1>14

LEMMA ReelDiscardPendingFinalize == ReelPage!ReelIInv /\ ReelPage!DiscardPendingFinalize => ReelPage!ReelIInv'
<1> SUFFICES ASSUME ReelPage!ReelIInv, ReelPage!DiscardPendingFinalize PROVE ReelPage!ReelIInv'
  OBVIOUS
<1> USE DEF ReelPage!ReelIInv, ReelPage!DiscardPendingFinalize, ReelPage!Released, ReelPage!Lose, ReelPage!DropKey
<1>1. /\ x7 \in ReelPage!Keys /\ x11.key = x7 /\ x7 \in x22 /\ x9 = ReelPage!Off /\ x10 = 0
      /\ x11.video \in Nat /\ x11.video <= x19
  <2>1. x11 # ReelPage!NoPending /\ x9 = ReelPage!Off
    BY DEF ReelPage!OneReel
  <2> QED
    BY <2>1 DEF ReelPage!KeyKinds, ReelPage!VideoKinds, ReelPage!OneReel
<1>2. PICK k \in ReelPage!Keys : k = x7
  BY <1>1
<1>3. x1 \in [ReelPage!Keys -> {"none", "held", "done", "freed"}] /\ x22 \subseteq ReelPage!Keys /\ x21 \subseteq ReelPage!Keys
  BY DEF ReelPage!KeyKinds
<1>4. x20 \in Nat /\ x20 + 1 \in Nat /\ x20 + 1 > 0
  BY ReelCounts DEF ReelPage!KeyKinds
<1>5. k <= x8 /\ 0 <= x8 /\ \A j \in ReelPage!Keys : j > x8 => j # k
  <2>1. k <= x8 /\ k \in Nat /\ x8 \in Nat
    BY <1>2, ReelKeyNumbers DEF ReelPage!KeyKinds
  <2> QED
    BY <2>1, ReelOrder, ReelCounts
<1>6. /\ x1[k] = "done" => k \in x22
      /\ x1[k] \in {"none", "held"} \/ x20 > 0
  BY <1>1, <1>2, ReelKeyNumbers DEF ReelPage!KeysAreKnown
<1>7. x19 \in Nat /\ x17 \subseteq 1 .. x19 /\ 0 \notin x17 /\ (x16 => x17 \subseteq {x10, x11.video, x9.video})
  <2>1. x19 \in Nat /\ x17 \subseteq 1 .. x19
    BY DEF ReelPage!VideoKinds
  <2>2. 0 \notin x17
    BY <2>1
  <2> QED
    BY <2>1, <2>2 DEF ReelPage!OneReel
<1>9. /\ x7' = 0 /\ x11' = ReelPage!NoPending /\ x12' = "no" /\ x17' = x17 \ {x11.video}
      /\ UNCHANGED <<x2, x3, x6, x8, x9, x10, x16, x19, x22>>
      /\ \/ x1' = [x1 EXCEPT ![k] = "freed"] /\ x21' = x21 /\ x20' = x20
         \/ x1[k] = "done" /\ x1' = x1 /\ x20' = x20 /\ x21' = x21
         \/ /\ x20' = x20 + 1 /\ x1' \in {x1, [x1 EXCEPT ![k] = IF @ = "held" THEN "freed" ELSE @]}
            /\ x21' = (IF x1'[k] = "held" THEN x21 \union {k} ELSE x21)
  BY <1>1, <1>2
<1>8. /\ x1' \in [ReelPage!Keys -> {"none", "held", "done", "freed"}] /\ \A j \in ReelPage!Keys \ {k} : x1'[j] = x1[j]
      /\ x20' \in Nat /\ x7' \in {0, k}
      /\ x1'[k] = "done" => k \in x22'
      /\ x1'[k] = "held" => k \in x21'
      /\ x7' = k => x20' > 0
      /\ x10' # 0 => x1'[k] = "done"
      /\ x21 \subseteq x21' /\ x21' \subseteq ReelPage!Keys
  <2>1. CASE x1' = [x1 EXCEPT ![k] = "freed"] /\ x21' = x21 /\ x20' = x20
    BY <1>1, <1>3, <1>4, <1>9, <2>1, ReelKeyNumbers
  <2>2. CASE x1[k] = "done" /\ x1' = x1 /\ x20' = x20 /\ x21' = x21
    BY <1>1, <1>3, <1>4, <1>6, <1>9, <2>2, ReelKeyNumbers
  <2>3. CASE x20' = x20 + 1 /\ x1' \in {x1, [x1 EXCEPT ![k] = IF @ = "held" THEN "freed" ELSE @]} /\ x21' = (IF x1'[k] = "held" THEN x21 \union {k} ELSE x21)
    <3>1. x1' \in [ReelPage!Keys -> {"none", "held", "done", "freed"}] /\ (\A j \in ReelPage!Keys \ {k} : x1'[j] = x1[j]) /\ (x1'[k] = "done" => x1[k] = "done")
      BY <1>3, <2>3
    <3>2. x20' \in Nat
      BY <1>4, <2>3
    <3> QED
      BY <1>1, <1>3, <1>6, <1>9, <2>3, <3>1, <3>2, ReelKeyNumbers
  <2> QED
    BY <1>9, <2>1, <2>2, <2>3
<1>10. ReelPage!KeysAreKnown'
  <2>1. x22 \subseteq x22' /\ x8' = x8 /\ x7 \in {0, k} /\ x7' \in {0, k}
    BY <1>2, <1>8, <1>9
  <2>2. \A j \in ReelPage!Keys : j > x8' => j > x8 /\ j # k
    BY <1>5, <2>1
  <2>3. x7' = k => (x1'[k] \in {"none", "held"} \/ x20' > 0) /\ (x1'[k] # "done" \/ x11' # ReelPage!NoPending)
    BY <1>9, ReelKeyNumbers
  <2>4. x10' # 0 => (x1'[k] = "done" \/ (x10 # 0 /\ x1' = x1))
    BY <1>8
  <2>5. x1'[k] = "held" => k \in x21' \/ (x7' = k /\ (x16' \/ x9'.pc \in ReelPage!Reserving \/ x20' > 0))
    BY <1>8
  <2> QED
    BY <1>8, <2>1, <2>2, <2>3, <2>4, <2>5, ReelKeyStep
<1>11. ReelPage!KeyKinds'
  <2>1. x7' \in ReelPage!Keys \cup {0} /\ x7' <= x8 /\ x22' \subseteq ReelPage!Keys
    BY <1>3, <1>5, <1>8, <1>9
  <2> QED
    BY <1>8, <1>9, <2>1 DEF ReelPage!KeyKinds
<1>12. ReelPage!VideoKinds'
  <2>1. x17' \subseteq 1 .. x19
    BY <1>7, <1>9
  <2>2. x11' \in [video : Nat, key : ReelPage!Keys \cup {0}] /\ x11'.video <= x19
    BY <1>7, <1>9, ReelCounts
  <2>3. x10' \in Nat /\ x10' <= x19
    BY <1>1, <1>9, ReelOff
  <2> QED
    BY <1>1, <1>9, <2>1, <2>2, <2>3, ReelOff DEF ReelPage!VideoKinds
<1>13. ReelPage!OneReel'
  <2>1. x16' => x17' \subseteq {x10', x11'.video, x9'.video}
    <3>1. x9.video = 0 /\ x10 = 0
      BY <1>1
    <3>2. x16 => x17 \subseteq {0, x11.video} /\ 0 \notin x17
      BY <1>7, <3>1
    <3>3. x16 => x17' = {}
      BY <1>9, <3>2
    <3> QED
      BY <1>9, <3>3
  <2> QED
    BY <1>1, <1>9, <2>1 DEF ReelPage!OneReel
<1>14. ReelPage!FileKinds' /\ ReelPage!PhotosAreLive' /\ ReelPage!MusicIsItsOwn'
  BY DEF ReelPage!FileKinds, ReelPage!PhotosAreLive, ReelPage!Chosen, ReelPage!MusicIsItsOwn
<1> QED
  BY <1>10, <1>11, <1>12, <1>13, <1>14

LEMMA ReelLapse == ReelPage!ReelIInv /\ ReelPage!Lapse => ReelPage!ReelIInv'
<1> SUFFICES ASSUME ReelPage!ReelIInv, ReelPage!Lapse PROVE ReelPage!ReelIInv'
  OBVIOUS
<1> USE DEF ReelPage!ReelIInv, ReelPage!Lapse, ReelPage!Lose
<1>1. PICK k \in ReelPage!Keys : x1[k] = "held" /\ x1' = [x1 EXCEPT ![k] = "freed"]
  OBVIOUS
<1>2. x1 \in [ReelPage!Keys -> {"none", "held", "done", "freed"}] /\ x20 \in Nat
  BY DEF ReelPage!KeyKinds
<1>3. x20' \in Nat /\ x20' > 0
  BY <1>2, ReelCounts
<1>4. x1' \in [ReelPage!Keys -> {"none", "held", "done", "freed"}] /\ x1'[k] = "freed" /\ \A j \in ReelPage!Keys \ {k} : x1'[j] = x1[j]
  BY <1>1, <1>2
<1>5. ReelPage!KeyKinds'
  BY <1>3, <1>4 DEF ReelPage!KeyKinds
<1>6. ReelPage!VideoKinds'
  BY DEF ReelPage!VideoKinds
<1>7. ReelPage!OneReel'
  <2>1. x7 \in ReelPage!Keys \cup {0}
    BY DEF ReelPage!KeyKinds
  <2>2. x7 # 0 /\ x1[x7] # "none" => x1'[x7] # "none"
    BY <1>4, <2>1
  <2> QED
    BY <2>2 DEF ReelPage!OneReel
<1>8. ReelPage!KeysAreKnown'
  <2>1. ASSUME NEW j \in ReelPage!Keys
        PROVE  /\ j > x8 => x1'[j] = "none"
               /\ x1'[j] = "done" => j \in x22
               /\ x1'[j] = "held" /\ j \notin x21 => j = x7 /\ (~x16 /\ x9.pc \notin ReelPage!Reserving => x20' > 0)
    <3>1. CASE j = k
      BY <1>1, <1>4, <3>1 DEF ReelPage!KeysAreKnown
    <3>2. CASE j # k
      <4>1. x1'[j] = x1[j]
        BY <1>4, <3>2
      <4> QED
        BY <1>3, <4>1 DEF ReelPage!KeysAreKnown
    <3> QED
      BY <3>1, <3>2
  <2>2. x10 # 0 => \E j \in x22 : x1'[j] = "done"
    <3>1. x22 \subseteq ReelPage!Keys
      BY DEF ReelPage!KeyKinds
    <3>2. \A j \in ReelPage!Keys : x1[j] = "done" => x1'[j] = "done"
      BY <1>1, <1>4
    <3> QED
      BY <3>1, <3>2 DEF ReelPage!KeysAreKnown
  <2>3. x7 # 0 => (x1'[x7] = "done" => x1[x7] = "done")
    BY <1>4 DEF ReelPage!KeyKinds
  <2> QED
    BY <1>3, <2>1, <2>2, <2>3 DEF ReelPage!KeysAreKnown
<1>9. ReelPage!FileKinds' /\ ReelPage!PhotosAreLive' /\ ReelPage!MusicIsItsOwn'
  BY DEF ReelPage!FileKinds, ReelPage!PhotosAreLive, ReelPage!Chosen, ReelPage!MusicIsItsOwn
<1> QED
  BY <1>5, <1>6, <1>7, <1>8, <1>9

LEMMA ReelUnmount == ReelPage!ReelIInv /\ ReelPage!Unmount => ReelPage!ReelIInv'
<1> SUFFICES ASSUME ReelPage!ReelIInv, ReelPage!Unmount PROVE ReelPage!ReelIInv'
  OBVIOUS
<1> USE DEF ReelPage!ReelIInv, ReelPage!Unmount
<1>1. ReelPage!KeyKinds'
  BY DEF ReelPage!KeyKinds
<1>2. ReelPage!VideoKinds'
  <2>1. x17' \subseteq x17
    OBVIOUS
  <2> QED
    BY <2>1 DEF ReelPage!VideoKinds
<1>3. ReelPage!OneReel'
  BY DEF ReelPage!OneReel
<1>4. ReelPage!KeysAreKnown'
  <2>1. ASSUME NEW j \in ReelPage!Keys, x1[j] = "held", j \notin x21' PROVE j = x7 /\ x9.pc \in ReelPage!Reserving
    <3>1. j = x9.key /\ j \notin x21 /\ j # 0
      BY <2>1, ReelKeyNumbers
    <3>2. j = x7
      BY <2>1, <3>1 DEF ReelPage!KeysAreKnown
    <3>3. x9.pc \in {"idle"} \cup ReelPage!Asking \cup ReelPage!Reserving
      BY DEF ReelPage!VideoKinds
    <3>4. x9.pc = "idle" => x9.key = 0
      BY DEF ReelPage!OneReel
    <3>5. x9.pc \in ReelPage!Asking => x9.key = 0
      BY DEF ReelPage!OneReel
    <3> QED
      BY <3>1, <3>2, <3>3, <3>4, <3>5
  <2> QED
    BY <2>1 DEF ReelPage!KeysAreKnown
<1>5. ReelPage!FileKinds'
  BY DEF ReelPage!FileKinds
<1>6. ReelPage!PhotosAreLive'
  BY DEF ReelPage!PhotosAreLive, ReelPage!Chosen
<1>7. ReelPage!MusicIsItsOwn'
  BY DEF ReelPage!MusicIsItsOwn
<1> QED
  BY <1>1, <1>2, <1>3, <1>4, <1>5, <1>6, <1>7

LEMMA ReelBegins == ReelPage!RpInit => ReelPage!ReelIInv
<1> SUFFICES ASSUME ReelPage!RpInit PROVE ReelPage!ReelIInv
  OBVIOUS
<1> USE DEF ReelPage!RpInit
<1>1. {MaxPhotos, MaxKeys, MaxFiles} \subseteq Nat
  BY ReservationsAssumption
<1>2. ReelPage!KeyKinds
  BY <1>1 DEF ReelPage!KeyKinds
<1>3. ReelPage!VideoKinds
  BY DEF ReelPage!VideoKinds
<1>4. ReelPage!FileKinds
  BY DEF ReelPage!FileKinds
<1>5. ReelPage!PhotosAreLive
  <2>1. ReelPage!Chosen = {} /\ x18 = {}
    BY DEF ReelPage!Chosen
  <2>2. ReelPage!Cardinality({}) = 0
    BY ReelCardinality, FS_EmptySet
  <2>3. ReelPage!Cardinality(ReelPage!Chosen) <= MaxPhotos
    BY <1>1, <2>1, <2>2
  <2> QED
    BY <2>1, <2>3 DEF ReelPage!PhotosAreLive
<1>6. ReelPage!MusicIsItsOwn
  BY DEF ReelPage!MusicIsItsOwn
<1>7. ReelPage!OneReel
  BY DEF ReelPage!OneReel
<1>8. ReelPage!KeysAreKnown
  BY DEF ReelPage!KeysAreKnown
<1> QED
  BY <1>2, <1>3, <1>4, <1>5, <1>6, <1>7, <1>8 DEF ReelPage!ReelIInv

LEMMA ReelGoesOn == ReelPage!ReelIInv /\ ReelPage!RpNext => ReelPage!ReelIInv'
  BY ReelAddPhotos, ReelPrepareOne, ReelPhotosReady, ReelRemovePhoto, ReelUpdateDuration, ReelChooseAudio,
     ReelAudioInspected, ReelCheckPurchase, ReelPurchaseChecked, ReelStartReel, ReelAskForKey, ReelReserve,
     ReelEndTrial, ReelMakeReel, ReelReleaseFailed, ReelCompleteReel, ReelAskToFinalize, ReelAskToDiscard,
     ReelRetryFinalize, ReelDiscardPendingFinalize, ReelLapse, ReelUnmount
  DEF ReelPage!RpNext

LEMMA ReelStands ==
  ReelPage!ReelIInv =>
    ReelPage!RpTypeOK /\ ReelPage!ReelIsPaid /\ ReelPage!HeldIsKnown /\ ReelPage!KeysAreNotReused /\ ReelPage!NothingIsLeft
<1> SUFFICES ASSUME ReelPage!ReelIInv
             PROVE  ReelPage!RpTypeOK /\ ReelPage!ReelIsPaid /\ ReelPage!HeldIsKnown /\ ReelPage!KeysAreNotReused
                    /\ ReelPage!NothingIsLeft
  OBVIOUS
<1> USE DEF ReelPage!ReelIInv
<1>1. ReelPage!RpTypeOK
  <2>1. Cardinality(x4) <= MaxPhotos
    <3>1. PICK s \in SUBSET (1 .. MaxFiles) : s = ReelPage!Chosen
      BY DEF ReelPage!FileKinds, ReelPage!Chosen
    <3>2. PICK r \in SUBSET (1 .. MaxFiles) : r = x4
      BY DEF ReelPage!FileKinds
    <3>3. r \subseteq s /\ Cardinality(s) <= MaxPhotos
      BY <3>1, <3>2, ReelCardinality DEF ReelPage!Chosen, ReelPage!PhotosAreLive
    <3>4. Cardinality(r) \in Nat /\ Cardinality(s) \in Nat /\ Cardinality(r) <= Cardinality(s)
      BY <3>3, ReelFinite, FS_Subset
    <3>5. MaxPhotos \in Nat
      BY ReservationsAssumption
    <3>6. Cardinality(r) <= MaxPhotos
      BY <3>3, <3>4, <3>5
    <3> QED
      BY <3>2, <3>6
  <2>2. x8 \in 0 .. MaxKeys /\ x7 \in 0 .. x8
    <3>1. MaxKeys \in Nat /\ x8 \in Nat /\ x8 <= MaxKeys /\ x7 <= x8
      BY ReservationsAssumption DEF ReelPage!KeyKinds
    <3>2. x7 \in Nat
      BY ReelKeyNumbers DEF ReelPage!KeyKinds
    <3> QED
      BY <3>1, <3>2
  <2>3. x10 \in 0 .. x19 /\ x11.video \in 0 .. x19
    <3>1. x10 \in Nat /\ x10 <= x19 /\ x19 \in Nat
      BY DEF ReelPage!VideoKinds
    <3>2. x11.video \in Nat /\ x11.video <= x19
      BY DEF ReelPage!VideoKinds
    <3> QED
      BY <3>1, <3>2
  <2>4. x1 \in [ReelPage!Keys -> {"none", "held", "done", "freed"}] /\ x2 \subseteq ReelPage!Keys
    BY DEF ReelPage!KeyKinds
  <2>5. x12 # "no" => x11 # ReelPage!NoPending
    BY DEF ReelPage!OneReel
  <2> QED
    BY <2>1, <2>2, <2>3, <2>4, <2>5, ReelCardinality DEF ReelPage!RpTypeOK
<1>2. ReelPage!ReelIsPaid
  <2>1. x22 \subseteq ReelPage!Keys
    BY DEF ReelPage!KeyKinds
  <2>2. x10 # 0 => x11.key = 0
    <3>1. x10 # 0 => x11 = ReelPage!NoPending
      BY DEF ReelPage!OneReel
    <3> QED
      BY <3>1
  <2>3. x10 # 0 => \E k \in x22 : x1[k] = "done" /\ k # x11.key
    BY <2>1, <2>2, ReelKeyNumbers DEF ReelPage!KeysAreKnown
  <2> QED
    BY <2>3 DEF ReelPage!ReelIsPaid, ReelPage!KeysAreKnown
<1>3. ReelPage!HeldIsKnown
  BY DEF ReelPage!HeldIsKnown, ReelPage!KeysAreKnown
<1>4. ReelPage!KeysAreNotReused
  <2>1. x9.pc \in {"exporting", "completing"} => x1[x7] # "none" /\ x11 = ReelPage!NoPending
    BY DEF ReelPage!OneReel
  <2>2. x7 # 0 => x1[x7] \in {"none", "held", "done", "freed"}
    BY DEF ReelPage!KeyKinds
  <2> QED
    BY <2>1, <2>2 DEF ReelPage!KeysAreNotReused, ReelPage!KeysAreKnown
<1>5. ReelPage!NothingIsLeft
  <2>1. 0 \notin x17
    <3>1. x19 \in Nat /\ x17 \subseteq 1 .. x19
      BY DEF ReelPage!VideoKinds
    <3> QED
      BY <3>1
  <2>2. x16 => x17 \subseteq {x10, x11.video, x9.video} \ {0}
    BY <2>1 DEF ReelPage!OneReel
  <2>3. (~x16 /\ x5.pc = "no" => x18 = {}) /\ (x16 => x18 = ReelPage!Chosen)
    BY DEF ReelPage!PhotosAreLive
  <2> QED
    BY <2>2, <2>3 DEF ReelPage!NothingIsLeft, ReelPage!MusicIsItsOwn
<1> QED
  BY <1>1, <1>2, <1>3, <1>4, <1>5

LEMMA ReelStutters ==
  ReelPage!ReelIInv /\ UNCHANGED <<x1, x2, x3, x4, x5, x6, x7, x8, x9, x10, x11, x12, x13, x14, x15, x16, x17, x18, x19, x20, x21, x22>>
    => ReelPage!ReelIInv'
<1> SUFFICES ASSUME ReelPage!ReelIInv,
                    UNCHANGED <<x1, x2, x3, x4, x5, x6, x7, x8, x9, x10, x11, x12, x13, x14, x15, x16, x17, x18, x19, x20, x21, x22>>
             PROVE  ReelPage!ReelIInv'
  OBVIOUS
<1> USE DEF ReelPage!ReelIInv
<1>1. ReelPage!KeyKinds'
  BY DEF ReelPage!KeyKinds
<1>2. ReelPage!VideoKinds'
  BY DEF ReelPage!VideoKinds
<1>3. ReelPage!FileKinds'
  BY DEF ReelPage!FileKinds
<1>4. ReelPage!PhotosAreLive'
  BY DEF ReelPage!PhotosAreLive, ReelPage!Chosen
<1>5. ReelPage!MusicIsItsOwn'
  BY DEF ReelPage!MusicIsItsOwn
<1>6. ReelPage!OneReel'
  BY DEF ReelPage!OneReel
<1>7. ReelPage!KeysAreKnown'
  BY DEF ReelPage!KeysAreKnown
<1> QED
  BY <1>1, <1>2, <1>3, <1>4, <1>5, <1>6, <1>7

-------------------------------------------------------------------------------
(* The three together.                                                       *)

ReservedIInv ==
  /\ component = "Editing" => \A b \in EditingBounds : bounds = b => Editing(b)!EditingIInv
  /\ component = "Mix" => \A b \in MixBounds : bounds = b => Mix(b)!MixIInv
  /\ component = "ReelPage" => ReelPage!ReelIInv

LEMMA ReservedBegins == ReservingInit => ReservedIInv
<1>1. ASSUME component = "Editing", NEW b \in EditingBounds, bounds = b, ReservingInit PROVE Editing(b)!EditingIInv
  <2>1. Editing(b)!Init
    BY <1>1 DEF ReservingInit
  <2> QED
    BY <2>1, EditingBegins
<1>2. ASSUME component = "Mix", NEW b \in MixBounds, bounds = b, ReservingInit PROVE Mix(b)!MixIInv
  <2>1. Mix(b)!Init
    BY <1>2 DEF ReservingInit
  <2> QED
    BY <2>1, MixBegins
<1> QED
  BY <1>1, <1>2, ReelBegins DEF ReservingInit, ReservedIInv

LEMMA ReservedStands == ReservedIInv => ReservationsAreAccountedFor
<1>1. ASSUME ReservedIInv, component = "Editing", NEW b \in EditingBounds, bounds = b
      PROVE  /\ Editing(b)!TypeOK /\ Editing(b)!NothingElseForgotten /\ Editing(b)!ProcessingHasItsRun
             /\ Editing(b)!ResultIsOfItsVideo /\ Editing(b)!NotReleasedWhileConfirmed
  <2>1. Editing(b)!EditingIInv
    BY <1>1 DEF ReservedIInv
  <2> QED
    BY <2>1, EditingStands
<1>2. ASSUME ReservedIInv, component = "Mix", NEW b \in MixBounds, bounds = b
      PROVE  Mix(b)!TypeOK /\ Mix(b)!NoneStranded /\ Mix(b)!AtMostOneHeld /\ Mix(b)!HandedOverIsPaid /\ Mix(b)!PaidIsKept
  <2>1. Mix(b)!MixIInv
    BY <1>2 DEF ReservedIInv
  <2> QED
    BY <2>1, MixStands
<1> QED
  BY <1>1, <1>2, ReelStands DEF ReservedIInv, ReservationsAreAccountedFor

LEMMA ReservedGoesOn == ReservedIInv /\ ReservingNext => ReservedIInv'
<1> SUFFICES ASSUME ReservedIInv, ReservingNext PROVE ReservedIInv'
  OBVIOUS
<1>1. component' = component /\ bounds' = bounds
  BY DEF ReservingNext, rest10, rest11, rest12, rest14, rest15, rest19
<1>2. ASSUME component = "Editing", NEW b \in EditingBounds, bounds = b PROVE Editing(b)!EditingIInv'
  <2>1. Editing(b)!EditingIInv /\ Editing(b)!Next
    BY <1>2 DEF ReservedIInv, ReservingNext
  <2> QED
    BY <2>1, EditingGoesOn
<1>3. ASSUME component = "Mix", NEW b \in MixBounds, bounds = b PROVE Mix(b)!MixIInv'
  <2>1. Mix(b)!MixIInv /\ Mix(b)!Next
    BY <1>3 DEF ReservedIInv, ReservingNext
  <2> QED
    BY <2>1, MixGoesOn
<1>4. component = "ReelPage" => ReelPage!ReelIInv'
  BY ReelGoesOn DEF ReservedIInv, ReservingNext
<1> QED
  BY <1>1, <1>2, <1>3, <1>4 DEF ReservedIInv

LEMMA ReservedStutters == ReservedIInv /\ UNCHANGED workspacevars => ReservedIInv'
<1> SUFFICES ASSUME ReservedIInv, UNCHANGED workspacevars PROVE ReservedIInv'
  OBVIOUS
<1>1. component' = component /\ bounds' = bounds
  BY DEF workspacevars
<1>2. ASSUME component = "Editing", NEW b \in EditingBounds, bounds = b PROVE Editing(b)!EditingIInv'
  <2>1. Editing(b)!EditingIInv
    BY <1>2 DEF ReservedIInv
  <2> QED
    BY <2>1, EditingStutters DEF workspacevars
<1>3. ASSUME component = "Mix", NEW b \in MixBounds, bounds = b PROVE Mix(b)!MixIInv'
  <2>1. Mix(b)!MixIInv
    BY <1>3 DEF ReservedIInv
  <2> QED
    BY <2>1, MixStutters DEF workspacevars
<1> QED
  BY <1>1, <1>2, <1>3, ReelStutters DEF ReservedIInv, workspacevars

\* In every state a page can reach that holds reservations, what it keeps from
\* step to step holds.
THEOREM ReservedIInvHolds == ReservingSpec => []ReservedIInv
<1>1. ReservedIInv /\ [ReservingNext]_workspacevars => ReservedIInv'
  BY ReservedGoesOn, ReservedStutters
<1> QED
  BY ReservedBegins, <1>1, PTL DEF ReservingSpec

\* However many runs, requests and reservations there are and in whatever order
\* their answers come, no page forgets a reservation the server holds or
\* releases the one it confirms, and what was handed over was paid for once
\* and is kept.
THEOREM ReservationsHold == ReservingSpec => []ReservationsAreAccountedFor
<1>1. ReservedIInv => ReservationsAreAccountedFor
  BY ReservedStands
<1> QED
  BY ReservedIInvHolds, <1>1, PTL
===============================================================================
