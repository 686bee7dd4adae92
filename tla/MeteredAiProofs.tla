---------------------------- MODULE MeteredAiProofs ----------------------------
(***************************************************************************)
(* The metered AI actions of MeteredAi, for every number of reservations,  *)
(* actions and Workers.  One worker's step changes one action and one      *)
(* request; what it may change is GoesOn, Begins, Ends or Delivers below,  *)
(* and the invariant follows from those alone.                             *)
(***************************************************************************)
EXTENDS MeteredAi, SumProofs

-------------------------------------------------------------------------------
(* The inductive invariant.                                                 *)

PhaseNames == {"chunk", "single", "script", "speech", "adjust", "adjustSpeech"}

Pcs == {"look", "release", "fail", "continue", "insert", "call", "overrun", "block",
        "complete"}

Requests == [pc : Pcs, r : Reservations, a : ActionIds, phase : PhaseNames,
             attempt : Nat, seconds : Nat, done : BOOLEAN]

Actions == [op : Operations \cup {"none"}, status : Statuses, attempts : Nat,
            seconds : Nat, expires : Nat]

\* An action that exists is of some operation, within its attempts and within
\* the source; one that does not has transcribed nothing.
IsSound(x) ==
    /\ x \in Actions
    /\ x.seconds <= Ceiling
    /\ x.status # "failed" => x.expires <= Lifetime
    /\ x.status = "absent" => x.seconds = 0
    /\ x.status # "absent" => x.op \in Operations /\ x.attempts \in 1 .. AttemptLimit[x.op]

SoundActions == {x \in Actions : IsSound(x)}

TablesOK ==
    /\ now \in 0 .. MaxTime
    /\ resv \in [Reservations -> [status : {"reserved", "completed", "released"},
                                  leaving : BOOLEAN]]
    /\ lease \in [Reservations -> [holder : Workers \cup {Nobody}, expires : Nat]]
    /\ act \in [Reservations -> [ActionIds -> SoundActions]]
    /\ used \in [Reservations -> [Operations -> Nat]]
    /\ \A r \in Reservations, o \in Operations : used[r][o] <= OperationLimit[o]
    /\ blocked \subseteq Reservations
    /\ req \in [Workers -> Requests \cup {Idle}]
    /\ answered \in [Reservations -> [ActionIds -> [attempts : SUBSET Nat, seconds : Nat]]]

Serves(w) == req[w].pc # "idle"

\* A result is on its way to the page only from an action that succeeded, and
\* a transcript only from the statement that recorded its length.
ResultsAreCounted ==
    \A w \in Workers : Serves(w) =>
        /\ req[w].done => act[req[w].r][req[w].a].status = "succeeded"
        /\ req[w].seconds # 0 => req[w].pc \in {"complete", "release"}

\* The seconds w carries to the page for action a of r.
Carried(r, a) ==
    [w \in Workers |-> IF Serves(w) /\ req[w].r = r /\ req[w].a = a
                         THEN req[w].seconds ELSE 0]

\* What was delivered and what is on its way was recorded.
TranscriptsAreRecorded ==
    \A r \in Reservations, a \in ActionIds :
        answered[r][a].seconds + SumFunctionOnSet(Carried(r, a), Workers) <= act[r][a].seconds

IInv == /\ TablesOK /\ ResultsAreCounted /\ TranscriptsAreRecorded
        /\ EntitlementWithinLimit /\ AnswersAreCounted

-------------------------------------------------------------------------------
(* What a Worker's step may do.                                             *)

\* The action comes to be x: a success stays one, and an action that counts
\* did so before, or the entitlement had room.
Becomes(old, x) ==
    /\ x \in SoundActions
    /\ old.status = "succeeded" => x.status = "succeeded"
    /\ Counts(x) => Counts(old) \/ EntitlementCount < EntitlementLimit

Begins(w) ==
    /\ ~Serves(w)
    /\ \E q \in Requests : q.seconds = 0 /\ ~q.done /\ req' = [req EXCEPT ![w] = q]
    /\ UNCHANGED <<now, act, answered>>

Ends(w) == req' = [req EXCEPT ![w] = Idle] /\ UNCHANGED <<now, act, answered>>

\* From q0 to q, and from the action x0 to x.
Keeps(q0, q, x0, x) ==
    /\ q \in Requests /\ q.r = q0.r /\ q.a = q0.a
    /\ q.seconds # 0 => q.pc \in {"complete", "release"}
    /\ q.done => x.status = "succeeded"
    /\ x.seconds + q0.seconds = x0.seconds + q.seconds
    /\ Becomes(x0, x)

GoesOn(w) ==
    LET q0 == req[w]
        x0 == act[q0.r][q0.a]
    IN
    /\ Serves(w)
    /\ \E q, x : /\ Keeps(q0, q, x0, x)
                 /\ req' = [req EXCEPT ![w] = q]
                 /\ act' = [act EXCEPT ![q0.r][q0.a] = x]
    /\ UNCHANGED <<now, answered>>

Delivers(w) ==
    LET q == req[w] IN
    /\ Serves(w) /\ q.done
    /\ req' = [req EXCEPT ![w] = Idle]
    /\ answered' = [answered EXCEPT ![q.r][q.a].attempts = @ \cup {q.attempt},
                                    ![q.r][q.a].seconds = @ + q.seconds]
    /\ UNCHANGED <<now, act>>

LEMMA Served ==
    ASSUME TablesOK, NEW w \in Workers, Serves(w)
    PROVE  /\ req[w] \in Requests
           /\ req[w].r \in Reservations /\ req[w].a \in ActionIds
           /\ act[req[w].r][req[w].a] \in SoundActions
<1>1. req[w] \in Requests
  BY DEF TablesOK, Serves, Idle
<1>2. req[w].r \in Reservations /\ req[w].a \in ActionIds
  BY <1>1 DEF Requests
<1> QED
  BY <1>1, <1>2 DEF TablesOK

\* The request goes on to pc and its action stays.
LEMMA JustGoes ==
    ASSUME IInv, NEW w \in Workers, Serves(w), NEW pc \in Pcs,
           req[w].pc \in {"complete", "release"} => pc = "release",
           Goto(w, pc), UNCHANGED <<now, act, answered>>
    PROVE  GoesOn(w)
<1> DEFINE q0 == req[w]
           x0 == act[q0.r][q0.a]
           q == [q0 EXCEPT !.pc = pc]
<1>1. q0 \in Requests /\ q0.r \in Reservations /\ q0.a \in ActionIds /\ x0 \in SoundActions
  BY Served DEF IInv
<1>2. /\ q \in Requests /\ q.r = q0.r /\ q.a = q0.a /\ q.pc = pc
      /\ q.seconds = q0.seconds /\ q.done = q0.done
  BY <1>1 DEF Requests
<1>3. /\ q0.done => x0.status = "succeeded"
      /\ q0.seconds # 0 => q0.pc \in {"complete", "release"}
  BY DEF IInv, ResultsAreCounted
<1>4. Becomes(x0, x0)
  BY <1>1 DEF Becomes
<1>5. req' = [req EXCEPT ![w] = q]
  BY DEF Goto
<1>6. act' = [act EXCEPT ![q0.r][q0.a] = x0]
  BY <1>1 DEF IInv, TablesOK
<1> HIDE DEF q, x0
<1>7. Keeps(q0, q, x0, x0)
  BY <1>2, <1>3, <1>4 DEF Keeps
<1> QED
  BY <1>5, <1>6, <1>7 DEF GoesOn, x0

\* Marking the action failed leaves a success alone.
LEMMA FailingGoes ==
    ASSUME IInv, NEW w \in Workers, Serves(w), NEW pc \in Pcs,
           req[w].pc \notin {"complete", "release"},
           MarkFailed(w), Goto(w, pc), UNCHANGED <<now, answered>>
    PROVE  GoesOn(w)
<1> DEFINE q0 == req[w]
           x0 == act[q0.r][q0.a]
           q == [q0 EXCEPT !.pc = pc]
           x == Failed(x0)
<1>1. q0 \in Requests /\ q0.r \in Reservations /\ q0.a \in ActionIds /\ x0 \in SoundActions
  BY Served DEF IInv
<1>2. CASE UNCHANGED act
  BY <1>2, JustGoes
<1>3. CASE CanFail(w) /\ act' = [act EXCEPT ![q0.r][q0.a] = x]
  <2>1. /\ q \in Requests /\ q.r = q0.r /\ q.a = q0.a /\ q.pc = pc
        /\ q.seconds = q0.seconds /\ q.done = q0.done
    BY <1>1 DEF Requests
  <2>2. x0.status = "pending"
    BY <1>3 DEF CanFail
  <2>3. /\ x.status = "failed" /\ x.seconds = x0.seconds /\ x.op = x0.op
        /\ x.attempts = x0.attempts /\ x \in Actions
    <3>1. now \in Nat
      BY MeteredAiAssumption DEF IInv, TablesOK
    <3>2. x0 \in Actions
      BY <1>1 DEF SoundActions
    <3> HIDE DEF x0
    <3> QED
      BY <3>1, <3>2 DEF Failed, Actions, Statuses
  <2>4. /\ q0.done => x0.status = "succeeded"
        /\ q0.seconds # 0 => q0.pc \in {"complete", "release"}
    BY DEF IInv, ResultsAreCounted
  <2>5. req' = [req EXCEPT ![w] = q]
    BY DEF Goto
  <2> HIDE DEF q, x
  <2>6. Becomes(x0, x)
    BY <1>1, <2>2, <2>3 DEF Becomes, SoundActions, IsSound, Counts
  <2> HIDE DEF x0
  <2>7. Keeps(q0, q, x0, x)
    BY <2>1, <2>2, <2>3, <2>4, <2>6 DEF Keeps
  <2> QED
    BY <1>3, <2>5, <2>7 DEF GoesOn, x0
<1> QED
  BY <1>2, <1>3 DEF MarkFailed, SetAction

\* Completing it makes it a success, or leaves it and the page without result.
LEMMA SucceedingGoes ==
    ASSUME IInv, NEW w \in Workers, Serves(w), Succeed(w), UNCHANGED <<now, answered>>
    PROVE  GoesOn(w)
<1> DEFINE q0 == req[w]
           x0 == act[q0.r][q0.a]
           q == [q0 EXCEPT !.pc = "release", !.done = CanSucceed(w)]
           x == IF CanSucceed(w) THEN [x0 EXCEPT !.status = "succeeded"] ELSE x0
<1>1. q0 \in Requests /\ q0.r \in Reservations /\ q0.a \in ActionIds /\ x0 \in SoundActions
  BY Served DEF IInv
<1>2. CanSucceed(w) \in BOOLEAN
  BY DEF CanSucceed
<1>3. q \in Requests
  BY <1>1, <1>2 DEF Requests, Pcs
<1>4. /\ q.r = q0.r /\ q.a = q0.a /\ q.pc = "release"
      /\ q.seconds = q0.seconds /\ (q.done <=> CanSucceed(w))
  BY <1>1, Zenon DEF Requests
<1>5. req' = [req EXCEPT ![w] = q]
  BY DEF Succeed
<1>6. act' = [act EXCEPT ![q0.r][q0.a] = x]
  BY <1>1 DEF Succeed, SetAction, IInv, TablesOK
<1>7. x.seconds = x0.seconds /\ (CanSucceed(w) => x.status = "succeeded")
  BY <1>1 DEF SoundActions, Actions
<1>8. Becomes(x0, x)
  <2>1. CASE CanSucceed(w)
    <3>1. /\ x0.status \in {"pending", "succeeded"} /\ x0.expires > now
      BY <2>1 DEF CanSucceed, IsCurrent
    <3>2. /\ x \in Actions /\ x.status = "succeeded" /\ x.seconds = x0.seconds
          /\ x.op = x0.op /\ x.attempts = x0.attempts /\ x.expires = x0.expires
      BY <1>1, <2>1 DEF SoundActions, Actions, Statuses
    <3> HIDE DEF x, x0
    <3> QED
      BY <1>1, <3>1, <3>2 DEF Becomes, SoundActions, IsSound, Counts
  <2>2. CASE ~CanSucceed(w)
    BY <1>1, <2>2 DEF Becomes
  <2> QED
    BY <2>1, <2>2
<1> HIDE DEF q, x
<1>9. Keeps(q0, q, x0, x)
  <2> HIDE DEF x0
  <2> QED
    BY <1>1, <1>3, <1>4, <1>7, <1>8 DEF Keeps, Requests, SoundActions, Actions
<1> QED
  BY <1>5, <1>6, <1>9 DEF GoesOn

LEMMA InsertGoes ==
    ASSUME IInv, NEW w \in Workers, Insert(w)
    PROVE  GoesOn(w)
<1> DEFINE q0 == req[w]
           x0 == act[q0.r][q0.a]
           x == [op |-> OperationOf(q0.phase), status |-> "pending", attempts |-> 1,
                 seconds |-> 0, expires |-> PendingUntil(q0.r)]
           q == [q0 EXCEPT !.pc = "call", !.attempt = 1]
<1>0. Serves(w) /\ q0.pc = "insert"
  BY DEF Insert, Serves, At
<1>1. q0 \in Requests /\ q0.r \in Reservations /\ q0.a \in ActionIds /\ x0 \in SoundActions
  BY <1>0, Served DEF IInv
<1>2. CASE CanInsert(w)
  <2>1. req' = [req EXCEPT ![w] = q] /\ act' = [act EXCEPT ![q0.r][q0.a] = x]
        /\ UNCHANGED <<now, answered>>
    BY <1>2 DEF Insert, SetAction
  <2>2. /\ q \in Requests /\ q.r = q0.r /\ q.a = q0.a /\ q.pc = "call"
        /\ q.seconds = q0.seconds /\ q.done = q0.done
    BY <1>1 DEF Requests, Pcs
  <2>3. /\ q0.done => x0.status = "succeeded"
        /\ q0.seconds = 0
    BY <1>0, <1>1 DEF IInv, ResultsAreCounted, Requests
  <2>4. x0.status = "absent" /\ EntitlementCount < EntitlementLimit
    BY <1>2 DEF CanInsert
  <2>5. x0.seconds = 0
    BY <1>1, <2>4 DEF SoundActions, IsSound
  <2>6. /\ x.status = "pending" /\ x.seconds = 0 /\ x.op \in Operations
        /\ x.attempts = 1 /\ x.expires \in Nat /\ x.expires <= Lifetime
        /\ x \in Actions
    <3>1. now \in Nat /\ PendingTTL \in Nat /\ Lifetime \in Nat
      BY MeteredAiAssumption DEF IInv, TablesOK
    <3>2. PendingUntil(q0.r) \in Nat /\ PendingUntil(q0.r) <= Lifetime
      BY <3>1 DEF PendingUntil, Min2
    <3>3. OperationOf(q0.phase) \in Operations
      BY DEF OperationOf, Operations
    <3> HIDE DEF q0
    <3> QED
      BY <3>2, <3>3 DEF Actions, Statuses
  <2>7. x \in SoundActions
    <3>1. Ceiling \in Nat /\ AttemptLimit \in [Operations -> Nat \ {0}]
      BY MeteredAiAssumption
    <3>2. 1 \in 1 .. AttemptLimit[x.op]
      BY <2>6, <3>1
    <3> HIDE DEF x
    <3> QED
      BY <2>6, <3>1, <3>2 DEF SoundActions, IsSound
  <2> HIDE DEF x, q
  <2>8. Becomes(x0, x)
    BY <2>4, <2>6, <2>7 DEF Becomes
  <2> HIDE DEF x0
  <2>9. Keeps(q0, q, x0, x)
    BY <2>2, <2>3, <2>4, <2>5, <2>6, <2>8 DEF Keeps
  <2> QED
    BY <1>0, <2>1, <2>9 DEF GoesOn, x0
<1>3. CASE ~CanInsert(w)
  <2>1. Goto(w, "release") /\ UNCHANGED <<now, act, answered>>
    BY <1>3 DEF Insert
  <2> QED
    BY <1>0, <2>1, JustGoes DEF Pcs
<1> QED
  BY <1>2, <1>3

LEMMA ContinueGoes ==
    ASSUME IInv, NEW w \in Workers, Continue(w)
    PROVE  GoesOn(w)
<1> DEFINE q0 == req[w]
           x0 == act[q0.r][q0.a]
           n == x0.attempts + 1
           until == PendingUntil(q0.r)
           x == [x0 EXCEPT !.attempts = n, !.expires = until]
           q == [q0 EXCEPT !.pc = "call", !.attempt = n]
<1>0. Serves(w) /\ q0.pc = "continue"
  BY DEF Continue, Serves, At
<1>1. q0 \in Requests /\ q0.r \in Reservations /\ q0.a \in ActionIds /\ x0 \in SoundActions
  BY <1>0, Served DEF IInv
<1>2. CASE CanContinue(w)
  <2>1. req' = [req EXCEPT ![w] = q] /\ act' = [act EXCEPT ![q0.r][q0.a] = x]
        /\ UNCHANGED <<now, answered>>
    BY <1>2 DEF Continue, SetAction
  <2>2. x0 \in Actions /\ x0.attempts \in Nat
    BY <1>1 DEF SoundActions, Actions
  <2>3. n \in Nat /\ n = x0.attempts + 1
    BY <2>2
  <2>4. until \in Nat /\ until <= Lifetime
    <3>1. now \in Nat /\ PendingTTL \in Nat /\ Lifetime \in Nat
      BY MeteredAiAssumption DEF IInv, TablesOK
    <3> QED
      BY <3>1 DEF PendingUntil, Min2
  <2> HIDE DEF n, until
  <2>5. /\ q \in Requests /\ q.r = q0.r /\ q.a = q0.a /\ q.pc = "call"
        /\ q.seconds = q0.seconds /\ q.done = q0.done
    BY <1>1, <2>3 DEF Requests, Pcs
  <2>6. /\ q0.done => x0.status = "succeeded"
        /\ q0.seconds = 0
    BY <1>0, <1>1 DEF IInv, ResultsAreCounted, Requests
  <2>7. /\ x0.status \in {"pending", "succeeded"} /\ x0.expires > now
        /\ x0.attempts < AttemptLimit[x0.op]
    BY <1>2 DEF CanContinue, IsCurrent
  <2>8. /\ x.status = x0.status /\ x.seconds = x0.seconds /\ x.op = x0.op
        /\ x.attempts = x0.attempts + 1 /\ x.expires <= Lifetime /\ x \in Actions
    <3> HIDE DEF x0
    <3> QED
      BY <2>2, <2>3, <2>4 DEF Actions
  <2>9. x \in SoundActions
    <3>1. x0.op \in Operations /\ x0.attempts >= 1 /\ x0.seconds <= Ceiling
      BY <1>1, <2>2, <2>7 DEF SoundActions, IsSound
    <3>2. AttemptLimit[x0.op] \in Nat
      BY <3>1, MeteredAiAssumption
    <3>3. x.attempts \in 1 .. AttemptLimit[x.op]
      BY <2>2, <2>7, <2>8, <3>1, <3>2
    <3> HIDE DEF x, x0
    <3> QED
      BY <2>7, <2>8, <3>1, <3>3 DEF SoundActions, IsSound
  <2> HIDE DEF x, q
  <2>10. Becomes(x0, x)
    BY <2>7, <2>8, <2>9 DEF Becomes, Counts
  <2> HIDE DEF x0
  <2>11. Keeps(q0, q, x0, x)
    BY <2>2, <2>5, <2>6, <2>8, <2>10 DEF Keeps, Actions
  <2> QED
    BY <1>0, <2>1, <2>11 DEF GoesOn, x0
<1>3. CASE ~CanContinue(w)
  <2>1. Goto(w, "release") /\ UNCHANGED <<now, act, answered>>
    BY <1>3 DEF Continue
  <2> QED
    BY <1>0, <2>1, JustGoes DEF Pcs
<1> QED
  BY <1>2, <1>3

\* A transcript is on its way to the page once its length is recorded, and it
\* is only recorded within the source.
LEMMA TranscriptGoes ==
    ASSUME IInv, NEW w \in Workers, TranscriptArrives(w)
    PROVE  GoesOn(w)
<1> DEFINE q0 == req[w]
           x0 == act[q0.r][q0.a]
<1>0. Serves(w) /\ q0.pc = "call"
  BY DEF TranscriptArrives, Serves, At
<1>1. q0 \in Requests /\ q0.r \in Reservations /\ q0.a \in ActionIds /\ x0 \in SoundActions
  BY <1>0, Served DEF IInv
<1>2. PICK s \in ChunkSeconds :
          IF CanRecord(w, s)
            THEN /\ SetAction(w, [x0 EXCEPT !.seconds = @ + s])
                 /\ req' = [req EXCEPT ![w].pc = "complete", ![w].seconds = s]
            ELSE /\ Goto(w, IF IsCurrent(x0) THEN "overrun" ELSE "fail")
                 /\ UNCHANGED act
  BY DEF TranscriptArrives
<1>3. UNCHANGED <<now, answered>>
  BY DEF TranscriptArrives
<1>4. CASE CanRecord(w, s)
  <2> DEFINE x == [x0 EXCEPT !.seconds = @ + s]
             q == [q0 EXCEPT !.pc = "complete", !.seconds = s]
  <2>1. req' = [req EXCEPT ![w] = q] /\ act' = [act EXCEPT ![q0.r][q0.a] = x]
    BY <1>2, <1>4 DEF SetAction
  <2>2. s \in Nat /\ x0 \in Actions /\ x0.seconds \in Nat
    BY <1>1, MeteredAiAssumption DEF SoundActions, Actions
  <2>3. /\ q \in Requests /\ q.r = q0.r /\ q.a = q0.a /\ q.pc = "complete"
        /\ q.seconds = s /\ q.done = q0.done
    BY <1>1, <2>2 DEF Requests, Pcs
  <2>4. /\ q0.done => x0.status = "succeeded"
        /\ q0.seconds = 0
    BY <1>0, <1>1 DEF IInv, ResultsAreCounted, Requests
  <2>5. /\ x0.status \in {"pending", "succeeded"} /\ x0.expires > now
        /\ x0.seconds + s <= Ceiling
    BY <1>4 DEF CanRecord, IsCurrent
  <2>6. /\ x.status = x0.status /\ x.seconds = x0.seconds + s /\ x.op = x0.op
        /\ x.attempts = x0.attempts /\ x.expires = x0.expires /\ x \in Actions
    <3> HIDE DEF x0
    <3> QED
      BY <2>2 DEF Actions
  <2> HIDE DEF x, q
  <2>7. Becomes(x0, x)
    BY <1>1, <2>5, <2>6 DEF Becomes, SoundActions, IsSound, Counts
  <2> HIDE DEF x0
  <2>8. Keeps(q0, q, x0, x)
    BY <2>2, <2>3, <2>4, <2>6, <2>7 DEF Keeps
  <2> QED
    BY <1>0, <1>3, <2>1, <2>8 DEF GoesOn, x0
<1>5. CASE ~CanRecord(w, s)
  <2> DEFINE pc == IF IsCurrent(x0) THEN "overrun" ELSE "fail"
  <2>1. pc \in Pcs
    BY DEF Pcs
  <2>2. Goto(w, pc) /\ UNCHANGED act
    BY <1>2, <1>5
  <2> HIDE DEF pc
  <2> QED
    BY <1>0, <1>3, <2>1, <2>2, JustGoes
<1> QED
  BY <1>4, <1>5

\* Every step that a request takes is one of the four kinds.
LEMMA RequestGoes ==
    ASSUME IInv, NEW w \in Workers, RequestStep(w)
    PROVE  GoesOn(w) \/ Delivers(w) \/ Ends(w)
<1>1. CASE Look(w)
  <2> DEFINE verdict == Verdict(req[w], act[req[w].r][req[w].a])
  <2>1. Goto(w, verdict) /\ verdict # "create" /\ UNCHANGED <<now, act, answered>>
    BY <1>1 DEF Look
  <2>2. verdict \in {"create", "release", "fail", "continue"}
    BY DEF Verdict
  <2>3. Serves(w) /\ req[w].pc = "look"
    BY <1>1 DEF Look, At, Serves
  <2> HIDE DEF verdict
  <2> QED
    BY <2>1, <2>2, <2>3, JustGoes DEF Pcs
<1>2. CASE Consume(w)
  <2>1. /\ Goto(w, "insert") \/ Goto(w, "release")
        /\ UNCHANGED <<now, act, answered>>
        /\ Serves(w) /\ req[w].pc = "look"
    BY <1>2 DEF Consume, At, Serves
  <2> QED
    BY <2>1, JustGoes DEF Pcs
<1>3. CASE TranscriptUnverifiable(w)
  BY <1>3, JustGoes DEF TranscriptUnverifiable, At, Serves, Pcs
<1>4. CASE CallFails(w)
  BY <1>4, FailingGoes DEF CallFails, At, Serves, Pcs
<1>5. CASE FailOverrun(w)
  BY <1>5, FailingGoes DEF FailOverrun, At, Serves, Pcs
<1>6. CASE Abandon(w)
  BY <1>6, FailingGoes DEF Abandon, At, Serves, Pcs
<1>7. CASE Block(w)
  BY <1>7, JustGoes DEF Block, At, Serves, Pcs
<1>8. CASE ScriptArrives(w)
  BY <1>8, SucceedingGoes, JustGoes DEF ScriptArrives, At, Serves, Pcs
<1>9. CASE SpeechArrives(w)
  BY <1>9, SucceedingGoes DEF SpeechArrives, At, Serves
<1>10. CASE Complete(w)
  BY <1>10, SucceedingGoes DEF Complete, At, Serves
<1>11. CASE Release(w)
  <2>1. CASE req[w].done
    BY <1>11, <2>1 DEF Release, At, Serves, Finish, Delivers
  <2>2. CASE ~req[w].done
    BY <1>11, <2>2 DEF Release, Finish, Ends
  <2> QED
    BY <2>1, <2>2
<1> QED
  BY <1>1, <1>2, <1>3, <1>4, <1>5, <1>6, <1>7, <1>8, <1>9, <1>10, <1>11,
     InsertGoes, ContinueGoes, TranscriptGoes DEF RequestStep

LEMMA AuthorizeBegins ==
    ASSUME NEW w \in Workers, NEW r \in Reservations, NEW a \in ActionIds,
           NEW phase \in PhaseNames, Authorize(w, r, a, phase)
    PROVE  Begins(w)
<1> DEFINE q == [pc |-> "look", r |-> r, a |-> a, phase |-> phase,
                 attempt |-> 0, seconds |-> 0, done |-> FALSE]
<1>1. req' = [req EXCEPT ![w] = q] /\ ~Serves(w) /\ UNCHANGED <<now, act, answered>>
  BY DEF Authorize, At, Serves
<1>2. q \in Requests /\ q.seconds = 0 /\ ~q.done
  BY DEF Requests, Pcs
<1> HIDE DEF q
<1> QED
  BY <1>1, <1>2 DEF Begins

\* Every step is one of a Worker's four kinds, or the clock's or the page's.
LEMMA StepGoes ==
    ASSUME IInv, Next
    PROVE  \/ \E w \in Workers : GoesOn(w) \/ Begins(w) \/ Ends(w) \/ Delivers(w)
           \/ UNCHANGED <<act, req, answered>> /\ now' >= now
<1>1. ASSUME NEW w \in Workers, NEW r \in Reservations, NEW a \in ActionIds,
             Transcribe(w, r, a) \/ WriteScript(w, r, a) \/ Speak(w, r, a)
      PROVE  Begins(w)
  BY <1>1, AuthorizeBegins DEF Transcribe, WriteScript, Speak, PhaseNames
<1>2. ASSUME NEW w \in Workers, WorkerDies(w) PROVE Ends(w)
  BY <1>2 DEF WorkerDies, Finish, Ends
<1>3. now \in Nat
  BY MeteredAiAssumption DEF IInv, TablesOK
<1>4. ASSUME NEW r \in Reservations, Leave(r)
      PROVE  UNCHANGED <<act, req, answered>> /\ now' >= now
  BY <1>3, <1>4 DEF Leave
<1>5. ASSUME Tick PROVE UNCHANGED <<act, req, answered>> /\ now' >= now
  BY <1>3, <1>5 DEF Tick
<1> QED
  BY <1>1, <1>2, <1>4, <1>5, RequestGoes DEF Next

-------------------------------------------------------------------------------
(* Types.                                                                   *)

LEMMA ActionWritten ==
    ASSUME TablesOK, NEW r \in Reservations, NEW a \in ActionIds, NEW x \in SoundActions,
           act' = [act EXCEPT ![r][a] = x]
    PROVE  /\ act' \in [Reservations -> [ActionIds -> SoundActions]]
           /\ act'[r][a] = x
           /\ \A s \in Reservations, b \in ActionIds :
                 s # r \/ b # a => act'[s][b] = act[s][b]
  BY DEF TablesOK

\* GoesOn, with the action it writes and those it leaves.
LEMMA GoingOn ==
    ASSUME IInv, NEW w \in Workers, GoesOn(w)
    PROVE  \E r \in Reservations, a \in ActionIds, q \in Requests, x \in SoundActions :
              /\ r = req[w].r /\ a = req[w].a /\ Serves(w)
              /\ Keeps(req[w], q, act[r][a], x)
              /\ req' = [req EXCEPT ![w] = q]
              /\ act' \in [Reservations -> [ActionIds -> SoundActions]]
              /\ act'[r][a] = x
              /\ \A s \in Reservations, b \in ActionIds :
                    s # r \/ b # a => act'[s][b] = act[s][b]
              /\ UNCHANGED <<now, answered>>
<1>1. PICK r, a : r = req[w].r /\ a = req[w].a
  OBVIOUS
<1>2. r \in Reservations /\ a \in ActionIds /\ Serves(w) /\ TablesOK
  BY <1>1, Served DEF GoesOn, IInv
<1>3. PICK q, x : /\ Keeps(req[w], q, act[r][a], x)
                  /\ req' = [req EXCEPT ![w] = q]
                  /\ act' = [act EXCEPT ![r][a] = x]
  BY <1>1 DEF GoesOn
<1>4. q \in Requests /\ x \in SoundActions
  BY <1>3 DEF Keeps, Becomes
<1>5. /\ act' \in [Reservations -> [ActionIds -> SoundActions]]
      /\ act'[r][a] = x
      /\ \A s \in Reservations, b \in ActionIds :
            s # r \/ b # a => act'[s][b] = act[s][b]
  BY <1>2, <1>3, <1>4, ActionWritten
<1>6. UNCHANGED <<now, answered>>
  BY DEF GoesOn
<1>7. /\ r \in Reservations /\ a \in ActionIds /\ q \in Requests /\ x \in SoundActions
  BY <1>2, <1>4
<1> USE <1>7
<1> WITNESS r \in Reservations, a \in ActionIds, q \in Requests, x \in SoundActions
<1> QED
  BY <1>1, <1>2, <1>3, <1>5, <1>6, Zenon

\* The tables beside those of actions, requests and answers.
LEMMA OtherTables ==
    ASSUME TablesOK, Next
    PROVE  /\ now' \in 0 .. MaxTime
           /\ resv' \in [Reservations -> [status : {"reserved", "completed", "released"},
                                          leaving : BOOLEAN]]
           /\ lease' \in [Reservations -> [holder : Workers \cup {Nobody}, expires : Nat]]
           /\ used' \in [Reservations -> [Operations -> Nat]]
           /\ \A r \in Reservations, o \in Operations : used'[r][o] <= OperationLimit[o]
           /\ blocked' \subseteq Reservations
<1> DEFINE Goal == /\ now' \in 0 .. MaxTime
                   /\ resv' \in [Reservations ->
                                   [status : {"reserved", "completed", "released"},
                                    leaving : BOOLEAN]]
                   /\ lease' \in [Reservations ->
                                    [holder : Workers \cup {Nobody}, expires : Nat]]
                   /\ used' \in [Reservations -> [Operations -> Nat]]
                   /\ \A r \in Reservations, o \in Operations :
                         used'[r][o] <= OperationLimit[o]
                   /\ blocked' \subseteq Reservations
<1>0. now \in Nat /\ LeaseTTL \in Nat /\ MaxTime \in Nat
  BY MeteredAiAssumption DEF TablesOK
<1>1. UNCHANGED <<now, resv, lease, used, blocked>> => Goal
  BY DEF TablesOK
<1>2. ASSUME NEW w \in Workers, NEW r \in Reservations, NEW a \in ActionIds,
             Transcribe(w, r, a) \/ WriteScript(w, r, a) \/ Speak(w, r, a)
      PROVE  Goal
  <2>1. /\ lease' = [lease EXCEPT ![r] = [holder |-> w, expires |-> now + LeaseTTL]]
        /\ UNCHANGED <<now, resv, used, blocked>>
    BY <1>2 DEF Transcribe, WriteScript, Speak, Authorize
  <2> QED
    BY <1>0, <2>1 DEF TablesOK
<1>3. ASSUME NEW w \in Workers, Consume(w) PROVE Goal
  <2> DEFINE r == req[w].r
             o == OperationOf(req[w].phase)
             n == used[r][o] + 1
  <2>1. /\ UNCHANGED <<now, resv, lease, blocked>>
        /\ UNCHANGED used \/ (used[r][o] < OperationLimit[o] /\ used' = [used EXCEPT ![r][o] = n])
    BY <1>3 DEF Consume
  <2>2. r \in Reservations /\ o \in Operations
    <3>1. req[w] \in Requests
      BY <1>3 DEF Consume, At, TablesOK, Idle
    <3> QED
      BY <3>1 DEF Requests, OperationOf, Operations
  <2>3. used[r][o] \in Nat /\ OperationLimit[o] \in Nat
    BY <2>2, MeteredAiAssumption DEF TablesOK
  <2>4. CASE used[r][o] < OperationLimit[o] /\ used' = [used EXCEPT ![r][o] = n]
    <3>1. n \in Nat /\ n <= OperationLimit[o]
      BY <2>3, <2>4
    <3> HIDE DEF n, r, o
    <3>2. used' \in [Reservations -> [Operations -> Nat]]
      BY <2>2, <2>4, <3>1 DEF TablesOK
    <3>3. \A s \in Reservations, p \in Operations : used'[s][p] <= OperationLimit[p]
      BY <2>2, <2>4, <3>1 DEF TablesOK
    <3> QED
      BY <2>1, <3>2, <3>3 DEF TablesOK
  <2> QED
    BY <1>1, <2>1, <2>4
<1>4. ASSUME NEW w \in Workers, Block(w) PROVE Goal
  <2>1. req[w].r \in Reservations
    <3>1. req[w] \in Requests
      BY <1>4 DEF Block, At, TablesOK, Idle
    <3> QED
      BY <3>1 DEF Requests
  <2> QED
    BY <1>4, <2>1 DEF Block, TablesOK
<1>5. ASSUME NEW w \in Workers, Release(w) PROVE Goal
  <2> DEFINE r == req[w].r
  <2>1. r \in Reservations
    <3>1. req[w] \in Requests
      BY <1>5 DEF Release, At, TablesOK, Idle
    <3> QED
      BY <3>1 DEF Requests
  <2>2. UNCHANGED <<now, used, blocked>>
    BY <1>5 DEF Release
  <2>3. lease' = [lease EXCEPT ![r] = IF lease[r].holder = w
                                        THEN [holder |-> Nobody, expires |-> 0] ELSE @]
    BY <1>5 DEF Release
  <2>4. \E leaves \in BOOLEAN :
           resv' = [resv EXCEPT ![r].status = IF leaves THEN "released" ELSE @]
    BY <1>5 DEF Release
  <2> HIDE DEF r
  <2>5. lease' \in [Reservations -> [holder : Workers \cup {Nobody}, expires : Nat]]
    BY <2>1, <2>3 DEF TablesOK
  <2>6. resv' \in [Reservations -> [status : {"reserved", "completed", "released"},
                                    leaving : BOOLEAN]]
    <3>1. PICK leaves \in BOOLEAN :
             resv' = [resv EXCEPT ![r].status = IF leaves THEN "released" ELSE @]
      BY <2>4
    <3>2. CASE leaves
      BY <2>1, <3>1, <3>2 DEF TablesOK
    <3>3. CASE ~leaves
      BY <2>1, <3>1, <3>3 DEF TablesOK
    <3> QED
      BY <3>2, <3>3
  <2> QED
    BY <2>2, <2>5, <2>6 DEF TablesOK
<1>6. ASSUME NEW w \in Workers, RequestStep(w) PROVE Goal
  <2>1. CASE Consume(w) \/ Block(w) \/ Release(w)
    BY <1>3, <1>4, <1>5, <2>1
  <2>2. CASE ~(Consume(w) \/ Block(w) \/ Release(w))
    <3>1. UNCHANGED <<now, resv, lease, used, blocked>>
      BY <1>6, <2>2 DEF RequestStep, Look, Insert, Continue, CallFails, TranscriptArrives,
         TranscriptUnverifiable, ScriptArrives, SpeechArrives, FailOverrun, Abandon, Complete
    <3> QED
      BY <1>1, <3>1
  <2> QED
    BY <2>1, <2>2
<1>7. ASSUME NEW r \in Reservations, Leave(r) PROVE Goal
  <2>1. /\ UNCHANGED <<now, lease, used, blocked>>
        /\ resv' = [resv EXCEPT ![r].leaving = TRUE,
                                ![r].status = IF LiveLease(r) THEN @ ELSE "released"]
    BY <1>7 DEF Leave
  <2> QED
    BY <2>1 DEF TablesOK
<1>8. ASSUME Tick PROVE Goal
  <2>1. now' \in 0 .. MaxTime
    BY <1>0, <1>8 DEF Tick
  <2> QED
    BY <1>8, <2>1 DEF Tick, TablesOK
<1>9. ASSUME NEW w \in Workers, WorkerDies(w) PROVE Goal
  BY <1>1, <1>9 DEF WorkerDies
<1> HIDE DEF Goal
<1>10. Goal
  BY <1>2, <1>6, <1>7, <1>8, <1>9 DEF Next
<1> QED
  BY <1>10 DEF Goal

LEMMA TablesStay ==
    ASSUME IInv, Next
    PROVE  TablesOK'
<1> DEFINE Answers == [attempts : SUBSET Nat, seconds : Nat]
<1>1. /\ act' \in [Reservations -> [ActionIds -> SoundActions]]
      /\ req' \in [Workers -> Requests \cup {Idle}]
      /\ answered' \in [Reservations -> [ActionIds -> Answers]]
  <2>1. CASE UNCHANGED <<act, req, answered>>
    BY <2>1 DEF IInv, TablesOK
  <2>2. ASSUME NEW w \in Workers, GoesOn(w)
        PROVE  /\ act' \in [Reservations -> [ActionIds -> SoundActions]]
               /\ req' \in [Workers -> Requests \cup {Idle}]
               /\ UNCHANGED answered
    <3>1. PICK q, x : /\ Keeps(req[w], q, act[req[w].r][req[w].a], x)
                      /\ req' = [req EXCEPT ![w] = q]
                      /\ act' = [act EXCEPT ![req[w].r][req[w].a] = x]
                      /\ UNCHANGED answered
      BY <2>2 DEF GoesOn
    <3>2. q \in Requests /\ x \in SoundActions
      BY <3>1 DEF Keeps, Becomes
    <3> QED
      BY <2>2, <3>1, <3>2, Served, ActionWritten DEF GoesOn, IInv, TablesOK
  <2>3. ASSUME NEW w \in Workers, Begins(w) \/ Ends(w)
        PROVE  req' \in [Workers -> Requests \cup {Idle}] /\ UNCHANGED <<act, answered>>
    BY <2>3 DEF Begins, Ends, IInv, TablesOK
  <2>4. ASSUME NEW w \in Workers, Delivers(w)
        PROVE  /\ req' \in [Workers -> Requests \cup {Idle}] /\ UNCHANGED act
               /\ answered' \in [Reservations -> [ActionIds -> Answers]]
    <3> DEFINE q == req[w]
               old == answered[q.r][q.a]
    <3>1. /\ q \in Requests /\ q.r \in Reservations /\ q.a \in ActionIds
          /\ q.attempt \in Nat /\ q.seconds \in Nat
      BY <2>4, Served DEF Delivers, IInv, Requests
    <3>2. answered' = [answered EXCEPT ![q.r][q.a] =
                         [old EXCEPT !.attempts = @ \cup {q.attempt}, !.seconds = @ + q.seconds]]
      BY <2>4, <3>1 DEF Delivers, IInv, TablesOK
    <3>3. [old EXCEPT !.attempts = @ \cup {q.attempt}, !.seconds = @ + q.seconds] \in Answers
      <4>1. old \in Answers
        BY <3>1 DEF IInv, TablesOK
      <4>2. old.attempts \in SUBSET Nat /\ old.seconds \in Nat
        BY <4>1
      <4> HIDE DEF q, old
      <4>3. old.attempts \cup {q.attempt} \in SUBSET Nat /\ old.seconds + q.seconds \in Nat
        BY <3>1, <4>2
      <4> QED
        BY <4>1, <4>3
    <3> HIDE DEF q, old, Answers
    <3>4. answered \in [Reservations -> [ActionIds -> Answers]]
      BY DEF IInv, TablesOK, Answers
    <3>5. answered' \in [Reservations -> [ActionIds -> Answers]]
      BY <3>1, <3>2, <3>3, <3>4
    <3> QED
      BY <2>4, <3>5 DEF Delivers, IInv, TablesOK
  <2> QED
    BY <2>1, <2>2, <2>3, <2>4, StepGoes DEF IInv, TablesOK
<1>2. TablesOK
  BY DEF IInv
<1> QED
  BY <1>1, <1>2, OtherTables DEF TablesOK

-------------------------------------------------------------------------------
(* The invariant is inductive.                                              *)

\* A success is for good.
LEMMA SuccessesStay ==
    ASSUME IInv, Next, NEW r \in Reservations, NEW a \in ActionIds,
           act[r][a].status = "succeeded"
    PROVE  act'[r][a].status = "succeeded"
<1>1. ASSUME NEW w \in Workers, GoesOn(w) PROVE act'[r][a].status = "succeeded"
  <2>1. PICK r0 \in Reservations, a0 \in ActionIds, q \in Requests, x \in SoundActions :
              /\ r0 = req[w].r /\ a0 = req[w].a /\ Serves(w)
              /\ Keeps(req[w], q, act[r0][a0], x)
              /\ req' = [req EXCEPT ![w] = q]
              /\ act'[r0][a0] = x
              /\ \A s \in Reservations, b \in ActionIds :
                    s # r0 \/ b # a0 => act'[s][b] = act[s][b]
              /\ UNCHANGED <<now, answered>>
    BY <1>1, GoingOn
  <2>2. act[r0][a0].status = "succeeded" => x.status = "succeeded"
    BY <2>1 DEF Keeps, Becomes
  <2> QED
    BY <2>1, <2>2
<1> QED
  BY <1>1, StepGoes DEF Begins, Ends, Delivers

\* What has been answered, at most, after a step.
LEMMA AnswersGo ==
    ASSUME IInv, NEW w \in Workers, Delivers(w), NEW r \in Reservations, NEW a \in ActionIds
    PROVE  /\ r = req[w].r /\ a = req[w].a =>
                answered'[r][a].seconds = answered[r][a].seconds + req[w].seconds
           /\ r # req[w].r \/ a # req[w].a => answered'[r][a] = answered[r][a]
<1> DEFINE r0 == req[w].r
           a0 == req[w].a
           old == answered[r0][a0]
           new == [old EXCEPT !.attempts = @ \cup {req[w].attempt},
                              !.seconds = @ + req[w].seconds]
<1>1. r0 \in Reservations /\ a0 \in ActionIds
  BY Served DEF Delivers, IInv
<1>2. answered \in [Reservations -> [ActionIds -> [attempts : SUBSET Nat, seconds : Nat]]]
  BY DEF IInv, TablesOK
<1>3. answered' = [answered EXCEPT ![r0][a0] = new]
  BY <1>1, <1>2 DEF Delivers
<1>4. new.seconds = old.seconds + req[w].seconds
  BY <1>1, <1>2
<1> HIDE DEF r0, a0, new
<1>5. answered'[r0][a0] = new
  BY <1>1, <1>2, <1>3
<1>6. r # r0 \/ a # a0 => answered'[r][a] = answered[r][a]
  BY <1>1, <1>2, <1>3
<1> QED
  BY <1>4, <1>5, <1>6 DEF r0, a0

LEMMA ResultsStayCounted ==
    ASSUME IInv, Next
    PROVE  ResultsAreCounted'
<1> SUFFICES ASSUME NEW v \in Workers, Serves(v)'
             PROVE  /\ req'[v].done => act'[req'[v].r][req'[v].a].status = "succeeded"
                    /\ req'[v].seconds # 0 => req'[v].pc \in {"complete", "release"}
  BY DEF ResultsAreCounted
<1>1. CASE req'[v] = req[v]
  <2>1. Serves(v)
    BY <1>1 DEF Serves
  <2>2. req[v].r \in Reservations /\ req[v].a \in ActionIds
    BY <2>1, Served DEF IInv
  <2>3. req[v].done => act[req[v].r][req[v].a].status = "succeeded"
    BY <2>1 DEF IInv, ResultsAreCounted
  <2> QED
    BY <1>1, <2>1, <2>2, <2>3, SuccessesStay DEF IInv, ResultsAreCounted
<1>2. ASSUME NEW w \in Workers, Begins(w), w = v
      PROVE  ~req'[v].done /\ req'[v].seconds = 0
  BY <1>2 DEF Begins, IInv, TablesOK
<1>3. ASSUME NEW w \in Workers, Ends(w) \/ Delivers(w), w = v PROVE FALSE
  <2>1. req'[v] = Idle
    BY <1>3 DEF Ends, Delivers, IInv, TablesOK
  <2> QED
    BY <2>1 DEF Serves, Idle
<1>4. ASSUME NEW w \in Workers, GoesOn(w), w = v
      PROVE  /\ req'[v].done => act'[req'[v].r][req'[v].a].status = "succeeded"
             /\ req'[v].seconds # 0 => req'[v].pc \in {"complete", "release"}
  <2>1. PICK q, x : /\ Keeps(req[w], q, act[req[w].r][req[w].a], x)
                    /\ req' = [req EXCEPT ![w] = q]
                    /\ act' = [act EXCEPT ![req[w].r][req[w].a] = x]
    BY <1>4 DEF GoesOn
  <2>2. x \in SoundActions
    BY <2>1 DEF Keeps, Becomes
  <2>3. req[w].r \in Reservations /\ req[w].a \in ActionIds
    BY <1>4, Served DEF GoesOn, IInv
  <2>4. act'[req[w].r][req[w].a] = x
    BY <2>1, <2>2, <2>3, ActionWritten DEF IInv
  <2>5. req'[v] = q
    BY <1>4, <2>1 DEF IInv, TablesOK
  <2> QED
    BY <2>1, <2>4, <2>5 DEF Keeps
<1>5. ASSUME NEW w \in Workers, GoesOn(w) \/ Begins(w) \/ Ends(w) \/ Delivers(w), w # v
      PROVE  req'[v] = req[v]
  BY <1>5 DEF GoesOn, Begins, Ends, Delivers, IInv, TablesOK
<1> QED
  BY <1>1, <1>2, <1>3, <1>4, <1>5, StepGoes

\* One request changes: so does what is on its way.
LEMMA CarriedOver ==
    ASSUME TablesOK, TablesOK', NEW w \in Workers, NEW q, req' = [req EXCEPT ![w] = q],
           NEW r \in Reservations, NEW a \in ActionIds
    PROVE  LET now1 == SumFunctionOnSet(Carried(r, a), Workers)
               then == SumFunctionOnSet(Carried(r, a)', Workers)
           IN  /\ now1 \in Nat /\ then \in Nat
               /\ then + Carried(r, a)[w] = now1 + Carried(r, a)'[w]
<1> DEFINE f == Carried(r, a)
           g == Carried(r, a)'
<1>1. \A v \in Workers : /\ Serves(v) => req[v].seconds \in Nat
                         /\ Serves(v)' => req'[v].seconds \in Nat
  BY DEF TablesOK, Serves, Idle, Requests
<1>2. f \in [Workers -> Nat] /\ g \in [Workers -> Nat]
  BY <1>1 DEF Carried
<1>3. \A v \in Workers \ {w} : f[v] = g[v]
  BY DEF Carried, TablesOK, Serves
<1> HIDE DEF f, g
<1>4. IsFiniteSet(Workers)
  BY MeteredAiAssumption
<1>5. /\ SumFunctionOnSet(f, Workers) \in Nat /\ SumFunctionOnSet(g, Workers) \in Nat
      /\ SumFunctionOnSet(g, Workers) + f[w] = SumFunctionOnSet(f, Workers) + g[w]
  BY <1>2, <1>3, <1>4, SumUpdated
<1> QED
  BY <1>5 DEF f, g

LEMMA TranscriptsStayRecorded ==
    ASSUME IInv, Next
    PROVE  TranscriptsAreRecorded'
<1> SUFFICES ASSUME NEW r \in Reservations, NEW a \in ActionIds
             PROVE  answered'[r][a].seconds + SumFunctionOnSet(Carried(r, a)', Workers)
                      <= act'[r][a].seconds
  BY DEF TranscriptsAreRecorded
<1> DEFINE then == SumFunctionOnSet(Carried(r, a)', Workers)
           sum == SumFunctionOnSet(Carried(r, a), Workers)
<1>0. TablesOK /\ TablesOK'
  BY TablesStay DEF IInv
<1>1. answered[r][a].seconds + sum <= act[r][a].seconds
  BY DEF IInv, TranscriptsAreRecorded
<1>2. /\ answered[r][a].seconds \in Nat /\ act[r][a].seconds \in Nat
      /\ act'[r][a].seconds \in Nat
  BY <1>0 DEF TablesOK, SoundActions, Actions
<1>3. CASE UNCHANGED <<act, req, answered>>
  <2>1. Carried(r, a)' = Carried(r, a)
    BY <1>3 DEF Carried, Serves
  <2> QED
    BY <1>1, <1>3, <2>1
<1>4. ASSUME NEW w \in Workers, NEW q, req' = [req EXCEPT ![w] = q]
      PROVE  /\ sum \in Nat /\ then \in Nat
             /\ then + Carried(r, a)[w] = sum + Carried(r, a)'[w]
             /\ req'[w] = q
             /\ Carried(r, a)[w] = IF Serves(w) /\ req[w].r = r /\ req[w].a = a
                                     THEN req[w].seconds ELSE 0
             /\ Carried(r, a)'[w] = IF q.pc # "idle" /\ q.r = r /\ q.a = a
                                      THEN q.seconds ELSE 0
             /\ Carried(r, a)[w] \in Nat
  <2>1. req'[w] = q
    BY <1>0, <1>4 DEF TablesOK
  <2>2. Serves(w) => req[w].seconds \in Nat
    BY <1>0, Served DEF Requests
  <2>3. /\ sum \in Nat /\ then \in Nat
        /\ then + Carried(r, a)[w] = sum + Carried(r, a)'[w]
    BY <1>0, <1>4, CarriedOver
  <2>4. Carried(r, a)[w] = IF Serves(w) /\ req[w].r = r /\ req[w].a = a
                             THEN req[w].seconds ELSE 0
    BY DEF Carried
  <2>5. Carried(r, a)'[w] = IF q.pc # "idle" /\ q.r = r /\ q.a = a
                              THEN q.seconds ELSE 0
    BY <2>1 DEF Carried, Serves
  <2> HIDE DEF sum, then
  <2> QED
    BY <2>1, <2>2, <2>3, <2>4, <2>5
<1> HIDE DEF sum, then
<1>5. ASSUME NEW w \in Workers, Begins(w)
      PROVE  answered'[r][a].seconds + then <= act'[r][a].seconds
  <2>1. PICK q \in Requests : q.seconds = 0 /\ req' = [req EXCEPT ![w] = q]
    BY <1>5 DEF Begins
  <2>2. UNCHANGED <<act, answered>> /\ ~Serves(w)
    BY <1>5 DEF Begins
  <2>3. /\ sum \in Nat /\ then \in Nat
        /\ then + Carried(r, a)[w] = sum + Carried(r, a)'[w]
        /\ Carried(r, a)[w] = 0
        /\ Carried(r, a)'[w] = IF q.pc # "idle" /\ q.r = r /\ q.a = a
                                 THEN q.seconds ELSE 0
    BY <1>4, <2>1, <2>2
  <2>4. then = sum
    BY <2>1, <2>3
  <2> QED
    BY <1>1, <2>2, <2>4
<1>6. ASSUME NEW w \in Workers, Ends(w)
      PROVE  answered'[r][a].seconds + then <= act'[r][a].seconds
  <2>1. then + Carried(r, a)[w] = sum /\ Carried(r, a)[w] \in Nat
        /\ sum \in Nat /\ then \in Nat
    <3>1. req' = [req EXCEPT ![w] = Idle]
      BY <1>6 DEF Ends
    <3>2. /\ sum \in Nat /\ then \in Nat /\ Carried(r, a)[w] \in Nat
          /\ then + Carried(r, a)[w] = sum + Carried(r, a)'[w]
          /\ Carried(r, a)'[w] = IF Idle.pc # "idle" /\ Idle.r = r /\ Idle.a = a
                                   THEN Idle.seconds ELSE 0
      BY <1>4, <3>1
    <3> QED
      BY <3>2 DEF Idle
  <2>2. UNCHANGED <<act, answered>>
    BY <1>6 DEF Ends
  <2> QED
    BY <1>1, <1>2, <2>1, <2>2
<1>7. ASSUME NEW w \in Workers, Delivers(w)
      PROVE  answered'[r][a].seconds + then <= act'[r][a].seconds
  <2>1. /\ then + Carried(r, a)[w] = sum /\ sum \in Nat /\ then \in Nat
        /\ Carried(r, a)[w] = IF req[w].r = r /\ req[w].a = a THEN req[w].seconds ELSE 0
    <3>1. req' = [req EXCEPT ![w] = Idle] /\ Serves(w)
      BY <1>7 DEF Delivers
    <3>2. /\ sum \in Nat /\ then \in Nat
          /\ then + Carried(r, a)[w] = sum + Carried(r, a)'[w]
          /\ Carried(r, a)[w] = IF Serves(w) /\ req[w].r = r /\ req[w].a = a
                                  THEN req[w].seconds ELSE 0
          /\ Carried(r, a)'[w] = IF Idle.pc # "idle" /\ Idle.r = r /\ Idle.a = a
                                   THEN Idle.seconds ELSE 0
      BY <1>4, <3>1
    <3>3. Carried(r, a)'[w] = 0
      BY <3>2 DEF Idle
    <3> QED
      BY <3>1, <3>2, <3>3
  <2>2. /\ UNCHANGED act
        /\ r = req[w].r /\ a = req[w].a =>
              answered'[r][a].seconds = answered[r][a].seconds + req[w].seconds
        /\ r # req[w].r \/ a # req[w].a => answered'[r][a] = answered[r][a]
    BY <1>7, AnswersGo DEF Delivers
  <2>3. req[w].seconds \in Nat
    BY <1>0, <1>7, Served DEF Delivers, Requests
  <2> QED
    BY <1>1, <1>2, <2>1, <2>2, <2>3
<1>8. ASSUME NEW w \in Workers, GoesOn(w)
      PROVE  answered'[r][a].seconds + then <= act'[r][a].seconds
  <2>1. PICK r0 \in Reservations, a0 \in ActionIds, q \in Requests, x \in SoundActions :
              /\ r0 = req[w].r /\ a0 = req[w].a /\ Serves(w)
              /\ Keeps(req[w], q, act[r0][a0], x)
              /\ req' = [req EXCEPT ![w] = q]
              /\ act'[r0][a0] = x
              /\ \A s \in Reservations, b \in ActionIds :
                    s # r0 \/ b # a0 => act'[s][b] = act[s][b]
              /\ UNCHANGED <<now, answered>>
    BY <1>8, GoingOn
  <2>2. /\ q.r = r0 /\ q.a = a0
        /\ x.seconds + req[w].seconds = act[r0][a0].seconds + q.seconds
    BY <2>1 DEF Keeps
  <2>3. req[w].seconds \in Nat /\ q.seconds \in Nat /\ q.pc # "idle"
    BY <1>0, <2>1, Served DEF Requests, Pcs
  <2>4. /\ sum \in Nat /\ then \in Nat
        /\ then + Carried(r, a)[w] = sum + Carried(r, a)'[w]
        /\ Carried(r, a)[w] = IF r0 = r /\ a0 = a THEN req[w].seconds ELSE 0
        /\ Carried(r, a)'[w] = IF r0 = r /\ a0 = a THEN q.seconds ELSE 0
    <3>1. req' = [req EXCEPT ![w] = q]
      BY <2>1
    <3>2. /\ sum \in Nat /\ then \in Nat
          /\ then + Carried(r, a)[w] = sum + Carried(r, a)'[w]
          /\ Carried(r, a)[w] = IF Serves(w) /\ req[w].r = r /\ req[w].a = a
                                  THEN req[w].seconds ELSE 0
          /\ Carried(r, a)'[w] = IF q.pc # "idle" /\ q.r = r /\ q.a = a
                                   THEN q.seconds ELSE 0
      BY <1>4, <3>1
    <3>3. Serves(w) /\ r0 = req[w].r /\ a0 = req[w].a
      BY <2>1
    <3> QED
      BY <2>2, <2>3, <3>2, <3>3
  <2>5. CASE r0 = r /\ a0 = a
    <3>1. then + req[w].seconds = sum + q.seconds
      BY <2>4, <2>5
    <3>2. act'[r][a].seconds + req[w].seconds = act[r][a].seconds + q.seconds
      BY <2>1, <2>2, <2>5
    <3>3. answered'[r][a].seconds = answered[r][a].seconds /\ sum \in Nat /\ then \in Nat
      BY <2>1, <2>4
    <3> QED
      BY <1>1, <1>2, <2>3, <3>1, <3>2, <3>3
  <2>6. CASE ~(r0 = r /\ a0 = a)
    <3>1. then = sum
      BY <2>4, <2>6
    <3>2. act'[r][a] = act[r][a] /\ answered'[r][a] = answered[r][a]
      BY <2>1, <2>6
    <3> QED
      BY <1>1, <3>1, <3>2
  <2> QED
    BY <2>5, <2>6
<1> QED
  BY <1>3, <1>5, <1>6, <1>7, <1>8, StepGoes DEF then

LEMMA AnswersStayCounted ==
    ASSUME IInv, Next
    PROVE  AnswersAreCounted'
<1> SUFFICES ASSUME NEW r \in Reservations, NEW a \in ActionIds,
                    answered'[r][a].attempts # {}
             PROVE  act'[r][a].status = "succeeded"
  BY DEF AnswersAreCounted
<1>1. CASE answered'[r][a] = answered[r][a]
  BY <1>1, SuccessesStay DEF IInv, AnswersAreCounted
<1>2. ASSUME NEW w \in Workers, Delivers(w), r = req[w].r, a = req[w].a
      PROVE  act'[r][a].status = "succeeded"
  BY <1>2, SuccessesStay DEF Delivers, IInv, ResultsAreCounted
<1> QED
  BY <1>1, <1>2, AnswersGo, StepGoes DEF GoesOn, Begins, Ends

\* The videos' actions that count are those that did, and one more if the
\* entitlement had room for it.
LEMMA EntitlementStays ==
    ASSUME IInv, Next
    PROVE  EntitlementWithinLimit'
<1> DEFINE P == Reservations \X ActionIds
           C == {p \in P : Counts(act[p[1]][p[2]])}
           D == {p \in P : Counts(act[p[1]][p[2]])'}
<1>1. IsFiniteSet(P)
  BY FS_Product, MeteredAiAssumption
<1>2. /\ IsFiniteSet(C) /\ IsFiniteSet(D)
      /\ Cardinality(C) \in Nat /\ Cardinality(D) \in Nat /\ EntitlementLimit \in Nat
  BY <1>1, FS_Subset, FS_CardinalityType, MeteredAiAssumption
<1>3. Cardinality(C) <= EntitlementLimit
  BY DEF IInv, EntitlementWithinLimit, EntitlementCount
<1>4. Cardinality(D) <= EntitlementLimit => EntitlementWithinLimit'
  BY DEF EntitlementWithinLimit, EntitlementCount
<1>5. CASE D \subseteq C
  <2> HIDE DEF C, D
  <2> QED
    BY <1>2, <1>3, <1>4, <1>5, FS_Subset
<1>6. ASSUME NEW p \in P, D \subseteq C \cup {p}, Cardinality(C) < EntitlementLimit
      PROVE  EntitlementWithinLimit'
  <2> HIDE DEF C, D
  <2>0. /\ IsFiniteSet(C \cup {p})
        /\ Cardinality(C \cup {p}) = IF p \in C THEN Cardinality(C) ELSE Cardinality(C) + 1
    BY <1>2, FS_AddElement
  <2>1. IsFiniteSet(C \cup {p}) /\ Cardinality(C \cup {p}) <= Cardinality(C) + 1
        /\ Cardinality(C \cup {p}) \in Nat
    BY <1>2, <2>0
  <2>2. Cardinality(D) <= Cardinality(C \cup {p})
    BY <1>6, <2>1, FS_Subset
  <2> QED
    BY <1>2, <1>4, <1>6, <2>1, <2>2
<1>7. CASE UNCHANGED act /\ now' >= now
  <2>1. \A p \in P : /\ act[p[1]][p[2]].expires \in Nat
                     /\ now \in Nat /\ now' \in Nat
    BY TablesStay, MeteredAiAssumption DEF IInv, TablesOK, SoundActions, Actions
  <2>2. D \subseteq C
    BY <1>7, <2>1 DEF Counts
  <2> QED
    BY <1>5, <2>2
<1>8. ASSUME NEW w \in Workers, GoesOn(w) PROVE EntitlementWithinLimit'
  <2>1. PICK r0 \in Reservations, a0 \in ActionIds, q \in Requests, x \in SoundActions :
              /\ r0 = req[w].r /\ a0 = req[w].a /\ Serves(w)
              /\ Keeps(req[w], q, act[r0][a0], x)
              /\ req' = [req EXCEPT ![w] = q]
              /\ act'[r0][a0] = x
              /\ \A s \in Reservations, b \in ActionIds :
                    s # r0 \/ b # a0 => act'[s][b] = act[s][b]
              /\ UNCHANGED <<now, answered>>
    BY <1>8, GoingOn
  <2>2. Counts(x) => Counts(act[r0][a0]) \/ Cardinality(C) < EntitlementLimit
    BY <2>1 DEF Keeps, Becomes, EntitlementCount
  <2>5. \A p \in P : p # <<r0, a0>> => act'[p[1]][p[2]] = act[p[1]][p[2]]
    BY <2>1
  <2>3. UNCHANGED now
    BY <2>1
  <2>6. D \subseteq C \cup {<<r0, a0>>}
    BY <2>3, <2>5 DEF Counts
  <2>7. <<r0, a0>> \in P
    OBVIOUS
  <2>8. <<r0, a0>> \in D => <<r0, a0>> \in C \/ Cardinality(C) < EntitlementLimit
    <3>1. <<r0, a0>> \in D => Counts(x)
      BY <2>1, <2>3 DEF Counts
    <3>2. Counts(act[r0][a0]) => <<r0, a0>> \in C
      BY <2>7
    <3> HIDE DEF C, D
    <3> QED
      BY <2>2, <3>1, <3>2
  <2> HIDE DEF C, D, P
  <2> QED
    BY <1>5, <1>6, <2>6, <2>7, <2>8
<1>9. ASSUME NEW w \in Workers, Begins(w) \/ Ends(w) \/ Delivers(w)
      PROVE  UNCHANGED act /\ now' >= now
  <2>1. UNCHANGED <<act, now>>
    BY <1>9 DEF Begins, Ends, Delivers
  <2> QED
    BY <2>1, MeteredAiAssumption DEF IInv, TablesOK
<1> QED
  BY <1>7, <1>8, <1>9, StepGoes

\* A sum of zeros.
LEMMA NothingCarried ==
    ASSUME Init, NEW r \in Reservations, NEW a \in ActionIds
    PROVE  SumFunctionOnSet(Carried(r, a), Workers) = 0
<1> DEFINE f == Carried(r, a)
<1>1. f = [w \in Workers |-> 0]
  BY DEF Carried, Serves, Init, Idle
<1> HIDE DEF f
<1> QED
  BY <1>1, SumOfZeros, MeteredAiAssumption DEF f

LEMMA AtFirst ==
    ASSUME Init
    PROVE  IInv
<1>1. TablesOK
  <2>1. NoAction \in SoundActions
    BY MeteredAiAssumption DEF NoAction, SoundActions, IsSound, Actions, Statuses
  <2> QED
    BY <2>1, MeteredAiAssumption DEF Init, TablesOK
<1>2. ResultsAreCounted
  BY DEF Init, ResultsAreCounted, Serves, Idle
<1>3. TranscriptsAreRecorded
  BY NothingCarried DEF Init, TranscriptsAreRecorded, NoAction
<1>4. EntitlementWithinLimit
  <2>1. \A r \in Reservations, a \in ActionIds : ~Counts(act[r][a])
    BY DEF Init, Counts, NoAction
  <2>2. {p \in Reservations \X ActionIds : Counts(act[p[1]][p[2]])} = {}
    BY <2>1
  <2>3. EntitlementLimit \in Nat
    BY MeteredAiAssumption
  <2> QED
    BY <2>2, <2>3, FS_EmptySet DEF EntitlementWithinLimit, EntitlementCount
<1>5. AnswersAreCounted
  BY DEF Init, AnswersAreCounted
<1> QED
  BY <1>1, <1>2, <1>3, <1>4, <1>5 DEF IInv

LEMMA Inductive ==
    ASSUME IInv, [Next]_vars
    PROVE  IInv'
<1>1. CASE Next
  BY <1>1, TablesStay, ResultsStayCounted, TranscriptsStayRecorded, EntitlementStays,
     AnswersStayCounted DEF IInv
<1>2. CASE UNCHANGED vars
  <2>1. UNCHANGED <<now, resv, lease, act, used, blocked, req, answered>>
    BY <1>2 DEF vars
  <2>2. TablesOK'
    BY <2>1 DEF IInv, TablesOK
  <2>3. ResultsAreCounted' /\ AnswersAreCounted'
    BY <2>1 DEF IInv, ResultsAreCounted, AnswersAreCounted, Serves
  <2>4. TranscriptsAreRecorded'
    BY <2>1 DEF IInv, TranscriptsAreRecorded, Carried, Serves
  <2>5. EntitlementWithinLimit'
    BY <2>1 DEF IInv, EntitlementWithinLimit, EntitlementCount, Counts
  <2> QED
    BY <2>2, <2>3, <2>4, <2>5 DEF IInv
<1> QED
  BY <1>1, <1>2

-------------------------------------------------------------------------------
(* Theorems.                                                                *)

\* The tables, the results on their way and the transcripts recorded for them
\* stay as IInv says through every request, retry, lapse and death of a Worker.
THEOREM Invariant == Spec => []IInv
<1> QED
  BY AtFirst, Inductive, PTL DEF Spec

\* The rows of the reservation, lease, action and operation tables keep their
\* types; no action has more attempts than its operation allows or is current
\* beyond its reservation, and no operation is counted past its limit.
THEOREM Types == Spec => []TypeOK
<1>1. IInv => TypeOK
  <2> SUFFICES ASSUME IInv PROVE TypeOK
    OBVIOUS
  <2>1. ASSUME NEW r \in Reservations, NEW a \in ActionIds
        PROVE  LET x == act[r][a] IN
               /\ x.op \in Operations \cup {"none"} /\ x.status \in Statuses
               /\ x.status # "absent" => x.attempts \in 1 .. AttemptLimit[x.op]
               /\ x.seconds \in Nat /\ x.expires \in Nat
               /\ x.status # "failed" => x.expires <= Lifetime
    BY DEF IInv, TablesOK, SoundActions, IsSound, Actions
  <2>2. ASSUME NEW r \in Reservations, NEW o \in Operations
        PROVE  used[r][o] \in 0 .. OperationLimit[o]
    <3>1. used[r][o] \in Nat /\ used[r][o] <= OperationLimit[o]
      BY DEF IInv, TablesOK
    <3> QED
      BY <3>1, MeteredAiAssumption
  <2> QED
    BY <2>1, <2>2 DEF IInv, TablesOK, TypeOK
<1> QED
  BY <1>1, Invariant, PTL

\* The insert of an action looks at all the videos of the entitlement, and no
\* retry revives an action that had left the count: however many reservations
\* an entitlement has, its AI actions stay within its limit.
THEOREM EntitlementsHold == Spec => []EntitlementWithinLimit
<1>1. IInv => EntitlementWithinLimit
  BY DEF IInv
<1> QED
  BY <1>1, Invariant, PTL

\* The page is given a result only of an action whose success is stored, and
\* the failure of a later chunk or attempt never takes it out of the count.
THEOREM AnswersCount == Spec => []AnswersAreCounted
<1>1. IInv => AnswersAreCounted
  BY DEF IInv
<1> QED
  BY <1>1, Invariant, PTL

\* The transcripts the page was given under one action were recorded before,
\* and none was recorded past the source it declared.
THEOREM TranscriptsFit == Spec => []TranscribedWithinSource
<1>1. IInv => TranscribedWithinSource
  <2> SUFFICES ASSUME IInv, NEW r \in Reservations, NEW a \in ActionIds
               PROVE  answered[r][a].seconds <= Ceiling
    BY DEF TranscribedWithinSource
  <2> DEFINE sum == SumFunctionOnSet(Carried(r, a), Workers)
  <2>1. sum \in Nat
    <3>1. \A v \in Workers : Serves(v) => req[v].seconds \in Nat
      BY DEF IInv, TablesOK, Serves, Idle, Requests
    <3>2. Carried(r, a) \in [Workers -> Nat]
      BY <3>1 DEF Carried
    <3> QED
      BY <3>2, SumType, MeteredAiAssumption
  <2>2. answered[r][a].seconds + sum <= act[r][a].seconds
    BY DEF IInv, TranscriptsAreRecorded
  <2>3. /\ answered[r][a].seconds \in Nat /\ act[r][a].seconds \in Nat
        /\ act[r][a].seconds <= Ceiling /\ Ceiling \in Nat
    BY MeteredAiAssumption DEF IInv, TablesOK, SoundActions, IsSound, Actions
  <2> HIDE DEF sum
  <2> QED
    BY <2>1, <2>2, <2>3
<1> QED
  BY <1>1, Invariant, PTL

\* The statement that marks an action failed looks for a pending one, and the
\* one that continues it keeps its status: no step takes a success back.
THEOREM SuccessIsForGood ==
    Spec => [][\A r \in Reservations, a \in ActionIds :
                  act[r][a].status = "succeeded" => act'[r][a].status = "succeeded"]_vars
<1> DEFINE Stays == \A r \in Reservations, a \in ActionIds :
                       act[r][a].status = "succeeded" => act'[r][a].status = "succeeded"
<1>1. IInv /\ [Next]_vars => [Stays]_vars
  BY SuccessesStay
<1> QED
  BY <1>1, Invariant, PTL DEF Spec
==============================================================================
