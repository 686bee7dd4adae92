------------------------------- MODULE MeteredAi -------------------------------
(***************************************************************************)
(* The metered AI actions of one user: authorizeMeteredAiOperation and its *)
(* relatives in lib/billing-store.ts, the statements on metered_ai_actions *)
(* in lib/operator-usage.ts, and the three routes that call a provider     *)
(* under them (transcribe, narration/script, narration/speech).            *)
(*                                                                         *)
(* A request takes the lease of its reservation, creates or continues the  *)
(* action the page named, calls the provider, records the result and gives *)
(* the lease back.  Each step is one SQL statement with the reads before   *)
(* it; between two steps any other request runs, the clock advances, or    *)
(* the Worker dies.  A statement and the clock reading it binds are one    *)
(* step.  The reservations are those of one entitlement; what the page may *)
(* do to one meanwhile (leave it, let it lapse) is taken from              *)
(* UsageReservation, where it is modelled statement by statement.          *)
(***************************************************************************)
EXTENDS Integers, FiniteSets, FiniteSetsExt

LOCAL INSTANCE TLC

CONSTANTS
    Reservations,   \* the user's rows of usage_reservations on one entitlement
    ActionIds,      \* aiOperationId values a page may send
    Workers,        \* concurrent Worker invocations
    Phases,         \* bound of the model: the kinds of request that arrive
    ChunkSeconds,   \* seconds a provider may report for a chunk
    Ceiling,        \* source seconds of a video and the tolerance
    SuccessLimit,   \* getAiOperationSuccessLimit, per video
    EntitlementLimit, \* successfulLimit of meteredAiEntitlementScope
    AttemptLimit,   \* METERED_AI_ACTION_ATTEMPT_LIMITS, by operation
    OperationLimit, \* OPERATOR_OPERATION_LIMITS, by operation
    LeaseTTL,       \* TRANSCRIPTION_LEASE_TTL_SECONDS (300)
    PendingTTL,     \* METERED_AI_ACTION_PENDING_TTL_SECONDS (900)
    Lifetime,       \* seconds the reservations still have
    MaxRequests,    \* bound of the model: the requests that arrive
    MaxTime         \* bound of the model: the clock stops here

Operations == {"transcribe", "narration_initial", "narration_speech"}

ASSUME MeteredAiAssumption ==
    /\ IsFiniteSet(Reservations) /\ IsFiniteSet(ActionIds) /\ IsFiniteSet(Workers)
    /\ ChunkSeconds \subseteq Nat
    /\ {Ceiling, SuccessLimit, EntitlementLimit} \subseteq Nat
    /\ AttemptLimit \in [Operations -> Nat \ {0}]
    /\ OperationLimit \in [Operations -> Nat]
    /\ {LeaseTTL, PendingTTL, Lifetime, MaxRequests, MaxTime} \subseteq Nat

VARIABLES
    now,      \* seconds
    resv,     \* usage_reservations
    lease,    \* usage_operation_leases with operation 'metered_ai'
    act,      \* metered_ai_actions, by reservation and action id
    used,     \* operator_usage_operations.count
    blocked,  \* reservations with usage_observed_durations.blocked_at
    req,      \* the request each Worker is serving
    answered, \* what the page has received for an action
    served    \* requests that have arrived

vars == <<now, resv, lease, act, used, blocked, req, answered, served>>

Nobody == "nobody"
NoAction == [op |-> "none", status |-> "absent", attempts |-> 0, seconds |-> 0, expires |-> 0]
Idle == [pc |-> "idle"]

Min2(a, b) == IF a < b THEN a ELSE b

(* The requests.  An initial narration is one action in up to four phases:  *)
(* script, speech, adjusted script, speech; the token the script's answer   *)
(* carries says which attempt the speech continues.                         *)
OperationOf(phase) ==
    CASE phase = "chunk"  -> "transcribe"
      [] phase = "single" -> "narration_speech"
      [] OTHER            -> "narration_initial"

AllowCreate(phase) == phase \in {"chunk", "single", "script"}

ContinuesFrom(phase, attempts) ==
    CASE phase = "script"       -> FALSE
      [] phase = "speech"       -> attempts = 1
      [] phase = "adjust"       -> attempts = 2
      [] phase = "adjustSpeech" -> attempts = 3
      [] OTHER                  -> TRUE

\* A succeeded action is reused by a chunk and by a phase of the bundle only.
ReusesSucceeded(phase) == phase # "single"

-------------------------------------------------------------------------------
(* The statements, as conditions on the tables.                             *)

IsLive(r) == resv[r].status \in {"reserved", "completed"} /\ Lifetime >= now
LiveLease(r) == lease[r].expires > now
HoldsLease(w, r) == lease[r].holder = w /\ LiveLease(r)
IsCurrent(x) == x.status \in {"pending", "succeeded"} /\ x.expires > now
Counts(x) == x.status = "succeeded" \/ (x.status = "pending" /\ x.expires > now)

VideoCount(r) == Cardinality({a \in ActionIds : Counts(act[r][a])})
VideoSuccesses(r) == Cardinality({a \in ActionIds : act[r][a].status = "succeeded"})

\* Released reservations stay in the count.
EntitlementCount == Cardinality({p \in Reservations \X ActionIds : Counts(act[p[1]][p[2]])})

CanAcquire(r) == IsLive(r) /\ ~resv[r].leaving /\ ~LiveLease(r)

\* Mutant: actions in progress on other videos are not counted.
CanInsertBesidePending(w) ==
    LET q == req[w] IN
    /\ IsLive(q.r)
    /\ HoldsLease(w, q.r)
    /\ act[q.r][q.a].status = "absent"
    /\ VideoCount(q.r) < SuccessLimit
    /\ Cardinality({p \in Reservations \X ActionIds :
                      act[p[1]][p[2]].status = "succeeded"}) < EntitlementLimit

CanInsert(w) ==
    LET q == req[w] IN
    /\ IsLive(q.r)
    /\ HoldsLease(w, q.r)
    /\ act[q.r][q.a].status = "absent"
    /\ VideoCount(q.r) < SuccessLimit
    /\ EntitlementCount < EntitlementLimit

\* Mutant: attempts are not limited.
CanContinueAgain(w) ==
    LET q == req[w] IN
    IsCurrent(act[q.r][q.a]) /\ IsLive(q.r) /\ HoldsLease(w, q.r)

CanContinue(w) ==
    LET q == req[w]
        x == act[q.r][q.a] IN
    /\ IsCurrent(x)
    /\ x.attempts < AttemptLimit[x.op]
    /\ IsLive(q.r)
    /\ HoldsLease(w, q.r)

CanSucceed(w) ==
    LET q == req[w]
        x == act[q.r][q.a] IN
    /\ IsCurrent(x)
    /\ IsLive(q.r)
    /\ HoldsLease(w, q.r)
    /\ x.status = "succeeded" \/ VideoSuccesses(q.r) < SuccessLimit

\* Mutant: any action, not only a pending one, can be marked failed.
CanFailAny(w) == HoldsLease(w, req[w].r)

CanFail(w) ==
    /\ act[req[w].r][req[w].a].status = "pending"
    /\ HoldsLease(w, req[w].r)

\* Mutant: the tolerance is granted to each chunk.
CanRecordPerChunk(w, s) ==
    LET q == req[w] IN
    /\ IsCurrent(act[q.r][q.a])
    /\ HoldsLease(w, q.r)
    /\ s <= Ceiling
    /\ IsLive(q.r)

CanRecord(w, s) ==
    LET q == req[w] IN
    /\ IsCurrent(act[q.r][q.a])
    /\ HoldsLease(w, q.r)
    /\ act[q.r][q.a].seconds + s <= Ceiling
    /\ IsLive(q.r)

PendingUntil(r) == Min2(Lifetime, now + PendingTTL)

-------------------------------------------------------------------------------
Init ==
    /\ now = 0
    /\ resv = [r \in Reservations |-> [status |-> "reserved", leaving |-> FALSE]]
    /\ lease = [r \in Reservations |-> [holder |-> Nobody, expires |-> 0]]
    /\ act = [r \in Reservations |-> [a \in ActionIds |-> NoAction]]
    /\ used = [r \in Reservations |-> [o \in Operations |-> 0]]
    /\ blocked = {}
    /\ served = 0
    /\ req = [w \in Workers |-> Idle]
    /\ answered = [r \in Reservations |->
                     [a \in ActionIds |-> [attempts |-> {}, seconds |-> 0]]]

At(w, pc) == req[w].pc = pc
Goto(w, pc) == req' = [req EXCEPT ![w].pc = pc]
Finish(w) == req' = [req EXCEPT ![w] = Idle]
SetAction(w, x) == act' = [act EXCEPT ![req[w].r][req[w].a] = x]

(* The routes up to authorizeMeteredAiOperation's lease.                    *)
\* The page has the token a speech or an adjusted script must present.
HasToken(r, a, phase) ==
    CASE phase \in {"speech", "adjust"} -> 1 \in answered[r][a].attempts
      [] phase = "adjustSpeech"         -> 3 \in answered[r][a].attempts
      [] OTHER                          -> TRUE

\* findOwnedUsageReservation, the first look at the block and the lease's own
\* statement are one step: that statement and Look decide all of it again.
Authorize(w, r, a, phase) ==
    /\ At(w, "idle")
    /\ served < MaxRequests
    /\ r \notin blocked
    /\ CanAcquire(r)
    /\ served' = served + 1
    /\ lease' = [lease EXCEPT ![r] = [holder |-> w, expires |-> now + LeaseTTL]]
    /\ req' = [req EXCEPT ![w] = [pc |-> "look", r |-> r, a |-> a, phase |-> phase,
                                  attempt |-> 0, seconds |-> 0, done |-> FALSE]]
    /\ UNCHANGED <<now, resv, act, used, blocked, answered>>

Transcribe(w, r, a) ==
    "chunk" \in Phases /\ Authorize(w, r, a, "chunk")

WriteScript(w, r, a) ==
    \E phase \in {"script", "adjust"} \cap Phases :
        HasToken(r, a, phase) /\ Authorize(w, r, a, phase)

Speak(w, r, a) ==
    \E phase \in {"single", "speech", "adjustSpeech"} \cap Phases :
        HasToken(r, a, phase) /\ Authorize(w, r, a, phase)

\* What the reads under the lease decide, in the code's order.
Verdict(q, x) ==
    CASE q.r \in blocked                                            -> "release"
      [] x.status = "absent" /\ ~AllowCreate(q.phase)               -> "release"
      [] /\ x.status = "absent" /\ q.phase = "script"
         /\ \E b \in ActionIds : act[q.r][b].op = "narration_initial" -> "release"
      [] x.status = "absent"                                        -> "create"
      [] x.op # OperationOf(q.phase) \/ x.status = "failed"         -> "release"
      [] x.status = "succeeded" /\ ~ReusesSucceeded(q.phase)        -> "release"
      [] x.expires <= now                                           -> "fail"
      [] ~ContinuesFrom(q.phase, x.attempts)                        -> "release"
      [] OTHER                                                      -> "continue"

Look(w) ==
    LET verdict == Verdict(req[w], act[req[w].r][req[w].a]) IN
    /\ At(w, "look") /\ verdict # "create"
    /\ Goto(w, verdict)
    /\ UNCHANGED <<now, resv, lease, act, used, blocked, answered, served>>

\* The legacy count is spent before the insert, which may still fail.
Consume(w) ==
    LET q == req[w]
        o == OperationOf(q.phase) IN
    /\ At(w, "look") /\ Verdict(q, act[q.r][q.a]) = "create"
    /\ IF /\ VideoCount(q.r) < SuccessLimit
          /\ EntitlementCount < EntitlementLimit
          /\ IsLive(q.r)
          /\ used[q.r][o] < OperationLimit[o]
         THEN /\ used' = [used EXCEPT ![q.r][o] = @ + 1]
              /\ Goto(w, "insert")
         ELSE Goto(w, "release") /\ UNCHANGED used
    /\ UNCHANGED <<now, resv, lease, act, blocked, answered, served>>

Insert(w) ==
    LET q == req[w] IN
    /\ At(w, "insert")
    /\ IF CanInsert(w)
         THEN /\ SetAction(w, [op |-> OperationOf(q.phase), status |-> "pending", attempts |-> 1,
                               seconds |-> 0, expires |-> PendingUntil(q.r)])
              /\ req' = [req EXCEPT ![w].pc = "call", ![w].attempt = 1]
         ELSE Goto(w, "release") /\ UNCHANGED act
    /\ UNCHANGED <<now, resv, lease, used, blocked, answered, served>>

Continue(w) ==
    LET x == act[req[w].r][req[w].a] IN
    /\ At(w, "continue")
    /\ IF CanContinue(w)
         THEN /\ SetAction(w, [x EXCEPT !.attempts = @ + 1, !.expires = PendingUntil(req[w].r)])
              /\ req' = [req EXCEPT ![w].pc = "call", ![w].attempt = x.attempts + 1]
         ELSE Goto(w, "release") /\ UNCHANGED act
    /\ UNCHANGED <<now, resv, lease, used, blocked, answered, served>>

(* The provider, and what each route does with its answer.                  *)
Failed(x) == [x EXCEPT !.status = "failed", !.expires = now]

MarkFailed(w) ==
    IF CanFail(w) THEN SetAction(w, Failed(act[req[w].r][req[w].a])) ELSE UNCHANGED act

\* completeMeteredAiOperation: without its row the page gets no result.
Succeed(w) ==
    /\ IF CanSucceed(w)
         THEN SetAction(w, [act[req[w].r][req[w].a] EXCEPT !.status = "succeeded"])
         ELSE UNCHANGED act
    /\ req' = [req EXCEPT ![w].pc = "release", ![w].done = CanSucceed(w)]

CallFails(w) ==
    /\ At(w, "call")
    /\ MarkFailed(w)
    /\ Goto(w, "release")
    /\ UNCHANGED <<now, resv, lease, used, blocked, answered, served>>

TranscriptArrives(w) ==
    /\ At(w, "call") /\ req[w].phase = "chunk"
    /\ \E s \in ChunkSeconds :
          IF CanRecord(w, s)
            THEN /\ SetAction(w, [act[req[w].r][req[w].a] EXCEPT !.seconds = @ + s])
                 /\ req' = [req EXCEPT ![w].pc = "complete", ![w].seconds = s]
            ELSE /\ Goto(w, IF IsCurrent(act[req[w].r][req[w].a]) THEN "overrun" ELSE "fail")
                 /\ UNCHANGED act
    /\ UNCHANGED <<now, resv, lease, used, blocked, answered, served>>

\* A length that is no number of seconds: the action fails unread.
TranscriptUnverifiable(w) ==
    /\ At(w, "call") /\ req[w].phase = "chunk"
    /\ Goto(w, "overrun")
    /\ UNCHANGED <<now, resv, lease, act, used, blocked, answered, served>>

\* A script that is neither the first nor the third attempt is out of order.
ScriptArrives(w) ==
    /\ At(w, "call") /\ req[w].phase \in {"script", "adjust"}
    /\ IF req[w].attempt \in {1, 3} THEN Succeed(w) ELSE Goto(w, "release") /\ UNCHANGED act
    /\ UNCHANGED <<now, resv, lease, used, blocked, answered, served>>

SpeechArrives(w) ==
    /\ At(w, "call") /\ req[w].phase \in {"single", "speech", "adjustSpeech"}
    /\ Succeed(w)
    /\ UNCHANGED <<now, resv, lease, used, blocked, answered, served>>

FailOverrun(w) ==
    /\ At(w, "overrun")
    /\ MarkFailed(w)
    /\ Goto(w, "block")
    /\ UNCHANGED <<now, resv, lease, used, blocked, answered, served>>

\* The block completes a reserved row, whoever holds its lease by now.
Block(w) ==
    LET r == req[w].r IN
    /\ At(w, "block")
    /\ blocked' = blocked \cup {r}
    /\ resv' = [resv EXCEPT ![r].status = IF @ = "reserved" THEN "completed" ELSE @]
    /\ Goto(w, "fail")
    /\ UNCHANGED <<now, lease, act, used, answered, served>>

Abandon(w) ==
    /\ At(w, "fail")
    /\ MarkFailed(w)
    /\ Goto(w, "release")
    /\ UNCHANGED <<now, resv, lease, used, blocked, answered, served>>

Complete(w) ==
    /\ At(w, "complete")
    /\ Succeed(w)
    /\ UNCHANGED <<now, resv, lease, used, blocked, answered, served>>

\* The lease goes back to the table only from its holder; a release the page
\* asked for meanwhile takes effect; then the page is answered.
Release(w) ==
    LET q == req[w]
        mine == lease[q.r].holder = w
        leaves == mine /\ resv[q.r].leaving /\ resv[q.r].status = "reserved"
    IN
    /\ At(w, "release")
    /\ lease' = [lease EXCEPT ![q.r] = IF mine THEN [holder |-> Nobody, expires |-> 0] ELSE @]
    /\ resv' = [resv EXCEPT ![q.r].status = IF leaves THEN "released" ELSE @]
    /\ answered' = IF q.done
                     THEN [answered EXCEPT ![q.r][q.a].attempts = @ \cup {q.attempt},
                                           ![q.r][q.a].seconds = @ + q.seconds]
                     ELSE answered
    /\ Finish(w)
    /\ UNCHANGED <<now, act, used, blocked, served>>

\* A terminated Worker leaves its lease and its pending action behind.
WorkerDies(w) ==
    /\ ~At(w, "idle")
    /\ Finish(w)
    /\ UNCHANGED <<now, resv, lease, act, used, blocked, answered, served>>

(* The page, and the clock.                                                 *)
Leave(r) ==
    /\ resv[r].status = "reserved" /\ ~resv[r].leaving
    /\ served < MaxRequests
    /\ served' = served + 1
    /\ resv' = [resv EXCEPT ![r].leaving = TRUE,
                            ![r].status = IF LiveLease(r) THEN @ ELSE "released"]
    /\ UNCHANGED <<now, lease, act, used, blocked, req, answered>>

Tick ==
    /\ now < MaxTime
    /\ now' = now + 1
    /\ UNCHANGED <<resv, lease, act, used, blocked, req, answered, served>>

RequestStep(w) ==
    \/ Look(w) \/ Consume(w) \/ Insert(w) \/ Continue(w)
    \/ CallFails(w) \/ TranscriptArrives(w) \/ TranscriptUnverifiable(w)
    \/ ScriptArrives(w) \/ SpeechArrives(w)
    \/ FailOverrun(w) \/ Block(w) \/ Abandon(w) \/ Complete(w) \/ Release(w)

Next ==
    \/ \E w \in Workers :
          \/ \E r \in Reservations, a \in ActionIds :
                Transcribe(w, r, a) \/ WriteScript(w, r, a) \/ Speak(w, r, a)
          \/ RequestStep(w)
          \/ WorkerDies(w)
    \/ \E r \in Reservations : Leave(r)
    \/ Tick

Spec == Init /\ [][Next]_vars

-------------------------------------------------------------------------------
Statuses == {"absent", "pending", "succeeded", "failed"}

\* Types of the tables and of the answers; an action never has more attempts
\* than its operation allows, and is never current beyond its reservation.
TypeOK ==
    /\ now \in 0 .. MaxTime
    /\ resv \in [Reservations -> [status : {"reserved", "completed", "released"},
                                  leaving : BOOLEAN]]
    /\ lease \in [Reservations -> [holder : Workers \cup {Nobody}, expires : Nat]]
    /\ \A r \in Reservations, a \in ActionIds :
          LET x == act[r][a] IN
          /\ x.op \in Operations \cup {"none"} /\ x.status \in Statuses
          /\ x.status # "absent" => x.attempts \in 1 .. AttemptLimit[x.op]
          /\ x.seconds \in Nat /\ x.expires \in Nat
          /\ x.status # "failed" => x.expires <= Lifetime
    /\ \A r \in Reservations, o \in Operations : used[r][o] \in 0 .. OperationLimit[o]
    /\ blocked \subseteq Reservations

\* The successes and the actions in progress of all the reservations of an
\* entitlement, released ones included, stay within its limit, whichever
\* requests race over the reservations and whatever Workers die.
EntitlementWithinLimit == EntitlementCount <= EntitlementLimit

\* Whatever the page was given is counted for good: a result is delivered only
\* once its action has succeeded, and no later chunk, retry or late failure
\* takes the success back.
AnswersAreCounted ==
    \A r \in Reservations, a \in ActionIds :
        answered[r][a].attempts # {} => act[r][a].status = "succeeded"

\* The transcripts delivered under one action never add up to more than the
\* declared source and one tolerance, over chunks, retries and Workers.
TranscribedWithinSource ==
    \A r \in Reservations, a \in ActionIds : answered[r][a].seconds <= Ceiling
-------------------------------------------------------------------------------
(* The small instance that is model-checked.                                *)

AttemptLimits == [o \in Operations |-> IF o = "narration_initial" THEN 4 ELSE 2]
OperationLimits == [o \in Operations |-> IF o = "narration_initial" THEN 1 ELSE 2]

Symmetry == Permutations(Reservations) \cup Permutations(ActionIds) \cup Permutations(Workers)
===============================================================================
