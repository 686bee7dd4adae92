---------------------------- MODULE OperatorAccess ----------------------------
(***************************************************************************)
(* Operator devices: lib/operator-access.ts, lib/operator-enrollment-      *)
(* throttle.ts and the routes under app/api/operator.  An enrollment looks *)
(* whether its network is blocked, compares the code, clears or counts the *)
(* failures and only then takes a slot; requests overlap at every step.    *)
(***************************************************************************)
EXTENDS Integers, Sequences, FiniteSets, SequencesExt

CONSTANTS
    Terminals,    \* browsers, each with at most one operator cookie
    DeviceLimit,  \* OPERATOR_DEVICE_LIMIT
    MaxAttempts,  \* OPERATOR_ENROLLMENT_MAX_ATTEMPTS
    MaxEnrolls    \* bound of the model: enrollment requests

ASSUME OperatorAssumption ==
    /\ IsFiniteSet(Terminals)
    /\ DeviceLimit \in Nat \ {0}
    /\ MaxAttempts \in Nat \ {0}

VARIABLES
    devices,   \* operator_devices in force, by activated_at
    terminal,  \* what each terminal's enrollment is at
    attempts,  \* failures counted in the window
    over,      \* the window began fifteen minutes ago or earlier
    blocked,   \* blocked_until is ahead
    guesses,   \* history: wrong codes of the window since the last right one
    enrolls

ovars == <<devices, terminal, attempts, over, blocked, guesses, enrolls>>
throttle == <<attempts, over, blocked, guesses>>

Init ==
    /\ devices = <<>>
    /\ terminal = [t \in Terminals |-> "idle"]
    /\ attempts = 0 /\ over = FALSE /\ blocked = FALSE /\ guesses = 0
    /\ enrolls = 0

Holds(t) == \E i \in DOMAIN devices : devices[i] = t
Goto(t, place) == terminal' = [terminal EXCEPT ![t] = place]

\* POST enroll as far as the look at the block.
Enroll(t) ==
    /\ terminal[t] = "idle" /\ ~blocked
    /\ enrolls < MaxEnrolls /\ enrolls' = enrolls + 1
    /\ Goto(t, "compare")
    /\ UNCHANGED <<devices, throttle>>

\* Mutant: the window blocks one failure late.
BlocksLate(n) == n > MaxAttempts

Blocks(n) == n >= MaxAttempts

\* recordOperatorEnrollmentFailure, one statement.  A failure after the end of
\* the window opens the next one, and lifts a block that was still running.
WrongCode(t) ==
    /\ terminal[t] = "compare"
    /\ attempts' = IF over THEN 1 ELSE attempts + 1
    /\ guesses' = IF over THEN 1 ELSE guesses + 1
    /\ blocked' = Blocks(attempts')
    /\ over' = FALSE
    /\ Goto(t, "idle")
    /\ UNCHANGED <<devices, enrolls>>

\* clearOperatorEnrollmentFailures.
Clear == attempts' = 0 /\ over' = FALSE /\ blocked' = FALSE /\ guesses' = 0

\* A right code clears the failures, and a terminal that has a slot keeps it.
RightCode(t) ==
    /\ terminal[t] = "compare"
    /\ Clear
    /\ Goto(t, IF Holds(t) THEN "idle" ELSE "activate")
    /\ UNCHANGED <<devices, enrolls>>

WindowEnds ==
    /\ attempts > 0 /\ ~over
    /\ over' = TRUE
    /\ UNCHANGED <<devices, terminal, attempts, blocked, guesses, enrolls>>

\* The block began after its window did.
BlockEnds ==
    /\ blocked /\ over
    /\ blocked' = FALSE
    /\ UNCHANGED <<devices, terminal, attempts, over, guesses, enrolls>>

\* Mutant: the cap is compared after the slot is taken.
HasRoomAfter == Len(devices) <= DeviceLimit

\* activateOperatorDevice: one statement inserts below the cap ...
HasRoom == Len(devices) < DeviceLimit

Activate(t) ==
    /\ terminal[t] = "activate"
    /\ \/ /\ HasRoom
          /\ devices' = Append(devices, t)
          /\ Goto(t, "idle") /\ UNCHANGED throttle
       \/ /\ ~HasRoom
          /\ Goto(t, "idle") /\ Clear
          /\ UNCHANGED devices
       \/ /\ ~HasRoom
          /\ Goto(t, "replace")
          /\ UNCHANGED <<devices, throttle>>
    /\ UNCHANGED enrolls

\* ... and another one, when asked for, gives it the oldest slot there is.
Replace(t) ==
    /\ terminal[t] = "replace"
    /\ Goto(t, "idle")
    /\ IF devices = <<>>
         THEN Clear /\ UNCHANGED devices
         ELSE devices' = Append(Tail(devices), t) /\ UNCHANGED throttle
    /\ UNCHANGED enrolls

\* revokeOperatorDevice by its holder, or 180 days.
RevokeOrExpire(i) ==
    /\ devices' = RemoveAt(devices, i)
    /\ UNCHANGED <<terminal, throttle, enrolls>>

Next ==
    \/ \E t \in Terminals :
          \/ Enroll(t) \/ WrongCode(t) \/ RightCode(t)
          \/ Activate(t) \/ Replace(t)
    \/ \E i \in DOMAIN devices : RevokeOrExpire(i)
    \/ WindowEnds \/ BlockEnds

Spec == Init /\ [][Next]_ovars

-------------------------------------------------------------------------------
TypeOK ==
    /\ \A i \in DOMAIN devices : devices[i] \in Terminals
    /\ terminal \in [Terminals -> {"idle", "compare", "activate", "replace"}]
    /\ attempts \in Nat /\ guesses \in Nat /\ enrolls \in Nat
    /\ over \in BOOLEAN /\ blocked \in BOOLEAN

\* However many terminals enroll at once, no more devices than the cap are in
\* force; and in one window a network has at most the allowed wrong codes
\* compared, and those of the requests that were past the look at the block.
CapHolds == Len(devices) <= DeviceLimit
Comparing == {t \in Terminals : terminal[t] = "compare"}
GuessesAreBounded ==
    /\ blocked => attempts >= MaxAttempts
    /\ ~over =>
          /\ attempts >= MaxAttempts => blocked
          /\ guesses + Cardinality(Comparing) <= MaxAttempts - 1 + Cardinality(Terminals)
OperatorsAreFew == CapHolds /\ GuessesAreBounded
===============================================================================
