------------------------------ MODULE MCAccounts ------------------------------
(* The components that keep a customer's account, each on its small        *)
(* instance: they share no state in the code as modelled, so a behaviour   *)
(* is one of a single component, chosen at the start, and the others rest. *)
EXTENDS OperatorAccess

CONSTANTS
    \* AccountDeletion
    Users, Executors, BatchLimit, AbortIsRepeatable, MaxMoves, MaxFailures,
    \* TrialTransfer
    Devices, Members, Videos, Length, FreeVideos, FreeSeconds, IssuanceLimit, MaxVisits,
    \* AccountSessions
    Accounts, Passkeys, Subjects, Browsers, MaxPasskeys, MaxSessions,
    \* AuthenticationGate
    Attempts

VARIABLES
    component,
    \* AccountDeletion
    account, request, line, contract, dispute, usage, media, exec, moves, failures,
    \* TrialTransfer
    trialRow, fingerprint, recent, video, visit, signIn, visits,
    \* AccountSessions
    credential, closed, session, made, cookie, ceremony, purged,
    \* AuthenticationGate
    open, settled, signedIn, away, busy, passkey, lineAttempt, run, popup, said,
    tab, recovery, asking, begun

Deletion == INSTANCE AccountDeletion
Trial == INSTANCE TrialTransfer
Sessions == INSTANCE AccountSessions
Gate == INSTANCE AuthenticationGate WITH line <- lineAttempt

\* Names of rows, and the marks of an empty column, are not names of anybody.
ASSUME AccountsAssumption ==
    /\ IsFiniteSet(Users) /\ BatchLimit \in Nat \ {0}
    /\ IsFiniteSet(Videos) /\ Length \in [Videos -> Nat]
    /\ FreeVideos \in Nat /\ FreeSeconds \in Nat
    /\ Devices \cap Members = {} /\ {"none", "unbound", "noone"} \cap (Devices \cup Members) = {}
    /\ Passkeys # {} /\ IsFiniteSet(Passkeys) /\ Passkeys \cap Subjects = {}
    /\ {"unknown", "removed"} \cap (Accounts \cup Passkeys \cup Subjects) = {}
    /\ MaxSessions \in Nat \ {0}
    /\ Attempts \subseteq Nat \ {0}

\* Of the videos of the instance one is longer.
MCLength == LET long == CHOOSE v \in Videos : TRUE IN [v \in Videos |-> IF v = long THEN 2 ELSE 1]

-------------------------------------------------------------------------------
deletion == <<account, request, line, contract, dispute, usage, media, exec, moves, failures>>
trial == <<trialRow, fingerprint, recent, video, visit, signIn, visits>>
sessions == <<credential, closed, session, made, cookie, ceremony, purged>>
gate == <<open, settled, signedIn, away, busy, passkey, lineAttempt, run, popup, said,
          tab, recovery, asking, begun>>

others(c) ==
    /\ c # "operators" => UNCHANGED ovars
    /\ c # "deletion" => UNCHANGED deletion
    /\ c # "trial" => UNCHANGED trial
    /\ c # "sessions" => UNCHANGED sessions
    /\ c # "gate" => UNCHANGED gate

Only(c) == component = c /\ UNCHANGED component /\ others(c)

AccountsInit ==
    /\ component \in {"operators", "deletion", "trial", "sessions", "gate"}
    /\ Init /\ Deletion!Init /\ Trial!Init /\ Sessions!Init /\ Gate!Init
    /\ component = "sessions" \/ made = 0  \* of its two initial states

AccountsNext ==
    \/ Only("operators") /\ Next
    \/ Only("deletion") /\ Deletion!Next
    \/ Only("trial") /\ Trial!Next
    \/ Only("sessions") /\ Sessions!Next
    \/ Only("gate") /\ Gate!Next

allvars == <<component, ovars, deletion, trial, sessions, gate>>

\* Each component has the fairness of its own specification.
DeletionFairness ==
    /\ WF_allvars(Only("deletion") /\ Deletion!TimePasses)
    /\ \A x \in Executors : WF_allvars(Only("deletion") /\ Deletion!ExecutorStep(x))

GateFairness ==
    /\ \A i \in Attempts : WF_allvars(Only("gate") /\ run[i] # "credential" /\ Gate!Continues(i))
    /\ WF_allvars(Only("gate") /\ Gate!StopPasskey)
    /\ \A how \in {"poll", "return", "passkey"} : WF_allvars(Only("gate") /\ Gate!AnswersOf(how))
    /\ WF_allvars(Only("gate") /\ Gate!Overdue) /\ WF_allvars(Only("gate") /\ Gate!Poll)
    /\ WF_allvars(Only("gate") /\ Gate!StopWaiting) /\ WF_allvars(Only("gate") /\ Gate!Recover)

AccountsSpec ==
    AccountsInit /\ [][AccountsNext]_allvars /\ DeletionFairness /\ GateFairness

-------------------------------------------------------------------------------
\* Types of the tables, cookies and attempts of every component.
AccountsTypeOK == TypeOK /\ Deletion!TypeOK /\ Trial!TypeOK /\ Sessions!TypeOK /\ Gate!TypeOK

\* AccountDeletion: an account goes only when its request is claimed and Stripe
\* owes nothing more.  AccountSessions: a step-up or registration never brings
\* back a browser signed out meanwhile.
NothingOnStaleGrounds == Deletion!DeletedOnlyWhenSettled /\ Sessions!SignedOutStaysOut

\* AccountDeletion: no bytes without the row that names them.  TrialTransfer:
\* one trial for a device and its account, and no work lost when it is bound.
NothingLeftBehind ==
    Deletion!NoMediaLeftBehind /\ Trial!OneTrialEach /\ Trial!NothingStaysBehind

\* AccountSessions: an account keeps a way in, and a removed passkey none.
\* OperatorAccess: the cap on operator devices and on guesses of their code.
WaysIn ==
    Sessions!AlwaysAWayIn /\ Sessions!NoSessionOfARemovedPasskey /\ OperatorsAreFew

\* AuthenticationGate: the dialog blocks the page exactly for its attempt.
BlockedByItsAttempt == Gate!BlockedByItsAttempt

\* AccountDeletion: a deletion that is due and settled is carried out.
\* AuthenticationGate: no attempt blocks the page for good.
NothingHangs == Deletion!DueDeletionHappens /\ Gate!NeverStuck
===============================================================================
