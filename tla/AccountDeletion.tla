---------------------------- MODULE AccountDeletion ----------------------------
(***************************************************************************)
(* The deletion of accounts: app/api/account/deletion/route.ts, which      *)
(* books and cancels it, and lib/account-deletion-executor.ts, which a     *)
(* daily cron (workers/account-deletion-scheduler.mjs) and an operator run *)
(* over the requests that are due, a bounded batch at a time.              *)
(*                                                                         *)
(* An executor claims a request, looks for what forbids the deletion in    *)
(* the tables and at Stripe, removes the media from R2 and then all rows   *)
(* in one batch.  Between these steps the customer goes on using the       *)
(* account.  The thirty days of grace and the thirty minutes of a claim    *)
(* are steps of their own.                                                 *)
(***************************************************************************)
EXTENDS Integers, Sequences, FiniteSets

CONSTANTS
    Users,
    Executors,       \* concurrent runs: the cron and an operator
    BatchLimit,      \* requests of one run
    AbortIsRepeatable, \* R2 accepts the abort of an upload already aborted
    MaxMoves,        \* bound of the model: what customers do
    MaxFailures      \* bound of the model: deaths and failed calls

VARIABLES
    account,   \* users: live or deleted
    request,   \* account_deletion_requests
    line,      \* users with a request, by execute_after
    contract,  \* at Stripe: none, checkout, live, ended
    dispute,   \* at Stripe: customers with an open dispute
    usage,     \* customers with a live reservation, lease or pending action
    media,     \* the customer's video_transfers row and its bytes in R2
    exec,      \* what each executor is at
    moves, failures

dvars == <<account, request, line, contract, dispute, usage, media, exec, moves, failures>>
customer == <<contract, dispute, usage, media>>

Nobody == "nobody"
NoRequest == [status |-> "none", due |-> FALSE, lapsed |-> FALSE, token |-> Nobody]
NoMedia == [row |-> "absent", bytes |-> "none", late |-> FALSE]
Resting == [pc |-> "idle", batch |-> <<>>, seen |-> "absent"]

Init ==
    /\ account = [u \in Users |-> "live"]
    /\ request = [u \in Users |-> NoRequest]
    /\ line = <<>>
    /\ contract = [u \in Users |-> "none"]
    /\ dispute = {}
    /\ usage = {}
    /\ media = [u \in Users |-> NoMedia]
    /\ exec = [x \in Executors |-> Resting]
    /\ moves = 0
    /\ failures = 0

Move == moves < MaxMoves /\ moves' = moves + 1
Failure == failures < MaxFailures /\ failures' = failures + 1
Booked(u) == request[u].status \in {"scheduled", "processing"}

-------------------------------------------------------------------------------
(* The customer.                                                            *)

\* The check at Stripe and the statement are one step: the executor checks
\* again when the grace is over.  A booking made anew starts a new grace.
Schedule(u) ==
    /\ account[u] = "live" /\ contract[u] # "live"
    /\ request[u].status \in {"none", "scheduled", "cancelled"}
    /\ Move
    /\ request' = [request EXCEPT ![u] = [NoRequest EXCEPT !.status = "scheduled"]]
    /\ line' = Append(SelectSeq(line, LAMBDA v : v # u), u)
    /\ UNCHANGED <<account, customer, exec, failures>>

Cancel(u) ==
    /\ account[u] = "live"
    /\ request[u].status = "scheduled"
    /\ Move
    /\ request' = [request EXCEPT ![u].status = "cancelled"]
    /\ UNCHANGED <<account, line, customer, exec, failures>>

\* Mutant: a booked deletion does not stop a purchase.
MayBuyAnyway(u) == account[u] = "live"
MayBuy(u) == account[u] = "live" /\ ~Booked(u)

OpenCheckout(u) ==
    /\ MayBuy(u) /\ contract[u] \in {"none", "ended"}
    /\ Move
    /\ contract' = [contract EXCEPT ![u] = "checkout"]
    /\ UNCHANGED <<account, request, line, dispute, usage, media, exec, failures>>

\* A checkout opened before the booking may be paid after it.
PayCheckout(u) ==
    /\ contract[u] = "checkout"
    /\ contract' = [contract EXCEPT ![u] = "live"]
    /\ UNCHANGED <<account, request, line, dispute, usage, media, exec, moves, failures>>

CheckoutOrContractEnds(u) ==
    /\ contract[u] \in {"checkout", "live"}
    /\ contract' = [contract EXCEPT ![u] = "ended"]
    /\ UNCHANGED <<account, request, line, dispute, usage, media, exec, moves, failures>>

Dispute(u) ==
    /\ account[u] = "live"
    /\ Move
    /\ dispute' = IF u \in dispute THEN dispute \ {u} ELSE dispute \cup {u}
    /\ UNCHANGED <<account, request, line, contract, usage, media, exec, failures>>

Use(u) ==
    /\ account[u] = "live"
    /\ IF u \in usage THEN UNCHANGED moves ELSE Move
    /\ usage' = IF u \in usage THEN usage \ {u} ELSE usage \cup {u}
    /\ UNCHANGED <<account, request, line, contract, dispute, media, exec, failures>>

Handling(x, u) == exec[x].pc \notin {"idle", "claim"} /\ Head(exec[x].batch) = u

\* The upload of a video; one begun after an executor listed the media is late.
StartUpload(u) ==
    /\ account[u] = "live" /\ media[u].row = "absent"
    /\ Move
    /\ media' = [media EXCEPT ![u] =
                   [row |-> "uploading", bytes |-> "parts",
                    late |-> \E x \in Executors : Handling(x, u) /\ exec[x].pc \in {"remove", "complete"}]]
    /\ UNCHANGED <<account, request, line, contract, dispute, usage, exec, failures>>

FinishUpload(u) ==
    /\ media[u].row = "uploading" /\ media[u].bytes = "parts" /\ account[u] = "live"
    /\ Move
    /\ media' = [media EXCEPT ![u].row = "complete", ![u].bytes = "object"]
    /\ UNCHANGED <<account, request, line, contract, dispute, usage, exec, failures>>

\* Thirty days; checkouts live for thirty-one minutes.
GracePasses(u) ==
    /\ request[u].status = "scheduled" /\ ~request[u].due
    /\ contract[u] # "checkout"
    /\ \A i \in 1 .. Len(line) :
          line[i] # u /\ request[line[i]].status = "scheduled" /\ ~request[line[i]].due
             => \E j \in 1 .. i : line[j] = u
    /\ request' = [request EXCEPT ![u].due = TRUE]
    /\ UNCHANGED <<account, line, customer, exec, moves, failures>>

-------------------------------------------------------------------------------
(* The executor.                                                            *)

\* Mutant: the end of the grace is not waited for.
IsCandidateEarly(u) == request[u].status = "scheduled"

IsCandidate(u) ==
    /\ request[u].due
    /\ \/ request[u].status = "scheduled"
       \/ request[u].status = "processing" /\ request[u].lapsed

\* runDueAccountDeletions: of the due requests those that were booked first.
Candidates == {u \in Users : IsCandidate(u)}
Before(u, v) == \E i, j \in DOMAIN line : i < j /\ line[i] = u /\ line[j] = v
Batches ==
    LET size == IF Cardinality(Candidates) < BatchLimit THEN Cardinality(Candidates) ELSE BatchLimit
    IN  {b \in [1 .. size -> Candidates] :
            \A i \in 1 .. size : {v \in Candidates : Before(v, b[i])} = {b[j] : j \in 1 .. i - 1}}

User(x) == Head(exec[x].batch)
At(x, pc) == exec[x].pc = pc
Goto(x, pc) == exec' = [exec EXCEPT ![x].pc = pc]
NextCandidate(x) ==
    exec' = [exec EXCEPT ![x] = IF Len(exec[x].batch) = 1 THEN Resting
                                ELSE [Resting EXCEPT !.pc = "claim", !.batch = Tail(exec[x].batch)]]
Owns(x) == request[User(x)].status = "processing" /\ request[User(x)].token = x

Run(x) ==
    /\ At(x, "idle")
    /\ Candidates # {}
    /\ \E b \in Batches : exec' = [exec EXCEPT ![x].pc = "claim", ![x].batch = b]
    /\ UNCHANGED <<account, request, line, customer, moves, failures>>

\* executeCandidate: a request another run took, or was cancelled, is skipped.
Claim(x) ==
    /\ At(x, "claim")
    /\ IF IsCandidate(User(x))
         THEN /\ request' = [request EXCEPT ![User(x)].status = "processing",
                                            ![User(x)].token = x, ![User(x)].lapsed = FALSE]
              /\ Goto(x, "local")
         ELSE NextCandidate(x) /\ UNCHANGED request
    /\ UNCHANGED <<account, line, customer, moves, failures>>

\* deletionBlockReason: first the tables, then Stripe.
LookLocally(x) ==
    /\ At(x, "local")
    /\ Goto(x, IF Owns(x) /\ User(x) \notin usage THEN "stripe" ELSE "giveBack")
    /\ UNCHANGED <<account, request, line, customer, moves, failures>>

AskStripe(x) ==
    /\ At(x, "stripe")
    /\ Goto(x, IF contract[User(x)] = "live" \/ User(x) \in dispute THEN "giveBack" ELSE "list")
    /\ UNCHANGED <<account, request, line, customer, moves, failures>>

ListMedia(x) ==
    /\ At(x, "list")
    /\ exec' = [exec EXCEPT ![x].pc = "remove", ![x].seen = media[User(x)].row]
    /\ UNCHANGED <<account, request, line, customer, moves, failures>>

\* removeOwnedMedia aborts what was uploading and deletes what was complete;
\* the rows stay until the batch, and any refusal by R2 ends this attempt.
Removable(x) ==
    LET f == media[User(x)] IN
    CASE exec[x].seen = "uploading" -> f.bytes = "parts" \/ (f.bytes = "none" /\ AbortIsRepeatable)
      [] OTHER                      -> TRUE

\* Mutant: an upload that cannot be aborted is passed over.
GoOn(x) == "complete"
AfterRefusal(x) == "giveBack"

RemoveMedia(x) ==
    LET u == User(x) IN
    /\ At(x, "remove")
    /\ \/ /\ Removable(x)
          /\ media' = IF exec[x].seen = "absent" THEN media ELSE [media EXCEPT ![u].bytes = "none"]
          /\ Goto(x, "complete")
          /\ UNCHANGED failures
       \/ /\ IF Removable(x) THEN Failure ELSE UNCHANGED failures
          /\ Goto(x, AfterRefusal(x))
          /\ UNCHANGED media
    /\ UNCHANGED <<account, request, line, contract, dispute, usage, moves>>

\* completeDeletion: one batch; only its update of the request asks whose the
\* claim is.
Complete(x) ==
    LET u == User(x) IN
    /\ At(x, "complete")
    /\ account' = [account EXCEPT ![u] = "deleted"]
    /\ usage' = usage \ {u}
    /\ media' = [media EXCEPT ![u].row = "absent"]
    /\ request' = [request EXCEPT ![u] = IF Owns(x) THEN [NoRequest EXCEPT !.status = "completed"] ELSE @]
    /\ NextCandidate(x)
    /\ UNCHANGED <<line, contract, dispute, moves, failures>>

\* releaseBlockedExecution, releaseFailedExecution.
GiveBack(x) ==
    /\ At(x, "giveBack")
    /\ request' = [request EXCEPT ![User(x)] =
                     IF Owns(x) THEN [@ EXCEPT !.status = "scheduled", !.token = Nobody] ELSE @]
    /\ NextCandidate(x)
    /\ UNCHANGED <<account, line, customer, moves, failures>>

\* A failed read or batch gives the request back; a death leaves it claimed.
Fails(x) ==
    /\ exec[x].pc \in {"local", "stripe", "list", "complete"}
    /\ Failure
    /\ Goto(x, "giveBack")
    /\ UNCHANGED <<account, request, line, customer, moves>>

Dies(x) ==
    /\ ~At(x, "idle")
    /\ Failure
    /\ exec' = [exec EXCEPT ![x] = Resting]
    /\ UNCHANGED <<account, request, line, customer, moves>>

\* Thirty minutes, for a run that the scheduler waits twenty-five seconds for: it
\* is taken to be over by then, so only the claim of an executor that died lapses.
ClaimLapses(u) ==
    /\ request[u].status = "processing" /\ ~request[u].lapsed
    /\ ~\E x \in Executors : Handling(x, u)
    /\ request' = [request EXCEPT ![u].lapsed = TRUE]
    /\ UNCHANGED <<account, line, customer, exec, moves, failures>>

-------------------------------------------------------------------------------
ExecutorStep(x) ==
    \/ Run(x) \/ Claim(x) \/ LookLocally(x) \/ AskStripe(x) \/ ListMedia(x)
    \/ RemoveMedia(x) \/ Complete(x) \/ GiveBack(x)

Next ==
    \/ \E u \in Users :
          \/ Schedule(u) \/ Cancel(u) \/ OpenCheckout(u) \/ PayCheckout(u)
          \/ CheckoutOrContractEnds(u) \/ Dispute(u) \/ Use(u)
          \/ StartUpload(u) \/ FinishUpload(u) \/ GracePasses(u) \/ ClaimLapses(u)
    \/ \E x \in Executors : ExecutorStep(x) \/ Fails(x) \/ Dies(x)

\* The cron comes back every day, an executor goes on, and time passes.
TimePasses == \E u \in Users : ClaimLapses(u) \/ GracePasses(u)

Fairness == WF_dvars(TimePasses) /\ \A x \in Executors : WF_dvars(ExecutorStep(x))

Spec == Init /\ [][Next]_dvars /\ Fairness

-------------------------------------------------------------------------------
\* Types of the tables; an executor past its claim has somebody to delete.
TypeOK ==
    /\ account \in [Users -> {"live", "deleted"}]
    /\ \A u \in Users :
          /\ request[u].status \in {"none", "scheduled", "processing", "cancelled", "completed"}
          /\ request[u].token \in Executors \cup {Nobody}
          /\ request[u].status = "processing" => request[u].due
          /\ media[u].row \in {"absent", "uploading", "complete"}
    /\ \A x \in Executors : exec[x].pc # "idle" => exec[x].batch # <<>>

\* An account is only deleted while its request is claimed, not cancelled, and
\* never while a contract could still charge its owner, whatever the owner and
\* a second run do between the executor's reads and its batch.
DeletedOnlyWhenSettled ==
    [][\A u \in Users :
          account[u] = "live" /\ account'[u] = "deleted" =>
             request[u].status = "processing" /\ contract[u] \notin {"live", "checkout"}]_dvars

\* No bytes of a deleted account stay in R2 without the row that names them,
\* save those of an upload begun after the executor listed its media.
NoMediaLeftBehind ==
    \A u \in Users :
        account[u] = "deleted" => media[u].bytes = "none" \/ media[u].late

\* A deletion that is due, and that nothing forbids any more, is carried out.
Settled(u) ==
    /\ request[u].due /\ Booked(u)
    /\ contract[u] # "live" /\ u \notin dispute /\ u \notin usage
DueDeletionHappens == \A u \in Users : ~<>[]Settled(u)
===============================================================================
