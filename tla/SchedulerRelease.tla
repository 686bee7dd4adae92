--------------------------- MODULE SchedulerRelease ---------------------------
(***************************************************************************)
(* scripts/operations/deploy-account-deletion-scheduler.mjs: release of the*)
(* Worker whose Cron carries out account deletions.  A run approves the    *)
(* live version (by the manifest of the release that made it, or once by   *)
(* confirmation of the unannotated Worker), uploads its own version, puts  *)
(* the Cron in place, activates, checks that the active deployment is its  *)
(* own and links a manifest; a failure after the Cron was touched is       *)
(* recovered from if nobody else has deployed.  Cloudflare has no lock, so *)
(* other runs and people at the dashboard act between any two calls, and a *)
(* command that fails may have been carried out.                           *)
(***************************************************************************)
EXTENDS Integers, Sequences, FiniteSets

CONSTANTS
    Runs,            \* runs of the script, and the versions they upload
    MaxDeployments,  \* bound of the model
    MaxFailures      \* bound of the model: calls and files that fail, deaths, a Cron changed by hand

VARIABLES
    deployed,    \* deployments of the Worker: by whom, of which versions; the last is active
    cron,        \* "exact" or "other"
    cronByHand,
    manifests,   \* manifests on disk: of whose release, of which deployment
    run,
    failures

svars == <<deployed, cron, cronByHand, manifests, run, failures>>

Hand == "hand"
Past == "past"
Legacy == "legacy"      \* the version without annotations
Reviewed == "reviewed"  \* a version released by an earlier run

Fresh == [pc |-> "start", of |-> {}, previous |-> 0, owned |-> 0, seen |-> 0, check |-> 1, triggered |-> FALSE,
          activated |-> FALSE, left |-> FALSE]

Init ==
    /\ \E v \in {Legacy, Reviewed} :
          /\ deployed = <<[by |-> Past, versions |-> {v}]>>
          /\ manifests = IF v = Reviewed THEN {[by |-> Past, deployment |-> 1]} ELSE {}
    /\ cron = "exact" /\ cronByHand = FALSE
    /\ run = [r \in Runs |-> Fresh]
    /\ failures = 0

Active == Len(deployed)
Ended == {"blocked", "released", "recovered", "refused", "dead"}
Set(r, next) == run' = [run EXCEPT ![r] = next]
At(r, pc) == run[r].pc = pc
Reads == UNCHANGED <<deployed, cron, cronByHand, manifests, failures>>
Fault == failures < MaxFailures /\ failures' = failures + 1

Deploy(who, versions) ==
    /\ Len(deployed) < MaxDeployments
    /\ deployed' = Append(deployed, [by |-> who, versions |-> versions])

-------------------------------------------------------------------------------
(* Everybody else.                                                          *)

DeployByHand ==
    /\ \E versions \in {deployed[1].versions, {Hand}} \cup {deployed[1].versions \cup {r} : r \in Runs} :
          Deploy(Hand, versions)
    /\ UNCHANGED <<cron, cronByHand, manifests, run, failures>>

CronByHand ==
    /\ Fault
    /\ cronByHand' = TRUE /\ cron' = "other"
    /\ UNCHANGED <<deployed, manifests, run>>

-------------------------------------------------------------------------------
\* The catch of uploadVerifyAndActivate: what was linked goes first.
Throw(r) ==
    LET mine == {m \in manifests : m.by = r} IN
    /\ Set(r, [run[r] EXCEPT !.pc = IF run[r].triggered THEN "recover" ELSE "blocked"])
    /\ manifests' = manifests \ mine

\* ... and may not go.
ThrowAndLeave(r) ==
    /\ \E m \in manifests : m.by = r
    /\ Set(r, [run[r] EXCEPT !.pc = "recover", !.left = TRUE])
    /\ UNCHANGED manifests

\* validateLiveSchedulerSchedule
CronIsExact == cron = "exact"

Step(r, good, next) ==
    /\ IF good THEN Set(r, next) /\ UNCHANGED manifests ELSE Throw(r)
    /\ UNCHANGED <<deployed, cron, cronByHand, failures>>

-------------------------------------------------------------------------------
(* Approval of what is live, and the upload.                                *)

Start(r) == At(r, "start") /\ Step(r, Active > 0, [run[r] EXCEPT !.pc = "approve", !.previous = Active])

\* By the manifest the environment names, or by bootstrap.
Approve(r) ==
    /\ At(r, "approve")
    /\ LET previous == deployed[run[r].previous]
           single == Cardinality(previous.versions) = 1
       IN \/ \E m \in manifests :
                Step(r, single /\ m.deployment = run[r].previous /\ CronIsExact,
                     [run[r] EXCEPT !.pc = "upload", !.of = {m}])
          \/ Step(r, previous.versions = {Legacy} /\ CronIsExact, [run[r] EXCEPT !.pc = "upload", !.of = {}])

Upload(r) == At(r, "upload") /\ Step(r, TRUE, [run[r] EXCEPT !.pc = "staged"])

\* Local checkout, artifact, manifest and staged version again.
Staged(r) == At(r, "staged") /\ Step(r, run[r].of \subseteq manifests, [run[r] EXCEPT !.pc = "trigger", !.triggered = TRUE])

-------------------------------------------------------------------------------
(* Cron and activation.                                                     *)

Previous(r) == deployed[run[r].previous].versions

Trigger(r) ==
    /\ At(r, "trigger")
    /\ cron' = "exact"
    /\ Set(r, [run[r] EXCEPT !.pc = "schedule"])
    /\ UNCHANGED <<deployed, cronByHand, manifests, failures>>

TriggerFails(r) ==
    /\ At(r, "trigger")
    /\ Fault
    /\ cron' \in {cron, "exact", "other"}
    /\ Throw(r)
    /\ UNCHANGED <<deployed, cronByHand>>

\* requireExactLiveSchedule
Schedule(r) == At(r, "schedule") /\ Step(r, CronIsExact, [run[r] EXCEPT !.pc = "preactivation"])

PreActivation(r) ==
    At(r, "preactivation") /\ Step(r, Active = run[r].previous, [run[r] EXCEPT !.pc = "activate", !.activated = TRUE])

Activate(r) ==
    /\ At(r, "activate")
    /\ Deploy(r, {r})
    /\ Set(r, [run[r] EXCEPT !.pc = "own"])
    /\ UNCHANGED <<cron, cronByHand, manifests, failures>>

ActivateFails(r) ==
    /\ At(r, "activate")
    /\ Fault
    /\ Deploy(r, {r}) \/ UNCHANGED deployed
    /\ Throw(r)
    /\ UNCHANGED <<cron, cronByHand>>

-------------------------------------------------------------------------------
(* requireOwnedActiveDeployment: status, version and Cron, status.  It is   *)
(* asked before the manifest is written, before it is linked and after.     *)

IsOwn(r, d) ==
    d # run[r].previous /\ deployed[d].versions = {r} /\ run[r].owned \in {0, d}

Own(r) == At(r, "own") /\ Step(r, IsOwn(r, Active), [run[r] EXCEPT !.pc = "ownCron", !.seen = Active])
OwnCron(r) == At(r, "ownCron") /\ Step(r, CronIsExact, [run[r] EXCEPT !.pc = "ownAgain"])

AfterCheck == <<"own", "link", "released">>

OwnAgain(r) ==
    /\ At(r, "ownAgain")
    /\ Step(r, Active = run[r].seen,
            [run[r] EXCEPT !.pc = AfterCheck[run[r].check], !.owned = Active, !.check = IF run[r].check < 3 THEN run[r].check + 1 ELSE 3])

\* Mutant: the manifest names the deployment it replaced.
ManifestOfPrevious(r) == [by |-> r, deployment |-> run[r].previous]

ManifestOf(r) == [by |-> r, deployment |-> run[r].owned]

Link(r) ==
    /\ At(r, "link")
    /\ manifests' = manifests \cup {ManifestOf(r)}
    /\ Set(r, [run[r] EXCEPT !.pc = "own"])
    /\ UNCHANGED <<deployed, cron, cronByHand, failures>>

-------------------------------------------------------------------------------
(* recoverFailedSchedulerRelease                                            *)

End(r, pc) == run' = [run EXCEPT ![r] = [Fresh EXCEPT !.pc = pc, !.owned = run[r].owned]]
Refuse(r) == End(r, "refused")

\* A step of the recovery: whatever is not as expected ends it.
Recovery(r, good, next) ==
    /\ IF good THEN Set(r, next) ELSE Refuse(r)
    /\ Reads

\* classifySchedulerRecoveryState
IsOwnActivation(r, versions) == r \in versions /\ versions \subseteq Previous(r) \cup {r}

Recover(r) ==
    /\ At(r, "recover")
    /\ IF deployed[Active].versions = Previous(r)
         THEN Recovery(r, Active = run[r].previous, [run[r] EXCEPT !.pc = "before", !.seen = Active])
         ELSE Recovery(r, run[r].activated /\ IsOwnActivation(r, deployed[Active].versions),
                       [run[r] EXCEPT !.pc = "ownRecovery", !.seen = IF run[r].owned = 0 THEN Active ELSE run[r].owned])

\* Each check of the recovery reads the status twice, with calls in between.
Checks == [ownRecovery |-> "ownRecoveryAgain", ownRecoveryAgain |-> "rollback",
           before |-> "beforeAgain", beforeAgain |-> "restore", after |-> "afterCron"]

Check(r) == \E pc \in DOMAIN Checks : At(r, pc) /\ Recovery(r, Active = run[r].seen, [run[r] EXCEPT !.pc = Checks[pc]])

\* restorePreviousVersion
Rollback(r) ==
    /\ At(r, "rollback")
    /\ Deploy(r, Previous(r))
    /\ Set(r, [run[r] EXCEPT !.pc = "restored"])
    /\ UNCHANGED <<cron, cronByHand, manifests, failures>>

Restored(r) ==
    At(r, "restored") /\ Recovery(r, deployed[Active].versions = Previous(r), [run[r] EXCEPT !.pc = "before", !.seen = Active])

\* restoreConfiguredSchedule, between its two guards.
Restore(r) ==
    /\ At(r, "restore")
    /\ cron' = "exact"
    /\ Set(r, [run[r] EXCEPT !.pc = "restoredCron"])
    /\ UNCHANGED <<deployed, cronByHand, manifests, failures>>

RestoredCron(r) == At(r, "restoredCron") /\ Recovery(r, CronIsExact, [run[r] EXCEPT !.pc = "after"])
AfterCron(r) == At(r, "afterCron") /\ Recovery(r, CronIsExact, [run[r] EXCEPT !.pc = "last"])

Last(r) ==
    /\ At(r, "last")
    /\ IF Active = run[r].seen /\ ~run[r].left THEN End(r, "recovered") ELSE Refuse(r)
    /\ Reads

-------------------------------------------------------------------------------
InRecovery == DOMAIN Checks \cup {"recover", "rollback", "restored", "restore", "restoredCron", "afterCron", "last"}

\* A call fails, a local check, a file; a command that fails may have been
\* carried out.
Fails(r) ==
    /\ run[r].pc \notin Ended \cup InRecovery \cup {"start", "trigger", "activate"}
    /\ Fault
    /\ Throw(r) \/ ThrowAndLeave(r)
    /\ UNCHANGED <<deployed, cron, cronByHand>>

RecoveryFails(r) ==
    /\ run[r].pc \in InRecovery
    /\ Fault
    /\ Refuse(r)
    /\ \/ run[r].pc = "rollback" /\ Deploy(r, Previous(r))
       \/ UNCHANGED deployed
    /\ cron' \in IF run[r].pc = "restore" THEN {cron, "exact", "other"} ELSE {cron}
    /\ UNCHANGED <<cronByHand, manifests>>

Dies(r) ==
    /\ run[r].pc \notin Ended \cup {"start"}
    /\ Fault
    /\ End(r, "dead")
    /\ UNCHANGED <<deployed, cron, cronByHand, manifests>>

Next ==
    \/ \E r \in Runs :
          \/ Start(r) \/ Approve(r) \/ Upload(r) \/ Staged(r) \/ Trigger(r) \/ TriggerFails(r) \/ Schedule(r)
          \/ PreActivation(r) \/ Activate(r) \/ ActivateFails(r)
          \/ Own(r) \/ OwnCron(r) \/ OwnAgain(r) \/ Link(r)
          \/ Recover(r) \/ Check(r) \/ Rollback(r) \/ Restored(r) \/ Restore(r) \/ RestoredCron(r)
          \/ AfterCron(r) \/ Last(r)
          \/ Fails(r) \/ RecoveryFails(r) \/ Dies(r)
    \/ DeployByHand \/ CronByHand

Spec == Init /\ [][Next]_svars

-------------------------------------------------------------------------------
TypeOK ==
    /\ cron \in {"exact", "other"} /\ failures \in 0..MaxFailures
    /\ \A m \in manifests : m.by \in Runs \cup {Past} /\ m.deployment \in DOMAIN deployed
    /\ \A r \in Runs : run[r].previous \in 0..Len(deployed) /\ run[r].owned \in 0..Len(deployed)

\* A manifest is of a deployment its run made, and a run that reports success
\* has left one; a run that reports a recovered failure has left none, and
\* none of its deployments of its own version is active.
ManifestTellsTheTruth ==
    /\ \A m \in manifests : m.by = Past \/ deployed[m.deployment] = [by |-> m.by, versions |-> {m.by}]
    /\ \A r \in Runs :
          /\ run[r].pc = "released" => [by |-> r, deployment |-> run[r].owned] \in manifests
          /\ run[r].pc = "recovered" =>
                /\ \A m \in manifests : m.by # r
                /\ deployed[Active] # [by |-> r, versions |-> {r}]

\* When every run has ended well or was recovered from, the Cron that carries
\* out deletions is in place, unless somebody changed it.
CronStaysInPlace ==
    (\A r \in Runs : run[r].pc \in {"start", "blocked", "released", "recovered"}) /\ ~cronByHand =>
        cron = "exact"
-------------------------------------------------------------------------------
(* What every step keeps.                                                   *)

Steps ==
    {"start", "approve", "upload", "staged", "trigger", "schedule", "preactivation", "activate", "own", "ownCron",
     "ownAgain", "link"} \cup InRecovery \cup Ended
Makers == Runs \cup {Hand, Past}
Manifests == [by : Runs \cup {Past}, deployment : Nat]
RunStates ==
    [pc : Steps, of : SUBSET Manifests, previous : Nat, owned : Nat, seen : Nat, check : 1..3, triggered : BOOLEAN,
     activated : BOOLEAN, left : BOOLEAN]

Kinds ==
    /\ deployed \in Seq([by : Makers, versions : SUBSET (Runs \cup {Hand, Legacy, Reviewed})]) /\ Len(deployed) > 0
    /\ cron \in {"exact", "other"} /\ cronByHand \in BOOLEAN /\ failures \in 0..MaxFailures
    /\ manifests \subseteq Manifests /\ run \in [Runs -> RunStates]

\* What ran at first was not of a run; a version alone is of its run's making
\* until that run has found its own.
Past1 == deployed[1].by = Past /\ deployed[1].versions \in {{Legacy}, {Reviewed}}

DeploymentSound(d) ==
    /\ deployed[d].by = Past => d = 1
    /\ \A s \in Runs : deployed[d].versions = {s} /\ run[s].owned = 0 => deployed[d].by = s

ManifestSound(m) ==
    /\ m.deployment \in DOMAIN deployed
    /\ m.by = Past => m.deployment = 1
    /\ m.by # Past => m.deployment = run[m.by].owned

Owned(r, d) == d \in DOMAIN deployed /\ deployed[d] = [by |-> r, versions |-> {r}]

Beginning == {"start", "approve", "upload", "staged", "trigger", "schedule", "preactivation", "activate"}
Restoring == {"before", "beforeAgain", "restore", "restoredCron", "after", "afterCron", "last"}

\* What a run relies on, u being where it is at.
RunSound(r, u) ==
    /\ u.previous <= Len(deployed) /\ (u.pc \notin Ended \cup {"start"} => u.previous > 0)
    /\ u.owned # 0 => Owned(r, u.owned)
    /\ u.pc \in {"start", "approve"} => ~u.triggered /\ u.owned = 0
    /\ u.pc = "trigger" => u.triggered
    /\ u.pc \in Beginning => u.check = 1
    \* What it replaces is not its own, and is of a run that found its own.
    /\ u.pc \notin Ended \cup {"start", "approve"} =>
          /\ deployed[u.previous].versions # {r}
          /\ \A s \in Runs : deployed[u.previous].versions = {s} => run[s].owned # 0
    /\ u.pc \in {"ownCron", "ownAgain"} => Owned(r, u.seen) /\ u.owned \in {0, u.seen}
    /\ u.pc = "link" => u.owned # 0 /\ u.check = 3
    /\ u.pc \in {"own", "ownCron", "ownAgain"} /\ u.check = 2 => u.owned # 0
    \* What it linked is there until it is taken back.
    /\ u.pc = "released" \/ (u.pc \in {"own", "ownCron", "ownAgain"} /\ u.check = 3) =>
          u.owned # 0 /\ [by |-> r, deployment |-> u.owned] \in manifests
    /\ u.pc = "recovered" \/ (u.pc \in InRecovery /\ ~u.left) => \A m \in manifests : m.by # r
    /\ u.pc \in Restoring => u.seen \in DOMAIN deployed /\ deployed[u.seen].versions = deployed[u.previous].versions
    /\ u.pc = "recovered" => deployed[Active] # [by |-> r, versions |-> {r}]

\* A Cron that is out of place was left so by somebody, or is going to be put
\* back by a run that is recovering.
Unsettled ==
    {"recover", "ownRecovery", "ownRecoveryAgain", "rollback", "restored", "before", "beforeAgain", "restore", "refused",
     "dead"}
CronAccounted == cron = "exact" \/ cronByHand \/ \E r \in Runs : run[r].pc \in Unsettled

SchedulerIInv ==
    /\ Kinds /\ Past1
    /\ \A d \in DOMAIN deployed : DeploymentSound(d)
    /\ \A m \in manifests : ManifestSound(m)
    /\ \A r \in Runs : RunSound(r, run[r])
    /\ CronAccounted
===============================================================================
