----------------------------- MODULE PagesRelease -----------------------------
(***************************************************************************)
(* scripts/operations/deploy-pages-release.mjs, --deploy --execute: upload *)
(* a reviewed artifact, find out whether the deployment that appears is    *)
(* the one uploaded and alone, write its record, and else take production  *)
(* back to what it was.  Cloudflare offers no lock: other runs of the      *)
(* script and people in the dashboard deploy meanwhile, every look is a    *)
(* list of the deployments followed by a question for the canonical one,   *)
(* and any call may fail.                                                  *)
(*                                                                         *)
(* With --provision-disabled-rollback a release with the sign-in disabled  *)
(* is made only to be kept, and production goes back at once.              *)
(***************************************************************************)
EXTENDS Integers, Sequences, FiniteSets

CONSTANTS
    Releases,        \* runs of the script
    Artifact,        \* the reviewed manifest of each run, named in the metadata of its deployment
    Looks,           \* attempts to see, to probe, to read back
    MaxDeployments,  \* bound of the model
    MaxFailures,     \* bound of the model: calls that fail
    Lag              \* a deployment is listed some time after it was made

VARIABLES
    deployment,  \* ever made: by whom, of what, how far, listed
    canonical,
    release,     \* what each run is at and remembers
    records,     \* deployment records written
    callsFailed

rvars == <<deployment, canonical, release, records, callsFailed>>

Hand == "hand"
Fresh == [pc |-> "start", artifact |-> Hand, provisioning |-> FALSE, before |-> {}, previous |-> 0,
          list |-> {}, listed |-> FALSE, owned |-> 0, expected |-> {}, tries |-> 0, attempted |-> FALSE,
          failing |-> FALSE]

Init ==
    /\ deployment = <<[by |-> Hand, artifact |-> Hand, stage |-> "success", visible |-> TRUE]>>
    /\ canonical = 1
    /\ release = [r \in Releases |-> Fresh]
    /\ records = {}
    /\ callsFailed = 0

Listed == {d \in DOMAIN deployment : deployment[d].visible}
New(r) == release[r].list \ release[r].before
Ended == {"blocked", "released", "provisioned", "restored", "refused", "dead"}
Set(r, next) == release' = [release EXCEPT ![r] = next]
Cloud == UNCHANGED <<deployment, canonical>>
Else == UNCHANGED <<deployment, canonical, records, callsFailed>>

-------------------------------------------------------------------------------
(* Cloudflare, and everybody else.                                          *)

Made(who, what) ==
    /\ Len(deployment) < MaxDeployments
    /\ deployment' = Append(deployment, [by |-> who, artifact |-> what, stage |-> "building", visible |-> ~Lag])

DeployByHand == Made(Hand, Hand) /\ UNCHANGED <<canonical, release, records, callsFailed>>

Appears(d) ==
    /\ ~deployment[d].visible
    /\ deployment' = [deployment EXCEPT ![d].visible = TRUE]
    /\ UNCHANGED <<canonical, release, records, callsFailed>>

\* A deployment that succeeds becomes the production.
Finishes(d, stage) ==
    /\ deployment[d].stage = "building"
    /\ deployment' = [deployment EXCEPT ![d].stage = stage]
    /\ canonical' = IF stage = "success" THEN d ELSE canonical
    /\ UNCHANGED <<release, records, callsFailed>>

-------------------------------------------------------------------------------
(* Looks: listAllProductionDeployments, canonicalProductionDeploymentId.    *)

Looking == {"capture", "recheck", "verify", "final", "sole", "recorded", "rollback", "confirm", "restoring"}

List(r) ==
    /\ release[r].pc \in Looking /\ ~release[r].listed
    /\ Set(r, [release[r] EXCEPT !.list = Listed, !.listed = TRUE])
    /\ Else

Looked(r, pc) == release[r].pc = pc /\ release[r].listed
Move(r, next) == Set(r, [next EXCEPT !.list = {}, !.listed = FALSE])
Goto(r, pc) == Move(r, [release[r] EXCEPT !.pc = pc, !.tries = 0])
Again(r) == Move(r, [release[r] EXCEPT !.tries = @ + 1])
Stop(r, pc) == release' = [release EXCEPT ![r] = [Fresh EXCEPT !.pc = pc, !.previous = release[r].previous]]

\* The catch of runPagesReleaseCommand; a rollback that fails there is the end.
Throw(r) ==
    IF release[r].failing THEN Stop(r, "refused")
    ELSE IF release[r].attempted THEN Move(r, [release[r] EXCEPT !.pc = "rollback", !.tries = 0, !.failing = TRUE])
    ELSE Stop(r, "blocked")

AgainOrThrow(r) == IF release[r].tries + 1 < Looks THEN Again(r) ELSE Throw(r)

\* Mutant: the stage is left out.
IsOfArtifact(r, d) == deployment[d].artifact = release[r].artifact

\* validateLivePagesDeployment: deployed, with the metadata of the artifact.
IsLive(r, d) == deployment[d].stage = "success" /\ deployment[d].artifact = release[r].artifact

-------------------------------------------------------------------------------
(* Before the upload.                                                       *)

Start(r, provisioning) ==
    /\ release[r].pc = "start"
    /\ Set(r, [release[r] EXCEPT !.pc = "capture", !.artifact = Artifact[r], !.provisioning = provisioning])
    /\ Else

\* validatePreviousPagesDeployment
WasLive(d) == deployment[d].stage = "success"

\* capturePreviousProduction
Capture(r) ==
    /\ Looked(r, "capture")
    /\ IF canonical \in release[r].list /\ WasLive(canonical)
         THEN Move(r, [release[r] EXCEPT !.pc = "recheck", !.before = release[r].list, !.previous = canonical])
         ELSE Throw(r)
    /\ Else

\* assertPreviousProductionUnchanged
Recheck(r) ==
    /\ Looked(r, "recheck")
    /\ IF New(r) = {} /\ release[r].before \subseteq release[r].list /\ canonical = release[r].previous
         THEN Goto(r, "upload") ELSE Throw(r)
    /\ Else

\* wrangler pages deploy; it may fail after Cloudflare took the upload.
Upload(r) ==
    /\ release[r].pc = "upload"
    /\ Made(r, release[r].artifact)
    /\ Set(r, [release[r] EXCEPT !.pc = "verify", !.attempted = TRUE])
    /\ UNCHANGED <<canonical, records, callsFailed>>

UploadFails(r) ==
    /\ release[r].pc = "upload"
    /\ callsFailed < MaxFailures /\ callsFailed' = callsFailed + 1
    /\ Set(r, [release[r] EXCEPT !.pc = "rollback", !.attempted = TRUE, !.failing = TRUE])
    /\ Made(r, release[r].artifact) \/ UNCHANGED deployment
    /\ UNCHANGED <<canonical, records>>

-------------------------------------------------------------------------------
(* After it.                                                                *)

\* assertSoleCanonicalCandidate, and the end of verifyNewDeployment.
OwnedIsAlone(r) == release[r].before \subseteq release[r].list /\ New(r) = {release[r].owned}

\* verifyNewDeployment, until there is one new deployment, canonical and live.
Verify(r) ==
    /\ Looked(r, "verify")
    /\ IF ~(release[r].before \subseteq release[r].list) \/ Cardinality(New(r)) > 1 THEN Throw(r)
       ELSE IF New(r) = {} THEN (IF release[r].owned = 0 THEN AgainOrThrow(r) ELSE Throw(r))
       ELSE LET d == CHOOSE n \in New(r) : TRUE IN
            IF release[r].owned \notin {0, d} THEN Throw(r)
            ELSE IF canonical # d
              THEN (IF canonical \in release[r].before /\ release[r].owned = 0 THEN AgainOrThrow(r) ELSE Throw(r))
            ELSE IF ~IsLive(r, d)
              THEN (IF release[r].owned = 0 /\ deployment[d].stage # "failure" THEN AgainOrThrow(r) ELSE Throw(r))
            ELSE Move(r, [release[r] EXCEPT !.pc = "probe", !.owned = d, !.tries = IF release[r].owned = 0 THEN 0 ELSE release[r].tries])
    /\ Else

\* probeDeployment: ready, not reachable yet, or wrong.
Probe(r) ==
    /\ release[r].pc = "probe"
    /\ \/ Goto(r, "final") /\ UNCHANGED callsFailed
       \/ /\ callsFailed < MaxFailures /\ callsFailed' = callsFailed + 1
          /\ \/ Throw(r)
             \/ /\ release[r].tries + 1 < Looks
                /\ Set(r, [release[r] EXCEPT !.pc = "verify", !.tries = release[r].tries + 1])
    /\ Cloud /\ UNCHANGED records

Then == [final |-> "sole", sole |-> "record", recorded |-> "done"]

Confirm(r) ==
    /\ \E pc \in DOMAIN Then :
          /\ Looked(r, pc)
          /\ IF OwnedIsAlone(r) /\ canonical = release[r].owned THEN Goto(r, Then[pc]) ELSE Throw(r)
    /\ Else

\* createDeploymentRecord
RecordOf(r) == [by |-> r, of |-> release[r].owned]

\* writeDeploymentRecordExclusive
Record(r) ==
    /\ release[r].pc = "record"
    /\ records' = records \cup {RecordOf(r)}
    /\ Goto(r, "recorded")
    /\ Cloud /\ UNCHANGED callsFailed

Done(r) ==
    /\ release[r].pc = "done"
    /\ Goto(r, IF release[r].provisioning THEN "rollback" ELSE "released")
    /\ Else

-------------------------------------------------------------------------------
(* rollbackToPrevious: only of what is surely this release's.               *)

HistoryIsOwned(r) ==
    /\ release[r].before \subseteq release[r].list /\ canonical \in release[r].list
    /\ Cardinality(New(r)) <= 1
    /\ release[r].owned # 0 => New(r) = {release[r].owned}

CandidateIsOwned(r) == \A d \in New(r) : IsLive(r, d)

Rollback(r) ==
    /\ Looked(r, "rollback")
    /\ IF ~HistoryIsOwned(r) \/ ~CandidateIsOwned(r) THEN Throw(r)
       ELSE IF canonical = release[r].previous
         THEN Move(r, [release[r] EXCEPT !.pc = "readback", !.tries = 0, !.expected = release[r].list])
       ELSE IF canonical \in New(r)
         THEN Move(r, [release[r] EXCEPT !.pc = "confirm", !.expected = release[r].list])
       ELSE Throw(r)
    /\ Else

ConfirmRollback(r) ==
    /\ Looked(r, "confirm")
    /\ IF canonical \in New(r) /\ release[r].list = release[r].expected THEN Goto(r, "post") ELSE Throw(r)
    /\ Else

Post(r) ==
    /\ release[r].pc = "post"
    /\ canonical' = release[r].previous
    /\ Goto(r, "readback")
    /\ UNCHANGED <<deployment, records, callsFailed>>

\* verifyPreviousCanonicalReadback
Readback(r) ==
    /\ release[r].pc = "readback"
    /\ IF canonical # release[r].previous THEN AgainOrThrow(r)
       ELSE IF WasLive(canonical) THEN Goto(r, "restoring") ELSE Throw(r)
    /\ Else

Restored(r) ==
    /\ Looked(r, "restoring")
    /\ IF canonical = release[r].previous /\ release[r].list = release[r].expected
         THEN Goto(r, IF release[r].failing THEN "restored" ELSE "provisioned")
         ELSE Throw(r)
    /\ Else

-------------------------------------------------------------------------------
\* A call fails, or the disk, or a check of a response; a rollback that fails
\* may have happened.
Fails(r) ==
    /\ release[r].pc \notin Ended \cup {"start", "upload", "probe"}
    /\ callsFailed < MaxFailures /\ callsFailed' = callsFailed + 1
    /\ Throw(r)
    /\ canonical' \in IF release[r].pc = "post" THEN {canonical, release[r].previous} ELSE {canonical}
    /\ UNCHANGED <<deployment, records>>

Dies(r) ==
    /\ release[r].pc \notin Ended \cup {"start"}
    /\ callsFailed < MaxFailures /\ callsFailed' = callsFailed + 1
    /\ Stop(r, "dead")
    /\ Cloud /\ UNCHANGED records

Next ==
    \/ \E r \in Releases :
          \/ \E p \in BOOLEAN : Start(r, p)
          \/ List(r) \/ Capture(r) \/ Recheck(r) \/ Upload(r) \/ UploadFails(r)
          \/ Verify(r) \/ Probe(r) \/ Confirm(r) \/ Record(r) \/ Done(r)
          \/ Rollback(r) \/ ConfirmRollback(r) \/ Post(r) \/ Readback(r) \/ Restored(r)
          \/ Fails(r) \/ Dies(r)
    \/ DeployByHand
    \/ \E d \in DOMAIN deployment : Appears(d) \/ \E s \in {"success", "failure"} : Finishes(d, s)

Spec == Init /\ [][Next]_rvars

-------------------------------------------------------------------------------
TypeOK ==
    /\ canonical \in DOMAIN deployment /\ deployment[canonical].stage = "success"
    /\ \A r \in Releases :
          /\ release[r].before \subseteq DOMAIN deployment /\ release[r].list \subseteq DOMAIN deployment
          /\ release[r].pc \in {"released", "provisioned"} => [by |-> r, of |-> release[r].owned] \in records

\* Two releases that both report success were one on top of the other, or are
\* the same deployment of the same artifact: none replaced the other unseen.
NoSilentOverwrite ==
    \A r, s \in Releases :
        release[r].pc = "released" /\ release[s].pc = "released" =>
           \/ release[r].owned \in release[s].before \/ release[s].owned \in release[r].before
           \/ release[r].owned = release[s].owned /\ release[r].artifact = release[s].artifact

\* A run that says the previous production is back leaves none of its
\* deployments in production, nor one that will get there by itself; only
\* another run that found it there may take production back to it.
RestoredIsRestored ==
    \A r \in Releases, d \in DOMAIN deployment :
        release[r].pc \in {"restored", "provisioned"} /\ deployment[d].by = r =>
           /\ deployment[d].stage # "building"
           /\ canonical = d => \E s \in Releases \ {r} : release[s].previous = d
-------------------------------------------------------------------------------
(* What every step keeps.  Lists are of a history that only grows, so any   *)
(* two of them, whoever looked and whenever, are one within the other.      *)

BeforeUpload == {"start", "capture", "recheck", "upload"}
RollingBack == {"rollback", "confirm", "post", "readback", "restoring"}
Steps ==
    BeforeUpload \cup RollingBack \cup Ended \cup {"verify", "probe", "final", "sole", "record", "recorded", "done"}
Artifacts == {Artifact[r] : r \in Releases} \cup {Hand}
RunStates ==
    [pc : Steps, artifact : Artifacts, provisioning : BOOLEAN, before : SUBSET Nat, previous : Nat, list : SUBSET Nat,
     listed : BOOLEAN, owned : Nat, expected : SUBSET Nat, tries : Nat, attempted : BOOLEAN, failing : BOOLEAN]

Kinds ==
    /\ deployment \in Seq([by : Releases \cup {Hand}, artifact : Artifacts,
                           stage : {"building", "success", "failure"}, visible : BOOLEAN])
    /\ release \in [Releases -> RunStates]
    /\ canonical \in DOMAIN deployment /\ deployment[canonical].stage = "success"
    /\ ~Lag => \A d \in DOMAIN deployment : deployment[d].visible

MadeBy(r) == {d \in DOMAIN deployment : deployment[d].by = r}
WentWell(d) == deployment[d].stage = "success"

\* What the run has seen of the history, and what it saw last once it is done.
Seen(u) == {l \in {u.list} : u.listed} \cup {l \in {u.before \cup {u.owned}} : u.pc \in {"done", "released"}}

\* What a run knows, u being where it is at, whatever it has listed.
RunKnows(r, u) ==
    /\ u.before \subseteq DOMAIN deployment
    /\ u.owned # 0 => u.owned \in DOMAIN deployment /\ deployment[u.owned].artifact = u.artifact
    /\ u.pc \in {"start", "capture"} => u.previous = 0 /\ u.owned = 0
    /\ u.pc \in BeforeUpload => ~u.attempted /\ ~u.failing /\ MadeBy(r) = {}
    /\ u.pc \notin {"start", "capture"} \cup Ended =>
          u.previous \in u.before /\ WentWell(u.previous) /\ MadeBy(r) \cap u.before = {}
    /\ u.pc \in {"recorded", "done", "released", "provisioned"} \/ (u.pc \in RollingBack /\ ~u.failing) =>
          [by |-> r, of |-> u.owned] \in records
    \* What it may take production back from is up already.
    /\ u.pc \in {"confirm", "post", "readback", "restoring", "restored", "provisioned"} /\ ~Lag =>
          \A d \in MadeBy(r) : WentWell(d)
    /\ u.pc \in {"restored", "provisioned"} /\ ~Lag /\ canonical \in MadeBy(r) =>
          \E s \in Releases \ {r} : release[s].previous = canonical

\* What it has listed: all that is its own, unless deployments are listed late.
RunLooks(r, u) ==
    /\ IF u.listed THEN u.pc \in Looking ELSE u.list = {}
    /\ \A l \in Seen(u) : l \subseteq Listed
    /\ u.listed /\ ~Lag => MadeBy(r) \subseteq u.list

InOneOrder ==
    \A r, s \in Releases : \A l \in Seen(release[r]), k \in Seen(release[s]) : l \subseteq k \/ k \subseteq l

PagesIInv == Kinds /\ (\A r \in Releases : RunKnows(r, release[r]) /\ RunLooks(r, release[r])) /\ InOneOrder
===============================================================================
