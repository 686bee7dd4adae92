------------------------------- MODULE Workspace -------------------------------
(* What keeps a customer's videos and settings, with the provider's         *)
(* callback and the tools that release what serves them.  They share no     *)
(* state with the pages of PageReservations nor with each other in the code *)
(* as modelled: a behaviour is one of a single component, chosen at the     *)
(* start, in the variables of PageReservations.                             *)
EXTENDS PageReservations

CONSTANTS
    \* MediaTransfer
    Parts, Workers, MaxRequests, MaxDeaths,
    \* ProviderCallback
    Attempts, Posts, People, Subjects, MaxLogins, MaxPosts,
    \* DurableOutput
    Outputs, Tabs, MaxCrashes,
    \* PersonalPreferences
    Accounts, MaxSwitches,
    \* The bounds of the instances of a component that is run more than once
    SettingsBounds, PagesBounds,
    \* SchedulerRelease
    Runs, MaxReleases, MaxReleaseFailures

\* What is not an account, a run or a release is told from one.
ASSUME WorkspaceAssumption ==
    /\ {MaxLogins, MaxReleaseFailures} \subseteq Nat
    /\ IsFiniteSet(Accounts) /\ Accounts # {}
    /\ Accounts \cap {"anonymous", "legacy", "person", "none"} = {}
    /\ Runs \cap {"hand", "past", "legacy", "reviewed"} = {}
    /\ \A b \in PagesBounds : "hand" \notin b.releases

-------------------------------------------------------------------------------
Transfer == INSTANCE MediaTransfer WITH
    row <- x1, lapsed <- x2, claim <- x3, upload <- x4, stored <- x5,
    object <- x6, serving <- x7, unwanted <- x8, crossed <- x9,
    requests <- x10, deaths <- x11

Callback == INSTANCE ProviderCallback WITH
    attempt <- x1, jar <- x2,
    holder <- x3, owner <- x4, logins <- x5, identity <- x6, answer <- x7,
    post <- x8, posted <- x9, consents <- x10, outcome <- x11

Durable == INSTANCE DurableOutput WITH
    stored <- x1,
    files <- x2, op <- x3, expired <- x4, crashes <- x5, used <- x6,
    kept <- x7, revived <- x8, leaked <- x9

\* By how much is chosen, opened and fails.
Settings(b) == INSTANCE PersonalPreferences WITH
    MaxChoices <- b.choices, MaxLoads <- b.loads, MaxFiles <- b.files, MaxFaults <- b.faults,
    local <- x1, rows <- x2, session <- x3, hint <- x4, page <- x5,
    reading <- x6, due <- x7, wire <- x8, choosing <- x9, owners <- x10,
    spent <- x11, unruly <- x12

Pages(b) == INSTANCE PagesRelease WITH
    Releases <- b.releases, Artifact <- [r \in b.releases |-> r], Looks <- b.looks,
    MaxDeployments <- MaxReleases, MaxFailures <- MaxReleaseFailures, Lag <- b.lag,
    deployment <- x1, canonical <- x2, release <- x3, records <- x4, callsFailed <- x5

Scheduler == INSTANCE SchedulerRelease WITH
    MaxDeployments <- MaxReleases, MaxFailures <- MaxReleaseFailures, deployed <- x1,
    cron <- x2, cronByHand <- x3, manifests <- x4, run <- x5, failures <- x6

-------------------------------------------------------------------------------
KeepingInit ==
    \/ component = "Transfer" /\ bounds = 0 /\ Transfer!Init /\ Idle11
    \/ component = "Callback" /\ bounds = 0 /\ Callback!Init /\ Idle11
    \/ component = "Durable" /\ bounds = 0 /\ Durable!DuInit /\ Idle9
    \/ component = "Settings" /\ (\E b \in SettingsBounds : bounds = b /\ Settings(b)!PpInit) /\ Idle12
    \/ component = "Pages" /\ (\E b \in PagesBounds : bounds = b /\ Pages(b)!Init) /\ Idle5
    \/ component = "Scheduler" /\ bounds = 0 /\ Scheduler!Init /\ Idle6

KeepingNext ==
    \/ component = "Transfer" /\ Transfer!Next /\ UNCHANGED rest11
    \/ component = "Callback" /\ Callback!Next /\ UNCHANGED rest11
    \/ component = "Durable" /\ Durable!DuNext /\ UNCHANGED rest9
    \/ component = "Settings" /\ (\E b \in SettingsBounds : bounds = b /\ Settings(b)!PpNext) /\ UNCHANGED rest12
    \/ component = "Pages" /\ (\E b \in PagesBounds : bounds = b /\ Pages(b)!Next) /\ UNCHANGED rest5
    \/ component = "Scheduler" /\ Scheduler!Next /\ UNCHANGED rest6

KeepingSpec == KeepingInit /\ [][KeepingNext]_workspacevars

-------------------------------------------------------------------------------
\* Each group of properties includes the types of the components it is about.

\* MediaTransfer: what is downloaded is the whole video that was uploaded, and
\* removal leaves no bytes.  DurableOutput: a saved video can be had again, and
\* no record or file is alone.  ProviderCallback: a sign-in page posted again
\* changes nothing twice.  PersonalPreferences: an edit of the usual finish is
\* kept, for the account and on the device it was made, and a demonstration's
\* is not.
StoredWholeAndOnce ==
    /\ component = "Transfer" => Transfer!TypeOK /\ Transfer!CompleteIsWhole /\ Transfer!RemovedLeavesNothing
    /\ component = "Durable" => Durable!DuTypeOK /\ Durable!SavedIsKept /\ Durable!RecordsHaveBytes /\ Durable!FilesAreOwned
    /\ component = "Callback" => Callback!TypeOK /\ Callback!AttemptCountsOnce
    /\ component = "Settings" => \A b \in SettingsBounds : bounds = b =>
          /\ Settings(b)!PpTypeOK /\ Settings(b)!ApartOnTheDevice /\ Settings(b)!DemoIsNotKept
          /\ Settings(b)!EditsAreSaved /\ Settings(b)!SettingsAreNotForgotten

\* PagesRelease: no release replaces another unseen, and one that says it was
\* undone is; where deployments are listed late only the first can be held.
\* SchedulerRelease: a manifest is of what runs, and the Cron stays.
ReleasesAreSafe ==
    /\ component = "Pages" => \A b \in PagesBounds : bounds = b =>
          Pages(b)!TypeOK /\ Pages(b)!NoSilentOverwrite /\ (b.lag \/ Pages(b)!RestoredIsRestored)
    /\ component = "Scheduler" => Scheduler!TypeOK /\ Scheduler!ManifestTellsTheTruth /\ Scheduler!CronStaysInPlace

\* ProviderCallback: a link or step-up changes only the account that began it,
\* while its session lives.  DurableOutput: a confirmed video stays confirmed.
ConcludedAsBegun ==
    [][/\ component = "Callback" => Callback!ConcludesForWhoBegan
       /\ component = "Durable" => Durable!ConfirmedForGood]_workspacevars
===============================================================================
