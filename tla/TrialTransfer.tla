---------------------------- MODULE TrialTransfer ----------------------------
(***************************************************************************)
(* The anonymous free trial and its move into an account:                  *)
(* lib/trial-session-store.ts issues one trial session per device,         *)
(* lib/anonymous-trial-account-transfer.ts moves what the trial made to    *)
(* the account its visitor signs in to, and lib/external-account-auth.ts   *)
(* turns the trial itself into an account when the sign-in is new.         *)
(*                                                                         *)
(* A request names its owner when it begins and writes when it ends, and a *)
(* sign-in reads the trial before the batch that moves it: the visitor's   *)
(* other tabs act in between.                                              *)
(***************************************************************************)
EXTENDS Integers, FiniteSets, Functions

CONSTANTS
    Devices,        \* a device's trial principal has the device's name
    Members,        \* accounts made before
    Videos,         \* reservations, all on the free bucket
    Length,         \* a function from videos to seconds
    FreeVideos, FreeSeconds,
    IssuanceLimit,  \* trials of one window
    MaxVisits       \* bound of the model: requests of visitors

VARIABLES
    trialRow,     \* trial_sessions: no row, unbound, or bound to its user
    fingerprint,  \* trial_issuance_fingerprints: devices with a trial
    recent,       \* fingerprints inside the window of the limit
    video,        \* usage_reservations and the transfers beside them
    visit,        \* the request each device has in flight
    signIn,       \* the sign-in each device has in flight
    visits

tvars == <<trialRow, fingerprint, recent, video, visit, signIn, visits>>

NoOne == "noone"
Principals == Devices \cup Members
NoVideo == [owner |-> NoOne, status |-> "none", late |-> FALSE]
NoVisit == [doing |-> "nothing", of |-> NoOne]
NoSignIn == [stage |-> "none", to |-> NoOne]

Init ==
    /\ trialRow = [d \in Devices |-> "none"]
    /\ fingerprint = {}
    /\ recent = {}
    /\ video = [v \in Videos |-> NoVideo]
    /\ visit = [d \in Devices |-> NoVisit]
    /\ signIn = [d \in Devices |-> NoSignIn]
    /\ visits = 0

Visit == visits < MaxVisits /\ visits' = visits + 1

Live == {"reserved", "completed"}
LiveOf(owners) == {v \in Videos : video[v].owner \in owners /\ video[v].status \in Live}
SecondsOf(vs) == SumFunctionOnSet(Length, vs)
WithinTrial(vs) == Cardinality(vs) <= FreeVideos /\ SecondsOf(vs) <= FreeSeconds

\* unboundTrialSessionPrincipalEmail: only an unbound trial acts for itself.
ActsAlone(d) == trialRow[d] = "unbound"

-------------------------------------------------------------------------------
(* The trial session.                                                       *)

\* issueOrRefreshTrialSession: a device that had a trial gets no second one,
\* and the limits of the network and of the site stop new ones.
Issue(d) ==
    /\ trialRow[d] = "none"
    /\ d \notin fingerprint /\ Cardinality(recent) < IssuanceLimit
    /\ trialRow' = [trialRow EXCEPT ![d] = "unbound"]
    /\ fingerprint' = fingerprint \cup {d}
    /\ recent' = recent \cup {d}
    /\ UNCHANGED <<video, visit, signIn, visits>>

WindowPasses ==
    /\ recent # {}
    /\ recent' = {}
    /\ UNCHANGED <<trialRow, fingerprint, video, visit, signIn, visits>>

BeginRefresh(d) ==
    /\ trialRow[d] # "none" /\ visit[d] = NoVisit
    /\ Visit
    /\ visit' = [visit EXCEPT ![d].doing = "refresh"]
    /\ UNCHANGED <<trialRow, fingerprint, recent, video, signIn>>

\* refreshTrialSession inserts the row again when it has gone meanwhile.
EndRefresh(d) ==
    /\ visit[d].doing = "refresh"
    /\ trialRow' = [trialRow EXCEPT ![d] = IF @ = "none" THEN "unbound" ELSE @]
    /\ visit' = [visit EXCEPT ![d] = NoVisit]
    /\ UNCHANGED <<fingerprint, recent, video, signIn, visits>>

Logout(d) ==
    /\ trialRow[d] # "none"
    /\ trialRow' = [trialRow EXCEPT ![d] = "none"]
    /\ UNCHANGED <<fingerprint, recent, video, visit, signIn, visits>>

-------------------------------------------------------------------------------
(* Videos of the free trial.                                                *)

BeginReserve(d, v) ==
    /\ ActsAlone(d) /\ visit[d] = NoVisit
    /\ video[v].status = "none" /\ \A e \in Devices : visit[e].of # v
    /\ Visit
    /\ visit' = [visit EXCEPT ![d] = [doing |-> "reserve", of |-> v]]
    /\ UNCHANGED <<trialRow, fingerprint, recent, video, signIn>>

Reserve(owner, v, late) ==
    video' = IF WithinTrial(LiveOf({owner}) \cup {v})
               THEN [video EXCEPT ![v] = [owner |-> owner, status |-> "reserved", late |-> late]]
               ELSE video

EndReserve(d) ==
    /\ visit[d].doing = "reserve"
    /\ Reserve(d, visit[d].of, ~ActsAlone(d))
    /\ visit' = [visit EXCEPT ![d] = NoVisit]
    /\ UNCHANGED <<trialRow, fingerprint, recent, signIn, visits>>

MemberReserves(m, v) ==
    /\ video[v].status = "none" /\ \A d \in Devices : visit[d].of # v
    /\ Visit
    /\ Reserve(m, v, FALSE)
    /\ UNCHANGED <<trialRow, fingerprint, recent, visit, signIn>>

SaveOrRelease(v) ==
    /\ video[v].status = "reserved"
    /\ \E s \in {"completed", "released"} : video' = [video EXCEPT ![v].status = s]
    /\ UNCHANGED <<trialRow, fingerprint, recent, visit, signIn, visits>>

-------------------------------------------------------------------------------
(* Signing in.                                                              *)

\* The passkey or the provider has named the account; the trial, if it still
\* acts alone, is read for the batch.  Without one the sign-in moves nothing.
BeginSignIn(d, m) ==
    /\ signIn[d] = NoSignIn /\ ActsAlone(d)
    /\ Visit
    /\ signIn' = [signIn EXCEPT ![d] = [stage |-> "move", to |-> m]]
    /\ UNCHANGED <<trialRow, fingerprint, recent, video, visit>>

\* A provider's subject nobody has yet makes the trial an account.
BeginSignUp(d) ==
    /\ signIn[d] = NoSignIn /\ ActsAlone(d)
    /\ Visit
    /\ signIn' = [signIn EXCEPT ![d] = [stage |-> "adopt", to |-> d]]
    /\ UNCHANGED <<trialRow, fingerprint, recent, video, visit>>

\* authenticateVerifiedExternalIdentity, of a new identity.
SignUp(d) ==
    /\ signIn[d].stage = "adopt"
    /\ trialRow' = [trialRow EXCEPT ![d] = IF @ = "unbound" THEN d ELSE @]
    /\ signIn' = [signIn EXCEPT ![d] = NoSignIn]
    /\ UNCHANGED <<fingerprint, recent, video, visit, visits>>

\* Mutant: the caps are those of the account that receives.
FitsAlone(d, m) == WithinTrial(LiveOf({m}))

\* The two caps of the transfer count the videos of both sides together.
Fits(d, m) == WithinTrial(LiveOf({d, m}))

\* anonymousTrialAccountTransferStatements: the batch binds the trial, moves
\* its live videos if they fit and everything that is left as released.
Moved(d, m) ==
    [v \in Videos |->
        IF video[v].owner # d THEN video[v]
        ELSE [video[v] EXCEPT !.owner = m,
                              !.status = IF @ \in Live /\ ~Fits(d, m) THEN "released" ELSE @]]

SignIn(d) ==
    LET m == signIn[d].to IN
    /\ signIn[d].stage = "move"
    /\ trialRow' = [trialRow EXCEPT ![d] = IF @ = "unbound" THEN m ELSE @]
    /\ video' = IF trialRow[d] \in {"unbound", m} THEN Moved(d, m) ELSE video
    /\ signIn' = [signIn EXCEPT ![d] = NoSignIn]
    /\ UNCHANGED <<fingerprint, recent, visit, visits>>

-------------------------------------------------------------------------------
Next ==
    \/ \E d \in Devices :
          \/ Issue(d) \/ BeginRefresh(d) \/ EndRefresh(d) \/ Logout(d)
          \/ EndReserve(d) \/ BeginSignUp(d) \/ SignUp(d) \/ SignIn(d)
          \/ \E v \in Videos : BeginReserve(d, v)
          \/ \E m \in Members : BeginSignIn(d, m)
    \/ \E v \in Videos : SaveOrRelease(v) \/ \E m \in Members : MemberReserves(m, v)
    \/ WindowPasses

Spec == Init /\ [][Next]_tvars

-------------------------------------------------------------------------------
TypeOK ==
    /\ trialRow \in [Devices -> {"none", "unbound"} \cup Principals]
    /\ recent \subseteq fingerprint /\ fingerprint \subseteq Devices
    /\ \A v \in Videos :
          /\ video[v].owner \in Principals \cup {NoOne}
          /\ video[v].owner = NoOne <=> video[v].status = "none"

\* Nobody holds more of the free trial than its two caps, and a trial that was
\* bound to an account holds nothing beside it, save what a request begun
\* before the binding wrote after it.
OneTrialEach ==
    /\ \A p \in Principals : WithinTrial(LiveOf({p}))
    /\ \A d \in Devices :
          trialRow[d] \in Members =>
             WithinTrial({v \in LiveOf({d, trialRow[d]}) : ~(video[v].owner = d /\ video[v].late)})

\* What a trial made is not lost when it is bound: none of it stays with a
\* principal that can no longer act, and nothing changes hands otherwise.
NothingStaysBehind ==
    \A v \in Videos, d \in Devices :
        video[v].owner = d /\ trialRow[d] \in Members => video[v].late
===============================================================================
