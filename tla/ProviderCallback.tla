--------------------------- MODULE ProviderCallback ---------------------------
(***************************************************************************)
(* Signing in through LINE or Google in one browser: lib/oidc-auth.ts,     *)
(* with lib/oidc-core.ts and lib/line-deauthorization.ts.  An attempt is   *)
(* written down when it starts and its state is put into a cookie; the     *)
(* provider's answer is posted back by a page that may post it again; the  *)
(* post finds the attempt, compares the cookie, consumes it, asks who is   *)
(* signed in, calls the provider two or three times and ends in one batch. *)
(* Other tabs begin attempts, sign in and sign out meanwhile.              *)
(*                                                                         *)
(* Shapes of tokens and addresses are left out: what a check compares is   *)
(* the attempt, session or account a value was made for.                   *)
(***************************************************************************)
EXTENDS Integers, FiniteSets

CONSTANTS
    Attempts,  \* 1 .. the attempts of the model
    Posts,     \* posts of callbacks being served
    People,    \* accounts; each has a session of its own number in 1 .. MaxLogins
    Subjects,  \* users of the providers
    MaxLogins, \* bound of the model: sessions ever made
    MaxPosts   \* bound of the model: callbacks posted

VARIABLES
    attempt,   \* account_oauth_challenges
    jar,       \* per provider: the attempts its two cookies are of
    holder,    \* the session in the browser, 0 when signed out
    owner,     \* account_sessions
    logins,    \* sessions made
    identity,  \* account_external_identities: the account of each subject
    answer,    \* what the provider sent the browser back with
    post,      \* what each posted callback is at
    posted,
    consents,  \* attempts whose consent stands at LINE
    outcome    \* history: attempts with a telemetry milestone or a change, as counts

cvars == <<attempt, jar, holder, owner, logins, identity, answer, post, posted,
           consents, outcome>>

Nobody == "nobody"
Trial == "trial"
Providers == {"line", "google"}
Idle == [at |-> "idle", of |-> 0, matched |-> FALSE, session |-> 0, trial |-> FALSE]

Init ==
    /\ attempt = [i \in Attempts |-> [status |-> "new", provider |-> "line", intent |-> "login",
                                      by |-> Nobody, session |-> 0]]
    /\ jar = [p \in Providers |-> [state |-> 0, proof |-> 0]]
    /\ holder = 0
    /\ owner = [n \in 1 .. MaxLogins |-> Nobody]
    /\ logins = 0
    /\ identity = [s \in Subjects |-> Nobody]
    /\ answer = [i \in Attempts |-> [is |-> "none", subject |-> Nobody]]
    /\ post = [c \in Posts |-> Idle]
    /\ posted = 0
    /\ consents = {}
    /\ outcome = [i \in Attempts |-> [told |-> 0, changed |-> 0]]

SignedInAs == IF holder = 0 THEN Nobody ELSE owner[holder]
Signed == SignedInAs # Nobody
Of(c) == attempt[post[c].of]
At(c, place) == post[c].at = place
Goto(c, place) == post' = [post EXCEPT ![c].at = place]

-------------------------------------------------------------------------------
(* The start.                                                               *)

MayBegin(p, intent) ==
    \/ intent = "login" /\ ~Signed
    \/ intent = "link" /\ Signed /\ p # "line"
    \/ intent = "reauthenticate" /\ Signed /\ \E s \in Subjects : identity[s] = SignedInAs

\* The model numbers attempts as they begin, and serves a post anywhere.
Begin(i, p, intent) ==
    /\ attempt[i].status = "new" /\ MayBegin(p, intent)
    /\ \A j \in 1 .. i - 1 : attempt[j].status # "new"
    /\ \E by \in IF Signed THEN {SignedInAs} ELSE {Trial, Nobody} :
          attempt' = [attempt EXCEPT ![i] = [status |-> "open", provider |-> p, intent |-> intent,
                                             by |-> by, session |-> holder]]
    /\ jar' = [jar EXCEPT ![p].state = i, ![p].proof = IF intent = "login" THEN @ ELSE i]
    /\ UNCHANGED <<holder, owner, logins, identity, answer, post, posted, consents, outcome>>

Expire(i) ==
    /\ attempt[i].status = "open"
    /\ attempt' = [attempt EXCEPT ![i].status = "expired"]
    /\ UNCHANGED <<jar, holder, owner, logins, identity, answer, post, posted, consents, outcome>>

\* The person agrees, as one of the users the provider knows, or goes back.
ProviderAnswers(i) ==
    /\ attempt[i].status # "new" /\ answer[i].is = "none"
    /\ \/ /\ \E s \in Subjects : answer' = [answer EXCEPT ![i] = [is |-> "code", subject |-> s]]
          /\ consents' = IF attempt[i].provider = "line" THEN consents \cup {i} ELSE consents
       \/ /\ answer' = [answer EXCEPT ![i].is = "error"]
          /\ UNCHANGED consents
    /\ UNCHANGED <<attempt, jar, holder, owner, logins, identity, post, posted, outcome>>

-------------------------------------------------------------------------------
(* The posted callback.                                                     *)

\* Every way out: a milestone is told when the attempt was consumed, and the
\* cookies are dropped once the state cookie was seen to be the attempt's.
Answered(c, consumed) ==
    LET i == post[c].of IN
    /\ post' = [post EXCEPT ![c] = Idle]
    /\ outcome' = [outcome EXCEPT ![i].told = IF consumed THEN @ + 1 ELSE @]
    /\ jar' = IF post[c].matched THEN [jar EXCEPT ![attempt[i].provider] = [state |-> 0, proof |-> 0]]
                                 ELSE jar

Post(c, i) ==
    /\ At(c, "idle") /\ answer[i].is # "none"
    /\ c = CHOOSE d \in Posts : At(d, "idle")
    /\ posted < MaxPosts /\ posted' = posted + 1
    /\ post' = [post EXCEPT ![c] = [Idle EXCEPT !.at = "find", !.of = i]]
    /\ UNCHANGED <<attempt, jar, holder, owner, logins, identity, answer, consents, outcome>>

Find(c) ==
    LET i == post[c].of IN
    /\ At(c, "find")
    /\ IF attempt[i].status = "open" /\ jar[attempt[i].provider].state = i
         THEN post' = [post EXCEPT ![c].at = "consume", ![c].matched = TRUE] /\ UNCHANGED <<jar, outcome>>
         ELSE Answered(c, FALSE)
    /\ UNCHANGED <<attempt, holder, owner, logins, identity, answer, posted, consents>>

\* Mutant: the attempt found before is taken.
WasOpen(i) == attempt[i].status \in {"open", "consumed"}

\* One statement takes the attempt, for one post alone.
IsOpen(i) == attempt[i].status = "open"

Consume(c) ==
    LET i == post[c].of IN
    /\ At(c, "consume")
    /\ IF IsOpen(i)
         THEN /\ attempt' = [attempt EXCEPT ![i].status = "consumed"]
              /\ Goto(c, "identify") /\ UNCHANGED <<jar, outcome>>
         ELSE Answered(c, FALSE) /\ UNCHANGED attempt
    /\ UNCHANGED <<holder, owner, logins, identity, answer, posted, consents>>

\* verifyOidcSessionProof: the session in the browser is the one of the start
\* and is live.
Proven(i) ==
    /\ jar[attempt[i].provider].proof = i
    /\ holder = attempt[i].session /\ Signed /\ SignedInAs = attempt[i].by

\* verifyExternalAuthTrialContext compares the browser's trial with the one of
\* the start; here the browser keeps its trial.
Identify(c) ==
    LET i == post[c].of IN
    /\ At(c, "identify")
    /\ IF answer[i].is = "code" /\ (IF Of(c).intent = "login" THEN ~Signed ELSE Proven(i))
         THEN /\ post' = [post EXCEPT ![c].at = "exchange", ![c].trial = Of(c).by = Trial,
                                      ![c].session = IF Of(c).intent = "login" THEN 0 ELSE holder]
              /\ UNCHANGED <<jar, outcome>>
         ELSE Answered(c, TRUE)
    /\ UNCHANGED <<attempt, holder, owner, logins, identity, answer, posted, consents>>

\* exchangeOidcAuthorizationCode; the provider may not answer.
Exchange(c) ==
    /\ At(c, "exchange")
    /\ \/ Goto(c, "verify") /\ UNCHANGED <<jar, outcome>>
       \/ Answered(c, TRUE)
    /\ UNCHANGED <<attempt, holder, owner, logins, identity, answer, posted, consents>>

\* verifyLineIdToken asks LINE.  verifyGoogleIdToken compares the signature
\* with the published keys, fetched again when the cached ones lack the key;
\* the provider is down, or the key or the claims of the token are refused.
Verify(c) ==
    /\ At(c, "verify")
    /\ \/ /\ Goto(c, IF Of(c).provider = "line" THEN "deauthorize" ELSE "conclude")
          /\ UNCHANGED <<jar, outcome>>
       \/ Answered(c, TRUE)
    /\ UNCHANGED <<attempt, holder, owner, logins, identity, answer, posted, consents>>

\* deauthorizeLineAuthorization: LINE may refuse, or its answer may be lost.
Deauthorize(c) ==
    /\ At(c, "deauthorize")
    /\ \/ consents' = consents \ {post[c].of} /\ Goto(c, "conclude") /\ UNCHANGED <<jar, outcome>>
       \/ /\ consents' \in {consents, consents \ {post[c].of}}
          /\ Answered(c, TRUE)
    /\ UNCHANGED <<attempt, holder, owner, logins, identity, answer, posted>>

-------------------------------------------------------------------------------
(* The statements at the end.                                               *)

\* Mutant: the proof taken before the calls to the provider is trusted.
WasIn(c) == post[c].session # 0

\* They repeat that the session of the start is live.
StillIn(c) == post[c].session # 0 /\ owner[post[c].session] = Of(c).by

\* The account a successful callback is for; nobody when it is refused.
Account(c) ==
    LET s == answer[post[c].of].subject IN
    CASE Of(c).intent = "reauthenticate" -> IF StillIn(c) /\ identity[s] = Of(c).by THEN identity[s] ELSE Nobody
      [] Of(c).intent = "link" -> IF StillIn(c) /\ identity[s] \in {Nobody, Of(c).by} THEN Of(c).by ELSE Nobody
      [] OTHER -> IF identity[s] # Nobody THEN identity[s]
                  ELSE IF post[c].trial
                    THEN CHOOSE a \in People \cup {Nobody} :
                           a = Nobody \/ (\A t \in Subjects : identity[t] # a)
                    ELSE Nobody

\* linkVerified-, reauthenticateVerified-, authenticateVerifiedExternalIdentity
\* and createAccountSession.  A link makes no session.
Conclude(c) ==
    LET i == post[c].of
        a == Account(c)
        s == answer[i].subject IN
    /\ At(c, "conclude")
    /\ post' = [post EXCEPT ![c] = Idle]
    /\ jar' = [jar EXCEPT ![Of(c).provider] = [state |-> 0, proof |-> 0]]
    /\ outcome' = [outcome EXCEPT ![i] = [told |-> @.told + 1, changed |-> IF a = Nobody THEN @.changed ELSE @.changed + 1]]
    /\ identity' = IF a = Nobody THEN identity ELSE [identity EXCEPT ![s] = a]
    /\ IF a = Nobody \/ Of(c).intent = "link" THEN UNCHANGED <<owner, logins, holder>>
       ELSE /\ logins < MaxLogins
            /\ logins' = logins + 1
            /\ owner' = [owner EXCEPT ![logins + 1] = a]
            /\ holder' = logins + 1
    /\ UNCHANGED <<attempt, answer, posted, consents>>

-------------------------------------------------------------------------------
(* Meanwhile.                                                               *)

PasskeyLogin(a) ==
    /\ ~Signed /\ logins < MaxLogins
    /\ logins' = logins + 1
    /\ owner' = [owner EXCEPT ![logins + 1] = a]
    /\ holder' = logins + 1
    /\ UNCHANGED <<attempt, jar, identity, answer, post, posted, consents, outcome>>

Logout ==
    /\ Signed
    /\ owner' = [owner EXCEPT ![holder] = Nobody]
    /\ holder' = 0
    /\ UNCHANGED <<attempt, jar, logins, identity, answer, post, posted, consents, outcome>>

Next ==
    \/ \E i \in Attempts :
          \/ \E p \in Providers, intent \in {"login", "link", "reauthenticate"} : Begin(i, p, intent)
          \/ Expire(i) \/ ProviderAnswers(i)
    \/ \E c \in Posts :
          \/ \E i \in Attempts : Post(c, i)
          \/ Find(c) \/ Consume(c) \/ Identify(c) \/ Exchange(c)
          \/ Verify(c) \/ Deauthorize(c) \/ Conclude(c)
    \/ \E a \in People : PasskeyLogin(a)
    \/ Logout

Spec == Init /\ [][Next]_cvars

-------------------------------------------------------------------------------
TypeOK ==
    /\ \A i \in Attempts : attempt[i].status \in {"new", "open", "consumed", "expired"}
    /\ holder \in 0 .. logins
    /\ identity \in [Subjects -> People \cup {Nobody}]
    /\ \A c \in Posts : post[c].of \in Attempts \cup {0}

\* However often the page of an attempt is posted, the attempt changes at most
\* one thing and leaves at most one milestone; and a change by LINE comes only
\* after the consent it used was removed.
AttemptCountsOnce ==
    \A i \in Attempts :
        /\ outcome[i].told <= 1 /\ outcome[i].changed <= outcome[i].told
        /\ outcome[i].changed = 1 => i \notin consents

\* A link or a step-up changes only the account that began it, while the
\* session that began it is live: a browser that signed out, or signed in to
\* another account, while the provider was asked keeps what it has.
ConcludesForWhoBegan ==
    \A i \in Attempts :
      outcome'[i].changed # outcome[i].changed /\ attempt[i].intent # "login" =>
         /\ owner[attempt[i].session] = attempt[i].by
         /\ \A s \in Subjects : identity'[s] \in {identity[s], attempt[i].by}
         /\ holder' # holder => owner'[holder'] = attempt[i].by
-------------------------------------------------------------------------------
(* What every step keeps.                                                   *)

Served ==
    [at : {"idle", "find", "consume", "identify", "exchange", "verify", "deauthorize", "conclude"},
     of : Attempts \cup {0}, matched : BOOLEAN, session : Nat, trial : BOOLEAN]
Proved(s) == s.at \in {"exchange", "verify", "deauthorize", "conclude"}
Holds(s) == s.at = "identify" \/ Proved(s)

Kinds ==
    /\ attempt \in [Attempts -> [status : {"new", "open", "consumed", "expired"}, provider : Providers,
                                 intent : {"login", "link", "reauthenticate"},
                                 by : People \cup {Trial, Nobody}, session : 0 .. MaxLogins]]
    /\ logins \in 0 .. MaxLogins /\ holder \in 0 .. logins
    /\ owner \in [1 .. MaxLogins -> People \cup {Nobody}]
    /\ identity \in [Subjects -> People \cup {Nobody}]
    /\ answer \in [Attempts -> [is : {"none", "code", "error"}, subject : Subjects \cup {Nobody}]]
    /\ post \in [Posts -> Served]
    /\ outcome \in [Attempts -> [told : Nat, changed : Nat]]

\* A post that took its attempt is the first to tell of it.
TakesItsAttempt(s) ==
    /\ s.at # "idle" => s.of \in Attempts /\ answer[s.of].is # "none"
    /\ Holds(s) => attempt[s.of].status = "consumed" /\ outcome[s.of].told = 0

\* What the checks before the calls to the provider found stays so.
ProvedItsSession(s) ==
    /\ Proved(s) => /\ answer[s.of].is = "code"
                    /\ attempt[s.of].intent # "login" => s.session = attempt[s.of].session
    /\ s.at = "conclude" => s.of \notin consents

Sound(s) == TakesItsAttempt(s) /\ ProvedItsSession(s)

Counted(i) ==
    /\ outcome[i].told <= 1 /\ outcome[i].changed <= outcome[i].told
    /\ outcome[i].told # 0 => attempt[i].status = "consumed" /\ answer[i].is # "none"
    /\ outcome[i].changed # 0 => i \notin consents
    /\ i \in consents => answer[i].is = "code" /\ attempt[i].provider = "line"
    /\ answer[i].is # "none" => attempt[i].status # "new"
    /\ answer[i].is = "code" => answer[i].subject \in Subjects

CallbackIInv ==
    /\ Kinds
    /\ \A c \in Posts : Sound(post[c])
    /\ \A c, d \in Posts : c # d /\ Holds(post[c]) /\ Holds(post[d]) => post[c].of # post[d].of
    /\ \A i \in Attempts : Counted(i)
===============================================================================
