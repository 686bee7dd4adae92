--------------------------- MODULE AccountSessions ---------------------------
(***************************************************************************)
(* Sign-in, step-up and sign-out: lib/account-auth.ts (passkeys and        *)
(* sessions), lib/oidc-auth.ts with lib/external-account-auth.ts (LINE     *)
(* and Google).  Every ceremony starts with a challenge, comes back with   *)
(* an answer that is checked against rows read then, and ends in           *)
(* statements that repeat the checks on the rows as they are by then.      *)
(* Between the three the same account acts in other browsers.              *)
(*                                                                         *)
(* Passkeys are the synced kind, whose counter stays zero, so that the     *)
(* comparison of counters refuses nothing.  A ceremony is a browser's; its *)
(* challenge is consumed by the answer, once.                              *)
(***************************************************************************)
EXTENDS Integers, FiniteSets

CONSTANTS
    Accounts, Passkeys, Subjects,  \* subjects: users of LINE or Google
    Browsers,
    MaxPasskeys,
    MaxSessions  \* bound of the model: sessions ever made

VARIABLES
    credential,  \* whose each passkey or subject is, unknown or removed
    closed,      \* accounts deleted
    session,     \* account_sessions, by number
    made,        \* sessions made so far
    cookie,      \* the session each browser holds
    ceremony,    \* the ceremony each browser is in
    purged       \* of a removed passkey: the session that removed it, if done

avars == <<credential, closed, session, made, cookie, ceremony, purged>>

Unknown == "unknown"
Removed == "removed"
Credentials == Passkeys \cup Subjects
NoSession == [user |-> Unknown, by |-> Unknown, fresh |-> FALSE, stepUp |-> FALSE]
Idle == [kind |-> "none", stage |-> "none", from |-> 0, user |-> Unknown, key |-> Unknown]

NewSession(a, c, stepUp) == [user |-> a, by |-> c, fresh |-> TRUE, stepUp |-> stepUp]

\* Nobody has an account yet; or one was made when a passkey alone made it,
\* the case deleteAccountPasskey keeps a last passkey for.
Init ==
    /\ closed = {}
    /\ ceremony = [b \in Browsers |-> Idle]
    /\ purged = [k \in Passkeys |-> -1]
    /\ \/ /\ credential = [c \in Credentials |-> Unknown]
          /\ session = [i \in 1 .. MaxSessions |-> NoSession]
          /\ made = 0
          /\ cookie = [b \in Browsers |-> 0]
       \/ \E a \in Accounts : LET k == CHOOSE c \in Passkeys : TRUE
                                d == CHOOSE c \in Browsers : TRUE IN
          /\ credential = [c \in Credentials |-> IF c \in Passkeys THEN a ELSE Unknown]
          /\ session = [i \in 1 .. MaxSessions |-> IF i = MaxSessions - 1 THEN NewSession(a, k, TRUE) ELSE NoSession]
          /\ made = MaxSessions - 1
          /\ cookie = [b \in Browsers |-> IF b = d THEN MaxSessions - 1 ELSE 0]

Owned(a) == {c \in Credentials : credential[c] = a}
IsLive(i, a) == i # 0 /\ session[i].user = a
UserOf(b) == IF cookie[b] = 0 THEN Unknown ELSE session[cookie[b]].user

\* getAccountIdentity: a session counts while its account has a way in.
SignedIn(b) == UserOf(b) # Unknown /\ Owned(UserOf(b)) # {} /\ UserOf(b) \notin closed
\* requireRecentAccountSession; requireRecentAccountReauthentication.
Recent(i) == i # 0 /\ session[i].user # Unknown /\ session[i].fresh
SteppedUp(i) == Recent(i) /\ session[i].stepUp

Enter(b, kind, from, user) ==
    /\ ceremony[b] = Idle
    /\ ceremony' = [ceremony EXCEPT ![b] =
                      [kind |-> kind, stage |-> "asked", from |-> from, user |-> user, key |-> Unknown]]
Leave(b) == ceremony' = [ceremony EXCEPT ![b] = Idle]

\* The session of a finished ceremony replaces the browser's cookie; the one
\* it held before stays in the table.
Mint(b, a, c, stepUp) ==
    /\ made < MaxSessions
    /\ made' = made + 1
    /\ session' = [session EXCEPT ![made + 1] = NewSession(a, c, stepUp)]
    /\ cookie' = [cookie EXCEPT ![b] = made + 1]
NoMint == UNCHANGED <<made, session, cookie>>

-------------------------------------------------------------------------------
(* Challenges.                                                              *)

Start(b) ==
    /\ \/ Enter(b, "passkeyLogin", 0, Unknown)
       \/ ~SignedIn(b) /\ Enter(b, "providerLogin", 0, Unknown)
       \/ SignedIn(b) /\ \E k \in Passkeys : credential[k] = UserOf(b)
            /\ Enter(b, "passkeyStepUp", cookie[b], UserOf(b))
       \/ SignedIn(b) /\ \E s \in Subjects : credential[s] = UserOf(b)
            /\ Enter(b, "providerStepUp", cookie[b], UserOf(b))
       \/ SignedIn(b) /\ Recent(cookie[b]) /\ Enter(b, "link", cookie[b], UserOf(b))
       \/ /\ SignedIn(b) /\ SteppedUp(cookie[b])
          /\ Cardinality(Owned(UserOf(b)) \cap Passkeys) < MaxPasskeys
          /\ Enter(b, "register", cookie[b], UserOf(b))
       \/ Recent(cookie[b]) /\ Enter(b, "remove", cookie[b], UserOf(b))
    /\ UNCHANGED <<credential, closed, session, made, cookie, purged>>

GiveUp(b) ==
    /\ ceremony[b].stage \in {"asked", "checked"}
    /\ Leave(b)
    /\ UNCHANGED <<credential, closed, session, made, cookie, purged>>

-------------------------------------------------------------------------------
(* Answers.  The challenge is consumed, the browser is asked who it is now, *)
(* and the credential the answer names is read.                             *)

Kind(b) == ceremony[b].kind
SameBrowser(b) == cookie[b] = ceremony[b].from /\ SignedIn(b) /\ UserOf(b) = ceremony[b].user

Admissible(b, c) ==
    CASE Kind(b) = "passkeyLogin"   -> c \in Passkeys /\ credential[c] \in Accounts
      [] Kind(b) = "passkeyStepUp"  -> c \in Passkeys /\ credential[c] = ceremony[b].user /\ SameBrowser(b)
      [] Kind(b) = "register"       -> c \in Passkeys /\ credential[c] = Unknown
                                          /\ SameBrowser(b) /\ SteppedUp(cookie[b])
      [] Kind(b) = "remove"         -> c \in Passkeys /\ credential[c] # Unknown
      [] Kind(b) = "providerLogin"  -> c \in Subjects /\ ~SignedIn(b)
      [] Kind(b) = "providerStepUp" -> c \in Subjects /\ credential[c] = ceremony[b].user /\ SameBrowser(b)
      [] Kind(b) = "link"           -> c \in Subjects /\ credential[c] \in {Unknown, ceremony[b].user}
                                          /\ SameBrowser(b) /\ Recent(cookie[b])
      [] OTHER                      -> FALSE

Answer(b, c) ==
    /\ ceremony[b].stage = "asked"
    /\ Admissible(b, c)
    /\ ceremony' = [ceremony EXCEPT ![b].stage = "checked", ![b].key = c,
                                    ![b].user = IF @ = Unknown THEN credential[c] ELSE @]
    /\ UNCHANGED <<credential, closed, session, made, cookie, purged>>

-------------------------------------------------------------------------------
(* The statements that end a ceremony.                                      *)

Key(b) == ceremony[b].key
Account(b) == ceremony[b].user
Checked(b, kinds) == ceremony[b].stage = "checked" /\ Kind(b) \in kinds

\* Mutant: the check at the answer is trusted.
BeganOnce(b) == TRUE

\* The condition every statement repeats: the session that began is still there.
Began(b) == ceremony[b].from # 0 => IsLive(ceremony[b].from, Account(b))

\* Mutant: the credential read at the answer is trusted.
MaySignInAsRead(b) == Account(b) \in Accounts \ closed /\ Began(b)

\* verifyAuthentication, createAccountSession.
MaySignIn(b) ==
    /\ credential[Key(b)] = Account(b) /\ Account(b) \notin closed
    /\ Began(b)

SignIn(b) ==
    /\ Checked(b, {"passkeyLogin", "passkeyStepUp", "providerLogin", "providerStepUp"})
    /\ Account(b) # Unknown
    /\ IF MaySignIn(b) THEN Mint(b, Account(b), Key(b), ceremony[b].from # 0) ELSE NoMint
    /\ Leave(b)
    /\ UNCHANGED <<credential, closed, purged>>

\* A subject unknown at the answer makes the visitor's trial an account,
\* unless another callback of that subject was first: then it signs in there.
SignUp(b) ==
    /\ Checked(b, {"providerLogin"}) /\ Account(b) = Unknown
    /\ IF credential[Key(b)] = Unknown
         THEN \E a \in Accounts \ closed :
                /\ Owned(a) = {} /\ \A i \in 1 .. made : session[i].user # a
                /\ \A d \in Browsers : ceremony[d].user # a
                /\ credential' = [credential EXCEPT ![Key(b)] = a]
                /\ Mint(b, a, Key(b), FALSE)
         ELSE /\ credential[Key(b)] \in Accounts
              /\ Mint(b, credential[Key(b)], Key(b), FALSE)
              /\ UNCHANGED credential
    /\ Leave(b)
    /\ UNCHANGED <<closed, purged>>

\* linkVerifiedExternalIdentity makes no session.
Link(b) ==
    /\ Checked(b, {"link"})
    /\ credential' = IF /\ Account(b) \notin closed /\ Began(b) /\ Recent(ceremony[b].from)
                        /\ credential[Key(b)] = Unknown
                       THEN [credential EXCEPT ![Key(b)] = Account(b)] ELSE credential
    /\ Leave(b)
    /\ UNCHANGED <<closed, session, made, cookie, purged>>

\* verifyRegistration: one batch adds the passkey and a session of it.
Register(b) ==
    /\ Checked(b, {"register"})
    /\ IF /\ Account(b) \notin closed /\ Began(b) /\ SteppedUp(ceremony[b].from)
          /\ Cardinality(Owned(Account(b)) \cap Passkeys) < MaxPasskeys
          /\ credential[Key(b)] = Unknown
         THEN /\ credential' = [credential EXCEPT ![Key(b)] = Account(b)]
              /\ Mint(b, Account(b), Key(b), TRUE)
         ELSE NoMint /\ UNCHANGED credential
    /\ Leave(b)
    /\ UNCHANGED <<closed, purged>>

\* Mutant: the subjects' rows are not asked for.
KeepsAPasskeyOrSession(a, k) == Cardinality(Owned(a) \cap Passkeys) >= 1

\* deleteAccountPasskey: its first statement keeps the last way in.
KeepsAWayIn(a, k) == Cardinality(Owned(a) \cap Passkeys) > 1 \/ Owned(a) \cap Subjects # {}

Remove(b) ==
    LET k == Key(b) IN
    /\ Checked(b, {"remove"})
    /\ IF credential[k] = Account(b) /\ KeepsAWayIn(Account(b), k)
         THEN /\ credential' = [credential EXCEPT ![k] = Removed]
              /\ ceremony' = [ceremony EXCEPT ![b].stage = "purge"]
         ELSE Leave(b) /\ UNCHANGED credential
    /\ UNCHANGED <<closed, session, made, cookie, purged>>

\* Its second one signs out every other browser; its worker may die before.
Purge(b) ==
    /\ ceremony[b].stage = "purge"
    /\ session' = [i \in DOMAIN session |->
                     IF session[i].user = Account(b) /\ i # ceremony[b].from THEN NoSession ELSE session[i]]
    /\ purged' = [purged EXCEPT ![Key(b)] = ceremony[b].from]
    /\ Leave(b)
    /\ UNCHANGED <<credential, closed, made, cookie>>

DieBeforePurge(b) ==
    /\ ceremony[b].stage = "purge"
    /\ Leave(b)
    /\ UNCHANGED <<credential, closed, session, made, cookie, purged>>

-------------------------------------------------------------------------------
Logout(b) ==
    /\ cookie[b] # 0
    /\ session' = [session EXCEPT ![cookie[b]] = NoSession]
    /\ cookie' = [cookie EXCEPT ![b] = 0]
    /\ UNCHANGED <<credential, closed, made, ceremony, purged>>

\* revokeAllAccountSessions.
LogoutEverywhere(b) ==
    /\ Recent(cookie[b])
    /\ session' = [i \in DOMAIN session |-> IF session[i].user = UserOf(b) THEN NoSession ELSE session[i]]
    /\ cookie' = [cookie EXCEPT ![b] = 0]
    /\ UNCHANGED <<credential, closed, made, ceremony, purged>>

\* Ten minutes.
GrowsOld(i) ==
    /\ session[i].fresh
    /\ session' = [session EXCEPT ![i].fresh = FALSE]
    /\ UNCHANGED <<credential, closed, made, cookie, ceremony, purged>>

\* completeDeletion, of module AccountDeletion.
CloseAccount(a) ==
    /\ a \notin closed /\ Owned(a) # {}
    /\ closed' = closed \cup {a}
    /\ credential' = [c \in Credentials |-> IF credential[c] # a THEN credential[c]
                                            ELSE IF c \in Passkeys THEN Removed ELSE Unknown]
    /\ session' = [i \in DOMAIN session |-> IF session[i].user = a THEN NoSession ELSE session[i]]
    /\ UNCHANGED <<made, cookie, ceremony, purged>>

Next ==
    \/ \E b \in Browsers :
          \/ Start(b) \/ GiveUp(b) \/ \E c \in Credentials : Answer(b, c)
          \/ SignIn(b) \/ SignUp(b) \/ Link(b) \/ Register(b)
          \/ Remove(b) \/ Purge(b) \/ DieBeforePurge(b)
          \/ Logout(b) \/ LogoutEverywhere(b)
    \/ \E i \in 1 .. MaxSessions : GrowsOld(i)
    \/ \E a \in Accounts : CloseAccount(a)

Spec == Init /\ [][Next]_avars

-------------------------------------------------------------------------------
TypeOK ==
    /\ credential \in [Credentials -> Accounts \cup {Unknown, Removed}]
    /\ \A i \in DOMAIN session : session[i].user \in Accounts \cup {Unknown}
    /\ \A b \in Browsers : cookie[b] \in 0 .. made /\ ceremony[b].from \in 0 .. made

\* An account that is open and was ever signed in to keeps a way in, although
\* its passkeys are removed in two browsers at once.
AlwaysAWayIn ==
    \A i \in DOMAIN session :
        session[i].user # Unknown => session[i].user \notin closed /\ Owned(session[i].user) # {}

\* Once the removal of a passkey is done, no browser stays signed in or is let
\* in by it, save the one that removed it.
NoSessionOfARemovedPasskey ==
    \A k \in Passkeys, i \in DOMAIN session :
        purged[k] # -1 /\ session[i].by = k => i = purged[k]

\* A step-up or a registration never brings a browser back that was signed out
\* between the answer and the statement.
SignedOutStaysOut ==
    [][\A b \in Browsers :
          cookie'[b] # cookie[b] /\ cookie'[b] # 0 /\ ceremony[b].from # 0 =>
             IsLive(ceremony[b].from, session'[cookie'[b]].user)]_avars
===============================================================================
