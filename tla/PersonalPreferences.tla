-------------------------- MODULE PersonalPreferences --------------------------
(***************************************************************************)
(* The usual finish of a customer: app/page.tsx reads it from the account  *)
(* or, for a visitor, from the browser, applies it, and writes it back as  *)
(* it is edited; app/api/personal-edit-preferences and its store keep the  *)
(* account's.  A setting is a number: what somebody chose, once.  "mode"   *)
(* stands for the recipe, which the demonstration sets and gives back, and *)
(* "words" for the dictionary, which it leaves alone.                      *)
(***************************************************************************)
EXTENDS Integers, Sequences, FiniteSets

CONSTANTS
    Accounts,
    MaxChoices,  \* bounds of the model: settings ever chosen,
    MaxLoads,    \* pages opened,
    MaxFiles,    \* files chosen,
    MaxFaults,   \* requests that fail
    MaxSwitches  \* sign-ins and sign-outs

VARIABLES
    local,    \* localStorage: a key per account, the visitor's, the one before keys
    rows,     \* account -> what the server keeps
    session,  \* whose cookie the browser sends
    hint,     \* torudake-account-authenticated
    page,     \* the open page's state
    reading,  \* its GET
    due,      \* its save timer runs
    wire,     \* its PUTs that no answer ended
    choosing, \* files whose length is being read
    owners,   \* who chose each setting (history)
    spent,    \* pages, faults and switches (bound)
    unruly    \* what the page did not allow for (history)

pvars == <<local, rows, session, hint, page, reading, due, wire, choosing, owners, spent, unruly>>

Default == 0
Demo == -1      \* what the demonstration sets
Draft == -2     \* what a recovered draft sets
Usual == [mode |-> Default, words |-> Default]
Nothing == [mode |-> -9, words |-> -9]  \* a key that is not there

Keys == Accounts \cup {"anonymous", "legacy"}
Idle == [stage |-> "idle", account |-> "none", prefs |-> Usual]

\* useState and useRef of a page just opened.
Fresh ==
    [status |-> "checking", key |-> "none", hydrated |-> FALSE, edited |-> FALSE,
     prefs |-> Usual, demo |-> FALSE, before |-> Default]

-------------------------------------------------------------------------------
(* The browser's copy                                                       *)

\* readLocalPersonalEditPreferences with migrateLegacyAnonymous.
ReadAnonymous ==
    IF local["anonymous"] # Nothing THEN local["anonymous"]
    ELSE IF local["legacy"] # Nothing THEN local["legacy"] ELSE Usual

Migrated ==
    IF local["anonymous"] = Nothing /\ local["legacy"] # Nothing
        THEN [local EXCEPT !["anonymous"] = local["legacy"], !["legacy"] = Nothing]
        ELSE local

\* Mutant: the demonstration's settings are kept like any other.
SavesAlways(p) == p.hydrated

\* The save effect's guard.
Saves(p) == p.hydrated /\ ~p.demo

\* An aborted PUT may still arrive; nobody hears its answer.
GivenUp == {[w EXCEPT !.live = FALSE] : w \in {v \in wire : v.stage = "sent"}}

\* A render that changed something: the effect of the previous one is cleaned
\* up, its timer cleared and its PUT aborted, and this one's runs.
Rendered(p, kept) ==
    /\ page' = p
    /\ local' = IF Saves(p) /\ p.key # "none" THEN [kept EXCEPT ![p.key] = p.prefs] ELSE kept
    /\ due' = (Saves(p) /\ p.status = "authenticated" /\ p.edited)
    /\ wire' = GivenUp

Started == page # Fresh \/ reading.stage # "idle"

-------------------------------------------------------------------------------
(* The page reads                                                           *)

\* The effect of the first render: a visitor's is local, an account's is asked
\* for.
Open ==
    /\ ~Started
    /\ IF hint
        THEN reading' = [Idle EXCEPT !.stage = "recipe"] /\ UNCHANGED <<page, local, due, wire>>
        ELSE /\ Rendered([page EXCEPT !.prefs = ReadAnonymous, !.key = "anonymous", !.hydrated = TRUE,
                                      !.status = "local-only"], Migrated)
             /\ UNCHANGED reading
    /\ UNCHANGED <<rows, session, hint, choosing, owners, spent, unruly>>

\* getPersonalEditPreferences: the recipe and the dictionary are two reads.
ReadRecipe ==
    /\ reading.stage = "recipe"
    /\ reading' =
          IF session = "none" THEN [reading EXCEPT !.stage = "401"]
          ELSE [stage |-> "dictionary", account |-> session, prefs |-> [Usual EXCEPT !.mode = rows[session].mode]]
    /\ UNCHANGED <<local, rows, session, hint, page, due, wire, choosing, owners, spent, unruly>>

ReadDictionary ==
    /\ reading.stage = "dictionary"
    /\ reading' = [reading EXCEPT !.stage = "200", !.prefs.words = rows[reading.account].words]
    /\ UNCHANGED <<local, rows, session, hint, page, due, wire, choosing, owners, spent, unruly>>

ReadFails ==
    /\ reading.stage \in {"recipe", "dictionary"} /\ spent.faults < MaxFaults
    /\ spent' = [spent EXCEPT !.faults = @ + 1]
    /\ reading' = [reading EXCEPT !.stage = "500"]
    /\ UNCHANGED <<local, rows, session, hint, page, due, wire, choosing, owners, unruly>>

\* What an answer brings is applied unless the person has already edited.
Applied(prefs) == IF page.edited THEN page ELSE [page EXCEPT !.prefs = prefs]

\* Applied under the demonstration, which gives back what was before it.
UnderDemo(done) == IF page.demo /\ ~page.edited THEN unruly \cup {"demo"} ELSE done

Visitor == [Applied(ReadAnonymous) EXCEPT !.key = "anonymous"]

Answer ==
    /\ CASE reading.stage = "401" ->
              /\ hint' = FALSE
              /\ Rendered([Visitor EXCEPT !.hydrated = TRUE, !.status = "local-only"], Migrated)
              /\ unruly' = UnderDemo(unruly)
         [] reading.stage = "200" ->
              /\ Rendered([Applied(reading.prefs) EXCEPT !.key = reading.account, !.hydrated = TRUE,
                                                         !.status = "authenticated"], local)
              /\ unruly' = UnderDemo(unruly)
              /\ UNCHANGED hint
         [] reading.stage = "500" ->
              /\ Rendered([page EXCEPT !.hydrated = TRUE, !.status = "unavailable"], local)
              /\ UNCHANGED <<hint, unruly>>
         [] OTHER -> FALSE
    /\ reading' = Idle
    /\ UNCHANGED <<rows, session, choosing, owners, spent>>

-------------------------------------------------------------------------------
(* The person edits                                                         *)

\* A setting chosen now is of the account or visitor the page is of.
Owner == IF page.key = "none" THEN "person" ELSE page.key

\* setPersonal..., setPersonalDictionary, rememberPronunciationEntries.
Edit(f) ==
    /\ Started /\ Len(owners) < MaxChoices
    /\ owners' = Append(owners, Owner)
    /\ Rendered([page EXCEPT !.edited = TRUE, !.prefs[f] = Len(owners')], local)
    /\ unruly' = IF page.hydrated THEN unruly ELSE unruly \cup {"early"}
    /\ UNCHANGED <<rows, session, hint, reading, choosing, spent>>

\* chooseFile: what it reads of the page is of the render that called it.
Choose(kind) ==
    /\ Started /\ spent.files < MaxFiles
    /\ spent' = [spent EXCEPT !.files = @ + 1]
    /\ choosing' = choosing \cup {[kind |-> kind, sawDemo |-> page.demo, saw |-> page.prefs.mode]}
    /\ UNCHANGED <<local, rows, session, hint, page, reading, due, wire, owners, unruly>>

\* The demonstration sets the recipe aside; a file of the person's, or a draft
\* of it, takes its place.
Shown(c) ==
    IF c.kind = "demo"
        THEN [page EXCEPT !.demo = TRUE, !.before = IF c.sawDemo THEN @ ELSE c.saw, !.prefs.mode = Demo]
    ELSE IF c.kind = "draft" THEN [page EXCEPT !.demo = FALSE, !.prefs.mode = Draft]
    ELSE IF c.sawDemo THEN [page EXCEPT !.demo = FALSE, !.prefs.mode = page.before, !.before = Default]
    ELSE [page EXCEPT !.demo = FALSE]

Chosen(c) ==
    /\ c \in choosing
    /\ choosing' = choosing \ {c}
    /\ IF Shown(c) = page THEN UNCHANGED <<page, local, due, wire>> ELSE Rendered(Shown(c), local)
    /\ unruly' = IF c.sawDemo # page.demo \/ (~c.sawDemo /\ c.saw # page.prefs.mode) THEN unruly \cup {"stale"} ELSE unruly
    /\ UNCHANGED <<rows, session, hint, reading, owners, spent>>

\* The file cannot be read, or is not the draft's.
NotChosen(c) ==
    /\ c \in choosing
    /\ choosing' = choosing \ {c}
    /\ UNCHANGED <<local, rows, session, hint, page, reading, due, wire, owners, spent, unruly>>

\* Mutant: the page is left with what the demonstration set.
ResetKeepingDemo == [page EXCEPT !.demo = FALSE]

\* reset
GivenBack == [page EXCEPT !.demo = FALSE, !.prefs.mode = page.before, !.before = Default]

Reset ==
    /\ page.demo
    /\ Rendered(GivenBack, local)
    /\ UNCHANGED <<rows, session, hint, reading, choosing, owners, spent, unruly>>

-------------------------------------------------------------------------------
(* The page writes                                                          *)

Save ==
    /\ due
    /\ due' = FALSE
    /\ wire' = wire \cup {[stage |-> "sent", prefs |-> page.prefs, key |-> page.key, live |-> TRUE]}
    /\ UNCHANGED <<local, rows, session, hint, page, reading, choosing, owners, spent, unruly>>

\* A PUT nobody waits for any more, after the last one that somebody did.
IsLate(w) == ~w.live /\ ~due /\ ~\E v \in wire : v.live

\* savePersonalEditPreferences: one batch, for whoever is signed in.
Put(w) ==
    /\ w \in wire /\ w.stage = "sent"
    /\ IF session = "none"
        THEN /\ wire' = (wire \ {w}) \cup (IF w.live THEN {[w EXCEPT !.stage = "401"]} ELSE {})
             /\ UNCHANGED <<rows, unruly>>
        ELSE /\ rows' = [rows EXCEPT ![session] = w.prefs]
             /\ wire' = wire \ {w}
             /\ unruly' = unruly \cup (IF session # w.key THEN {"crossed"} ELSE {}) \cup (IF IsLate(w) THEN {"late"} ELSE {})
    /\ UNCHANGED <<local, session, hint, page, reading, due, choosing, owners, spent>>

\* It fails, or never arrives.
PutFails(w) ==
    /\ w \in wire /\ w.stage = "sent"
    /\ w.live => spent.faults < MaxFaults
    /\ spent' = IF w.live THEN [spent EXCEPT !.faults = @ + 1] ELSE spent
    /\ wire' = (wire \ {w}) \cup (IF w.live THEN {[w EXCEPT !.stage = "500"]} ELSE {})
    /\ UNCHANGED <<local, rows, session, hint, page, reading, due, choosing, owners, unruly>>

\* Mutant: somebody signed out leaves the account's settings to the visitor.
SignedOutKeepingPrefs == [page EXCEPT !.edited = FALSE, !.key = "anonymous", !.status = "local-only"]

SignedOut ==
    [page EXCEPT !.edited = FALSE, !.prefs = ReadAnonymous, !.key = "anonymous", !.status = "local-only"]

Refused(w) ==
    /\ w \in wire /\ w.live /\ w.stage # "sent"
    /\ IF w.stage = "401"
        THEN hint' = FALSE /\ Rendered(SignedOut, Migrated)
        ELSE UNCHANGED hint /\ Rendered([page EXCEPT !.status = "unavailable"], local)
    /\ UNCHANGED <<rows, session, reading, choosing, owners, spent, unruly>>

-------------------------------------------------------------------------------
(* Around the page                                                          *)

\* app/account/account-client.tsx, in a tab of its own, keeps the hint.
Switch(a) ==
    /\ spent.switches < MaxSwitches /\ session # a
    /\ spent' = [spent EXCEPT !.switches = @ + 1]
    /\ session' = a /\ hint' = (a # "none")
    /\ UNCHANGED <<local, rows, page, reading, due, wire, choosing, owners, unruly>>

\* The session ends where no page notices.
Lapse ==
    /\ spent.switches < MaxSwitches /\ session # "none"
    /\ spent' = [spent EXCEPT !.switches = @ + 1]
    /\ session' = "none"
    /\ UNCHANGED <<local, rows, hint, page, reading, due, wire, choosing, owners, unruly>>

\* The page is left and opened again: its requests may still arrive.
Load ==
    /\ Started /\ spent.loads < MaxLoads
    /\ spent' = [spent EXCEPT !.loads = @ + 1]
    /\ page' = Fresh /\ reading' = Idle /\ choosing' = {} /\ due' = FALSE
    /\ wire' = GivenUp
    /\ UNCHANGED <<local, rows, session, hint, owners, unruly>>

-------------------------------------------------------------------------------
\* The accounts one after the other.
InARow ==
    CHOOSE order \in [1..Cardinality(Accounts) -> Accounts] : \A a \in Accounts : \E n \in DOMAIN order : order[n] = a

\* Each account has settings of its own, and so had the visitor once.
PpInit ==
    /\ owners = Append(InARow, "anonymous")
    /\ rows = [a \in Accounts |-> LET n == CHOOSE n \in 1..Len(owners) : owners[n] = a IN [mode |-> n, words |-> n]]
    /\ local = [k \in Keys |-> IF k = "legacy" THEN [mode |-> Len(owners), words |-> Len(owners)] ELSE Nothing]
    /\ session \in {owners[1], "none"} /\ hint = (session # "none")
    /\ page = Fresh /\ reading = Idle /\ due = FALSE /\ wire = {} /\ choosing = {}
    /\ spent = [loads |-> 1, files |-> 0, faults |-> 0, switches |-> 0]
    /\ unruly = {}

PpNext ==
    \/ Open \/ ReadRecipe \/ ReadDictionary \/ ReadFails \/ Answer \/ Reset \/ Save \/ Lapse \/ Load
    \/ \E f \in {"mode", "words"} : Edit(f)
    \/ \E kind \in {"demo", "own", "draft"} : Choose(kind)
    \/ \E c \in choosing : Chosen(c) \/ NotChosen(c)
    \/ \E w \in wire : Put(w) \/ PutFails(w) \/ Refused(w)
    \/ \E a \in Accounts \cup {"none"} : Switch(a)

PpSpec == PpInit /\ [][PpNext]_pvars

-------------------------------------------------------------------------------
Values == Draft..Len(owners)
Prefs == [mode : Values, words : Values]

PpTypeOK ==
    /\ local \in [Keys -> Prefs \cup {Nothing}] /\ rows \in [Accounts -> Prefs]
    /\ session \in Accounts \cup {"none"} /\ hint \in BOOLEAN /\ due \in BOOLEAN
    /\ page.key \in Accounts \cup {"anonymous", "none"} /\ page.prefs \in Prefs /\ page.before \in Values
    /\ page.status \in {"checking", "local-only", "authenticated", "unavailable"}
    /\ \A w \in wire : w.stage \in {"sent", "401", "500"} /\ w.prefs \in Prefs /\ w.key \in Accounts

BelongTo(prefs, who) ==
    \A f \in {"mode", "words"} : prefs[f] > 0 => owners[prefs[f]] \in {who, "person"}

\* tests/personal-edit-preferences-client.test.mjs: what an account's settings
\* were is never kept as the visitor's, nor as another account's on the device,
\* unless the cookie changed under a page that then saved; nor the visitor's,
\* unless the person signed out while a file was being opened.
ApartOnTheDevice ==
    /\ "stale" \notin unruly /\ local["anonymous"] # Nothing => BelongTo(local["anonymous"], "anonymous")
    /\ "crossed" \notin unruly =>
          \A a \in Accounts : BelongTo(rows[a], a) /\ (local[a] # Nothing => BelongTo(local[a], a))

\* What the demonstration sets is kept nowhere, unless another file was being
\* opened while it was.
DemoIsNotKept ==
    "stale" \notin unruly =>
        /\ \A k \in Keys : local[k].mode # Demo
        /\ \A a \in Accounts : rows[a].mode # Demo
        /\ \A w \in wire : w.prefs.mode # Demo

\* Once nothing is under way, what an account's person edited is what the
\* account keeps, unless a PUT that was given up arrives after its successor.
EditsAreSaved ==
    page.status = "authenticated" /\ page.edited /\ ~page.demo /\ ~due /\ wire = {}
        /\ unruly \cap {"late", "crossed"} = {} =>
        rows[page.key] = page.prefs /\ local[page.key] = page.prefs

\* No setting of an account falls back to the default, unless the person edited
\* another before they were read, or had the demonstration or a file open.
SettingsAreNotForgotten ==
    unruly \cap {"early", "demo", "stale"} = {} => \A a \in Accounts, f \in {"mode", "words"} : rows[a][f] # Default
-------------------------------------------------------------------------------
(* What every step keeps.  What the page did not allow for is remembered in *)
(* unruly, and excuses what it broke.                                       *)

Owners == Accounts \cup {"anonymous", "person"}
Pages ==
    [status : {"checking", "local-only", "authenticated", "unavailable"}, key : Accounts \cup {"anonymous", "none"},
     hydrated : BOOLEAN, edited : BOOLEAN, prefs : Prefs, demo : BOOLEAN, before : Values]
Readings ==
    [stage : {"idle", "recipe", "dictionary", "200", "401", "500"}, account : Accounts \cup {"none"}, prefs : Prefs]
Choices == [kind : {"demo", "own", "draft"}, sawDemo : BOOLEAN, saw : Values]
Wires == [stage : {"sent", "401", "500"}, prefs : Prefs, key : Accounts, live : BOOLEAN]

PpKinds ==
    /\ owners \in Seq(Owners)
    /\ local \in [Keys -> Prefs \cup {Nothing}] /\ rows \in [Accounts -> Prefs]
    /\ session \in Accounts \cup {"none"} /\ hint \in BOOLEAN /\ due \in BOOLEAN
    /\ page \in Pages /\ reading \in Readings /\ wire \subseteq Wires /\ choosing \subseteq Choices

Theirs(v, who) == v > 0 => owners[v] \in {who, "person"}
Filled(prefs) == prefs.mode # Default /\ prefs.words # Default
Careful == unruly \cap {"early", "demo", "stale"} = {}

\* The page shows what is of whom it is of, and a page that does not know yet
\* only what was chosen on it.
ShowsItsOwn(p) ==
    /\ p.status = "authenticated" => p.key \in Accounts
    /\ p.key # "none" => p.hydrated
    /\ p.key = "none" => BelongTo(p.prefs, "person") /\ Theirs(p.before, "person")
    /\ p.key \in Accounts /\ "crossed" \notin unruly => BelongTo(p.prefs, p.key) /\ Theirs(p.before, p.key)
    /\ p.key = "anonymous" /\ "stale" \notin unruly =>
          BelongTo(p.prefs, "anonymous") /\ (p.demo => Theirs(p.before, "anonymous"))

\* The demonstration's recipe is shown while it is open, over what was before.
SetsAside(p) ==
    /\ "stale" \notin unruly => p.before # Demo /\ (p.prefs.mode = Demo => p.demo)
    /\ p.edited /\ ~p.hydrated => "early" \in unruly
    /\ p.key \in Accounts /\ Careful => Filled(p.prefs) /\ (p.demo => p.before # Default)

PageSound(p) == ShowsItsOwn(p) /\ SetsAside(p)

ReadSound(r) ==
    /\ r.stage # "idle" => page.key = "none" /\ ~page.hydrated
    /\ r.stage \in {"dictionary", "200"} =>
          /\ r.account \in Accounts
          /\ "crossed" \notin unruly => BelongTo(r.prefs, r.account)
          /\ "stale" \notin unruly => r.prefs.mode # Demo
          /\ Careful => r.prefs.mode # Default /\ (r.stage = "200" => r.prefs.words # Default)

ChoiceSound(c) ==
    /\ page.key = "none" => Theirs(c.saw, "person")
    /\ page.key \in Accounts /\ "crossed" \notin unruly => Theirs(c.saw, page.key)

WireSound(w) ==
    /\ "crossed" \notin unruly => BelongTo(w.prefs, w.key)
    /\ "stale" \notin unruly => w.prefs.mode # Demo
    /\ Careful => Filled(w.prefs)
    /\ w.live => page.status = "authenticated" /\ ~page.demo /\ w.key = page.key /\ w.prefs = page.prefs

RowsSound ==
    \A a \in Accounts :
        /\ "crossed" \notin unruly => BelongTo(rows[a], a)
        /\ "stale" \notin unruly => rows[a].mode # Demo
        /\ Careful => Filled(rows[a])

LocalSound ==
    /\ \A a \in Accounts : "crossed" \notin unruly /\ local[a] # Nothing => BelongTo(local[a], a)
    /\ "stale" \notin unruly /\ local["anonymous"] # Nothing => BelongTo(local["anonymous"], "anonymous")
    /\ local["legacy"] # Nothing => BelongTo(local["legacy"], "anonymous")
    /\ "stale" \notin unruly => \A k \in Keys : local[k].mode # Demo
    /\ Saves(page) /\ page.key # "none" => local[page.key] = page.prefs

\* An edit waits for its timer, is on its way, or has arrived.
EditsOnTheWay ==
    /\ due => Saves(page) /\ page.status = "authenticated" /\ page.edited
    /\ page.status = "authenticated" /\ page.edited /\ ~page.demo /\ unruly \cap {"late", "crossed"} = {} =>
          due \/ (\E w \in wire : w.live) \/ rows[page.key] = page.prefs

SettingsIInv ==
    /\ PpKinds
    /\ PageSound(page) /\ ReadSound(reading)
    /\ \A c \in choosing : ChoiceSound(c)
    /\ \A w \in wire : WireSound(w)
    /\ RowsSound /\ LocalSound /\ EditsOnTheWay
===============================================================================
