---------------------------- MODULE PageReservations ---------------------------
(* The three pages of a customer that hold usage reservations.  They share  *)
(* no state in the code as modelled, so a behaviour is one of a single      *)
(* page, and x1, x2, ... are the variables of that page, in the order its   *)
(* module declares them: what is said of one of them reads none of another. *)
EXTENDS Integers, Sequences, FiniteSets

CONSTANTS
    \* The bounds of the instances of a page that is run more than once
    EditingBounds, MixBounds,
    \* EditingPage
    RunSlots,
    \* PhotoReelPage
    MinPhotos, MaxPhotos, MaxKeys, MaxFiles, MaxExports, MaxTunes, MaxLost

ASSUME ReservationsAssumption == {MaxPhotos, MaxKeys, MaxFiles} \subseteq Nat

VARIABLES
    component,
    bounds,  \* one of its bounds, or 0
    x1, x2, x3, x4, x5, x6, x7, x8, x9, x10, x11, x12, x13, x14, x15, x16,
    x17, x18, x19, x20, x21, x22

-------------------------------------------------------------------------------
\* By how much is asked for and fails.
Editing(b) == INSTANCE EditingPage WITH
    MaxGen <- b.gens, MaxReserved <- b.reserved, MaxLost <- b.lost,
    MaxChoices <- b.choices,
    server <- x1, page <- x2, run <- x3, change <- x4, access <- x5,
    export <- x6, releasing <- x7, lost <- x8, forgotten <- x9, late <- x10,
    delivered <- x11, silent <- x12

Mix(b) == INSTANCE MixReservation WITH
    MaxKeys <- b.keys, MaxFaults <- b.faults, MaxLapses <- b.lapses,
    lease <- x1, mix <- x2, line <- x3, work <- x4, beacons <- x5, stored <- x6,
    faults <- x7, lapses <- x8, strays <- x9, handed <- x10

ReelPage == INSTANCE PhotoReelPage WITH
    server <- x1, paid <- x2,
    length <- x3, photos <- x4, preparing <- x5, duration <- x6, key <- x7,
    keys <- x8, export <- x9, result <- x10, pending <- x11, settling <- x12,
    purchase <- x13, tune <- x14, sounds <- x15, mounted <- x16, urls <- x17,
    live <- x18, videos <- x19, lost <- x20, forgotten <- x21, given <- x22

-------------------------------------------------------------------------------
(* A component of n variables leaves the others alone.                      *)

Idle19 == x20 = 0 /\ x21 = 0 /\ x22 = 0
Idle15 == x16 = 0 /\ x17 = 0 /\ x18 = 0 /\ x19 = 0 /\ Idle19
Idle14 == x15 = 0 /\ Idle15
Idle12 == x13 = 0 /\ x14 = 0 /\ Idle14
Idle11 == x12 = 0 /\ Idle12
Idle10 == x11 = 0 /\ Idle11
Idle9 == x10 = 0 /\ Idle10
Idle7 == x8 = 0 /\ x9 = 0 /\ Idle9
Idle6 == x7 = 0 /\ Idle7
Idle5 == x6 = 0 /\ Idle6
Idle4 == x5 = 0 /\ Idle5
Idle3 == x4 = 0 /\ Idle4

rest19 == <<component, bounds, x20, x21, x22>>
rest15 == <<x16, x17, x18, x19, rest19>>
rest14 == <<x15, rest15>>
rest12 == <<x13, x14, rest14>>
rest11 == <<x12, rest12>>
rest10 == <<x11, rest11>>
rest9 == <<x10, rest10>>
rest7 == <<x8, x9, rest9>>
rest6 == <<x7, rest7>>
rest5 == <<x6, rest6>>
rest4 == <<x5, rest5>>
rest3 == <<x4, rest4>>

workspacevars == <<component, bounds, x1, x2, x3, x4, x5, x6, x7, x8, x9, x10, x11, x12, x13, x14, x15,
           x16, x17, x18, x19, x20, x21, x22>>

ReservingInit ==
    \/ component = "Editing" /\ (\E b \in EditingBounds : bounds = b /\ Editing(b)!Init) /\ Idle12
    \/ component = "Mix" /\ (\E b \in MixBounds : bounds = b /\ Mix(b)!Init) /\ Idle10
    \/ component = "ReelPage" /\ bounds = 0 /\ ReelPage!RpInit

ReservingNext ==
    \/ component = "Editing" /\ (\E b \in EditingBounds : bounds = b /\ Editing(b)!Next) /\ UNCHANGED rest12
    \/ component = "Mix" /\ (\E b \in MixBounds : bounds = b /\ Mix(b)!Next) /\ UNCHANGED rest10
    \/ component = "ReelPage" /\ ReelPage!RpNext /\ UNCHANGED <<component, bounds>>

ReservingSpec == ReservingInit /\ [][ReservingNext]_workspacevars

-------------------------------------------------------------------------------
\* EditingPage, MixReservation, PhotoReelPage: no reservation is forgotten or
\* released while it is confirmed, and what is handed over has been paid, once,
\* and is kept.  The types of the pages are part of it.
ReservationsAreAccountedFor ==
    /\ component = "Editing" => \A b \in EditingBounds : bounds = b =>
          /\ Editing(b)!TypeOK /\ Editing(b)!NothingElseForgotten /\ Editing(b)!ProcessingHasItsRun
          /\ Editing(b)!ResultIsOfItsVideo /\ Editing(b)!NotReleasedWhileConfirmed
    /\ component = "Mix" => \A b \in MixBounds : bounds = b =>
          Mix(b)!TypeOK /\ Mix(b)!NoneStranded /\ Mix(b)!AtMostOneHeld /\ Mix(b)!HandedOverIsPaid /\ Mix(b)!PaidIsKept
    /\ component = "ReelPage" =>
          ReelPage!RpTypeOK /\ ReelPage!ReelIsPaid /\ ReelPage!HeldIsKnown /\ ReelPage!KeysAreNotReused /\ ReelPage!NothingIsLeft
===============================================================================
