----------------------------- MODULE PhotoReelPage -----------------------------
(***************************************************************************)
(* PhotoReelClient of app/photo-reel/photo-reel-client.tsx with the photos *)
(* lib/photo-reel-assets.ts prepares for it: photos are decoded one after  *)
(* the other, a reel is exported against a usage reservation, and its file *)
(* is shown once the reservation is completed, or kept aside until it is.  *)
(* The page may be left at any step.                                       *)
(*                                                                         *)
(* A reservation is known by the key the page made for it, which it keeps  *)
(* for its next try as long as it is not sure how the last one ended.      *)
(***************************************************************************)
EXTENDS Integers, FiniteSets

CONSTANTS
    MinPhotos, MaxPhotos,
    MaxKeys,       \* bound of the model: crypto.randomUUID
    MaxFiles,      \* bound of the model: photos chosen
    MaxExports,    \* bound of the model
    MaxTunes,      \* bound of the model: files of music tried
    MaxLost        \* bound of the model: answers lost, reservations lapsed

Keys == 1..MaxKeys
Videos == 1..MaxExports

VARIABLES
    server,        \* key -> "none", "held", "done", "freed"
    paid,          \* keys whose bucket can save
    length,        \* key -> the duration it was reserved for
    photos,        \* photosRef
    preparing,     \* "no" or the photo being decoded; photos already decoded with it
    duration,
    key,           \* reservationAttemptRef, 0 for none
    keys,          \* keys made
    export,        \* startExport: [pc, key, video]
    result,        \* a video, 0 for none
    pending,       \* pendingFinalize: [video, key]
    settling,      \* finalizingUsageRef: "no", "retry", "discard"
    purchase,      \* showPurchase, and the check after a purchase: "no", "shown", "checking"
    tune,          \* [file, beats, trying, next]: audioFile, of which file the beats are, the one being inspected
    sounds,        \* object URLs of music that were not revoked
    mounted,
    urls,          \* object URLs of videos that were not revoked
    live,          \* photos whose preview URL and canvases are held
    videos, lost,
    forgotten,     \* ghost: reservations nothing refers to any more
    given          \* ghost: keys whose video was shown, kept aside or discarded

prpvars == <<server, paid, length, photos, preparing, duration, key, keys, export, result, pending, settling, purchase,
             tune, sounds, mounted, urls, live, videos, lost, forgotten, given>>

NoPending == [video |-> 0, key |-> 0]
Off == [pc |-> "idle", key |-> 0, video |-> 0]
Sides == <<server, paid, length, lost, tune, sounds>>
Photos == <<photos, preparing, live>>
Ghosts == <<forgotten, given>>

RpInit ==
    /\ server = [k \in Keys |-> "none"] /\ paid = {} /\ length = [k \in Keys |-> 0]
    /\ photos = {} /\ preparing = [pc |-> "no", ready |-> {}] /\ duration = 15
    /\ key = 0 /\ keys = 0 /\ export = Off /\ result = 0 /\ pending = NoPending /\ settling = "no" /\ purchase = "no"
    /\ tune = [file |-> 0, beats |-> 0, trying |-> 0, next |-> 1] /\ sounds = {}
    /\ mounted = TRUE /\ urls = {} /\ live = {} /\ videos = 0 /\ lost = 0
    /\ forgotten = {} /\ given = {}

\* isEditingLocked
Locked == preparing.pc # "no" \/ export.pc # "idle" \/ settling # "no" \/ pending # NoPending \/ tune.trying # 0
Lose == lost < MaxLost /\ lost' = lost + 1
Clear == result' = 0 /\ urls' = urls \ {result} /\ purchase' = IF purchase = "checking" THEN purchase ELSE "no"

-------------------------------------------------------------------------------
(* Photos                                                                    *)

Chosen == photos \union preparing.ready

\* addPhotos: what is over the limit is left out before anything is decoded.
AddPhotos ==
    /\ mounted /\ ~Locked /\ Cardinality(photos) < MaxPhotos /\ Cardinality(live) < MaxFiles
    /\ preparing' = [pc |-> "decoding", ready |-> {}]
    /\ Clear
    /\ UNCHANGED <<Sides, photos, live, duration, key, keys, export, pending, settling, mounted, videos, Ghosts>>

\* Mutant: a photo whose thumbnail failed keeps its canvas.
FailsHolding(photo) == live' = live \union {photo}
\* prepareSinglePhoto: bitmap, canvas, focus point, blurred background,
\* thumbnail; on the way out of a failure all of it is let go of.
Fails(photo) == UNCHANGED live

\* preparePhotoAssets for one file; a page that was left disposes of it.
PrepareOne ==
    /\ preparing.pc = "decoding" /\ Cardinality(Chosen) < MaxPhotos
    /\ \E photo \in (1..MaxFiles) \ live :
         \/ Fails(photo) /\ UNCHANGED preparing
         \/ IF mounted
              THEN live' = live \union {photo} /\ preparing' = [preparing EXCEPT !.ready = @ \union {photo}]
              ELSE UNCHANGED <<live, preparing>>
    /\ UNCHANGED <<Sides, photos, duration, key, keys, export, result, pending, settling, purchase, mounted, urls, videos, Ghosts>>

PhotosReady ==
    /\ preparing.pc = "decoding"
    /\ preparing' = [pc |-> "no", ready |-> {}]
    /\ IF mounted THEN photos' = Chosen /\ UNCHANGED live
       ELSE live' = live \ preparing.ready /\ UNCHANGED photos
    /\ UNCHANGED <<Sides, duration, key, keys, export, result, pending, settling, purchase, mounted, urls, videos, Ghosts>>

RemovePhoto ==
    /\ mounted /\ ~Locked
    /\ \E photo \in photos : photos' = photos \ {photo} /\ live' = live \ {photo}
    /\ Clear
    /\ UNCHANGED <<Sides, preparing, duration, key, keys, export, pending, settling, mounted, videos, Ghosts>>

\* updateDuration; updateTemplate, movePhoto and a new music clear the result too.
UpdateDuration ==
    /\ mounted /\ ~Locked
    /\ duration' = 45 - duration
    /\ Clear
    /\ UNCHANGED <<Sides, Photos, key, keys, export, pending, settling, mounted, videos, Ghosts>>

-------------------------------------------------------------------------------
(* Music, and the way back from a purchase                                   *)

Others == UNCHANGED <<server, paid, length, lost, Photos, duration, key, keys, export, pending, settling, mounted, videos, Ghosts>>

\* handleAudio: while a file is inspected the reel follows no beats.
ChooseAudio ==
    /\ mounted /\ ~Locked /\ tune.next <= MaxTunes
    /\ tune' = [tune EXCEPT !.beats = 0, !.trying = tune.next, !.next = @ + 1]
    /\ sounds' = sounds \union {tune.next}
    /\ UNCHANGED <<result, urls, purchase>> /\ Others

\* Mutant: the file that was refused keeps its URL.
RefusedUrls == sounds
RevokeNextPreview == sounds \ {tune.trying}

\* readAudioDuration, analyzePhotoReelAudioFileBeats: the file is taken with
\* its beats, or it is refused, or the page was left meanwhile.
AudioInspected ==
    /\ tune.trying # 0
    /\ \/ /\ mounted
          /\ tune' = [tune EXCEPT !.file = tune.trying, !.beats = tune.trying, !.trying = 0]
          /\ sounds' = sounds \ {tune.file} /\ Clear
       \/ /\ tune' = [tune EXCEPT !.trying = 0] /\ sounds' = RevokeNextPreview
          /\ UNCHANGED <<result, urls, purchase>>
    /\ Others

\* checkPurchaseAfterReturn, once at a time.
CheckPurchase ==
    /\ purchase = "shown" /\ mounted /\ purchase' = "checking"
    /\ UNCHANGED <<tune, sounds, result, urls>> /\ Others

PurchaseChecked ==
    /\ purchase = "checking" /\ purchase' \in {"no", "shown"}
    /\ UNCHANGED <<tune, sounds, result, urls>> /\ Others

-------------------------------------------------------------------------------
(* startExport                                                               *)

StartReel ==
    /\ mounted /\ ~Locked /\ Cardinality(photos) >= MinPhotos /\ videos < MaxExports
    /\ export' = [Off EXCEPT !.pc = "supported"]
    /\ Clear
    /\ UNCHANGED <<Sides, Photos, duration, key, keys, pending, settling, mounted, videos, Ghosts>>

Stays(next) == export' = [export EXCEPT !.pc = next]
Done == export' = Off

\* assertPhotoReelExportSupported, and the key: the one kept, or a new one.
AskForKey ==
    /\ export.pc = "supported"
    /\ \/ Done /\ UNCHANGED <<key, keys>>
       \/ /\ key = 0 => keys < MaxKeys
          /\ key' = IF key = 0 THEN keys + 1 ELSE key
          /\ keys' = IF key = 0 THEN keys + 1 ELSE keys
          /\ Stays("reserving")
    /\ UNCHANGED <<Sides, Photos, duration, result, pending, settling, purchase, mounted, urls, videos, Ghosts>>

Unchanged == UNCHANGED <<tune, sounds, Photos, duration, keys, result, pending, settling, mounted, urls, videos, given>>

\* reservePhotoUsage: a key the server knows answers with what became of it,
\* and the page looks at its bucket only.
Reserve ==
    /\ export.pc = "reserving"
    /\ LET same == length[key] \in {0, duration}
           Answered == export' = [export EXCEPT !.pc = IF key \in paid' THEN "exporting" ELSE "cannot save", !.key = key]
       IN  \/ /\ server[key] = "none"                                 \* reserved
              /\ server' = [server EXCEPT ![key] = "held"] /\ length' = [length EXCEPT ![key] = duration]
              /\ paid' \in {paid, paid \union {key}}
              /\ Answered /\ UNCHANGED <<key, lost, forgotten, purchase>>
           \/ /\ server[key] # "none" /\ same                         \* "existing"
              /\ UNCHANGED <<server, length, paid, key, lost, forgotten, purchase>> /\ Answered
           \/ /\ \/ server[key] = "none" /\ purchase' = "shown"          \* 402
                 \/ ~same /\ UNCHANGED purchase                       \* 409: of another duration
              /\ key' = 0 /\ Done
              /\ forgotten' = IF server[key] = "held" THEN forgotten \union {key} ELSE forgotten
              /\ UNCHANGED <<server, length, paid, lost>>
           \/ /\ Lose /\ Done                                         \* 5xx, or no answer
              /\ \/ UNCHANGED <<server, length, paid>>
                 \/ /\ server[key] = "none" /\ server' = [server EXCEPT ![key] = "held"]
                    /\ length' = [length EXCEPT ![key] = duration] /\ paid' = paid \union {key}
              /\ UNCHANGED <<key, forgotten, purchase>>
    /\ Unchanged

\* Mutant: a key whose reservation was released is used again.
KeepKey == UNCHANGED key
DropKey == key' = 0

\* updatePhotoUsage("release"), asked twice: confirmed, or not; what could
\* not be confirmed may have been released.
Released(k, confirmed, not) ==
    \/ server[k] # "done" /\ server' = [server EXCEPT ![k] = "freed"] /\ confirmed /\ UNCHANGED lost
    \/ server[k] = "done" /\ UNCHANGED <<server, lost>> /\ not
    \/ Lose /\ server' \in {server, [server EXCEPT ![k] = IF @ = "held" THEN "freed" ELSE @]} /\ not

\* canSaveCompletedVideo: a trial ends before the reel is made.
EndTrial ==
    /\ export.pc = "cannot save"
    /\ Released(export.key, DropKey, UNCHANGED key)
    /\ Done /\ purchase' = "shown"
    /\ UNCHANGED <<paid, length, forgotten>> /\ Unchanged

\* exportPhotoReel, which the page left behind aborts, and prepareResultVideo.
MakeReel ==
    /\ export.pc = "exporting"
    /\ \/ /\ mounted /\ videos' = videos + 1 /\ urls' = urls \union {videos + 1}
          /\ export' = [export EXCEPT !.pc = "completing", !.video = videos + 1]
       \/ Stays("failed") /\ UNCHANGED <<videos, urls>>
    /\ UNCHANGED <<Sides, Photos, duration, key, keys, result, pending, settling, purchase, mounted, Ghosts>>

\* The catch: the reservation is released, and its key dropped once that is
\* confirmed.
ReleaseFailed ==
    /\ export.pc = "failed"
    /\ Released(export.key, DropKey, UNCHANGED key)
    /\ Done
    /\ UNCHANGED <<paid, length, forgotten, purchase>> /\ Unchanged

\* updatePhotoUsage("complete"), asked twice; only what is held, or was
\* completed already, can be confirmed.
Completed(k, confirmed, not) ==
    \/ server[k] \in {"held", "done"} /\ server' = [server EXCEPT ![k] = "done"] /\ confirmed /\ UNCHANGED lost
    \/ server[k] = "freed" /\ not /\ UNCHANGED <<server, lost>>
    \/ Lose /\ server' \in {server, [server EXCEPT ![k] = IF @ = "held" THEN "done" ELSE @]} /\ not

\* finalizeResult; a component that is gone keeps no state.
Finalized(video, k) ==
    /\ given' = given \union {k} /\ key' = 0
    /\ IF mounted THEN result' = video /\ urls' = urls \ {result} ELSE UNCHANGED <<result, urls>>

\* Mutant: the reel is shown although its reservation is not completed.
ShownAnyhow == Finalized(export.video, export.key) /\ UNCHANGED pending
KeptAside ==
    /\ pending' = [video |-> export.video, key |-> export.key]
    /\ given' = given \union {export.key}
    /\ UNCHANGED <<key, result, urls>>

CompleteReel ==
    /\ export.pc = "completing"
    /\ Completed(export.key, Finalized(export.video, export.key) /\ UNCHANGED pending, KeptAside)
    /\ Done
    /\ UNCHANGED <<tune, sounds, paid, length, Photos, duration, keys, settling, purchase, mounted, videos, forgotten>>

-------------------------------------------------------------------------------
(* A reel kept aside                                                         *)

AskAgain(kind) ==
    /\ mounted /\ pending # NoPending /\ export.pc = "idle" /\ settling = "no"
    /\ settling' = kind
    /\ UNCHANGED <<Sides, Photos, duration, key, keys, export, result, pending, purchase, mounted, urls, videos, Ghosts>>

AskToFinalize == AskAgain("retry")
AskToDiscard == AskAgain("discard")

RetryFinalize ==
    /\ settling = "retry"
    /\ Completed(pending.key, Finalized(pending.video, pending.key) /\ pending' = NoPending,
                 UNCHANGED <<given, key, result, urls, pending>>)
    /\ settling' = "no"
    /\ UNCHANGED <<tune, sounds, paid, length, Photos, duration, keys, export, purchase, mounted, videos, forgotten>>

\* The reel is gone whether or not its reservation was released.
DiscardPendingFinalize ==
    /\ settling = "discard"
    /\ Released(pending.key, UNCHANGED forgotten,
                forgotten' = IF server'[pending.key] = "held" THEN forgotten \union {pending.key} ELSE forgotten)
    /\ DropKey
    /\ urls' = urls \ {pending.video} /\ pending' = NoPending /\ settling' = "no"
    /\ UNCHANGED <<tune, sounds, paid, length, Photos, duration, keys, export, result, purchase, mounted, videos, given>>

-------------------------------------------------------------------------------
\* A reservation lapses unless it is renewed.
Lapse ==
    /\ Lose /\ \E k \in Keys : server[k] = "held" /\ server' = [server EXCEPT ![k] = "freed"]
    /\ UNCHANGED <<tune, sounds, paid, length, Photos, duration, key, keys, export, result, pending, settling, purchase, mounted, urls, videos, Ghosts>>

\* The component is unmounted; what it awaits goes on without it.
Unmount ==
    /\ mounted /\ mounted' = FALSE
    /\ live' = live \ photos
    /\ urls' = urls \ {result, pending.video} /\ sounds' = sounds \ {tune.file}
    /\ forgotten' = forgotten \union {k \in Keys : server[k] = "held" /\ k # export.key}
    /\ UNCHANGED <<server, paid, length, lost, tune, photos, preparing, duration, key, keys, export, result, pending, settling, purchase, videos, given>>

RpNext ==
    AddPhotos \/ PrepareOne \/ PhotosReady \/ RemovePhoto \/ UpdateDuration \/ ChooseAudio \/ AudioInspected
    \/ CheckPurchase \/ PurchaseChecked \/ StartReel \/ AskForKey \/ Reserve \/ EndTrial
    \/ MakeReel \/ ReleaseFailed \/ CompleteReel \/ AskToFinalize \/ AskToDiscard \/ RetryFinalize
    \/ DiscardPendingFinalize \/ Lapse \/ Unmount

RpSpec == RpInit /\ [][RpNext]_prpvars

-------------------------------------------------------------------------------
RpTypeOK ==
    /\ server \in [Keys -> {"none", "held", "done", "freed"}] /\ paid \subseteq Keys /\ keys \in 0..MaxKeys /\ key \in 0..keys
    /\ result \in 0..videos /\ pending.video \in 0..videos /\ Cardinality(photos) <= MaxPhotos
    /\ settling # "no" => pending # NoPending

\* A reel is shown only once the reservation it was made against is completed,
\* and none that is completed goes without its reel: the reel was shown, or is
\* kept aside until the answer arrives.
ReelIsPaid ==
    /\ \A k \in Keys : server[k] = "done" => k \in given \union {export.key}
    /\ result # 0 => \E k \in given : server[k] = "done" /\ k # pending.key

\* A reservation that is held is one the page still refers to: by the key it
\* keeps, the export under way or the reel kept aside.  The page loses sight
\* only of one refused for another duration, one discarded without an answer,
\* what it held when it was left, and then of what an answer was lost about.
HeldIsKnown ==
    \A k \in Keys : (server[k] = "held" /\ k \notin forgotten) =>
        /\ k \in {key, export.key, pending.key}
        /\ (~mounted /\ export.pc = "idle" /\ settling = "no") => lost > 0

\* A reel is made only for a reservation that is held.  No key that paid for
\* one is used for another, whatever answers were lost; one whose reservation
\* was released or lapsed may be, where the page was not answered or not told.
KeysAreNotReused ==
    key # 0 /\ export.pc \in {"exporting", "completing"} =>
        server[key] = "held" \/ (server[key] = "freed" /\ lost > 0)

\* No reel, photo or music is held that nothing shows or works on, and the
\* beats a reel follows are those of its own music.
NothingIsLeft ==
    /\ mounted => urls \subseteq {result, pending.video, export.video} \ {0}
    /\ (~mounted /\ export.pc = "idle" /\ preparing.pc = "no") => live = {}
    /\ mounted => live = Chosen
    /\ sounds = ({tune.trying} \union IF mounted THEN {tune.file} ELSE {}) \ {0}
    /\ tune.beats \in {0, tune.file}

-------------------------------------------------------------------------------
(* What every step keeps.                                                   *)

Asking == {"supported", "reserving"}
Reserving == {"cannot save", "exporting", "failed", "completing"}

KeyKinds ==
    /\ server \in [Keys -> {"none", "held", "done", "freed"}] /\ length \in [Keys -> Nat] /\ duration \in {15, 30}
    /\ keys \in Nat /\ keys <= MaxKeys /\ key \in Keys \cup {0} /\ key <= keys /\ lost \in Nat /\ mounted \in BOOLEAN
    /\ paid \subseteq Keys /\ given \subseteq Keys /\ forgotten \subseteq Keys

VideoKinds ==
    /\ export \in [pc : {"idle"} \cup Asking \cup Reserving, key : Keys \cup {0}, video : Nat]
    /\ pending \in [video : Nat, key : Keys \cup {0}] /\ settling \in {"no", "retry", "discard"}
    /\ videos \in Nat /\ result \in Nat /\ result <= videos /\ export.video <= videos /\ pending.video <= videos
    /\ urls \subseteq 1..videos

FileKinds ==
    /\ photos \subseteq 1..MaxFiles /\ preparing \in [pc : {"no", "decoding"}, ready : SUBSET (1..MaxFiles)]
    /\ tune \in [file : Nat, beats : Nat, trying : Nat, next : Nat]

PhotosAreLive ==
    /\ preparing.pc = "no" => preparing.ready = {}
    /\ IF mounted THEN live = Chosen ELSE live \subseteq preparing.ready
    /\ Cardinality(Chosen) <= MaxPhotos

\* No file of music has the number of another.
MusicIsItsOwn ==
    /\ tune.file < tune.next /\ tune.trying < tune.next /\ (tune.trying = tune.file => tune.file = 0)
    /\ sounds = ({tune.trying} \union IF mounted THEN {tune.file} ELSE {}) \ {0}
    /\ tune.beats \in {0, tune.file}

\* A reel is exported, kept aside or shown, and its key is the one kept.
OneReel ==
    /\ export.pc = "idle" => export = Off
    /\ export.pc # "idle" => pending = NoPending /\ settling = "no"
    /\ export.pc # "idle" \/ pending # NoPending => result = 0
    /\ export.pc # "completing" => export.video = 0
    /\ export.pc = "reserving" => key # 0
    /\ export.pc \in Asking => export.key = 0
    /\ export.pc \in Reserving => export.key = key /\ key # 0 /\ server[key] # "none"
    /\ settling # "no" => pending # NoPending
    /\ pending # NoPending => pending.key = key /\ key \in given
    /\ mounted => urls \subseteq {result, pending.video, export.video}

\* The page keeps the key of what is held, and knows of a key it keeps that it
\* is new or held, unless an answer was lost; a reel that is paid and whose key
\* it still keeps is kept aside.
KeysAreKnown ==
    /\ \A k \in Keys :
          /\ k > keys => server[k] = "none"
          /\ server[k] = "done" => k \in given
          /\ server[k] = "held" /\ k \notin forgotten => k = key /\ (~mounted /\ export.pc \notin Reserving => lost > 0)
    /\ key # 0 => server[key] \in {"none", "held"} \/ lost > 0
    /\ key # 0 /\ server[key] = "done" => pending # NoPending
    /\ result # 0 => \E k \in given : server[k] = "done"

ReelIInv == KeyKinds /\ VideoKinds /\ FileKinds /\ PhotosAreLive /\ MusicIsItsOwn /\ OneReel /\ KeysAreKnown
==============================================================================
