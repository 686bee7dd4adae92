------------------------------ MODULE PageExport ------------------------------
(***************************************************************************)
(* exportCaptionedVideo of app/page.tsx once its reservation is renewed:   *)
(* the wait for the measured audio, the portable export, and where the     *)
(* browser can record, the recording of the preview in real time instead.  *)
(* The recorder is paused while the video seeks from one kept range to the *)
(* next; the preview's own audio graph is borrowed meanwhile.              *)
(*                                                                         *)
(* The reservation's life is EditingPage's; the portable export is         *)
(* PortableExport, here only how it ends.                                  *)
(***************************************************************************)
EXTENDS Naturals, FiniteSets

CONSTANTS
    NumRanges,      \* bound of the model: playableRanges
    WorkSet         \* bound of the model: [narrated, legacy, prepared]

VARIABLES
    work,           \* what is exported, and whether the browser can record
    at,             \* where the export is
    kept,           \* rangeIndex
    tape,           \* recorder.state
    tapeFailed,     \* the recorder's error event was fired
    taped,          \* ranges that were recorded while they played
    previewGain,    \* the preview's gain: "own", "silenced"
    context,        \* the AudioContext of the export itself: "none", "open", "closed"
    voice,          \* activeExportNarrationSource sounds
    moving,         \* the export plays the video
    watchers,       \* waitForRangeEnd that have not settled
    refused,        \* video.play() was rejected
    cancelled,      \* exportSignal
    settled,        \* complete reached the server
    made            \* "none", "portable", "recorded": the file handed over

pgvars == <<work, at, kept, tape, tapeFailed, taped, previewGain, context, voice, moving, watchers, refused, cancelled,
            settled, made>>

-------------------------------------------------------------------------------
PgInit ==
    /\ work \in WorkSet
    /\ at = "measuring" /\ kept = 1 /\ tape = "none" /\ tapeFailed = FALSE /\ taped = {}
    /\ previewGain = "own" /\ context = IF work.prepared THEN "open" ELSE "none"
    /\ voice = FALSE /\ moving = FALSE /\ watchers = {} /\ refused = FALSE
    /\ cancelled = FALSE /\ settled = FALSE /\ made = "none"

Recorder == <<kept, tape, tapeFailed, taped, moving, watchers, refused, voice>>
Quit == at' = "cleanup"
\* throwIfExportAborted before what comes next.
Then(next) == at' = IF cancelled THEN "cleanup" ELSE next

\* awaitOriginalAudioMeasurement: the measured audio, none after 8 seconds,
\* or the abort, whichever is first.
AwaitMeasurement ==
    /\ at = "measuring"
    /\ IF cancelled
         THEN at' = "over" /\ context' = IF context = "open" THEN "closed" ELSE context
         ELSE at' = "narration" /\ UNCHANGED context
    /\ UNCHANGED <<work, previewGain, cancelled, settled, made, Recorder>>

\* The catch around the portable export.
PortableFails == at' = IF cancelled \/ ~work.legacy THEN "cleanup" ELSE "first seek"

LoadNarration ==
    /\ at = "narration"
    /\ \/ Then("portable") /\ context' = (IF work.narrated /\ context = "none" THEN "open" ELSE context)
       \/ work.narrated /\ PortableFails /\ context' \in {context, "open"}
    /\ UNCHANGED <<work, previewGain, cancelled, settled, made, Recorder>>

ExportPortable ==
    /\ at = "portable"
    /\ \/ Then("checking portable")
       \/ PortableFails
    /\ UNCHANGED <<work, context, previewGain, cancelled, settled, made, Recorder>>

\* inspectCompletedVideoQuality
CheckPortable ==
    /\ at = "checking portable"
    /\ \/ Then("settling portable")
       \/ PortableFails
    /\ UNCHANGED <<work, context, previewGain, cancelled, settled, made, Recorder>>

\* completePendingExportReservation, and the file: nothing is awaited between
\* the answer and the file.
Settle(kind, failed) ==
    \/ settled' = TRUE /\ made' = kind /\ Quit
    \/ settled' \in {settled, TRUE} /\ failed /\ UNCHANGED made

SettlePortable ==
    /\ at = "settling portable" /\ Settle("portable", PortableFails)
    /\ UNCHANGED <<work, context, previewGain, cancelled, Recorder>>

-------------------------------------------------------------------------------
(* Recording                                                                 *)

\* seekExportMedia to the first range.
FirstSeek ==
    /\ at = "first seek"
    /\ IF cancelled THEN Quit ELSE at' \in {"engine", "cleanup"}
    /\ UNCHANGED <<work, context, previewGain, cancelled, settled, made, Recorder>>

\* ensurePreviewNarrationEngine, ensureVideoAudioEngine: the preview's graph
\* takes the place of the export's own context, and its gain is set to 0.
BorrowEngine ==
    /\ at = "engine"
    /\ \/ ~cancelled /\ at' = "wiring" /\ previewGain' = "silenced" /\ context' = IF context = "open" THEN "closed" ELSE context
       \/ Quit /\ UNCHANGED <<previewGain, context>>
    /\ UNCHANGED <<work, cancelled, settled, made, Recorder>>

\* The limiter, the narration's buffer, recorder.start, the first frame.
StartRecorder ==
    /\ at = "wiring"
    /\ \/ at' = (IF cancelled THEN "cleanup" ELSE "range") /\ tape' = "recording"
       \/ Quit /\ tape' \in {"none", "recording"}
    /\ UNCHANGED <<work, context, previewGain, cancelled, settled, made, kept, tapeFailed, taped, moving, watchers, refused, voice>>

\* The recorder may fail by itself; nobody looks before it is stopped.
RecorderFails ==
    /\ tape \in {"recording", "paused"} /\ ~tapeFailed /\ at # "over"
    /\ tape' = "inactive" /\ tapeFailed' = TRUE
    /\ UNCHANGED <<work, at, kept, taped, previewGain, context, voice, moving, watchers, refused, cancelled, settled, made>>

Playback == UNCHANGED <<work, context, previewGain, cancelled, settled, made, kept, tapeFailed, taped, watchers, refused, voice, moving>>

\* Mutant: the recorder runs on while the video seeks.
PauseNever == tape' = tape
\* pauseRecorderForSeek, waiting for the event
PauseForSeek == tape' = IF tape = "recording" THEN "paused" ELSE tape

NextRange ==
    /\ at = "range" /\ kept <= NumRanges
    /\ IF cancelled THEN Quit /\ UNCHANGED tape
       ELSE \/ at' = "seeking" /\ IF kept > 1 THEN PauseForSeek ELSE UNCHANGED tape
            \/ kept > 1 /\ Quit /\ PauseForSeek   \* the event did not come within 8 seconds
    /\ Playback

SeekRange ==
    /\ at = "seeking"
    /\ IF cancelled THEN Quit ELSE at' \in {"resuming", "cleanup"}
    /\ UNCHANGED tape /\ Playback

ResumeAfterSeek ==
    /\ at = "resuming"
    /\ IF kept > 1 /\ tape = "paused"
         THEN tape' = "recording" /\ (IF cancelled THEN Quit ELSE at' \in {"playing", "cleanup"})
         ELSE at' = "playing" /\ UNCHANGED tape
    /\ Playback

\* waitForRangeEnd is set off before video.play(), whose refusal ends the wait
\* for both but not the watcher.
PlayRange ==
    /\ at = "playing" /\ ~moving
    /\ IF cancelled
         THEN Quit /\ UNCHANGED <<moving, voice, watchers, refused>>
         ELSE /\ watchers' = watchers \union {kept} /\ voice' = work.narrated
              /\ \/ moving' = TRUE /\ UNCHANGED <<at, refused>>
                 \/ refused' = TRUE /\ Quit /\ UNCHANGED moving
    /\ UNCHANGED <<work, kept, tape, tapeFailed, taped, previewGain, context, cancelled, settled, made>>

\* The watcher sees the end, an error, its timeout or the abort.
RangeEnds ==
    /\ at = "playing" /\ moving
    /\ watchers' = watchers \ {kept} /\ moving' = FALSE
    /\ \/ /\ ~cancelled
          /\ taped' = IF tape = "recording" THEN taped \union {kept} ELSE taped
          /\ voice' = FALSE /\ kept' = kept + 1 /\ at' = "range"
       \/ Quit /\ UNCHANGED <<taped, voice, kept>>
    /\ UNCHANGED <<work, tape, tapeFailed, previewGain, context, refused, cancelled, settled, made>>

\* `stopped`: the stop event, unless an error came before it.
StoppedWell == ~tapeFailed

StopRecorder ==
    /\ at = "range" /\ kept > NumRanges
    /\ tape' = "inactive"
    /\ IF StoppedWell THEN Then("checking recorded") ELSE Quit
    /\ Playback

CheckRecorded ==
    /\ at = "checking recorded"
    /\ Then("settling recorded") \/ Quit
    /\ UNCHANGED <<work, context, previewGain, cancelled, settled, made, Recorder>>

SettleRecorded ==
    /\ at = "settling recorded" /\ Settle("recorded", Quit)
    /\ UNCHANGED <<work, context, previewGain, cancelled, Recorder>>

-------------------------------------------------------------------------------
\* Mutant: the preview keeps the gain the export gave it.
RestoredNever == UNCHANGED previewGain
RestoredGain == previewGain' = "own"

\* finally
Cleanup ==
    /\ at = "cleanup"
    /\ at' = "over"
    /\ tape' = IF tape = "none" THEN "none" ELSE "inactive"
    /\ voice' = FALSE /\ moving' = FALSE
    /\ RestoredGain
    /\ context' = IF context = "open" THEN "closed" ELSE context
    /\ UNCHANGED <<work, kept, tapeFailed, taped, watchers, refused, cancelled, settled, made>>

\* A watcher nobody waits for any more: by its timeout, or because the person
\* plays the video past its range, which it then pauses.
WatcherEnds ==
    /\ at = "over" /\ \E r \in watchers : watchers' = watchers \ {r}
    /\ UNCHANGED <<work, at, kept, tape, tapeFailed, taped, previewGain, context, voice, moving, refused, cancelled, settled, made>>

\* cancelVideoExport, pagehide: not while the reservation is settled.
CancelExport ==
    /\ ~cancelled /\ at \notin {"settling portable", "settling recorded", "cleanup", "over"}
    /\ cancelled' = TRUE
    /\ UNCHANGED <<work, at, kept, tape, tapeFailed, taped, previewGain, context, voice, moving, watchers, refused, settled, made>>

PgNext ==
    AwaitMeasurement \/ LoadNarration \/ ExportPortable \/ CheckPortable \/ SettlePortable \/ FirstSeek \/ BorrowEngine
    \/ StartRecorder \/ RecorderFails \/ NextRange \/ SeekRange \/ ResumeAfterSeek \/ PlayRange \/ RangeEnds
    \/ StopRecorder \/ CheckRecorded \/ SettleRecorded \/ Cleanup \/ WatcherEnds \/ CancelExport

PgSpec == PgInit /\ [][PgNext]_pgvars

-------------------------------------------------------------------------------
PgTypeOK ==
    /\ kept \in 1..(NumRanges + 1) /\ taped \subseteq 1..NumRanges /\ watchers \subseteq 1..NumRanges
    /\ tape \in {"none", "recording", "paused", "inactive"} /\ made \in {"none", "portable", "recorded"}
    /\ context \in {"none", "open", "closed"} /\ previewGain \in {"own", "silenced"}

\* However the export ends, the preview has its sound and its own video back:
\* nothing of the export records, sounds, plays, or holds a context.  Only a
\* refused play() leaves a watcher that may still pause the video.
PreviewIsGivenBack ==
    at = "over" =>
        /\ tape \in {"none", "inactive"} /\ previewGain = "own" /\ context # "open" /\ ~voice /\ ~moving
        /\ watchers # {} => refused

\* The recorder never runs while the video seeks over what was cut.
CutIsNotRecorded == (at \in {"seeking", "resuming"} /\ kept > 1) => tape # "recording"

\* A recorded file has every kept range, recorded to its end.
RecordedIsWhole == made = "recorded" => taped = 1..NumRanges

\* A file is handed over only once its reservation is settled, and never after
\* a cancellation; what was cancelled is settled only where the answer to an
\* earlier settlement was lost and the recording followed it.
FileIsSettled ==
    /\ made # "none" => settled
    /\ cancelled => made = "none" /\ (settled => work.legacy)
===============================================================================
