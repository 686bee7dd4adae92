---------------------------- MODULE PhotoReelExport ----------------------------
(***************************************************************************)
(* exportPhotoReel of lib/photo-reel-export.ts: what the browser can do,   *)
(* the music rendered offline, and the frames either encoded one by one or *)
(* recorded from a canvas in real time, which only goes on while the page  *)
(* is visible.  The finished file is read again before it is returned.     *)
(*                                                                         *)
(* No caller passes drawOverlay, so a turn of the recording loop is one    *)
(* step.  The plan and what a frame shows are PhotoReel's.                 *)
(***************************************************************************)
EXTENDS Naturals, FiniteSets

CONSTANTS
    NumFrames,      \* bound of the model: the schedule, and the time of the recording
    MinFrames,      \* PHOTO_REEL_MINIMUM_PACKET_RATE, in frames of a whole reel
    MaxExports,     \* bound of the model: exports one after the other
    BrowserSet      \* bound of the model: [video, aac, package, recorder, decodes]

VARIABLES
    browser,        \* what it can encode, load, record and decode
    music,          \* audioFile was given
    at,             \* where the export is
    package,        \* packagedAacEncoderRegistration
    frame,          \* frames encoded, or the time of the recording
    caught,         \* the frames the recording has
    muxer,          \* output: "none", "open", "finalized", "cancelled"
    audioJob,       \* audioWrite: "none", "running", "done", "failed"
    stream,         \* the tracks of canvas.captureStream: "none", "live", "stopped"
    context,        \* audioContext and its source: "none", "open", "closed"
    tape,           \* recorder.state: "none", "recording", "inactive"
    tapeFailed,     \* recorderError
    turn,           \* a tick is asked for
    listening,      \* visibilitychange and pagehide
    hidden,         \* document.visibilityState
    unseen,         \* ghost: the page was hidden while it recorded
    aborted,        \* callbacks.signal
    ended,          \* "", "done", "aborted", "unsupported", "failed"
    exports

pxvars == <<browser, music, at, package, frame, caught, muxer, audioJob, stream, context, tape, tapeFailed, turn,
            listening, hidden, unseen, aborted, ended, exports>>

Encoder == <<muxer, audioJob>>
Recording == <<caught, stream, context, tape, tapeFailed, turn, listening, unseen>>
Around == <<browser, music, hidden, aborted, exports>>
Ends(how) == at' = "over" /\ ended' = how
Goes(next) == at' = next /\ UNCHANGED ended

-------------------------------------------------------------------------------
Fresh ==
    /\ at = "capability" /\ frame = 0 /\ caught = {} /\ muxer = "none" /\ audioJob = "none" /\ stream = "none"
    /\ context = "none" /\ tape = "none" /\ tapeFailed = FALSE /\ turn = FALSE /\ listening = FALSE /\ unseen = FALSE
    /\ aborted = FALSE /\ ended = ""

ReInit ==
    /\ browser \in BrowserSet /\ music \in BOOLEAN /\ package = "unasked" /\ hidden = FALSE /\ exports = 1
    /\ Fresh

\* The person tries again; what was loaded, or failed to, is the module's.
Again ==
    /\ at = "over" /\ exports < MaxExports
    /\ exports' = exports + 1 /\ music' \in BOOLEAN
    /\ at' = "capability" /\ frame' = 0 /\ caught' = {} /\ muxer' = "none" /\ audioJob' = "none" /\ stream' = "none"
    /\ context' = "none" /\ tape' = "none" /\ tapeFailed' = FALSE /\ turn' = FALSE /\ listening' = FALSE /\ unseen' = FALSE
    /\ aborted' = FALSE /\ ended' = ""
    /\ UNCHANGED <<browser, package, hidden>>

\* registerPackagedAacEncoder: the promise is kept, also one that was rejected.
Asked == IF package = "unasked" THEN (IF browser.package THEN {"registered", "rejected"} ELSE {"rejected"}) ELSE {package}

\* resolvePhotoReelExportCapability
Capability ==
    /\ at = "capability"
    /\ package' \in IF music /\ ~browser.aac THEN Asked ELSE {package}
    /\ \/ Ends("failed")
       \/ LET encodesAudio == ~music \/ browser.aac \/ package' = "registered"
          IN  IF browser.video /\ encodesAudio
                THEN IF aborted THEN Ends("aborted") ELSE Goes(IF music THEN "audio" ELSE "encoder")
              ELSE IF ~browser.recorder THEN Ends("unsupported")
              ELSE IF aborted THEN Ends("aborted")
              ELSE Goes(IF music THEN "audio for the recorder" ELSE "recorder")
    /\ UNCHANGED <<frame, Encoder, Recording, Around>>

\* renderPhotoReelAudio: abort is looked at after the bytes, before and after
\* the rendering.
RenderAudio ==
    /\ at \in {"audio", "audio for the recorder"}
    /\ \/ ~browser.decodes /\ ~aborted /\ Ends("unsupported")
       \/ Ends("failed")
       \/ aborted /\ Ends("aborted")
       \/ browser.decodes /\ ~aborted /\ Goes(IF at = "audio" THEN "encoder" ELSE "recorder")
    /\ UNCHANGED <<package, frame, Encoder, Recording, Around>>

-------------------------------------------------------------------------------
(* Frames encoded one by one                                                 *)

StartOutput ==
    /\ at = "encoder"
    /\ \/ aborted /\ Ends("aborted") /\ UNCHANGED Encoder
       \/ ~aborted /\ Ends("unsupported") /\ UNCHANGED Encoder
       \/ ~aborted /\ muxer' = "open" /\ Goes("frames") /\ audioJob' = IF music THEN "running" ELSE "none"
       \/ ~aborted /\ muxer' = "open" /\ Goes("cancel") /\ UNCHANGED audioJob
    /\ UNCHANGED <<package, frame, Recording, Around>>

\* audioSource.add, beside the frames; its failure is kept for later.
AudioEnds ==
    /\ audioJob = "running" /\ audioJob' \in {"done", "failed"}
    /\ UNCHANGED <<at, package, frame, muxer, ended, Recording, Around>>

AddFrame ==
    /\ at = "frames" /\ frame < NumFrames
    /\ \/ ~aborted /\ frame' = frame + 1 /\ Goes("frames")
       \/ UNCHANGED frame /\ Goes("cancel")
    /\ UNCHANGED <<package, Encoder, Recording, Around>>

\* Mutant: the audio's failure is not looked at.
AudioIgnored == audioJob # "running"
\* await audioWrite; if (audioWriteError) throw
AudioIsWritten == audioJob \in {"none", "done"}

Finalize ==
    /\ at = "frames" /\ frame = NumFrames /\ audioJob # "running"
    /\ \/ AudioIsWritten /\ ~aborted /\ muxer' = "finalized" /\ Goes("validate")
       \/ UNCHANGED muxer /\ Goes("cancel")
    /\ UNCHANGED <<package, frame, audioJob, Recording, Around>>

\* catch: the audio is waited for before the output is cancelled.
CancelOutput ==
    /\ at = "cancel" /\ audioJob # "running"
    /\ muxer' = "cancelled"
    /\ Ends(IF aborted THEN "aborted" ELSE "failed")
    /\ UNCHANGED <<package, frame, audioJob, Recording, Around>>

-------------------------------------------------------------------------------
(* Frames recorded in real time                                              *)

\* What was opened on the way is let go of at once.
Given(opened) == stream' = "stopped" /\ context' = IF opened THEN "closed" ELSE "none"

\* The first frame, captureStream, the audio's way into it, new MediaRecorder.
PrepareRecorder ==
    /\ at = "recorder"
    /\ \/ Ends(IF aborted THEN "aborted" ELSE "unsupported") /\ UNCHANGED <<stream, context>>
       \/ ~aborted /\ Ends("unsupported") /\ Given(music)
       \/ ~aborted /\ Goes("start") /\ stream' = "live" /\ context' = IF music THEN "open" ELSE "none"
    /\ UNCHANGED <<package, frame, caught, tape, tapeFailed, turn, listening, unseen, Encoder, Around>>

\* The listeners, recorder.start, the audio's start, the first turn asked for.
StartRecorder ==
    /\ at = "start"
    /\ \/ listening' = TRUE /\ tape' = "recording" /\ turn' = TRUE /\ caught' = {0} /\ Goes("recording")
       \/ listening' = TRUE /\ UNCHANGED <<tape, turn, caught>> /\ Goes("release")
    /\ UNCHANGED <<package, frame, stream, context, tapeFailed, unseen, Encoder, Around>>

\* Time goes on, also while the page is hidden and no turn comes.
TimePasses ==
    /\ at = "recording" /\ frame < NumFrames
    /\ frame' = frame + 1
    /\ UNCHANGED <<at, package, ended, Encoder, Recording, Around>>

\* tick
Tick ==
    /\ at = "recording" /\ turn /\ ~hidden
    /\ \/ (tapeFailed \/ aborted) /\ Goes("release") /\ turn' = FALSE /\ UNCHANGED caught
       \/ ~(tapeFailed \/ aborted) /\ Goes("release") /\ turn' = FALSE /\ UNCHANGED caught     \* the frame could not be drawn
       \/ /\ ~(tapeFailed \/ aborted)
          /\ caught' = caught \union {IF frame < NumFrames THEN frame ELSE NumFrames - 1}
          /\ IF frame = NumFrames THEN turn' = FALSE /\ Goes("stop") ELSE UNCHANGED <<at, turn, ended>>
    /\ UNCHANGED <<package, frame, stream, context, tape, tapeFailed, listening, unseen, Encoder, Around>>

RecorderFails ==
    /\ tape = "recording" /\ ~tapeFailed
    /\ tapeFailed' = TRUE /\ tape' = "inactive"
    /\ UNCHANGED <<at, package, frame, caught, stream, context, turn, listening, unseen, ended, Encoder, Around>>

\* Mutant: a page that went away is waited for.
InterruptNever == UNCHANGED <<at, tape>>
\* interruptForPageState rejects the recording and stops the recorder.
Interrupt == at' = "release" /\ tape' = "inactive"

\* visibilitychange, pagehide
Hide ==
    /\ ~hidden /\ at # "over"
    /\ hidden' = TRUE
    /\ unseen' = (unseen \/ at = "recording")
    /\ IF listening /\ at = "recording" THEN Interrupt ELSE UNCHANGED <<at, tape>>
    /\ UNCHANGED <<browser, music, aborted, exports, package, frame, caught, stream, context, tapeFailed, turn, listening, ended, Encoder>>

Show ==
    /\ hidden /\ hidden' = FALSE
    /\ UNCHANGED <<browser, music, aborted, exports, at, package, frame, ended, Recording, Encoder>>

\* recorder.stop, `stopped`, and what the recording is worth.
StopRecorder ==
    /\ at = "stop"
    /\ tape' = "inactive"
    /\ Goes(IF tapeFailed \/ aborted THEN "release" ELSE "release and validate")
    /\ UNCHANGED <<package, frame, caught, stream, context, tapeFailed, turn, listening, unseen, Encoder, Around>>

\* Mutant: the audio context stays open.
LeaveContext == UNCHANGED context
CloseContext == context' = IF context = "open" THEN "closed" ELSE context

\* catch and finally: also a turn that was asked for is called off.
Release ==
    /\ at \in {"release", "release and validate"}
    /\ tape' = IF tape = "recording" THEN "inactive" ELSE tape
    /\ turn' = FALSE /\ listening' = FALSE /\ stream' = "stopped"
    /\ CloseContext
    /\ IF at = "release and validate" THEN Goes("validate")
       ELSE Ends(IF tape = "none" THEN "unsupported" ELSE IF aborted THEN "aborted" ELSE "failed")
    /\ UNCHANGED <<package, frame, caught, tapeFailed, unseen, Encoder, Around>>

-------------------------------------------------------------------------------
\* Mutant: the packets are not counted.
MovesAnyhow == TRUE
\* validatePhotoReelOutput: the average packet rate.
Moves == muxer = "finalized" \/ Cardinality(caught) >= MinFrames

\* The file is read again: its tracks, lengths, rate, and that it is heard.
Validate ==
    /\ at = "validate"
    /\ \/ aborted /\ Ends("aborted")
       \/ Ends("failed")
       \/ ~aborted /\ Moves /\ Ends("done")
    /\ UNCHANGED <<package, frame, Encoder, Recording, Around>>

AbortReel ==
    /\ ~aborted /\ at # "over" /\ aborted' = TRUE
    /\ UNCHANGED <<browser, music, hidden, exports, at, package, frame, ended, Encoder, Recording>>

ReNext ==
    Again \/ Capability \/ RenderAudio \/ StartOutput \/ AudioEnds \/ AddFrame \/ Finalize \/ CancelOutput
    \/ PrepareRecorder \/ StartRecorder \/ TimePasses \/ Tick \/ RecorderFails \/ Hide \/ Show \/ StopRecorder \/ Release
    \/ Validate \/ AbortReel

ReSpec == ReInit /\ [][ReNext]_pxvars

-------------------------------------------------------------------------------
ReTypeOK ==
    /\ frame \in 0..NumFrames /\ caught \subseteq 0..(NumFrames - 1) /\ exports \in 1..MaxExports
    /\ muxer \in {"none", "open", "finalized", "cancelled"} /\ audioJob \in {"none", "running", "done", "failed"}
    /\ stream \in {"none", "live", "stopped"} /\ context \in {"none", "open", "closed"}
    /\ tape \in {"none", "recording", "inactive"} /\ package \in {"unasked", "registered", "rejected"}

\* However an export ends, nothing of it goes on: no recorder, track, audio
\* context, encoder, turn of the loop or listener.
ReelIsLetGo ==
    at = "over" =>
        /\ muxer # "open" /\ audioJob # "running"
        /\ tape # "recording" /\ stream # "live" /\ context # "open" /\ ~turn /\ ~listening

\* A file that is returned has every frame and its music, or was recorded to
\* its end, with enough of its frames to move, and nobody hid the page since
\* the recording began; one hidden before is only seen by the missing frames.
ReelIsWhole ==
    ended = "done" =>
        \/ muxer = "finalized" /\ frame = NumFrames /\ (music => audioJob = "done")
        \/ /\ tape = "inactive" /\ ~tapeFailed /\ ~unseen
           /\ frame = NumFrames /\ {0, NumFrames - 1} \subseteq caught /\ Cardinality(caught) >= MinFrames
===============================================================================
