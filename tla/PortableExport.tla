----------------------------- MODULE PortableExport -----------------------------
(***************************************************************************)
(* exportPortableVideoMp4 of lib/portable-video-export.ts: one video cut,  *)
(* drawn and encoded with its audio beside it, under a signal that may     *)
(* abort it at any time; and the measurement of its audio beforehand.      *)
(* The file, the device and the encoder answer what they please.  The      *)
(* times of the frames are those of ExportTimeline; colors, bitrates and   *)
(* progress are left out.                                                  *)
(***************************************************************************)
EXTENDS Naturals, Sequences, FiniteSets

CONSTANTS
    MaxFrames,      \* bound of the model: frames of the schedule
    RequestSet,     \* bound of the model: [gain, narration], what is asked
    ClipSet         \* bound of the model: [kind, tracks, small, video], the file

VARIABLES
    request,        \* options
    clipFile,       \* options.file
    stage,          \* where the export is
    openInput,      \* the input is open
    chosen,         \* the audio track that is read: 0 is none
    rendered,       \* renderMixedAudio: [buffer, original, narration]
    muxer,          \* output: "none", "started", "finalized", "cancelled"
    audioJob,       \* audioWrite: "none", "running", "done", "failed"
    emitted,        \* emittedFrames
    schedule,       \* per frame: a second sample is blended in
    openSamples,    \* samples of the current frame that are open
    leftOpen,       \* samples nothing closes any more
    signal,         \* options.signal is aborted
    ended           \* "no", "blob", "aborted", "unsupported", "failed"

pxvars == <<request, clipFile, stage, openInput, chosen, rendered, muxer, audioJob, emitted, schedule, openSamples,
            leftOpen, signal, ended>>

-------------------------------------------------------------------------------
\* Mutant: the primary track, whatever it is.
PrimaryOnly(tracks) ==
    LET Primary == {i \in DOMAIN tracks : tracks[i].primary} IN
    IF Primary # {} THEN CHOOSE i \in Primary : TRUE ELSE IF tracks # <<>> THEN 1 ELSE 0

(* selectPreferredPortableAudioTrack: the best decodable track, else the    *)
(* primary one, else the first.  A track is [priority, decodable, primary]. *)
Preferred(tracks) ==
    LET Decodable == {i \in DOMAIN tracks : tracks[i].decodable}
        Best == {i \in Decodable : \A j \in Decodable : tracks[i].priority <= tracks[j].priority}
        Primary == {i \in DOMAIN tracks : tracks[i].primary}
        FirstOf(S) == CHOOSE i \in S : \A j \in S : i <= j
    IN IF Best # {} THEN FirstOf(Best)
       ELSE IF Primary # {} THEN FirstOf(Primary)
       ELSE IF tracks # <<>> THEN 1 ELSE 0

\* getPreferredPortableInputAudioTrack
Track(tracks) == Preferred(tracks)

\* measurePortableOriginalAudioProfile: "unknown" stands for hasAudioTrack null.
Measured ==
    IF clipFile.kind = "unreadable" THEN "unknown"
    ELSE IF Track(clipFile.tracks) = 0 THEN "no track"
    ELSE IF ~clipFile.tracks[Track(clipFile.tracks)].decodable THEN "undecodable"
    ELSE "measured"

Silence == [buffer |-> FALSE, original |-> FALSE, narration |-> FALSE]

PxInit ==
    /\ request \in RequestSet /\ clipFile \in ClipSet
    /\ schedule \in UNION {[1..n -> BOOLEAN] : n \in 1..MaxFrames}
    /\ stage = "opening" /\ openInput = TRUE /\ chosen = 0 /\ rendered = Silence
    /\ muxer = "none" /\ audioJob = "none" /\ emitted = 0
    /\ openSamples = {} /\ leftOpen = {} /\ signal = FALSE /\ ended = "no"

Given == UNCHANGED <<request, clipFile, schedule>>

\* Mutant: the output that was started is left as it is.
LeaveOutput(why) == stage' = "over" /\ ended' = why /\ openInput' = FALSE /\ UNCHANGED muxer

\* The outer catch and finally.
Leave(why) ==
    /\ stage' = "over" /\ ended' = why
    /\ muxer' = IF muxer = "started" THEN "cancelled" ELSE muxer
    /\ openInput' = FALSE

\* throwIfAborted, canRead, the track, canDecode, the ranges, the memory and
\* canEncode.
Open ==
    /\ stage = "opening"
    /\ IF signal THEN Leave("aborted")
       ELSE IF clipFile.kind = "unreadable" \/ ~clipFile.video THEN Leave("unsupported")
       ELSE \/ stage' = "mixing" /\ UNCHANGED <<ended, muxer, openInput>>
            \/ Leave("unsupported")  \* memory, or no encoder
            \/ Leave("failed")       \* no playable range
    /\ UNCHANGED <<chosen, rendered, audioJob, emitted, openSamples, leftOpen, signal>> /\ Given

\* renderMixedAudio: the tracks are looked at only when they will be heard.
PickTrack ==
    /\ stage = "mixing"
    /\ LET t == IF request.gain > 0 THEN Track(clipFile.tracks) ELSE 0 IN
       /\ chosen' = t
       /\ IF t = 0 /\ ~request.narration THEN stage' = "starting" /\ UNCHANGED <<ended, muxer, openInput>>
          ELSE IF t # 0 /\ signal THEN Leave("aborted")
          ELSE stage' = (IF t # 0 THEN "decoding" ELSE "rendering") /\ UNCHANGED <<ended, muxer, openInput>>
    /\ UNCHANGED <<rendered, audioJob, emitted, openSamples, leftOpen, signal>> /\ Given

\* collectDecodedOriginalAudio: an abort is an error like any other here.
Decode ==
    /\ stage = "decoding"
    /\ IF ~signal /\ clipFile.tracks[chosen].decodable
         THEN stage' \in {"rendering", "whole file"} /\ UNCHANGED <<ended, muxer, openInput>>
         ELSE stage' = "whole file" /\ UNCHANGED <<ended, muxer, openInput>>
    /\ UNCHANGED <<chosen, rendered, audioJob, emitted, openSamples, leftOpen, signal>> /\ Given

\* canUseWholeFileAudioDecode: the browser decodes the whole of a small file.
DecodeWholeFile ==
    /\ stage = "whole file"
    /\ \/ clipFile.small /\ ~signal /\ stage' = "rendering" /\ UNCHANGED <<ended, muxer, openInput>>
       \/ Leave("unsupported")
    /\ UNCHANGED <<chosen, rendered, audioJob, emitted, openSamples, leftOpen, signal>> /\ Given

Render ==
    /\ stage = "rendering"
    /\ IF signal THEN Leave("aborted") /\ UNCHANGED rendered
       ELSE /\ stage' = "starting"
            /\ rendered' = [buffer |-> TRUE, original |-> chosen # 0, narration |-> request.narration]
            /\ UNCHANGED <<ended, muxer, openInput>>
    /\ UNCHANGED <<chosen, audioJob, emitted, openSamples, leftOpen, signal>> /\ Given

\* ensurePortableAacEncoding, the canvas, output.start(), audioSource.add.
StartOutput ==
    /\ stage = "starting"
    /\ IF signal THEN Leave("aborted") /\ UNCHANGED audioJob
       ELSE \/ /\ muxer' = "started" /\ stage' = "frames"
               /\ audioJob' = IF rendered.buffer THEN "running" ELSE "done"
               /\ UNCHANGED <<ended, openInput>>
            \/ rendered.buffer /\ Leave("unsupported") /\ UNCHANGED audioJob
            \/ Leave("failed") /\ UNCHANGED audioJob
    /\ UNCHANGED <<chosen, rendered, emitted, openSamples, leftOpen, signal>> /\ Given

AudioEnds ==
    /\ audioJob = "running" /\ audioJob' \in {"done", "failed"}
    /\ UNCHANGED <<request, clipFile, stage, openInput, chosen, rendered, muxer, emitted, schedule, openSamples, leftOpen, signal, ended>>

\* The inner catch waits for the audio before anything else is undone.
Stop(why) == stage' = "settling" /\ ended' = why
Beside == UNCHANGED <<openInput, chosen, rendered, muxer, audioJob, signal>> /\ Given

\* The next sample of the sink: none where the video has no frame, which is
\* drawn black.  An abort seen here leaves the sample it was given.
NextSample ==
    /\ stage = "frames" /\ emitted < Len(schedule)
    /\ \/ \E there \in BOOLEAN :
            LET got == IF there THEN {"frame"} ELSE {} IN
            IF signal THEN Stop("aborted") /\ leftOpen' = leftOpen \union got /\ UNCHANGED openSamples
            ELSE /\ openSamples' = got
                 /\ stage' = IF schedule[emitted + 1] THEN "blending" ELSE "drawing"
                 /\ UNCHANGED <<ended, leftOpen>>
       \/ Stop("failed") /\ UNCHANGED <<openSamples, leftOpen>>
    /\ UNCHANGED emitted /\ Beside

NextBlend ==
    /\ stage = "blending"
    /\ \/ openSamples' \in {openSamples, openSamples \union {"blend"}} /\ stage' = "drawing" /\ UNCHANGED ended
       \/ Stop("failed") /\ openSamples' = {}
    /\ UNCHANGED <<emitted, leftOpen>> /\ Beside

\* The frame and its caption are drawn and handed to the encoder.
Draw ==
    /\ stage = "drawing"
    /\ openSamples' = {}
    /\ \/ emitted' = emitted + 1 /\ stage' = "frames" /\ UNCHANGED ended
       \/ Stop("failed") /\ UNCHANGED emitted
    /\ UNCHANGED leftOpen /\ Beside

\* The sink has no more: every frame must have been emitted.
FramesEnd ==
    /\ stage = "frames"
    /\ IF emitted # Len(schedule) THEN Stop("failed")
       ELSE stage' = "audio" /\ UNCHANGED ended
    /\ UNCHANGED <<emitted, openSamples, leftOpen>> /\ Beside

FinalizeOutput ==
    /\ stage = "audio" /\ audioJob # "running"
    /\ \/ audioJob = "failed" /\ Stop("failed") /\ UNCHANGED <<muxer, openInput>>
       \/ audioJob = "done" /\ signal /\ Stop("aborted") /\ UNCHANGED <<muxer, openInput>>
       \/ audioJob = "done" /\ ~signal /\ Stop("failed") /\ UNCHANGED <<muxer, openInput>>
       \/ /\ audioJob = "done" /\ ~signal
          /\ muxer' = "finalized" /\ stage' = "over" /\ openInput' = FALSE
          /\ ended' \in {"blob", "failed"}   \* an empty buffer
    /\ UNCHANGED <<chosen, rendered, audioJob, emitted, openSamples, leftOpen, signal>> /\ Given

\* Promise.allSettled([audioWrite])
SettleAudio ==
    /\ stage = "settling" /\ audioJob # "running"
    /\ Leave(ended)
    /\ UNCHANGED <<chosen, rendered, audioJob, emitted, openSamples, leftOpen, signal>> /\ Given

AbortExport ==
    /\ ~signal /\ stage # "over" /\ signal' = TRUE
    /\ UNCHANGED <<request, clipFile, stage, openInput, chosen, rendered, muxer, audioJob, emitted, schedule, openSamples, leftOpen, ended>>

PxNext ==
    Open \/ PickTrack \/ Decode \/ DecodeWholeFile \/ Render \/ StartOutput \/ AudioEnds \/ NextSample \/ NextBlend \/ Draw
    \/ FramesEnd \/ FinalizeOutput \/ SettleAudio \/ AbortExport

PxSpec == PxInit /\ [][PxNext]_pxvars

-------------------------------------------------------------------------------
PxTypeOK ==
    /\ stage \in {"opening", "mixing", "decoding", "whole file", "rendering", "starting", "frames", "blending", "drawing",
                  "audio", "settling", "over"}
    /\ ended \in {"no", "blob", "aborted", "unsupported", "failed"}
    /\ openSamples \subseteq {"frame", "blend"} /\ leftOpen \subseteq {"frame"}

\* However the export ends, the input is disposed of, the output finalized or
\* cancelled, the audio no longer written, and no sample of a frame open; only
\* an abort leaves the one sample it came with.
NothingRunsOn ==
    stage = "over" =>
        /\ ~openInput /\ muxer # "started" /\ audioJob # "running" /\ openSamples = {}
        /\ leftOpen # {} => ended = "aborted"

\* A blob has every frame of the schedule, its audio written, and was not
\* aborted before its end.
BlobIsComplete ==
    ended = "blob" => emitted = Len(schedule) /\ audioJob = "done" /\ muxer = "finalized"

\* What is asked to be heard is heard: a blob of a file with an audio track
\* that is not muted has it, and the narration it was given.
AskedIsHeard ==
    ended = "blob" =>
        /\ (request.gain > 0 /\ clipFile.tracks # <<>>) => rendered.original
        /\ request.narration => rendered.narration

\* An export never fails for the track it chose when the file has another it
\* could decode: an unreadable measurement and a fallback to the whole file
\* are for the errors of the decoder itself.
ChosenIsBest ==
    /\ chosen # 0 /\ ~clipFile.tracks[chosen].decodable => \A i \in DOMAIN clipFile.tracks : ~clipFile.tracks[i].decodable
    /\ Measured = "undecodable" => \A i \in DOMAIN clipFile.tracks : ~clipFile.tracks[i].decodable
===============================================================================
