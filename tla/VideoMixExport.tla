----------------------------- MODULE VideoMixExport -----------------------------
(***************************************************************************)
(* lib/video-mix-export.ts: clips of several videos decoded, drawn and     *)
(* encoded into one MP4, with their audio mixed beside it, under a signal  *)
(* that may abort it at any time; and the same mix as audio for captions.  *)
(*                                                                         *)
(* The files, the device and the encoder answer what they please.  Layout, *)
(* colors, gains and progress are left out.                                *)
(***************************************************************************)
EXTENDS VideoComposition

CONSTANTS
    CutFade,    \* PORTABLE_AUDIO_CUT_FADE_SECONDS
    FileSet,    \* bound of the model: what the files turn out to be
    WishSet     \* bound of the model: what is asked of the export

VARIABLES
    files,      \* per source: [opens, audio, length]
    wish,       \* [purpose, gain, narration, roomy]: what is asked, and of what device
    phase,      \* where exportVideoMixMp4 is
    inputs,     \* the inputs that are open
    astray,     \* inputs nothing disposes of any more
    mixed,      \* renderedAudio: [buffer, samples, narrated]
    output,     \* "none", "started", "finalized", "cancelled"
    audioWrite, \* "none", "writing", "written", "failed"
    frame,      \* emittedFrames
    taken,      \* per clip: requestIndex of its decoder
    samples,    \* decoded samples that are open
    decoders,   \* the iterators are open
    aborted,    \* options.signal
    outcome     \* "none", "blob", "error", "misordered"

vxvars == <<vcvars, files, wish, phase, inputs, astray, mixed, output, audioWrite, frame, taken, samples,
            decoders, aborted, outcome>>

-------------------------------------------------------------------------------
(* buildVideoMixFrameDecodeBatches                                           *)

UsesOutgoing(f) == f.transition.phase = "blend"

\* What a frame asks of the decoders, in the order of the loop.
Asked(f, n) ==
    <<[clip |-> f.clip, frame |-> n, role |-> "primary", time |-> f.sourceTime]>>
    \o IF UsesOutgoing(f)
         THEN <<[clip |-> f.transition.from, frame |-> n, role |-> "transition-outgoing", time |-> f.transition.sourceTime]>>
         ELSE <<>>

\* Mutant: the frames of the outgoing side are requested after all others.
OutgoingLast(frames, c) ==
    LET all == SelectSeq(FlattenSeq([n \in DOMAIN frames |-> Asked(frames[n], n)]), LAMBDA r : r.clip = c)
    IN SelectSeq(all, LAMBDA r : r.role # "primary") \o SelectSeq(all, LAMBDA r : r.role = "primary")

\* One decoder for each clip, and the requests it will be asked for.
DecodeRequests(frames, c) ==
    SelectSeq(FlattenSeq([n \in DOMAIN frames |-> Asked(frames[n], n)]), LAMBDA r : r.clip = c)

-------------------------------------------------------------------------------
(* The audio of the mix                                                      *)

\* getVideoMixClipAudioOverlapEnvelope
OverlapWindow(p, b) ==
    IF b \in DOMAIN p.boundaries /\ p.boundaries[b].type = "blend"
      THEN [from |-> p.boundaries[b].at, to |-> p.boundaries[b].at + p.boundaries[b].duration]
      ELSE [from |-> 0, to |-> 0]
Inside(t, w) == w.from <= t /\ t < w.to

\* applyMixAudioCrossfades: a clip is faded while it overlaps another.
FadedIn(p, c, t) == Inside(t, OverlapWindow(p, c - 1))
FadedOut(p, c, t) == Inside(t, OverlapWindow(p, c))

\* scheduleAudioBuffer: the calls on the gain of a slice of a clip's audio, in
\* their order, with half of a slice for each of two cut fades.
Set(t) == [curve |-> FALSE, at |-> t, to |-> t]
Curve(a, b) == [curve |-> TRUE, at |-> a, to |-> b]
When(yes, calls) == IF yes THEN calls ELSE <<>>

GainCalls(p, c, s) ==
    LET in == OverlapWindow(p, c - 1)
        out == OverlapWindow(p, c)
        blendsIn == in.to > in.from
        blendsOut == out.to > out.from
        fadesIn == s.from = p.clips[c].from /\ ~blendsIn
        fadesOut == s.to = p.clips[c].to /\ ~blendsOut
        fade == Least(CutFade, IF fadesIn /\ fadesOut THEN (s.to - s.from) \div 2 ELSE s.to - s.from)
        Part(w) == Curve(Greatest(s.from, w.from), Least(s.to, w.to))
    IN IF ~(fadesIn \/ fadesOut \/ blendsIn \/ blendsOut) THEN <<>>
       ELSE When(~blendsIn \/ in.from > s.from, <<Set(s.from)>>)
            \o When(Part(in).to > Part(in).at, <<Part(in)>> \o When(Part(in).to < s.to, <<Set(Part(in).to)>>))
            \o When(Part(out).to > Part(out).at, <<Part(out)>>)
            \o IF fadesIn /\ fade > 0 THEN <<Curve(s.from, s.from + fade)>> ELSE When(~blendsIn, <<Set(s.from)>>)
            \o When(fadesOut /\ fade > 0, <<Curve(s.to - fade, s.to)>>)

\* AudioParam: nothing may be set within a curve, nor a curve laid over what
\* is set.
GainRefused(calls) ==
    \E j \in DOMAIN calls : \E i \in 1..(j - 1) :
        \/ calls[i].curve /\ calls[i].at <= calls[j].at /\ calls[j].at < calls[i].to
        \/ calls[j].curve /\ calls[j].at < calls[i].at /\ calls[i].at < calls[j].to

HasTrack(k) == files[k].audio # "none"
HasSamples == \E k \in DOMAIN sources : files[k].audio = "sounds"
NoMix == [buffer |-> FALSE, samples |-> FALSE, narrated |-> FALSE]

\* renderVideoMixAudio: [buffer |-> FALSE] is a mix without any sound.
RenderFails ==
    \/ wish.gain > 0 /\ \E k \in DOMAIN sources : files[k].audio = "undecodable"
    \/ wish.narration = "unreadable"
    \/ aborted
Rendered ==
    LET sounding == wish.gain > 0 /\ HasSamples
    IN [buffer |-> sounding \/ wish.narration # "none", samples |-> sounding, narrated |-> wish.narration = "speech"]

\* createVideoMixAudioExportMetadata
RequireAudio == wish.narration # "none" \/ (wish.gain > 0 /\ \E k \in DOMAIN sources : HasTrack(k))
AudioState ==
    IF mixed.buffer THEN IF wish.narration # "none" /\ ~mixed.samples THEN "narration-only" ELSE "mixed"
    ELSE IF wish.gain = 0 THEN "intentionally-muted"
    ELSE IF ~\E k \in DOMAIN sources : HasTrack(k) THEN "no-source-audio"
    ELSE "source-audio-unavailable-in-selection"

\* createVideoMixSourceAudioAnalysisWindows: what is measured of the clips,
\* doubled: a centred share of each when together they are too long.
AnalysisWindows(clips, most) ==
    LET selected == FoldLeft(LAMBDA n, c : n + c.end - c.start, 0, clips) IN
    [i \in DOMAIN clips |->
        LET whole == clips[i].end - clips[i].start
            share == IF selected <= most THEN whole ELSE (most * whole) \div selected
        IN [from2 |-> 2 * clips[i].start + whole - share, to2 |-> 2 * clips[i].start + whole + share]]

-------------------------------------------------------------------------------
VxInit ==
    /\ \E ss \in Requests :
          sources = [k \in DOMAIN ss |-> [Named(ss)[k] EXCEPT !.duration = Last(ss[k].clips).end]]
    /\ transition \in {o \in OverrideSet : o.type # "none"}
    /\ overrides = <<>> /\ composed = "asked" /\ plan = NoPlan
    /\ \E fate \in FileSet : files = [k \in DOMAIN sources |-> fate[k]]
    /\ wish \in WishSet
    /\ phase = "begun" /\ inputs = {} /\ astray = {} /\ mixed = NoMix
    /\ output = "none" /\ audioWrite = "none" /\ frame = 0 /\ taken = <<>>
    /\ samples = {} /\ decoders = FALSE /\ aborted = FALSE /\ outcome = "none"

Inert == UNCHANGED <<transition, overrides, files, wish>>
Frames == Schedule(plan)

\* The outer catch and finally.
Fail(why) ==
    /\ phase' = "over" /\ outcome' = why
    /\ output' = IF output = "started" THEN "cancelled" ELSE output
    /\ inputs' = {}

\* The plan of the lengths the clips claim, and the memory it would take.
PlanAccepted == SourcesSound /\ TransitionsSound(Clips) /\ Planned(Clips).duration <= MaxOutput

Begin ==
    /\ phase = "begun"
    /\ IF PlanAccepted /\ (wish.roomy \/ wish.purpose = "captions")
         THEN phase' = "opening" /\ UNCHANGED <<outcome, output, inputs>>
         ELSE Fail("error")
    /\ UNCHANGED <<sources, composed, plan, astray, mixed, audioWrite, frame, taken, samples, decoders, aborted>> /\ Inert

\* One source of the loop: an input that is no use is disposed of; one whose
\* track cannot be read throws before it is in `prepared`.
OpenInput ==
    LET k == Cardinality(inputs) + 1 IN
    /\ phase = "opening" /\ k <= Len(sources)
    /\ IF aborted \/ files[k].opens \in {"no", "breaks"}
         THEN /\ Fail("error")
              /\ astray' = IF ~aborted /\ files[k].opens = "breaks" THEN astray \union {k} ELSE astray
         ELSE inputs' = inputs \union {k} /\ UNCHANGED <<phase, outcome, output, astray>>
    /\ UNCHANGED <<sources, composed, plan, mixed, audioWrite, frame, taken, samples, decoders, aborted>> /\ Inert

\* createVideoCompositionPlan of the lengths the files have.
PlanMix ==
    /\ phase = "opening" /\ inputs = DOMAIN sources
    /\ sources' = [k \in DOMAIN sources |-> IF wish.purpose = "captions" THEN sources[k]
                                            ELSE [sources[k] EXCEPT !.duration = files[k].length]]
    /\ phase' = "planning"
    /\ UNCHANGED <<composed, plan, inputs, astray, mixed, output, audioWrite, frame, taken, samples, decoders, aborted, outcome>> /\ Inert

Accept ==
    LET made == Planned(Clips) IN
    /\ phase = "planning"
    /\ IF PlanAccepted
         THEN /\ composed' = "planned" /\ plan' = made /\ phase' = "mixing"
              /\ taken' = [c \in DOMAIN made.clips |-> 0] /\ UNCHANGED <<inputs, output, outcome>>
         ELSE composed' = "refused" /\ Fail("error") /\ UNCHANGED <<plan, taken>>
    /\ UNCHANGED <<sources, astray, mixed, audioWrite, frame, samples, decoders, aborted>> /\ Inert

\* renderVideoMixAudio
Mix ==
    /\ phase = "mixing" /\ wish.purpose = "export"
    /\ IF RenderFails THEN Fail("error") /\ UNCHANGED mixed
       ELSE phase' = "starting" /\ mixed' = Rendered /\ UNCHANGED <<outcome, output, inputs>>
    /\ UNCHANGED <<sources, composed, plan, astray, audioWrite, frame, taken, samples, decoders, aborted>> /\ Inert

\* createVideoMixTranscriptionAudio ends here, and needs a sound.
MixForCaptions ==
    /\ phase = "mixing" /\ wish.purpose = "captions"
    /\ Fail(IF RenderFails \/ ~Rendered.buffer THEN "error" ELSE "blob")
    /\ mixed' = IF RenderFails THEN NoMix ELSE Rendered
    /\ UNCHANGED <<sources, composed, plan, astray, audioWrite, frame, taken, samples, decoders, aborted>> /\ Inert

\* AAC, the canvas, output.start(), and the audio set off beside the frames.
Start ==
    /\ phase = "starting"
    /\ \/ /\ ~aborted
          /\ output' = "started" /\ decoders' = TRUE /\ phase' = "drawing"
          /\ audioWrite' = IF mixed.buffer THEN "writing" ELSE "written"
          /\ UNCHANGED <<inputs, outcome>>
       \/ Fail("error") /\ UNCHANGED <<decoders, audioWrite>>
    /\ UNCHANGED <<sources, composed, plan, astray, mixed, frame, taken, samples, aborted>> /\ Inert

\* audioSource.add
AudioWritten ==
    /\ audioWrite = "writing"
    /\ audioWrite' \in {"written", "failed"}
    /\ UNCHANGED <<vcvars, files, wish, phase, inputs, astray, mixed, output, frame, taken, samples, decoders, aborted, outcome>>

\* The finally blocks: samples are closed, iterators returned; the catch
\* then waits for the audio.
GiveUp(why) ==
    /\ phase' = "settling" /\ samples' = {} /\ decoders' = FALSE /\ outcome' = why

NextRequest(c) ==
    LET rs == DecodeRequests(Frames, c) IN IF taken[c] < Len(rs) THEN rs[taken[c] + 1] ELSE [frame |-> 0, role |-> "none"]

\* takeSample: in the order the decoder was told, or not at all.
Take(request, then) ==
    LET next == NextRequest(request.clip) IN
    IF next.frame # request.frame \/ next.role # request.role
      THEN GiveUp("misordered") /\ UNCHANGED taken
      ELSE \/ /\ ~aborted
              /\ taken' = [taken EXCEPT ![request.clip] = @ + 1]
              /\ samples' = samples \union {request.role} /\ phase' = then /\ UNCHANGED <<decoders, outcome>>
           \/ GiveUp("error") /\ taken' = [taken EXCEPT ![request.clip] = @ + 1]

Still == UNCHANGED <<vcvars, files, wish, inputs, astray, mixed, output, audioWrite, aborted>>

TakePrimary ==
    /\ phase = "drawing" /\ frame < Len(Frames)
    /\ IF aborted THEN GiveUp("error") /\ UNCHANGED taken
       ELSE Take(Asked(Frames[frame + 1], frame + 1)[1], IF UsesOutgoing(Frames[frame + 1]) THEN "blending" ELSE "encoding")
    /\ UNCHANGED frame /\ Still

TakeOutgoing ==
    /\ phase = "blending"
    /\ IF aborted THEN GiveUp("error") /\ UNCHANGED taken
       ELSE Take(Asked(Frames[frame + 1], frame + 1)[2], "encoding")
    /\ UNCHANGED frame /\ Still

\* drawOverlay and videoSource.add; the samples of the frame are closed.
Encode ==
    /\ phase = "encoding"
    /\ \/ samples' = {} /\ frame' = frame + 1 /\ phase' = "drawing" /\ UNCHANGED <<decoders, outcome>>
       \/ GiveUp("error") /\ UNCHANGED frame
    /\ UNCHANGED taken /\ Still

\* Every decoder must have been asked for all it was told of.
Drawn ==
    /\ phase = "drawing" /\ frame = Len(Frames)
    /\ IF \A c \in DOMAIN plan.clips : taken[c] = Len(DecodeRequests(Frames, c))
         THEN phase' = "closing" /\ decoders' = FALSE /\ UNCHANGED <<samples, outcome>>
         ELSE GiveUp("misordered")
    /\ UNCHANGED <<frame, taken>> /\ Still

\* await audioWrite, then output.finalize().
Finalize ==
    /\ phase = "closing" /\ audioWrite \in {"written", "failed"}
    /\ \/ /\ audioWrite = "written" /\ ~aborted
          /\ output' = "finalized" /\ phase' = "over" /\ inputs' = {}
          /\ outcome' \in {"blob", "error"}   \* an empty buffer
       \/ GiveUp("error") /\ UNCHANGED <<output, inputs>>
    /\ (phase' = "over" => UNCHANGED <<samples, decoders>>)
    /\ UNCHANGED <<vcvars, files, wish, astray, mixed, audioWrite, frame, taken, aborted>>

\* Promise.allSettled([audioWrite]), output.cancel(), the inputs.
Settle ==
    /\ phase = "settling" /\ audioWrite # "writing"
    /\ Fail(outcome)
    /\ UNCHANGED <<vcvars, files, wish, astray, mixed, audioWrite, frame, taken, samples, decoders, aborted>>

Abort ==
    /\ ~aborted /\ phase # "over"
    /\ aborted' = TRUE
    /\ UNCHANGED <<vcvars, files, wish, phase, inputs, astray, mixed, output, audioWrite, frame, taken, samples, decoders, outcome>>

VxNext ==
    Begin \/ OpenInput \/ PlanMix \/ Accept \/ Mix \/ MixForCaptions \/ Start \/ AudioWritten \/ TakePrimary \/ TakeOutgoing \/ Encode
    \/ Drawn \/ Finalize \/ Settle \/ Abort

VxSpec == VxInit /\ [][VxNext]_vxvars

-------------------------------------------------------------------------------
VxTypeOK ==
    /\ phase \in {"begun", "opening", "planning", "mixing", "starting", "drawing", "blending", "encoding", "closing",
                  "settling", "over"}
    /\ samples \subseteq {"primary", "transition-outgoing"}
    /\ outcome \in {"none", "blob", "error", "misordered"}

\* The order in which the frames take samples is the one each decoder was
\* told, and never backwards: "動画のフレーム順序を確認できませんでした" never happens.
DecodersAreInOrder ==
    /\ outcome # "misordered"
    /\ phase = "mixing" =>
          \A c \in DOMAIN plan.clips :
              LET rs == DecodeRequests(Frames, c) IN
              \A i \in 2..Len(rs) : rs[i - 1].time < rs[i].time

\* Whatever ends the export, nothing is left open and nothing still runs;
\* an output that was started is finalized or cancelled.
NothingIsHeld ==
    phase = "over" =>
        /\ inputs = {} /\ samples = {} /\ ~decoders
        /\ output # "started" /\ audioWrite # "writing"
        /\ astray # {} => outcome = "error"

\* A file is handed over only with every frame, the audio it should have and
\* without an abort before its end.
BlobIsWhole ==
    (outcome = "blob" /\ wish.purpose = "export") =>
        /\ output = "finalized" /\ frame = Len(Frames) /\ audioWrite = "written"
        /\ (RequireAudio /\ ~mixed.buffer) => AudioState = "source-audio-unavailable-in-selection"
        /\ AudioState \in {"mixed", "narration-only"} <=> mixed.buffer

\* Two clips never sound together at their full level, and a clip is never
\* faded in and out at once.
NeverTwoAtFull ==
    phase = "mixing" =>
        \A t \in 0..plan.duration :
            LET heard == {c \in DOMAIN plan.clips : plan.clips[c].from <= t /\ t < plan.clips[c].to} IN
            /\ \A c \in heard : ~(FadedIn(plan, c, t) /\ FadedOut(plan, c, t))
            /\ \A c, d \in heard : c < d => FadedOut(plan, c, t) /\ FadedIn(plan, d, t)

\* At a hard cut the fades of a slice are ones its gain accepts, however
\* short the slice is.
HardCutsAreAccepted ==
    phase = "mixing" =>
        \A c \in DOMAIN plan.clips :
            (OverlapWindow(plan, c - 1).to = 0 /\ OverlapWindow(plan, c).to = 0) =>
                \A a \in plan.clips[c].from..(plan.clips[c].to - 1) : \A b \in (a + 1)..plan.clips[c].to :
                    ~GainRefused(GainCalls(plan, c, [from |-> a, to |-> b]))

\* The measured windows lie in their clips and never exceed the bound.
MeasuredIsBounded ==
    phase = "planning" =>
        \A k \in DOMAIN sources : \A most \in 1..4 :
            LET ws == AnalysisWindows(sources[k].clips, most) IN
            /\ \A i \in DOMAIN ws : ws[i].from2 >= 2 * sources[k].clips[i].start /\ ws[i].to2 <= 2 * sources[k].clips[i].end
            /\ FoldLeft(LAMBDA n, w : n + w.to2 - w.from2, 0, ws) <= 2 * most
===============================================================================
