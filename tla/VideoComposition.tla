---------------------------- MODULE VideoComposition ----------------------------
(***************************************************************************)
(* lib/video-composition.ts: how clips of several videos become one        *)
(* timeline, and which frame of which clip each instant of it shows.       *)
(*                                                                         *)
(* Times are whole ticks; what the code halves (the window of a fade, the  *)
(* middle of an overlap) is kept doubled, and a scaled transition is       *)
(* rounded down.  The four blends and the three fades differ in their      *)
(* drawing only, so a transition is a cut, a blend or a fade.              *)
(***************************************************************************)
EXTENDS Integers, Sequences, SequencesExt, FiniteSets

CONSTANTS
    MaxSources, MaxClips, MaxAggregate, MaxOutput, MaxTransition,
    MaxBytes,
    Tolerance,    \* VIDEO_COMPOSITION_SOURCE_END_TOLERANCE_SECONDS
    Frame,        \* ticks of a frame
    SourceSet,    \* bound of the model: descriptors of a source
    OverrideSet   \* bound of the model: transitions asked for a boundary

VARIABLES
    sources,    \* VideoCompositionSourceDescriptor[]
    transition, \* the one of all boundaries
    overrides,  \* boundaryTransitions
    composed,   \* "asked", "refused", "planned"
    plan        \* VideoCompositionPlan

vcvars == <<sources, transition, overrides, composed, plan>>

Least(a, b) == IF a < b THEN a ELSE b
Greatest(a, b) == IF a > b THEN a ELSE b

\* normalizeVideoCompositionTransition
Normal(t) == IF t.type = "cut" THEN [t EXCEPT !.duration = 0] ELSE t
Usable(t) == t.type \in {"cut", "blend", "fade"} /\ t.duration \in 0..MaxTransition

\* transitionWindowSeconds, doubled: what a transition occupies of each clip.
Window2(type, duration) ==
    CASE type = "cut" -> 0 [] type = "blend" -> 2 * duration [] type = "fade" -> duration

-------------------------------------------------------------------------------
(* createVideoCompositionPlan: what is refused                               *)

\* Metadata may round the end of a video up: the last clip may overshoot it.
End(source, i) ==
    LET clip == source.clips[i] IN
    IF i = Len(source.clips) /\ clip.end \in (source.duration + 1)..(source.duration + Tolerance)
      THEN source.duration ELSE clip.end

ClipsSound(source) ==
    /\ Len(source.clips) \in 1..MaxClips
    /\ \A i \in DOMAIN source.clips :
          /\ source.clips[i].start >= 0
          /\ End(source, i) > source.clips[i].start /\ End(source, i) <= source.duration
          /\ i > 1 => source.clips[i].start >= source.clips[i - 1].end

TotalBytes == FoldLeft(LAMBDA n, s : n + s.bytes, 0, sources)
TotalSeconds == FoldLeft(LAMBDA n, s : n + s.duration, 0, sources)

SourcesSound ==
    /\ Len(sources) \in 1..MaxSources
    /\ \A i, j \in DOMAIN sources : i # j => sources[i].id # sources[j].id
    /\ \A i \in DOMAIN sources : sources[i].duration > 0 /\ ClipsSound(sources[i])
    /\ TotalBytes <= MaxBytes
    /\ TotalSeconds <= MaxAggregate

\* The clips of all sources in presentation order.
Clips ==
    FlattenSeq([k \in DOMAIN sources |->
        [i \in DOMAIN sources[k].clips |->
            [source |-> k, clip |-> i, start |-> sources[k].clips[i].start, end |-> End(sources[k], i),
             duration |-> End(sources[k], i) - sources[k].clips[i].start]]])

TransitionsSound(clips) ==
    /\ Usable(transition)
    /\ Len(overrides) <= Len(clips) - 1
    /\ \A i \in DOMAIN overrides : overrides[i].type = "none" \/ Usable(overrides[i])

\* requestedBoundaries: never longer than either clip.
Requested(clips) ==
    [i \in 1..(Len(clips) - 1) |->
        LET asked == IF i > Len(overrides) \/ overrides[i].type = "none" THEN Normal(transition) ELSE Normal(overrides[i])
        IN [type |-> asked.type, duration |-> Least(asked.duration, Least(clips[i].duration, clips[i + 1].duration))]]

Incoming2(bs, i) == IF i > 1 THEN Window2(bs[i - 1].type, bs[i - 1].duration) ELSE 0
Outgoing2(bs, i) == IF i <= Len(bs) THEN Window2(bs[i].type, bs[i].duration) ELSE 0

\* Mutant: each boundary is clamped on its own.
ShrinkNone(clips, bs, i) == bs

\* The windows at both ends of a clip share it: both shrink by one factor.
Shrink(clips, bs, i) ==
    LET occupied == Incoming2(bs, i) + Outgoing2(bs, i) IN
    IF occupied <= 2 * clips[i].duration THEN bs
    ELSE [j \in DOMAIN bs |->
             IF j \in {i - 1, i} THEN [bs[j] EXCEPT !.duration = (@ * 2 * clips[i].duration) \div occupied] ELSE bs[j]]

Pass(clips, bs) == FoldLeft(LAMBDA b, i : Shrink(clips, b, i), bs, [i \in DOMAIN clips |-> i])
Allocated(clips) == FoldLeft(LAMBDA b, n : Pass(clips, b), Requested(clips), [n \in DOMAIN clips |-> n])

\* Blends overlap their clips; fades live on either side of a hard boundary.
Timeline(clips, bs) ==
    FoldLeft(LAMBDA done, i :
        LET overlap == IF i > 1 /\ bs[i - 1].type = "blend" THEN bs[i - 1].duration ELSE 0
            from == IF done = <<>> THEN 0 ELSE Last(done).to - overlap
        IN Append(done, [source |-> clips[i].source, clip |-> clips[i].clip, start |-> clips[i].start,
                         end |-> clips[i].end, duration |-> clips[i].duration, from |-> from,
                         to |-> from + clips[i].duration]), <<>>, [i \in DOMAIN clips |-> i])

NoPlan == [clips |-> <<>>, duration |-> 0, boundaries |-> <<>>]

Planned(clips) ==
    LET bs == Allocated(clips)
        timeline == Timeline(clips, bs)
    IN [clips |-> timeline, duration |-> Last(timeline).to,
        boundaries |-> [i \in DOMAIN bs |-> [type |-> bs[i].type, duration |-> bs[i].duration,
                                             at |-> timeline[i + 1].from]]]

-------------------------------------------------------------------------------
(* buildVideoCompositionFrameSchedule                                        *)

ClipAt(p, time) ==
    LET begun == {i \in DOMAIN p.clips : i = 1 \/ p.clips[i].from <= time}
    IN CHOOSE i \in begun : \A j \in begun : i >= j

\* The clip's own clock, which stops at its end.
SourceTime(c, time) == Least(c.end, c.start + Greatest(0, time - c.from))

\* transitionForFrame: progress, doubled, of the whole, doubled.
NoTransition == [phase |-> "none", from |-> 0, sourceTime |-> 0, progress2 |-> 0, whole2 |-> 0]

TransitionForFrame(p, i, time, length) ==
    LET c == p.clips[i]
        incoming == IF i > 1 THEN p.boundaries[i - 1] ELSE [type |-> "cut", duration |-> 0, at |-> 0]
        outgoing == IF i < Len(p.clips) THEN p.boundaries[i] ELSE [type |-> "cut", duration |-> 0, at |-> 0]
        local == time - c.from
    IN
    IF incoming.type = "blend" /\ local < incoming.duration
      THEN [phase |-> "blend", from |-> i - 1, sourceTime |-> SourceTime(p.clips[i - 1], time),
            progress2 |-> Least(2 * (local + length), 2 * incoming.duration), whole2 |-> 2 * incoming.duration]
    ELSE IF outgoing.type = "fade" /\ outgoing.duration > 0 /\ 2 * (time + length) > 2 * c.to - outgoing.duration
      THEN [phase |-> "fade-out", from |-> i, sourceTime |-> SourceTime(c, time),
            progress2 |-> Least(2 * (time + length - c.to) + outgoing.duration, outgoing.duration), whole2 |-> outgoing.duration]
    ELSE IF incoming.type = "fade" /\ 2 * local < incoming.duration
      THEN [phase |-> "fade-in", from |-> i - 1, sourceTime |-> p.clips[i - 1].end,
            progress2 |-> Least(2 * (local + length), incoming.duration), whole2 |-> incoming.duration]
    ELSE NoTransition

Schedule(p) ==
    [n \in 1..Greatest(1, (p.duration + Frame - 1) \div Frame) |->
        LET time == (n - 1) * Frame
            i == ClipAt(p, time)
            length == Least(Frame, p.duration - time)
        IN [at |-> time, length |-> length, clip |-> i, sourceTime |-> SourceTime(p.clips[i], time),
            transition |-> TransitionForFrame(p, i, time, length)]]

-------------------------------------------------------------------------------
(* getVideoCompositionTransitionVisual, in thousandths, at a progress in     *)
(* tenths: the smoothstep of p/10 is 2 p^2 (15 - p) thousandths.             *)
Eased(p) == 2 * p * p * (15 - p)

Visual(type, phase, p) ==
    LET base == [incomingOpacity |-> 1000, outgoingOpacity |-> 1000, incomingScale |-> 1000, outgoingScale |-> 1000,
                 incomingOffset |-> 0, outgoingOffset |-> 0, reveal |-> 1000, overlay |-> 0]
        e == Eased(p)
        peak == IF type = "flash" THEN 820 ELSE 1000
    IN
    CASE type = "crossfade" -> [base EXCEPT !.incomingOpacity = e]
      [] type = "wipe-left" -> [base EXCEPT !.reveal = e]
      [] type = "slide-left" -> [base EXCEPT !.incomingOffset = 1000 - e, !.outgoingOffset = (-18 * e) \div 100]
      [] type = "zoom-dissolve" -> [base EXCEPT !.incomingOpacity = e, !.incomingScale = 1055 - (55 * e) \div 1000,
                                                !.outgoingOpacity = 1000 - (28 * e) \div 100,
                                                !.outgoingScale = 1000 + (35 * e) \div 1000]
      [] type \in {"fade-black", "fade-white", "flash"} ->
            [base EXCEPT !.overlay = (peak * (IF phase = "fade-out" THEN e ELSE 1000 - e)) \div 1000]

Blends == {"crossfade", "wipe-left", "slide-left", "zoom-dissolve"}
Fades == {"fade-black", "fade-white", "flash"}

-------------------------------------------------------------------------------
Requests == UNION {[1..n -> SourceSet] : n \in 1..(MaxSources + 1)}

\* Sources are named apart here: ids only matter by being distinct.
Named(ss) == [k \in DOMAIN ss |-> [id |-> k, bytes |-> ss[k].bytes, duration |-> ss[k].duration, clips |-> ss[k].clips]]

Init ==
    /\ \E ss \in Requests : sources = Named(ss)
    /\ transition \in {o \in OverrideSet : o.type # "none"}
    /\ \E n \in 0..2 : overrides \in [1..n -> OverrideSet]
    /\ composed = "asked" /\ plan = NoPlan

\* createVideoCompositionPlan: a plan, or a RangeError.
Plan ==
    /\ composed = "asked"
    /\ LET accepted == SourcesSound /\ TransitionsSound(Clips)
           made == Planned(Clips)
       IN IF accepted /\ made.duration <= MaxOutput
            THEN composed' = "planned" /\ plan' = made
            ELSE composed' = "refused" /\ UNCHANGED plan
    /\ UNCHANGED <<sources, transition, overrides>>

Next == Plan
Spec == Init /\ [][Next]_vcvars

-------------------------------------------------------------------------------
CTypeOK ==
    /\ composed \in {"asked", "refused", "planned"}
    /\ \A i \in DOMAIN plan.boundaries : plan.boundaries[i].duration \in 0..MaxTransition
    /\ \A i \in DOMAIN plan.clips : plan.clips[i].duration > 0
    /\ \A i \in DOMAIN plan.clips : plan.clips[i].end <= sources[plan.clips[i].source].duration

\* "The planner guarantees their sum never exceeds the clip duration": so a
\* frame never needs more than two clips.
WindowsFit ==
    /\ \A i \in DOMAIN plan.clips :
          Incoming2(plan.boundaries, i) + Outgoing2(plan.boundaries, i) <= 2 * plan.clips[i].duration
    /\ \A i \in DOMAIN plan.clips, j \in DOMAIN plan.clips :
          (i + 2 <= j) => plan.clips[i].to <= plan.clips[j].from

\* The frames cover the plan; each shows an instant of its clip, a clip only
\* moves forward, and the two of a blend are those that cover the instant.
FramesAreSound ==
    composed = "planned" =>
        LET frames == Schedule(plan) IN
        /\ Last(frames).at + Last(frames).length = plan.duration
        /\ \A n \in DOMAIN frames :
              LET f == frames[n]
                  c == plan.clips[f.clip]
                  t == f.transition
              IN
              /\ f.length > 0 /\ c.from <= f.at /\ f.at < c.to
              /\ c.start <= f.sourceTime /\ f.sourceTime <= c.end
              /\ (n > 1) => \/ frames[n - 1].clip < f.clip
                            \/ frames[n - 1].clip = f.clip /\ frames[n - 1].sourceTime < f.sourceTime
              /\ t.phase # "none" => t.progress2 \in 1..t.whole2
              /\ t.phase = "blend" =>
                    /\ f.at < plan.clips[t.from].to
                    /\ \A k \in DOMAIN plan.clips :
                          (plan.clips[k].from <= f.at /\ f.at < plan.clips[k].to) => k \in {f.clip, t.from}

\* A transition joins the frames around it: it begins on the outgoing clip
\* alone and ends on the incoming one, a fade under a full cover between.
VisualsJoin ==
    /\ \A type \in Blends :
          LET begins == Visual(type, type, 0)
              ends == Visual(type, type, 10)
          IN
          /\ begins.incomingOpacity = 0 \/ begins.reveal = 0 \/ begins.incomingOffset = 1000
          /\ begins.outgoingOpacity = 1000 /\ begins.outgoingScale = 1000 /\ begins.outgoingOffset = 0
          /\ ends.incomingOpacity = 1000 /\ ends.reveal = 1000 /\ ends.incomingOffset = 0 /\ ends.incomingScale = 1000
    /\ \A type \in Fades :
          /\ Visual(type, "fade-out", 0).overlay = 0 /\ Visual(type, "fade-in", 10).overlay = 0
          /\ Visual(type, "fade-out", 10).overlay = Visual(type, "fade-in", 0).overlay
===============================================================================
