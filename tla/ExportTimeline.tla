----------------------------- MODULE ExportTimeline -----------------------------
(***************************************************************************)
(* lib/portable-video-export.ts, the clock of an export: the kept ranges,  *)
(* the frame each instant shows, where the decoded audio is placed and how *)
(* it is faded over a cut, and how the narration ducks the original.       *)
(*                                                                         *)
(* Times are ticks, even in the inputs (a fade takes at most half a        *)
(* slice).  A gain is "base" or "ducked", a level of sound a small number. *)
(***************************************************************************)
EXTENDS Integers, Sequences, SequencesExt, FiniteSets

CONSTANTS
    Frame,       \* ticks of a frame
    Crossfade,   \* PORTABLE_VIDEO_CROSSFADE_SECONDS
    CutFade,     \* PORTABLE_AUDIO_CUT_FADE_SECONDS
    Attack, Release,      \* of the ducking
    PadBefore, PadAfter,  \* of a run of speech
    Level,       \* ticks of a window of levels
    Threshold,   \* the level that is speech
    RangesSet, BuffersSet, LevelsSet, PlaySet  \* bounds of the model

VARIABLES
    asked,    \* what is cut out and of what: [ranges, length, buffers]
    speech,   \* the narration: its levels, and what is played of it
    exported  \* what the export made of them, NoExport before

etvars == <<asked, speech, exported>>

Smaller(a, b) == IF a < b THEN a ELSE b
Larger(a, b) == IF a > b THEN a ELSE b
Within(t, low, high) == Larger(low, Smaller(high, t))
EarlierRange(a, b) == a.start < b.start \/ (a.start = b.start /\ a.end < b.end)

\* Ranges in order, those within `gap` of each other joined.
Joined(ranges, gap) ==
    FoldLeft(LAMBDA done, r :
        IF done # <<>> /\ r.start <= Last(done).end + gap
          THEN Front(done) \o <<[start |-> Last(done).start, end |-> Larger(Last(done).end, r.end)]>>
          ELSE Append(done, r), <<>>, ranges)

-------------------------------------------------------------------------------
(* The ranges that are kept                                                  *)

\* normalizePortableVideoRanges
Normalized(ranges, length) ==
    LET clamped == {[start |-> Within(ranges[i].start, 0, length), end |-> Within(ranges[i].end, 0, length)] : i \in DOMAIN ranges}
    IN Joined(SetToSortSeq({r \in clamped : r.end > r.start}, EarlierRange), 0)

\* getPortableEditedDuration
Edited(ranges) == FoldLeft(LAMBDA n, r : n + r.end - r.start, 0, ranges)
Before(ranges, i) == Edited(SubSeq(ranges, 1, i - 1))

\* The range an instant of the edited clock falls in.
RangeAt(ranges, t) ==
    CHOOSE i \in DOMAIN ranges :
        /\ i = Len(ranges) \/ t < Before(ranges, i + 1)
        /\ \A j \in 1..(i - 1) : t >= Before(ranges, j + 1)

\* mapPortableEditedTimeToSourceTime
SourceAt(ranges, t) ==
    LET i == RangeAt(ranges, t) IN Smaller(ranges[i].end, ranges[i].start + t - Before(ranges, i))

\* buildPortableFrameSchedule: over a cut the last frame before it fades out.
NoBlend == -1
FrameSchedule(ranges) ==
    LET total == Edited(ranges) IN
    [n \in 1..Larger(1, (total + Frame - 1) \div Frame) |->
        LET t == (n - 1) * Frame
            i == RangeAt(ranges, t)
            within == t - Before(ranges, i)
            previous == ranges[i - 1]
            fade == IF i = 1 THEN 0
                    ELSE Smaller(Crossfade, Smaller(previous.end - previous.start, ranges[i].end - ranges[i].start))
        IN [at |-> t, sourceTime |-> SourceAt(ranges, t), length |-> Smaller(Frame, total - t),
            blendFrom |-> IF within < fade /\ within + Frame < fade
                            THEN Larger(previous.start, previous.end - Frame \div 2) ELSE NoBlend]]

-------------------------------------------------------------------------------
(* Where the decoded audio goes                                              *)

\* getPortableAudioSlicePlacement, of a buffer in a range
Slice(range, from, buffer) ==
    LET start == Larger(range.start, buffer.at)
        end == Smaller(range.end, buffer.at + buffer.length)
    IN [when |-> from + start - range.start, offset |-> start - buffer.at, duration |-> end - start,
        buffer |-> buffer, fadeIn |-> 0, fadeOut |-> 0]

\* collectDecodedOriginalAudio: the buffers of each range that has any;
\* buildDecodedFileAudioSchedule: the whole file as its only buffer.
SlicesOf(ranges, i, buffers) ==
    SelectSeq([k \in DOMAIN buffers |-> Slice(ranges[i], Before(ranges, i), buffers[k])], LAMBDA s : s.duration > 0)
Groups(ranges, buffers) ==
    SelectSeq([i \in DOMAIN ranges |-> SlicesOf(ranges, i, buffers)], LAMBDA g : g # <<>>)

\* Mutant: two slices fade into each other whatever lies between them.
FadeAcrossAnything(out, in) ==
    LET tail == Larger(0, out.buffer.length - out.offset - out.duration)
    IN Smaller(Smaller(CutFade, tail), Smaller(out.duration \div 2, in.duration \div 2))

\* buildPortableAudioCrossfadePlan: 0 for none.
FadeOver(out, in) ==
    LET tail == Larger(0, out.buffer.length - out.offset - out.duration)
    IN IF out.when + out.duration # in.when THEN 0
       ELSE Smaller(Smaller(CutFade, tail), Smaller(out.duration \div 2, in.duration \div 2))

\* scheduleAudioBuffer: a slice that fades at both ends has half for each.
OwnFade(s, both) == Smaller(CutFade, IF both THEN s.duration \div 2 ELSE s.duration)

\* applyPortableAudioCrossfades: only the tail of the outgoing slice grows,
\* so nothing moves; where there is no tail both sides fade on their own.
Crossfaded(groups) ==
    LET Cut(k) == IF k \in 1..(Len(groups) - 1) THEN FadeOver(Last(groups[k]), Head(groups[k + 1])) ELSE 0
    IN [k \in DOMAIN groups |->
          [j \in DOMAIN groups[k] |->
              LET s == groups[k][j]
                  both == Len(groups[k]) = 1
                  longer == [s EXCEPT !.duration = @ + IF j = Len(groups[k]) THEN Cut(k) ELSE 0]
              IN [longer EXCEPT
                    !.fadeIn = IF j # 1 THEN 0 ELSE IF Cut(k - 1) > 0 THEN Cut(k - 1) ELSE OwnFade(longer, both),
                    !.fadeOut = IF j # Len(groups[k]) THEN 0 ELSE IF Cut(k) > 0 THEN Cut(k) ELSE OwnFade(longer, both)]]]

-------------------------------------------------------------------------------
(* The narration and what it ducks                                           *)

\* detectPortableNarrationActivity
Activity(levels) ==
    LET length == Len(levels) * Level
        loud == {i \in DOMAIN levels : levels[i] >= Threshold}
        starts == {i \in loud : (i - 1) \notin loud}
        runs == {[start |-> Larger(0, (i - 1) * Level - PadBefore),
                  end |-> Smaller(length, (CHOOSE j \in loud : j >= i /\ (j + 1) \notin loud /\ i..j \subseteq loud) * Level + PadAfter)]
                 : i \in starts}
    IN Joined(SetToSortSeq(runs, EarlierRange), Attack + Release)

\* remapPortableNarrationActivity: of the part that is played, at its rate.
Remapped(activity, play) ==
    LET clipped(r) == [start |-> Larger(play.offset, r.start), end |-> Smaller(play.offset + play.length * play.rate, r.end)]
        heard == {i \in DOMAIN activity : clipped(activity[i]).end > clipped(activity[i]).start}
        moved == {[start |-> Larger(0, (clipped(activity[i]).start - play.offset) \div play.rate),
                   end |-> Smaller(play.length, (clipped(activity[i]).end - play.offset) \div play.rate)] : i \in heard}
    IN Joined(SetToSortSeq(moved, EarlierRange), 0)

Point(t, g) == [time |-> t, gain |-> g]

\* Mutant: the release is marked even where there is nothing to release into.
DuckPointsAlways(r, length) ==
    <<Point(Larger(0, r.start - Attack), "base"), Point(r.start, "ducked"), Point(r.end, "ducked"),
      Point(Smaller(length, r.end + Release), "base")>>

\* buildPortableDuckingEnvelope: the points of one run of speech.
DuckPoints(r, length) ==
    <<Point(Larger(0, r.start - Attack), "base"), Point(r.start, "ducked"), Point(r.end, "ducked")>>
    \o IF Smaller(length, r.end + Release) > r.end THEN <<Point(Smaller(length, r.end + Release), "base")>> ELSE <<>>

\* Of two points at one instant the later written stands.
Coalesced(points) ==
    FoldLeft(LAMBDA done, p : IF done # <<>> /\ Last(done).time = p.time THEN Append(Front(done), p) ELSE Append(done, p),
             <<>>, points)

Envelope(activity, length) ==
    LET inside == {[start |-> Within(activity[i].start, 0, length), end |-> Within(activity[i].end, 0, length)] : i \in DOMAIN activity}
        runs == Joined(SetToSortSeq({r \in inside : r.end > r.start}, EarlierRange), Attack + Release)
    IN IF runs = <<>> THEN <<Point(0, "base"), Point(length, "base")>>
       ELSE Coalesced(<<Point(0, "base")>> \o FlattenSeq([i \in DOMAIN runs |-> DuckPoints(runs[i], length)])
                      \o IF Last(runs).end < length THEN <<Point(length, "base")>> ELSE <<>>)

-------------------------------------------------------------------------------
NoExport == [ranges |-> <<>>, frames |-> <<>>, audio |-> <<>>, envelope |-> <<>>]

EtInit ==
    /\ asked \in [ranges : RangesSet, length : {12}, buffers : BuffersSet]
    /\ speech \in [levels : LevelsSet, play : PlaySet]
    /\ exported = NoExport

\* exportPortableVideoMp4: refused without a range, else its schedules.
Arrange ==
    LET ranges == Normalized(asked.ranges, asked.length) IN
    /\ exported = NoExport /\ ranges # <<>>
    /\ exported' = [ranges |-> ranges, frames |-> FrameSchedule(ranges),
                    audio |-> Crossfaded(Groups(ranges, asked.buffers)),
                    envelope |-> Envelope(Remapped(Activity(speech.levels), speech.play), speech.play.length)]
    /\ UNCHANGED <<asked, speech>>

EtNext == Arrange
EtSpec == EtInit /\ [][EtNext]_etvars

-------------------------------------------------------------------------------
EtTypeOK ==
    /\ exported.frames # <<>> => exported.ranges # <<>>
    /\ \A i \in DOMAIN exported.envelope : exported.envelope[i].gain \in {"base", "ducked"}

Asks(t) == \E i \in DOMAIN asked.ranges : asked.ranges[i].start <= t /\ t < asked.ranges[i].end

\* The frames are those of the ranges asked for, each once and in order, and
\* what a cut fades from is the end of the range before it.
FramesAreTheKept ==
    LET fs == exported.frames
        rs == exported.ranges
    IN
    /\ fs # <<>> => Last(fs).at + Last(fs).length = Cardinality({t \in 0..(asked.length - 1) : Asks(t)})
    /\ \A n \in DOMAIN fs :
          /\ Asks(fs[n].sourceTime) /\ fs[n].length > 0
          /\ n > 1 => fs[n].sourceTime > fs[n - 1].sourceTime
          /\ fs[n].at = Cardinality({t \in 0..(fs[n].sourceTime - 1) : t < asked.length /\ Asks(t)})
          /\ fs[n].blendFrom # NoBlend =>
                /\ Asks(fs[n].blendFrom) /\ fs[n].blendFrom < fs[n].sourceTime
                /\ \E t \in fs[n].blendFrom..fs[n].sourceTime : ~Asks(t)

\* The audio stands where its picture does; only what fades out over a cut
\* is heard beyond it, inside its buffer and under the fade of what comes.
AudioIsInSync ==
    \A k \in DOMAIN exported.audio : \A j \in DOMAIN exported.audio[k] :
        LET s == exported.audio[k][j]
            kept == s.duration - (IF j = Len(exported.audio[k]) /\ k < Len(exported.audio)
                                    THEN Larger(0, s.when + s.duration - Head(exported.audio[k + 1]).when) ELSE 0)
        IN
        /\ s.offset >= 0 /\ s.offset + s.duration <= s.buffer.length
        /\ s.fadeIn + s.fadeOut <= s.duration
        /\ \A t \in 0..(kept - 1) : SourceAt(exported.ranges, s.when + t) = s.buffer.at + s.offset + t
        /\ kept < s.duration =>
              LET next == Head(exported.audio[k + 1]) IN
              /\ s.fadeOut = s.duration - kept /\ next.fadeIn = s.fadeOut

\* The original is down through every instant of speech that is played, and
\* the envelope is one a gain can be ramped along.
SpeechIsHeard ==
    LET e == exported.envelope
        Gain(i) == e[i].gain
    IN
    /\ e # <<>> => Head(e).time = 0
    /\ \A i \in 2..Len(e) : e[i - 1].time < e[i].time
    /\ e # <<>> =>
        \A t \in 0..(speech.play.length - 1) :
            LET window == ((speech.play.offset + t * speech.play.rate) \div Level) + 1 IN
            (window \in DOMAIN speech.levels /\ speech.levels[window] >= Threshold) =>
                \E i \in 1..Len(e) :
                    /\ e[i].time <= t /\ e[i].gain = "ducked"
                    /\ (i < Len(e)) => (e[i + 1].gain = "ducked" \/ e[i].time = t)
                    /\ (i < Len(e)) => (t < e[i + 1].time)
===============================================================================
