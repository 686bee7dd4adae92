------------------------------- MODULE PhotoReel -------------------------------
(***************************************************************************)
(* lib/photo-reel.ts and lib/photo-reel-beats.ts: a reel of photos.  The   *)
(* onsets of the music are found and repeated over the reel, the photos    *)
(* share its time by the template's weights, boundaries near an onset snap *)
(* to it, and a frame draws the slide of its time over the one before.     *)
(*                                                                         *)
(* Time is counted in ticks, strength and opacity in hundredths.  How a    *)
(* photo moves, its filter and the title's typography are not modelled.    *)
(***************************************************************************)
EXTENDS Integers, Sequences, FiniteSets, SequencesExt

CONSTANTS
    Duration, Frame,     \* settings.duration, 1 / PHOTO_REEL_FRAME_RATE
    MinPhotos, MaxPhotos,
    MaxSnap, MinSlide, MinStrength,
    BeatSpacing, Window, \* 0.22 s; windows the baseline looks back on
    TemplateSet,         \* bounds of the model: [transition, length, weights]
    PhotosSet,           \*   sequences of ids
    MusicSet,            \*   [levels, length]: no levels, no analysis
    SubjectSet           \*   [w, h, out, focus, sure]: a photo's width and height, and the frame's

VARIABLES
    photos,              \* the page's list now
    template, music,
    beats,               \* settings.beatCandidates, none before the analysis
    plan,                \* the slides
    drawn,               \* [time, photos, layers] of the last frame, or what it is before one
    laid                 \* a photo that was laid out, and where: at most one

prvars == <<photos, template, music, beats, plan, drawn, laid>>

LOCAL Least(S) == CHOOSE x \in S : \A y \in S : x <= y
LOCAL Most(S) == CHOOSE x \in S : \A y \in S : x >= y
LOCAL Total(s) == FoldLeft(+, 0, s)
Clamp(x, low, high) == IF x > high THEN (IF low > high THEN low ELSE high) ELSE IF x < low THEN low ELSE x

-------------------------------------------------------------------------------
(* Onsets                                                                    *)

Median(s) ==
    LET sorted == SortSeq(s, <)  n == Len(s)
    IN  IF n = 0 THEN 0 ELSE IF n % 2 = 0 THEN (sorted[n \div 2] + sorted[n \div 2 + 1]) \div 2 ELSE sorted[n \div 2 + 1]

\* How much each level rises above those before it.
Rise(levels, i) ==
    LET before == SubSeq(levels, Most({1, i - Window}), i - 1)
    IN  IF i <= 2 THEN 0 ELSE Most({0, levels[i] - Total(before) \div Len(before)})
Novelty(levels) == FoldLeft(LAMBDA risen, level : Append(risen, Rise(levels, Len(risen) + 1)), <<>>, levels)

GlobalThreshold(novelty) ==
    LET risen == SelectSeq(novelty, LAMBDA n : n > 0)  mid == Median(risen)
    IN  mid + (Median([i \in DOMAIN risen |-> Most({risen[i] - mid, mid - risen[i]})]) * 11) \div 5

Peaks(novelty) ==
    LET threshold == GlobalThreshold(novelty)
        IsPeak(i) == /\ novelty[i] > 0 /\ novelty[i] >= threshold
                     /\ 4 * novelty[i] >= 7 * Median(SubSeq(novelty, 1, i - 1))
                     /\ novelty[i] >= novelty[i - 1] /\ novelty[i] > novelty[i + 1]
    IN  SelectSeq([i \in DOMAIN novelty |-> [time |-> i, novelty |-> novelty[i]]],
                  LAMBDA p : p.time \in 3..(Len(novelty) - 1) /\ IsPeak(p.time))

\* Of two onsets too near each other the later one stays only if it is stronger.
Spaced(peaks) ==
    FoldLeft(LAMBDA chosen, p :
                 IF chosen = <<>> \/ p.time - Last(chosen).time >= BeatSpacing THEN Append(chosen, p)
                 ELSE IF p.novelty > Last(chosen).novelty THEN Append(Front(chosen), p) ELSE chosen,
             <<>>, peaks)

\* detectPhotoReelBeatCandidates
Onsets(levels) ==
    LET peaks == Peaks(Novelty(levels))
        strongest == Most({peaks[i].novelty : i \in DOMAIN peaks} \union {1})
    IN  LET chosen == Spaced(peaks)
        IN  [i \in DOMAIN chosen |-> [time |-> chosen[i].time, strength |-> (chosen[i].novelty * 100) \div strongest]]

\* repeatPhotoReelBeatCandidates: once for every time the music starts anew.
Repeated(onsets, length) ==
    LET times == (Duration + length - 1) \div length
        Round(k) == [i \in DOMAIN onsets |-> [onsets[i] EXCEPT !.time = @ + k * length]]
        inside == SelectSeq(onsets, LAMBDA b : b.time \in 1..(length - 1))
    IN  IF length = 0 \/ inside = <<>> THEN <<>>
        ELSE SelectSeq(FoldLeft(LAMBDA s, k : s \o SelectSeq(Round(k - 1), LAMBDA b : b.time - (k - 1) * length \in 1..(length - 1)),
                                <<>>, [k \in 1..times |-> k]),
                       LAMBDA b : b.time < Duration)

-------------------------------------------------------------------------------
(* The plan                                                                  *)

Abs(x) == IF x < 0 THEN -x ELSE x
\* No transition takes more than 28 hundredths of its slide.
Share(length) == (length * 28) \div 100
Capped(transition, length) == Least({transition, Share(length)})

\* createPhotoReelPlanWithMinimum: the last slide takes what is left.
Slides(list, t) ==
    LET n == Len(list)
        Weight(i) == t.weights[((i - 1) % Len(t.weights)) + 1]
        whole == Total([i \in 1..n |-> Weight(i)])
        ends == [i \in 1..n |-> IF i = n THEN Duration
                                ELSE Total([j \in 1..i |-> (Duration * Weight(j)) \div whole])]
        Start(i) == IF i = 1 THEN 0 ELSE ends[i - 1]
    IN  [i \in 1..n |-> [photo |-> list[i], start |-> Start(i), end |-> ends[i],
                         transition |-> IF i = 1 THEN 0 ELSE Capped(t.length, ends[i] - Start(i))]]

\* Mutant: the slide before may become as short as the onset makes it.
InReachAnyhow(beat, original, previous, remaining) ==
    /\ beat.time > previous
    /\ beat.time <= Duration - remaining * MinSlide
    /\ Abs(beat.time - original) <= MaxSnap
InReach(beat, original, previous, remaining) ==
    /\ beat.time >= previous + MinSlide
    /\ beat.time <= Duration - remaining * MinSlide
    /\ Abs(beat.time - original) <= MaxSnap

\* The score of an onset for a boundary, times MaxSnap.
Score(beat, original) == beat.strength * MaxSnap - 28 * Abs(beat.time - original)

\* The boundary after `previous`: the best onset in reach, or where it was.
Snapped(onsets, original, previous, remaining) ==
    LET near == {b \in ToSet(onsets) : b.time \in 1..(Duration - 1) /\ b.strength >= MinStrength
                                      /\ InReach(b, original, previous, remaining)}
        best == {b \in near : \A c \in near : Score(b, original) >= Score(c, original)}
        nearest == {b \in best : \A c \in best : Abs(b.time - original) <= Abs(c.time - original)}
    IN  IF near = {} THEN original ELSE Least({b.time : b \in nearest})

\* Mutant: a slide that became shorter keeps its transition.
KeepTransition(transition, length) == transition
ReCapped(transition, length) == Capped(transition, length)

\* snapPhotoReelPlanToBeats
Snap(slides, onsets) ==
    LET n == Len(slides)
        bounds == FoldLeft(LAMBDA bs, i : Append(bs, Snapped(onsets, slides[i].start, Last(bs), n - i + 1)),
                           <<0>>, [k \in 1..(n - 1) |-> k + 1]) \o <<Duration>>
    IN  [i \in 1..n |-> [slides[i] EXCEPT !.start = bounds[i], !.end = bounds[i + 1],
                             !.transition = IF i = 1 THEN 0 ELSE ReCapped(@, bounds[i + 1] - bounds[i])]]

\* validatePhotoReelAssetsWithMinimum
Valid(list) == Len(list) \in MinPhotos..MaxPhotos /\ IsInjective(list)

-------------------------------------------------------------------------------
(* Frames                                                                    *)

\* buildPhotoReelFrameSchedule
FrameTimes == [k \in 1..((Duration + Frame - 1) \div Frame) |-> (k - 1) * Frame]

SlideAt(slides, time) ==
    LET later == {i \in DOMAIN slides : time < slides[i].end}
    IN  IF time >= Duration \/ later = {} THEN Len(slides) ELSE Least(later)

\* Mutant: the transition is measured against the whole slide.
TransitionOfSlide(slide) == slide.end - slide.start
TransitionLength(slide) == slide.transition

\* getPhotoReelFrameState: the slides a frame shows, and the part of the
\* frame the upper one has of the lower, in hundredths.
Layers(slides, time) ==
    LET k == SlideAt(slides, time)
        local == Clamp(time - slides[k].start, 0, slides[k].end - slides[k].start)
        length == TransitionLength(slides[k])
        done == IF k = 1 \/ length = 0 THEN 100 ELSE Clamp((local * 100) \div length, 0, 100)
    IN  IF k = 1 \/ done = 100 THEN <<[slide |-> k, part |-> 100]>>
        ELSE IF template.transition = "flash" THEN <<[slide |-> IF done < 46 THEN k - 1 ELSE k, part |-> 100]>>
        ELSE <<[slide |-> k - 1, part |-> 100 - done], [slide |-> k, part |-> done]>>

-------------------------------------------------------------------------------
(* Where a photo goes: lengths times the photo's width and height, twice.    *)

CoverScale(s) == Most({s.out.w * s.h, s.out.h * s.w})
ContainScale(s) == Least({s.out.w * s.h, s.out.h * s.w})

\* Mutant: the corrected picture may leave the frame's edge.
UnclampedTo(desired, low) == desired
ClampedTo(desired, low) == Clamp(desired, low, 0)

\* computePhotoReelSubjectAwareCoverRect along one side: the picture is pulled
\* from the centre towards its subject, as far as the subject is sure.
Placed(out, whole, focus, at, sure) ==
    LET low == Least({0, out - whole})
        centre == (out - whole) \div 2
        desired == ClampedTo((out * at) \div 100 - (whole * Clamp(focus, 5, 95)) \div 100, low)
    IN  IF sure <= 2 THEN centre ELSE centre + ((desired - centre) * sure) \div 100

CoverRect(s) ==
    LET unit == s.w * s.h * 2  k == CoverScale(s) * 2
    IN  [x |-> Placed(s.out.w * unit, s.w * k, s.focus.x, 50, s.sure), width |-> s.w * k,
         y |-> Placed(s.out.h * unit, s.h * k, s.focus.y, 44, s.sure), height |-> s.h * k]

\* computePhotoReelImageLayout: a photo of another shape is shown whole over
\* its own blurred picture.
ContainRect(s) ==
    LET unit == s.w * s.h * 2  k == ContainScale(s) * 2
    IN  [x |-> (s.out.w * unit - s.w * k) \div 2, width |-> s.w * k, y |-> (s.out.h * unit - s.h * k) \div 2, height |-> s.h * k]
IsOfShape(s) == 100 * Abs(s.w * s.out.h - s.h * s.out.w) <= 9 * s.h * s.out.w
Foreground(s) == IF IsOfShape(s) THEN CoverRect(s) ELSE ContainRect(s)

-------------------------------------------------------------------------------
NotDrawn == [time |-> 0, photos |-> <<>>, layers |-> <<>>]

PrInit ==
    /\ photos \in PhotosSet /\ template \in TemplateSet /\ music \in MusicSet
    /\ beats = <<>> /\ plan = <<>> /\ drawn = NotDrawn /\ laid = {}

\* analyzePhotoReelAudioFileBeats; music that cannot be decoded has no onsets.
Analyze ==
    /\ beats = <<>> /\ plan = <<>> /\ music.levels # <<>>
    /\ beats' = Repeated(Onsets(music.levels), music.length)
    /\ UNCHANGED <<photos, template, music, plan, drawn, laid>>

\* createPhotoReelPlan
Plan ==
    /\ plan = <<>> /\ Valid(photos)
    /\ plan' = Snap(Slides(photos, template), beats)
    /\ UNCHANGED <<photos, template, music, beats, drawn, laid>>

\* The page's list changes under a plan that was made of it.
Reorder ==
    /\ plan # <<>> /\ photos = [i \in DOMAIN plan |-> plan[i].photo]
    /\ \E i, j \in DOMAIN photos : i < j /\ photos' = [photos EXCEPT ![i] = photos[j], ![j] = photos[i]]
    /\ UNCHANGED <<template, music, beats, plan, drawn, laid>>

\* Mutant: whatever photo has the slide's place is drawn.
InPlaceAnyhow(layer) == TRUE
\* "Photo order changed after the reel plan was created."
InPlace(layer) == photos[layer.slide] = plan[layer.slide].photo

\* drawPhotoReelPlanFrame
Draw(time) ==
    /\ plan # <<>> /\ Len(photos) = Len(plan)
    /\ LET layers == Layers(plan, time)
       IN  /\ \A i \in DOMAIN layers : InPlace(layers[i])
           /\ drawn' = [time |-> time, photos |-> [i \in DOMAIN layers |-> photos[layers[i].slide]], layers |-> layers]
    /\ UNCHANGED <<photos, template, music, beats, plan, laid>>

\* computePhotoReelImageLayout of one photo, whatever the reel is.
Lay(s) ==
    /\ plan = <<>> /\ beats = <<>> /\ music.levels = <<>> /\ laid = {}
    /\ laid' = {[subject |-> s, background |-> CoverRect(s), foreground |-> Foreground(s)]}
    /\ UNCHANGED <<photos, template, music, beats, plan, drawn>>

LayNext == \E s \in SubjectSet : Lay(s)
\* A frame takes nothing from another, so a behaviour draws one.
DrawNext == drawn = NotDrawn /\ \E k \in DOMAIN FrameTimes : Draw(FrameTimes[k])
PrNext == Analyze \/ Plan \/ Reorder \/ DrawNext \/ LayNext

PrSpec == PrInit /\ [][PrNext]_prvars

-------------------------------------------------------------------------------
PrTypeOK ==
    /\ plan # <<>> => Len(plan) \in MinPhotos..MaxPhotos
    /\ \A i \in DOMAIN plan : plan[i].start \in 0..Duration /\ plan[i].end \in 0..Duration
    /\ drawn.time \in 0..Duration /\ Len(drawn.layers) \in 0..2

\* The slides have the reel to themselves, one after the other, each long
\* enough to be seen, however the music pulled at their boundaries.
SlidesShareTheReel ==
    plan # <<>> =>
        /\ plan[1].start = 0 /\ Last(plan).end = Duration
        /\ \A i \in DOMAIN plan : plan[i].end - plan[i].start >= MinSlide
        /\ \A i \in 1..(Len(plan) - 1) : plan[i].end = plan[i + 1].start

\* A boundary is where the weights put it or on an onset near by, and a
\* transition is over when at most 28 hundredths of its slide are.
TransitionsEnd ==
    plan # <<>> =>
        LET planned == Slides([i \in DOMAIN plan |-> plan[i].photo], template)
        IN  \A i \in DOMAIN plan :
              /\ Abs(plan[i].start - planned[i].start) <= MaxSnap
              /\ plan[i].start # planned[i].start => \E b \in ToSet(beats) : b.time = plan[i].start
              /\ 100 * plan[i].transition <= 28 * (plan[i].end - plan[i].start)

\* A frame shows the photo planned for its time, under it at most the one
\* before, and in the later part of a slide that slide alone.
FramesShowTheirSlide ==
    drawn # NotDrawn =>
        LET k == SlideAt(plan, drawn.time)
            local == drawn.time - plan[k].start
        IN  /\ \A i \in DOMAIN drawn.layers : drawn.layers[i].slide \in {k - 1, k} /\ drawn.photos[i] = plan[drawn.layers[i].slide].photo
            /\ 100 * local >= 28 * (plan[k].end - plan[k].start) => drawn.layers = <<[slide |-> k, part |-> 100]>>
            /\ Total([i \in DOMAIN drawn.layers |-> drawn.layers[i].part]) = 100

\* The background leaves no edge of the frame uncovered wherever the subject
\* of the photo is, and a photo of another shape is shown whole.
PicturesFill ==
    \A l \in laid :
        LET unit == l.subject.w * l.subject.h * 2  r == l.background  f == l.foreground
            W == l.subject.out.w * unit  H == l.subject.out.h * unit
        IN  /\ r.x <= 0 /\ r.y <= 0 /\ r.x + r.width >= W /\ r.y + r.height >= H
            /\ ~IsOfShape(l.subject) => f.x >= 0 /\ f.y >= 0 /\ f.x + f.width <= W /\ f.y + f.height <= H
===============================================================================
