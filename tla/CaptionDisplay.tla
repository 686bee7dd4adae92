----------------------------- MODULE CaptionDisplay -----------------------------
(***************************************************************************)
(* lib/caption-readability.ts and lib/narration-alignment.ts: when each    *)
(* caption is shown.  The edit ranges of captions stay what they are; what *)
(* is fitted is the window a caption is visible in, inside every kept      *)
(* range of a spoken video, or on the voiced parts of a narration.         *)
(*                                                                         *)
(* Times are ticks, characters are counts, shares and halves round down.   *)
(* A caption is [start, end, chars]; chars = 0 has nothing to show.        *)
(***************************************************************************)
EXTENDS Integers, Sequences, SequencesExt, FiniteSets

CONSTANTS
    MinDisplay,     \* CAPTION_MIN_DISPLAY_SECONDS
    TicksPerChar,   \* 1 / CAPTION_MAX_JAPANESE_CHARS_PER_SECOND
    Padding,        \* edgePaddingSeconds
    SpeechGap,      \* mergeGapSeconds
    CaptionSet,     \* bound of the model: timelines of captions
    RangeSet,       \* bound of the model: kept ranges of the source
    ActivitySet     \* bound of the model: voiced parts of a narration

VARIABLES
    timeline,  \* the captions
    kept,      \* ranges of the source that are kept
    activity,  \* where the narration is voiced
    way,       \* "none", "ranges" or "narration": how windows were fitted
    windows    \* caption -> what is shown of it, or none

cdvars == <<timeline, kept, activity, way, windows>>

Fewer(a, b) == IF a < b THEN a ELSE b
Larger(a, b) == IF a > b THEN a ELSE b
Width(r) == r.end - r.start
Piece(a, b) == [start |-> a, end |-> b]
Upto(ns, k) == LET upto[j \in 0..k] == IF j = 0 THEN 0 ELSE upto[j - 1] + ns[j] IN upto[k]
SumOf(ns) == Upto(ns, Len(ns))

\* getRecommendedCaptionDisplayDuration
Recommended(chars) == IF chars = 0 THEN 0 ELSE Larger(MinDisplay, chars * TicksPerChar)

-------------------------------------------------------------------------------
(* fitCaptionDisplayTimeline                                                 *)

\* What each caption gets: what it wants; if that is too much, the minimum and
\* a share of the rest by what is missing; if even that is, a plain share.
Shared(wanted, total, least, leastTotal, available) ==
    [i \in DOMAIN wanted |->
        IF leastTotal <= available
          THEN least[i] + ((available - leastTotal) * (wanted[i] - least[i])) \div (total - leastTotal)
          ELSE (available * wanted[i]) \div total]

Allocation(wanted, total, available) ==
    LET least == [i \in DOMAIN wanted |-> Fewer(wanted[i], MinDisplay)] IN
    IF total <= available THEN wanted ELSE Shared(wanted, total, least, SumOf(least), available)

\* Mutant: a caption stays where it was spoken.
CentredOnly(centre, latest) == centre

\* As near its words as the captions after it allow.
Preferred(centre, latest) == Fewer(centre, latest)

\* Where a caption of this length begins: after the one before it, and early
\* enough for those after it, which take the rest.
Start(anchor, length, rest, earliest, to) ==
    Larger(earliest, Preferred((anchor.start + anchor.end - length) \div 2, to - rest))

Placed(anchors, given, total, from, to) ==
    FoldLeft(LAMBDA acc, i :
        LET start == Start(anchors[i], given[i], total - Upto(given, i - 1),
                           IF acc = <<>> THEN from ELSE Last(acc).end, to)
        IN Append(acc, Piece(start, Fewer(to, start + given[i]))), <<>>, [i \in DOMAIN anchors |-> i])

\* Windows of shown captions, which are in order, between from and to.
Fit(anchors, chars, from, to) ==
    LET wanted == [i \in DOMAIN anchors |-> Larger(Width(anchors[i]), Recommended(chars[i]))]
        given == Allocation(wanted, SumOf(wanted), to - from)
    IN Placed(anchors, given, SumOf(given), from, to)

\* Those with something to show, by their time.
ByTime(is, at) ==
    SortSeq(is, LAMBDA i, j : \/ at[i].start < at[j].start
                              \/ at[i].start = at[j].start /\ at[i].end < at[j].end
                              \/ at[i].start = at[j].start /\ at[i].end = at[j].end /\ i < j)

NoWindow == Piece(-1, -1)

\* The windows of these captions, which are where at says, by caption.
Shown(order, at, from, to) ==
    LET fitted == Fit([n \in DOMAIN order |-> at[order[n]]], [n \in DOMAIN order |-> timeline[order[n]].chars], from, to)
    IN [i \in {order[n] : n \in DOMAIN order} |-> fitted[CHOOSE n \in DOMAIN order : order[n] = i]]

-------------------------------------------------------------------------------
(* fitCaptionDisplayTimelineWithinEditRanges                                 *)

Overlap(c, r) == Larger(0, Fewer(c.end, r.end) - Larger(c.start, r.start))

\* The range a caption is mostly in, the first of equals; 0 when in none.
RangeOf(c) ==
    LET best == {k \in DOMAIN kept : Overlap(c, kept[k]) > 0 /\ \A j \in DOMAIN kept : Overlap(c, kept[j]) <= Overlap(c, kept[k])}
    IN IF best = {} THEN 0 ELSE CHOOSE k \in best : \A j \in best : k <= j

FitInRange(k) ==
    LET inside == SelectSeq([i \in DOMAIN timeline |-> i],
                            LAMBDA i : timeline[i].chars > 0 /\ RangeOf(timeline[i]) = k)
        clamped == [i \in DOMAIN timeline |-> Piece(Larger(kept[k].start, timeline[i].start), Fewer(kept[k].end, timeline[i].end))]
    IN Shown(ByTime(inside, clamped), clamped, kept[k].start, kept[k].end)

WithinRanges ==
    LET fits == [k \in DOMAIN kept |-> FitInRange(k)] IN
    [i \in DOMAIN timeline |->
        IF timeline[i].chars > 0 /\ RangeOf(timeline[i]) # 0 THEN fits[RangeOf(timeline[i])][i] ELSE NoWindow]

-------------------------------------------------------------------------------
(* alignNarrationCaptionsToSpeechActivity                                    *)

\* normalizeSpeechActivityRanges
Voiced(ranges, limit) ==
    LET clipped == SelectSeq([k \in DOMAIN ranges |-> Piece(Larger(0, ranges[k].start), Fewer(limit, ranges[k].end))],
                             LAMBDA r : Width(r) > 0)
        sorted == SortSeq(clipped, LAMBDA a, b : a.start < b.start \/ (a.start = b.start /\ a.end < b.end))
    IN FoldLeft(LAMBDA done, r :
           IF done # <<>> /\ r.start <= Last(done).end + SpeechGap
             THEN [done EXCEPT ![Len(done)].end = Larger(@, r.end)]
             ELSE Append(done, r), <<>>, sorted)

\* speechOffsetToClockTime: the clock after so much of speech.
ClockOf(voiced, offset, boundary) ==
    LET before(k) == SumOf([j \in 1..(k - 1) |-> Width(voiced[j])])
        holds(k) == \/ offset - before(k) < Width(voiced[k])
                    \/ boundary = "end" /\ offset - before(k) <= Width(voiced[k])
                    \/ k = Len(voiced)
        k == CHOOSE k \in DOMAIN voiced : holds(k) /\ \A j \in 1..(k - 1) : ~holds(j)
    IN Fewer(voiced[k].end, voiced[k].start + offset - before(k))

\* Captions take the voiced parts one by one if there are as many, or share
\* the speech by their lengths.
Mapped(chars, voiced) ==
    LET speech == SumOf([k \in DOMAIN voiced |-> Width(voiced[k])])
        at(i) == (speech * Upto(chars, i)) \div SumOf(chars)
    IN
    [i \in DOMAIN chars |->
        IF Len(voiced) = Len(chars) THEN voiced[i]
        ELSE Piece(ClockOf(voiced, at(i - 1), "start"), ClockOf(voiced, at(i), "end"))]

\* A little around the speech, inside the voiced part it is in.
Padded(voiced, m) ==
    LET in == {k \in DOMAIN voiced : m.start >= voiced[k].start /\ m.start < voiced[k].end}
        first == IF in = {} THEN 1 ELSE CHOOSE k \in in : \A j \in in : k <= j
        ends == {k \in DOMAIN voiced : m.end > voiced[k].start /\ m.end <= voiced[k].end}
        last == IF first < Len(voiced) /\ m.end = voiced[first + 1].start THEN first
                ELSE IF ends = {} THEN first ELSE CHOOSE k \in ends : \A j \in ends : k >= j
    IN Piece(Larger(voiced[first].start, m.start - Padding), Fewer(voiced[last].end, m.end + Padding))

\* Where the padding of two captions meets.
Separated(ps) ==
    FoldLeft(LAMBDA done, i :
        LET p == done[i - 1]
            c == done[i]
            middle == (p.end + c.start) \div 2
        IN IF p.end <= c.start THEN done
           ELSE IF c.start - p.start <= MinDisplay THEN [done EXCEPT ![i - 1].end = middle, ![i].start = middle]
           ELSE [done EXCEPT ![i - 1].end = c.start], ps, [n \in 1..(Len(ps) - 1) |-> n + 1])

AlignedTo(chars, voiced) ==
    LET mapped == Mapped(chars, voiced)
        ps == Separated([i \in DOMAIN chars |-> Padded(voiced, mapped[i])])
    IN [i \in DOMAIN ps |-> Piece(ps[i].start, Larger(ps[i].start + 1, ps[i].end))]

\* narrationClockToSourceClock: narration runs through the captions' ranges.
SourceClock(cs, time) ==
    LET widths == [i \in DOMAIN cs |-> Width(cs[i])]
        t == Fewer(Larger(0, time), SumOf(widths))
        i == CHOOSE i \in DOMAIN cs : (t <= Upto(widths, i) \/ i = Len(cs)) /\ \A j \in 1..(i - 1) : t > Upto(widths, j)
    IN Fewer(cs[i].end, cs[i].start + t - Upto(widths, i - 1))

\* What is left of a window on the source's clock.
OnSource(p) == IF p.end > p.start THEN p ELSE NoWindow

\* The narration's clock, or where its voice is.
Aligned(chars, voiced) ==
    IF voiced # <<>> THEN AlignedTo(chars, voiced)
    ELSE [i \in DOMAIN timeline |->
            Piece(SumOf([j \in 1..(i - 1) |-> Width(timeline[j])]), SumOf([j \in 1..i |-> Width(timeline[j])]))]

\* attachNarrationCaptionDisplayTiming: captions all have text here, as those
\* of a script do.
Timed(aligned, length) ==
    LET shown == Shown(ByTime([i \in DOMAIN aligned |-> i], aligned), aligned, 0, length)
        onSource(w) == OnSource(Piece(SourceClock(timeline, w.start), SourceClock(timeline, w.end)))
    IN [i \in DOMAIN timeline |-> onSource(shown[i])]

OnNarration ==
    LET length == SumOf([i \in DOMAIN timeline |-> Width(timeline[i])])
    IN Timed(Aligned([i \in DOMAIN timeline |-> timeline[i].chars], Voiced(activity, length)), length)

-------------------------------------------------------------------------------
CdInit ==
    /\ timeline \in CaptionSet /\ kept \in RangeSet /\ activity \in ActivitySet
    /\ way = "none" /\ windows = <<>>

Spoken == way' = "ranges" /\ windows' = WithinRanges

Narrated ==
    /\ \A i \in DOMAIN timeline : timeline[i].chars > 0
    /\ activity # <<>>
    /\ way' = "narration" /\ windows' = OnNarration

CdNext == way = "none" /\ (Spoken \/ Narrated) /\ UNCHANGED <<timeline, kept, activity>>
CdSpec == CdInit /\ [][CdNext]_cdvars

-------------------------------------------------------------------------------
CdTypeOK ==
    /\ way \in {"none", "ranges", "narration"}
    /\ way # "none" => DOMAIN windows = DOMAIN timeline

HasWindow(i) == windows[i] # NoWindow

\* Never two captions at once, whatever the texts ask for.
OneAtATime ==
    way # "none" =>
        \A i, j \in DOMAIN timeline :
            (i # j /\ HasWindow(i) /\ HasWindow(j)) =>
               windows[i].end <= windows[j].start \/ windows[j].end <= windows[i].start

\* A caption is shown in one kept range: never across a cut, or in what was
\* removed.
NeverAcrossACut ==
    way = "ranges" => \A i \in DOMAIN timeline : HasWindow(i) =>
        \E k \in DOMAIN kept : kept[k].start <= windows[i].start /\ windows[i].end <= kept[k].end

\* "When enough program time exists, every non-empty caption receives at least
\* the recommendation": per range, if all of its captions can.
ReadableWhenThereIsTime ==
    way = "ranges" => \A k \in DOMAIN kept :
        LET of == SelectSeq([i \in DOMAIN timeline |-> i], LAMBDA i : timeline[i].chars > 0 /\ RangeOf(timeline[i]) = k)
            wanted(i) == Larger(Overlap(timeline[i], kept[k]), Recommended(timeline[i].chars))
        IN SumOf([n \in DOMAIN of |-> wanted(of[n])]) <= Width(kept[k]) =>
              \A n \in DOMAIN of : Width(windows[of[n]]) >= Recommended(timeline[of[n]].chars)

\* Captions of a narration appear in the order they are spoken, and none is
\* dropped while there is a tick for each.
InTheOrderSpoken ==
    way = "narration" =>
        LET length == SumOf([i \in DOMAIN timeline |-> Width(timeline[i])]) IN
        \A i, j \in DOMAIN timeline : (i < j /\ HasWindow(i) /\ HasWindow(j)) => windows[i].end <= windows[j].start
===============================================================================
