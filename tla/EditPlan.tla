------------------------------- MODULE EditPlan --------------------------------
(***************************************************************************)
(* lib/edit-plan.ts: which parts of a spoken video are kept.  A caption is *)
(* an interval of the video with the timings of its words; the plan marks  *)
(* captions as removed and derives from the others the ranges to keep.     *)
(*                                                                         *)
(* Times are whole ticks and thresholds are constants, so nothing rounds.  *)
(* Texts are abstracted to what the rules tell apart: a filler, a copy of  *)
(* one of the three kept captions before it, or anything else, and whether *)
(* it ends a sentence.  Scores of units are heuristics: any choice of      *)
(* units that fits may win, and the others may fill it in any order.       *)
(***************************************************************************)
EXTENDS Integers, Sequences, SequencesExt, FiniteSets

CONSTANTS
    JoinGap,         \* MAX_JOIN_GAP_SECONDS
    SentenceGap,     \* MAX_SENTENCE_GAP_SECONDS
    BlockLength,     \* MAX_SENTENCE_BLOCK_SECONDS
    UnitLength,      \* maximumUnitDuration
    NearbySilence,   \* maximumNearbySilence
    Handle,          \* quietHandleSeconds
    Tolerance,       \* what a plan may exceed its target by
    ShortestPiece,   \* 0.35 s: shorter pieces aren't cut out
    NearEnough,      \* 0.75 s: a plan this close to its target isn't filled
    Gaps, Lengths,   \* bound of the model: pauses before and lengths of captions
    Targets,         \* bound of the model: wanted lengths
    Captions         \* bound of the model: number of captions

VARIABLES
    captions,  \* CaptionSegment[] with removed marks
    target,
    planned    \* how captions came about: "input", "natural", "hand"

edvars == <<captions, target, planned>>

Less(a, b) == IF a < b THEN a ELSE b
More(a, b) == IF a > b THEN a ELSE b
Length(r) == r.end - r.start
Span(a, b) == [start |-> a, end |-> b]

\* isIncludedCaption
Included(c) == ~c.removed
Kept(cs) == SelectSeq(cs, Included)
Undo(cs) == [i \in DOMAIN cs |-> [cs[i] EXCEPT !.removed = FALSE]]

\* getExactWordTimings, as intervals of the video.
Words(cs) == FoldLeft(LAMBDA ws, c : ws \o [i \in DOMAIN c.words |->
                 Span(c.start + c.words[i].start, c.start + c.words[i].end)], <<>>, cs)

-------------------------------------------------------------------------------
(* buildEditRanges                                                          *)

\* A removed caption in the gap keeps the ranges apart.
Crosses(cs, from, to) == \E i \in DOMAIN cs : cs[i].removed /\ cs[i].end > from /\ cs[i].start < to

\* Mutant: short gaps are joined whatever lies in them.
JoinsAll(cs, r, c) == c.start <= r.end \/ c.start - r.end <= JoinGap

Joins(cs, r, c) ==
    c.start <= r.end \/ (c.start - r.end <= JoinGap /\ ~Crosses(cs, r.end, c.start))

Joined(cs) ==
    FoldLeft(LAMBDA rs, c :
        IF rs # <<>> /\ Joins(cs, Last(rs), c)
          THEN [rs EXCEPT ![Len(rs)].end = More(@, c.end)]
          ELSE Append(rs, Span(c.start, c.end)), <<>>, Kept(cs))

\* The silence before and after a word; 0 when it is the first or last one.
SilenceBefore(ws, w) ==
    LET before == SelectSeq(ws, LAMBDA v : v.end <= w.start) IN
    IF before = <<>> THEN 0 ELSE w.start - Last(before).end

SilenceAfter(ws, w) ==
    LET after == SelectSeq(ws, LAMBDA v : v.start >= w.end) IN
    IF after = <<>> THEN 0 ELSE after[1].start - w.end

SnapStart(r, first, lead) ==
    IF lead \in 1..NearbySilence THEN Less(r.start, first.start - Less(Handle, lead \div 2)) ELSE r.start

SnapEnd(r, last, tail) ==
    IF tail \in 1..NearbySilence THEN More(r.end, last.end + Less(Handle, tail \div 2)) ELSE r.end

\* snapEditRangesToTimedSilence: a little of the silence around the words.
\* A word that only touches the range counts as one of its words.  An end that
\* was measured in the sound stays where it is.
Touching(rs, r) == SelectSeq(rs, LAMBDA w : w.end >= r.start /\ w.start <= r.end)

Snap(cs, r) ==
    LET ws == Words(cs)
        inside == Touching(ws, r)
        shown == Touching(Kept(cs), r)
        start(first) == IF shown[1].quiet.start THEN r.start ELSE SnapStart(r, first, SilenceBefore(ws, first))
        end(last) == IF Last(shown).quiet.end THEN r.end ELSE SnapEnd(r, last, SilenceAfter(ws, last))
    IN IF inside = <<>> THEN r ELSE Span(start(inside[1]), end(Last(inside)))

\* Snapped ranges don't reach into the one before or after.
Apart(before, r, i) ==
    LET start == IF i > 1 THEN More(r[i].start, r[i - 1].end) ELSE More(0, r[i].start)
        end == IF i < Len(r) THEN Less(r[i].end, r[i + 1].start) ELSE r[i].end
    IN
    IF end > start THEN Span(start, end) ELSE before[i]

Snapped(cs, rs) ==
    LET snapped == [i \in DOMAIN rs |-> Snap(cs, rs[i])]
    IN [i \in DOMAIN rs |-> Apart(rs, snapped, i)]

buildEditRanges(cs) == Snapped(cs, Joined(cs))

getEditedDuration(rs) == FoldLeft(LAMBDA n, r : n + More(0, Length(r)), 0, rs)

\* buildSpokenEditRanges by hand: everything but what was removed.
ManualRanges(cs, duration) ==
    LET removed == SelectSeq(cs, LAMBDA c : c.removed /\ c.start < duration)
        merged == FoldLeft(LAMBDA rs, c :
                      IF rs # <<>> /\ c.start <= Last(rs).end
                        THEN [rs EXCEPT ![Len(rs)].end = More(@, Less(duration, c.end))]
                        ELSE Append(rs, Span(More(0, c.start), Less(duration, c.end))), <<>>, removed)
        cut == FoldLeft(LAMBDA acc, r :
                   [kept |-> IF r.start > acc.cursor THEN Append(acc.kept, Span(acc.cursor, r.start)) ELSE acc.kept,
                    cursor |-> More(acc.cursor, r.end)], [kept |-> <<>>, cursor |-> 0], merged)
    IN
    IF cut.cursor < duration THEN Append(cut.kept, Span(cut.cursor, duration)) ELSE cut.kept

sourceTimeToEditedTime(rs, time) ==
    FoldLeft(LAMBDA acc, r :
        IF acc.found THEN acc
        ELSE IF time <= r.start THEN [acc EXCEPT !.found = TRUE]
        ELSE IF time < r.end THEN [found |-> TRUE, at |-> acc.at + time - r.start]
        ELSE [acc EXCEPT !.at = @ + Length(r)], [found |-> FALSE, at |-> 0], rs).at

editedTimeToSourceTime(rs, time) ==
    LET walked == FoldLeft(LAMBDA acc, r :
            IF acc.found THEN acc
            ELSE IF More(0, time) <= acc.elapsed + Length(r)
              THEN [found |-> TRUE, elapsed |-> 0, at |-> r.start + More(0, time - acc.elapsed)]
            ELSE [acc EXCEPT !.elapsed = @ + Length(r), !.at = r.end], [found |-> FALSE, elapsed |-> 0, at |-> 0], rs)
    IN walked.at

\* remapCaptionsToEditedTimeline
Remapped(cs) ==
    LET rs == buildEditRanges(cs)
        kept == Kept(cs)
    IN
    SelectSeq([i \in DOMAIN kept |-> Span(sourceTimeToEditedTime(rs, kept[i].start),
                                            sourceTimeToEditedTime(rs, kept[i].end))],
              LAMBDA c : Length(c) > 0)

-------------------------------------------------------------------------------
(* createNaturalEdit                                                        *)

\* Fillers and near copies of one of the last three useful captions.
Useful(cs) ==
    FoldLeft(LAMBDA useful, c :
        IF c.removed \/ c.text = "filler" \/ (c.text = "copy" /\ useful # <<>>) THEN useful ELSE Append(useful, c),
        <<>>, cs)

\* buildSentenceBlocks, buildEditUnits: sentences, cut to a length.  A block
\* that is too long ends as well.
StartsBlock(acc, c) ==
    LET last == Last(Last(acc.units)) IN
    c.start - last.end > SentenceGap \/ last.ends \/ last.end - acc.from >= BlockLength

Units(cs) ==
    FoldLeft(LAMBDA acc, c :
        IF acc.units = <<>> \/ StartsBlock(acc, c)
          THEN [from |-> c.start, units |-> Append(acc.units, <<c>>)]
        ELSE IF c.end - Last(acc.units)[1].start > UnitLength
          THEN [acc EXCEPT !.units = Append(@, <<c>>)]
        ELSE [acc EXCEPT !.units[Len(acc.units)] = Append(@, c)], [from |-> 0, units |-> <<>>], cs).units

\* phase 2: the middle of the unit is in the last third of what is useful.
PrefersEnd(units, unit) ==
    LET from == units[1][1].start
        to == Last(Last(units)).end
    IN 3 * (unit[1].start + Last(unit).end - 2 * from) >= 4 * (to - from)

Spoken(cs) == getEditedDuration(buildEditRanges(Undo(cs)))

\* clipCaptionToDuration: whole words from the start, or from the end; never
\* inside a word, and nothing without word timings.
Clips(c, length, preferEnd) ==
    LET n == Len(c.words)
        fits == {i \in 1..n : IF preferEnd THEN c.words[n].end - c.words[i].start <= length ELSE c.words[i].end <= length}
        from == IF preferEnd THEN CHOOSE i \in fits : \A j \in fits : i <= j ELSE 1
        to == IF preferEnd THEN n ELSE CHOOSE i \in fits : \A j \in fits : i >= j
        base == c.words[from].start
    IN
    IF Less(length, Length(c)) >= Length(c) THEN {c}
    ELSE IF fits = {} THEN {}
    ELSE {[c EXCEPT !.start = c.start + base, !.end = c.start + c.words[to].end,
                    !.words = [i \in 1..(to - from + 1) |->
                                 Span(c.words[from + i - 1].start - base, c.words[from + i - 1].end - base)]]}

\* takeUnitWithinDuration: captions of a unit while they fit, the next cut.
Taken(unit, length, preferEnd) ==
    LET ordered == IF preferEnd THEN Reverse(unit) ELSE unit
        walked == FoldLeft(LAMBDA acc, c :
            IF acc.stopped \/ acc.left <= 0 THEN [acc EXCEPT !.stopped = TRUE]
            ELSE IF Length(c) <= acc.left THEN [acc EXCEPT !.got = @ \cup {c}, !.left = @ - Length(c)]
            ELSE [acc EXCEPT !.stopped = TRUE,
                             !.got = @ \cup IF acc.left >= ShortestPiece THEN Clips(c, acc.left, preferEnd) ELSE {}],
            [got |-> {}, left |-> length, stopped |-> FALSE], ordered)
    IN walked.got

InOrder(set) == SetToSortSeq(set, LAMBDA a, b : a.start < b.start \/ (a.start = b.start /\ a.id < b.id))

\* Units fill what is left, one after the other, until it is near enough.
Fill(acc, unit, preferEnd) ==
    LET got == Taken(unit, acc.left, preferEnd)
        filled == {c \in acc.selected : \A g \in got : g.id # c.id} \cup got
    IN
    IF acc.left <= NearEnough \/ got = {} THEN acc
    ELSE [selected |-> filled, left |-> target - Spoken(InOrder(filled))]

\* Mutant: what is too long is left so.
TrimNever(selected) == selected

\* The caption that ends last is cut or dropped.
TrimOnce(selected, excess) ==
    LET last == CHOOSE c \in selected : \A d \in selected : d.end <= c.end IN
    IF selected = {} \/ excess <= Tolerance THEN selected
    ELSE (selected \ {last}) \cup IF Length(last) - excess >= ShortestPiece
                                    THEN Clips(last, Length(last) - excess, TRUE) ELSE {}

\* While too long.
Trim(selected) ==
    FoldLeft(LAMBDA s, i : TrimOnce(s, Spoken(InOrder(s)) - target), selected, [i \in 1..(2 * Captions) |-> i])

\* The result in place of the captions: chosen ones as they were cut.
Marked(cs, selected) ==
    [i \in DOMAIN cs |->
        IF \E s \in selected : s.id = cs[i].id
          THEN [(CHOOSE s \in selected : s.id = cs[i].id) EXCEPT !.removed = FALSE]
          ELSE [cs[i] EXCEPT !.removed = TRUE]]

\* Any units that fit together, none only if none fits, filled with others.
Selections(units) ==
    LET length(chosen) == FoldLeft(LAMBDA n, i : n + Spoken(units[i]), 0, SetToSeq(chosen))
        captionsOf(chosen) == UNION {ToSet(units[i]) : i \in chosen}
        fitting == {c \in SUBSET DOMAIN units : c # {} /\ length(c) <= target + Tolerance}
        filled(chosen) == {FoldLeft(LAMBDA acc, i : Fill(acc, units[i], PrefersEnd(units, units[i])),
                                    [selected |-> captionsOf(chosen), left |-> target - length(chosen)], order).selected :
                             order \in SetToSeqs((DOMAIN units) \ chosen)}
    IN UNION {filled(chosen) : chosen \in IF fitting = {} THEN {{}} ELSE fitting}

Fits(cs) == Spoken(cs) <= target + Tolerance

\* Nothing useful, or nothing left of a choice that was too long: all of it
\* stays.  No choice at all: whatever is useful stays, however long.
NaturalEdits(cs) ==
    LET useful == Useful(cs)
        trimmed(s) == IF Trim(s) = {} THEN Undo(cs) ELSE Marked(cs, Trim(s))
    IN
    IF useful = <<>> THEN {Undo(cs)}
    ELSE IF Fits(useful) THEN {Marked(cs, ToSet(useful))}
    ELSE {IF s = {} THEN Marked(cs, ToSet(useful)) ELSE trimmed(s) : s \in Selections(Units(useful))}

-------------------------------------------------------------------------------
\* A transcript: captions in order, of one or two words with or without a
\* pause between them, or without timings.
TimedWords(length) ==
    {<<Span(0, length)>>}
    \cup (IF length < 4 THEN {} ELSE {<<Span(0, 2), Span(2, length)>>, <<Span(0, 1), Span(length - 1, length)>>})

Transcribed(shape) ==
    [i \in 1..Captions |->
        LET start == FoldLeft(LAMBDA n, j : n + shape[j].gap + IF j < i THEN shape[j].length ELSE 0, 0, [j \in 1..i |-> j])
        IN [id |-> i, start |-> start, end |-> start + shape[i].length, words |-> shape[i].words,
            text |-> shape[i].text, ends |-> shape[i].ends, quiet |-> shape[i].quiet, removed |-> FALSE]]

\* Ends measured in the sound: localSilenceStart, localSilenceEnd.
Measured(from, to) == [start |-> from, end |-> to]
Plain(gaps, n, words, quiet) ==
    [gap : gaps, length : {n}, words : words, text : {"plain"}, ends : {FALSE}, quiet : quiet]

Shapes ==
    UNION {Plain(Gaps, n, TimedWords(n), {Measured(FALSE, FALSE)}) \cup Plain({0}, n, {<<>>}, {Measured(FALSE, FALSE)}) :
              n \in Lengths}
    \cup Plain(Gaps, 2, {<<Span(0, 2)>>}, {Measured(TRUE, TRUE)})
    \cup [gap : {1}, length : {1}, words : {<<Span(0, 1)>>}, text : {"filler"}, ends : {TRUE}, quiet : {Measured(FALSE, FALSE)}]
    \cup [gap : {0}, length : {1}, words : {<<>>}, text : {"copy"}, ends : {TRUE}, quiet : {Measured(FALSE, FALSE)}]

Init ==
    /\ \E shape \in [1..Captions -> Shapes] : captions = Transcribed(shape)
    /\ target \in Targets
    /\ planned = "input"

Natural ==
    /\ planned = "input"
    /\ captions' \in NaturalEdits(captions)
    /\ planned' = "natural" /\ UNCHANGED target

\* Mutant: the last caption can be cut as well.
CutLast(i, cut) == captions' = [captions EXCEPT ![i].removed = cut]

\* setCaptionCut: the last caption kept can't be cut.
SetCaptionCut(i, cut) ==
    /\ (cut /\ Included(captions[i])) => \E j \in DOMAIN captions : j # i /\ Included(captions[j])
    /\ captions' = [captions EXCEPT ![i].removed = cut]

Cut ==
    /\ \E i \in DOMAIN captions, cut \in BOOLEAN : captions[i].removed # cut /\ SetCaptionCut(i, cut)
    /\ planned' = "hand" /\ UNCHANGED target

Next == Natural \/ Cut
Spec == Init /\ [][Next]_edvars

-------------------------------------------------------------------------------
Duration == captions[Len(captions)].end + 1
Within(t, rs) == \E i \in DOMAIN rs : rs[i].start <= t /\ t < rs[i].end
Instants == 0..(Duration - 1)

TypeOK ==
    /\ \A i \in DOMAIN captions : captions[i].start < captions[i].end
    /\ planned \in {"input", "natural", "hand"}

\* Ranges are in order and apart, every kept caption is inside one, and where a
\* caption's end was measured in the sound its range does not reach further.
RangesAreSound ==
    LET rs == buildEditRanges(captions)
        joined == Joined(captions)
    IN
    /\ \A i \in DOMAIN rs : rs[i].start < rs[i].end
    /\ \A i \in DOMAIN rs : (i > 1) => rs[i - 1].end <= rs[i].start
    /\ \A i \in DOMAIN captions : Included(captions[i]) =>
          \E j \in DOMAIN rs : rs[j].start <= captions[i].start /\ captions[i].end <= rs[j].end
    /\ \A c \in ToSet(Kept(captions)), j \in DOMAIN rs :
          /\ c.quiet.start /\ joined[j].start = c.start => rs[j].start = c.start
          /\ c.quiet.end /\ joined[j].end = c.end => rs[j].end = c.end

\* No word that was cut is heard, but one that ends where what is kept begins,
\* or begins where it ends: that one is taken for one of its words.
CutIsNotHeard ==
    LET rs == buildEditRanges(captions)
        joined == Joined(captions)
        cut == Words(SelectSeq(captions, LAMBDA c : c.removed))
        taken(w) == \E j \in DOMAIN joined : w.end = joined[j].start \/ w.start = joined[j].end
    IN
    \A w \in ToSet(cut), t \in Instants : (w.start <= t /\ t < w.end /\ ~taken(w)) => ~Within(t, rs)

\* A natural edit, measured as it is made, by its kept captions alone, keeps to
\* its target.  Only if nothing is useful it keeps all of it, and only if no
\* sentence is short enough all that is useful, uncut: the way out for a choice
\* of which nothing is left when it is cut to the target is never taken.
FitsTarget ==
    LET useful == Useful(Undo(captions))
        kept == Kept(captions)
    IN
    planned = "natural" =>
        \/ Fits(kept)
        \/ useful = <<>> /\ kept = captions
        \/ kept = useful /\ \A i \in DOMAIN Units(useful) : ~Fits(Units(useful)[i])

\* A plan never removes everything.
SomethingIsKept == Kept(captions) # <<>>

\* By hand, what is kept is exactly what wasn't removed.
ManualIsComplement ==
    LET rs == ManualRanges(captions, Duration) IN
    \A t \in Instants :
        Within(t, rs) <=> ~\E i \in DOMAIN captions : captions[i].removed /\ captions[i].start <= t /\ t < captions[i].end

\* The two clocks agree: an instant of the edited video that a kept one maps to
\* maps back to it, the clock never goes back, captions stay inside.
ClocksAgree ==
    LET rs == buildEditRanges(captions)
        edited == [t \in Instants |-> sourceTimeToEditedTime(rs, t)]
        shown == Remapped(captions)
    IN
    /\ \A t \in Instants : Within(t, rs) => sourceTimeToEditedTime(rs, editedTimeToSourceTime(rs, edited[t])) = edited[t]
    /\ \A t \in Instants : t > 0 => edited[t - 1] <= edited[t]
    /\ \A i \in DOMAIN shown : shown[i].end <= getEditedDuration(rs)
===============================================================================
