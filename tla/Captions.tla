-------------------------------- MODULE Captions --------------------------------
(***************************************************************************)
(* lib/captions.ts: a transcript cut into captions that fit a line, with   *)
(* the timings of the words in them.                                       *)
(*                                                                         *)
(* A text is what splitting asks of its characters: how good a break each  *)
(* is (0 ends a sentence, 1 a comma, 2 and 3 a phrase, NoBreak none).      *)
(* Spaces are left out.  Times are ticks; proportional shares round down.  *)
(***************************************************************************)
EXTENDS Integers, Sequences, SequencesExt, FiniteSets

CONSTANTS
    MinChars,       \* MIN_CAPTION_CHARS
    MaxChars,       \* maxChars, what the callers ask for
    IdealChars,     \* IDEAL_CAPTION_CHARS
    ShortChars,     \* SHORT_CAPTION_CHARS
    MergeGap,       \* MAX_CAPTION_MERGE_GAP_SECONDS
    MergeSlack,     \* a merged caption may exceed maxChars by it
    TranscriptSet   \* bound of the model: [segments, words] of a transcription

VARIABLES
    transcript,  \* segments and words of the speech service
    byWords,     \* buildCaptionSegmentsFromWords, no segments came
    built,       \* whether captions were built
    captions     \* CaptionSegment[]

cavars == <<transcript, byWords, built, captions>>

NoBreak == 9
Low(a, b) == IF a < b THEN a ELSE b
High(a, b) == IF a > b THEN a ELSE b
Distance(a, b) == High(a - b, b - a)
Sum(ns) == FoldLeft(LAMBDA n, x : n + x, 0, ns)

-------------------------------------------------------------------------------
(* splitCaptionText                                                          *)

SafeMax == High(MinChars, MaxChars)

\* Mutant: a break may leave a rest too short for a caption.
LeavesRest(rest) == TRUE

LeavesEnough(rest) == rest = 0 \/ rest >= MinChars

\* The best break: by kind, then close to the ideal length, then the longer.
BreakLength(text) ==
    LET breaks == {n \in MinChars..SafeMax : text[n] # NoBreak /\ LeavesEnough(Len(text) - n)}
        ideal == Low(IdealChars, SafeMax)
        better(a, b) ==
            \/ text[a] < text[b]
            \/ text[a] = text[b] /\ Distance(a, ideal) < Distance(b, ideal)
            \/ text[a] = text[b] /\ Distance(a, ideal) = Distance(b, ideal) /\ a > b
        length == IF breaks = {} THEN SafeMax
                  ELSE CHOOSE a \in breaks : \A b \in breaks \ {a} : better(a, b)
        rest == Len(text) - length
    IN IF LeavesEnough(rest) THEN length ELSE High(MinChars, length - (MinChars - rest))

\* Chunks of a text, in order: a round takes one off.
splitCaptionText(text) ==
    LET round(acc, i) ==
            IF Len(acc.rest) <= SafeMax THEN acc
            ELSE LET n == BreakLength(acc.rest)
                 IN [chunks |-> Append(acc.chunks, SubSeq(acc.rest, 1, n)), rest |-> SubSeq(acc.rest, n + 1, Len(acc.rest))]
        cut == FoldLeft(round, [chunks |-> <<>>, rest |-> text], text)
    IN IF cut.rest = <<>> THEN cut.chunks ELSE Append(cut.chunks, cut.rest)

\* buildCaptionSegments: the chunks of a segment share its time by length.
Shared(segment) ==
    LET chunks == splitCaptionText(segment.text)
        before(i) == Sum([k \in 1..i |-> Len(chunks[k])])
        at(i) == IF i = Len(chunks) THEN segment.end
                 ELSE segment.start + ((segment.end - segment.start) * before(i)) \div Len(segment.text)
    IN IF segment.end <= segment.start THEN <<>>
       ELSE [i \in DOMAIN chunks |-> [start |-> at(i - 1), end |-> at(i), text |-> chunks[i], words |-> <<>>]]

\* mergeShortCaptionSegments: what is short joins the caption before it.
MayMerge(previous, c) ==
    /\ High(0, c.start - previous.end) <= MergeGap
    /\ Len(previous.text) + Len(c.text) <= SafeMax + MergeSlack
    /\ Last(previous.text) # 0
    /\ Len(previous.text) <= ShortChars \/ Len(c.text) <= ShortChars

Merged(cs) ==
    FoldLeft(LAMBDA done, c :
        IF done # <<>> /\ MayMerge(Last(done), c)
          THEN [done EXCEPT ![Len(done)].text = @ \o c.text, ![Len(done)].end = c.end]
          ELSE Append(done, c), <<>>, cs)

buildCaptionSegments(segments) == Merged(FlattenSeq([i \in DOMAIN segments |-> Shared(segments[i])]))

\* attachCaptionWordTimings: whole words only, relative to their caption.
Attached(cs, words) ==
    [i \in DOMAIN cs |->
        [cs[i] EXCEPT !.words =
            LET inside == SelectSeq(words, LAMBDA w : w.end > w.start /\ w.start >= cs[i].start /\ w.end <= cs[i].end)
            IN [k \in DOMAIN inside |-> [start |-> inside[k].start - cs[i].start, end |-> inside[k].end - cs[i].start]]]]

\* buildCaptionSegmentsFromWords: each word a segment, by time.
FromWords(words) ==
    LET sorted == SortSeq(SelectSeq(words, LAMBDA w : w.end > w.start),
                          LAMBDA a, b : a.start < b.start \/ (a.start = b.start /\ a.end < b.end))
    IN Attached(buildCaptionSegments(sorted), sorted)

-------------------------------------------------------------------------------
CaInit ==
    /\ transcript \in TranscriptSet
    /\ byWords \in BOOLEAN
    /\ built = FALSE /\ captions = <<>>

Build ==
    /\ ~built /\ built' = TRUE
    /\ captions' = IF byWords THEN FromWords(transcript.words)
                   ELSE Attached(buildCaptionSegments(transcript.segments), transcript.words)
    /\ UNCHANGED <<transcript, byWords>>

CaNext == Build
CaSpec == CaInit /\ [][CaNext]_cavars

-------------------------------------------------------------------------------
Source == IF byWords THEN transcript.words ELSE transcript.segments
Sound(ss) == \A i \in DOMAIN ss : ss[i].start < ss[i].end /\ (i > 1 => ss[i - 1].end <= ss[i].start)

CaTypeOK ==
    /\ byWords \in BOOLEAN /\ built \in BOOLEAN
    /\ \A i \in DOMAIN captions : captions[i].text # <<>> /\ captions[i].start <= captions[i].end

\* Nothing that was said is lost, repeated or put elsewhere.
EverythingIsCaptioned ==
    (built /\ Sound(Source)) =>
        FlattenSeq([i \in DOMAIN captions |-> captions[i].text]) = FlattenSeq([i \in DOMAIN Source |-> Source[i].text])

\* A caption fits its line; a text that is long enough leaves no crumb: what
\* is shorter than a line was said so, and nothing next to it took it in.
CaptionsFitTheLine ==
    \A segments \in {transcript.segments, transcript.words} : \A i \in DOMAIN segments :
        LET chunks == splitCaptionText(segments[i].text) IN
        \A k \in DOMAIN chunks : Len(chunks[k]) <= SafeMax /\ (Len(chunks) > 1 => Len(chunks[k]) >= MinChars)

\* Captions of an ordered transcript are in order, and a merged one spans no
\* pause that separates thoughts and no end of a sentence.
CaptionsInOrder ==
    (built /\ Sound(Source)) =>
        /\ \A i \in 2..Len(captions) : captions[i - 1].end <= captions[i].start
        /\ \A i \in DOMAIN captions : Len(captions[i].text) > SafeMax => Len(captions[i].text) <= SafeMax + MergeSlack
        /\ \A i \in DOMAIN captions, k \in 2..Len(Source) :
              (captions[i].start < Source[k].start /\ Source[k].start < captions[i].end) =>
                 Source[k].start - Source[k - 1].end <= MergeGap /\ Last(Source[k - 1].text) # 0

\* "Only complete words are attached": each timing is a word heard within its
\* caption, so a cut never falls inside one.
WordsAreWhole ==
    \A i \in DOMAIN captions : \A k \in DOMAIN captions[i].words :
        LET w == captions[i].words[k] IN
        /\ 0 <= w.start /\ w.start < w.end /\ w.end <= captions[i].end - captions[i].start
        /\ \E j \in DOMAIN transcript.words :
              /\ transcript.words[j].start = captions[i].start + w.start
              /\ transcript.words[j].end = captions[i].start + w.end
===============================================================================
