----------------------------- MODULE SceneTimeline -----------------------------
(***************************************************************************)
(* lib/video-mix-scene-timeline.ts, with buildNarrationTimeline of         *)
(* lib/narration.ts: the clips of a composition as scenes of a narration,  *)
(* what the server accepts of them, and the captions of a script placed    *)
(* in the windows of their scenes.                                         *)
(*                                                                         *)
(* Scene times are doubled ticks (an overlap changes hands in its middle). *)
(* A segment is its weight and the scene the writing model gave it, 0 when *)
(* it is missing or unknown; fractions of a window are rounded down.       *)
(***************************************************************************)
EXTENDS VideoComposition

CONSTANTS
    Slack,         \* TIMELINE_TOLERANCE_SECONDS, doubled
    ShortestLine,  \* 0.4 s, doubled
    ScriptSet,     \* bound of the model: segments of a script
    AudioSet       \* bound of the model: lengths of the audio, doubled

VARIABLES script, audio

scvars == <<vcvars, script, audio>>

-------------------------------------------------------------------------------
(* createVideoMixNarrationSceneTimeline                                      *)

SemanticBoundary2(b) == 2 * b.at + IF b.type = "blend" THEN b.duration ELSE 0

ClipsOf(k) == SelectSeq(plan.clips, LAMBDA c : c.source = k)

Scenes ==
    [i \in DOMAIN plan.clips |->
        LET c == plan.clips[i] IN
        [id |-> i, from |-> IF i = 1 THEN 0 ELSE SemanticBoundary2(plan.boundaries[i - 1]),
         to |-> IF i = Len(plan.clips) THEN 2 * plan.duration ELSE SemanticBoundary2(plan.boundaries[i]),
         source |-> c.source, clip |-> c.clip, image |-> c.source,
         cell |-> c.clip, cells |-> Len(ClipsOf(c.source))]]

HasWindows(ss) == \A i \in DOMAIN ss : ss[i].to > ss[i].from

\* normalizeVideoMixNarrationSceneTimeline: in order, of this video, and each
\* image with exactly its cells.
SceneAccepted(ss, images, length) ==
    /\ images \in 1..MaxSources /\ Len(ss) \in 1..(MaxSources * MaxClips)
    /\ \A i \in DOMAIN ss :
          /\ ss[i].id = i
          /\ ss[i].from >= 0 /\ ss[i].from < ss[i].to /\ ss[i].to <= length + Slack
          /\ ss[i].source \in 1..MaxSources /\ ss[i].clip \in 1..MaxClips /\ ss[i].image \in 1..images
          /\ ss[i].cells \in {1, 2} /\ ss[i].cell \in 1..ss[i].cells
    /\ \A i \in 2..Len(ss) :
          /\ ss[i].from - ss[i - 1].to \in (-Slack)..Slack
          /\ ss[i].source >= ss[i - 1].source /\ ss[i].image >= ss[i - 1].image
          /\ ss[i].source = ss[i - 1].source => ss[i].clip > ss[i - 1].clip
    /\ ss[1].from <= Slack /\ Last(ss).to - length \in (-Slack)..Slack
    /\ \A image \in 1..images :
          LET of == {i \in DOMAIN ss : ss[i].image = image} IN
          /\ of # {}
          /\ \A i, j \in of : ss[i].cells = ss[j].cells /\ ss[i].source = ss[j].source
          /\ \A i \in of : Cardinality(of) = ss[i].cells
          /\ {ss[i].cell : i \in of} = 1..Cardinality(of)

-------------------------------------------------------------------------------
(* ensureVideoMixNarrationSceneAssignments                                   *)

Weigh(segments) == FoldLeft(LAMBDA n, s : n + s.weight, 0, segments)

\* What the model assigned is kept only as a whole: known scenes, in order.
AssignmentsHold(segments, ids) ==
    /\ \A i \in DOMAIN segments : segments[i].scene \in ids
    /\ \A i \in 2..Len(segments) : segments[i - 1].scene <= segments[i].scene

\* Else by the middle of each segment's share of the time.
Assigned(segments, ss) ==
    IF AssignmentsHold(segments, {ss[i].id : i \in DOMAIN ss}) THEN segments
    ELSE
    LET total == Weigh(segments)
        length == FoldLeft(LAMBDA n, s : n + s.to - s.from, 0, ss)
        before(i) == Weigh(SubSeq(segments, 1, i - 1))
        upTo(k) == FoldLeft(LAMBDA n, s : n + s.to - s.from, 0, SubSeq(ss, 1, k))
        \* the middle of i, times 2 * total
        middle(i) == (2 * before(i) + segments[i].weight) * length
        holds(i, k) == middle(i) < 2 * total * upTo(k) \/ k = Len(ss)
    IN
    [i \in DOMAIN segments |->
        LET k == CHOOSE k \in DOMAIN ss : holds(i, k) /\ \A j \in 1..(k - 1) : ~holds(i, j)
        IN [segments[i] EXCEPT !.scene = ss[k].id]]

\* buildNarrationTimeline without automatic cuts, within the composition: the
\* script as one continuous reading (narrationEnd is at least a second here).
Continuous(segments, end, limit) ==
    LET total == Weigh(segments)
        cursor(i) == (Weigh(SubSeq(segments, 1, i - 1)) * end) \div total
        length(i) == IF i = Len(segments) THEN end - cursor(i) ELSE (segments[i].weight * end) \div total
    IN
    [i \in DOMAIN segments |->
        [from |-> cursor(i), to |-> Least(limit, cursor(i) + Greatest(ShortestLine, length(i))), line |-> i]]

\* Mutant: scenes without a line are left out.
AllHeardNever(segments, active) == TRUE

\* The audio is one file: a scene nobody speaks in would let it run ahead.
AllHeard(segments, active) ==
    \A k \in DOMAIN active : \E i \in DOMAIN segments : segments[i].scene = active[k].id

\* The lines of a scene share its window by their weights.
InScene(segments, scene, end) ==
    LET of == SelectSeq([i \in DOMAIN segments |-> i], LAMBDA i : segments[i].scene = scene.id)
        window == Least(end, scene.to) - scene.from
        weight(n) == FoldLeft(LAMBDA w, i : w + segments[i].weight, 0, SubSeq(of, 1, n))
        at(n) == scene.from + (window * weight(n)) \div weight(Len(of))
    IN
    [n \in DOMAIN of |-> [from |-> at(n - 1), to |-> Greatest(at(n - 1) + 1, at(n)), line |-> of[n]]]

\* buildVideoMixSceneNarrationTimeline
NarrationLines ==
    LET ss == Scenes
        end == Least(2 * plan.duration, audio)
        active == SelectSeq(ss, LAMBDA s : s.from < end)
        segments == Assigned(script, active)
    IN
    IF AllHeard(segments, active)
      THEN FlattenSeq([k \in DOMAIN active |-> InScene(segments, active[k], end)])
      ELSE Continuous(script, end, 2 * plan.duration)

-------------------------------------------------------------------------------
SInit ==
    /\ Init
    /\ script = <<>> /\ audio = 0

SPlan == Plan /\ UNCHANGED <<script, audio>>

\* A script of the model and its audio come back for the composition.
Narrate ==
    /\ composed = "planned" /\ HasWindows(Scenes) /\ script = <<>>
    /\ script' \in ScriptSet /\ audio' \in AudioSet
    /\ UNCHANGED vcvars

SNext == SPlan \/ Narrate
SSpec == SInit /\ [][SNext]_scvars

-------------------------------------------------------------------------------
\* What the client builds the server accepts, and the windows of the scenes
\* divide the video between its clips: each instant has one, whose clip is
\* on screen.
ScenesPartition ==
    composed = "planned" =>
        LET ss == Scenes IN
        /\ HasWindows(ss)
        /\ SceneAccepted(ss, Len(sources), 2 * plan.duration)
        /\ ss[1].from = 0 /\ Last(ss).to = 2 * plan.duration
        /\ \A i \in DOMAIN ss :
              /\ (i > 1) => ss[i].from = ss[i - 1].to
              /\ 2 * plan.clips[i].from <= ss[i].from /\ ss[i].to <= 2 * plan.clips[i].to

\* Lines are in the order of the script, one after the other, and those of a
\* scene stay in its window; when every scene is spoken they are the audio
\* without a gap.
LinesFollowScenes ==
    script # <<>> =>
        LET ss == Scenes
            lines == NarrationLines
            end == Least(2 * plan.duration, audio)
            active == SelectSeq(ss, LAMBDA s : s.from < end)
            segments == Assigned(script, active)
        IN
        /\ [i \in DOMAIN lines |-> lines[i].line] = [i \in DOMAIN script |-> i]
        /\ lines[1].from = 0
        /\ \A i \in DOMAIN lines : lines[i].from < lines[i].to
        /\ AllHeard(segments, active) =>
              /\ Last(lines).to >= end
              /\ \A i \in 2..Len(lines) : lines[i - 1].to >= lines[i].from
              /\ \A i \in DOMAIN lines : \E k \in DOMAIN active :
                    segments[i].scene = active[k].id /\ active[k].from <= lines[i].from
===============================================================================
