---------------------------- MODULE PreviewPlayer -----------------------------
(***************************************************************************)
(* The preview of the result (ResultWorkspace, app/page.tsx): one video    *)
(* element, and with a narration one audio source that runs beside it.     *)
(* Playing waits for the audio context, for the narration to be loaded,    *)
(* for a seek and for the video; every handler that changes its mind       *)
(* counts the operation up, and what waited asks for it afterwards.        *)
(* The crossfade over a cut does not: overtaken records when it starts the *)
(* video again although the person has stopped it meanwhile.               *)
(* "seeking" and "paused" of the transport are one: nothing asks for the   *)
(* difference.                                                             *)
(***************************************************************************)
EXTENDS Integers, FiniteSets, TLC

CONSTANTS
    Tasks,      \* bound of the model: playPreviewFromEditedTime under way
    MaxOps,     \* bound of the model: operations
    MaxAudio    \* bound of the model: narrations

VARIABLES
    mode,       \* "spoken", "narration", or "full": narration over the whole video
    player,     \* refs of the workspace
    paused,     \* video.paused
    engine,     \* url and buffer: a narration, 0 none; source: the operation that started it
    seeker,     \* who waits for previewInternalSeekRef
    task,       \* playPreviewFromEditedTime, seekToEditedTime
    fade,       \* crossfadePreviewToSourceTime
    audio,      \* narrationAudioUrl
    wanted,     \* ghost: what the person asked for last
    overtaken   \* ghost

pvars == <<mode, player, paused, engine, seeker, task, fade, audio, wanted, overtaken>>

None == [pc |-> "none"]
Narrated == mode # "spoken"

Init ==
    /\ mode \in {"spoken", "narration", "full"}
    /\ player = [op |-> 0, ready |-> FALSE, holding |-> FALSE, cutSeek |-> FALSE,
                 playing |-> FALSE, transport |-> "paused"]
    /\ paused = TRUE
    /\ audio = IF Narrated THEN 1 ELSE 0
    /\ engine = [url |-> audio, buffer |-> 0, source |-> 0]
    /\ seeker = "none"
    /\ task = [i \in Tasks |-> None]
    /\ fade = None
    /\ wanted = "still" /\ overtaken = FALSE

IsOperation(t) == t.pc # "none" /\ t.op = player.op

\* cancelPreviewSeek and video.pause() as seen by what waits: the seek is
\* answered with false, a play() not yet answered is refused.
Cancelled(t, i, stops) ==
    IF t.pc = "none" THEN t
    ELSE [t EXCEPT !.sought = IF seeker = i /\ @ = "waiting" THEN "false" ELSE @,
                   !.played = IF stops /\ @ = "waiting" THEN "refused" ELSE @]
CancelledFade == IF seeker = "fade" THEN [fade EXCEPT !.sought = "false"] ELSE fade

Interrupted == task' = [i \in Tasks |-> Cancelled(task[i], i, TRUE)]

\* Mutant: the narration's source is left running.
StoppedWithSource == engine' = engine
\* stopPreviewNarrationSource
Stopped == engine' = [engine EXCEPT !.source = 0]

\* pausePreviewTransport, finishPreviewAtEnd.
Halt(transport) ==
    /\ player.op < MaxOps
    /\ player' = [op |-> player.op + 1, ready |-> FALSE, holding |-> transport = "ended", cutSeek |-> FALSE,
                  playing |-> FALSE, transport |-> transport]
    /\ Stopped
    /\ Interrupted /\ fade' = CancelledFade
    /\ seeker' = "none" /\ paused' = TRUE

\* seekVideoBeforePlayback by i: at the place already, or a seek that cancels
\* the one before.
SeekOf(i, fields) ==
    \/ /\ task' = [task EXCEPT ![i] = [sought |-> "true"] @@ fields @@ @]
       /\ UNCHANGED <<seeker, fade>>
    \/ /\ task' = [j \in Tasks |-> IF j = i THEN [sought |-> "waiting"] @@ fields @@ task[i]
                                   ELSE Cancelled(task[j], j, FALSE)]
       /\ fade' = CancelledFade
       /\ seeker' = i

-------------------------------------------------------------------------------
(* The person.                                                              *)

\* togglePlayback
Plays == ~player.playing /\ ~player.ready /\ player.transport # "loading"

PlaysAtOnce == ~Narrated \/ (engine.url = audio /\ engine.buffer = audio)

\* Spoken, or with the narration loaded: the seek and the video are started
\* in the click; else the video is unlocked and stopped again.
TogglePlay(i) ==
    LET now == PlaysAtOnce
        fields == [pc |-> "resume", op |-> player.op + 1, aud |-> audio, user |-> TRUE, resume |-> TRUE,
                   played |-> IF now THEN "waiting" ELSE "no"] IN
    /\ Plays /\ player.op < MaxOps /\ task[i].pc = "none"
    /\ player' = [player EXCEPT !.op = @ + 1,
                                !.playing = ~Narrated,
                                !.transport = IF Narrated THEN "loading" ELSE "playing"]
    /\ IF now
         THEN SeekOf(i, fields) /\ paused' = FALSE
         ELSE /\ task' = [task EXCEPT ![i] = [sought |-> "no"] @@ fields]
              /\ UNCHANGED <<seeker, paused, fade>>
    /\ wanted' = "playing"
    /\ UNCHANGED <<mode, engine, audio, overtaken>>

TogglePause ==
    /\ ~Plays
    /\ Halt("paused")
    /\ wanted' = "still"
    /\ UNCHANGED <<mode, audio, overtaken>>

\* document.hidden, the audio context suspended, the video element paused
\* under a narration: only of what is playing.
Interrupt ==
    /\ player.ready
    /\ Halt("paused")
    /\ wanted' = "still"
    /\ UNCHANGED <<mode, audio, overtaken>>

\* beginPreviewScrub, finishPreviewScrub; the buttons resume it as well.
WasPlaying == player.playing

\* seekToEditedTime
Seek(i, resume) ==
    LET stopped == [j \in Tasks |-> Cancelled(task[j], j, TRUE)] IN
    /\ player.op < MaxOps /\ task[i].pc = "none"
    /\ resume => WasPlaying
    /\ player' = [op |-> player.op + 1, ready |-> FALSE, holding |-> FALSE, cutSeek |-> FALSE,
                  playing |-> FALSE, transport |-> "paused"]
    /\ Stopped
    /\ fade' = CancelledFade
    /\ task' = [stopped EXCEPT ![i] = [pc |-> "first", op |-> player.op + 1, aud |-> audio, user |-> FALSE,
                                       resume |-> resume, sought |-> "waiting", played |-> "no"]]
    /\ seeker' = i /\ paused' = TRUE
    /\ wanted' = IF resume THEN "playing" ELSE "still"
    /\ UNCHANGED <<mode, audio, overtaken>>

\* A new narration: the effect on narrationAudioUrl.
NarrationChanges ==
    /\ Narrated /\ audio < MaxAudio
    /\ Halt("paused")
    /\ audio' = audio + 1
    /\ wanted' = "still"
    /\ UNCHANGED <<mode, overtaken>>

\* ... and then it is loaded ahead.
LoadAhead ==
    /\ Narrated /\ engine.url # audio /\ engine.source = 0
    /\ engine' = [engine EXCEPT !.url = audio, !.buffer = 0]
    /\ UNCHANGED <<mode, player, paused, seeker, task, fade, audio, wanted, overtaken>>

Loaded ==
    /\ engine.url # 0 /\ engine.buffer = 0
    /\ \/ engine' = [engine EXCEPT !.buffer = engine.url]
       \/ engine' = [engine EXCEPT !.url = 0]
    /\ UNCHANGED <<mode, player, paused, seeker, task, fade, audio, wanted, overtaken>>

\* The seek arrives, or not within two seconds.
SeekEnds(i) ==
    /\ seeker = i
    /\ \E s \in {"true", "false"} : task' = [task EXCEPT ![i].sought = s]
    /\ seeker' = "none"
    /\ UNCHANGED <<mode, player, paused, engine, fade, audio, wanted, overtaken>>

LeftSeekEnds ==
    /\ seeker = "left" /\ seeker' = "none"
    /\ UNCHANGED <<mode, player, paused, engine, task, fade, audio, wanted, overtaken>>

-------------------------------------------------------------------------------
(* playPreviewFromEditedTime                                                *)

Ends(i) == task' = [task EXCEPT ![i] = None]
Rest == UNCHANGED <<mode, audio, wanted, overtaken>>

\* Mutant: what waited goes on whoever came since.
SupersededNever(i) == FALSE
Superseded(i) == task[i].op # player.op

\* togglePlayback pauses what did not start; a seek that resumes leaves the
\* transport as it is.
Fails(i, thrown) ==
    IF ~Superseded(i) /\ (thrown \/ task[i].user)
      THEN /\ player.op < MaxOps
           /\ player' = [op |-> player.op + 1, ready |-> FALSE, holding |-> FALSE, cutSeek |-> FALSE,
                         playing |-> FALSE, transport |-> "paused"]
           /\ Stopped
           /\ task' = [j \in Tasks |-> IF j = i THEN None ELSE Cancelled(task[j], j, TRUE)]
           /\ fade' = CancelledFade /\ seeker' = "none" /\ paused' = TRUE
      ELSE /\ Ends(i)
           /\ seeker' = IF seeker = i THEN "left" ELSE seeker
           /\ UNCHANGED <<player, engine, fade, paused>>

\* seekToEditedTime: the seek before anything else.
First(i) ==
    /\ task[i].pc = "first" /\ task[i].sought # "waiting"
    /\ IF Superseded(i) \/ task[i].sought = "false" \/ ~task[i].resume
         THEN Ends(i) /\ UNCHANGED player
         ELSE /\ task' = [task EXCEPT ![i].pc = "resume", ![i].sought = "no"]
              /\ player' = [player EXCEPT !.transport = IF Narrated THEN "loading" ELSE "paused"]
    /\ UNCHANGED <<paused, engine, seeker, fade>> /\ Rest

\* context.resume() is answered in the order it was asked; it may be refused.
Resumed(i) ==
    /\ task[i].pc = "resume"
    /\ \A j \in Tasks : task[j].pc = "resume" => task[i].op <= task[j].op
    /\ \/ /\ Narrated => engine.url = task[i].aud
          /\ task' = [task EXCEPT ![i].pc = IF Narrated THEN "load" ELSE "loaded"]
          /\ UNCHANGED <<engine, player, seeker, fade, paused>>
       \/ /\ Narrated /\ engine.url # task[i].aud
          /\ engine' = [url |-> task[i].aud, buffer |-> 0, source |-> 0]
          /\ task' = [task EXCEPT ![i].pc = "load"]
          /\ UNCHANGED <<player, seeker, fade, paused>>
       \/ Fails(i, TRUE)
    /\ Rest

Load(i) ==
    /\ task[i].pc = "load"
    /\ \/ /\ engine.url = task[i].aud /\ engine.buffer = task[i].aud
          /\ task' = [task EXCEPT ![i].pc = "loaded"]
          /\ UNCHANGED <<player, engine, seeker, fade, paused>>
       \/ engine.url # task[i].aud /\ Fails(i, TRUE)
    /\ Rest

StartsSeek(i) ==
    /\ task[i].pc = "loaded"
    /\ \/ /\ Superseded(i) /\ Fails(i, FALSE)
       \/ /\ ~Superseded(i) /\ task[i].sought = "no"
          /\ SeekOf(i, [pc |-> "seek"])
          /\ UNCHANGED <<player, engine, paused>>
       \/ /\ ~Superseded(i) /\ task[i].sought # "no"
          /\ task' = [task EXCEPT ![i].pc = "seek"]
          /\ UNCHANGED <<player, engine, seeker, fade, paused>>
    /\ Rest

Sought(i) ==
    /\ task[i].pc = "seek" /\ task[i].sought # "waiting"
    /\ IF Superseded(i) \/ task[i].sought = "false" THEN Fails(i, FALSE)
       ELSE /\ task' = [task EXCEPT ![i].pc = "play", ![i].played = IF @ = "no" THEN "waiting" ELSE @]
            /\ paused' = IF task[i].played = "no" THEN FALSE ELSE paused
            /\ player' = [player EXCEPT !.holding = FALSE, !.ready = FALSE]
            /\ UNCHANGED <<engine, seeker, fade>>
    /\ Rest

\* startPreviewNarrationSource
Played(i) ==
    /\ task[i].pc = "play"
    /\ IF task[i].played = "refused" \/ (Narrated /\ engine.buffer = 0 /\ ~Superseded(i)) THEN Fails(i, TRUE)
       ELSE /\ Ends(i)
            /\ UNCHANGED <<seeker, fade>>
            /\ IF Superseded(i) THEN paused' = TRUE /\ UNCHANGED <<player, engine>>
               ELSE /\ engine' = IF Narrated THEN [engine EXCEPT !.source = task[i].op] ELSE engine
                    /\ player' = [player EXCEPT !.ready = TRUE, !.playing = TRUE, !.transport = "playing"]
                    /\ UNCHANGED paused
    /\ Rest

-------------------------------------------------------------------------------
(* While it plays.                                                          *)

\* The narration or the last range is over; over the whole video only the
\* narration stops.
NarrationEnds ==
    /\ Narrated /\ engine.source # 0
    /\ IF mode = "full"
         THEN /\ player' = [player EXCEPT !.ready = FALSE]
              /\ Stopped
              /\ UNCHANGED <<paused, seeker, task, fade>>
         ELSE Halt("ended")
    /\ Rest

VideoEnds == ~paused /\ ~player.holding /\ Halt("ended") /\ Rest

\* The frame loop moves a video that has drifted from its narration, and
\* starts it again if it stands.
Drifts ==
    /\ Narrated /\ player.playing /\ player.ready /\ ~player.holding /\ ~paused /\ seeker = "none"
    /\ seeker' = "frame"
    /\ player' = [player EXCEPT !.cutSeek = TRUE]
    /\ UNCHANGED <<paused, engine, task, fade>> /\ Rest

Caught ==
    /\ seeker = "frame"
    /\ seeker' = "none"
    /\ player' = [player EXCEPT !.cutSeek = FALSE]
    /\ \/ UNCHANGED paused
       \/ player.ready /\ paused' = FALSE
    /\ UNCHANGED <<engine, task, fade>> /\ Rest

\* Spoken: handleVideoTimeUpdate finds the video in a cut.
FadeStarts ==
    /\ ~Narrated /\ ~paused /\ ~player.cutSeek /\ fade.pc = "none"
    /\ fade' = [pc |-> "fading", op |-> player.op, sought |-> "no"]
    /\ player' = [player EXCEPT !.cutSeek = TRUE]
    /\ UNCHANGED <<paused, engine, seeker, task>> /\ Rest

FadeSeeks ==
    /\ fade.pc = "fading"
    /\ fade' = [fade EXCEPT !.pc = "seek", !.sought = "waiting"]
    /\ Interrupted
    /\ seeker' = "fade" /\ paused' = TRUE
    /\ player' = [player EXCEPT !.playing = FALSE, !.transport = "paused"]
    /\ UNCHANGED engine /\ Rest

\* It was playing when it began.
FadeEnds ==
    /\ fade.pc = "seek"
    /\ \E s \in (IF fade.sought = "waiting" THEN {"true", "false"} ELSE {fade.sought}) :
          /\ paused' = (s = "false")
          /\ player' = [player EXCEPT !.cutSeek = FALSE, !.playing = s = "true",
                                      !.transport = IF s = "true" THEN "playing" ELSE "paused"]
          /\ overtaken' = (overtaken \/ (s = "true" /\ fade.op # player.op))
    /\ fade' = None
    /\ seeker' = IF seeker = "fade" THEN "none" ELSE seeker
    /\ UNCHANGED <<mode, engine, task, audio, wanted>>

\* moveToNextKeptRange: no range follows.
LastRangeEnds ==
    /\ ~Narrated /\ ~paused /\ ~player.cutSeek
    /\ paused' = TRUE
    /\ player' = [player EXCEPT !.playing = FALSE, !.transport = "paused"]
    /\ task' = [i \in Tasks |-> Cancelled(task[i], "nobody", TRUE)]
    /\ UNCHANGED <<engine, seeker, fade>> /\ Rest

-------------------------------------------------------------------------------
Next ==
    \/ TogglePause \/ Interrupt \/ NarrationChanges \/ LoadAhead \/ Loaded \/ LeftSeekEnds
    \/ \E i \in Tasks :
          TogglePlay(i) \/ Seek(i, TRUE) \/ Seek(i, FALSE) \/ SeekEnds(i) \/ First(i) \/ Resumed(i)
          \/ Load(i) \/ StartsSeek(i) \/ Sought(i) \/ Played(i)
    \/ NarrationEnds \/ VideoEnds \/ Drifts \/ Caught
    \/ FadeStarts \/ FadeSeeks \/ FadeEnds \/ LastRangeEnds

Spec == Init /\ [][Next]_pvars

-------------------------------------------------------------------------------
TypeOK ==
    /\ player.op \in 0..MaxOps /\ engine.url \in 0..MaxAudio /\ engine.source \in 0..MaxOps
    /\ seeker \in Tasks \cup {"none", "left", "frame", "fade"}

\* A narration sounds only for the operation that is current, while it plays,
\* and it is the narration the page has now.
SoundsWhatIsPlaying ==
    engine.source # 0 => /\ player.ready /\ player.transport = "playing"
                         /\ engine.source = player.op /\ engine.buffer = audio

\* Once the person has stopped the preview and nothing is on its way, the
\* video stands, unless a crossfade started it again.
StandsWhenStopped ==
    (wanted = "still" /\ ~overtaken /\ \A i \in Tasks : ~IsOperation(task[i])) => paused

\* Nobody waits for a seek that will never be answered.
SeeksAreAnswered ==
    \A i \in Tasks : (task[i].pc # "none" /\ task[i].sought = "waiting") => seeker = i
===============================================================================
