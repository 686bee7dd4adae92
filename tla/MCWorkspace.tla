------------------------------ MODULE MCWorkspace ------------------------------
(* The components of PageReservations and Workspace, and what plays, plans  *)
(* and exports in the customer's page, each on its small instance.          *)
EXTENDS Workspace, TLC

CONSTANTS n1, n2, a1, a2, s1

\* Two tabs, requests, posts or runs are alike.
Alike == Permutations({n1, n2})

MCSettingsBounds == {
    [choices |-> 5, loads |-> 2, files |-> 0, faults |-> 1], [choices |-> 4, loads |-> 1, files |-> 2, faults |-> 0]}
MCPagesBounds == {
    [releases |-> {n1, n2}, looks |-> 1, lag |-> FALSE], [releases |-> {n1}, looks |-> 2, lag |-> TRUE]}
MCEditingBounds == {
    [gens |-> 4, reserved |-> 2, lost |-> 0, choices |-> 1], [gens |-> 3, reserved |-> 2, lost |-> 1, choices |-> 1],
    [gens |-> 3, reserved |-> 2, lost |-> 0, choices |-> 2]}
MCMixBounds == {[keys |-> 2, faults |-> 1, lapses |-> 0], [keys |-> 1, faults |-> 2, lapses |-> 1]}

-------------------------------------------------------------------------------
(* Bounds of the pure algorithms: videos, transcripts, files and pictures.  *)

Span(a, b) == [start |-> a, end |-> b]
Source(d, clips) == [bytes |-> 1, duration |-> d, clips |-> clips]

SceneSources == {
    Source(4, <<Span(0, 4)>>), Source(5, <<Span(0, 1), Span(2, 6)>>), Source(3, <<Span(0, 2), Span(1, 3)>>)}
SceneOverrides ==
    [type : {"cut", "fade"}, duration : {3}] \cup {[type |-> "none", duration |-> 0], [type |-> "blend", duration |-> 1]}
Scripts == [1..2 -> [weight : {1, 3}, scene : {0, 3}]]

\* Two segments of speech and, as the service gives them, words or none.
Said(a, b, text) == [start |-> a, end |-> b, text |-> text]
Texts ==
    UNION {[1..n -> {0, 1, 9}] : n \in {1, 2, 5}}
        \cup {<<9, 3, 9, 9, 2, 9, 9, 3>>, <<9, 9, 9, 9, 9, 9, 9>>, <<9, 9, 9, 1, 9, 9, 9, 9, 9>>}
Heard == {
    <<Said(0, 1, <<9>>), Said(1, 2, <<9, 0>>), Said(3, 5, <<9>>), Said(5, 8, <<9, 9>>)>>,
    <<Said(4, 5, <<9, 1>>), Said(0, 4, <<9>>), Said(5, 5, <<9>>), Said(6, 10, <<9, 9, 9, 9, 9>>)>>}
Transcripts ==
    {[segments |-> <<Said(0, 4, t), Said(4 + h, 10, b)>>, words |-> w] :
        t \in Texts, b \in {<<9>>, <<9, 9>>, <<9, 0, 1, 9, 9>>}, h \in {0, 3}, w \in Heard}

Shown(a, b, n) == [start |-> a, end |-> b, chars |-> n]
Timelines ==
    {<<Shown(0, a, m), Shown(a + g, a + g + b, n), Shown(a + g + b + h, a + g + b + h + 2, k)>> :
        a \in {1, 4}, b \in {1, 3}, g \in {0, 1}, h \in {0, 3}, m \in {1, 5}, n \in {0, 2, 8}, k \in {4}}
KeptRanges == {<<Span(0, 12)>>, <<Span(0, 5), Span(6, 11)>>, <<Span(0, 3), Span(5, 8)>>, <<Span(1, 9)>>}
Activities == {
    <<>>, <<Span(0, 2), Span(3, 5), Span(7, 12)>>, <<Span(1, 6)>>, <<Span(0, 1), Span(4, 5)>>, <<Span(20, 22)>>}

ExportRanges == {
    <<Span(0, 4), Span(8, 12)>>, <<Span(8, 14), Span(0, 6), Span(4, 6)>>, <<Span(2, 4), Span(6, 8), Span(10, 12)>>,
    <<Span(0, 2), Span(2, 10)>>, <<Span(4, 4)>>, <<Span(0, 6), Span(10, 12)>>}
Buffer(a, n) == [at |-> a, length |-> n]
Buffers == {
    <<Buffer(0, 12)>>, <<Buffer(0, 4), Buffer(4, 4), Buffer(8, 4)>>, [k \in 1..6 |-> Buffer(2 * (k - 1), 2)], <<>>,
    <<Buffer(0, 10), Buffer(10, 2)>>, <<Buffer(0, 6), Buffer(10, 2)>>, <<Buffer(0, 4)>>}
Levels == {
    <<0, 0, 3, 0, 0, 0, 0, 3, 3, 0, 0, 0>>, <<3, 0, 0, 0, 0, 0, 0, 0, 0, 0, 0, 3>>, <<0, 0, 0>>,
    <<0, 3, 0, 3, 3, 0, 0, 0, 0, 0, 0, 0>>}
Plays == [offset : {0, 4}, rate : {1, 2}, length : {8, 12}]

MixSources == {Source(5, <<Span(0, 2), Span(2, 5)>>), Source(4, <<Span(1, 4)>>)}
MixOverrides == [type : {"cut", "blend", "fade"}, duration : {2}]
File(opens, audio, length) == [opens |-> opens, audio |-> audio, length |-> length]
Good == File("yes", "sounds", 5)
MixFiles == {
    <<Good, Good, Good>>, <<Good, File("no", "sounds", 5), Good>>, <<File("breaks", "sounds", 5), Good, Good>>,
    [k \in 1..3 |-> File("yes", "none", 4)], <<File("yes", "undecodable", 5), Good, Good>>,
    <<File("yes", "silent", 4), File("yes", "none", 5), Good>>}
Wish(purpose, gain, narration, roomy) ==
    [purpose |-> purpose, gain |-> gain, narration |-> narration, roomy |-> roomy]
Wishes == {
    Wish("export", 1, "none", TRUE), Wish("export", 1, "speech", TRUE), Wish("export", 0, "none", TRUE),
    Wish("export", 0, "silence", TRUE), Wish("export", 1, "unreadable", TRUE), Wish("export", 1, "none", FALSE),
    Wish("captions", 1, "none", TRUE)}

Track(p, d, m) == [priority |-> p, decodable |-> d, primary |-> m]
Clip(kind, tracks, small, video) == [kind |-> kind, tracks |-> tracks, small |-> small, video |-> video]
ClipFiles == {
    Clip("readable", <<Track(0, TRUE, TRUE)>>, TRUE, TRUE), Clip("readable", <<>>, TRUE, TRUE),
    Clip("readable", <<Track(2, FALSE, TRUE), Track(1, TRUE, FALSE), Track(0, TRUE, FALSE)>>, FALSE, TRUE),
    Clip("readable", <<Track(2, FALSE, FALSE), Track(2, FALSE, TRUE)>>, TRUE, TRUE),
    Clip("readable", <<Track(2, FALSE, FALSE)>>, FALSE, TRUE),
    Clip("readable", <<Track(0, TRUE, TRUE)>>, TRUE, FALSE), Clip("unreadable", <<Track(0, TRUE, TRUE)>>, TRUE, TRUE)}

Packet(t, size) == [at |-> t, size |-> size]
Sound(length, packets, bitrate, decodes, copies, small) ==
    [duration |-> length, packets |-> packets, bitrate |-> bitrate,
     decodes |-> decodes, copies |-> copies, small |-> small]
Even(n) == [i \in 1..n |-> Packet(i - 1, 1)]
Sounds == {
    Sound(5, Even(5), 1, TRUE, TRUE, TRUE), Sound(7, Even(7), 0, TRUE, TRUE, TRUE), Sound(4, Even(4), 1, TRUE, FALSE, FALSE),
    Sound(6, <<Packet(-1, 1), Packet(0, 2), Packet(1, 2), Packet(3, 2), Packet(5, 1)>>, 1, FALSE, TRUE, TRUE),
    Sound(7, <<Packet(0, 1), Packet(1, 1), Packet(6, 1)>>, 1, FALSE, TRUE, TRUE),
    Sound(6, <<Packet(0, 1), Packet(1, 3), Packet(2, 3), Packet(4, 2)>>, 0, FALSE, TRUE, FALSE),
    Sound(5, <<Packet(4, 1)>>, 0, FALSE, TRUE, TRUE), Sound(3, <<>>, 0, TRUE, TRUE, TRUE)}

Look(transition, length, weights) == [transition |-> transition, length |-> length, weights |-> weights]
Templates == {
    Look("crossfade", 9, <<4, 5, 4>>), Look("flash", 2, <<4, 6, 5, 6, 4>>), Look("slide", 4, <<5, 4>>)}
Photos == {<<"a", "b", "c">>, <<"a", "b", "c", "d">>, <<"a", "a", "c">>, <<"a", "b">>}
Tune(levels) == [levels |-> levels, length |-> Len(levels)]
Music == {
    Tune(<<>>), Tune(<<0, 0, 5, 0, 0, 0, 0, 0, 9, 0, 0, 3, 0, 0, 0, 0, 0, 9, 0, 4, 0>>),
    Tune(<<1, 1, 7, 1, 9, 1, 1, 1, 1, 5, 1, 1>>), Tune(<<0, 0, 0, 0, 0>>),
    Tune([i \in 1..48 |-> IF i % 7 = 3 THEN 9 ELSE IF i % 5 = 0 THEN 6 ELSE 0]),
    Tune([i \in 1..48 |-> IF i = 21 THEN 12 ELSE IF i \in {17, 33, 38} THEN 9 ELSE 0])}
PictureSubjects ==
    [w : {2, 3}, h : {2, 5}, out : {[w |-> 2, h |-> 3]},
     focus : {[x |-> 10, y |-> 90], [x |-> 95, y |-> 0], [x |-> 50, y |-> 50]}, sure : {0, 30, 100}]

-------------------------------------------------------------------------------
Preview == INSTANCE PreviewPlayer WITH
    Tasks <- {"p1", "p2"}, MaxOps <- 3, MaxAudio <- 2, mode <- x1,
    player <- x2, paused <- x3, engine <- x4, seeker <- x5, task <- x6,
    fade <- x7, audio <- x8, wanted <- x9, overtaken <- x10

Plan == INSTANCE EditPlan WITH
    JoinGap <- 3, SentenceGap <- 4, BlockLength <- 7, UnitLength <- 6,
    NearbySilence <- 4, Handle <- 1, Tolerance <- 1, ShortestPiece <- 1,
    NearEnough <- 2, Gaps <- {0, 2}, Lengths <- {1, 5}, Targets <- {3},
    Captions <- 3, captions <- x1, target <- x2, planned <- x3

Scenes == INSTANCE SceneTimeline WITH
    MaxSources <- 2, MaxClips <- 2, MaxTransition <- 3, MaxBytes <- 2,
    Tolerance <- 1, Frame <- 2, MaxAggregate <- 11, MaxOutput <- 9,
    Slack <- 0, ShortestLine <- 1, SourceSet <- SceneSources,
    OverrideSet <- SceneOverrides, ScriptSet <- Scripts, AudioSet <- {3, 14},
    sources <- x1, transition <- x2, overrides <- x3, composed <- x4,
    plan <- x5, script <- x6, audio <- x7

Lines == INSTANCE Captions WITH
    MinChars <- 2, MaxChars <- 4, IdealChars <- 3, ShortChars <- 1,
    MergeGap <- 1, MergeSlack <- 1, TranscriptSet <- Transcripts,
    transcript <- x1, byWords <- x2, built <- x3, captions <- x4

Display == INSTANCE CaptionDisplay WITH
    MinDisplay <- 2, TicksPerChar <- 1, Padding <- 1, SpeechGap <- 0,
    CaptionSet <- Timelines, RangeSet <- KeptRanges,
    ActivitySet <- Activities, timeline <- x1, kept <- x2, activity <- x3,
    way <- x4, windows <- x5

Export == INSTANCE ExportTimeline WITH
    Frame <- 2, Crossfade <- 6, CutFade <- 2, Attack <- 1, Release <- 2,
    PadBefore <- 1, PadAfter <- 2, Level <- 2, Threshold <- 2,
    RangesSet <- ExportRanges, BuffersSet <- Buffers, LevelsSet <- Levels,
    PlaySet <- Plays, asked <- x1, speech <- x2, exported <- x3

MixExport == INSTANCE VideoMixExport WITH
    MaxSources <- 2, MaxClips <- 2, MaxTransition <- 3, MaxBytes <- 2,
    Tolerance <- 1, Frame <- 2, MaxAggregate <- 10, MaxOutput <- 9,
    CutFade <- 2, SourceSet <- MixSources, OverrideSet <- MixOverrides,
    FileSet <- MixFiles, WishSet <- Wishes, sources <- x1, transition <- x2,
    overrides <- x3, composed <- x4, plan <- x5, files <- x6, wish <- x7,
    phase <- x8, inputs <- x9, astray <- x10, mixed <- x11, output <- x12,
    audioWrite <- x13, frame <- x14, taken <- x15, samples <- x16,
    decoders <- x17, aborted <- x18, outcome <- x19

Portable == INSTANCE PortableExport WITH
    MaxFrames <- 3, RequestSet <- [gain : {0, 1}, narration : BOOLEAN],
    ClipSet <- ClipFiles, request <- x1, clipFile <- x2, stage <- x3,
    openInput <- x4, chosen <- x5, rendered <- x6, muxer <- x7,
    audioJob <- x8, emitted <- x9, schedule <- x10, openSamples <- x11,
    leftOpen <- x12, signal <- x13, ended <- x14

Recording == INSTANCE PageExport WITH
    NumRanges <- 3,
    WorkSet <- [narrated : BOOLEAN, legacy : BOOLEAN, prepared : BOOLEAN],
    work <- x1, at <- x2, kept <- x3, tape <- x4, tapeFailed <- x5,
    taped <- x6, previewGain <- x7, context <- x8, voice <- x9, moving <- x10,
    watchers <- x11, refused <- x12, cancelled <- x13, settled <- x14,
    made <- x15

Reel == INSTANCE PhotoReel WITH
    Duration <- 48, Frame <- 3, MinPhotos <- 3, MaxPhotos <- 4, MaxSnap <- 4,
    MinSlide <- 6, MinStrength <- 12, BeatSpacing <- 3, Window <- 4,
    TemplateSet <- Templates, PhotosSet <- Photos, MusicSet <- Music,
    SubjectSet <- PictureSubjects, photos <- x1, template <- x2, music <- x3,
    beats <- x4, plan <- x5, drawn <- x6, laid <- x7

ReelExport == INSTANCE PhotoReelExport WITH
    NumFrames <- 4, MinFrames <- 3, MaxExports <- 2,
    BrowserSet <- [video : BOOLEAN, aac : BOOLEAN, package : {TRUE}, recorder : BOOLEAN, decodes : BOOLEAN],
    browser <- x1, music <- x2, at <- x3, package <- x4, frame <- x5,
    caught <- x6, muxer <- x7, audioJob <- x8, stream <- x9, context <- x10,
    tape <- x11, tapeFailed <- x12, turn <- x13, listening <- x14,
    hidden <- x15, unseen <- x16, aborted <- x17, ended <- x18, exports <- x19

Speech == INSTANCE SpeechSession WITH
    Room <- 2, MaxPieces <- 3, MaxGreets <- 3, at <- x1, aborted <- x2,
    configured <- x3, billable <- x4, chunks <- x5, answer <- x6,
    recorded <- x7, socket <- x8, said <- x9, greets <- x10

Hearing == INSTANCE TranscriptionCall WITH
    at <- x1, mode <- x2, tries <- x3, counted <- x4, result <- x5,
    aborted <- x6

Large == INSTANCE LargeTranscription WITH
    MaxSeconds <- 3, MaxDecoded <- 6, MaxRoom <- 4, MinRoom <- 2,
    SoundSet <- Sounds, sound <- x1, at <- x2, path <- x3, room <- x4,
    seconds <- x5, start <- x6, pieces <- x7, merged <- x8, heard <- x9,
    sent <- x10, restarts <- x11, signal <- x12

-------------------------------------------------------------------------------
WorkspaceInit ==
    \/ ReservingInit
    \/ KeepingInit
    \/ component = "Preview" /\ bounds = 0 /\ Preview!Init /\ Idle10
    \/ component = "Plan" /\ bounds = 0 /\ Plan!Init /\ Idle3
    \/ component = "Scenes" /\ bounds = 0 /\ Scenes!SInit /\ Idle7
    \/ component = "Lines" /\ bounds = 0 /\ Lines!CaInit /\ Idle4
    \/ component = "Display" /\ bounds = 0 /\ Display!CdInit /\ Idle5
    \/ component = "Export" /\ bounds = 0 /\ Export!EtInit /\ Idle3
    \/ component = "MixExport" /\ bounds = 0 /\ MixExport!VxInit /\ Idle19
    \/ component = "Portable" /\ bounds = 0 /\ Portable!PxInit /\ Idle14
    \/ component = "Recording" /\ bounds = 0 /\ Recording!PgInit /\ Idle15
    \/ component = "Reel" /\ bounds = 0 /\ Reel!PrInit /\ Idle7
    \/ component = "ReelExport" /\ bounds = 0 /\ ReelExport!ReInit /\ Idle19
    \/ component = "Speech" /\ bounds = 0 /\ Speech!SpInit /\ Idle10
    \/ component = "Hearing" /\ bounds = 0 /\ Hearing!TcInit /\ Idle6
    \/ component = "Large" /\ bounds = 0 /\ Large!LtInit /\ Idle12

WorkspaceNext ==
    \/ ReservingNext
    \/ KeepingNext
    \/ component = "Preview" /\ Preview!Next /\ UNCHANGED rest10
    \/ component = "Plan" /\ Plan!Next /\ UNCHANGED rest3
    \/ component = "Scenes" /\ Scenes!SNext /\ UNCHANGED rest7
    \/ component = "Lines" /\ Lines!CaNext /\ UNCHANGED rest4
    \/ component = "Display" /\ Display!CdNext /\ UNCHANGED rest5
    \/ component = "Export" /\ Export!EtNext /\ UNCHANGED rest3
    \/ component = "MixExport" /\ MixExport!VxNext /\ UNCHANGED rest19
    \/ component = "Portable" /\ Portable!PxNext /\ UNCHANGED rest14
    \/ component = "Recording" /\ Recording!PgNext /\ UNCHANGED rest15
    \/ component = "Reel" /\ Reel!PrNext /\ UNCHANGED rest7
    \/ component = "ReelExport" /\ ReelExport!ReNext /\ UNCHANGED rest19
    \/ component = "Speech" /\ Speech!SpNext /\ UNCHANGED rest10
    \/ component = "Hearing" /\ Hearing!TcNext /\ UNCHANGED rest6
    \/ component = "Large" /\ Large!LtNext /\ UNCHANGED rest12

WorkspaceSpec == WorkspaceInit /\ [][WorkspaceNext]_workspacevars

-------------------------------------------------------------------------------
\* The preview sounds and stands as the person asked, and an export, however
\* its encoder, recorder or signal ends, writes the whole of what was asked or
\* nothing, and lets go of what it opened.  SpeechSession, TranscriptionCall,
\* LargeTranscription: what a service says is taken whole, a failure called free
\* was free, and what was asked is counted once, within the time an action has.
PlayedAndWrittenWhole ==
    /\ component = "Preview" => Preview!TypeOK /\ Preview!SoundsWhatIsPlaying /\ Preview!StandsWhenStopped /\ Preview!SeeksAreAnswered
    /\ component = "MixExport" =>
          /\ MixExport!VxTypeOK /\ MixExport!DecodersAreInOrder /\ MixExport!NothingIsHeld /\ MixExport!BlobIsWhole
          /\ MixExport!NeverTwoAtFull /\ MixExport!HardCutsAreAccepted /\ MixExport!MeasuredIsBounded
    /\ component = "Portable" =>
          Portable!PxTypeOK /\ Portable!NothingRunsOn /\ Portable!BlobIsComplete /\ Portable!AskedIsHeard /\ Portable!ChosenIsBest
    /\ component = "Recording" =>
          Recording!PgTypeOK /\ Recording!PreviewIsGivenBack /\ Recording!CutIsNotRecorded /\ Recording!RecordedIsWhole /\ Recording!FileIsSettled
    /\ component = "ReelExport" => ReelExport!ReTypeOK /\ ReelExport!ReelIsLetGo /\ ReelExport!ReelIsWhole
    /\ component = "Speech" => Speech!SpTypeOK /\ Speech!FreeWasNotAsked /\ Speech!SpokenIsWhole /\ Speech!CountedAndClosed
    /\ component = "Hearing" => Hearing!TcTypeOK /\ Hearing!AsksWithinTheLease /\ Hearing!HeardIsKept
    /\ component = "Large" => Large!LtTypeOK /\ Large!CaptionsOfTheWhole /\ Large!AskedOncePerPass /\ Large!PiecesFit

\* The plans a video is cut, composed, captioned and scored by: nothing cut is
\* heard or shown, nothing kept is lost, everything is in order, within its
\* bounds and in step.
PlansAreSound ==
    /\ component = "Plan" =>
          /\ Plan!TypeOK /\ Plan!RangesAreSound /\ Plan!CutIsNotHeard /\ Plan!FitsTarget /\ Plan!SomethingIsKept
          /\ Plan!ManualIsComplement /\ Plan!ClocksAgree
    /\ component = "Scenes" =>
          /\ Scenes!CTypeOK /\ Scenes!WindowsFit /\ Scenes!FramesAreSound /\ Scenes!VisualsJoin
          /\ Scenes!ScenesPartition /\ Scenes!LinesFollowScenes
    /\ component = "Lines" =>
          Lines!CaTypeOK /\ Lines!EverythingIsCaptioned /\ Lines!CaptionsFitTheLine /\ Lines!CaptionsInOrder /\ Lines!WordsAreWhole
    /\ component = "Display" =>
          /\ Display!CdTypeOK /\ Display!OneAtATime /\ Display!NeverAcrossACut
          /\ Display!ReadableWhenThereIsTime /\ Display!InTheOrderSpoken
    /\ component = "Export" => Export!EtTypeOK /\ Export!FramesAreTheKept /\ Export!AudioIsInSync /\ Export!SpeechIsHeard
    /\ component = "Reel" =>
          Reel!PrTypeOK /\ Reel!SlidesShareTheReel /\ Reel!TransitionsEnd /\ Reel!FramesShowTheirSlide /\ Reel!PicturesFill
===============================================================================
