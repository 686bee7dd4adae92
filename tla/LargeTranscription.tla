--------------------------- MODULE LargeTranscription ---------------------------
(***************************************************************************)
(* app/page.tsx and lib/transcription-media.ts: the sound of a large video *)
(* is taken out in the browser and put to /api/transcribe piece by piece.  *)
(* It is decoded beforehand where it is short, copied packet by packet     *)
(* where it is not, and decoded by the browser as a whole when both fail.  *)
(* The answers are put together on the video's clock.  What the server     *)
(* says and what can be read of the file are the environment's.            *)
(***************************************************************************)
EXTENDS Integers, SequencesExt

CONSTANTS
    MaxSeconds,  \* TRANSCRIPTION_AUDIO_CHUNK_SECONDS
    MaxDecoded,  \* MAX_NORMALIZED_DECODE_DURATION_SECONDS
    MaxRoom,     \* DEFAULT_MAX_AUDIO_CHUNK_BYTES
    MinRoom,     \* MIN_AUDIO_CHUNK_BYTES
    SoundSet     \* bound: [duration, packets, bitrate, decodes, copies, small], a packet [at, size]

VARIABLES
    sound,         \* the video's audio track
    at,            \* "open", "normalize", "copy", "send", "fallback", "done", "thrown"
    path,          \* what the piece at hand comes from: "normalized", "copied", "decoded"
    room,          \* maxChunkBytes
    seconds,       \* chunkSeconds
    start,         \* chunkStart
    pieces,        \* what is prepared and not yet sent
    merged,        \* the pieces answered
    heard,         \* a caption came of them
    sent,          \* pieces put to the server, of all passes
    restarts,      \* passes begun again from the start
    signal         \* the caller's: aborted

ltvars == <<sound, at, path, room, seconds, start, pieces, merged, heard, sent, restarts, signal>>

Packets == sound.packets
Smaller(a, b) == IF a < b THEN a ELSE b
Larger(a, b) == IF a < b THEN b ELSE a

\* A piece: where its clock begins, the packets or seconds from..to - 1 that it
\* holds, and its bytes.
Piece(of, begin, from, to, bytes) == [of |-> of, begin |-> begin, from |-> from, to |-> to, bytes |-> bytes]

-------------------------------------------------------------------------------
(* The lengths of the pieces: three quarters of the room.                   *)

Target == (3 * Larger(MinRoom, room)) \div 4

\* getSafeAudioChunkSeconds; 0 stands for a bitrate that is not known.
SafeSeconds ==
    IF sound.bitrate = 0 THEN MaxSeconds
    ELSE Larger(1, Smaller(MaxSeconds, Target \div sound.bitrate))

\* getNormalizedAudioChunkSeconds, a byte a second
NormalizedSeconds == Larger(1, Smaller(MaxSeconds, Target))

\* buildNormalizedAudioChunkWindows, and the windows of transcribeLargeVideo
Windows(length) ==
    [i \in 1..((sound.duration + length - 1) \div length) |->
        LET from == (i - 1) * length
            to == Smaller(from + length, sound.duration)
        IN Piece("seconds", from, from, to, to - from)]

-------------------------------------------------------------------------------
(* The packets of a piece.                                                  *)

\* EncodedPacketSink.getPacket: the last that begins by then, 0 for none.
PacketAt(t) == SelectLastInSeq(Packets, LAMBDA p : p.at <= t)

\* Mutant: the packet that sounds at the cut belongs to both pieces.
FromSounding(t) == IF PacketAt(t) = 0 THEN 1 ELSE PacketAt(t)

\* The first that begins then or later; the first of all where none is before.
From(t) ==
    LET i == PacketAt(t) IN
    IF i = 0 THEN 1 ELSE IF Packets[i].at < t THEN i + 1 ELSE i

\* The first that is left out, beyond the last where all belong; none is left
\* out where the piece ends before the sound begins.
To(t) ==
    LET i == PacketAt(t) IN
    IF i = 0 THEN Len(Packets) + 1 ELSE IF Packets[i].at < t THEN i + 1 ELSE i

Size(from, to) == FoldLeft(LAMBDA n, p : n + p.size, 0, SubSeq(Packets, from, to - 1))

-------------------------------------------------------------------------------
Aborted == signal = "aborted"

Throw == at' = "thrown" /\ UNCHANGED <<path, room, seconds, start, pieces, merged, heard, sent, restarts>>

\* An error that is neither the caller's abort nor an answer of the server's
\* leaves the pass for the browser's decoder.
GiveUp ==
    /\ at' = "fallback"
    /\ UNCHANGED <<path, room, seconds, start, pieces, merged, heard, sent, restarts>>

\* The input cannot be read, or has no track that can be decoded or copied.
Open ==
    /\ at = "open"
    /\ \/ Aborted /\ restarts = 0 /\ Throw
       \/ GiveUp
       \/ /\ at' = IF sound.decodes /\ sound.duration <= MaxDecoded THEN "normalize" ELSE "copy"
          /\ seconds' = SafeSeconds /\ start' = 0 /\ path' = "copied"
          /\ UNCHANGED <<room, pieces, merged, heard, sent, restarts>>
    /\ UNCHANGED <<sound, signal>>

\* collectNormalizedDecodedChunks: all is prepared before the first is sent.
Prepare ==
    /\ at = "normalize"
    /\ pieces' = Windows(NormalizedSeconds)
    /\ \A i \in 1..Len(pieces') : pieces'[i].bytes <= room
    /\ at' = "send" /\ path' = "normalized"
    /\ UNCHANGED <<sound, room, seconds, start, merged, heard, sent, restarts, signal>>

\* A window that cannot be decoded sends the whole track the other way.
PrepareFails ==
    /\ at = "normalize"
    /\ at' = "copy"
    /\ UNCHANGED <<sound, path, room, seconds, start, pieces, merged, heard, sent, restarts, signal>>

\* A pass ends: without a single piece the browser's decoder is tried.
EndPass == at' = IF merged = <<>> THEN "fallback" ELSE "done"

\* extractTranscriptionAudioChunks: one more piece of packets, shorter ones
\* from then on where it has become too large.
Copy ==
    /\ at = "copy"
    /\ LET end == Smaller(sound.duration, start + seconds)
           from == From(start)
           to == To(end)
           bytes == Size(from, to)
           more == start < sound.duration /\ from <= Len(Packets)
       IN \/ /\ ~sound.copies \/ (more /\ (from >= to \/ (bytes > room /\ seconds = 1)))
             /\ GiveUp
          \/ /\ sound.copies /\ ~more
             /\ EndPass
             /\ UNCHANGED <<path, room, seconds, start, pieces, merged, heard, sent, restarts>>
          \/ /\ sound.copies /\ more /\ from < to /\ bytes > room /\ seconds > 1
             /\ seconds' = Larger(1, seconds \div 2)
             /\ UNCHANGED <<at, path, room, start, pieces, merged, heard, sent, restarts>>
          \/ /\ sound.copies /\ more /\ from < to /\ bytes <= room
             /\ pieces' = <<Piece("packets", Packets[from].at, from, to, bytes)>>
             /\ at' = "send" /\ start' = end
             /\ UNCHANGED <<path, room, seconds, merged, heard, sent, restarts>>
    /\ UNCHANGED <<sound, signal>>

\* A packet cannot be read or written.
CopyFails ==
    /\ at = "copy" /\ GiveUp
    /\ UNCHANGED <<sound, signal>>

-------------------------------------------------------------------------------
(* transcribeMediaFile                                                      *)

Sending == at = "send" /\ pieces # <<>>
Goes == sent' = Append(sent, Head(pieces))

\* The captions of the piece, or silence, join those before it.
Answered ==
    /\ Sending /\ ~Aborted /\ Goes
    /\ merged' = Append(merged, Head(pieces))
    /\ heard' \in {heard, TRUE}
    /\ pieces' = Tail(pieces)
    /\ at' = IF path = "copied" THEN "copy" ELSE "send"
    /\ UNCHANGED <<sound, path, room, seconds, start, restarts, signal>>

\* Mutant: what was heard before the restart is kept.
AgainKeeping == UNCHANGED <<merged, heard>>

Again == merged' = <<>> /\ heard' = FALSE

\* 413: from the start, with half the room.
TooLarge ==
    /\ Sending /\ ~Aborted /\ path # "decoded" /\ room > MinRoom
    /\ Goes /\ Again
    /\ room' = Larger(MinRoom, room \div 2)
    /\ at' = "open" /\ pieces' = <<>> /\ restarts' = restarts + 1
    /\ UNCHANGED <<sound, path, seconds, start, signal>>

\* Any other refusal is the caller's.
Refused ==
    /\ Sending /\ ~Aborted
    /\ Goes /\ at' = "thrown"
    /\ UNCHANGED <<sound, path, room, seconds, start, pieces, merged, heard, restarts, signal>>

\* The network fails, or the answer has no captions: no answer of the server's.
Lost ==
    /\ Sending /\ ~Aborted /\ Goes
    /\ at' = IF path = "decoded" THEN "thrown" ELSE "fallback"
    /\ UNCHANGED <<sound, path, room, seconds, start, pieces, merged, heard, restarts, signal>>

\* throwIfProcessingAborted, or the fetch that the signal ends.
Stopped ==
    /\ Sending /\ Aborted
    /\ at' = "thrown" /\ sent' \in {sent, Append(sent, Head(pieces))}
    /\ UNCHANGED <<sound, path, room, seconds, start, pieces, merged, heard, restarts, signal>>

\* All prepared pieces are answered; the browser's decoder must have heard something.
AllSent ==
    /\ at = "send" /\ pieces = <<>>
    /\ at' = IF path = "decoded" /\ ~heard THEN "thrown" ELSE "done"
    /\ UNCHANGED <<sound, path, room, seconds, start, pieces, merged, heard, sent, restarts, signal>>

-------------------------------------------------------------------------------
\* The browser decodes the file as a whole, where it is small, and begins anew.
Decode ==
    /\ at = "fallback"
    /\ \/ Throw
       \/ /\ sound.small /\ ~Aborted
          /\ pieces' = Windows(MaxSeconds) /\ path' = "decoded" /\ at' = "send" /\ Again
          /\ restarts' = restarts + IF sent = <<>> THEN 0 ELSE 1
          /\ UNCHANGED <<room, seconds, start, sent>>
    /\ UNCHANGED <<sound, signal>>

Abort ==
    /\ signal = "live" /\ at \notin {"done", "thrown"}
    /\ signal' = "aborted"
    /\ UNCHANGED <<sound, at, path, room, seconds, start, pieces, merged, heard, sent, restarts>>

-------------------------------------------------------------------------------
LtInit ==
    /\ sound \in SoundSet
    /\ at = "open" /\ path = "copied" /\ room = MaxRoom /\ seconds = MaxSeconds /\ start = 0
    /\ pieces = <<>> /\ merged = <<>> /\ heard = FALSE /\ sent = <<>> /\ restarts = 0 /\ signal = "live"

LtNext ==
    \/ Open \/ Prepare \/ PrepareFails \/ Copy \/ CopyFails \/ Answered \/ TooLarge \/ Refused \/ Lost \/ Stopped
    \/ AllSent \/ Decode \/ Abort

LtSpec == LtInit /\ [][LtNext]_ltvars

-------------------------------------------------------------------------------
LtTypeOK ==
    /\ at \in {"open", "normalize", "copy", "send", "fallback", "done", "thrown"}
    /\ path \in {"normalized", "copied", "decoded"} /\ room \in MinRoom..MaxRoom
    /\ seconds \in 1..MaxSeconds /\ start \in 0..sound.duration
    /\ heard \in BOOLEAN /\ signal \in {"live", "aborted"}

\* The sound begins within the first piece, however short.
BeginsAtOnce == Packets # <<>> /\ Packets[1].at < 1

\* The captions are of the whole sound: the pieces put together cover it from
\* its beginning to its end, each part of it once and in its place, whatever
\* was begun again; but copied pieces of a sound that begins late overlap.
CaptionsOfTheWhole ==
    at = "done" =>
        /\ merged # <<>>
        /\ path = "copied" /\ BeginsAtOnce =>
              /\ merged[1].from = From(0) /\ Last(merged).to = To(sound.duration)
              /\ \A i \in 1..Len(merged) : merged[i].begin = Packets[merged[i].from].at
        /\ path # "copied" =>
              /\ merged[1].from = 0 /\ Last(merged).to = sound.duration
              /\ \A i \in 1..Len(merged) : merged[i].begin = merged[i].from
        /\ path # "copied" \/ BeginsAtOnce =>
              \A i \in 1..Len(merged) - 1 : merged[i].to = merged[i + 1].from

\* "direct-copy fallback cannot duplicate billing": the server is asked for a
\* part of the sound once, and once more for each time it was begun again.
AskedOncePerPass ==
    BeginsAtOnce =>
        \A i \in 1..Len(Packets) :
            Len(SelectSeq(sent, LAMBDA p : IF p.of = "packets" THEN i \in p.from..p.to - 1
                                           ELSE Packets[i].at \in p.from..p.to - 1)) <= 1 + restarts

\* Whatever is sent of the first two ways has room in a request.
PiecesFit == at = "send" /\ path # "decoded" => \A i \in 1..Len(pieces) : pieces[i].bytes <= room
===============================================================================
