----------------------------- MODULE SpeechSession -----------------------------
(***************************************************************************)
(* app/api/narration/speech/route.ts: one narration spoken over a          *)
(* WebSocket of the speech service, from the call to the answer the route  *)
(* judges: its status, its sound, and whether the customer may try again   *)
(* without it having cost anything.  The service is external: it greets,   *)
(* confirms, speaks in pieces and ends, and may fail, repeat itself or     *)
(* close at any moment, as may the customer leave and the time run out.    *)
(***************************************************************************)
EXTENDS Integers, Sequences

CONSTANTS
    Room,       \* pieces a correction may be long, 0 for any length
    MaxPieces,  \* bounds of the model: pieces the service sends,
    MaxGreets   \* greetings and confirmations

VARIABLES
    at,         \* "start", "calling", "open", "recording", "answered"
    aborted,    \* the customer is gone
    configured, \* sessionConfigured
    billable,   \* billableRequestIssued, and responseRequested with it
    chunks,     \* the pieces kept
    answer,     \* what the promise is settled with
    recorded,   \* outcomes written to provider_usage_daily
    socket,     \* "none", "waiting", "open", "closed"
    said,       \* what the service was asked and sent (external)
    greets      \* (bound)

spvars == <<at, aborted, configured, billable, chunks, answer, recorded, socket, said, greets>>

NoAnswer == [status |-> 0, free |-> FALSE, sound |-> <<>>]
Failure(status, free) == [status |-> status, free |-> free, sound |-> <<>>]

\* realtimeErrorStatus
StatusOf(reason) == CASE reason = "outage" -> 502 [] reason \in {"quota", "busy"} -> 429 [] OTHER -> 400

\* isTemporaryRealtimeFailure: a quota, a key or a voice is not passing, which
\* an error event tells and a refused call, of which only the status is read,
\* does not.
PassingStatus(status) == status \in {408, 425, 429} \/ status >= 500
Temporary(reason) == reason \notin {"quota", "voice"} /\ PassingStatus(StatusOf(reason))

-------------------------------------------------------------------------------
\* A client already gone is answered before anything is asked.
Call ==
    /\ at = "start"
    /\ IF aborted THEN at' = "answered" /\ answer' = Failure(499, FALSE) ELSE at' = "calling" /\ UNCHANGED answer
    /\ UNCHANGED <<aborted, configured, billable, chunks, recorded, socket, said, greets>>

\* finish and fail: only the first counts, the socket is closed, and the
\* outcome is written before the promise resolves.
Finish(a) ==
    /\ at = "open"
    /\ at' = "recording" /\ answer' = a
    /\ socket' = IF socket = "open" THEN "closed" ELSE socket

Fail(status, free) == Finish(Failure(status, free))

Recorded(a) == recorded' = Append(recorded, IF a.status = 200 THEN "success" ELSE "failure")

Resolve ==
    /\ at = "recording"
    /\ at' = "answered" /\ Recorded(answer)
    /\ UNCHANGED <<aborted, configured, billable, chunks, answer, socket, said, greets>>

\* Without a socket the answer is at hand: the call failed, the service
\* refused, or it spoke plain HTTP.
Unconnected(a) == at' = "answered" /\ answer' = a /\ Recorded(a)

ConnectFails ==
    /\ at = "calling"
    /\ Unconnected(IF aborted THEN Failure(499, FALSE) ELSE Failure(502, TRUE))
    /\ UNCHANGED <<aborted, configured, billable, chunks, socket, said, greets>>

Refused(reason) ==
    /\ at = "calling"
    /\ Unconnected(Failure(StatusOf(reason), PassingStatus(StatusOf(reason))))
    /\ UNCHANGED <<aborted, configured, billable, chunks, socket, said, greets>>

NoSocket ==
    /\ at = "calling"
    /\ Unconnected(Failure(502, TRUE))
    /\ UNCHANGED <<aborted, configured, billable, chunks, socket, said, greets>>

\* The listeners are set before the socket is accepted; a client that left
\* while the socket was made is noticed first.
Accept ==
    /\ at = "calling"
    /\ IF aborted
        THEN at' = "recording" /\ answer' = Failure(499, FALSE) /\ socket' = "waiting"
        ELSE at' = "open" /\ socket' = "open" /\ UNCHANGED answer
    /\ UNCHANGED <<aborted, configured, billable, chunks, recorded, said, greets>>

-------------------------------------------------------------------------------
(* The listeners                                                            *)

Greeting == greets < MaxGreets /\ greets' = greets + 1

\* session.created: the first is answered with session.update.
Created ==
    /\ at = "open" /\ Greeting
    /\ IF configured THEN UNCHANGED <<at, answer, socket, configured>>
       ELSE /\ configured' = TRUE
            /\ \/ UNCHANGED <<at, answer, socket>>
               \/ Fail(502, TRUE)  \* it could not be sent
    /\ UNCHANGED <<aborted, billable, chunks, recorded, said>>

\* session.updated: the first is answered with response.create, which may fail
\* with the request on its way.
Updated ==
    /\ at = "open" /\ configured /\ Greeting
    /\ IF billable THEN UNCHANGED <<at, answer, socket, billable, said>>
       ELSE /\ billable' = TRUE
            /\ \/ said' = [said EXCEPT !.asked = TRUE] /\ UNCHANGED <<at, answer, socket>>
               \/ (\E left \in BOOLEAN : said' = [said EXCEPT !.asked = left]) /\ Fail(502, FALSE)
    /\ UNCHANGED <<aborted, configured, chunks, recorded>>

\* response.output_audio.delta, whole or broken.
Delta(piece) ==
    /\ at = "open" /\ said.asked /\ ~said.ended /\ Len(said.pieces) < MaxPieces
    /\ said' = [said EXCEPT !.pieces = Append(@, piece)]
    /\ IF piece = "broken" THEN Fail(502, FALSE) /\ UNCHANGED chunks
       ELSE IF Room > 0 /\ Len(chunks) + 1 > Room THEN Fail(400, FALSE) /\ UNCHANGED chunks
       ELSE chunks' = Append(chunks, piece) /\ UNCHANGED <<at, answer, socket>>
    /\ UNCHANGED <<aborted, configured, billable, recorded, greets>>

\* Mutant: an outage is free whatever was asked.
FreeWhenTemporary(reason) == Temporary(reason)

FreeFailure(reason) == ~billable /\ Temporary(reason)

ErrorEvent(reason) ==
    /\ Fail(StatusOf(reason), FreeFailure(reason))
    /\ UNCHANGED <<aborted, configured, billable, chunks, recorded, said, greets>>

\* Mutant: an end is an end, whatever its status.
DoneAnyhow(status) == Finish([status |-> 200, free |-> FALSE, sound |-> chunks])

\* response.done
Ends(status) ==
    IF status # "completed" THEN Fail(StatusOf(status), FreeFailure(status))
    ELSE IF chunks = <<>> THEN Fail(502, FALSE)
    ELSE Finish([status |-> 200, free |-> FALSE, sound |-> chunks])

Done(status) ==
    /\ at = "open" /\ said.asked /\ ~said.ended
    /\ said' = [said EXCEPT !.ended = TRUE, !.whole = (status = "completed")]
    /\ Ends(status)
    /\ UNCHANGED <<aborted, configured, billable, chunks, recorded, greets>>

\* The socket fails or closes: nothing else will come of it.
Broken ==
    /\ Fail(502, ~billable)
    /\ UNCHANGED <<aborted, configured, billable, chunks, recorded, said, greets>>

Timeout ==
    /\ Fail(504, ~billable)
    /\ UNCHANGED <<aborted, configured, billable, chunks, recorded, said, greets>>

\* The customer leaves: abortHandler, where there is a socket.
Leave ==
    /\ ~aborted /\ at # "answered"
    /\ aborted' = TRUE
    /\ IF at = "open" THEN Fail(499, FALSE) ELSE UNCHANGED <<at, answer, socket>>
    /\ UNCHANGED <<configured, billable, chunks, recorded, said, greets>>

-------------------------------------------------------------------------------
SpInit ==
    /\ at = "start" /\ aborted \in BOOLEAN /\ configured = FALSE /\ billable = FALSE
    /\ chunks = <<>> /\ answer = NoAnswer /\ recorded = <<>> /\ socket = "none"
    /\ said = [asked |-> FALSE, pieces |-> <<>>, ended |-> FALSE, whole |-> FALSE] /\ greets = 0

Reasons == {"outage", "busy", "quota", "voice"}

SpNext ==
    \/ Call \/ Resolve \/ ConnectFails \/ NoSocket \/ Accept \/ Created \/ Updated \/ Broken \/ Timeout \/ Leave
    \/ \E r \in Reasons : Refused(r) \/ ErrorEvent(r)
    \/ \E p \in {"whole", "broken"} : Delta(p)
    \/ \E s \in Reasons \cup {"completed"} : Done(s)

SpSpec == SpInit /\ [][SpNext]_spvars

-------------------------------------------------------------------------------
SpTypeOK ==
    /\ at \in {"start", "calling", "open", "recording", "answered"}
    /\ {aborted, configured, billable} \subseteq BOOLEAN
    /\ answer.status \in {0, 200, 400, 429, 499, 502, 504} /\ answer.free \in BOOLEAN
    /\ socket \in {"none", "waiting", "open", "closed"} /\ greets \in 0..MaxGreets

\* NO_CHARGE_RETRY_MESSAGE: a failure is called free only where the service
\* has not been asked to speak, however the request to it ended.
FreeWasNotAsked == answer.free => ~said.asked

\* A narration is handed over whole: all the service sent, in its order, within
\* the room there is, and only once the service said it had ended.
SpokenIsWhole ==
    answer.status = 200 =>
        /\ said.whole /\ answer.sound = said.pieces /\ answer.sound # <<>>
        /\ Room > 0 => Len(answer.sound) <= Room

\* Every call that was made is counted once, as it ended, and its socket closed
\* unless the customer left before it was accepted.
CountedAndClosed ==
    at = "answered" =>
        /\ IF said.asked THEN Len(recorded) = 1 ELSE Len(recorded) <= 1
        /\ recorded # <<>> => (recorded[1] = "success" <=> answer.status = 200)
        /\ socket # "open" /\ (socket = "waiting" => aborted)
===============================================================================
