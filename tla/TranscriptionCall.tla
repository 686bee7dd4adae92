--------------------------- MODULE TranscriptionCall ---------------------------
(***************************************************************************)
(* app/api/transcribe/route.ts: how one video's sound is put to the        *)
(* transcription service: the timed model, once more after an outage, then *)
(* another timed model, and a better one for the words.  Every request has *)
(* 45 seconds to begin its answer.  The service is external: it answers,   *)
(* refuses, is out, or says nothing; the customer may leave at any moment. *)
(***************************************************************************)
EXTENDS Integers, Sequences

VARIABLES
    at,        \* "ready", "calling", "body", "pause", "timed", "answered", "thrown"
    mode,      \* of the request that is out or next
    tries,     \* the requests made, with whether the customer was still there
    counted,   \* what provider_usage_daily was told of each
    result,    \* "none", "timed", "refined", or the failure
    aborted    \* request.signal

tcvars == <<at, mode, tries, counted, result, aborted>>

\* What can come of a request that is not answered well, and its status.
Failures == {"400", "429", "500", "502", "503", "model_error", "timeout", "aborted", "request_failed"}
StatusOf(o) ==
    CASE o = "timeout" -> 504 [] o = "aborted" -> 499 [] o = "request_failed" -> 502 [] o = "500" -> 500
      [] o = "502" -> 502 [] o \in {"503", "model_error"} -> 503 [] OTHER -> 400

TimedTries == Len(SelectSeq(tries, LAMBDA t : t.mode = "timed"))

-------------------------------------------------------------------------------
\* Mutant: a request that took its whole time is made again.
RetriesTimeouts(o) == o # "model_error" /\ StatusOf(o) \in {502, 503, 504}

\* shouldRetryTimedPrimary
ShouldRetry(o) == o \notin {"model_error", "timeout"} /\ StatusOf(o) \in {502, 503, 504}

\* canUseTimedFallback
CanFallBack(o) == StatusOf(o) >= 500

\* requestTranscription: a fetch whose signal is aborted reaches nobody.
Begin ==
    /\ at = "ready" /\ at' = "calling"
    /\ tries' = Append(tries, [mode |-> mode, there |-> ~aborted, outcome |-> "none"])
    /\ UNCHANGED <<mode, counted, result, aborted>>

Ended(o, as) ==
    /\ tries' = [tries EXCEPT ![Len(tries)].outcome = o]
    /\ counted' = Append(counted, as)

\* requestTimedTranscription after a failure; a refinement that fails leaves
\* what the timed model heard.
Fails(o) ==
    /\ at = "calling"
    /\ ~tries[Len(tries)].there => o = "aborted"
    /\ o = "aborted" => aborted
    /\ o = "request_failed" => ~aborted
    /\ Ended(o, "failure")
    /\ \/ /\ mode = "timed" /\ ShouldRetry(o) /\ TimedTries = 1
          /\ at' = "pause" /\ UNCHANGED <<mode, result>>
       \/ /\ mode = "timed" /\ ~(ShouldRetry(o) /\ TimedTries = 1) /\ CanFallBack(o)
          /\ at' = "ready" /\ mode' = "timed-fallback" /\ UNCHANGED result
       \/ /\ mode = "timed" /\ ~ShouldRetry(o) /\ ~CanFallBack(o)
          /\ at' = "answered" /\ result' = o /\ UNCHANGED mode
       \/ /\ mode = "timed-fallback"
          /\ at' = "answered" /\ result' = o /\ UNCHANGED mode
       \/ /\ mode = "refine"
          /\ at' = "answered" /\ result' = "timed" /\ UNCHANGED mode
    /\ UNCHANGED aborted

\* TRANSCRIPTION_RETRY_DELAY_MS
PauseEnds ==
    /\ at = "pause" /\ at' = "ready"
    /\ UNCHANGED <<mode, tries, counted, result, aborted>>

\* The answer begins: its body is read without the limit and without the signal.
Answers ==
    /\ at = "calling" /\ tries[Len(tries)].there /\ at' = "body"
    /\ UNCHANGED <<mode, tries, counted, result, aborted>>

\* The refined words are taken if they are complete.
BodyArrives ==
    /\ at = "body" /\ Ended("ok", "success")
    /\ IF mode = "refine" THEN at' = "answered" /\ result' \in {"timed", "refined"} ELSE at' = "timed" /\ UNCHANGED result
    /\ UNCHANGED <<mode, aborted>>

\* What is no JSON counts as a success and fails the route.
BodyBreaks ==
    /\ at = "body" /\ Ended("broken", "success")
    /\ at' = "thrown" /\ result' = "500"
    /\ UNCHANGED <<mode, aborted>>

\* POST goes on: the words are asked for again when they are wanted better or
\* look poor, and not when the sound is longer than what was reserved.
Refine ==
    /\ at = "timed" /\ at' = "ready" /\ mode' = "refine"
    /\ UNCHANGED <<tries, counted, result, aborted>>

GoesOn ==
    /\ at = "timed" /\ at' = "answered" /\ result' \in {"timed", "too long"}
    /\ UNCHANGED <<mode, tries, counted, aborted>>

Leave ==
    /\ ~aborted /\ at \notin {"answered", "thrown"}
    /\ aborted' = TRUE
    /\ UNCHANGED <<at, mode, tries, counted, result>>

-------------------------------------------------------------------------------
TcInit ==
    /\ at = "ready" /\ mode = "timed" /\ tries = <<>> /\ counted = <<>> /\ result = "none" /\ aborted = FALSE

TcNext ==
    \/ Begin \/ PauseEnds \/ Answers \/ BodyArrives \/ BodyBreaks \/ Refine \/ GoesOn \/ Leave
    \/ \E o \in Failures : Fails(o)

TcSpec == TcInit /\ [][TcNext]_tcvars

-------------------------------------------------------------------------------
TcTypeOK ==
    /\ at \in {"ready", "calling", "body", "pause", "timed", "answered", "thrown"}
    /\ mode \in {"timed", "timed-fallback", "refine"} /\ aborted \in BOOLEAN
    /\ \A i \in 1..Len(tries) : tries[i].outcome \in Failures \cup {"none", "ok", "broken"}
    /\ \A i \in 1..Len(counted) : counted[i] \in {"success", "failure"}
    /\ result \in Failures \cup {"none", "timed", "refined", "too long", "500"}

\* The lease of the action outlives what the route may ask of the service: four
\* requests, at most one of the first two of which took all of its time; and a
\* customer who left is worth one more, which reaches nobody.
AsksWithinTheLease ==
    /\ Len(tries) <= 4
    /\ Len(SelectSeq(tries, LAMBDA t : t.mode = "timed" /\ t.outcome = "timeout")) <= 1
    /\ Len(SelectSeq(tries, LAMBDA t : ~t.there)) <= 1

\* What the timed model heard is not lost to what is asked after it, unless that
\* answer is no JSON; and every request is counted once, as the service saw it.
HeardIsKept ==
    /\ at = "answered" /\ (\E i \in 1..Len(tries) : tries[i].mode # "refine" /\ tries[i].outcome = "ok") =>
          result \in {"timed", "refined", "too long"}
    /\ at \in {"answered", "thrown"} =>
          /\ Len(counted) = Len(tries)
          /\ \A i \in 1..Len(tries) : (counted[i] = "success") = (tries[i].outcome \in {"ok", "broken"})
===============================================================================
