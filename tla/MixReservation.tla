----------------------------- MODULE MixReservation ----------------------------
(***************************************************************************)
(* How the page that joins several videos (app/video-mix/                  *)
(* video-mix-client.tsx) holds one usage reservation.  Every operation on  *)
(* it waits its turn in reservationMutexRef; a reservation is asked for    *)
(* under an idempotency key made first, so that one whose answer was lost  *)
(* is found again and released.  A finished video is stored in the browser *)
(* before its reservation is confirmed, and recovered by the next opening. *)
(*                                                                         *)
(* A reservation is the number of its key.  Requests of the usage API that *)
(* fail are counted by MaxFaults; strays are the reservations let go by    *)
(* the page without a release that will arrive.                            *)
(***************************************************************************)
EXTENDS Integers, Sequences, FiniteSets

CONSTANTS
    MaxKeys,     \* bound of the model: idempotency keys
    MaxFaults,   \* bound of the model: requests lost or refused
    MaxLapses    \* bound of the model: reservations whose time runs out

VARIABLES
    lease,    \* server: reservation of a key: status, bucket
    mix,      \* refs of the page
    line,     \* operations under reservationMutexRef, the first one running
    work,     \* AI generation, export, retry of its confirmation, discard
    beacons,  \* releases sent by pagehide
    stored,   \* IndexedDB: finished videos, "pending-completion" or "completed"
    faults, lapses,
    strays,   \* ghost
    handed    \* reservations whose video was offered for saving

mvars == <<lease, mix, line, work, beacons, stored, faults, lapses, strays, handed>>

Bounds == <<faults, lapses>>
Keys == 1..Len(lease)
Nothing == [pc |-> "idle", kind |-> "none", own |-> 0, aborted |-> FALSE]
Opened == [mounted |-> TRUE, active |-> 0, bucket |-> "none", key |-> 0, invalid |-> FALSE, pending |-> 0]

Init ==
    /\ lease = <<>> /\ mix = Opened /\ line = <<>> /\ work = Nothing
    /\ beacons = {} /\ stored = [k \in {} |-> "none"]
    /\ faults = 0 /\ lapses = 0 /\ strays = {} /\ handed = {}

Held(k) == k # 0 /\ lease[k].status = "held"
Savable(k) == lease[k].bucket = "paid"
Fault == faults < MaxFaults /\ faults' = faults + 1

Cleared == [mix EXCEPT !.active = 0, !.bucket = "none", !.key = 0, !.invalid = FALSE]
ClearedIf(k) == IF mix.active = k THEN Cleared ELSE mix
Forgets(k) == [mix EXCEPT !.key = IF mix.key = k THEN 0 ELSE @, !.invalid = FALSE,
                          !.active = IF mix.active = k THEN 0 ELSE @]

-------------------------------------------------------------------------------
(* withReservationLock: the first of line runs; at names the request it is  *)
(* waiting for, answer what the server said to it.                          *)

Op(name, id, mine) == [op |-> name, at |-> "start", id |-> id, mine |-> mine, answer |-> "none"]
Head1 == line[1]
At(label) == line # <<>> /\ Head1.at = label
Answered(label) == At(label) /\ Head1.answer # "none"
Asks(label, id) == line' = [line EXCEPT ![1].at = label, ![1].id = id, ![1].answer = "none"]
Starts(label) == Asks(label, Head1.id)

\* The operation ends; work learns of it if it waits for it.
Done == [ensure |-> "ensured", letgo |-> "letgod", complete |-> "finald"]
Failed == [ensure |-> "ensurex", letgo |-> "letgox", complete |-> "finalx"]
Ends(ok, id) ==
    /\ line' = Tail(line)
    /\ work' = IF ~Head1.mine THEN work
               ELSE [work EXCEPT !.pc = (IF ok THEN Done ELSE Failed)[Head1.op],
                                 !.own = IF ok /\ Head1.op = "ensure" THEN id ELSE @]

WithRelease(q) ==
    IF \E i \in 1..Len(q) : q[i].op = "release" THEN q ELSE Append(q, Op("release", 0, FALSE))

\* What the usage API does with a request: reserve, renew, release, complete.
\* A reserve of a known key only observes it; a renewal resumes.
Request(label) ==
    CASE label \in {"recover", "reserve"} -> "reserve"
      [] label = "renew" -> "renew"
      [] label \in {"recovered", "drop", "swap", "handback", "letgo"} -> "release"
      [] label = "complete" -> "complete"
      [] OTHER -> "none"

Performs(request, k, b) ==
    LET s == lease[k].status
        became == CASE request = "reserve" /\ s = "none" -> "held"
                    [] request = "reserve" /\ s = "intent" -> "released"
                    [] request = "renew" /\ s = "released" -> "held"
                    [] request = "release" /\ s = "held" -> "released"
                    [] request = "complete" /\ s = "held" -> "completed"
                    [] OTHER -> s
        chosen == IF request \in {"reserve", "renew"} /\ s \in {"none", "held", "released"} THEN b ELSE lease[k].bucket
    IN
    lease' = [lease EXCEPT ![k] = [status |-> became, bucket |-> chosen]]

\* A completed reservation isn't released, a released one not completed.
Says(request, k) ==
    LET s == lease'[k].status IN
    IF \/ request = "release" /\ s = "completed"
       \/ request = "complete" /\ s # "completed" THEN "refused" ELSE s

Serve ==
    /\ line # <<>> /\ Request(Head1.at) # "none" /\ Head1.answer = "none"
    /\ \E b \in {"free", "paid"} :
          /\ Performs(Request(Head1.at), Head1.id, b)
          /\ (Request(Head1.at) = "reserve" /\ lease[Head1.id].status # "none") => b = lease[Head1.id].bucket
          /\ (Request(Head1.at) = "renew") => b \in {lease[Head1.id].bucket, "paid"}
          /\ (Request(Head1.at) \in {"release", "complete"}) => b = "free"
    /\ line' = [line EXCEPT ![1].answer = Says(Request(Head1.at), Head1.id)]
    /\ UNCHANGED <<mix, work, beacons, stored, Bounds, strays, handed>>

Rest == UNCHANGED <<lease, beacons, stored, Bounds, strays, handed>>

\* ensureMixUsageReservation
EnsureStart ==
    /\ At("start") /\ Head1.op = "ensure"
    /\ IF work.aborted \/ ~mix.mounted THEN Ends(FALSE, 0) /\ UNCHANGED mix
       ELSE /\ IF mix.invalid /\ mix.active # 0 THEN Asks("drop", mix.active)
               ELSE IF mix.invalid /\ mix.key # 0 THEN Asks("recover", mix.key) ELSE Starts("fresh")
            /\ mix' = [mix EXCEPT !.invalid = @ /\ (mix.active # 0 \/ mix.key # 0)]
            /\ UNCHANGED work
    /\ Rest

\* paidSaveAvailableRef: a free reservation makes room for a bought one.
EnsureFresh ==
    /\ At("fresh")
    /\ IF work.aborted \/ ~mix.mounted THEN Ends(FALSE, 0) /\ UNCHANGED <<mix, lease>>
       ELSE /\ UNCHANGED work
            /\ IF mix.active # 0
                 THEN /\ \/ mix.bucket = "free" /\ Asks("swap", mix.active) /\ mix' = [mix EXCEPT !.invalid = TRUE]
                         \/ Asks("renew", mix.active) /\ UNCHANGED mix
                      /\ UNCHANGED lease
                 ELSE LET k == IF mix.key # 0 THEN mix.key ELSE Len(lease) + 1 IN
                      /\ k <= MaxKeys
                      /\ lease' = IF mix.key # 0 THEN lease ELSE Append(lease, [status |-> "none", bucket |-> "free"])
                      /\ mix' = [mix EXCEPT !.key = k]
                      /\ Asks("reserve", k)
    /\ UNCHANGED <<beacons, stored, Bounds, strays, handed>>

EnsureDropped ==
    /\ Head1.op = "ensure" /\ Head1.answer # "refused"
    /\ \/ Answered("recovered") /\ mix' = Forgets(Head1.id)
       \/ (Answered("drop") \/ Answered("swap")) /\ mix' = ClearedIf(Head1.id)
    /\ Starts("fresh")
    /\ UNCHANGED work /\ Rest

\* Both an ensure and a release look up the reservation of a kept key.
Recovered ==
    /\ Answered("recover")
    /\ Asks("recovered", Head1.id)
    /\ UNCHANGED <<mix, work>> /\ Rest

\* A completed reservation isn't used for a second video.
EnsureRenewed ==
    /\ Answered("renew")
    /\ IF Head1.answer = "completed"
         THEN mix' = Cleared /\ Starts("fresh") /\ UNCHANGED work
         ELSE /\ mix' = [mix EXCEPT !.active = Head1.id, !.bucket = lease[Head1.id].bucket]
              /\ Ends(TRUE, Head1.id)
    /\ Rest

\* Editing is locked while work waits, so the sources are still those it began
\* with; the page may have been left and shown again, or the work cancelled.
EnsureReserved ==
    /\ Answered("reserve")
    /\ IF Head1.answer = "completed"
         THEN mix' = [mix EXCEPT !.key = 0] /\ Starts("fresh") /\ UNCHANGED work
         ELSE IF mix.invalid \/ work.aborted
           THEN Asks("handback", Head1.id) /\ UNCHANGED <<mix, work>>
           ELSE /\ mix' = [mix EXCEPT !.active = Head1.id, !.bucket = lease[Head1.id].bucket, !.invalid = FALSE]
                /\ Ends(TRUE, Head1.id)
    /\ Rest

HandedBack ==
    /\ Answered("handback") /\ Head1.answer # "refused"
    /\ mix' = Forgets(Head1.id)
    /\ Ends(FALSE, 0) /\ Rest

\* Mutant: the key isn't kept when its reservation's answer was lost.
LostWithKey == [mix EXCEPT !.key = IF Head1.at = "reserve" THEN 0 ELSE @]

\* catch of the reserve request: the key is kept and marked.
LostKeepsKey == [mix EXCEPT !.invalid = @ \/ Head1.at = "reserve"]

\* A request fails before or after the server acted, or is refused; the fetch
\* of an ensure is aborted with its work.
OpFails ==
    /\ line # <<>> /\ Request(Head1.at) # "none"
    /\ IF (Head1.op = "ensure" /\ work.aborted) \/ Head1.answer = "refused" THEN UNCHANGED faults ELSE Fault
    /\ mix' = IF Head1.op = "complete" /\ mix.active = 0
                THEN [mix EXCEPT !.active = Head1.id, !.bucket = lease[Head1.id].bucket]
                ELSE LostKeepsKey
    /\ Ends(FALSE, 0)
    /\ UNCHANGED <<lease, beacons, stored, lapses, strays, handed>>

\* releaseActiveReservationLocked
ReleaseStart ==
    /\ At("start") /\ Head1.op = "release"
    /\ IF mix.active # 0 THEN Asks("drop", mix.active) /\ UNCHANGED <<mix, work>>
       ELSE IF mix.key # 0 THEN Asks("recover", mix.key) /\ UNCHANGED <<mix, work>>
       ELSE mix' = [mix EXCEPT !.invalid = FALSE] /\ Ends(TRUE, 0)
    /\ Rest

ReleaseDone ==
    /\ Head1.op = "release" /\ Head1.answer # "refused"
    /\ \/ Answered("recovered")
          /\ mix' = [mix EXCEPT !.key = IF @ = Head1.id THEN 0 ELSE @, !.invalid = @ /\ mix.key \notin {0, Head1.id}]
       \/ Answered("drop") /\ mix' = ClearedIf(Head1.id)
    /\ Ends(TRUE, 0) /\ Rest

\* releaseReservationUsage, completeReservationUsage
NamedStart ==
    /\ At("start") /\ Head1.op \in {"letgo", "complete"}
    /\ Starts(Head1.op)
    /\ UNCHANGED <<mix, work>> /\ Rest

LetGoDone ==
    /\ Answered("letgo") /\ Head1.answer # "refused"
    /\ mix' = ClearedIf(Head1.id)
    /\ Ends(TRUE, 0) /\ Rest

CompleteDone ==
    /\ Answered("complete") /\ Head1.answer # "refused"
    /\ mix' = [mix EXCEPT !.key = 0, !.invalid = FALSE]
    /\ Ends(TRUE, 0) /\ Rest

LineStep ==
    \/ Serve \/ OpFails
    \/ EnsureStart \/ EnsureFresh \/ Recovered \/ EnsureRenewed \/ EnsureReserved \/ HandedBack
    \/ (line # <<>> /\ (EnsureDropped \/ ReleaseDone))
    \/ ReleaseStart \/ NamedStart \/ LetGoDone \/ CompleteDone

-------------------------------------------------------------------------------
(* The page's work: one at a time, editing is locked meanwhile.             *)

Outside == UNCHANGED <<lease, beacons, Bounds, strays>>
Pc(next) == work' = [work EXCEPT !.pc = next]

StartWork(kind) ==
    /\ mix.mounted /\ work.pc = "idle" /\ mix.pending = 0
    /\ work' = [pc |-> "ensure", kind |-> kind, own |-> 0, aborted |-> FALSE]
    /\ line' = Append(line, Op("ensure", 0, TRUE))
    /\ UNCHANGED <<mix, stored, handed>> /\ Outside

\* generateOriginalCaptions, generateMixNarration: on failure all is released.
AiEnds ==
    /\ work.kind = "ai"
    /\ \/ /\ work.pc = "ensured" /\ ~work.aborted
          /\ UNCHANGED <<mix, line, faults>>
       \/ /\ work.pc \in {"ensured", "ensurex"}
          /\ IF work.aborted \/ work.pc = "ensurex" THEN UNCHANGED faults ELSE Fault
          /\ mix' = [mix EXCEPT !.invalid = TRUE]
          /\ line' = WithRelease(line)
    /\ work' = Nothing
    /\ UNCHANGED <<lease, beacons, lapses, strays, stored, handed>>

\* startExport after the reservation: a free one is given back.
ExportEnsured ==
    /\ work.kind = "export" /\ work.pc \in {"ensured", "ensurex"}
    /\ IF work.pc = "ensurex" THEN work' = Nothing /\ UNCHANGED line
       ELSE IF work.aborted \/ ~Savable(work.own)
         THEN Pc("letgo") /\ line' = Append(line, Op("letgo", work.own, TRUE))
         ELSE Pc("encode") /\ UNCHANGED line
    /\ UNCHANGED <<mix, stored, handed>> /\ Outside

\* Encode and inspect; on failure the reservation is given back.
EncodeFails ==
    /\ work.pc \in {"encode", "saved"}
    /\ IF work.aborted THEN UNCHANGED faults ELSE work.pc = "encode" /\ Fault
    /\ Pc("letgo") /\ line' = Append(line, Op("letgo", work.own, TRUE))
    /\ UNCHANGED <<lease, mix, beacons, lapses, strays, stored, handed>>

\* Mutant: confirmed first, stored afterwards.
EncodedUnstored ==
    /\ work.pc = "encode" /\ ~work.aborted
    /\ Pc("saved")
    /\ UNCHANGED <<lease, mix, line, beacons, lapses, strays, handed, stored, faults>>

\* saveDurableVideoMixOutput: if it can't be stored, nothing is confirmed yet.
Encoded ==
    /\ work.pc = "encode" /\ ~work.aborted
    /\ \/ /\ stored' = [k \in DOMAIN stored \cup {work.own} |->
                           IF k = work.own THEN "pending-completion" ELSE stored[k]]
          /\ Pc("saved") /\ UNCHANGED <<mix, faults>>
       \/ /\ Fault
          /\ mix' = [mix EXCEPT !.pending = work.own, !.active = work.own]
          /\ work' = Nothing /\ UNCHANGED stored
    /\ UNCHANGED <<lease, line, beacons, lapses, strays, handed>>

\* completeReservationUsage begins by detaching the reservation.
Detached == [mix EXCEPT !.active = 0, !.bucket = "none"]
OtherActive == mix.active \notin {0, work.own}

Saved ==
    /\ work.pc = "saved" /\ ~work.aborted
    /\ IF OtherActive
         THEN /\ mix' = [mix EXCEPT !.pending = work.own, !.active = work.own]
              /\ work' = Nothing /\ UNCHANGED line
         ELSE /\ mix' = Detached
              /\ Pc("final") /\ line' = Append(line, Op("complete", work.own, TRUE))
    /\ UNCHANGED <<stored, handed>> /\ Outside

\* Confirmed: offered for saving.  Not: kept for another try, as the server
\* may have confirmed it all the same.
Finalized ==
    /\ work.pc \in {"finald", "finalx"}
    /\ IF work.pc = "finald"
         THEN /\ stored' = [k \in DOMAIN stored |-> IF k = work.own THEN "completed" ELSE stored[k]]
              /\ handed' = handed \cup {work.own}
              /\ mix' = [mix EXCEPT !.pending = 0, !.key = IF work.kind = "export" THEN 0 ELSE @]
         ELSE /\ UNCHANGED <<stored, handed>>
              /\ mix' = IF work.kind = "export"
                          THEN [mix EXCEPT !.pending = work.own, !.active = work.own] ELSE mix
    /\ work' = Nothing /\ UNCHANGED line /\ Outside

LetGo ==
    /\ work.pc \in {"letgod", "letgox"}
    /\ IF work.kind = "discard" /\ work.pc = "letgod"
         THEN /\ mix' = [mix EXCEPT !.pending = 0, !.key = 0]
              /\ stored' = [k \in DOMAIN stored \ {work.own} |-> stored[k]]
         ELSE UNCHANGED <<mix, stored>>
    /\ work' = Nothing /\ UNCHANGED <<line, handed>> /\ Outside

\* retryFinalize: stored if it was not; renewed without waiting for its turn.
RetryFinalize ==
    /\ mix.mounted /\ work.pc = "idle" /\ mix.pending # 0
    /\ work' = [pc |-> "again", kind |-> "retry", own |-> mix.pending, aborted |-> FALSE]
    /\ stored' = [k \in DOMAIN stored \cup {mix.pending} |->
                     IF k = mix.pending THEN "pending-completion" ELSE stored[k]]
    /\ UNCHANGED <<mix, line, handed>> /\ Outside

RetryRenews ==
    /\ work.pc = "again"
    /\ \E b \in {lease[work.own].bucket, "paid"} : Performs("renew", work.own, b)
    /\ CASE lease'[work.own].status = "completed" -> Pc("finald") /\ UNCHANGED <<mix, line>>
         [] lease'[work.own].status = "held" /\ lease'[work.own].bucket = "paid" ->
              /\ mix' = Detached
              /\ Pc("final") /\ line' = Append(line, Op("complete", work.own, TRUE))
         [] OTHER -> work' = Nothing /\ UNCHANGED <<mix, line>>
    /\ strays' = strays \cup (IF Held(mix.active) /\ OtherActive THEN {mix.active} ELSE {})
    /\ UNCHANGED <<stored, handed, beacons, Bounds>>

RetryFails ==
    /\ work.pc = "again" /\ Fault
    /\ work' = Nothing
    /\ UNCHANGED <<lease, mix, line, beacons, lapses, stored, strays, handed>>

DiscardPending ==
    /\ mix.mounted /\ work.pc = "idle" /\ mix.pending # 0
    /\ work' = [pc |-> "letgo", kind |-> "discard", own |-> mix.pending, aborted |-> FALSE]
    /\ line' = Append(line, Op("letgo", mix.pending, TRUE))
    /\ UNCHANGED <<mix, stored, handed>> /\ Outside

\* finalizingUsage disables the button once the confirmation began.
CancelWork ==
    /\ mix.mounted /\ work.kind \in {"ai", "export"} /\ ~work.aborted
    /\ work.pc \notin {"final", "finald", "finalx"}
    /\ work' = [work EXCEPT !.aborted = TRUE]
    /\ UNCHANGED <<mix, line, stored, handed>> /\ Outside

WorkStep ==
    \/ (\E kind \in {"ai", "export"} : StartWork(kind))
    \/ AiEnds \/ ExportEnsured \/ EncodeFails \/ Encoded \/ Saved \/ Finalized \/ LetGo
    \/ RetryFinalize \/ RetryRenews \/ RetryFails \/ DiscardPending \/ CancelWork

-------------------------------------------------------------------------------
(* The person and the browser.                                              *)

\* addVideos, removeSource, setClipCount, updateClipRange and settings:
\* invalidateGeneratedNarration.
ChangeSources ==
    /\ mix.mounted /\ work.pc = "idle" /\ mix.pending = 0 /\ mix.active # 0
    /\ mix' = [mix EXCEPT !.invalid = TRUE]
    /\ line' = WithRelease(line)
    /\ UNCHANGED <<work, stored, handed>> /\ Outside

\* pageshow of a page kept by the browser.
ShownAgain ==
    /\ mix.mounted /\ mix.active # 0
    /\ mix' = [mix EXCEPT !.invalid = TRUE]
    /\ line' = WithRelease(line)
    /\ UNCHANGED <<work, stored, handed>> /\ Outside

\* Another page of the application: the component unmounts, its line goes on.
Unmount ==
    /\ mix.mounted
    /\ mix' = [mix EXCEPT !.mounted = FALSE, !.invalid = TRUE]
    /\ work' = [work EXCEPT !.aborted = @ \/ (work.pc # "idle" /\ work.kind \in {"ai", "export"})]
    /\ line' = WithRelease(line)
    /\ UNCHANGED <<stored, handed>> /\ Outside

\* pagehide without return: a beacon with the reservation, or with its key;
\* a request on its way may still arrive.
Beacon == {IF mix.active # 0 THEN mix.active ELSE mix.key} \ {0}

PageHide ==
    /\ mix.mounted
    /\ beacons' = beacons \cup Beacon
    /\ \E arrives \in BOOLEAN :
          IF arrives /\ line # <<>> /\ Request(Head1.at) # "none" /\ Head1.answer = "none"
            THEN \E b \in {lease[Head1.id].bucket, "paid"} : Performs(Request(Head1.at), Head1.id, b)
            ELSE UNCHANGED lease
    /\ strays' = strays \cup {k \in DOMAIN lease' : lease'[k].status = "held"}
    /\ mix' = [Opened EXCEPT !.mounted = FALSE]
    /\ line' = <<>> /\ work' = Nothing
    /\ UNCHANGED <<stored, Bounds, handed>>

BeaconArrives(k) ==
    /\ beacons' = beacons \ {k}
    /\ lease' = [lease EXCEPT ![k].status = IF @ = "held" THEN "released" ELSE IF @ = "none" THEN "intent" ELSE @]
    /\ UNCHANGED <<mix, line, work, stored, Bounds, strays, handed>>

\* The page is opened anew.  Until its line ended, the old one is waited for.
Reopen ==
    /\ ~mix.mounted /\ line = <<>> /\ work.pc = "idle"
    /\ mix' = Opened
    /\ strays' = strays \cup {k \in Keys : Held(k)}
    /\ UNCHANGED <<lease, line, work, beacons, stored, Bounds, handed>>

\* The recovery effect, whenever IndexedDB and the ownership check answered.
Recover(k) ==
    /\ mix.mounted /\ mix.pending = 0 /\ work.pc = "idle" /\ k \notin handed
    /\ IF stored[k] = "pending-completion"
         THEN /\ mix' = [mix EXCEPT !.pending = k, !.active = k, !.bucket = "paid"]
              /\ strays' = (strays \ {k}) \cup ({mix.active, mix.key} \ {0, k})
              /\ UNCHANGED handed
         ELSE handed' = handed \cup {k} /\ UNCHANGED <<mix, strays>>
    /\ UNCHANGED <<lease, line, work, beacons, stored, Bounds>>

\* deleteDurableVideoMixOutput after sharing or by hand.
DeleteCopy(k) ==
    /\ mix.mounted /\ k \in handed /\ stored[k] = "completed"
    /\ stored' = [j \in DOMAIN stored \ {k} |-> stored[j]]
    /\ UNCHANGED <<lease, mix, line, work, beacons, Bounds, strays, handed>>

Lapse(k) ==
    /\ Held(k) /\ lapses < MaxLapses
    /\ lapses' = lapses + 1
    /\ lease' = [lease EXCEPT ![k].status = "released"]
    /\ UNCHANGED <<mix, line, work, beacons, stored, faults, strays, handed>>

Next ==
    \/ LineStep \/ WorkStep
    \/ ChangeSources \/ ShownAgain \/ Unmount \/ PageHide \/ Reopen
    \/ \E k \in beacons : BeaconArrives(k)
    \/ \E k \in DOMAIN stored : Recover(k) \/ DeleteCopy(k)
    \/ \E k \in Keys : Lapse(k)

Spec == Init /\ [][Next]_mvars

-------------------------------------------------------------------------------
TypeOK ==
    /\ \A k \in Keys : lease[k] \in [status : {"none", "intent", "held", "released", "completed"},
                                     bucket : {"free", "paid"}]
    /\ {mix.active, mix.key, mix.pending, work.own} \subseteq Keys \cup {0}
    /\ strays \cup handed \cup DOMAIN stored \cup beacons \subseteq Keys

\* A reservation held on the server is one the page still refers to, or a
\* stray: whatever requests failed, its key finds it again.
NoneStranded ==
    \A k \in Keys : Held(k) =>
        k \in strays \cup beacons \cup {mix.active, mix.key, mix.pending, work.own}
              \cup {line[i].id : i \in DOMAIN line}

\* However the requests fail, the page never holds two reservations.
AtMostOneHeld ==
    Cardinality({k \in Keys : Held(k)} \ (strays \cup beacons)) <= 1

\* A video offered for saving has a confirmed paid reservation.
HandedOverIsPaid ==
    \A k \in handed : lease[k] = [status |-> "completed", bucket |-> "paid"]

\* A confirmed reservation has its finished video: stored, kept by the page
\* for another try, or handed over.
PaidIsKept ==
    \A k \in Keys : lease[k].status = "completed" => k \in DOMAIN stored \cup handed
-------------------------------------------------------------------------------
(* What every step keeps.                                                   *)

Statuses == {"none", "intent", "held", "released", "completed"}
Buckets == {"free", "paid"}
Places == {"idle", "ensure", "ensured", "ensurex", "encode", "saved", "again", "final", "finald", "finalx",
           "letgo", "letgod", "letgox"}
Labels == {"start", "fresh", "drop", "recover", "recovered", "swap", "renew", "reserve", "handback", "letgo", "complete"}
Leases == [status : Statuses, bucket : Buckets]
Shown == [mounted : BOOLEAN, active : Keys \cup {0}, bucket : Buckets \cup {"none"}, key : Keys \cup {0},
          invalid : BOOLEAN, pending : Keys \cup {0}]
Works == [pc : Places, kind : {"none", "ai", "export", "retry", "discard"}, own : Keys \cup {0}, aborted : BOOLEAN]
Ops == [op : {"ensure", "release", "letgo", "complete"}, at : Labels, id : Keys \cup {0}, mine : BOOLEAN,
        answer : Statuses \cup {"refused"}]

MixKinds ==
    /\ lease \in Seq(Leases) /\ mix \in Shown /\ line \in Seq(Ops) /\ work \in Works
    /\ beacons \subseteq Keys /\ strays \subseteq Keys /\ handed \subseteq Keys /\ DOMAIN stored \subseteq Keys
    /\ \A k \in DOMAIN stored : stored[k] \in {"pending-completion", "completed"}

\* The page has at most one reservation in use: the one it holds, the one its
\* work is about and the one waiting for its confirmation are the same, and a
\* kept key is that of this one, or of a stray.
WorkSound ==
    /\ work.pc = "idle" <=> work = Nothing
    /\ work.kind = "none" => work.pc = "idle"
    /\ work.kind = "ai" => work.pc \in {"ensure", "ensured", "ensurex"}
    /\ work.pc \in {"encode", "saved"} => work.kind = "export"
    /\ work.pc = "again" => work.kind = "retry"
    /\ work.kind \in {"retry", "discard"} => work.own = mix.pending /\ work.pc \notin {"idle", "ensure", "ensured", "ensurex"}
    /\ work.kind \in {"ai", "export"} => mix.pending = 0
    /\ work.own = 0 <=> work.pc \in {"idle", "ensure", "ensurex"}
InUse == {mix.active, mix.pending, work.own} \ {0}
OneInUse == \A j, k \in InUse : j = k /\ mix.key \in {0, k} \cup strays

\* What a request acted on has its row; what was encoded is paid.
Real(k) == k \in Keys /\ lease[k].status \notin {"none", "intent"}
PaidFor(k) == Real(k) /\ lease[k].bucket = "paid"
Storing == work.pc \in {"saved", "final", "finald", "finalx"} \/ work.kind = "retry"
LeaseSound ==
    /\ \A k \in InUse : Real(k)
    /\ \A k \in DOMAIN stored \cup handed : PaidFor(k)
    /\ mix.pending # 0 => PaidFor(mix.pending)
    /\ work.pc = "encode" => PaidFor(work.own)
    /\ Storing => work.own \in DOMAIN stored /\ stored[work.own] = "pending-completion"
    /\ \A k \in DOMAIN stored : stored[k] = "completed" => lease[k].status = "completed"
    /\ \A k \in handed : lease[k].status = "completed"
    /\ \A k \in Keys : lease[k].status = "completed" => k \in DOMAIN stored \cup handed
    /\ work.pc = "finald" => lease[work.own].status = "completed"
    /\ work.pc = "letgod" => lease[work.own].status = "released"

\* Only the first of line has asked anything; the work waits for its own.
Queued(o) ==
    /\ o.mine <=> o.op # "release"
    /\ o.op = "ensure" => work.pc = "ensure"
    /\ o.op = "letgo" => work.pc = "letgo" /\ o.id = work.own
    /\ o.op = "complete" => work.pc = "final" /\ o.id = work.own
Looks == {"recover", "reserve"}
Drops == {"recovered", "drop", "swap", "handback"}
HeadSound(o) ==
    /\ o.op = "ensure" => o.at \in {"start", "fresh", "renew", "swap"} \cup Looks \cup Drops
    /\ o.op = "release" => o.at \in {"start", "drop", "recover", "recovered"}
    /\ o.op \in {"letgo", "complete"} => o.at \in {"start", o.op}
    /\ o.at \in {"start", "fresh"} => o.answer = "none"
    /\ o.op = "ensure" /\ o.at \in {"drop", "swap", "renew"} => o.id = mix.active
    /\ o.op = "ensure" /\ o.at \in Looks \cup {"recovered", "handback"} => o.id = mix.key /\ mix.active = 0
    /\ o.at \in Drops \cup {"renew"} => Real(o.id)
    /\ o.at \in Looks => o.id \in Keys
    /\ o.at \in Looks /\ o.answer = "none" => Real(o.id) \/ lease[o.id].status = "intent" \/ o.id \in {mix.key} \cup strays
    /\ o.at \in Looks /\ o.answer # "none" => Real(o.id)
    /\ o.at \in Drops /\ o.answer \notin {"none", "refused"} /\ Held(o.id) => o.op = "release" /\ o.id = mix.pending
    /\ o.at = "letgo" /\ o.answer \notin {"none", "refused"} => lease[o.id].status = "released"
    /\ o.at \in {"renew", "reserve"} /\ o.answer = "completed" => lease[o.id].status = "completed"
    /\ o.at = "complete" /\ o.answer \notin {"none", "refused"} => lease[o.id].status = "completed"
LineSound ==
    /\ \A i \in DOMAIN line : Queued(line[i])
    /\ \A i \in DOMAIN line : i # 1 => line[i].at = "start" /\ line[i].answer = "none"
    /\ \A i, j \in DOMAIN line : line[i].mine /\ line[j].mine => i = j
    /\ line # <<>> => HeadSound(line[1])

Known ==
    \A k \in Keys : Held(k) =>
        \/ k \in strays \cup beacons \cup {mix.active, mix.key, mix.pending}
        \/ (work.pc \in {"final", "finalx"} /\ k = work.own)

MixIInv == MixKinds /\ WorkSound /\ OneInUse /\ LeaseSound /\ LineSound /\ Known
===============================================================================
