--------------------------- MODULE UsageReservation ---------------------------
(***************************************************************************)
(* The usage reservations of one user: lib/billing-store.ts and the lease  *)
(* and settlement statements of lib/operator-usage.ts.                     *)
(*                                                                         *)
(* A reservation holds the right to save one video.  It is a row of        *)
(* usage_reservations, found by its idempotency key.  Every request is a   *)
(* Worker invocation that issues several SQL statements; each statement,   *)
(* or D1 batch, is atomic, and between two of them any other request may   *)
(* run, the clock may advance, or the Worker may die.  A request reads the *)
(* clock a few times and goes on using an old reading: `t' is that reading.*)
(*                                                                         *)
(* Each definition of the first half is one SQL statement, as a function   *)
(* of the tables and of the bound time; each action of the second half is  *)
(* one step of a request.                                                  *)
(***************************************************************************)
EXTENDS BillingPolicy, FiniteSets, FiniteSetsExt, Functions

LOCAL INSTANCE TLC

CONSTANTS
    Keys,           \* idempotency keys, ordered as SQLite orders them
    Purchases,      \* one-time purchases (credits = 1), oldest first
    Workers,        \* concurrent Worker invocations
    Duration,       \* rounded source seconds of the video of each key
    Lifetime,       \* USAGE_RESERVATION_LIFETIME_SECONDS (3600)
    LeaseTTL,       \* MAX_OPERATION_LEASE_TTL_SECONDS (300)
    IntentTTL,      \* USAGE_RELEASE_INTENT_TTL_SECONDS (86400)
    MaxIntents,     \* MAX_ACTIVE_USAGE_RELEASE_INTENTS_PER_USER (16)
    MaxAttempts,    \* insert attempts of reserveUsage (4)
    PeriodLength,   \* length of a subscription period
    OperatorModes,  \* values of options.operator that requests carry
    ResumeModes,    \* values of options.resumeReleased that renewals carry
    Kinds,          \* bound of the model: the requests and webhooks that arrive
    MaxTime         \* bound of the model: the clock stops here

ASSUME ReservationAssumption ==
    /\ Keys \subseteq Nat \ {0} /\ IsFiniteSet(Keys)
    /\ Purchases \subseteq Nat \ {0} /\ IsFiniteSet(Purchases)
    /\ Duration \in [Keys -> Nat \ {0}]
    /\ {Lifetime, LeaseTTL, IntentTTL, MaxIntents, PeriodLength} \subseteq Nat \ {0}
    /\ MaxAttempts \in Nat \ {0}
    /\ OperatorModes \subseteq BOOLEAN
    /\ ResumeModes \subseteq BOOLEAN
    /\ Kinds \subseteq {"reserve", "renew", "release", "ai", "refund"}
    /\ MaxTime \in Nat \ {0}

VARIABLES
    now,       \* seconds
    rows,      \* usage_reservations, by idempotency key
    intents,   \* usage_release_intents, by idempotency key
    leases,    \* usage_operation_leases with operation 'metered_ai', by row
    sub,       \* the user's row of billing_subscriptions
    purchases, \* revoked_at of billing_purchases, by purchase
    h,         \* the request each Worker is serving
    refund     \* the Stripe webhook that applies or lifts a refund

tables == <<rows, intents, leases>>
ledger == <<sub, purchases, refund>>
vars == <<now, rows, intents, leases, sub, purchases, h, refund>>

NoKey == 0
NoPurchase == 0
NoPlan == "none"

NoRow == [status |-> "absent", bucket |-> NoBucket, created |-> 0,
          expires |-> 0, releaseRequested |-> FALSE, purchase |-> NoPurchase]
NoIntent == [requested |-> 0, expires |-> 0]
NoSub == [status |-> "none", plan |-> NoPlan, start |-> 0, end |-> 0, revoked |-> 0]

Min2(a, b) == IF a < b THEN a ELSE b
Max2(a, b) == IF a > b THEN a ELSE b

-------------------------------------------------------------------------------
(* Which rows count, and against what.                                      *)

IsActive(k) == rows[k].status \in {"reserved", "completed"}

FreeVideos == {k \in Keys : IsActive(k) /\ rows[k].bucket = "free"}

OperatorVideosSince(t) ==
    {k \in Keys : IsActive(k) /\ rows[k].bucket = "operator" /\ rows[k].created >= t}

SubscriptionVideos(start, end) ==
    {k \in Keys : /\ IsActive(k)
                  /\ rows[k].bucket = "subscription"
                  /\ rows[k].created >= start /\ rows[k].created < end}

VideosOnPurchase(p) == {k \in Keys : IsActive(k) /\ rows[k].purchase = p}

\* Mutant: previews in progress do not occupy the purchase.
OpenPurchasesUnsaved(k) ==
    {p \in Purchases : purchases[p] = "paid"
        /\ \A j \in VideosOnPurchase(p) \ {k} : rows[j].status = "reserved"}

\* Mutant: a revoked purchase still funds.
OpenPurchasesRevoked(k) ==
    {p \in Purchases : purchases[p] # "none" /\ VideosOnPurchase(p) \subseteq {k}}

\* Purchases, not revoked, whose one credit no row other than k's uses.
OpenPurchases(k) ==
    {p \in Purchases : purchases[p] = "paid" /\ VideosOnPurchase(p) \subseteq {k}}

LiveIntent(k, t) == intents[k].expires >= t
LiveLease(k, t) == leases[k].expires > t
IsExpired(row, t) == row.expires < t

\* Mutant: the refund of the current period is not looked at.
SubIsUsableRevoked(t) == sub.status = "active" /\ sub.end > t

SubIsUsable(t) ==
    sub.status = "active" /\ sub.end > t /\ sub.revoked # sub.start

\* The funding of k's row is still valid: the EXISTS clauses that renewing,
\* completing and finding a reservation share.
IsEntitled(row, t) ==
    \/ row.bucket \in {"free", "operator"}
    \/ /\ row.bucket = "subscription"
       /\ SubIsUsable(t)
       /\ sub.start <= row.created /\ row.created < sub.end
    \/ /\ row.bucket = "one_time"
       /\ row.purchase \in Purchases
       /\ purchases[row.purchase] = "paid"

-------------------------------------------------------------------------------
(* The statements.                                                          *)

\* Mutant: the release takes a whole lease lifetime off the clock.
ReleasedTooFar(row, t) ==
    [row EXCEPT !.status = "released", !.expires = Min2(@, t - 1 - LeaseTTL)]

Released(row, t) ==
    [row EXCEPT !.status = "released", !.expires = Min2(@, t - 1)]

\* Mutant: the settlement does not look at the lease.
SettledRowUnleased(k, t) ==
    IF rows[k].status = "reserved" /\ (IsExpired(rows[k], t) \/ rows[k].releaseRequested)
      THEN Released(rows[k], t) ELSE rows[k]

\* settleExpiredUsageReservations: lapsed and given-back rows stop counting.
SettledRow(k, t) ==
    IF /\ rows[k].status = "reserved"
       /\ IsExpired(rows[k], t) \/ rows[k].releaseRequested
       /\ ~LiveLease(k, t)
      THEN Released(rows[k], t) ELSE rows[k]

\* The UPDATE of reconcileUsageReleaseIntent and of the release batch: a live
\* intent marks the reserved row, and releases it unless AI work holds it.
ReconciledRow(k, live, t) ==
    IF rows[k].status = "reserved" /\ live
      THEN LET marked == [rows[k] EXCEPT !.releaseRequested = TRUE]
           IN  IF LiveLease(k, t) THEN marked ELSE Released(marked, t)
      ELSE rows[k]

\* materializeReleasedUsageReservation: the row of a key released in advance.
TombstoneRow(operator, t) ==
    [status |-> "released", bucket |-> IF operator THEN "operator" ELSE "free",
     created |-> t, expires |-> t - 1, releaseRequested |-> TRUE,
     purchase |-> NoPurchase]

(* The quota clauses, the same in the INSERT of reserveUsage and in the      *)
(* UPDATE of a reactivation, where k's own row does not count.               *)

\* Mutant: a rolling count from the request's own clock instead of the day's.
OperatorFitsRolling(k, t) ==
    Cardinality(OperatorVideosSince(t) \ {k}) < OperatorDailyLimit

OperatorFits(k, t) ==
    Cardinality(OperatorVideosSince(StartOfTokyoDay(t)) \ {k}) < OperatorDailyLimit

\* Mutant: the plan is not compared with the one the request read.
SubscriptionFitsStalePlan(k, held, t) ==
    /\ SubIsUsable(t)
    /\ <<sub.start, sub.end>> = <<held.start, held.end>>
    /\ Cardinality(SubscriptionVideos(held.start, held.end) \ {k}) < PlanLimit[held.plan]

\* `held' is the subscription the request read before it chose the bucket.
SubscriptionFits(k, held, t) ==
    /\ SubIsUsable(t)
    /\ <<sub.start, sub.end, sub.plan>> = <<held.start, held.end, held.plan>>
    /\ Cardinality(SubscriptionVideos(held.start, held.end) \ {k}) < PlanLimit[held.plan]

\* Mutant: the video itself is left out of the seconds.
FreeFitsBesideOthers(k) ==
    /\ Cardinality(FreeVideos \ {k}) < FreeVideoLimit
    /\ SumFunctionOnSet(Duration, FreeVideos \ {k}) <= FreeSecondsLimit

FreeFits(k) ==
    /\ Cardinality(FreeVideos \ {k}) < FreeVideoLimit
    /\ SumFunctionOnSet(Duration, FreeVideos \ {k}) + Duration[k] <= FreeSecondsLimit

CanFund(k, bucket, held, t) ==
    \/ bucket = "operator" /\ OperatorFits(k, t)
    \/ bucket = "subscription" /\ SubscriptionFits(k, held, t)
    \/ bucket = "one_time" /\ OpenPurchases(k) # {}
    \/ bucket = "free" /\ FreeFits(k)

FundedRow(k, bucket, t) ==
    [status |-> "reserved", bucket |-> bucket, created |-> t,
     expires |-> t + Lifetime, releaseRequested |-> FALSE,
     purchase |-> IF bucket = "one_time" THEN Min(OpenPurchases(k)) ELSE NoPurchase]

Newer(table, i, j) ==
    /\ table[i] # NoIntent
    /\ \/ table[i].requested > table[j].requested
       \/ table[i].requested = table[j].requested /\ i > j

KeepNewest(table) ==
    [j \in Keys |-> IF Cardinality({i \in Keys : Newer(table, i, j)}) >= MaxIntents
                      THEN NoIntent ELSE table[j]]

\* The release batch: purge, upsert, keep the newest MaxIntents.
IntentsAfterRelease(k, t) ==
    LET kept == [j \in Keys |-> IF intents[j].expires < t THEN NoIntent ELSE intents[j]]
        mine == IF kept[k] = NoIntent
                  THEN [requested |-> t, expires |-> t + IntentTTL]
                  ELSE [requested |-> Min2(kept[k].requested, t),
                        expires |-> Max2(kept[k].expires, t + IntentTTL)]
    IN  KeepNewest([kept EXCEPT ![k] = mine])

\* getBillingStatusForUser after its settlement, as chooseBillingBucket reads it.
CurrentSub(t) == IF sub.status = "active" /\ sub.end > t THEN sub ELSE NoSub

BillingSnapshot(t) ==
    LET current == CurrentSub(t)
        paid == {p \in Purchases : purchases[p] = "paid"}
        spent == {k \in Keys : IsActive(k) /\ rows[k].purchase \in paid}
    IN  [planActive |-> current # NoSub /\ SubIsUsable(t),
         planLimit |-> IF current = NoSub THEN 0 ELSE PlanLimit[current.plan],
         planVideosUsed |-> Cardinality(SubscriptionVideos(current.start, current.end)),
         creditsLeft |-> Max2(0, Cardinality(paid) - Cardinality(spent)),
         freeVideosUsed |-> Cardinality(FreeVideos),
         freeSecondsUsed |-> SumFunctionOnSet(Duration, FreeVideos),
         operatorVideosToday |-> Cardinality(OperatorVideosSince(StartOfTokyoDay(t)))]

-------------------------------------------------------------------------------
(* Requests.  A Worker serves one at a time; `pc' names its next statement. *)

Idle == [pc |-> "idle", key |-> NoKey, operator |-> FALSE, resume |-> FALSE,
         t |-> 0, bucket |-> NoBucket, held |-> NoSub, attempt |-> 0,
         oldBucket |-> NoBucket, current |-> FALSE]

At(w, pc) == h[w].pc = pc

Become(w, request) == h' = [h EXCEPT ![w] = request]
Goto(w, pc) == h' = [h EXCEPT ![w].pc = pc]
GotoAt(w, pc, t) == h' = [h EXCEPT ![w].pc = pc, ![w].t = t]
Finish(w) == Become(w, Idle)

WriteRow(k, row) == rows' = [rows EXCEPT ![k] = row]

(***************************************************************************)
(* reserveUsage.  Known keys are only observed (and a pending release      *)
(* applied); for a new key the request first makes the tombstone of a      *)
(* release that came before it, then tries to insert a funded row.         *)
(***************************************************************************)
ReserveBegin(w, k, operator) ==
    /\ At(w, "idle")
    /\ Become(w, [Idle EXCEPT !.pc = IF rows[k] = NoRow THEN "reserveMaterialize"
                                                        ELSE "reserveReconcile",
                              !.key = k, !.operator = operator, !.t = now])
    /\ UNCHANGED <<now, tables, ledger>>

ReserveReconcile(w) ==
    LET k == h[w].key IN
    /\ At(w, "reserveReconcile")
    /\ WriteRow(k, ReconciledRow(k, LiveIntent(k, h[w].t), h[w].t))
    /\ Finish(w)
    /\ UNCHANGED <<now, intents, leases, ledger>>

\* ON CONFLICT DO NOTHING: a key another request inserted is left alone.
ReserveMaterialize(w) ==
    LET k == h[w].key
        materialized == LiveIntent(k, h[w].t) /\ rows[k] = NoRow
    IN
    /\ At(w, "reserveMaterialize")
    /\ WriteRow(k, IF materialized THEN TombstoneRow(h[w].operator, h[w].t) ELSE rows[k])
    /\ IF materialized \/ h[w].attempt = MaxAttempts
         THEN Finish(w)
         ELSE h' = [h EXCEPT ![w].pc = "reserveSettle", ![w].attempt = @ + 1]
    /\ UNCHANGED <<now, intents, leases, ledger>>

ReserveSettle(w) ==
    /\ At(w, "reserveSettle")
    /\ rows' = [k \in Keys |-> SettledRow(k, now)]
    /\ GotoAt(w, "reserveChoose", now)
    /\ UNCHANGED <<now, intents, leases, ledger>>

\* The reads of getBillingStatusForUser; the clock is read again after them.
ReserveChoose(w) ==
    LET k == h[w].key
        bucket == ChooseBillingBucket(h[w].operator, BillingSnapshot(h[w].t), Duration[k])
        held == IF bucket = "subscription" THEN CurrentSub(h[w].t) ELSE NoSub
    IN
    /\ At(w, "reserveChoose")
    /\ IF bucket = NoBucket
         THEN Finish(w)
         ELSE h' = [h EXCEPT ![w].pc = "reserveInsert", ![w].bucket = bucket,
                             ![w].held = held, ![w].t = now]
    /\ UNCHANGED <<now, tables, ledger>>

\* Mutant: the INSERT does not look for a release that came first.
CanInsertReleased(k, request) ==
    /\ rows[k] = NoRow
    /\ CanFund(k, request.bucket, request.held, request.t)

\* insertUsageReservationAtomically, one statement per bucket.
CanInsert(k, request) ==
    /\ rows[k] = NoRow
    /\ ~LiveIntent(k, request.t)
    /\ CanFund(k, request.bucket, request.held, request.t)

ReserveInsert(w) ==
    LET k == h[w].key
        inserted == CanInsert(k, h[w])
    IN
    /\ At(w, "reserveInsert")
    /\ WriteRow(k, IF inserted THEN FundedRow(k, h[w].bucket, h[w].t) ELSE rows[k])
    /\ IF inserted
         THEN Finish(w)
         ELSE h' = [h EXCEPT ![w].pc = "reserveRecheck", ![w].bucket = NoBucket,
                             ![w].held = NoSub]
    /\ UNCHANGED <<now, intents, leases, ledger>>

\* A lost insert race: the key now exists, or was released, or a quota filled.
ReserveRecheck(w) ==
    /\ At(w, "reserveRecheck")
    /\ GotoAt(w, IF rows[h[w].key] = NoRow THEN "reserveMaterialize"
                                          ELSE "reserveReconcile", now)
    /\ UNCHANGED <<now, tables, ledger>>

ReserveStep(w) ==
    \/ ReserveReconcile(w) \/ ReserveMaterialize(w) \/ ReserveSettle(w)
    \/ ReserveChoose(w) \/ ReserveInsert(w) \/ ReserveRecheck(w)

(***************************************************************************)
(* renewUsageReservation.  The time read at the start bounds every later   *)
(* statement.  A current reservation is extended; a lapsed, released or    *)
(* upgradable one is funded anew, unless AI work holds it.                 *)
(***************************************************************************)
RenewBegin(w, k, operator, resume) ==
    LET row == rows[k] IN
    /\ At(w, "idle")
    /\ row # NoRow
    /\ resume \/ (row.status # "completed" /\ ~row.releaseRequested)
    /\ row.bucket = "operator" => operator
    /\ Become(w, [Idle EXCEPT
                    !.pc = IF row.status = "completed" THEN "renewCheckCompleted"
                                                       ELSE "renewSettle",
                    !.key = k, !.operator = operator, !.resume = resume, !.t = now,
                    !.oldBucket = row.bucket,
                    !.current = row.status = "reserved" /\ ~IsExpired(row, now)])
    /\ UNCHANGED <<now, tables, ledger>>

RenewCheckCompleted(w) ==
    /\ At(w, "renewCheckCompleted")
    /\ IF IsEntitled(rows[h[w].key], now) THEN Goto(w, "renewExtendCompleted")
                                          ELSE Finish(w)
    /\ UNCHANGED <<now, tables, ledger>>

RenewExtendCompleted(w) ==
    LET k == h[w].key
        row == rows[k]
    IN
    /\ At(w, "renewExtendCompleted")
    /\ WriteRow(k, IF row.status = "completed"
                     THEN [row EXCEPT !.expires = Max2(@, h[w].t + Lifetime)]
                     ELSE row)
    /\ Finish(w)
    /\ UNCHANGED <<now, intents, leases, ledger>>

RenewSettle(w) ==
    /\ At(w, "renewSettle")
    /\ rows' = [k \in Keys |-> SettledRow(k, h[w].t)]
    /\ Goto(w, "renewChoose")
    /\ UNCHANGED <<now, intents, leases, ledger>>

IsUpgrade(old, bucket) ==
    \/ old = "free" /\ bucket \in {"subscription", "one_time"}
    \/ old = "one_time" /\ bucket = "subscription"

RenewChoose(w) ==
    LET k == h[w].key
        bucket == ChooseBillingBucket(h[w].operator, BillingSnapshot(h[w].t), Duration[k])
        held == IF bucket = "subscription" THEN CurrentSub(h[w].t) ELSE NoSub
    IN
    /\ At(w, "renewChoose")
    /\ h' = [h EXCEPT ![w].pc = IF h[w].current /\ ~IsUpgrade(h[w].oldBucket, bucket)
                                  THEN "renewExtend" ELSE "renewCheckLease",
                      ![w].bucket = bucket, ![w].held = held]
    /\ UNCHANGED <<now, tables, ledger>>

\* One batch: extend the row and, for a resuming renewal, forget the intent.
RenewExtend(w) ==
    LET k == h[w].key
        row == rows[k]
        until == h[w].t + Lifetime
        extended == /\ row.status = "reserved"
                    /\ ~IsExpired(row, h[w].t)
                    /\ h[w].resume \/ ~row.releaseRequested
                    /\ IsEntitled(row, h[w].t)
                    /\ row.bucket = "operator" => h[w].operator
        after == IF extended
                   THEN [row EXCEPT !.expires = Max2(@, until),
                                    !.releaseRequested = @ /\ ~h[w].resume]
                   ELSE row
        forget == /\ h[w].resume
                  /\ after.status = "reserved" /\ ~after.releaseRequested
                  /\ after.expires >= until
    IN
    /\ At(w, "renewExtend")
    /\ WriteRow(k, after)
    /\ intents' = IF forget THEN [intents EXCEPT ![k] = NoIntent] ELSE intents
    /\ IF extended THEN Finish(w) ELSE Goto(w, "renewCheckLease")
    /\ UNCHANGED <<now, leases, ledger>>

RenewCheckLease(w) ==
    LET refused == \/ LiveLease(h[w].key, h[w].t)
                   \/ h[w].bucket = NoBucket
                   \/ h[w].oldBucket \in {"subscription", "one_time"} /\ h[w].bucket = "free"
    IN
    /\ At(w, "renewCheckLease")
    /\ IF refused THEN Finish(w) ELSE Goto(w, "renewReactivate")
    /\ UNCHANGED <<now, tables, ledger>>

\* Mutant: a lapsed reservation comes back without its quota being checked.
CanReactivateUnfunded(k, request) ==
    /\ rows[k].status # "completed"
    /\ request.resume \/ ~rows[k].releaseRequested
    /\ ~LiveLease(k, request.t)
    /\ request.bucket = "one_time" => OpenPurchases(k) # {}

\* Mutant: a saved reservation is funded anew.
CanReactivateCompleted(k, request) ==
    /\ request.resume \/ ~rows[k].releaseRequested
    /\ ~LiveLease(k, request.t)
    /\ CanFund(k, request.bucket, request.held, request.t)

\* Mutant: the lease is only looked at before the batch, not in it.
CanReactivateLeased(k, request) ==
    /\ rows[k].status # "completed"
    /\ request.resume \/ ~rows[k].releaseRequested
    /\ CanFund(k, request.bucket, request.held, request.t)

\* reactivateUsageReservationAtomically, one batch.
CanReactivate(k, request) ==
    /\ rows[k].status # "completed"
    /\ request.resume \/ ~rows[k].releaseRequested
    /\ ~LiveLease(k, request.t)
    /\ CanFund(k, request.bucket, request.held, request.t)

RenewReactivate(w) ==
    LET k == h[w].key
        after == IF CanReactivate(k, h[w]) THEN FundedRow(k, h[w].bucket, h[w].t)
                                           ELSE rows[k]
        forget == /\ h[w].resume
                  /\ after.status = "reserved" /\ ~after.releaseRequested
                  /\ after.created = h[w].t /\ after.expires = h[w].t + Lifetime
    IN
    /\ At(w, "renewReactivate")
    /\ WriteRow(k, after)
    /\ intents' = IF forget THEN [intents EXCEPT ![k] = NoIntent] ELSE intents
    /\ Finish(w)
    /\ UNCHANGED <<now, leases, ledger>>

RenewStep(w) ==
    \/ RenewCheckCompleted(w) \/ RenewExtendCompleted(w) \/ RenewSettle(w)
    \/ RenewChoose(w) \/ RenewExtend(w) \/ RenewCheckLease(w) \/ RenewReactivate(w)

-------------------------------------------------------------------------------
(* requestUsageRelease: the page was left, whether or not the row exists.   *)

ReleaseBegin(w, k) ==
    /\ At(w, "idle")
    /\ rows[k].status # "completed"
    /\ Become(w, [Idle EXCEPT !.pc = "releaseBatch", !.key = k, !.t = now])
    /\ UNCHANGED <<now, tables, ledger>>

ReleaseBatch(w) ==
    LET k == h[w].key IN
    /\ At(w, "releaseBatch")
    /\ intents' = IntentsAfterRelease(k, h[w].t)
    /\ WriteRow(k, ReconciledRow(k, intents'[k].expires >= h[w].t, h[w].t))
    /\ Finish(w)
    /\ UNCHANGED <<now, leases, ledger>>

(***************************************************************************)
(* completeUsage, one statement: the video was saved.                      *)
(***************************************************************************)
CompleteUsage(k) ==
    /\ IsActive(k)
    /\ ~IsExpired(rows[k], now)
    /\ ~rows[k].releaseRequested
    /\ IsEntitled(rows[k], now)
    /\ WriteRow(k, [rows[k] EXCEPT !.status = "completed"])
    /\ UNCHANGED <<now, intents, leases, h, ledger>>

\* The settlement that every billing-status request starts with.
SettleExpired ==
    /\ rows' = [k \in Keys |-> SettledRow(k, now)]
    /\ UNCHANGED <<now, intents, leases, h, ledger>>

(***************************************************************************)
(* A metered AI call: it finds the reservation, takes the lease, works, and*)
(* gives the lease back, applying a release that was deferred meanwhile.   *)
(***************************************************************************)
NoWorker == "nobody"
NoLease == [holder |-> NoWorker, expires |-> 0]

AiBegin(w, k) ==
    /\ At(w, "idle")
    /\ IsActive(k)
    /\ ~IsExpired(rows[k], now)
    /\ IsEntitled(rows[k], now)
    /\ Become(w, [Idle EXCEPT !.pc = "aiAcquire", !.key = k, !.t = now])
    /\ UNCHANGED <<now, tables, ledger>>

\* Mutant: a lease is replaced at its holder's last second.
CanAcquireEarly(k, t) ==
    /\ IsActive(k)
    /\ ~IsExpired(rows[k], t)
    /\ ~rows[k].releaseRequested
    /\ leases[k].expires <= t + 1

\* acquireUsageOperationLease, one statement.
CanAcquire(k, t) ==
    /\ IsActive(k)
    /\ ~IsExpired(rows[k], t)
    /\ ~rows[k].releaseRequested
    /\ ~LiveLease(k, t)

AiAcquire(w) ==
    LET k == h[w].key IN
    /\ At(w, "aiAcquire")
    /\ IF CanAcquire(k, h[w].t)
         THEN /\ leases' = [leases EXCEPT ![k] = [holder |-> w, expires |-> h[w].t + LeaseTTL]]
              /\ Goto(w, "aiRunning")
         ELSE /\ Finish(w)
              /\ UNCHANGED leases
    /\ UNCHANGED <<now, rows, intents, ledger>>

\* blockObservedDuration: the source is longer than was declared.
AiBlock(w) ==
    LET k == h[w].key IN
    /\ At(w, "aiRunning")
    /\ rows[k].status = "reserved"
    /\ WriteRow(k, [rows[k] EXCEPT !.status = "completed"])
    /\ UNCHANGED <<now, intents, leases, h, ledger>>

AiRelease(w) ==
    LET k == h[w].key IN
    /\ At(w, "aiRunning")
    /\ IF leases[k].holder = w
         THEN /\ leases' = [leases EXCEPT ![k] = NoLease]
              /\ GotoAt(w, "aiFinalize", now)
         ELSE /\ Finish(w)
              /\ UNCHANGED leases
    /\ UNCHANGED <<now, rows, intents, ledger>>

AiFinalize(w) ==
    LET k == h[w].key
        due == /\ rows[k].status = "reserved"
               /\ rows[k].releaseRequested
               /\ ~LiveLease(k, h[w].t)
    IN
    /\ At(w, "aiFinalize")
    /\ WriteRow(k, IF due THEN Released(rows[k], h[w].t) ELSE rows[k])
    /\ Finish(w)
    /\ UNCHANGED <<now, intents, leases, ledger>>

AiStep(w) == AiAcquire(w) \/ AiBlock(w) \/ AiRelease(w) \/ AiFinalize(w)

\* A terminated invocation leaves its rows and its lease behind.
WorkerDies(w) ==
    /\ ~At(w, "idle")
    /\ Finish(w)
    /\ UNCHANGED <<now, tables, ledger>>

-------------------------------------------------------------------------------
(* The ledger, as Stripe's webhooks write it.                               *)

UpsertSubscription(row) ==
    /\ sub' = row
    /\ UNCHANGED <<now, tables, purchases, h, refund>>

Subscribe(plan) ==
    /\ sub.status # "active" \/ sub.end <= now
    /\ UpsertSubscription([status |-> "active", plan |-> plan, start |-> now,
                           end |-> now + PeriodLength, revoked |-> 0])

RenewPeriod ==
    /\ sub.status = "active" /\ sub.end <= now
    /\ UpsertSubscription([sub EXCEPT !.start = sub.end, !.end = sub.end + PeriodLength])

ChangePlan(plan) ==
    /\ sub.status = "active" /\ plan # sub.plan
    /\ UpsertSubscription([sub EXCEPT !.plan = plan])

CancelSubscription ==
    /\ sub.status = "active"
    /\ UpsertSubscription([sub EXCEPT !.status = "canceled"])

RecordPurchase(p) ==
    /\ purchases[p] = "none"
    /\ \A q \in Purchases : q < p => purchases[q] # "none"
    /\ purchases' = [purchases EXCEPT ![p] = "paid"]
    /\ UNCHANGED <<now, tables, sub, h, refund>>

(***************************************************************************)
(* A refund is published first and its reservations are stopped by later   *)
(* statements; a webhook that dies is delivered again from the start.      *)
(***************************************************************************)
NoRefund == [pc |-> "idle", purchase |-> NoPurchase, start |-> 0, end |-> 0]

RefundGoto(pc) == refund' = [refund EXCEPT !.pc = pc]

RefundPurchase(p) ==
    /\ refund = NoRefund
    /\ purchases[p] = "paid"
    /\ refund' = [NoRefund EXCEPT !.pc = "publishPurchase", !.purchase = p]
    /\ UNCHANGED <<now, tables, sub, purchases, h>>

\* finishPurchaseStateSync
PublishPurchase ==
    /\ refund.pc = "publishPurchase"
    /\ purchases' = [purchases EXCEPT ![refund.purchase] = "revoked"]
    /\ RefundGoto("stopPurchase")
    /\ UNCHANGED <<now, tables, sub, h>>

\* stopOneTimeReservationsForPurchase
StopPurchase ==
    /\ refund.pc = "stopPurchase"
    /\ rows' = [k \in Keys |->
                  IF rows[k].status = "reserved" /\ rows[k].purchase = refund.purchase
                    THEN [rows[k] EXCEPT !.status = "released", !.expires = now - 1]
                    ELSE rows[k]]
    /\ refund' = NoRefund
    /\ UNCHANGED <<now, intents, leases, sub, purchases, h>>

\* A webhook that has published has given up the claim on the purchase, so
\* another one may restore it before the first stops its reservations.
RestorePurchase(p) ==
    /\ purchases[p] = "revoked"
    /\ ~(refund.pc = "publishPurchase" /\ refund.purchase = p)
    /\ purchases' = [purchases EXCEPT ![p] = "paid"]
    /\ UNCHANGED <<now, tables, sub, h, refund>>

\* setSubscriptionPeriodRevocationState, one action per statement.
RefundPeriod ==
    /\ refund = NoRefund
    /\ sub # NoSub
    /\ refund' = [NoRefund EXCEPT !.pc = "revokePeriod", !.start = sub.start]
    /\ UNCHANGED <<now, tables, sub, purchases, h>>

RevokePeriod ==
    /\ refund.pc = "revokePeriod"
    /\ IF sub.start = refund.start
         THEN /\ sub' = [sub EXCEPT !.revoked = sub.start]
              /\ refund' = [refund EXCEPT !.pc = "expirePeriod", !.end = sub.end]
         ELSE refund' = NoRefund /\ UNCHANGED sub
    /\ UNCHANGED <<now, tables, purchases, h>>

InRefundedPeriod(row) ==
    /\ row.bucket = "subscription"
    /\ refund.start <= row.created /\ row.created < refund.end

ExpirePeriod ==
    /\ refund.pc = "expirePeriod"
    /\ rows' = [k \in Keys |-> IF IsActive(k) /\ InRefundedPeriod(rows[k])
                                 THEN [rows[k] EXCEPT !.expires = now - 1] ELSE rows[k]]
    /\ RefundGoto("releasePeriod")
    /\ UNCHANGED <<now, intents, leases, sub, purchases, h>>

ReleasePeriod ==
    /\ refund.pc = "releasePeriod"
    /\ rows' = [k \in Keys |-> IF rows[k].status = "reserved" /\ InRefundedPeriod(rows[k])
                                 THEN [rows[k] EXCEPT !.status = "released"] ELSE rows[k]]
    /\ refund' = NoRefund
    /\ UNCHANGED <<now, intents, leases, sub, purchases, h>>

RestorePeriod ==
    /\ refund = NoRefund
    /\ sub.revoked # 0 /\ sub.revoked = sub.start
    /\ sub' = [sub EXCEPT !.revoked = 0]
    /\ UNCHANGED <<now, tables, purchases, h, refund>>

RefundDies ==
    /\ refund.pc \in {"stopPurchase", "expirePeriod", "releasePeriod"}
    /\ RefundGoto(IF refund.purchase # NoPurchase THEN "publishPurchase" ELSE "revokePeriod")
    /\ UNCHANGED <<now, tables, sub, purchases, h>>

LedgerStep ==
    \/ \E plan \in Plans : Subscribe(plan) \/ ChangePlan(plan)
    \/ RenewPeriod \/ CancelSubscription
    \/ \E p \in Purchases : RecordPurchase(p) \/ RestorePurchase(p)
    \/ /\ "refund" \in Kinds
       /\ RefundPeriod \/ \E p \in Purchases : RefundPurchase(p)
    \/ PublishPurchase \/ StopPurchase
    \/ RevokePeriod \/ ExpirePeriod \/ ReleasePeriod \/ RestorePeriod
    \/ RefundDies

Tick ==
    /\ now < MaxTime
    /\ now' = now + 1
    /\ UNCHANGED <<tables, ledger, h>>

-------------------------------------------------------------------------------

Init ==
    /\ now = 1
    /\ rows = [k \in Keys |-> NoRow]
    /\ intents = [k \in Keys |-> NoIntent]
    /\ leases = [k \in Keys |-> NoLease]
    /\ sub = NoSub
    /\ purchases = [p \in Purchases |-> "none"]
    /\ h = [w \in Workers |-> Idle]
    /\ refund = NoRefund

RequestBegins(w, k) ==
    \/ /\ "reserve" \in Kinds
       /\ \E operator \in OperatorModes : ReserveBegin(w, k, operator)
    \/ /\ "renew" \in Kinds
       /\ \E operator \in OperatorModes, resume \in ResumeModes :
              RenewBegin(w, k, operator, resume)
    \/ /\ "release" \in Kinds
       /\ ReleaseBegin(w, k)
    \/ /\ "ai" \in Kinds
       /\ AiBegin(w, k)

Next ==
    \/ \E w \in Workers :
          \/ \E k \in Keys : RequestBegins(w, k)
          \/ ReserveStep(w) \/ RenewStep(w) \/ ReleaseBatch(w) \/ AiStep(w)
          \/ WorkerDies(w)
    \/ \E k \in Keys : CompleteUsage(k)
    \/ SettleExpired
    \/ LedgerStep
    \/ Tick

Spec == Init /\ [][Next]_vars

-------------------------------------------------------------------------------
(* Types.                                                                   *)

RowStatuses == {"absent", "reserved", "completed", "released"}

Rows == [status : RowStatuses, bucket : Buckets \cup {NoBucket}, created : 0 .. MaxTime,
         expires : Nat, releaseRequested : BOOLEAN,
         purchase : Purchases \cup {NoPurchase}]

Subs == [status : {"none", "active", "canceled"}, plan : Plans \cup {NoPlan},
         start : Nat, end : Nat, revoked : Nat]

Pcs == {"reserveReconcile", "reserveMaterialize", "reserveSettle",
        "reserveChoose", "reserveInsert", "reserveRecheck",
        "renewCheckCompleted", "renewExtendCompleted", "renewSettle", "renewChoose",
        "renewExtend", "renewCheckLease", "renewReactivate", "releaseBatch",
        "aiAcquire", "aiRunning", "aiFinalize"}

Requests == [pc : Pcs, key : Keys, operator : BOOLEAN, resume : BOOLEAN,
             t : 1 .. MaxTime, bucket : Buckets \cup {NoBucket}, held : Subs,
             attempt : 0 .. MaxAttempts, oldBucket : Buckets \cup {NoBucket},
             current : BOOLEAN]

PurchaseRefunds == [pc : {"publishPurchase", "stopPurchase"}, purchase : Purchases,
                    start : Nat, end : Nat]

PeriodRefunds == [pc : {"revokePeriod", "expirePeriod", "releasePeriod"},
                  purchase : {NoPurchase}, start : Nat, end : Nat]

\* Type correctness of the reservation tables, the ledger and the requests.
TypeOK ==
    /\ now \in 1 .. MaxTime
    /\ rows \in [Keys -> Rows]
    /\ intents \in [Keys -> [requested : Nat, expires : Nat]]
    /\ leases \in [Keys -> [holder : Workers \cup {NoWorker}, expires : Nat]]
    /\ sub \in Subs
    /\ purchases \in [Purchases -> {"none", "paid", "revoked"}]
    /\ h \in [Workers -> Requests \cup {Idle}]
    /\ refund \in PurchaseRefunds \cup PeriodRefunds \cup {NoRefund}

-------------------------------------------------------------------------------
(* Safety.                                                                  *)

\* However requests race, are retried or change what funds them, the free trial
\* never pays for more videos than FREE_VIDEO_LIMIT (the count in the free
\* INSERT and in the free reactivation).
FreeVideoQuota == Cardinality(FreeVideos) <= FreeVideoLimit

\* Nor does it pay for more source seconds than FREE_SECONDS_LIMIT, although
\* every request decides on a sum that others are about to change.
FreeSecondsQuota == SumFunctionOnSet(Duration, FreeVideos) <= FreeSecondsLimit

\* Two reservations never use the one credit of the same purchase, also after
\* refunds, rebinding and retries.
PurchaseFundsOneVideo ==
    \A p \in Purchases : Cardinality(VideosOnPurchase(p)) <= 1

\* The operator's reservations created within one Tokyo day stay within the
\* daily limit, although a request may insert with a clock reading of the day
\* before.
OperatorVideosOn(day) ==
    {k \in Keys : /\ IsActive(k) /\ rows[k].bucket = "operator"
                  /\ StartOfTokyoDay(rows[k].created) = day}

OperatorQuota ==
    \A t \in 1 .. MaxTime :
        Cardinality(OperatorVideosOn(StartOfTokyoDay(t))) <= OperatorDailyLimit

\* A reservation the plan comes to fund fits the limit of the plan as it is
\* when it is funded, whatever plan the request had read.
SubscriptionQuotaOnGrant ==
    [][\A k \in Keys :
          (/\ rows'[k].bucket = "subscription" /\ rows'[k].status = "reserved"
           /\ rows'[k].created # rows[k].created)
          => /\ sub.status = "active" /\ sub.revoked # sub.start
             /\ Cardinality(SubscriptionVideos(sub.start, sub.end)') <= PlanLimit[sub.plan]
      ]_vars

\* A saved video stays charged: no retry, renewal, release, settlement or
\* refund reopens it or moves it to another allowance.
CompletedIsTerminal ==
    [][\A k \in Keys : rows[k].status = "completed" =>
          /\ rows'[k].status = "completed"
          /\ rows'[k].bucket = rows[k].bucket
          /\ rows'[k].created = rows[k].created
          /\ rows'[k].purchase = rows[k].purchase]_vars

\* Once the page that owned a key was left, no request in flight can hold the
\* key's allowance again until a renewal asks for it ("D1 serializes ... so
\* either reserve sees the tombstone or this request sees the reservation").
ReleasedKeyStaysReleased ==
    \A k \in Keys : (LiveIntent(k, now) /\ rows[k].status = "reserved")
                        => rows[k].releaseRequested

\* Two AI calls never hold an unexpired lease of the same reservation: a Worker
\* that believes in its lease is the one the table names.
Deadline(w) == h[w].t + LeaseTTL

LeaseExclusive ==
    \A w \in Workers : At(w, "aiRunning") /\ Deadline(w) > now =>
        leases[h[w].key] = [holder |-> w, expires |-> Deadline(w)]

\* While AI work holds a reservation, the video stays charged to the allowance
\* the work was authorized under.
LeaseProtectsFunding ==
    [][\A k \in Keys : LiveLease(k, now) =>
          /\ rows'[k].bucket = rows[k].bucket
          /\ rows'[k].purchase = rows[k].purchase
          /\ rows'[k].created = rows[k].created]_vars

\* Neither leaving the page nor the lapse of the reservation gives it back
\* while AI work holds it; only a refund does.
LeaseDefersRelease ==
    [][\A k \in Keys : (LiveLease(k, now) /\ rows[k].status = "reserved"
                          /\ rows'[k].status = "released")
          => refund.pc \in {"stopPurchase", "releasePeriod"}]_vars

\* A refunded purchase or period holds no reservation, except while the webhook
\* that refunds it (or its redelivery) has statements left to run.
RefundStopsReservations ==
    \A k \in Keys : rows[k].status = "reserved" =>
        /\ (rows[k].bucket = "one_time" /\ purchases[rows[k].purchase] = "revoked")
              => refund.purchase = rows[k].purchase
        /\ (/\ rows[k].bucket = "subscription" /\ sub.revoked = sub.start
            /\ sub.start <= rows[k].created /\ rows[k].created < sub.end)
              => refund.start = sub.start

\* "A paid video allowance is completed only by the explicit save/export
\* confirmation; merely generating a preview must never consume it" (the comment
\* of settleExpiredUsageReservations): a paid reservation that becomes completed
\* does so as completeUsage would, unexpired, not given back and still entitled.
PaidOnlyBySave ==
    [][\A k \in Keys :
          (/\ rows[k].bucket \in {"subscription", "one_time"}
           /\ rows[k].status = "reserved" /\ rows'[k].status = "completed")
          => CompleteUsage(k)]_vars

-------------------------------------------------------------------------------
(* The tables, seen as the promise of VideoAllowance.                       *)

StageOf == [absent |-> "none", reserved |-> "held", completed |-> "spent",
            released |-> "returned"]

VideoOf(row) == [stage |-> StageOf[row.status], bucket |-> row.bucket,
                 purchase |-> row.purchase, created |-> row.created]

Allowance == INSTANCE VideoAllowance WITH
                video <- [k \in Keys |-> VideoOf(rows[k])], Times <- 1 .. MaxTime

\* Every statement of every request is a step of the allowance, or changes
\* nothing the allowance knows: leases, intents, expiry and retries are detail.
ImplementsAllowance == Allowance!Spec

-------------------------------------------------------------------------------
(* Values of the constants on small instances.                              *)

Alike == Permutations(Workers)

SmallLimits == [p \in Plans |-> IF p = "starter" THEN 1 ELSE 2]

\* Each video fits the 180 seconds of the trial, both do not.
SmallDuration == [k \in Keys |-> CASE k = 1 -> 80 [] k = 2 -> 110]
===============================================================================
