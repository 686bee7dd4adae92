------------------------------ MODULE StripeLedger ------------------------------
(***************************************************************************)
(* How the service's books follow Stripe: the webhook                      *)
(* (app/api/billing/webhook/route.ts), the refresh of a purchase           *)
(* (lib/stripe-purchase-state.ts), the monthly checkout                    *)
(* (app/api/billing/checkout/route.ts), the statements they run in         *)
(* lib/billing-store.ts, and the message to LINE about a payment           *)
(* (lib/line-payment-notifications.ts).                                    *)
(*                                                                         *)
(* Stripe delivers an event until it is answered 200.  A payload is only a *)
(* trigger: the handler takes a lease, reads Stripe's present state and    *)
(* writes it down, each in a step of its own, so that a handler may write  *)
(* what Stripe no longer says.  Leases are modelled without a clock: one   *)
(* lapses in a step of its own, when the constants of the code allow it.   *)
(* The row of a user is about one product, chosen initially; which         *)
(* reservations a refund stops is modelled in UsageReservation.            *)
(***************************************************************************)
EXTENDS Integers, Sequences, FiniteSets

CONSTANTS
    Workers,    \* concurrent Worker invocations
    Tokens,     \* 1 .. n: monthly checkouts, each with its lock token
    Periods,    \* 1 .. n: billing periods of a subscription
    MaxEvents,  \* bound of the model: the events Stripe emits
    MaxFaults   \* bound of the model: deaths, stalls, failed calls, refusals

VARIABLES
    product,    \* what the customer buys: "one_time" or "monthly"
    paid,       \* Stripe: the one-time payment, its refunds and disputes
    sub,        \* Stripe: the subscription each checkout session led to
    session,    \* Stripe: the monthly checkout sessions
    events,     \* Stripe: the events emitted, in order
    acked,      \* Stripe: the events answered 200
    claim,      \* stripe_events: absent, claimed, lapsed, processed
    purchase,   \* billing_purchases
    row,        \* billing_subscriptions
    subLease,   \* billing_subscription_sync_leases
    lock,       \* billing_checkout_locks: the token, 0 when there is none
    messages,   \* LINE: messages shown for an event
    req,        \* the request each Worker is serving
    late,       \* history: what was last written by a Worker that had outlived its lease
    faults

books == <<purchase, row, subLease, lock>>
stripe == <<product, paid, sub, session, events>>
vars == <<product, paid, sub, session, events, acked, claim, purchase, row, subLease, lock,
          messages, req, late, faults>>

Nobody == "nobody"
NoToken == 0

ASSUME StripeLedgerAssumption ==
    /\ Nobody \notin Workers
    /\ Tokens \subseteq Nat \ {NoToken}
    /\ Periods \subseteq Nat \ {0} /\ 1 \in Periods
    /\ {MaxEvents, MaxFaults} \subseteq Nat

EventIds == 1 .. MaxEvents
Idle == [pc |-> "idle"]
NoSub == [status |-> "none", period |-> 0, refunded |-> {}, version |-> 0]
NoRow == [status |-> "none", period |-> 0, revoked |-> 0, version |-> 0]

Terminal == {"none", "canceled"}
IsActive(t) == row[t].status = "active" /\ row[t].revoked # row[t].period
Contracts == {t \in Tokens : sub[t].status \notin Terminal}

Init ==
    /\ product \in {"one_time", "monthly"}
    /\ paid = [done |-> FALSE, blocked |-> FALSE, version |-> 0]
    /\ sub = [t \in Tokens |-> NoSub]
    /\ session = [t \in Tokens |-> "none"]
    /\ events = <<>>
    /\ acked = {}
    /\ claim = [e \in EventIds |-> "absent"]
    /\ purchase = [exists |-> FALSE, blocked |-> FALSE, version |-> 0, sync |-> Nobody, lapsed |-> FALSE]
    /\ row = [t \in Tokens |-> NoRow]
    /\ subLease = [t \in Tokens |-> Nobody]
    /\ lock = NoToken
    /\ messages = [e \in EventIds |-> 0]
    /\ req = [w \in Workers |-> Idle]
    /\ late = [rows |-> {}, marks |-> {}]
    /\ faults = 0

At(w, pc) == req[w].pc = pc
Goto(w, pc) == req' = [req EXCEPT ![w].pc = pc]
Finish(w) == req' = [req EXCEPT ![w] = Idle]
Event(w) == events[req[w].e]
T(w) == Event(w).of
Fault == faults < MaxFaults /\ faults' = faults + 1

-------------------------------------------------------------------------------
(* Stripe and the customer.                                                 *)

Emit(kind, t, p) ==
    /\ Len(events) < MaxEvents
    /\ events' = Append(events, [kind |-> kind, of |-> t, period |-> p])

PayOnce ==
    /\ product = "one_time" /\ ~paid.done
    /\ paid' = [paid EXCEPT !.done = TRUE]
    /\ Emit("paid", 0, 0)
    /\ UNCHANGED <<product, sub, session, acked, claim, books, messages, req, faults, late>>

\* A refund or dispute opens, fails or is won.
DisputePurchase ==
    /\ paid.done
    /\ paid' = [paid EXCEPT !.blocked = ~@, !.version = @ + 1]
    /\ Emit("refund", 0, 0)
    /\ UNCHANGED <<product, sub, session, acked, claim, books, messages, req, faults, late>>

PaySession(t) ==
    /\ session[t] = "open"
    /\ session' = [session EXCEPT ![t] = "paid"]
    /\ sub' = [sub EXCEPT ![t] = [NoSub EXCEPT !.status = "active", !.period = 1, !.version = 1]]
    /\ Emit("completed", t, 0)
    /\ UNCHANGED <<product, paid, acked, claim, books, messages, req, faults, late>>

ExpireSession(t) ==
    /\ session[t] = "open"
    /\ session' = [session EXCEPT ![t] = "expired"]
    /\ Emit("expired", t, 0)
    /\ UNCHANGED <<product, paid, sub, acked, claim, books, messages, req, faults, late>>

\* A renewal that is paid, which an invoice tells; one that is not; a
\* cancellation.
ChangeSubscription(t) ==
    /\ sub[t].status \notin Terminal
    /\ \/ /\ sub[t].period + 1 \in Periods
          /\ \E s \in {"active", "past_due"} :
                /\ sub' = [sub EXCEPT ![t].period = @ + 1, ![t].status = s, ![t].version = @ + 1]
                /\ Emit(IF s = "active" THEN "invoice" ELSE "subscription", t, 0)
       \/ /\ sub' = [sub EXCEPT ![t].status = "canceled", ![t].version = @ + 1]
          /\ Emit("subscription", t, 0)
    /\ UNCHANGED <<product, paid, session, acked, claim, books, messages, req, faults, late>>

\* The invoice of a period is refunded, or its refund fails.
RefundPeriod(t) ==
    /\ sub[t].status # "none"
    /\ \E p \in 1 .. sub[t].period :
          /\ sub' = [sub EXCEPT ![t].refunded = IF p \in @ THEN @ \ {p} ELSE @ \cup {p}]
          /\ Emit("refund", t, p)
    /\ UNCHANGED <<product, paid, session, acked, claim, books, messages, req, faults, late>>

-------------------------------------------------------------------------------
(* The webhook: claim, handle, tell, finish.                                *)

FirstStep(kind) ==
    CASE kind = "paid"    -> "record"
      [] kind = "refund"  -> "begin"
      [] kind = "expired" -> "unlock"
      [] OTHER            -> "lease"

\* Mutant: a claim its Worker died with is never taken over.
CanClaimOnce(e) == claim[e] = "absent"
CanClaim(e) == claim[e] \in {"absent", "lapsed"}

\* beginStripeEvent; a claim that still holds refuses the delivery with 409.
Deliver(w, e) ==
    /\ At(w, "idle")
    /\ e <= Len(events) /\ e \notin acked
    /\ CanClaim(e)
    /\ claim' = [claim EXCEPT ![e] = "claimed"]
    /\ req' = [req EXCEPT ![w] = [pc |-> FirstStep(events[e].kind), e |-> e,
                                  snap |-> NoRow, failed |-> FALSE]]
    /\ UNCHANGED <<stripe, acked, books, messages, faults, late>>

DeliverAgain(e) ==
    /\ e \notin acked
    /\ claim[e] = "processed"
    /\ acked' = acked \cup {e}
    /\ UNCHANGED <<stripe, claim, books, messages, req, faults, late>>

RecordPurchase(w) ==
    /\ At(w, "record")
    /\ purchase' = [purchase EXCEPT !.exists = TRUE]
    /\ Goto(w, "begin")
    /\ UNCHANGED <<stripe, acked, claim, row, subLease, lock, messages, faults, late>>

\* reconcileOneTimePurchase.  A payment that is no purchase belongs to a
\* subscription's invoice, or to a purchase whose event has yet to arrive.
BeginSync(w) ==
    LET free == purchase.sync = Nobody \/ purchase.lapsed IN
    /\ At(w, "begin")
    /\ IF ~purchase.exists
         THEN /\ Goto(w, IF T(w) = 0 THEN "finish" ELSE "lease")
              /\ UNCHANGED purchase
         ELSE /\ Goto(w, IF free THEN "read" ELSE "abandon")
              /\ purchase' = IF free THEN [purchase EXCEPT !.sync = w, !.lapsed = FALSE]
                                     ELSE purchase
    /\ UNCHANGED <<stripe, acked, claim, row, subLease, lock, messages, faults, late>>

ReadPurchase(w) ==
    /\ At(w, "read")
    /\ req' = [req EXCEPT ![w].pc = "publish",
                          ![w].snap = [blocked |-> paid.blocked, version |-> paid.version]]
    /\ UNCHANGED <<stripe, acked, claim, books, messages, faults, late>>

\* Mutant: the result is written whoever holds the claim by now.
HoldsAnySync(w) == TRUE
HoldsSync(w) == purchase.sync = w

PublishPurchase(w) ==
    /\ At(w, "publish")
    /\ IF HoldsSync(w)
         THEN /\ purchase' = [purchase EXCEPT !.blocked = req[w].snap.blocked,
                                              !.version = req[w].snap.version,
                                              !.sync = Nobody, !.lapsed = FALSE]
              /\ req' = [req EXCEPT ![w].pc = IF Event(w).kind = "paid" THEN "notify" ELSE "finish",
                                    ![w].snap = NoRow]
         ELSE /\ req' = [req EXCEPT ![w].pc = "abandonSync", ![w].snap = NoRow]
              /\ UNCHANGED purchase
    /\ UNCHANGED <<stripe, acked, claim, row, subLease, lock, messages, faults, late>>

AbandonSync(w) ==
    /\ At(w, "abandonSync")
    /\ purchase' = IF purchase.sync = w
                     THEN [purchase EXCEPT !.sync = Nobody, !.lapsed = FALSE] ELSE purchase
    /\ Goto(w, "abandon")
    /\ UNCHANGED <<stripe, acked, claim, row, subLease, lock, messages, faults, late>>

DropLock(t) == IF lock = t THEN NoToken ELSE lock

\* withSubscriptionSyncLease: twenty tries, then the event is given up for now.
AcquireLease(w) ==
    /\ At(w, "lease")
    /\ subLease[T(w)] = Nobody
    /\ subLease' = [subLease EXCEPT ![T(w)] = w]
    /\ Goto(w, "readSub")
    /\ UNCHANGED <<stripe, acked, claim, purchase, row, lock, messages, faults, late>>

GiveUpLease(w) ==
    /\ At(w, "lease")
    /\ subLease[T(w)] # Nobody
    /\ Fault
    /\ Goto(w, "abandon")
    /\ UNCHANGED <<stripe, acked, claim, books, messages, late>>

ReadSubscription(w) ==
    LET s == sub[T(w)] IN
    /\ At(w, "readSub")
    /\ req' = [req EXCEPT ![w].pc = "persist",
                          ![w].snap = [status |-> s.status, period |-> s.period, version |-> s.version]]
    /\ UNCHANGED <<stripe, acked, claim, books, messages, faults, late>>

HoldsLease(w) == subLease[T(w)] = w

\* persistSubscription: the row, then the lock of the checkout it came from.
\* The write does not ask whether the lease is still the Worker's own.
PersistSubscription(w) ==
    LET s == req[w].snap IN
    /\ At(w, "persist")
    /\ row' = [row EXCEPT ![T(w)].status = s.status, ![T(w)].period = s.period,
                          ![T(w)].version = s.version]
    /\ lock' = DropLock(T(w))
    /\ req' = [req EXCEPT ![w].pc = IF Event(w).kind = "refund" THEN "readRefunds" ELSE "release",
                          ![w].snap = NoRow]
    /\ late' = [late EXCEPT !.rows = IF HoldsLease(w) THEN @ \ {T(w)} ELSE @ \cup {T(w)}]
    /\ UNCHANGED <<stripe, acked, claim, purchase, subLease, messages, faults>>

ReadRefunds(w) ==
    /\ At(w, "readRefunds")
    /\ req' = [req EXCEPT ![w].pc = "revoke",
                          ![w].snap = [blocked |-> Event(w).period \in sub[T(w)].refunded]]
    /\ UNCHANGED <<stripe, acked, claim, books, messages, faults, late>>

\* Mutant: the end of the period marks it.
EndMark(r) == r.period + 1
RevocationMark(r) == r.period

\* setSubscriptionPeriodRevocationState reads the row: a refund of an earlier
\* period is history, one of a later period is refused.
ReadRow(w) ==
    LET p == Event(w).period
        r == row[T(w)]
    IN
    /\ At(w, "revoke")
    /\ req' = [req EXCEPT ![w].pc = IF p = r.period THEN "mark" ELSE "release",
                          ![w].snap = IF p = r.period
                                        THEN [blocked |-> @.blocked, revoked |-> r.revoked]
                                        ELSE NoRow,
                          ![w].failed = p > r.period]
    /\ UNCHANGED <<stripe, acked, claim, books, messages, faults, late>>

\* Its update is of the period it read.  A failed refund is refused for as long
\* as the row carries the revocation of an earlier period.
RevokePeriod(w) ==
    LET p == Event(w).period
        t == T(w)
        r == row[t]
        s == req[w].snap
        same == r.period = p
        marks == same /\ (s.blocked \/ r.revoked = p)
        sure == same /\ HoldsLease(w) /\ t \notin late.rows
    IN
    /\ At(w, "mark")
    /\ row' = [row EXCEPT ![t].revoked = CASE ~marks    -> @
                                           [] s.blocked -> RevocationMark(r)
                                           [] OTHER     -> 0]
    /\ req' = [req EXCEPT ![w].pc = "release", ![w].snap = NoRow,
                          ![w].failed = ~marks /\ (s.blocked \/ s.revoked # 0)]
    /\ late' = [late EXCEPT !.marks = IF sure THEN @ \ {t} ELSE IF marks THEN @ \cup {t} ELSE @]
    /\ UNCHANGED <<stripe, acked, claim, purchase, subLease, lock, messages, faults>>

\* A completed checkout drops its lock once more, outside the lease.
ReleaseLease(w) ==
    LET k == Event(w).kind IN
    /\ At(w, "release")
    /\ subLease' = [subLease EXCEPT ![T(w)] = IF @ = w THEN Nobody ELSE @]
    /\ lock' = IF k = "completed" /\ ~req[w].failed THEN DropLock(T(w)) ELSE lock
    /\ Goto(w, CASE req[w].failed -> "abandon"
                 [] k = "invoice" -> "notify"
                 [] OTHER         -> "finish")
    /\ UNCHANGED <<stripe, acked, claim, purchase, row, messages, faults, late>>

Unlock(w) ==
    /\ At(w, "unlock")
    /\ lock' = DropLock(T(w))
    /\ Goto(w, "finish")
    /\ UNCHANGED <<stripe, acked, claim, purchase, row, subLease, messages, faults, late>>

\* The key a message carries: LINE shows one message per key.
RetryKeyOfAttempt(e, n) == n
RetryKey(e, n) == 0

\* deliverPaymentNotification: two tries; a failure is logged and forgotten.
\* A try may be shown while its answer is lost.
Notify(w) ==
    LET e == req[w].e IN
    /\ At(w, "notify")
    /\ \E shown \in 0 .. 2 :
          messages' = [messages EXCEPT ![e] =
                         @ + Cardinality({RetryKey(e, @ + i) : i \in 1 .. shown}
                                         \ {RetryKey(e, i) : i \in 1 .. @})]
    /\ Goto(w, "finish")
    /\ UNCHANGED <<stripe, acked, claim, books, faults, late>>

\* finishStripeEvent, and the answer, which may be lost.
FinishEvent(w) ==
    LET e == req[w].e IN
    /\ At(w, "finish")
    /\ claim' = [claim EXCEPT ![e] = IF @ = "absent" THEN @ ELSE "processed"]
    /\ \/ acked' = acked \cup {e} /\ UNCHANGED faults
       \/ Fault /\ UNCHANGED acked
    /\ Finish(w)
    /\ UNCHANGED <<stripe, books, messages, late>>

\* abandonStripeEvent deletes the row, whoever claimed it by now.
AbandonEvent(w) ==
    /\ At(w, "abandon")
    /\ claim' = [claim EXCEPT ![req[w].e] = "absent"]
    /\ Finish(w)
    /\ UNCHANGED <<stripe, acked, books, messages, faults, late>>

\* A call to Stripe fails.
CallFails(w) ==
    /\ Fault
    /\ \/ At(w, "read") /\ Goto(w, "abandonSync")
       \/ (At(w, "readSub") \/ At(w, "readRefunds"))
            /\ req' = [req EXCEPT ![w].pc = "release", ![w].failed = TRUE]
    /\ UNCHANGED <<stripe, acked, claim, books, messages, late>>

-------------------------------------------------------------------------------
(* The monthly checkout.                                                    *)

InCheckout(w) == At(w, "list") \/ At(w, "create")
Fresh == {t \in Tokens : session[t] = "none" /\ ~\E w \in Workers : InCheckout(w) /\ req[w].e = t}

\* The status and the insert of the lock read the same rows in one statement.
StartCheckout(w) ==
    /\ product = "monthly" /\ At(w, "idle")
    /\ ~\E t \in Tokens : IsActive(t)
    /\ lock = NoToken
    /\ Fresh # {}
    /\ LET t == CHOOSE t \in Fresh : \A u \in Fresh : t <= u IN
          /\ lock' = t
          /\ req' = [req EXCEPT ![w] = [pc |-> "list", e |-> t]]
    /\ UNCHANGED <<stripe, acked, claim, purchase, row, subLease, messages, faults, late>>

\* Mutant: only a subscription the books know keeps a second one away.
ContractsInBooks == {t \in Tokens : IsActive(t)}
ContractsAtStripe == Contracts

ListSubscriptions(w) ==
    /\ At(w, "list")
    /\ IF ContractsAtStripe # {}
         THEN Finish(w) /\ lock' = DropLock(req[w].e)
         ELSE Goto(w, "create") /\ UNCHANGED lock
    /\ UNCHANGED <<stripe, acked, claim, purchase, row, subLease, messages, faults, late>>

CreateSession(w) ==
    /\ At(w, "create")
    /\ session' = [session EXCEPT ![req[w].e] = "open"]
    /\ Finish(w)
    /\ UNCHANGED <<product, paid, sub, events, acked, claim, books, messages, faults, late>>

\* The session may exist, but nobody has its address.
CheckoutFails(w) ==
    /\ InCheckout(w)
    /\ Fault
    /\ session' = [session EXCEPT ![req[w].e] = "lost"]
    /\ lock' = DropLock(req[w].e)
    /\ Finish(w)
    /\ UNCHANGED <<product, paid, sub, events, acked, claim, purchase, row, subLease, messages, late>>

-------------------------------------------------------------------------------
(* What time and failures do.                                               *)

Serves(w, e) == ~At(w, "idle") /\ ~InCheckout(w) /\ req[w].e = e
InSync(w) == At(w, "read") \/ At(w, "publish") \/ At(w, "abandonSync")
UnderLease(w, t) ==
    /\ req[w].pc \in {"readSub", "persist", "readRefunds", "revoke", "mark", "release"}
    /\ T(w) = t

WorkerDies(w) ==
    /\ ~At(w, "idle")
    /\ Fault
    /\ Finish(w)
    \* a checkout's token is lost with it
    /\ session' = IF InCheckout(w)
                    THEN [session EXCEPT ![req[w].e] = "lost"] ELSE session
    /\ UNCHANGED <<product, paid, sub, events, acked, claim, books, messages, late>>

\* Five minutes: a stalled Worker may still be there.
ClaimLapses(e) ==
    /\ claim[e] = "claimed"
    /\ IF \E w \in Workers : Serves(w, e) THEN Fault ELSE UNCHANGED faults
    /\ claim' = [claim EXCEPT ![e] = "lapsed"]
    /\ UNCHANGED <<stripe, acked, books, messages, req, late>>

SyncLapses ==
    /\ purchase.sync # Nobody /\ ~purchase.lapsed
    /\ IF InSync(purchase.sync) THEN Fault ELSE UNCHANGED faults
    /\ purchase' = [purchase EXCEPT !.lapsed = TRUE]
    /\ UNCHANGED <<stripe, acked, claim, row, subLease, lock, messages, req, late>>

\* Two minutes, over requests that have no limit of their own: the Worker that
\* holds it may outlive it.
LeaseLapses(t) ==
    /\ subLease[t] # Nobody
    /\ IF UnderLease(subLease[t], t) THEN Fault ELSE UNCHANGED faults
    /\ subLease' = [subLease EXCEPT ![t] = Nobody]
    /\ UNCHANGED <<stripe, acked, claim, purchase, row, lock, messages, req, late>>

\* Thirty-two minutes; the session it guards expires after thirty-one.
LockLapses ==
    /\ lock # NoToken
    /\ session[lock] \in {"paid", "expired", "lost"}
    /\ lock' = NoToken
    /\ UNCHANGED <<stripe, acked, claim, purchase, row, subLease, messages, req, faults, late>>

-------------------------------------------------------------------------------
HandlerStep(w) ==
    \/ RecordPurchase(w) \/ BeginSync(w) \/ ReadPurchase(w) \/ PublishPurchase(w) \/ AbandonSync(w)
    \/ ReadSubscription(w) \/ PersistSubscription(w) \/ ReadRefunds(w)
    \/ ReadRow(w) \/ RevokePeriod(w) \/ ReleaseLease(w) \/ Unlock(w) \/ Notify(w)
    \/ FinishEvent(w) \/ AbandonEvent(w) \/ ListSubscriptions(w) \/ CreateSession(w)

StripeStep ==
    \/ PayOnce \/ DisputePurchase
    \/ \E t \in Tokens : PaySession(t) \/ ExpireSession(t) \/ ChangeSubscription(t) \/ RefundPeriod(t)

Next ==
    \/ StripeStep
    \/ \E w \in Workers :
          \/ \E e \in EventIds : Deliver(w, e)
          \/ HandlerStep(w) \/ AcquireLease(w)
          \/ StartCheckout(w)
          \/ GiveUpLease(w) \/ CallFails(w) \/ CheckoutFails(w) \/ WorkerDies(w)
    \/ \E e \in EventIds : DeliverAgain(e) \/ ClaimLapses(e)
    \/ SyncLapses
    \/ \E t \in Tokens : LeaseLapses(t)
    \/ LockLapses

(* A Worker that is not killed goes on; Stripe retries an event until it is  *)
(* acknowledged; a lease nobody holds any more lapses.  A waiter for a lease *)
(* that keeps coming free gets it: it is asked for forty times a second.     *)
Fairness ==
    /\ \A w \in Workers : WF_vars(HandlerStep(w)) /\ SF_vars(AcquireLease(w))
    /\ \A e \in EventIds :
          SF_vars(\E w \in Workers : Deliver(w, e)) /\ WF_vars(DeliverAgain(e) \/ ClaimLapses(e))
    /\ WF_vars(SyncLapses)
    /\ \A t \in Tokens : WF_vars(LeaseLapses(t))

Spec == Init /\ [][Next]_vars /\ Fairness

-------------------------------------------------------------------------------
\* Types of the tables; a claimed event, a lease and a claim on a purchase are
\* somebody's.
TypeOK ==
    /\ purchase.sync \in Workers \cup {Nobody} /\ purchase.exists \in BOOLEAN
    /\ purchase.version \in 0 .. paid.version
    /\ \A t \in Tokens :
          /\ row[t].status \in {"none", "active", "past_due", "canceled"}
          /\ row[t].period \in Periods \cup {0} /\ row[t].revoked \in 0 .. sub[t].period
          /\ row[t].version <= sub[t].version
          /\ subLease[t] \in Workers \cup {Nobody}
    /\ \A e \in EventIds : claim[e] \in {"absent", "claimed", "lapsed", "processed"}
    /\ lock \in Tokens \cup {NoToken}
    /\ late.rows \subseteq Tokens /\ late.marks \subseteq Tokens
    /\ acked \subseteq EventIds /\ faults \in 0 .. MaxFaults

\* A customer never has two monthly contracts at Stripe, nor one and a
\* checkout that could still be paid: double clicks, tabs, late or repeated
\* events and lapsed locks included.
OneMonthlyContract ==
    Cardinality(Contracts \cup {t \in Tokens : session[t] = "open"}) <= 1

\* The books never go back: what is written about a purchase or subscription
\* is not older than what was there, though events arrive in any order, twice,
\* and while a stalled Worker still holds what it read.  Of a subscription the
\* code has this between Workers that hold its lease: one that outlived the
\* lease has written the older state, or the newer one.
BooksNeverGoBack ==
    [][/\ purchase'.version >= purchase.version
       /\ \A t \in Tokens :
             row'[t].version >= row[t].version \/ t \in late.rows \cup late'.rows]_vars

\* A payment is announced once, and only when its credit is in the books,
\* however often its event is handled.
AnnouncedOnce ==
    \A e \in EventIds :
        /\ messages[e] <= 1
        /\ messages[e] > 0 /\ events[e].kind = "paid" => purchase.exists

Mirrors ==
    /\ paid.done => purchase.exists /\ purchase.blocked = paid.blocked
    /\ \A t \in Tokens \ late.rows :
          sub[t].status # "none" =>
             /\ row[t].status = sub[t].status /\ row[t].period = sub[t].period
             /\ t \notin late.marks =>
                   (row[t].revoked = row[t].period <=> sub[t].period \in sub[t].refunded)

\* Once Stripe stops changing, the books agree with it for good: lost answers,
\* dead Workers, lapsed claims and refused deliveries only delay it.  The
\* exception is a subscription last written by a Worker that had outlived its
\* lease, until a Worker that holds the lease writes it again.
FollowsStripe == <>[]Mirrors
===============================================================================
