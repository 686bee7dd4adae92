--------------------------- MODULE StripeLedgerProofs --------------------------
(***************************************************************************)
(* The books of StripeLedger, for every number of Workers, checkouts,      *)
(* periods and events: a customer has one monthly contract, the books      *)
(* never go back but where a Worker has outlived its lease, and a payment  *)
(* is announced once.  The three rest on the lock of a checkout, the claim *)
(* on a purchase and the lease of a subscription; what each of them        *)
(* protects, and the lease only while it lasts, is said by IInv below.     *)
(***************************************************************************)
EXTENDS StripeLedger, FiniteSetTheorems, SequenceTheorems, WellFoundedInduction, TLAPS

-------------------------------------------------------------------------------
(* Types.                                                                   *)

Kinds == {"paid", "refund", "completed", "expired", "invoice", "subscription"}
SubStatuses == {"none", "active", "past_due", "canceled"}
Anyone == Workers \cup {Nobody}

Happenings == [kind : Kinds, of : Tokens \cup {0}, period : Nat]
Subscriptions == [status : SubStatuses, period : Periods \cup {0}, refunded : SUBSET Nat,
                  version : Nat]
Purchases == [exists : BOOLEAN, blocked : BOOLEAN, version : Nat, sync : Anyone,
              lapsed : BOOLEAN]
SubRows == [status : SubStatuses, period : Periods \cup {0}, revoked : Nat, version : Nat]

\* What a handler has read: a payment, a subscription, the refunds of a period,
\* and then the row they are about.
PaymentsRead == [blocked : BOOLEAN, version : Nat]
SubsRead == [status : SubStatuses, period : Periods \cup {0}, version : Nat]
RefundsRead == [blocked : BOOLEAN]
RowsRead == [blocked : BOOLEAN, revoked : Nat]

LeasePcs == {"readSub", "persist", "readRefunds", "revoke", "mark", "release"}
PlainPcs == {"record", "begin", "read", "abandonSync", "lease", "unlock", "notify", "finish",
             "abandon"}
Handlers == LeasePcs \cup PlainPcs \cup {"publish"}

HandlerReqs == [pc : Handlers, e : EventIds, failed : BOOLEAN,
                snap : {NoRow} \cup PaymentsRead \cup SubsRead \cup RefundsRead \cup RowsRead]
CheckoutReqs == [pc : {"list", "create"}, e : Tokens]
Reqs == HandlerReqs \cup CheckoutReqs \cup {Idle}

StripeTypes ==
    /\ product \in {"one_time", "monthly"}
    /\ paid \in [done : BOOLEAN, blocked : BOOLEAN, version : Nat]
    /\ sub \in [Tokens -> Subscriptions]
    /\ session \in [Tokens -> {"none", "open", "paid", "expired", "lost"}]
    /\ events \in Seq(Happenings) /\ Len(events) <= MaxEvents

BookTypes ==
    /\ purchase \in Purchases
    /\ row \in [Tokens -> SubRows]
    /\ subLease \in [Tokens -> Anyone]
    /\ lock \in Tokens \cup {NoToken}
    /\ late \in [rows : SUBSET Tokens, marks : SUBSET Tokens]

OtherTypes ==
    /\ acked \subseteq EventIds
    /\ claim \in [EventIds -> {"absent", "claimed", "lapsed", "processed"}]
    /\ messages \in [EventIds -> Nat]
    /\ req \in [Workers -> Reqs]
    /\ faults \in 0 .. MaxFaults

Types == StripeTypes /\ BookTypes /\ OtherTypes

-------------------------------------------------------------------------------
(* The inductive invariant.                                                 *)

\* An event tells of something that Stripe keeps for good.
Told(x) ==
    /\ x.kind = "paid" => x.of = 0
    /\ x.kind = "expired" => x.of \in Tokens /\ session[x.of] = "expired"
    /\ x.kind \notin {"paid", "refund", "expired"} => x.of \in Tokens
    /\ x.kind # "expired" /\ x.of \in Tokens => session[x.of] = "paid"

EventsAreTold == \A i \in 1 .. Len(events) : Told(events[i])

\* A subscription is of a session that was paid; the books are behind Stripe.
BooksAreBehind ==
    /\ purchase.version <= paid.version
    /\ \A t \in Tokens :
          /\ sub[t].status # "none" => session[t] = "paid"
          /\ row[t].version <= sub[t].version /\ row[t].period <= sub[t].period
          /\ row[t].revoked <= sub[t].period
          /\ sub[t].status = "none" => sub[t].version = 0 /\ sub[t].period = 0

\* A handler serves an event that was emitted, of the kind its step is for.  A
\* purchase it still claims is as old as it read it.  What it read of a
\* subscription may be older than the row by now; it is not while the lease is
\* still its own, unless the row is one a Worker wrote that held none.
Serving(w) ==
    LET q == req[w]
        x == events[q.e]
        t == x.of
    IN
    q.pc \in Handlers =>
        /\ q.e <= Len(events)
        /\ x.kind = "paid" /\ q.pc # "record" => purchase.exists
        /\ q.pc = "unlock" => x.kind = "expired"
        /\ x.kind = "expired" => q.pc \in {"unlock", "finish", "abandon"}
        /\ q.pc \in LeasePcs \cup {"lease"} => t \in Tokens
        /\ q.pc = "publish" =>
              /\ q.snap \in PaymentsRead /\ q.snap.version <= paid.version
              /\ purchase.sync = w => purchase.version <= q.snap.version
        /\ q.pc = "persist" =>
              /\ q.snap \in SubsRead
              /\ q.snap.version <= sub[t].version /\ q.snap.period <= sub[t].period
              /\ subLease[t] = w /\ t \notin late.rows => row[t].version <= q.snap.version
        /\ q.pc = "revoke" => q.snap \in RefundsRead

RequestsAreServed == \A w \in Workers : Serving(w)

\* The lock is that of the checkout in progress, and of the session that could
\* still be paid; neither is there beside a contract.
CheckoutsAreLocked ==
    /\ \A w \in Workers : InCheckout(w) => lock = req[w].e /\ session[req[w].e] = "none"
    /\ \A v, w \in Workers : InCheckout(v) /\ InCheckout(w) => v = w
    /\ \A w \in Workers : At(w, "create") => Contracts = {}
    /\ \A t \in Tokens : session[t] = "open" => lock = t /\ Contracts = {}
    /\ \A t, u \in Contracts : t = u

\* What was announced had happened.
MessagesAreTold ==
    \A e \in EventIds :
        /\ messages[e] <= 1
        /\ messages[e] > 0 => e <= Len(events)
        /\ messages[e] > 0 /\ events[e].kind = "paid" => purchase.exists

IInv == /\ Types /\ EventsAreTold /\ BooksAreBehind /\ RequestsAreServed
        /\ CheckoutsAreLocked /\ MessagesAreTold

-------------------------------------------------------------------------------
(* What a step leaves of what was read before it.                           *)

SessionsStay ==
    \A t \in Tokens : session[t] \in {"paid", "expired"} => session'[t] = session[t]

\* Events are only added; Stripe's versions and periods only grow; a purchase
\* is recorded for good.
Later ==
    /\ Len(events) <= Len(events')
    /\ \A i \in 1 .. Len(events) : events'[i] = events[i]
    /\ SessionsStay
    /\ paid.version <= paid'.version
    /\ \A t \in Tokens :
          sub[t].version <= sub'[t].version /\ sub[t].period <= sub'[t].period

LEMMA StillTold ==
    ASSUME SessionsStay, NEW x, Told(x)
    PROVE  Told(x)'
  BY Zenon DEF Told, SessionsStay

LEMMA Emitted ==
    ASSUME StripeTypes, NEW kind \in Kinds, NEW t \in Tokens \cup {0}, NEW p \in Nat,
           Emit(kind, t, p)
    PROVE  /\ events' \in Seq(Happenings) /\ Len(events') <= MaxEvents
           /\ Len(events) \in Nat /\ Len(events') = Len(events) + 1
           /\ Len(events) <= Len(events')
           /\ \A i \in 1 .. Len(events) : events'[i] = events[i]
           /\ events'[Len(events')] = [kind |-> kind, of |-> t, period |-> p]
<1> DEFINE x == [kind |-> kind, of |-> t, period |-> p]
<1>1. x \in Happenings
  BY DEF Happenings
<1>2. events' = Append(events, x) /\ Len(events) < MaxEvents
  BY DEF Emit
<1>3. events \in Seq(Happenings)
  BY DEF StripeTypes
<1>4. Len(events) \in Nat /\ MaxEvents \in Nat
  BY <1>3, LenProperties, StripeLedgerAssumption
<1> HIDE DEF x
<1>5. /\ events' \in Seq(Happenings) /\ Len(events') = Len(events) + 1
      /\ \A i \in 1 .. Len(events) : events'[i] = events[i]
      /\ events'[Len(events) + 1] = x
  BY <1>1, <1>2, <1>3, AppendProperties
<1> QED
  BY <1>2, <1>4, <1>5 DEF x

\* Those told before still are, and the new one is.
LEMMA Telling ==
    ASSUME StripeTypes, EventsAreTold, SessionsStay,
           NEW kind \in Kinds, NEW t \in Tokens \cup {0}, NEW p \in Nat,
           Emit(kind, t, p), Told([kind |-> kind, of |-> t, period |-> p])'
    PROVE  EventsAreTold'
<1> SUFFICES ASSUME NEW i \in 1 .. Len(events') PROVE Told(events[i])'
  BY DEF EventsAreTold
<1>2. /\ Len(events) \in Nat /\ Len(events') = Len(events) + 1
      /\ \A j \in 1 .. Len(events) : events'[j] = events[j]
      /\ events'[Len(events')] = [kind |-> kind, of |-> t, period |-> p]
  BY Emitted
<1>3. CASE i \in 1 .. Len(events)
  <2>1. Told(events[i]) /\ events'[i] = events[i]
    BY <1>2, <1>3 DEF EventsAreTold
  <2> QED
    BY <2>1 DEF Told, SessionsStay
<1>4. CASE i = Len(events')
  <2>1. events'[i] = [kind |-> kind, of |-> t, period |-> p]
    BY <1>2, <1>4
  <2> QED
    BY <2>1 DEF Told
<1> QED
  BY <1>2, <1>3, <1>4

LEMMA SubType ==
    \A x \in Subscriptions : /\ x.version \in Nat /\ x.period \in Nat
                             /\ x.period \in Periods \cup {0} /\ x.refunded \in SUBSET Nat
                             /\ x.status \in SubStatuses
<1>1. Periods \cup {0} \subseteq Nat
  BY StripeLedgerAssumption
<1> SUFFICES ASSUME NEW x \in Subscriptions
             PROVE  /\ x.version \in Nat /\ x.period \in Periods \cup {0}
                    /\ x.refunded \in SUBSET Nat /\ x.status \in SubStatuses
  BY <1>1
<1> QED
  BY DEF Subscriptions

LEMMA RowType ==
    \A x \in SubRows : /\ x.version \in Nat /\ x.period \in Nat /\ x.revoked \in Nat
                       /\ x.period \in Periods \cup {0} /\ x.status \in SubStatuses
<1>1. Periods \cup {0} \subseteq Nat
  BY StripeLedgerAssumption
<1> SUFFICES ASSUME NEW x \in SubRows
             PROVE  /\ x.version \in Nat /\ x.revoked \in Nat
                    /\ x.period \in Periods \cup {0} /\ x.status \in SubStatuses
  BY <1>1
<1> QED
  BY DEF SubRows

LEMMA SubWritten ==
    ASSUME StripeTypes, NEW t \in Tokens, NEW x \in Subscriptions,
           sub' = [sub EXCEPT ![t] = x]
    PROVE  /\ sub' \in [Tokens -> Subscriptions] /\ sub'[t] = x
           /\ \A u \in Tokens : u # t => sub'[u] = sub[u]
  BY DEF StripeTypes

-------------------------------------------------------------------------------
(* Stripe's steps.                                                          *)

LEMMA CheckingOut ==
    ASSUME OtherTypes, NEW w \in Workers, InCheckout(w)
    PROVE  req[w] \in CheckoutReqs /\ req[w].e \in Tokens
<1>1. req[w] \in CheckoutReqs
  BY DEF OtherTypes, InCheckout, At, Reqs, HandlerReqs, Handlers, LeasePcs, PlainPcs, Idle
<1> QED
  BY <1>1 DEF CheckoutReqs

\* Sessions close, contracts end: the lock is of whom it was.
LEMMA LocksStay ==
    ASSUME OtherTypes, CheckoutsAreLocked, UNCHANGED <<lock, req>>,
           Contracts' \subseteq Contracts,
           \A t \in Tokens : \/ session'[t] = session[t]
                             \/ session[t] = "open" /\ session'[t] # "open"
    PROVE  CheckoutsAreLocked'
<1>1. \A w \in Workers : /\ InCheckout(w)' <=> InCheckout(w)
                         /\ At(w, "create")' <=> At(w, "create")
                         /\ req'[w] = req[w]
  BY DEF At, InCheckout
<1>2. ASSUME NEW w \in Workers, InCheckout(w)
      PROVE  lock' = req'[w].e /\ session'[req'[w].e] = "none"
  <2>1. lock = req[w].e /\ session[req[w].e] = "none" /\ req'[w] = req[w]
        /\ req[w].e \in Tokens
    BY <1>1, <1>2, CheckingOut DEF CheckoutsAreLocked
  <2> QED
    BY <2>1
<1> QED
  BY <1>1, <1>2, Zenon DEF CheckoutsAreLocked

LEMMA PaidOnce ==
    ASSUME IInv, PayOnce \/ DisputePurchase
    PROVE  /\ StripeTypes' /\ Later /\ EventsAreTold' /\ BooksAreBehind'
           /\ CheckoutsAreLocked'
<1>0. StripeTypes /\ EventsAreTold /\ BooksAreBehind /\ CheckoutsAreLocked /\ OtherTypes
  BY DEF IInv, Types
<1>1. /\ UNCHANGED <<product, sub, session, purchase, row, lock, req>>
      /\ paid' \in [done : BOOLEAN, blocked : BOOLEAN, version : Nat]
      /\ paid.version \in Nat /\ paid.version <= paid'.version
  <2>1. UNCHANGED <<product, sub, session, purchase, row, lock, req>>
    BY DEF PayOnce, DisputePurchase, books
  <2>2. \/ paid' = [paid EXCEPT !.done = TRUE]
        \/ paid' = [paid EXCEPT !.blocked = ~@, !.version = @ + 1]
    BY DEF PayOnce, DisputePurchase
  <2>3. paid \in [done : BOOLEAN, blocked : BOOLEAN, version : Nat]
    BY <1>0 DEF StripeTypes
  <2> DEFINE b == ~paid.blocked
             n == paid.version + 1
  <2>4. b \in BOOLEAN /\ n \in Nat /\ paid.version \in Nat /\ paid.version <= n
    BY <2>3
  <2>5. paid' = [paid EXCEPT !.done = TRUE] \/ paid' = [paid EXCEPT !.blocked = b, !.version = n]
    BY <2>2
  <2> HIDE DEF b, n
  <2>6. /\ paid' \in [done : BOOLEAN, blocked : BOOLEAN, version : Nat]
        /\ paid'.version \in {paid.version, n}
    BY <2>3, <2>4, <2>5
  <2> QED
    BY <2>1, <2>4, <2>6
<1>2. PICK kind \in Kinds : Emit(kind, 0, 0) /\ kind \in {"paid", "refund"}
  BY DEF PayOnce, DisputePurchase, Kinds
<1>3. SessionsStay
  BY <1>1 DEF SessionsStay
<1>4. /\ events' \in Seq(Happenings) /\ Len(events') <= MaxEvents
      /\ Len(events) <= Len(events')
      /\ \A i \in 1 .. Len(events) : events'[i] = events[i]
  <2>1. 0 \in Nat /\ 0 \in Tokens \cup {0}
    OBVIOUS
  <2> QED
    BY <1>0, <1>2, <2>1, Emitted
<1>5. Told([kind |-> kind, of |-> 0, period |-> 0])'
  BY <1>2, StripeLedgerAssumption DEF Told, NoToken
<1>6. EventsAreTold'
  <2>1. 0 \in Nat /\ 0 \in Tokens \cup {0}
    OBVIOUS
  <2> QED
    BY <1>0, <1>2, <1>3, <1>5, <2>1, Telling
<1>7. BooksAreBehind'
  <2>1. purchase.version \in Nat
    BY DEF IInv, Types, BookTypes, Purchases
  <2>2. purchase'.version <= paid'.version
    BY <1>0, <1>1, <2>1 DEF BooksAreBehind
  <2> QED
    BY <1>0, <1>1, <2>2 DEF BooksAreBehind
<1>8. CheckoutsAreLocked'
  <2>1. Contracts' \subseteq Contracts
    BY <1>1 DEF Contracts
  <2>2. \A t \in Tokens : session'[t] = session[t]
    BY <1>1
  <2> QED
    BY <1>0, <1>1, <2>1, <2>2, LocksStay
<1>9. StripeTypes' /\ Later
  <2>1. \A t \in Tokens : sub[t].version \in Nat /\ sub[t].period \in Nat
    BY <1>0, SubType DEF StripeTypes
  <2>2. \A t \in Tokens : sub[t].version <= sub'[t].version /\ sub[t].period <= sub'[t].period
    BY <1>1, <2>1
  <2> QED
    BY <1>0, <1>1, <1>3, <1>4, <2>2 DEF StripeTypes, Later
<1> QED
  BY <1>1, <1>6, <1>7, <1>8, <1>9

\* A subscription comes to be x, of which an event tells.
LEMMA SubMoves ==
    ASSUME IInv, NEW t \in Tokens, NEW x \in Subscriptions, sub' = [sub EXCEPT ![t] = x],
           sub[t].version <= x.version, sub[t].period <= x.period,
           x.status = "none" => x.version = 0 /\ x.period = 0,
           x.status # "none" => session'[t] = "paid",
           session' \in [Tokens -> {"none", "open", "paid", "expired", "lost"}],
           \A u \in Tokens : u # t => session'[u] = session[u],
           session[t] \in {"paid", "expired"} => session'[t] = session[t],
           NEW kind \in Kinds \ {"paid", "expired"}, session'[t] = "paid",
           NEW p \in Nat, Emit(kind, t, p),
           UNCHANGED <<product, paid, purchase, row>>
    PROVE  StripeTypes' /\ Later /\ EventsAreTold' /\ BooksAreBehind'
<1>0. StripeTypes /\ EventsAreTold /\ BooksAreBehind /\ BookTypes
  BY DEF IInv, Types
<1>1. /\ sub' \in [Tokens -> Subscriptions] /\ sub'[t] = x
      /\ \A u \in Tokens : u # t => sub'[u] = sub[u]
  BY <1>0, SubWritten
<1>2. SessionsStay
  BY DEF SessionsStay
<1>3. \A u \in Tokens : /\ sub[u].version \in Nat /\ sub[u].period \in Nat
                        /\ sub'[u].version \in Nat /\ sub'[u].period \in Nat
                        /\ row[u].version \in Nat /\ row[u].period \in Nat
                        /\ row[u].revoked \in Nat
  BY <1>0, <1>1, SubType, RowType DEF StripeTypes, BookTypes
<1>4. \A u \in Tokens : sub[u].version <= sub'[u].version /\ sub[u].period <= sub'[u].period
  BY <1>1, <1>3
<1>5. /\ events' \in Seq(Happenings) /\ Len(events') <= MaxEvents
      /\ Len(events) <= Len(events')
      /\ \A i \in 1 .. Len(events) : events'[i] = events[i]
  <2>1. kind \in Kinds /\ t \in Tokens \cup {0}
    OBVIOUS
  <2> QED
    BY <1>0, <2>1, Emitted
<1>6. EventsAreTold'
  <2>1. Told([kind |-> kind, of |-> t, period |-> p])'
    BY DEF Told
  <2> QED
    BY <1>0, <1>2, <2>1, Telling
<1>7. BooksAreBehind'
  <2>1. ASSUME NEW u \in Tokens
        PROVE  /\ sub'[u].status # "none" => session'[u] = "paid"
               /\ row'[u].version <= sub'[u].version /\ row'[u].period <= sub'[u].period
               /\ row'[u].revoked <= sub'[u].period
               /\ sub'[u].status = "none" => sub'[u].version = 0 /\ sub'[u].period = 0
    <3>1. /\ sub'[u].status # "none" => session'[u] = "paid"
          /\ sub'[u].status = "none" => sub'[u].version = 0 /\ sub'[u].period = 0
      BY <1>0, <1>1 DEF BooksAreBehind
    <3>2. /\ row[u].version <= sub[u].version /\ row[u].period <= sub[u].period
          /\ row[u].revoked <= sub[u].period /\ row'[u] = row[u]
      BY <1>0 DEF BooksAreBehind
    <3> QED
      BY <1>3, <1>4, <3>1, <3>2
  <2> QED
    BY <1>0, <2>1 DEF BooksAreBehind
<1>8. paid.version <= paid'.version
  BY <1>0 DEF StripeTypes
<1> QED
  BY <1>0, <1>1, <1>2, <1>4, <1>5, <1>6, <1>7, <1>8 DEF StripeTypes, Later

LEMMA SessionPaid ==
    ASSUME IInv, NEW t \in Tokens, PaySession(t)
    PROVE  /\ StripeTypes' /\ Later /\ EventsAreTold' /\ BooksAreBehind'
           /\ CheckoutsAreLocked'
<1> DEFINE x == [NoSub EXCEPT !.status = "active", !.period = 1, !.version = 1]
<1>0. /\ StripeTypes /\ BooksAreBehind /\ CheckoutsAreLocked /\ OtherTypes
      /\ session[t] = "open"
  BY DEF IInv, Types, PaySession
<1>1. /\ x \in Subscriptions /\ x.status = "active" /\ x.version = 1 /\ x.period = 1
  BY StripeLedgerAssumption DEF NoSub, Subscriptions, SubStatuses
<1>2. /\ sub' = [sub EXCEPT ![t] = x] /\ session' = [session EXCEPT ![t] = "paid"]
      /\ Emit("completed", t, 0)
      /\ UNCHANGED <<product, paid, purchase, row, lock, req>>
  BY DEF PaySession, books
<1> HIDE DEF x
<1>3. /\ session' \in [Tokens -> {"none", "open", "paid", "expired", "lost"}]
      /\ session'[t] = "paid"
      /\ \A u \in Tokens : u # t => session'[u] = session[u]
  BY <1>0, <1>2 DEF StripeTypes
<1>4. /\ sub[t].version <= x.version /\ sub[t].period <= x.period
      /\ x.status # "none" /\ session[t] \notin {"paid", "expired"}
  <2>1. sub[t].status = "none"
    BY <1>0 DEF BooksAreBehind
  <2>2. sub[t].version = 0 /\ sub[t].period = 0
    BY <1>0, <2>1 DEF BooksAreBehind
  <2> QED
    BY <1>0, <1>1, <2>2
<1>5. "completed" \in Kinds \ {"paid", "expired"} /\ 0 \in Nat
  BY DEF Kinds
<1>6. StripeTypes' /\ Later /\ EventsAreTold' /\ BooksAreBehind'
  BY <1>0, <1>1, <1>2, <1>3, <1>4, <1>5, SubMoves
<1>7. CheckoutsAreLocked'
  <2>1. lock = t /\ Contracts = {} /\ \A u \in Tokens : session[u] = "open" => u = t
    BY <1>0 DEF CheckoutsAreLocked
  <2>2. \A w \in Workers : ~InCheckout(w) /\ ~At(w, "create")
    <3>1. ASSUME NEW w \in Workers, InCheckout(w) PROVE FALSE
      BY <1>0, <2>1, <3>1 DEF CheckoutsAreLocked
    <3> QED
      BY <3>1 DEF InCheckout
  <2>3. \A w \in Workers : ~InCheckout(w)' /\ ~At(w, "create")'
    BY <1>2, <2>2 DEF InCheckout, At
  <2>4. \A u \in Tokens : session'[u] # "open"
    BY <1>3, <2>1
  <2>5. \A u \in Contracts' : u = t
    <3>1. \A u \in Tokens : u # t => sub'[u] = sub[u]
      BY <1>0, <1>1, <1>2, SubWritten
    <3> QED
      BY <2>1, <3>1 DEF Contracts
  <2> QED
    BY <2>3, <2>4, <2>5 DEF CheckoutsAreLocked
<1> QED
  BY <1>6, <1>7

LEMMA SessionExpired ==
    ASSUME IInv, NEW t \in Tokens, ExpireSession(t)
    PROVE  /\ StripeTypes' /\ Later /\ EventsAreTold' /\ BooksAreBehind'
           /\ CheckoutsAreLocked'
<1>0. /\ StripeTypes /\ BooksAreBehind /\ CheckoutsAreLocked /\ OtherTypes
      /\ EventsAreTold /\ session[t] = "open"
  BY DEF IInv, Types, ExpireSession
<1>1. /\ session' = [session EXCEPT ![t] = "expired"] /\ Emit("expired", t, 0)
      /\ UNCHANGED <<product, paid, sub, purchase, row, lock, req>>
  BY DEF ExpireSession, books
<1>2. /\ session' \in [Tokens -> {"none", "open", "paid", "expired", "lost"}]
      /\ session'[t] = "expired"
      /\ \A u \in Tokens : u # t => session'[u] = session[u]
  BY <1>0, <1>1 DEF StripeTypes
<1>3. SessionsStay
  BY <1>0, <1>2 DEF SessionsStay
<1>4. "expired" \in Kinds /\ t \in Tokens \cup {0} /\ 0 \in Nat
  BY DEF Kinds
<1>5. EventsAreTold'
  <2>1. Told([kind |-> "expired", of |-> t, period |-> 0])'
    BY <1>2 DEF Told
  <2> QED
    BY <1>0, <1>1, <1>3, <1>4, <2>1, Telling
<1>6. /\ events' \in Seq(Happenings) /\ Len(events') <= MaxEvents
      /\ Len(events) <= Len(events')
      /\ \A i \in 1 .. Len(events) : events'[i] = events[i]
  BY <1>0, <1>1, <1>4, Emitted
<1>7. BooksAreBehind'
  <2>1. \A u \in Tokens : sub[u].status # "none" => session'[u] = "paid"
    BY <1>0, <1>2 DEF BooksAreBehind
  <2> QED
    BY <1>0, <1>1, <2>1 DEF BooksAreBehind
<1>8. CheckoutsAreLocked'
  <2>1. Contracts' \subseteq Contracts
    BY <1>1 DEF Contracts
  <2>2. \A u \in Tokens : \/ session'[u] = session[u]
                          \/ session[u] = "open" /\ session'[u] # "open"
    BY <1>0, <1>2
  <2> QED
    BY <1>0, <1>1, <2>1, <2>2, LocksStay
<1>9. /\ paid.version <= paid'.version
      /\ \A u \in Tokens : sub[u].version <= sub'[u].version /\ sub[u].period <= sub'[u].period
  <2>1. paid.version \in Nat /\ \A u \in Tokens : sub[u] \in Subscriptions
    BY <1>0 DEF StripeTypes
  <2> QED
    BY <1>1, <2>1, SubType
<1> QED
  BY <1>0, <1>1, <1>2, <1>3, <1>5, <1>6, <1>7, <1>8, <1>9 DEF StripeTypes, Later

LEMMA SubscriptionChanged ==
    ASSUME IInv, NEW t \in Tokens, ChangeSubscription(t) \/ RefundPeriod(t)
    PROVE  /\ StripeTypes' /\ Later /\ EventsAreTold' /\ BooksAreBehind'
           /\ CheckoutsAreLocked'
<1>0. /\ StripeTypes /\ BooksAreBehind /\ CheckoutsAreLocked /\ OtherTypes
      /\ sub[t] \in Subscriptions
  BY DEF IInv, Types, StripeTypes
<1>1. UNCHANGED <<product, paid, session, purchase, row, lock, req>>
  BY DEF ChangeSubscription, RefundPeriod, books
<1>2. sub[t].status # "none"
  BY DEF ChangeSubscription, RefundPeriod, Terminal
<1>3. session[t] = "paid"
  BY <1>0, <1>2 DEF BooksAreBehind
<1>4. PICK x \in Subscriptions, kind \in Kinds \ {"paid", "expired"}, p \in Nat :
          /\ sub' = [sub EXCEPT ![t] = x] /\ Emit(kind, t, p)
          /\ sub[t].version <= x.version /\ sub[t].period <= x.period /\ x.status # "none"
          /\ x.status \notin Terminal => sub[t].status \notin Terminal
  <2>1. /\ sub[t].version \in Nat /\ sub[t].version + 1 \in Nat
        /\ sub[t].version <= sub[t].version + 1
        /\ sub[t].period \in Nat /\ sub[t].period \in Periods \cup {0}
        /\ sub[t].refunded \in SUBSET Nat
    <3>1. /\ sub[t].version \in Nat /\ sub[t].period \in Nat
          /\ sub[t].period \in Periods \cup {0} /\ sub[t].refunded \in SUBSET Nat
      BY <1>0, SubType
    <3> QED
      BY <3>1
  <2>2. /\ "active" \in SubStatuses /\ "past_due" \in SubStatuses /\ "canceled" \in SubStatuses
        /\ {"invoice", "subscription", "refund"} \subseteq Kinds \ {"paid", "expired"}
    BY DEF SubStatuses, Kinds
  <2> DEFINE n == sub[t].version + 1
             m == sub[t].period + 1
  <2>3. CASE /\ ChangeSubscription(t) /\ m \in Periods
             /\ \E st \in {"active", "past_due"} :
                   /\ sub' = [sub EXCEPT ![t].period = m, ![t].status = st, ![t].version = n]
                   /\ Emit(IF st = "active" THEN "invoice" ELSE "subscription", t, 0)
    <3>1. PICK st \in {"active", "past_due"} :
             /\ sub' = [sub EXCEPT ![t].period = m, ![t].status = st, ![t].version = n]
             /\ Emit(IF st = "active" THEN "invoice" ELSE "subscription", t, 0)
      BY <2>3
    <3> DEFINE x == [sub[t] EXCEPT !.period = m, !.status = st, !.version = n]
               kind == IF st = "active" THEN "invoice" ELSE "subscription"
    <3>2. sub' = [sub EXCEPT ![t] = x]
      BY <1>0, <3>1 DEF StripeTypes
    <3>3. sub[t].period <= m /\ sub[t].status \notin Terminal
      BY <2>1, <2>3 DEF ChangeSubscription
    <3> HIDE DEF m, n
    <3>4. /\ x \in Subscriptions /\ x.period = m /\ x.status = st /\ x.version = n
      BY <1>0, <2>1, <2>2, <2>3, <3>1 DEF Subscriptions, n
    <3>5. kind \in Kinds \ {"paid", "expired"} /\ Emit(kind, t, 0) /\ 0 \in Nat
      BY <2>2, <3>1
    <3> HIDE DEF x, kind
    <3> QED
      BY <2>1, <3>1, <3>2, <3>3, <3>4, <3>5 DEF n
  <2>4. CASE /\ ChangeSubscription(t)
             /\ sub' = [sub EXCEPT ![t].status = "canceled", ![t].version = n]
             /\ Emit("subscription", t, 0)
    <3> DEFINE x == [sub[t] EXCEPT !.status = "canceled", !.version = n]
    <3>1. sub' = [sub EXCEPT ![t] = x]
      BY <1>0, <2>4 DEF StripeTypes
    <3> HIDE DEF n
    <3>2. /\ x \in Subscriptions /\ x.period = sub[t].period /\ x.status = "canceled"
          /\ x.version = n
      BY <1>0, <2>1, <2>2 DEF Subscriptions, n
    <3>3. "subscription" \in Kinds \ {"paid", "expired"} /\ 0 \in Nat
      BY <2>2
    <3>4. sub[t].status \notin Terminal /\ sub[t].version <= n
      BY <2>1, <2>4 DEF ChangeSubscription, n
    <3> HIDE DEF x
    <3>5. /\ sub[t].version <= x.version /\ sub[t].period <= x.period /\ x.status # "none"
          /\ x.status \notin Terminal => sub[t].status \notin Terminal
      BY <2>1, <3>2, <3>4
    <3> QED
      BY <2>4, <3>1, <3>2, <3>3, <3>5
  <2>5. CASE RefundPeriod(t)
    <3>1. PICK p \in 1 .. sub[t].period :
             /\ sub' = [sub EXCEPT ![t].refunded = IF p \in @ THEN @ \ {p} ELSE @ \cup {p}]
             /\ Emit("refund", t, p)
      BY <2>5 DEF RefundPeriod
    <3> DEFINE s == IF p \in sub[t].refunded THEN sub[t].refunded \ {p}
                                             ELSE sub[t].refunded \cup {p}
               x == [sub[t] EXCEPT !.refunded = s]
    <3>2. s \in SUBSET Nat /\ p \in Nat
      BY <2>1, <3>1
    <3>3. sub' = [sub EXCEPT ![t] = x]
      BY <1>0, <3>1 DEF StripeTypes
    <3> HIDE DEF s
    <3>4. /\ x \in Subscriptions /\ x.period = sub[t].period /\ x.status = sub[t].status
          /\ x.version = sub[t].version
      BY <1>0, <3>2 DEF Subscriptions
    <3>5. "refund" \in Kinds \ {"paid", "expired"}
      BY <2>2
    <3> HIDE DEF x
    <3>6. /\ sub[t].version <= x.version /\ sub[t].period <= x.period /\ x.status # "none"
          /\ x.status \notin Terminal => sub[t].status \notin Terminal
      BY <1>2, <2>1, <3>4
    <3> QED
      BY <3>1, <3>2, <3>3, <3>4, <3>5, <3>6
  <2> QED
    BY <2>3, <2>4, <2>5 DEF ChangeSubscription
<1>5. StripeTypes' /\ Later /\ EventsAreTold' /\ BooksAreBehind'
  <2>1. /\ session' \in [Tokens -> {"none", "open", "paid", "expired", "lost"}]
        /\ session'[t] = "paid" /\ \A u \in Tokens : u # t => session'[u] = session[u]
    BY <1>0, <1>1, <1>3 DEF StripeTypes
  <2> QED
    BY <1>1, <1>4, <2>1, SubMoves
<1>6. CheckoutsAreLocked'
  <2>1. Contracts' \subseteq Contracts
    BY <1>0, <1>4, SubWritten DEF Contracts
  <2>2. \A u \in Tokens : session'[u] = session[u]
    BY <1>1
  <2> QED
    BY <1>0, <1>1, <2>1, <2>2, LocksStay
<1> QED
  BY <1>5, <1>6

LEMMA StripeMoves ==
    ASSUME IInv, StripeStep
    PROVE  /\ StripeTypes' /\ Later /\ EventsAreTold' /\ BooksAreBehind'
           /\ CheckoutsAreLocked'
  BY PaidOnce, SessionPaid, SessionExpired, SubscriptionChanged DEF StripeStep

-------------------------------------------------------------------------------
(* The requests of the Workers.                                             *)

\* The event a handler serves, and what it told.
LEMMA Handling ==
    ASSUME IInv, NEW w \in Workers, req[w].pc \in Handlers
    PROVE  /\ req[w] \in HandlerReqs /\ req[w].e \in EventIds
           /\ req[w].e \in 1 .. Len(events)
           /\ Event(w).kind \in Kinds /\ T(w) \in Tokens \cup {0} /\ Told(Event(w))
           /\ Event(w).period \in Nat
           /\ ~InCheckout(w) /\ req[w].pc # "idle"
<1>1. StripeTypes /\ OtherTypes /\ EventsAreTold /\ Serving(w)
  BY DEF IInv, Types, RequestsAreServed
<1>2. req[w] \in HandlerReqs
  BY <1>1 DEF OtherTypes, Reqs, CheckoutReqs, Idle, Handlers, LeasePcs, PlainPcs
<1>3. req[w].e \in EventIds
  BY <1>2 DEF HandlerReqs
<1>4. events \in Seq(Happenings) /\ Len(events) \in Nat /\ MaxEvents \in Nat
  BY <1>1, LenProperties, StripeLedgerAssumption DEF StripeTypes
<1>5. req[w].e \in 1 .. Len(events)
  BY <1>1, <1>3, <1>4 DEF Serving, EventIds
<1>6. Event(w) \in Happenings
  BY <1>4, <1>5, ElementOfSeq DEF Event
<1>7. Told(Event(w))
  BY <1>1, <1>5 DEF EventsAreTold, Event
<1>8. Event(w).kind \in Kinds /\ T(w) \in Tokens \cup {0} /\ Event(w).period \in Nat
  BY <1>6 DEF Happenings, T
<1>9. ~InCheckout(w) /\ req[w].pc # "idle"
  BY DEF InCheckout, At, Handlers, LeasePcs, PlainPcs
<1> QED
  BY <1>2, <1>3, <1>5, <1>7, <1>8, <1>9

\* On the way to a lease, or with what was read under it: the session of the
\* subscription was paid.
LEMMA UnderItsLease ==
    ASSUME IInv, NEW w \in Workers, req[w].pc \in LeasePcs \cup {"lease"}
    PROVE  T(w) \in Tokens /\ session[T(w)] = "paid" /\ Event(w).kind # "expired"
<1>1. req[w].pc \in Handlers /\ Serving(w)
  BY DEF Handlers, PlainPcs, IInv, RequestsAreServed
<1>2. T(w) \in Tokens /\ Event(w).kind # "expired"
  BY <1>1 DEF Serving, T, Event, LeasePcs
<1>3. Told(Event(w))
  BY <1>1, Handling
<1> QED
  BY <1>2, <1>3 DEF Told, T

\* Only w's request changes.
OnlyMoves(w) ==
    /\ req' \in [Workers -> Reqs]
    /\ \A v \in Workers : v # w => req'[v] = req[v]

Proceeds(w, pc) ==
    /\ OnlyMoves(w)
    /\ req'[w] \in HandlerReqs /\ req'[w].pc = pc /\ req'[w].e = req[w].e

LEMMA Moving ==
    ASSUME OtherTypes, NEW w \in Workers, NEW q \in Reqs, req' = [req EXCEPT ![w] = q]
    PROVE  OnlyMoves(w) /\ req'[w] = q
  BY DEF OtherTypes, OnlyMoves

LEMMA Finishing ==
    ASSUME OtherTypes, NEW w \in Workers, Finish(w)
    PROVE  OnlyMoves(w) /\ req'[w] = Idle
  BY Moving DEF Finish, Reqs

Snaps == {NoRow} \cup PaymentsRead \cup SubsRead \cup RefundsRead \cup RowsRead

LEMMA Proceeding ==
    ASSUME IInv, NEW w \in Workers, req[w].pc \in Handlers, NEW pc \in Handlers,
           NEW s \in Snaps, NEW f \in BOOLEAN,
           req' = [req EXCEPT ![w] = [req[w] EXCEPT !.pc = pc, !.snap = s, !.failed = f]]
    PROVE  Proceeds(w, pc) /\ req'[w].snap = s /\ req'[w].failed = f
<1> DEFINE q == [req[w] EXCEPT !.pc = pc, !.snap = s, !.failed = f]
<1>1. req[w] \in HandlerReqs
  BY Handling
<1>2. q \in HandlerReqs
  BY <1>1 DEF HandlerReqs, Snaps
<1>3. q.pc = pc /\ q.snap = s /\ q.failed = f /\ q.e = req[w].e
  BY <1>1 DEF HandlerReqs
<1>4. q \in Reqs /\ OtherTypes
  BY <1>2 DEF Reqs, IInv, Types
<1> HIDE DEF q
<1>5. OnlyMoves(w) /\ req'[w] = q
  BY <1>4, Moving DEF q
<1> QED
  BY <1>2, <1>3, <1>5 DEF Proceeds

\* The forms the handlers' steps have.
LEMMA Goes ==
    ASSUME IInv, NEW w \in Workers, req[w].pc \in Handlers, NEW pc \in Handlers, Goto(w, pc)
    PROVE  Proceeds(w, pc)
<1>1. req[w] \in HandlerReqs /\ req \in [Workers -> Reqs]
  BY Handling DEF IInv, Types, OtherTypes
<1>2. req[w].snap \in Snaps /\ req[w].failed \in BOOLEAN
  BY <1>1 DEF HandlerReqs, Snaps
<1>3. req' = [req EXCEPT ![w] = [req[w] EXCEPT !.pc = pc, !.snap = req[w].snap,
                                               !.failed = req[w].failed]]
  BY <1>1 DEF Goto, HandlerReqs
<1> QED
  BY <1>2, <1>3, Proceeding

LEMMA Reads ==
    ASSUME IInv, NEW w \in Workers, req[w].pc \in Handlers, NEW pc \in Handlers,
           NEW s \in Snaps, req' = [req EXCEPT ![w].pc = pc, ![w].snap = s]
    PROVE  Proceeds(w, pc) /\ req'[w].snap = s
<1> DEFINE q == [req[w] EXCEPT !.pc = pc, !.snap = s]
<1>1. req[w] \in HandlerReqs /\ OtherTypes
  BY Handling DEF IInv, Types
<1>2. q \in HandlerReqs /\ q.pc = pc /\ q.snap = s /\ q.e = req[w].e
  BY <1>1 DEF HandlerReqs, Snaps
<1>3. req' = [req EXCEPT ![w] = q]
  BY <1>1 DEF OtherTypes
<1> HIDE DEF q
<1>4. OnlyMoves(w) /\ req'[w] = q
  BY <1>1, <1>2, <1>3, Moving DEF Reqs
<1> QED
  BY <1>2, <1>4 DEF Proceeds

LEMMA Breaks ==
    ASSUME IInv, NEW w \in Workers, req[w].pc \in Handlers, NEW pc \in Handlers,
           req' = [req EXCEPT ![w].pc = pc, ![w].failed = TRUE]
    PROVE  Proceeds(w, pc)
<1>1. req[w] \in HandlerReqs /\ req \in [Workers -> Reqs]
  BY Handling DEF IInv, Types, OtherTypes
<1>2. req[w].snap \in Snaps
  BY <1>1 DEF HandlerReqs, Snaps
<1>3. req' = [req EXCEPT ![w] = [req[w] EXCEPT !.pc = pc, !.snap = req[w].snap,
                                               !.failed = TRUE]]
  BY <1>1 DEF HandlerReqs
<1> QED
  BY <1>2, <1>3, Proceeding

\* A step that reads nothing to be written later.
LEMMA ServedOn ==
    ASSUME IInv, NEW w \in Workers, req[w].pc \in Handlers,
           NEW pc \in Handlers \ {"publish", "persist", "unlock"}, Proceeds(w, pc),
           UNCHANGED events,
           purchase.exists => purchase'.exists,
           Event(w).kind = "paid" /\ req[w].pc = "record" => purchase'.exists,
           Event(w).kind = "expired" => pc \in {"finish", "abandon"},
           pc \in LeasePcs \cup {"lease"} => T(w) \in Tokens,
           pc = "revoke" => req'[w].snap \in RefundsRead
    PROVE  Serving(w)'
<1>1. Serving(w)
  BY DEF IInv, RequestsAreServed
<1>2. req'[w].pc = pc /\ req'[w].e = req[w].e /\ events' = events
  BY DEF Proceeds
<1>3. /\ req[w].e <= Len(events)
      /\ Event(w).kind = "paid" /\ req[w].pc # "record" => purchase.exists
  BY <1>1 DEF Serving, Event
<1> QED
  BY <1>2, <1>3 DEF Serving, Event, T

\* A handler that does not move is served by the step of another one, if that
\* wrote no purchase it claims and no row whose lease is its own.
LEMMA OthersServed ==
    ASSUME IInv, StripeTypes', Later, NEW v \in Workers, req'[v] = req[v],
           purchase.exists => purchase'.exists,
           req[v].pc = "publish" /\ purchase'.sync = v =>
               purchase.sync = v /\ purchase'.version = purchase.version,
           req[v].pc = "persist" /\ subLease'[T(v)] = v /\ T(v) \notin late'.rows =>
               /\ subLease[T(v)] = v /\ T(v) \notin late.rows
               /\ row'[T(v)].version = row[T(v)].version
    PROVE  Serving(v)'
<1> SUFFICES ASSUME req[v].pc \in Handlers
             PROVE  Serving(v)'
  BY DEF Serving
<1>1. /\ Serving(v) /\ req[v].e \in 1 .. Len(events) /\ events'[req[v].e] = events[req[v].e]
  BY Handling DEF IInv, RequestsAreServed, Later
<1>2. req[v].e <= Len(events')
  <2>1. Len(events) \in Nat /\ Len(events') \in Nat
    BY LenProperties DEF IInv, Types, StripeTypes
  <2> QED
    BY <1>1, <2>1 DEF Later
<1>3. CASE req[v].pc = "publish"
  <2>1. /\ req[v].snap \in PaymentsRead /\ req[v].snap.version <= paid.version
        /\ purchase.sync = v => purchase.version <= req[v].snap.version
    BY <1>1, <1>3 DEF Serving, Handlers
  <2>2. req[v].snap.version \in Nat /\ paid.version \in Nat /\ paid'.version \in Nat
    <3>1. paid.version \in Nat /\ paid'.version \in Nat
      BY DEF IInv, Types, StripeTypes
    <3>2. req[v].snap.version \in Nat
      BY <2>1 DEF PaymentsRead
    <3> QED
      BY <3>1, <3>2
  <2>3. req[v].snap.version <= paid'.version
    BY <2>1, <2>2 DEF Later
  <2> QED
    BY <1>1, <1>2, <1>3, <2>1, <2>3 DEF Serving, LeasePcs
<1>4. CASE req[v].pc = "persist"
  <2> DEFINE t == T(v)
             s == req[v].snap
  <2>1. /\ s \in SubsRead /\ t \in Tokens
        /\ s.version <= sub[t].version /\ s.period <= sub[t].period
        /\ subLease[t] = v /\ t \notin late.rows => row[t].version <= s.version
    BY <1>1, <1>4 DEF Serving, Handlers, LeasePcs, T, Event
  <2>2. s.version <= sub'[t].version /\ s.period <= sub'[t].period
    <3>1. s.version \in Nat /\ s.period \in Nat
      <4>1. Periods \cup {0} \subseteq Nat
        BY StripeLedgerAssumption
      <4> HIDE DEF s
      <4> QED
        BY <2>1, <4>1 DEF SubsRead
    <3>2. sub[t] \in Subscriptions /\ sub'[t] \in Subscriptions
      BY <2>1 DEF IInv, Types, StripeTypes
    <3>3. /\ sub[t].version \in Nat /\ sub[t].period \in Nat
          /\ sub'[t].version \in Nat /\ sub'[t].period \in Nat
      BY <3>2, SubType
    <3>4. sub[t].version <= sub'[t].version /\ sub[t].period <= sub'[t].period
      BY <2>1 DEF Later
    <3> QED
      BY <2>1, <3>1, <3>3, <3>4
  <2> QED
    BY <1>1, <1>2, <1>4, <2>1, <2>2 DEF Serving, LeasePcs, T, Event
<1>5. CASE req[v].pc \notin {"publish", "persist"}
  BY <1>1, <1>2, <1>5 DEF Serving, T, Event
<1> QED
  BY <1>3, <1>4, <1>5

-------------------------------------------------------------------------------
(* The handlers' steps.                                                     *)

\* What a handler that does not move still claims, or has the lease of, is as
\* it was.
Leaves(v) ==
    /\ req[v].pc = "publish" /\ purchase'.sync = v =>
           purchase.sync = v /\ purchase'.version = purchase.version
    /\ req[v].pc = "persist" /\ subLease'[T(v)] = v /\ T(v) \notin late'.rows =>
           /\ subLease[T(v)] = v /\ T(v) \notin late.rows
           /\ row'[T(v)].version = row[T(v)].version

\* What a step of w does to the books and to the requests.
Handles(w) ==
    /\ OnlyMoves(w) /\ Serving(w)' /\ BookTypes' /\ BooksAreBehind'
    /\ purchase.exists => purchase'.exists
    /\ \A v \in Workers : v # w => Leaves(v)

LEMMA BooksLeft ==
    ASSUME IInv, UNCHANGED <<purchase, row, subLease, late>>
    PROVE  \A v \in Workers : Leaves(v)
  BY DEF Leaves

\* The purchase, but for its version, and the subscriptions' rows and leases.
LEMMA BooksStay ==
    ASSUME IInv, UNCHANGED <<paid, sub, session, row>>, purchase'.version = purchase.version
    PROVE  BooksAreBehind'
  BY DEF IInv, BooksAreBehind

LEMMA DroppedType ==
    ASSUME BookTypes, NEW t \in Tokens \cup {NoToken}
    PROVE  DropLock(t) \in Tokens \cup {NoToken}
  BY DEF DropLock, BookTypes

\* A handler's step that writes no book but the lock.
LEMMA HandlesPlainly ==
    ASSUME IInv, NEW w \in Workers, req[w].pc \in Handlers,
           UNCHANGED <<paid, sub, session, events, purchase, row, subLease, late>>,
           lock' \in Tokens \cup {NoToken},
           OnlyMoves(w), Serving(w)'
    PROVE  Handles(w)
<1>1. BookTypes'
  BY DEF IInv, Types, BookTypes
<1> QED
  BY <1>1, BooksLeft, BooksStay DEF Handles

LEMMA PurchaseHandled ==
    ASSUME IInv, NEW w \in Workers, RecordPurchase(w)
    PROVE  Handles(w)
<1>0. /\ req[w].pc = "record" /\ req[w].pc \in Handlers
      /\ UNCHANGED <<product, paid, sub, session, events, row, subLease, late, lock>>
      /\ purchase' = [purchase EXCEPT !.exists = TRUE] /\ Goto(w, "begin")
  BY DEF RecordPurchase, At, Handlers, PlainPcs, stripe
<1>1. /\ purchase' \in Purchases /\ purchase'.exists
      /\ purchase'.sync = purchase.sync /\ purchase'.version = purchase.version
  BY <1>0 DEF IInv, Types, BookTypes, Purchases
<1>2. Proceeds(w, "begin")
  BY <1>0, Goes DEF Handlers, PlainPcs
<1>3. Serving(w)
  BY DEF IInv, RequestsAreServed
<1>4. Event(w).kind # "expired"
  BY <1>0, <1>3 DEF Serving, Event
<1>5. Serving(w)'
  BY <1>0, <1>1, <1>2, <1>4, ServedOn DEF Handlers, LeasePcs, PlainPcs
<1>6. \A v \in Workers : Leaves(v)
  BY <1>0, <1>1 DEF Leaves
<1>7. BookTypes' /\ BooksAreBehind'
  BY <1>0, <1>1, BooksStay DEF IInv, Types, BookTypes
<1> QED
  BY <1>1, <1>2, <1>5, <1>6, <1>7 DEF Handles, Proceeds

LEMMA SyncBegun ==
    ASSUME IInv, NEW w \in Workers, BeginSync(w)
    PROVE  Handles(w)
<1>0. /\ req[w].pc = "begin" /\ req[w].pc \in Handlers
      /\ UNCHANGED <<product, paid, sub, session, events, row, subLease, late, lock>>
  BY DEF BeginSync, At, Handlers, PlainPcs, stripe
<1>1. Serving(w)
  BY DEF IInv, RequestsAreServed
<1>2. Event(w).kind # "expired" /\ (Event(w).kind = "paid" => purchase.exists)
  BY <1>0, <1>1 DEF Serving, Event
<1>3. PICK pc \in {"finish", "lease", "read", "abandon"} :
         /\ Goto(w, pc) /\ (pc = "lease" => T(w) # 0)
         /\ \/ UNCHANGED purchase
            \/ purchase' = [purchase EXCEPT !.sync = w, !.lapsed = FALSE]
  BY DEF BeginSync
<1>4. pc \in Handlers \ {"publish", "persist", "unlock"} /\ pc \notin LeasePcs
  BY <1>3 DEF Handlers, PlainPcs, LeasePcs
<1>5. Proceeds(w, pc)
  BY <1>0, <1>3, <1>4, Goes
<1>6. /\ purchase' \in Purchases /\ purchase'.exists = purchase.exists
      /\ purchase'.version = purchase.version /\ purchase'.sync \in {purchase.sync, w}
  BY <1>3 DEF IInv, Types, BookTypes, Purchases, Anyone
<1>7. T(w) \in Tokens \cup {0}
  BY <1>0, Handling
<1>8. Serving(w)'
  <2>1. purchase.exists => purchase'.exists
    BY <1>6
  <2>2. pc \in LeasePcs \cup {"lease"} => T(w) \in Tokens
    BY <1>3, <1>4, <1>7
  <2> QED
    BY <1>0, <1>2, <1>4, <1>5, <2>1, <2>2, ServedOn
<1>9. ASSUME NEW v \in Workers, v # w PROVE Leaves(v)
  BY <1>0, <1>6, <1>9 DEF Leaves
<1>10. BookTypes' /\ BooksAreBehind'
  BY <1>0, <1>6, BooksStay DEF IInv, Types, BookTypes
<1> QED
  BY <1>5, <1>6, <1>8, <1>9, <1>10 DEF Handles, Proceeds

LEMMA PurchaseRead ==
    ASSUME IInv, NEW w \in Workers, ReadPurchase(w)
    PROVE  Handles(w)
<1> DEFINE s == [blocked |-> paid.blocked, version |-> paid.version]
<1>0. /\ req[w].pc = "read" /\ req[w].pc \in Handlers
      /\ UNCHANGED <<product, paid, sub, session, events, purchase, row, subLease, late, lock>>
      /\ req' = [req EXCEPT ![w].pc = "publish", ![w].snap = s]
  BY DEF ReadPurchase, At, Handlers, PlainPcs, stripe, books
<1>1. s \in PaymentsRead /\ s.version = paid.version /\ paid.version \in Nat
  BY DEF IInv, Types, StripeTypes, PaymentsRead
<1> HIDE DEF s
<1>2. Proceeds(w, "publish") /\ req'[w].snap = s
  BY <1>0, <1>1, Reads DEF Handlers, Snaps
<1>3. Serving(w)'
  <2>1. Serving(w)
    BY DEF IInv, RequestsAreServed
  <2>2. /\ req[w].e <= Len(events) /\ Event(w).kind # "expired"
        /\ Event(w).kind = "paid" => purchase.exists
    BY <1>0, <2>1 DEF Serving, Event
  <2>3. purchase.version <= paid.version
    BY DEF IInv, BooksAreBehind
  <2>4. /\ req'[w].pc = "publish" /\ req'[w].e = req[w].e /\ req'[w].snap = s
        /\ UNCHANGED <<events, purchase, paid>>
    BY <1>0, <1>2 DEF Proceeds
  <2> QED
    BY <1>1, <2>2, <2>3, <2>4 DEF Serving, Event, LeasePcs
<1> QED
  BY <1>0, <1>2, <1>3, HandlesPlainly DEF Proceeds, IInv, Types, BookTypes

LEMMA PurchasePublished ==
    ASSUME IInv, NEW w \in Workers, PublishPurchase(w)
    PROVE  Handles(w)
<1>0. /\ req[w].pc = "publish" /\ req[w].pc \in Handlers
      /\ UNCHANGED <<product, paid, sub, session, events, row, subLease, late, lock>>
  BY DEF PublishPurchase, At, Handlers, PlainPcs, stripe
<1>1. Serving(w) /\ purchase \in Purchases
  BY DEF IInv, RequestsAreServed, Types, BookTypes
<1>2. /\ Event(w).kind # "expired" /\ (Event(w).kind = "paid" => purchase.exists)
      /\ req[w].snap \in PaymentsRead /\ req[w].snap.version <= paid.version
  BY <1>0, <1>1 DEF Serving, Event
<1>3. PICK pc \in {"notify", "finish", "abandonSync"} :
         req' = [req EXCEPT ![w].pc = pc, ![w].snap = NoRow]
  BY DEF PublishPurchase
<1>4. pc \in Handlers \ {"publish", "persist", "unlock"} /\ pc \notin LeasePcs \cup {"lease"}
  BY <1>3 DEF Handlers, PlainPcs, LeasePcs
<1>5. Proceeds(w, pc)
  BY <1>0, <1>3, <1>4, Reads DEF Snaps
<1>6. CASE UNCHANGED purchase
  <2>1. Serving(w)'
    BY <1>0, <1>2, <1>4, <1>5, <1>6, ServedOn
  <2> QED
    BY <1>0, <1>5, <1>6, <2>1, HandlesPlainly DEF Proceeds, IInv, Types, BookTypes
<1>7. CASE /\ HoldsSync(w)
           /\ purchase' = [purchase EXCEPT !.blocked = req[w].snap.blocked,
                                           !.version = req[w].snap.version,
                                           !.sync = Nobody, !.lapsed = FALSE]
  <2> DEFINE s == req[w].snap
  <2>1. s.blocked \in BOOLEAN /\ s.version \in Nat
    BY <1>2 DEF PaymentsRead
  <2> HIDE DEF s
  <2>2. /\ purchase' \in Purchases /\ purchase'.exists = purchase.exists
        /\ purchase'.sync = Nobody /\ purchase'.version = s.version
    <3>1. purchase' = [purchase EXCEPT !.blocked = s.blocked, !.version = s.version,
                                       !.sync = Nobody, !.lapsed = FALSE]
      BY <1>7 DEF s
    <3> QED
      BY <1>1, <2>1, <3>1 DEF Purchases, Anyone
  <2>3. Serving(w)'
    <3>1. purchase.exists => purchase'.exists
      BY <2>2
    <3> QED
      BY <1>0, <1>2, <1>4, <1>5, <3>1, ServedOn
  <2>4. ASSUME NEW v \in Workers PROVE Leaves(v)
    <3>1. purchase'.sync # v
      BY <2>2, StripeLedgerAssumption
    <3> QED
      BY <1>0, <3>1 DEF Leaves
  <2>5. BookTypes'
    BY <1>0, <2>2 DEF IInv, Types, BookTypes
  <2>6. BooksAreBehind'
    <3>1. purchase'.version <= paid'.version
      BY <1>0, <1>2, <2>2 DEF s
    <3> QED
      BY <1>0, <3>1 DEF IInv, BooksAreBehind
  <2> QED
    BY <1>5, <2>2, <2>3, <2>4, <2>5, <2>6 DEF Handles, Proceeds
<1> QED
  BY <1>6, <1>7 DEF PublishPurchase

LEMMA SyncAbandoned ==
    ASSUME IInv, NEW w \in Workers, AbandonSync(w)
    PROVE  Handles(w)
<1>0. /\ req[w].pc = "abandonSync" /\ req[w].pc \in Handlers /\ Goto(w, "abandon")
      /\ UNCHANGED <<product, paid, sub, session, events, row, subLease, late, lock>>
  BY DEF AbandonSync, At, Handlers, PlainPcs, stripe
<1>1. Serving(w) /\ purchase \in Purchases
  BY DEF IInv, RequestsAreServed, Types, BookTypes
<1>2. Event(w).kind = "paid" => purchase.exists
  BY <1>0, <1>1 DEF Serving, Event
<1>3. "abandon" \in Handlers \ {"publish", "persist", "unlock"}
      /\ "abandon" \notin LeasePcs \cup {"lease"}
  BY DEF Handlers, PlainPcs, LeasePcs
<1>4. Proceeds(w, "abandon")
  BY <1>0, <1>3, Goes
<1>5. /\ purchase' \in Purchases /\ purchase'.exists = purchase.exists
      /\ purchase'.version = purchase.version /\ purchase'.sync \in {purchase.sync, Nobody}
  BY <1>1 DEF AbandonSync, Purchases, Anyone
<1>6. Serving(w)'
  <2>1. purchase.exists => purchase'.exists
    BY <1>5
  <2> QED
    BY <1>0, <1>2, <1>3, <1>4, <2>1, ServedOn
<1>7. ASSUME NEW v \in Workers PROVE Leaves(v)
  BY <1>0, <1>5, StripeLedgerAssumption DEF Leaves
<1>8. BookTypes' /\ BooksAreBehind'
  BY <1>0, <1>5, BooksStay DEF IInv, Types, BookTypes
<1> QED
  BY <1>4, <1>5, <1>6, <1>7, <1>8 DEF Handles, Proceeds

\* A lease is taken: nobody else still has it.
LEMMA LeaseAcquired ==
    ASSUME IInv, NEW w \in Workers, AcquireLease(w)
    PROVE  Handles(w)
<1>0. /\ req[w].pc = "lease" /\ req[w].pc \in Handlers /\ Goto(w, "readSub")
      /\ UNCHANGED <<product, paid, sub, session, events, purchase, row, late, lock>>
      /\ subLease[T(w)] = Nobody /\ subLease' = [subLease EXCEPT ![T(w)] = w]
  BY DEF AcquireLease, At, Handlers, PlainPcs, stripe
<1>1. Serving(w) /\ subLease \in [Tokens -> Anyone]
  BY DEF IInv, RequestsAreServed, Types, BookTypes
<1>2. (Event(w).kind = "paid" => purchase.exists) /\ Event(w).kind # "expired" /\ T(w) \in Tokens
  BY <1>0, <1>1, UnderItsLease DEF Serving, Event
<1>3. "readSub" \in Handlers \ {"publish", "persist", "unlock"}
  BY DEF Handlers, LeasePcs
<1>4. Proceeds(w, "readSub")
  BY <1>0, <1>3, Goes
<1>5. /\ subLease' \in [Tokens -> Anyone] /\ subLease'[T(w)] = w
      /\ \A t \in Tokens : t # T(w) => subLease'[t] = subLease[t]
  BY <1>0, <1>1, <1>2 DEF Anyone
<1>6. Serving(w)'
  BY <1>0, <1>2, <1>3, <1>4, <1>5, ServedOn
<1>7. ASSUME NEW v \in Workers, v # w PROVE Leaves(v)
  <2>1. ASSUME req[v].pc = "persist", subLease'[T(v)] = v PROVE subLease[T(v)] = v
    <3>1. T(v) \in Tokens
      BY <2>1, UnderItsLease DEF LeasePcs
    <3> QED
      BY <1>5, <1>7, <2>1, <3>1
  <2> QED
    BY <1>0, <2>1 DEF Leaves
<1>8. BookTypes' /\ BooksAreBehind'
  BY <1>0, <1>5, BooksStay DEF IInv, Types, BookTypes
<1> QED
  BY <1>0, <1>4, <1>6, <1>7, <1>8 DEF Handles, Proceeds

LEMMA SubscriptionRead ==
    ASSUME IInv, NEW w \in Workers, ReadSubscription(w)
    PROVE  Handles(w)
<1> DEFINE x == sub[T(w)]
           s == [status |-> x.status, period |-> x.period, version |-> x.version]
<1>0. /\ req[w].pc = "readSub" /\ req[w].pc \in Handlers /\ req[w].pc \in LeasePcs
      /\ UNCHANGED <<product, paid, sub, session, events, purchase, row, subLease, late, lock>>
      /\ req' = [req EXCEPT ![w].pc = "persist", ![w].snap = s]
  BY DEF ReadSubscription, At, Handlers, LeasePcs, stripe, books
<1>1. T(w) \in Tokens /\ Event(w).kind # "expired"
  BY <1>0, UnderItsLease
<1>2. x \in Subscriptions
  BY <1>1 DEF IInv, Types, StripeTypes
<1>3. s \in SubsRead /\ s.version = x.version /\ s.period = x.period
  BY <1>2, SubType DEF SubsRead
<1>4. /\ x.version \in Nat /\ x.period \in Nat
      /\ row[T(w)].version <= x.version
  BY <1>1, <1>2, SubType DEF IInv, BooksAreBehind
<1> HIDE DEF s
<1>5. Proceeds(w, "persist") /\ req'[w].snap = s
  BY <1>0, <1>3, Reads DEF Handlers, LeasePcs, Snaps
<1>6. Serving(w)'
  <2>1. Serving(w)
    BY DEF IInv, RequestsAreServed
  <2>2. req[w].e <= Len(events) /\ (Event(w).kind = "paid" => purchase.exists)
    BY <1>0, <2>1 DEF Serving, Event
  <2>3. /\ req'[w].pc = "persist" /\ req'[w].e = req[w].e /\ req'[w].snap = s
        /\ UNCHANGED <<events, purchase, row, late, sub, subLease>>
    BY <1>0, <1>5 DEF Proceeds
  <2>4. /\ row[T(w)].version <= s.version /\ s.version <= x.version
        /\ s.period <= x.period
    BY <1>3, <1>4
  <2> QED
    BY <1>1, <1>3, <2>2, <2>3, <2>4 DEF Serving, Event, T
<1> QED
  BY <1>0, <1>5, <1>6, HandlesPlainly DEF Proceeds, IInv, Types, BookTypes

\* A Worker that has the lease writes what is not older than the row; one that
\* has it no more leaves its mark beside the row.
LEMMA SubscriptionPersisted ==
    ASSUME IInv, NEW w \in Workers, PersistSubscription(w)
    PROVE  Handles(w)
<1> DEFINE t == T(w)
           s == req[w].snap
           x == [row[t] EXCEPT !.status = s.status, !.period = s.period, !.version = s.version]
<1>0. /\ req[w].pc = "persist" /\ req[w].pc \in Handlers /\ req[w].pc \in LeasePcs
      /\ UNCHANGED <<product, paid, sub, session, events, purchase, subLease>>
      /\ lock' = DropLock(t)
      /\ late' = [late EXCEPT !.rows = IF subLease[t] = w THEN @ \ {t} ELSE @ \cup {t}]
  BY DEF PersistSubscription, HoldsLease, At, Handlers, LeasePcs, stripe
<1>1. /\ t \in Tokens /\ Event(w).kind # "expired"
      /\ row \in [Tokens -> SubRows]
      /\ late \in [rows : SUBSET Tokens, marks : SUBSET Tokens]
  BY <1>0, UnderItsLease DEF IInv, Types, BookTypes
<1>2. Serving(w)
  BY DEF IInv, RequestsAreServed
<1>3. /\ Event(w).kind = "paid" => purchase.exists
      /\ s \in SubsRead
      /\ s.version <= sub[t].version /\ s.period <= sub[t].period
  BY <1>0, <1>2 DEF Serving, Event, T
<1>4. PICK pc \in {"readRefunds", "release"} :
         req' = [req EXCEPT ![w].pc = pc, ![w].snap = NoRow]
  BY DEF PersistSubscription
<1>5. pc \in Handlers \ {"publish", "persist", "unlock"} /\ pc \in LeasePcs
  BY <1>4 DEF Handlers, LeasePcs
<1>6. Proceeds(w, pc)
  BY <1>0, <1>4, <1>5, Reads DEF Snaps
<1>7. row' = [row EXCEPT ![t] = x]
  BY <1>1 DEF PersistSubscription
<1>8. s.status \in SubStatuses /\ s.period \in Periods \cup {0} /\ s.version \in Nat
      /\ row[t] \in SubRows /\ s.period \in Nat
  <2>1. s.status \in SubStatuses /\ s.period \in Periods \cup {0} /\ s.version \in Nat
    BY <1>3 DEF SubsRead
  <2>2. Periods \cup {0} \subseteq Nat
    BY StripeLedgerAssumption
  <2>3. row[t] \in SubRows
    BY <1>1
  <2> HIDE DEF s, t
  <2> QED
    BY <2>1, <2>2, <2>3
<1> HIDE DEF s, t
<1>9. /\ x \in SubRows /\ x.version = s.version /\ x.period = s.period
      /\ x.revoked = row[t].revoked
  BY <1>8 DEF SubRows
<1> HIDE DEF x
<1>10. /\ row' \in [Tokens -> SubRows] /\ row'[t] = x
       /\ \A u \in Tokens : u # t => row'[u] = row[u]
  BY <1>1, <1>7, <1>9
<1>11. Serving(w)'
  BY <1>0, <1>1, <1>3, <1>4, <1>5, <1>6, ServedOn DEF t
<1>15. /\ late' \in [rows : SUBSET Tokens, marks : SUBSET Tokens]
       /\ late'.rows = IF subLease[t] = w THEN late.rows \ {t} ELSE late.rows \cup {t}
  BY <1>0, <1>1
<1>12. ASSUME NEW v \in Workers, v # w PROVE Leaves(v)
  <2>1. ASSUME req[v].pc = "persist", subLease'[T(v)] = v, T(v) \notin late'.rows
        PROVE  T(v) \in Tokens /\ T(v) # t /\ T(v) \notin late.rows
    <3>1. T(v) \in Tokens
      BY <2>1, UnderItsLease DEF LeasePcs
    <3>2. T(v) # t
      BY <1>0, <1>12, <1>15, <2>1
    <3> QED
      BY <1>15, <2>1, <3>1, <3>2
  <2> QED
    BY <1>0, <1>10, <2>1 DEF Leaves
<1>13. BooksAreBehind'
  <2>1. ASSUME NEW u \in Tokens
        PROVE  /\ row'[u].version <= sub[u].version /\ row'[u].period <= sub[u].period
               /\ row'[u].revoked <= sub[u].period
    <3>1. CASE u # t
      BY <1>10, <3>1 DEF IInv, BooksAreBehind
    <3>2. CASE u = t
      <4>1. row[t].revoked <= sub[t].period
        BY <1>1 DEF IInv, BooksAreBehind
      <4> QED
        BY <1>3, <1>9, <1>10, <3>2, <4>1
    <3> QED
      BY <3>1, <3>2
  <2> QED
    BY <1>0, <2>1 DEF IInv, BooksAreBehind
<1>14. BookTypes'
  <2>1. lock' \in Tokens \cup {NoToken}
    BY <1>0, <1>1, DroppedType DEF IInv, Types
  <2> QED
    BY <1>0, <1>10, <1>15, <2>1 DEF IInv, Types, BookTypes
<1> QED
  BY <1>0, <1>6, <1>11, <1>12, <1>13, <1>14 DEF Handles, Proceeds

LEMMA RevocationRead ==
    ASSUME IInv, NEW w \in Workers, ReadRefunds(w)
    PROVE  Handles(w)
<1> DEFINE s == [blocked |-> Event(w).period \in sub[T(w)].refunded]
<1>0. /\ req[w].pc = "readRefunds" /\ req[w].pc \in Handlers /\ req[w].pc \in LeasePcs
      /\ UNCHANGED <<product, paid, sub, session, events, purchase, row, subLease, late, lock>>
      /\ req' = [req EXCEPT ![w].pc = "revoke", ![w].snap = s]
  BY DEF ReadRefunds, At, Handlers, LeasePcs, stripe, books
<1>1. T(w) \in Tokens /\ Event(w).kind # "expired"
  BY <1>0, UnderItsLease
<1>2. s \in Snaps /\ s \in RefundsRead
  BY DEF Snaps, RefundsRead
<1> HIDE DEF s
<1>3. "revoke" \in Handlers \ {"publish", "persist", "unlock"} /\ "revoke" \in LeasePcs
  BY DEF Handlers, LeasePcs
<1>4. Proceeds(w, "revoke") /\ req'[w].snap \in RefundsRead
  BY <1>0, <1>2, <1>3, Reads
<1>5. Serving(w)'
  <2>1. Serving(w)
    BY DEF IInv, RequestsAreServed
  <2>2. Event(w).kind = "paid" => purchase.exists
    BY <1>0, <2>1 DEF Serving, Event
  <2> QED
    BY <1>0, <1>1, <1>3, <1>4, <2>2, ServedOn
<1> QED
  BY <1>0, <1>4, <1>5, HandlesPlainly DEF Proceeds, IInv, Types, BookTypes

\* The row is read to be marked, if the refund is of its period.
LEMMA RowLookedAt ==
    ASSUME IInv, NEW w \in Workers, ReadRow(w)
    PROVE  Handles(w) /\ ~InCheckout(w)'
<1> DEFINE p == Event(w).period
           r == row[T(w)]
           n == [blocked |-> req[w].snap.blocked, revoked |-> r.revoked]
           s == IF p = r.period THEN n ELSE NoRow
           f == p > r.period
<1>0. /\ req[w].pc = "revoke" /\ req[w].pc \in Handlers /\ req[w].pc \in LeasePcs
      /\ UNCHANGED <<product, paid, sub, session, events, purchase, row, subLease, late, lock>>
  BY DEF ReadRow, At, Handlers, LeasePcs, stripe, books
<1>1. T(w) \in Tokens /\ Event(w).kind # "expired" /\ r \in SubRows
  BY <1>0, UnderItsLease DEF IInv, Types, BookTypes
<1>2. Serving(w)
  BY DEF IInv, RequestsAreServed
<1>3. (Event(w).kind = "paid" => purchase.exists) /\ req[w].snap \in RefundsRead
  BY <1>0, <1>2 DEF Serving, Event
<1>4. n \in RowsRead
  <2>1. req[w].snap.blocked \in BOOLEAN /\ r.revoked \in Nat
    BY <1>1, <1>3, RowType DEF RefundsRead
  <2> HIDE DEF r
  <2> QED
    BY <2>1 DEF RowsRead
<1>5. s \in Snaps /\ f \in BOOLEAN
  BY <1>4 DEF Snaps
<1>6. PICK pc \in {"mark", "release"} :
         req' = [req EXCEPT ![w].pc = pc, ![w].snap = s, ![w].failed = f]
  <2>1. req[w] \in HandlerReqs /\ req \in [Workers -> Reqs]
    BY <1>0, Handling DEF IInv, Types, OtherTypes
  <2> QED
    BY <1>0, <2>1 DEF ReadRow, HandlerReqs
<1> HIDE DEF s, f
<1>7. pc \in Handlers \ {"publish", "persist", "unlock"} /\ pc # "revoke"
  BY <1>6 DEF Handlers, LeasePcs
<1>8. Proceeds(w, pc)
  <2>1. req' = [req EXCEPT ![w] = [req[w] EXCEPT !.pc = pc, !.snap = s, !.failed = f]]
    BY <1>6 DEF IInv, Types, OtherTypes
  <2> QED
    BY <1>0, <1>5, <1>7, <2>1, Proceeding
<1>9. Serving(w)'
  BY <1>0, <1>1, <1>3, <1>7, <1>8, ServedOn
<1>10. ~InCheckout(w)'
  BY <1>7, <1>8 DEF Proceeds, InCheckout, At, Handlers, LeasePcs, PlainPcs
<1> QED
  BY <1>0, <1>8, <1>9, <1>10, HandlesPlainly DEF Proceeds, IInv, Types, BookTypes

LEMMA PeriodRevoked ==
    ASSUME IInv, NEW w \in Workers, RevokePeriod(w)
    PROVE  Handles(w) /\ ~InCheckout(w)'
<1> DEFINE t == T(w)
           r == row[t]
           q == req[w].snap
           same == r.period = Event(w).period
           marks == same /\ (q.blocked \/ r.revoked = Event(w).period)
           n == CASE ~marks    -> r.revoked
                  [] q.blocked -> RevocationMark(r)
                  [] OTHER     -> 0
           f == ~marks /\ (q.blocked \/ q.revoked # 0)
           m == IF same /\ HoldsLease(w) /\ t \notin late.rows THEN late.marks \ {t}
                  ELSE IF marks THEN late.marks \cup {t} ELSE late.marks
           x == [r EXCEPT !.revoked = n]
<1>0. /\ req[w].pc = "mark" /\ req[w].pc \in Handlers /\ req[w].pc \in LeasePcs
      /\ UNCHANGED <<product, paid, sub, session, events, purchase, subLease, lock>>
      /\ req' = [req EXCEPT ![w].pc = "release", ![w].snap = NoRow, ![w].failed = f]
  BY DEF RevokePeriod, At, Handlers, LeasePcs, stripe
<1>1. /\ t \in Tokens /\ Event(w).kind # "expired"
      /\ row \in [Tokens -> SubRows]
      /\ late \in [rows : SUBSET Tokens, marks : SUBSET Tokens]
  BY <1>0, UnderItsLease DEF IInv, Types, BookTypes
<1>15. /\ late' \in [rows : SUBSET Tokens, marks : SUBSET Tokens]
       /\ late'.rows = late.rows
  <2>1. late' = [late EXCEPT !.marks = m]
    BY <1>1 DEF RevokePeriod
  <2>2. m \in SUBSET Tokens
    BY <1>1
  <2> HIDE DEF m
  <2> QED
    BY <1>1, <2>1, <2>2
<1>2. f \in BOOLEAN
  OBVIOUS
<1>3. row' = [row EXCEPT ![t] = x]
  BY <1>1 DEF RevokePeriod
<1>4. /\ r \in SubRows /\ r.period \in Nat /\ r.revoked \in Nat /\ sub[t].period \in Nat
      /\ r.revoked <= sub[t].period /\ r.period <= sub[t].period
  BY <1>1, RowType, SubType DEF IInv, BooksAreBehind, Types, StripeTypes
<1>5. n \in Nat /\ n <= sub[t].period
  BY <1>4 DEF RevocationMark
<1> HIDE DEF n, f
<1>6. /\ x \in SubRows /\ x.version = r.version /\ x.period = r.period /\ x.revoked = n
  BY <1>4, <1>5 DEF SubRows
<1> HIDE DEF x
<1>7. /\ row' \in [Tokens -> SubRows] /\ row'[t] = x
      /\ \A u \in Tokens : u # t => row'[u] = row[u]
  BY <1>1, <1>3, <1>6
<1>8. "release" \in Handlers \ {"publish", "persist", "unlock"} /\ "release" \in LeasePcs
  BY DEF Handlers, LeasePcs
<1>9. Proceeds(w, "release")
  <2>1. req' = [req EXCEPT ![w] = [req[w] EXCEPT !.pc = "release", !.snap = NoRow, !.failed = f]]
    BY <1>0 DEF IInv, Types, OtherTypes
  <2>2. NoRow \in Snaps
    BY DEF Snaps
  <2> QED
    BY <1>0, <1>2, <1>8, <2>1, <2>2, Proceeding
<1>10. Serving(w)'
  <2>1. Serving(w)
    BY DEF IInv, RequestsAreServed
  <2>2. Event(w).kind = "paid" => purchase.exists
    BY <1>0, <2>1 DEF Serving, Event
  <2> QED
    BY <1>0, <1>1, <1>8, <1>9, <2>2, ServedOn
<1>11. \A u \in Tokens : row'[u].version = row[u].version /\ row'[u].period = row[u].period
  BY <1>6, <1>7
<1>12. ASSUME NEW v \in Workers PROVE Leaves(v)
  <2>1. req[v].pc = "persist" => T(v) \in Tokens
    BY UnderItsLease DEF LeasePcs
  <2> QED
    BY <1>0, <1>11, <1>15, <2>1 DEF Leaves
<1>13. BooksAreBehind'
  <2>1. \A u \in Tokens : row'[u].revoked <= sub[u].period
    BY <1>5, <1>6, <1>7 DEF IInv, BooksAreBehind
  <2> QED
    BY <1>0, <1>11, <2>1 DEF IInv, BooksAreBehind
<1>14. BookTypes'
  BY <1>0, <1>7, <1>15 DEF IInv, Types, BookTypes
<1>16. ~InCheckout(w)'
  BY <1>9 DEF Proceeds, InCheckout, At
<1> QED
  BY <1>0, <1>9, <1>10, <1>12, <1>13, <1>14, <1>16 DEF Handles, Proceeds

LEMMA LeaseReleased ==
    ASSUME IInv, NEW w \in Workers, ReleaseLease(w)
    PROVE  Handles(w)
<1>0. /\ req[w].pc = "release" /\ req[w].pc \in Handlers /\ req[w].pc \in LeasePcs
      /\ UNCHANGED <<product, paid, sub, session, events, purchase, row, late>>
  BY DEF ReleaseLease, At, Handlers, LeasePcs, stripe
<1>1. /\ T(w) \in Tokens /\ Event(w).kind # "expired"
      /\ subLease \in [Tokens -> Anyone]
  BY <1>0, UnderItsLease DEF IInv, Types, BookTypes
<1>2. PICK pc \in {"abandon", "notify", "finish"} : Goto(w, pc)
  BY DEF ReleaseLease
<1>3. pc \in Handlers \ {"publish", "persist", "unlock"} /\ pc \notin LeasePcs \cup {"lease"}
  BY <1>2 DEF Handlers, LeasePcs, PlainPcs
<1>4. Proceeds(w, pc)
  BY <1>0, <1>2, <1>3, Goes
<1>5. subLease' = [subLease EXCEPT ![T(w)] = IF @ = w THEN Nobody ELSE @]
  BY DEF ReleaseLease
<1>6. /\ subLease' \in [Tokens -> Anyone]
      /\ \A t \in Tokens : subLease'[t] \in {subLease[t], Nobody}
  BY <1>1, <1>5 DEF Anyone
<1>7. Serving(w)'
  <2>1. Serving(w)
    BY DEF IInv, RequestsAreServed
  <2>2. Event(w).kind = "paid" => purchase.exists
    BY <1>0, <2>1 DEF Serving, Event
  <2> QED
    BY <1>0, <1>1, <1>3, <1>4, <2>2, ServedOn
<1>8. ASSUME NEW v \in Workers, v # w PROVE Leaves(v)
  <2>1. req[v].pc = "persist" => T(v) \in Tokens
    BY UnderItsLease DEF LeasePcs
  <2> QED
    BY <1>0, <1>6, <2>1, StripeLedgerAssumption DEF Leaves
<1>9. BookTypes' /\ BooksAreBehind'
  <2>1. lock' \in Tokens \cup {NoToken}
    BY <1>1, DroppedType DEF ReleaseLease, IInv, Types, BookTypes
  <2> QED
    BY <1>0, <1>6, <2>1, BooksStay DEF IInv, Types, BookTypes
<1> QED
  BY <1>0, <1>4, <1>7, <1>8, <1>9 DEF Handles, Proceeds

LEMMA Unlocked ==
    ASSUME IInv, NEW w \in Workers, Unlock(w) \/ Notify(w) \/ GiveUpLease(w)
    PROVE  Handles(w)
<1>0. /\ req[w].pc \in {"unlock", "notify", "lease"}
      /\ UNCHANGED <<product, paid, sub, session, events, purchase, row, subLease, late>>
  BY DEF Unlock, Notify, GiveUpLease, At, stripe, books
<1>1. req[w].pc \in Handlers
  BY <1>0 DEF Handlers, PlainPcs
<1>2. PICK pc \in {"finish", "abandon"} : Goto(w, pc)
  BY DEF Unlock, Notify, GiveUpLease
<1>3. pc \in Handlers \ {"publish", "persist", "unlock"} /\ pc \notin LeasePcs \cup {"lease"}
  BY <1>2 DEF Handlers, LeasePcs, PlainPcs
<1>4. Proceeds(w, pc)
  BY <1>1, <1>2, <1>3, Goes
<1>5. lock' \in Tokens \cup {NoToken}
  <2>1. T(w) \in Tokens \cup {NoToken}
    BY <1>1, Handling DEF NoToken
  <2>2. lock' \in {lock, DropLock(T(w))}
    BY DEF Unlock, Notify, GiveUpLease, books
  <2> QED
    BY <2>1, <2>2, DroppedType DEF IInv, Types, BookTypes
<1>6. Serving(w)'
  <2>1. Serving(w)
    BY DEF IInv, RequestsAreServed
  <2>2. Event(w).kind = "paid" => purchase.exists
    BY <1>0, <1>1, <2>1 DEF Serving, Event
  <2> QED
    BY <1>0, <1>1, <1>2, <1>3, <1>4, <2>2, ServedOn
<1> QED
  BY <1>0, <1>1, <1>4, <1>5, <1>6, HandlesPlainly DEF Proceeds

LEMMA CallFailed ==
    ASSUME IInv, NEW w \in Workers, CallFails(w)
    PROVE  Handles(w)
<1>0. UNCHANGED <<product, paid, sub, session, events, purchase, row, subLease, late, lock>>
  BY DEF CallFails, stripe, books
<1>1. Serving(w)
  BY DEF IInv, RequestsAreServed
<1>2. CASE At(w, "read") /\ Goto(w, "abandonSync")
  <2>1. req[w].pc = "read" /\ req[w].pc \in Handlers
    BY <1>2 DEF At, Handlers, PlainPcs
  <2>2. "abandonSync" \in Handlers \ {"publish", "persist", "unlock"}
        /\ "abandonSync" \notin LeasePcs \cup {"lease"}
    BY DEF Handlers, PlainPcs, LeasePcs
  <2>3. Proceeds(w, "abandonSync")
    BY <1>2, <2>1, <2>2, Goes
  <2>4. (Event(w).kind = "paid" => purchase.exists) /\ Event(w).kind # "expired"
    BY <1>1, <2>1 DEF Serving, Event
  <2>5. Serving(w)'
    BY <1>0, <2>1, <2>2, <2>3, <2>4, ServedOn
  <2> QED
    BY <1>0, <2>1, <2>3, <2>5, HandlesPlainly DEF Proceeds, IInv, Types, BookTypes
<1>3. CASE /\ At(w, "readSub") \/ At(w, "readRefunds")
           /\ req' = [req EXCEPT ![w].pc = "release", ![w].failed = TRUE]
  <2>1. req[w].pc \in LeasePcs /\ req[w].pc \in Handlers /\ req[w].pc # "record"
    BY <1>3 DEF At, Handlers, LeasePcs
  <2>2. "release" \in Handlers \ {"publish", "persist", "unlock"} /\ "release" \in LeasePcs
    BY DEF Handlers, LeasePcs
  <2>3. Proceeds(w, "release")
    BY <1>3, <2>1, <2>2, Breaks
  <2>4. T(w) \in Tokens /\ Event(w).kind # "expired"
    BY <2>1, UnderItsLease
  <2>5. Event(w).kind = "paid" => purchase.exists
    BY <1>1, <2>1 DEF Serving, Event
  <2>6. Serving(w)'
    BY <1>0, <2>1, <2>2, <2>3, <2>4, <2>5, ServedOn
  <2> QED
    BY <1>0, <2>1, <2>3, <2>6, HandlesPlainly DEF Proceeds, IInv, Types, BookTypes
<1> QED
  BY <1>2, <1>3 DEF CallFails

LEMMA Delivered ==
    ASSUME IInv, NEW w \in Workers, NEW e \in EventIds, Deliver(w, e)
    PROVE  Handles(w) /\ req[w].pc = "idle" /\ ~InCheckout(w)'
<1> DEFINE pc == FirstStep(events[e].kind)
           q == [pc |-> pc, e |-> e, snap |-> NoRow, failed |-> FALSE]
<1>0. /\ req[w].pc = "idle" /\ e <= Len(events) /\ req' = [req EXCEPT ![w] = q]
      /\ UNCHANGED <<product, paid, sub, session, events, purchase, row, subLease, late, lock>>
  BY DEF Deliver, At, stripe, books
<1>1. StripeTypes /\ OtherTypes /\ EventsAreTold /\ BookTypes
  BY DEF IInv, Types
<1>2. e \in 1 .. Len(events) /\ events[e] \in Happenings /\ Told(events[e])
  <2>1. events \in Seq(Happenings) /\ Len(events) \in Nat
    BY <1>1, LenProperties DEF StripeTypes
  <2>2. e \in 1 .. Len(events)
    BY <1>0, <2>1 DEF EventIds
  <2> QED
    BY <1>1, <2>1, <2>2, ElementOfSeq DEF EventsAreTold
<1>3. pc \in {"record", "begin", "unlock", "lease"}
  BY DEF FirstStep
<1>4. /\ events[e].kind = "paid" <=> pc = "record"
      /\ pc = "unlock" <=> events[e].kind = "expired"
      /\ pc = "lease" => events[e].kind \notin {"paid", "refund", "expired"}
  BY DEF FirstStep
<1> HIDE DEF pc
<1>5. q \in HandlerReqs /\ q.pc = pc /\ q.e = e
  BY <1>3 DEF HandlerReqs, Handlers, PlainPcs
<1> HIDE DEF q
<1>6. OnlyMoves(w) /\ req'[w] = q
  BY <1>0, <1>1, <1>5, Moving DEF Reqs
<1>7. Serving(w)'
  <2>1. pc = "lease" => events[e].of \in Tokens
    BY <1>2, <1>4 DEF Told
  <2>2. e <= Len(events) /\ events' = events
    BY <1>0
  <2> QED
    BY <1>3, <1>4, <1>5, <1>6, <2>1, <2>2 DEF Serving, LeasePcs
<1>8. ~InCheckout(w)'
  BY <1>3, <1>5, <1>6 DEF InCheckout, At
<1>9. BookTypes' /\ BooksAreBehind' /\ \A v \in Workers : Leaves(v)
  BY <1>0, <1>1, BooksLeft, BooksStay DEF BookTypes
<1> QED
  BY <1>0, <1>6, <1>7, <1>8, <1>9 DEF Handles

\* A step that ends a request, or one of a checkout, which serves no event.
LEMMA ServesNothing ==
    ASSUME IInv, NEW w \in Workers, OnlyMoves(w), req'[w].pc \notin Handlers,
           UNCHANGED <<paid, sub, events, purchase, row, subLease, late>>, SessionsStay,
           lock' \in Tokens \cup {NoToken}
    PROVE  Handles(w)
<1>1. Serving(w)'
  BY DEF Serving
<1>2. BookTypes'
  BY DEF IInv, Types, BookTypes
<1>3. BooksAreBehind'
  <2>1. \A t \in Tokens : sub[t].status # "none" => session'[t] = "paid"
    BY DEF IInv, BooksAreBehind, SessionsStay
  <2> QED
    BY <2>1 DEF IInv, BooksAreBehind
<1> QED
  BY <1>1, <1>2, <1>3, BooksLeft DEF Handles

LEMMA EventEnded ==
    ASSUME IInv, NEW w \in Workers, FinishEvent(w) \/ AbandonEvent(w)
    PROVE  Handles(w) /\ ~InCheckout(w)'
<1>1. /\ Finish(w)
      /\ UNCHANGED <<product, paid, sub, session, events, purchase, row, subLease, late, lock>>
  BY DEF FinishEvent, AbandonEvent, stripe, books
<1>2. OnlyMoves(w) /\ req'[w] = Idle
  BY <1>1, Finishing DEF IInv, Types
<1>3. Idle.pc \notin Handlers /\ Idle.pc \notin {"list", "create"}
  BY DEF Idle, Handlers, LeasePcs, PlainPcs
<1>4. SessionsStay /\ lock' \in Tokens \cup {NoToken}
  BY <1>1 DEF SessionsStay, IInv, Types, BookTypes
<1> QED
  BY <1>1, <1>2, <1>3, <1>4, ServesNothing DEF InCheckout, At

-------------------------------------------------------------------------------
(* The monthly checkout and its lock.                                       *)

\* Nobody comes into a checkout: the lock stays, or goes when its session can
\* no longer be paid and nobody is about to open it.
LEMMA LocksHeld ==
    ASSUME IInv, UNCHANGED sub,
           \A t \in Tokens : session'[t] = session[t] \/ session'[t] = "lost",
           \A w \in Workers : InCheckout(w)' =>
               /\ InCheckout(w) /\ req'[w] = req[w]
               /\ session'[req[w].e] = session[req[w].e],
           \/ UNCHANGED lock
           \/ lock' = NoToken /\ session'[lock] # "open" /\ \A w \in Workers : ~InCheckout(w)'
    PROVE  CheckoutsAreLocked'
<1>0. CheckoutsAreLocked
  BY DEF IInv
<1>1. Contracts' = Contracts
  BY DEF Contracts
<1>2. \A w \in Workers : At(w, "create")' => InCheckout(w)'
  BY DEF InCheckout, At
<1>3. \A w \in Workers : At(w, "create")' => At(w, "create")
  BY <1>2 DEF At
<1>4. ASSUME NEW w \in Workers, InCheckout(w)'
      PROVE  lock' = req'[w].e /\ session'[req'[w].e] = "none"
  BY <1>0, <1>4 DEF CheckoutsAreLocked
<1>5. ASSUME NEW v \in Workers, NEW w \in Workers, InCheckout(v)', InCheckout(w)'
      PROVE  v = w
  BY <1>0, <1>5 DEF CheckoutsAreLocked
<1>6. ASSUME NEW t \in Tokens, session'[t] = "open"
      PROVE  lock' = t /\ Contracts' = {}
  BY <1>0, <1>1, <1>6 DEF CheckoutsAreLocked
<1>7. \A w \in Workers : At(w, "create")' => Contracts' = {}
  BY <1>0, <1>1, <1>3 DEF CheckoutsAreLocked
<1>8. \A t, u \in Contracts' : t = u
  BY <1>0, <1>1 DEF CheckoutsAreLocked
<1> QED
  BY <1>4, <1>5, <1>6, <1>7, <1>8 DEF CheckoutsAreLocked

\* A handler drops the lock of a session that was paid or has expired.
LEMMA HandlersLeaveLocks ==
    ASSUME IInv, NEW w \in Workers, OnlyMoves(w), ~InCheckout(w)',
           UNCHANGED <<sub, session>>,
           \/ UNCHANGED lock
           \/ /\ T(w) \in Tokens /\ session[T(w)] \in {"paid", "expired"}
              /\ lock' = DropLock(T(w))
    PROVE  CheckoutsAreLocked'
<1>1. \A v \in Workers : InCheckout(v)' => /\ InCheckout(v) /\ req'[v] = req[v]
                                           /\ session'[req[v].e] = session[req[v].e]
  BY DEF OnlyMoves, InCheckout, At
<1>2. CASE lock' # lock
  <2>1. lock' = NoToken /\ lock = T(w) /\ session[lock] \in {"paid", "expired"}
    BY <1>2 DEF DropLock
  <2>2. \A v \in Workers : ~InCheckout(v)
    BY <2>1 DEF IInv, CheckoutsAreLocked
  <2> QED
    BY <1>1, <2>1, <2>2, LocksHeld
<1> QED
  BY <1>1, <1>2, LocksHeld

LEMMA LeastToken ==
    ASSUME NEW S \in SUBSET Tokens, S # {}
    PROVE  (CHOOSE t \in S : \A u \in S : t <= u) \in S
<1>1. S \in SUBSET Nat
  BY StripeLedgerAssumption
<1>2. PICK n \in S : \A m \in S : <<m, n>> \notin OpToRel(<, Nat)
  BY <1>1, NatLessThanWellFounded, WFMin
<1>3. \A m \in S : n <= m
  <2> SUFFICES ASSUME NEW m \in S, m < n PROVE FALSE
    BY <1>1
  <2>1. <<m, n>> \in {ss \in Nat \X Nat : ss[1] < ss[2]}
    BY <1>1
  <2>2. <<m, n>> \in OpToRel(<, Nat)
    BY <2>1, Zenon DEF OpToRel
  <2> QED
    BY <1>2, <2>2
<1> QED
  BY <1>2, <1>3

\* The lock is free: no session can be paid and nobody is about to open one.
LEMMA NobodyElse ==
    ASSUME IInv, lock = NoToken
    PROVE  /\ \A v \in Workers : ~InCheckout(v)
           /\ \A t \in Tokens : session[t] # "open"
<1>1. \A v \in Workers : InCheckout(v) => lock \in Tokens
  BY CheckingOut DEF IInv, CheckoutsAreLocked, Types
<1>2. \A t \in Tokens : session[t] = "open" => lock \in Tokens
  BY DEF IInv, CheckoutsAreLocked
<1> QED
  BY <1>1, <1>2, StripeLedgerAssumption

LEMMA CheckoutStarted ==
    ASSUME IInv, NEW w \in Workers, StartCheckout(w)
    PROVE  Handles(w) /\ CheckoutsAreLocked' /\ UNCHANGED <<stripe, messages>>
<1>1. PICK t \in Fresh : /\ lock' = t /\ req' = [req EXCEPT ![w] = [pc |-> "list", e |-> t]]
                         /\ lock = NoToken
  BY LeastToken DEF StartCheckout, Fresh
<1>2. t \in Tokens /\ session[t] = "none"
  BY <1>1 DEF Fresh
<1>3. UNCHANGED <<product, paid, sub, session, events, purchase, row, subLease, late, messages>>
  BY DEF StartCheckout, stripe
<1> DEFINE q == [pc |-> "list", e |-> t]
<1>4. q \in Reqs /\ q.pc = "list" /\ q.e = t /\ q.pc \notin Handlers
  BY <1>2 DEF Reqs, CheckoutReqs, Handlers, LeasePcs, PlainPcs
<1> HIDE DEF q
<1>5. OnlyMoves(w) /\ req'[w] = q
  BY <1>1, <1>4, Moving DEF IInv, Types, q
<1>6. Handles(w)
  <2>1. SessionsStay /\ lock' \in Tokens \cup {NoToken}
    BY <1>1, <1>2, <1>3 DEF SessionsStay
  <2> QED
    BY <1>3, <1>4, <1>5, <2>1, ServesNothing
<1>7. CheckoutsAreLocked'
  <2>1. \A v \in Workers : InCheckout(v)' => v = w
    BY <1>1, <1>5, NobodyElse DEF OnlyMoves, InCheckout, At
  <2>2. \A u \in Tokens : session'[u] # "open"
    BY <1>1, <1>3, NobodyElse
  <2>3. \A v \in Workers : ~At(v, "create")'
    <3>1. \A v \in Workers : At(v, "create")' => v = w
      BY <2>1 DEF InCheckout, At
    <3> QED
      BY <1>4, <1>5, <3>1 DEF At
  <2>4. Contracts' = Contracts /\ \A a, b \in Contracts : a = b
    BY <1>3 DEF Contracts, IInv, CheckoutsAreLocked
  <2>5. lock' = req'[w].e /\ session'[req'[w].e] = "none"
    BY <1>1, <1>2, <1>3, <1>4, <1>5
  <2> QED
    BY <2>1, <2>2, <2>3, <2>4, <2>5 DEF CheckoutsAreLocked
<1> QED
  BY <1>3, <1>6, <1>7 DEF stripe

LEMMA SubscriptionsListed ==
    ASSUME IInv, NEW w \in Workers, ListSubscriptions(w)
    PROVE  Handles(w) /\ CheckoutsAreLocked' /\ UNCHANGED <<stripe, messages>>
<1>0. /\ At(w, "list") /\ InCheckout(w)
      /\ UNCHANGED <<product, paid, sub, session, events, purchase, row, subLease, late, messages>>
  BY DEF ListSubscriptions, InCheckout, stripe
<1>1. /\ req[w] \in CheckoutReqs /\ req[w].e \in Tokens
      /\ lock = req[w].e /\ session[lock] = "none"
  BY <1>0, CheckingOut DEF IInv, Types, CheckoutsAreLocked
<1>2. \A v \in Workers : InCheckout(v) => v = w
  BY <1>0 DEF IInv, CheckoutsAreLocked
<1>3. SessionsStay
  BY <1>0 DEF SessionsStay
<1>4. CASE Contracts # {}
  <2>1. Finish(w) /\ lock' = NoToken
    BY <1>1, <1>4 DEF ListSubscriptions, ContractsAtStripe, DropLock
  <2>2. OnlyMoves(w) /\ req'[w] = Idle
    BY <2>1, Finishing DEF IInv, Types
  <2>3. Idle.pc \notin Handlers /\ Idle.pc \notin {"list", "create"}
    BY DEF Idle, Handlers, LeasePcs, PlainPcs
  <2>4. Handles(w)
    BY <1>0, <1>3, <2>1, <2>2, <2>3, ServesNothing
  <2>5. \A v \in Workers : ~InCheckout(v)'
    BY <1>2, <2>2, <2>3 DEF OnlyMoves, InCheckout, At
  <2>6. CheckoutsAreLocked'
    BY <1>0, <1>1, <2>1, <2>5, LocksHeld
  <2> QED
    BY <1>0, <2>4, <2>6 DEF stripe
<1>5. CASE Contracts = {}
  <2> DEFINE q == [req[w] EXCEPT !.pc = "create"]
  <2>1. Goto(w, "create") /\ UNCHANGED lock
    BY <1>5 DEF ListSubscriptions, ContractsAtStripe
  <2>2. q \in CheckoutReqs /\ q.pc = "create" /\ q.e = req[w].e /\ q.pc \notin Handlers
    BY <1>1 DEF CheckoutReqs, Handlers, LeasePcs, PlainPcs
  <2>3. req' = [req EXCEPT ![w] = q]
    BY <2>1 DEF Goto
  <2> HIDE DEF q
  <2>4. OnlyMoves(w) /\ req'[w] = q
    BY <2>2, <2>3, Moving DEF IInv, Types, Reqs
  <2>5. Handles(w)
    BY <1>0, <1>3, <2>1, <2>2, <2>4, ServesNothing DEF IInv, Types, BookTypes
  <2>6. CheckoutsAreLocked'
    <3>1. \A v \in Workers : InCheckout(v)' => v = w
      BY <1>2, <2>4 DEF OnlyMoves, InCheckout, At
    <3>2. lock' = req'[w].e /\ session'[req'[w].e] = "none"
      BY <1>0, <1>1, <2>1, <2>2, <2>4
    <3>3. Contracts' = {}
      BY <1>0, <1>5 DEF Contracts
    <3>4. \A t \in Tokens : session'[t] = "open" => lock' = t
      BY <1>0, <2>1 DEF IInv, CheckoutsAreLocked
    <3> QED
      BY <3>1, <3>2, <3>3, <3>4 DEF CheckoutsAreLocked
  <2> QED
    BY <1>0, <2>5, <2>6 DEF stripe
<1> QED
  BY <1>4, <1>5

\* The session may be paid now; it is the only one, and there is no contract.
LEMMA SessionCreated ==
    ASSUME IInv, NEW w \in Workers, CreateSession(w)
    PROVE  /\ Handles(w) /\ CheckoutsAreLocked' /\ SessionsStay
           /\ session' \in [Tokens -> {"none", "open", "paid", "expired", "lost"}]
           /\ UNCHANGED <<product, paid, sub, events, messages>>
<1> DEFINE t == req[w].e
<1>0. /\ At(w, "create") /\ InCheckout(w) /\ Finish(w)
      /\ session' = [session EXCEPT ![t] = "open"]
      /\ UNCHANGED <<product, paid, sub, events, purchase, row, subLease, late, lock, messages>>
  BY DEF CreateSession, InCheckout, books
<1>1. t \in Tokens /\ lock = t /\ session[t] = "none" /\ Contracts = {}
  BY <1>0, CheckingOut DEF IInv, Types, CheckoutsAreLocked
<1>2. \A v \in Workers : InCheckout(v) => v = w
  BY <1>0 DEF IInv, CheckoutsAreLocked
<1>3. session \in [Tokens -> {"none", "open", "paid", "expired", "lost"}]
  BY DEF IInv, Types, StripeTypes
<1> HIDE DEF t
<1>4. /\ session' \in [Tokens -> {"none", "open", "paid", "expired", "lost"}]
      /\ \A u \in Tokens : u # t => session'[u] = session[u]
  BY <1>0, <1>3
<1>5. SessionsStay
  BY <1>1, <1>4 DEF SessionsStay
<1>6. OnlyMoves(w) /\ req'[w] = Idle
  BY <1>0, Finishing DEF IInv, Types
<1>7. Idle.pc \notin Handlers /\ Idle.pc \notin {"list", "create"}
  BY DEF Idle, Handlers, LeasePcs, PlainPcs
<1>8. Handles(w)
  BY <1>0, <1>5, <1>6, <1>7, ServesNothing DEF IInv, Types, BookTypes
<1>9. CheckoutsAreLocked'
  <2>1. \A v \in Workers : ~InCheckout(v)' /\ ~At(v, "create")'
    BY <1>2, <1>6, <1>7 DEF OnlyMoves, InCheckout, At
  <2>2. Contracts' = {}
    BY <1>0, <1>1 DEF Contracts
  <2>3. \A u \in Tokens : session'[u] = "open" => lock' = u
    BY <1>0, <1>1, <1>4 DEF IInv, CheckoutsAreLocked
  <2> QED
    BY <2>1, <2>2, <2>3 DEF CheckoutsAreLocked
<1> QED
  BY <1>0, <1>4, <1>5, <1>8, <1>9

\* A checkout, or any other request, breaks off: its session is lost with it.
LEMMA BrokenOff ==
    ASSUME IInv, NEW w \in Workers, CheckoutFails(w) \/ WorkerDies(w)
    PROVE  /\ Handles(w) /\ CheckoutsAreLocked' /\ SessionsStay
           /\ session' \in [Tokens -> {"none", "open", "paid", "expired", "lost"}]
           /\ UNCHANGED <<product, paid, sub, events, messages>>
<1> DEFINE t == req[w].e
<1>0. /\ Finish(w)
      /\ session' = IF InCheckout(w) THEN [session EXCEPT ![t] = "lost"] ELSE session
      /\ UNCHANGED <<product, paid, sub, events, purchase, row, subLease, late, messages>>
      /\ UNCHANGED lock \/ (InCheckout(w) /\ lock' = DropLock(t))
  BY DEF CheckoutFails, WorkerDies, books
<1>1. InCheckout(w) => t \in Tokens /\ lock = t /\ session[t] = "none"
  BY CheckingOut DEF IInv, Types, CheckoutsAreLocked
<1>2. \A v \in Workers : InCheckout(w) /\ InCheckout(v) => v = w
  BY DEF IInv, CheckoutsAreLocked
<1>3. session \in [Tokens -> {"none", "open", "paid", "expired", "lost"}]
  BY DEF IInv, Types, StripeTypes
<1> HIDE DEF t
<1>4. /\ session' \in [Tokens -> {"none", "open", "paid", "expired", "lost"}]
      /\ \A u \in Tokens : session'[u] = session[u] \/ (session[u] = "none" /\ session'[u] = "lost")
      /\ ~InCheckout(w) => session' = session
      /\ InCheckout(w) => session'[t] = "lost"
  BY <1>0, <1>1, <1>3
<1>5. SessionsStay
  BY <1>4 DEF SessionsStay
<1>6. OnlyMoves(w) /\ req'[w] = Idle
  BY <1>0, Finishing DEF IInv, Types
<1>7. Idle.pc \notin Handlers /\ Idle.pc \notin {"list", "create"}
  BY DEF Idle, Handlers, LeasePcs, PlainPcs
<1>8. lock' \in Tokens \cup {NoToken}
  BY <1>0 DEF DropLock, IInv, Types, BookTypes
<1>9. Handles(w)
  BY <1>0, <1>5, <1>6, <1>7, <1>8, ServesNothing
<1>10. \A v \in Workers : InCheckout(v)' => InCheckout(v) /\ req'[v] = req[v] /\ ~InCheckout(w)
  BY <1>2, <1>6, <1>7 DEF OnlyMoves, InCheckout, At
<1>11. CheckoutsAreLocked'
  <2>1. CASE UNCHANGED lock
    BY <1>0, <1>4, <1>10, <2>1, LocksHeld
  <2>2. CASE InCheckout(w) /\ lock' = DropLock(t)
    <3>1. lock' = NoToken /\ session'[lock] = "lost" /\ \A v \in Workers : ~InCheckout(v)'
      BY <1>1, <1>4, <1>10, <2>2 DEF DropLock
    <3> QED
      BY <1>0, <1>4, <1>10, <3>1, LocksHeld
  <2> QED
    BY <1>0, <2>1, <2>2
<1> QED
  BY <1>0, <1>4, <1>5, <1>9, <1>11

\* A handler's step that is no checkout's, whatever it writes of its request.
LEMMA StaysOut ==
    ASSUME IInv, NEW w \in Workers, req[w].pc \in Handlers,
           NEW pc \in Handlers, NEW s, NEW f,
           \/ Goto(w, pc)
           \/ req' = [req EXCEPT ![w].pc = pc, ![w].snap = s]
           \/ req' = [req EXCEPT ![w].pc = pc, ![w].failed = f]
    PROVE  ~InCheckout(w)'
<1>1. req[w] \in HandlerReqs /\ req \in [Workers -> Reqs]
  BY Handling DEF IInv, Types, OtherTypes
<1>2. req'[w].pc = pc
  BY <1>1 DEF Goto, HandlerReqs
<1> QED
  BY <1>2 DEF InCheckout, At, Handlers, LeasePcs, PlainPcs

\* What the webhook's handler does to the lock.
LEMMA HandlersLock ==
    ASSUME IInv, NEW w \in Workers, req[w].pc \in Handlers, OnlyMoves(w), ~InCheckout(w)',
           UNCHANGED stripe,
           \/ UNCHANGED lock
           \/ (req[w].pc \in LeasePcs \/ req[w].pc = "unlock") /\ lock' = DropLock(T(w))
    PROVE  CheckoutsAreLocked'
<1>1. CASE UNCHANGED lock
  BY <1>1, HandlersLeaveLocks DEF stripe
<1>2. CASE req[w].pc \in LeasePcs /\ lock' = DropLock(T(w))
  BY <1>2, UnderItsLease, HandlersLeaveLocks DEF stripe
<1>3. CASE req[w].pc = "unlock" /\ lock' = DropLock(T(w))
  <2>1. Serving(w) /\ Told(Event(w))
    BY Handling DEF IInv, RequestsAreServed
  <2>2. T(w) \in Tokens /\ session[T(w)] = "expired"
    BY <1>3, <2>1 DEF Serving, Event, T, Told
  <2> QED
    BY <1>3, <2>2, HandlersLeaveLocks DEF stripe
<1> QED
  BY <1>1, <1>2, <1>3

\* The webhook's steps.
EventStep(w) ==
    \/ RecordPurchase(w) \/ BeginSync(w) \/ ReadPurchase(w) \/ PublishPurchase(w) \/ AbandonSync(w)
    \/ ReadSubscription(w) \/ PersistSubscription(w) \/ ReadRefunds(w)
    \/ ReadRow(w) \/ RevokePeriod(w) \/ ReleaseLease(w) \/ Unlock(w) \/ Notify(w)
    \/ FinishEvent(w) \/ AbandonEvent(w) \/ AcquireLease(w) \/ GiveUpLease(w) \/ CallFails(w)

LEMMA EventsHandled ==
    ASSUME IInv, NEW w \in Workers, EventStep(w)
    PROVE  Handles(w)
  BY PurchaseHandled, SyncBegun, PurchaseRead, PurchasePublished, SyncAbandoned,
     SubscriptionRead, SubscriptionPersisted, RevocationRead, RowLookedAt, PeriodRevoked,
     LeaseReleased,
     Unlocked, EventEnded, LeaseAcquired, CallFailed DEF EventStep

LEMMA EventsLeaveLocks ==
    ASSUME IInv, NEW w \in Workers, EventStep(w)
    PROVE  CheckoutsAreLocked' /\ UNCHANGED stripe
<1>1. UNCHANGED stripe
  BY DEF EventStep, RecordPurchase, BeginSync, ReadPurchase, PublishPurchase, AbandonSync,
         ReadSubscription, PersistSubscription, ReadRefunds, ReadRow, RevokePeriod,
         ReleaseLease, Unlock, Notify, FinishEvent, AbandonEvent, AcquireLease, GiveUpLease,
         CallFails
<1>2. OnlyMoves(w)
  BY EventsHandled DEF Handles
<1> SUFFICES CheckoutsAreLocked'
  BY <1>1
<1>3. CASE FinishEvent(w) \/ AbandonEvent(w)
  <2>1. ~InCheckout(w)' /\ UNCHANGED lock /\ UNCHANGED stripe /\ UNCHANGED <<sub, session>>
    BY <1>1, <1>3, EventEnded DEF FinishEvent, AbandonEvent, books, stripe
  <2> QED
    BY <1>2, <2>1, HandlersLeaveLocks
<1>4. ASSUME req[w].pc \in Handlers, ~InCheckout(w)', UNCHANGED lock
      PROVE  CheckoutsAreLocked'
  BY <1>1, <1>2, <1>4, HandlersLock
<1>5. CASE RecordPurchase(w) \/ AbandonSync(w) \/ Notify(w) \/ AcquireLease(w) \/ GiveUpLease(w)
  <2>1. req[w].pc \in Handlers /\ UNCHANGED lock
    BY <1>5 DEF RecordPurchase, AbandonSync, Notify, AcquireLease, GiveUpLease, At, Handlers,
                PlainPcs, books
  <2>2. \E pc \in {"begin", "abandon", "finish", "readSub"} : Goto(w, pc)
    BY <1>5 DEF RecordPurchase, AbandonSync, Notify, AcquireLease, GiveUpLease
  <2>3. \E pc \in Handlers : Goto(w, pc)
    BY <2>2 DEF Handlers, PlainPcs, LeasePcs
  <2>4. ~InCheckout(w)'
    BY <2>1, <2>3, StaysOut
  <2> QED
    BY <1>4, <2>1, <2>4
<1>6. CASE BeginSync(w)
  <2>1. req[w].pc \in Handlers /\ UNCHANGED lock
    BY <1>6 DEF BeginSync, At, Handlers, PlainPcs
  <2>2. \E pc \in {"finish", "lease", "read", "abandon"} : Goto(w, pc)
    BY <1>6 DEF BeginSync
  <2>3. \E pc \in Handlers : Goto(w, pc)
    BY <2>2 DEF Handlers, PlainPcs, LeasePcs
  <2>4. ~InCheckout(w)'
    BY <2>1, <2>3, StaysOut
  <2> QED
    BY <1>4, <2>1, <2>4
<1>7. CASE ReadPurchase(w) \/ PublishPurchase(w) \/ ReadSubscription(w) \/ ReadRefunds(w)
  <2>1. req[w].pc \in Handlers /\ UNCHANGED lock
    BY <1>7 DEF ReadPurchase, PublishPurchase, ReadSubscription, ReadRefunds, At, Handlers,
                PlainPcs, LeasePcs, books
  <2>2. \E pc \in {"publish", "notify", "finish", "abandonSync", "persist", "revoke"} :
           \E s : req' = [req EXCEPT ![w].pc = pc, ![w].snap = s]
    BY <1>7 DEF ReadPurchase, PublishPurchase, ReadSubscription, ReadRefunds
  <2>3. \E pc \in Handlers : \E s : req' = [req EXCEPT ![w].pc = pc, ![w].snap = s]
    BY <2>2 DEF Handlers, PlainPcs, LeasePcs
  <2>4. ~InCheckout(w)'
    BY <2>1, <2>3, StaysOut
  <2> QED
    BY <1>4, <2>1, <2>4
<1>8. CASE CallFails(w)
  <2>1. req[w].pc \in Handlers /\ UNCHANGED lock
    BY <1>8 DEF CallFails, At, Handlers, PlainPcs, LeasePcs, books
  <2>2. \E pc \in {"release", "abandonSync"} : \E f :
           \/ Goto(w, pc)
           \/ req' = [req EXCEPT ![w].pc = pc, ![w].failed = f]
    BY <1>8 DEF CallFails
  <2>3. \E pc \in Handlers : \E f :
           \/ Goto(w, pc)
           \/ req' = [req EXCEPT ![w].pc = pc, ![w].failed = f]
    BY <2>2 DEF Handlers, PlainPcs, LeasePcs
  <2>4. ~InCheckout(w)'
    BY <2>1, <2>3, StaysOut
  <2> QED
    BY <1>4, <2>1, <2>4
<1>11. CASE ReadRow(w) \/ RevokePeriod(w)
  <2>1. req[w].pc \in Handlers /\ UNCHANGED lock
    BY <1>11 DEF ReadRow, RevokePeriod, At, Handlers, LeasePcs, books
  <2> QED
    BY <1>4, <1>11, <2>1, RowLookedAt, PeriodRevoked
<1>9. CASE PersistSubscription(w)
  <2>1. /\ req[w].pc \in Handlers /\ req[w].pc \in LeasePcs /\ lock' = DropLock(T(w))
        /\ \E pc \in {"readRefunds", "release"} :
              req' = [req EXCEPT ![w].pc = pc, ![w].snap = NoRow]
    BY <1>9 DEF PersistSubscription, At, Handlers, LeasePcs
  <2>2. \E pc \in Handlers : req' = [req EXCEPT ![w].pc = pc, ![w].snap = NoRow]
    BY <2>1 DEF Handlers, LeasePcs
  <2>3. ~InCheckout(w)'
    BY <2>1, <2>2, StaysOut
  <2> QED
    BY <1>1, <1>2, <2>1, <2>3, HandlersLock
<1>10. CASE ReleaseLease(w) \/ Unlock(w)
  <2>1. /\ req[w].pc \in Handlers
        /\ \/ UNCHANGED lock
           \/ (req[w].pc \in LeasePcs \/ req[w].pc = "unlock") /\ lock' = DropLock(T(w))
        /\ \E pc \in {"abandon", "notify", "finish"} : Goto(w, pc)
    BY <1>10 DEF ReleaseLease, Unlock, At, Handlers, LeasePcs, PlainPcs
  <2>2. \E pc \in Handlers : Goto(w, pc)
    BY <2>1 DEF Handlers, PlainPcs
  <2>3. ~InCheckout(w)'
    BY <2>1, <2>2, StaysOut
  <2> QED
    BY <1>1, <1>2, <2>1, <2>3, HandlersLock
<1> QED
  BY <1>3, <1>5, <1>6, <1>7, <1>8, <1>9, <1>10, <1>11 DEF EventStep

-------------------------------------------------------------------------------
(* The other variables.                                                     *)

\* A step that is not Stripe's.
LEMMA StripeStays ==
    ASSUME IInv, UNCHANGED <<product, paid, sub, events>>, SessionsStay,
           session' \in [Tokens -> {"none", "open", "paid", "expired", "lost"}]
    PROVE  StripeTypes' /\ Later /\ EventsAreTold'
<1>0. StripeTypes /\ EventsAreTold
  BY DEF IInv, Types
<1>1. StripeTypes'
  BY <1>0 DEF StripeTypes
<1>2. \A t \in Tokens : sub[t].version <= sub'[t].version /\ sub[t].period <= sub'[t].period
  BY <1>0, SubType DEF StripeTypes
<1>3. paid.version <= paid'.version /\ Len(events) \in Nat
  BY <1>0, LenProperties DEF StripeTypes
<1>4. ASSUME NEW i \in 1 .. Len(events) PROVE Told(events[i])'
  BY <1>0, <1>4 DEF EventsAreTold, Told, SessionsStay
<1> QED
  BY <1>1, <1>2, <1>3, <1>4 DEF Later, EventsAreTold

LEMMA MessagesStay ==
    ASSUME IInv, StripeTypes', Later, UNCHANGED messages, purchase.exists => purchase'.exists
    PROVE  MessagesAreTold'
<1> SUFFICES ASSUME NEW e \in EventIds, messages[e] > 0
             PROVE  e <= Len(events') /\ (events'[e].kind = "paid" => purchase'.exists)
  BY DEF IInv, MessagesAreTold
<1>1. /\ e <= Len(events)
      /\ events[e].kind = "paid" => purchase.exists
  BY DEF IInv, MessagesAreTold
<1>2. e \in Nat /\ e >= 1 /\ Len(events) \in Nat /\ Len(events') \in Nat
  BY LenProperties, StripeLedgerAssumption DEF EventIds, IInv, Types, StripeTypes
<1> QED
  BY <1>1, <1>2 DEF Later

\* LINE shows one message of a key, and every try for an event carries the
\* same one.
LEMMA MessageShown ==
    ASSUME IInv, NEW w \in Workers, Notify(w)
    PROVE  messages' \in [EventIds -> Nat] /\ MessagesAreTold'
<1> DEFINE e == req[w].e
           n == messages[e]
           add(k) == Cardinality({RetryKey(e, n + i) : i \in 1 .. k}
                                 \ {RetryKey(e, i) : i \in 1 .. n})
<1>1. req[w].pc = "notify" /\ req[w].pc \in Handlers /\ Serving(w)
  BY DEF Notify, At, Handlers, PlainPcs, IInv, RequestsAreServed
<1>2. /\ e \in EventIds /\ e \in 1 .. Len(events)
      /\ events[e].kind = "paid" => purchase.exists
  BY <1>1, Handling DEF Serving
<1>3. /\ messages \in [EventIds -> Nat] /\ n \in Nat /\ n <= 1
      /\ UNCHANGED <<events, purchase>>
  BY <1>2 DEF IInv, Types, OtherTypes, MessagesAreTold, Notify, stripe, books
<1>4. PICK k \in 0 .. 2 : messages' = [messages EXCEPT ![e] = n + add(k)]
  BY <1>2, <1>3 DEF Notify
<1>5. add(k) \in {0, 1} /\ (n = 1 => add(k) = 0)
  <2> DEFINE new == {RetryKey(e, n + i) : i \in 1 .. k}
             old == {RetryKey(e, i) : i \in 1 .. n}
  <2>1. new \subseteq {0} /\ old \subseteq {0} /\ (n = 1 => old = {0})
    BY DEF RetryKey
  <2>2. (new \ old = {} \/ new \ old = {0}) /\ (n = 1 => new \ old = {})
    BY <2>1
  <2>3. Cardinality({}) = 0 /\ Cardinality({0}) = 1
    BY FS_EmptySet, FS_Singleton
  <2> HIDE DEF new, old
  <2> QED
    BY <2>2, <2>3 DEF new, old
<1> HIDE DEF e, n, add
<1>6. n + add(k) \in Nat /\ n + add(k) <= 1
  BY <1>3, <1>5
<1>7. /\ messages' \in [EventIds -> Nat] /\ messages'[e] <= 1
      /\ \A d \in EventIds : d # e => messages'[d] = messages[d]
  BY <1>2, <1>3, <1>4, <1>6
<1>8. e <= Len(events)
  <2>1. Len(events) \in Nat
    BY LenProperties DEF IInv, Types, StripeTypes
  <2> QED
    BY <1>2, <2>1
<1>9. MessagesAreTold'
  <2> SUFFICES ASSUME NEW d \in EventIds
               PROVE  /\ messages'[d] <= 1
                      /\ messages'[d] > 0 => d <= Len(events)
                      /\ messages'[d] > 0 /\ events[d].kind = "paid" => purchase.exists
    BY <1>3 DEF MessagesAreTold
  <2>1. CASE d = e
    BY <1>2, <1>7, <1>8, <2>1
  <2>2. CASE d # e
    BY <1>7, <2>2 DEF IInv, MessagesAreTold
  <2> QED
    BY <2>1, <2>2
<1> QED
  BY <1>7, <1>9

LEMMA AllServed ==
    ASSUME IInv, StripeTypes', Later, NEW w \in Workers, Handles(w)
    PROVE  RequestsAreServed'
<1> SUFFICES ASSUME NEW v \in Workers PROVE Serving(v)'
  BY DEF RequestsAreServed
<1>1. CASE v = w
  BY <1>1 DEF Handles
<1>2. CASE v # w
  <2>1. req'[v] = req[v] /\ Leaves(v) /\ (purchase.exists => purchase'.exists)
    BY <1>2 DEF Handles, OnlyMoves
  <2> QED
    BY <2>1, OthersServed DEF Leaves
<1> QED
  BY <1>1, <1>2

\* What a Worker does.
WorkerStep(w) ==
    \/ \E e \in EventIds : Deliver(w, e)
    \/ EventStep(w)
    \/ StartCheckout(w) \/ ListSubscriptions(w) \/ CreateSession(w)
    \/ CheckoutFails(w) \/ WorkerDies(w)

LEMMA Counted ==
    ASSUME OtherTypes, Fault \/ UNCHANGED faults
    PROVE  faults' \in 0 .. MaxFaults
  BY StripeLedgerAssumption DEF OtherTypes, Fault

LEMMA EventsClaimed ==
    ASSUME IInv, NEW w \in Workers, WorkerStep(w)
    PROVE  /\ claim' \in [EventIds -> {"absent", "claimed", "lapsed", "processed"}]
           /\ acked' \subseteq EventIds /\ faults' \in 0 .. MaxFaults
           /\ UNCHANGED messages \/ Notify(w)
<1>0. OtherTypes
  BY DEF IInv, Types
<1>1. CASE \E e \in EventIds : Deliver(w, e)
  BY <1>0, <1>1, Counted DEF Deliver, OtherTypes
<1>2. CASE FinishEvent(w) \/ AbandonEvent(w)
  <2>1. req[w].e \in EventIds
    BY <1>2, Handling DEF FinishEvent, AbandonEvent, At, Handlers, PlainPcs
  <2>2. claim' \in [EventIds -> {"absent", "claimed", "lapsed", "processed"}]
    BY <1>0, <1>2, <2>1 DEF FinishEvent, AbandonEvent, OtherTypes
  <2>3. acked' \subseteq EventIds /\ (Fault \/ UNCHANGED faults) /\ UNCHANGED messages
    BY <1>0, <1>2, <2>1 DEF FinishEvent, AbandonEvent, OtherTypes
  <2> QED
    BY <1>0, <2>2, <2>3, Counted
<1>3. ASSUME UNCHANGED <<claim, acked>>, Fault \/ UNCHANGED faults,
             UNCHANGED messages \/ Notify(w)
      PROVE  /\ claim' \in [EventIds -> {"absent", "claimed", "lapsed", "processed"}]
             /\ acked' \subseteq EventIds /\ faults' \in 0 .. MaxFaults
             /\ UNCHANGED messages \/ Notify(w)
  BY <1>0, <1>3, Counted DEF OtherTypes
<1>4. CASE \/ RecordPurchase(w) \/ BeginSync(w) \/ ReadPurchase(w) \/ PublishPurchase(w)
           \/ AbandonSync(w) \/ ReadSubscription(w) \/ PersistSubscription(w) \/ ReadRefunds(w)
  BY <1>3, <1>4 DEF RecordPurchase, BeginSync, ReadPurchase, PublishPurchase, AbandonSync,
                    ReadSubscription, PersistSubscription, ReadRefunds
<1>5. CASE \/ ReadRow(w) \/ RevokePeriod(w) \/ ReleaseLease(w) \/ Unlock(w) \/ Notify(w)
           \/ AcquireLease(w) \/ GiveUpLease(w) \/ CallFails(w)
  BY <1>3, <1>5 DEF ReadRow, RevokePeriod, ReleaseLease, Unlock, Notify, AcquireLease, GiveUpLease,
                    CallFails
<1>6. CASE \/ StartCheckout(w) \/ ListSubscriptions(w) \/ CreateSession(w)
           \/ CheckoutFails(w) \/ WorkerDies(w)
  BY <1>3, <1>6 DEF StartCheckout, ListSubscriptions, CreateSession, CheckoutFails, WorkerDies
<1> QED
  BY <1>1, <1>2, <1>4, <1>5, <1>6 DEF WorkerStep, EventStep

LEMMA WorkersMove ==
    ASSUME IInv, NEW w \in Workers, WorkerStep(w)
    PROVE  IInv'
<1>1. /\ Handles(w) /\ CheckoutsAreLocked' /\ UNCHANGED <<product, paid, sub, events>>
      /\ SessionsStay
      /\ session' \in [Tokens -> {"none", "open", "paid", "expired", "lost"}]
  <2>1. session \in [Tokens -> {"none", "open", "paid", "expired", "lost"}]
    BY DEF IInv, Types, StripeTypes
  <2>2. ASSUME Handles(w), CheckoutsAreLocked', UNCHANGED stripe
        PROVE  /\ Handles(w) /\ CheckoutsAreLocked' /\ UNCHANGED <<product, paid, sub, events>>
               /\ SessionsStay
               /\ session' \in [Tokens -> {"none", "open", "paid", "expired", "lost"}]
    BY <2>1, <2>2 DEF stripe, SessionsStay
  <2>3. CASE \E e \in EventIds : Deliver(w, e)
    <3>1. PICK e \in EventIds : Deliver(w, e)
      BY <2>3
    <3>2. Handles(w) /\ ~InCheckout(w)' /\ UNCHANGED stripe /\ UNCHANGED lock
          /\ UNCHANGED <<sub, session>>
      BY <3>1, Delivered DEF Deliver, stripe, books
    <3>3. CheckoutsAreLocked'
      BY <3>2, HandlersLeaveLocks DEF Handles
    <3> QED
      BY <2>2, <3>2, <3>3
  <2>4. CASE EventStep(w)
    BY <2>2, <2>4, EventsHandled, EventsLeaveLocks
  <2>5. CASE StartCheckout(w) \/ ListSubscriptions(w)
    BY <2>2, <2>5, CheckoutStarted, SubscriptionsListed
  <2>6. CASE CreateSession(w) \/ CheckoutFails(w) \/ WorkerDies(w)
    BY <2>6, SessionCreated, BrokenOff
  <2> QED
    BY <2>3, <2>4, <2>5, <2>6 DEF WorkerStep
<1>2. StripeTypes' /\ Later /\ EventsAreTold'
  BY <1>1, StripeStays
<1>3. RequestsAreServed'
  BY <1>1, <1>2, AllServed
<1>4. MessagesAreTold' /\ messages' \in [EventIds -> Nat]
  <2>1. CASE Notify(w)
    BY <2>1, MessageShown
  <2>2. CASE UNCHANGED messages
    <3>1. messages' \in [EventIds -> Nat] /\ (purchase.exists => purchase'.exists)
      BY <1>1, <2>2 DEF Handles, IInv, Types, OtherTypes
    <3> QED
      BY <1>2, <2>2, <3>1, MessagesStay
  <2> QED
    BY <2>1, <2>2, EventsClaimed
<1>5. OtherTypes'
  BY <1>1, <1>4, EventsClaimed DEF Handles, OnlyMoves, OtherTypes
<1> QED
  BY <1>1, <1>2, <1>3, <1>4, <1>5 DEF Handles, IInv, Types

-------------------------------------------------------------------------------
(* Stripe's steps, and those of time.                                       *)

\* A step that is no Worker's leaves every request served.
LEMMA NobodyMoves ==
    ASSUME IInv, StripeTypes', Later, UNCHANGED req, purchase.exists => purchase'.exists,
           \A v \in Workers : Leaves(v)
    PROVE  RequestsAreServed'
<1> SUFFICES ASSUME NEW v \in Workers PROVE Serving(v)'
  BY DEF RequestsAreServed
<1> QED
  BY OthersServed DEF Leaves

LEMMA StripeKeeps ==
    ASSUME IInv, StripeStep
    PROVE  IInv'
<1>1. UNCHANGED <<acked, claim, purchase, row, subLease, late, lock, messages, req, faults>>
  BY DEF StripeStep, PayOnce, DisputePurchase, PaySession, ExpireSession, ChangeSubscription,
         RefundPeriod, books
<1>2. /\ StripeTypes' /\ Later /\ EventsAreTold' /\ BooksAreBehind'
      /\ CheckoutsAreLocked'
  BY StripeMoves
<1>3. RequestsAreServed'
  BY <1>1, <1>2, BooksLeft, NobodyMoves
<1>4. MessagesAreTold'
  BY <1>1, <1>2, MessagesStay
<1>5. BookTypes' /\ OtherTypes'
  BY <1>1 DEF IInv, Types, BookTypes, OtherTypes
<1> QED
  BY <1>2, <1>3, <1>4, <1>5 DEF IInv, Types

TimeStep ==
    \/ \E e \in EventIds : DeliverAgain(e) \/ ClaimLapses(e)
    \/ SyncLapses
    \/ \E t \in Tokens : LeaseLapses(t)
    \/ LockLapses

LEMMA TimePasses ==
    ASSUME IInv, TimeStep
    PROVE  IInv'
<1>0. UNCHANGED stripe /\ UNCHANGED <<product, paid, sub, session, events, row, req, messages>>
  BY DEF TimeStep, DeliverAgain, ClaimLapses, SyncLapses, LeaseLapses, LockLapses, stripe, books
<1>1. StripeTypes' /\ Later /\ EventsAreTold'
  BY <1>0, StripeStays DEF SessionsStay, IInv, Types, StripeTypes
<1>2. OtherTypes'
  <2>1. Fault \/ UNCHANGED faults
    BY DEF TimeStep, DeliverAgain, ClaimLapses, SyncLapses, LeaseLapses, LockLapses
  <2>2. OtherTypes
    BY DEF IInv, Types
  <2>3. acked' \subseteq EventIds
    BY <2>2 DEF TimeStep, DeliverAgain, ClaimLapses, SyncLapses, LeaseLapses, LockLapses,
                OtherTypes
  <2>4. claim' \in [EventIds -> {"absent", "claimed", "lapsed", "processed"}]
    BY <2>2 DEF TimeStep, DeliverAgain, ClaimLapses, SyncLapses, LeaseLapses, LockLapses,
                OtherTypes
  <2> QED
    BY <1>0, <2>1, <2>2, <2>3, <2>4, Counted DEF OtherTypes
<1>3. ASSUME BookTypes', BooksAreBehind', CheckoutsAreLocked',
             purchase.exists => purchase'.exists, \A v \in Workers : Leaves(v)
      PROVE  IInv'
  BY <1>0, <1>1, <1>2, <1>3, NobodyMoves, MessagesStay DEF IInv, Types
<1>4. \A v \in Workers : InCheckout(v)' <=> InCheckout(v)
  BY <1>0 DEF InCheckout, At
<1>5. UNCHANGED lock => CheckoutsAreLocked'
  BY <1>0, <1>4, LocksHeld
<1>6. CASE \E e \in EventIds : DeliverAgain(e) \/ ClaimLapses(e)
  <2>1. UNCHANGED <<purchase, row, subLease, late, lock>>
    BY <1>6 DEF DeliverAgain, ClaimLapses, books
  <2>2. BookTypes' /\ BooksAreBehind'
    BY <1>0, <2>1, BooksStay DEF IInv, Types, BookTypes
  <2> QED
    BY <1>3, <1>5, <2>1, <2>2, BooksLeft
<1>7. CASE SyncLapses
  <2>1. UNCHANGED <<row, subLease, late, lock>> /\ purchase' = [purchase EXCEPT !.lapsed = TRUE]
    BY <1>7 DEF SyncLapses
  <2>2. /\ purchase' \in Purchases /\ purchase'.exists = purchase.exists
        /\ purchase'.version = purchase.version /\ purchase'.sync = purchase.sync
    BY <2>1 DEF IInv, Types, BookTypes, Purchases
  <2>3. \A v \in Workers : Leaves(v)
    BY <2>1, <2>2 DEF Leaves
  <2>4. BookTypes' /\ BooksAreBehind'
    BY <1>0, <2>1, <2>2, BooksStay DEF IInv, Types, BookTypes
  <2> QED
    BY <1>3, <1>5, <2>1, <2>2, <2>3, <2>4
<1>8. CASE \E t \in Tokens : LeaseLapses(t)
  <2>1. PICK t \in Tokens : LeaseLapses(t)
    BY <1>8
  <2>2. UNCHANGED <<purchase, row, late, lock>> /\ subLease' = [subLease EXCEPT ![t] = Nobody]
    BY <2>1 DEF LeaseLapses
  <2>3. /\ subLease' \in [Tokens -> Anyone]
        /\ \A u \in Tokens : subLease'[u] \in {subLease[u], Nobody}
    BY <2>2 DEF IInv, Types, BookTypes, Anyone
  <2>4. ASSUME NEW v \in Workers PROVE Leaves(v)
    <3>1. req[v].pc = "persist" => T(v) \in Tokens
      BY UnderItsLease DEF LeasePcs
    <3> QED
      BY <2>2, <2>3, <3>1, StripeLedgerAssumption DEF Leaves
  <2>5. BookTypes' /\ BooksAreBehind'
    BY <1>0, <2>2, <2>3, BooksStay DEF IInv, Types, BookTypes
  <2> QED
    BY <1>3, <1>5, <2>2, <2>4, <2>5
<1>9. CASE LockLapses
  <2>1. /\ UNCHANGED <<purchase, row, subLease, late>> /\ lock' = NoToken
        /\ session[lock] \in {"paid", "expired", "lost"}
    BY <1>9 DEF LockLapses
  <2>2. BookTypes' /\ BooksAreBehind'
    BY <1>0, <2>1, BooksStay DEF IInv, Types, BookTypes
  <2>3. CheckoutsAreLocked'
    <3>1. \A v \in Workers : ~InCheckout(v)
      BY <2>1 DEF IInv, CheckoutsAreLocked
    <3> QED
      BY <1>0, <1>4, <2>1, <3>1, LocksHeld
  <2> QED
    BY <1>3, <2>1, <2>2, <2>3, BooksLeft
<1> QED
  BY <1>6, <1>7, <1>8, <1>9 DEF TimeStep

-------------------------------------------------------------------------------
(* The invariant.                                                           *)

LEMMA InitTypes ==
    ASSUME Init
    PROVE  Types
<1>1. StripeTypes
  <2>1. NoSub \in Subscriptions
    BY DEF NoSub, Subscriptions, SubStatuses
  <2>2. <<>> \in Seq(Happenings) /\ Len(<<>>) = 0
    OBVIOUS
  <2> QED
    BY <2>1, <2>2, StripeLedgerAssumption DEF Init, StripeTypes
<1>2. BookTypes
  <2>1. NoRow \in SubRows
    BY DEF NoRow, SubRows, SubStatuses
  <2>2. purchase \in Purchases
    BY DEF Init, Purchases, Anyone
  <2> QED
    BY <2>1, <2>2 DEF Init, BookTypes, Anyone
<1>3. OtherTypes
  BY StripeLedgerAssumption DEF Init, OtherTypes, Reqs
<1> QED
  BY <1>1, <1>2, <1>3 DEF Types

LEMMA Start ==
    ASSUME Init
    PROVE  IInv
<1>1. Types
  BY InitTypes
<1>2. EventsAreTold
  BY DEF Init, EventsAreTold
<1>3. BooksAreBehind
  BY DEF Init, BooksAreBehind, NoSub, NoRow
<1>4. \A w \in Workers : req[w].pc = "idle"
  BY DEF Init, Idle
<1>5. RequestsAreServed
  <2>1. "idle" \notin Handlers
    BY DEF Handlers, LeasePcs, PlainPcs
  <2> QED
    BY <1>4, <2>1 DEF RequestsAreServed, Serving
<1>6. CheckoutsAreLocked
  <2>1. Contracts = {}
    BY DEF Init, Contracts, NoSub, Terminal
  <2>2. \A w \in Workers : ~InCheckout(w) /\ ~At(w, "create")
    BY <1>4 DEF InCheckout, At
  <2> QED
    BY <2>1, <2>2 DEF Init, CheckoutsAreLocked
<1>7. MessagesAreTold
  BY DEF Init, MessagesAreTold
<1> QED
  BY <1>1, <1>2, <1>3, <1>5, <1>6, <1>7 DEF IInv

LEMMA Steps ==
    ASSUME Next
    PROVE  StripeStep \/ TimeStep \/ \E w \in Workers : WorkerStep(w)
  BY DEF Next, TimeStep, WorkerStep, EventStep, HandlerStep

LEMMA Inductive ==
    ASSUME IInv, [Next]_vars
    PROVE  IInv'
<1>1. CASE Next
  BY <1>1, Steps, StripeKeeps, TimePasses, WorkersMove
<1>2. CASE UNCHANGED vars
  <2>1. UNCHANGED <<product, paid, sub, session, events, acked, claim, purchase, row,
                    subLease, late, lock, messages, req, faults>>
    BY <1>2 DEF vars
  <2>2. Types'
    BY <2>1 DEF IInv, Types, StripeTypes, BookTypes, OtherTypes
  <2>3. EventsAreTold' /\ BooksAreBehind'
    BY <2>1 DEF IInv, EventsAreTold, Told, BooksAreBehind
  <2>4. RequestsAreServed'
    BY <2>1 DEF IInv, RequestsAreServed, Serving
  <2>5. CheckoutsAreLocked' /\ MessagesAreTold'
    BY <2>1 DEF IInv, CheckoutsAreLocked, MessagesAreTold, InCheckout, At, Contracts
  <2> QED
    BY <2>2, <2>3, <2>4, <2>5 DEF IInv
<1> QED
  BY <1>1, <1>2

\* What holds between any two steps of Stripe, the Workers, their customer and
\* time: an event tells of something Stripe keeps, the books are behind Stripe,
\* a lease protects the row for as long as it is its holder's own, which nothing
\* in the code makes it be until the row is written, and the lock protects the
\* one checkout or session that may become a contract.
THEOREM Invariant == Spec => []IInv
<1>1. Init => IInv
  BY Start
<1>2. IInv /\ [Next]_vars => IInv'
  BY Inductive
<1> QED
  BY <1>1, <1>2, PTL DEF Spec

-------------------------------------------------------------------------------
(* What follows from it.                                                    *)

LEMMA TypesFollow ==
    ASSUME IInv
    PROVE  TypeOK
<1>1. purchase \in Purchases /\ purchase.version <= paid.version
      /\ paid \in [done : BOOLEAN, blocked : BOOLEAN, version : Nat]
  BY DEF IInv, Types, BookTypes, StripeTypes, BooksAreBehind
<1>2. /\ purchase.sync \in Workers \cup {Nobody} /\ purchase.exists \in BOOLEAN
      /\ purchase.version \in Nat /\ paid.version \in Nat
  BY <1>1 DEF Purchases, Anyone
<1>3. purchase.version \in 0 .. paid.version
  BY <1>1, <1>2
<1>4. ASSUME NEW t \in Tokens
      PROVE  /\ row[t].status \in {"none", "active", "past_due", "canceled"}
             /\ row[t].period \in Periods \cup {0} /\ row[t].revoked \in 0 .. sub[t].period
             /\ row[t].version <= sub[t].version
             /\ subLease[t] \in Workers \cup {Nobody}
  <2>1. row[t] \in SubRows /\ subLease[t] \in Anyone /\ sub[t] \in Subscriptions
    BY DEF IInv, Types, BookTypes, StripeTypes
  <2>2. row[t].version <= sub[t].version /\ row[t].revoked <= sub[t].period
    BY DEF IInv, BooksAreBehind
  <2> QED
    BY <2>1, <2>2, RowType, SubType DEF SubStatuses, Anyone
<1>5. /\ \A e \in EventIds : claim[e] \in {"absent", "claimed", "lapsed", "processed"}
      /\ lock \in Tokens \cup {NoToken}
      /\ late.rows \subseteq Tokens /\ late.marks \subseteq Tokens
      /\ acked \subseteq EventIds /\ faults \in 0 .. MaxFaults
  BY DEF IInv, Types, OtherTypes, BookTypes
<1> QED
  BY <1>2, <1>3, <1>4, <1>5 DEF TypeOK

\* The tables keep their types: a lease and a claim are somebody's, and the
\* books are never of a version that Stripe has not come to.
THEOREM TablesHold == Spec => []TypeOK
<1>1. IInv => TypeOK
  BY TypesFollow
<1> QED
  BY <1>1, Invariant, PTL

LEMMA AtMostOne ==
    ASSUME NEW S, \A x, y \in S : x = y
    PROVE  Cardinality(S) <= 1
<1>1. CASE S = {}
  BY <1>1, FS_EmptySet
<1>2. CASE S # {}
  <2>1. PICK x \in S : TRUE
    BY <1>2
  <2>2. S = {x}
    BY <2>1
  <2> QED
    BY <2>2, FS_Singleton
<1> QED
  BY <1>1, <1>2

LEMMA OneContract ==
    ASSUME IInv
    PROVE  OneMonthlyContract
<1> DEFINE S == Contracts \cup {t \in Tokens : session[t] = "open"}
<1>1. ASSUME NEW t \in S, NEW u \in S PROVE t = u
  <2>1. /\ \A a \in Tokens : session[a] = "open" => lock = a /\ Contracts = {}
        /\ \A a, b \in Contracts : a = b
    BY DEF IInv, CheckoutsAreLocked
  <2> QED
    BY <2>1
<1> QED
  BY <1>1, AtMostOne DEF OneMonthlyContract

\* A customer has one monthly contract at most, and none beside a session that
\* could still be paid, whatever is clicked, lost, late or repeated: a checkout
\* holds billing_checkout_locks before it asks Stripe for the contracts there
\* are, and the lock goes only when its session can no longer be paid.
THEOREM CustomersHaveOneContract == Spec => []OneMonthlyContract
<1>1. IInv => OneMonthlyContract
  BY OneContract
<1> QED
  BY <1>1, Invariant, PTL

\* A payment is announced once, and not before its purchase is recorded: every
\* try for an event carries the key of the event.
THEOREM PaymentsAreAnnouncedOnce == Spec => []AnnouncedOnce
<1>1. IInv => AnnouncedOnce
  BY DEF IInv, MessagesAreTold, AnnouncedOnce
<1> QED
  BY <1>1, Invariant, PTL

\* A purchase is written by the claim it was read under, or not at all; a row
\* goes back only where a Worker writes it that has the lease no more, or once
\* more after one did.
LEMMA BooksGoOn ==
    ASSUME IInv, [Next]_vars
    PROVE  /\ purchase'.version >= purchase.version
           /\ \A t \in Tokens :
                 row'[t].version >= row[t].version \/ t \in late.rows \cup late'.rows
<1>0. /\ purchase \in Purchases /\ purchase.version \in Nat
      /\ row \in [Tokens -> SubRows] /\ \A t \in Tokens : row[t].version \in Nat
  BY RowType DEF IInv, Types, BookTypes, Purchases
<1>1. CASE \E w \in Workers : PublishPurchase(w) /\ HoldsSync(w)
  <2>1. PICK w \in Workers : PublishPurchase(w) /\ HoldsSync(w)
    BY <1>1
  <2>2. /\ req[w].pc = "publish" /\ purchase.sync = w /\ row' = row
        /\ purchase' = [purchase EXCEPT !.blocked = req[w].snap.blocked,
                                        !.version = req[w].snap.version,
                                        !.sync = Nobody, !.lapsed = FALSE]
    BY <2>1 DEF PublishPurchase, HoldsSync, At
  <2>3. /\ purchase.version <= req[w].snap.version /\ req[w].snap \in PaymentsRead
    BY <2>2 DEF IInv, RequestsAreServed, Serving, Handlers
  <2>4. purchase'.version = req[w].snap.version /\ req[w].snap.version \in Nat
    BY <1>0, <2>2, <2>3 DEF Purchases, PaymentsRead
  <2> QED
    BY <1>0, <2>2, <2>3, <2>4
<1>2. CASE \E w \in Workers : PersistSubscription(w)
  <2>1. PICK w \in Workers : PersistSubscription(w)
    BY <1>2
  <2> DEFINE t == T(w)
             s == req[w].snap
             x == [row[t] EXCEPT !.status = s.status, !.period = s.period, !.version = s.version]
  <2>2. /\ req[w].pc = "persist" /\ req[w].pc \in LeasePcs /\ req[w].pc \in Handlers
        /\ purchase' = purchase
    BY <2>1 DEF PersistSubscription, At, LeasePcs, Handlers
  <2>3. t \in Tokens
    BY <2>2, UnderItsLease
  <2>4. row' = [row EXCEPT ![t] = x]
    BY <1>0, <2>1, <2>3 DEF PersistSubscription
  <2>5. /\ s \in SubsRead /\ row[t] \in SubRows
        /\ subLease[t] = w /\ t \notin late.rows => row[t].version <= s.version
    BY <1>0, <2>2, <2>3 DEF IInv, RequestsAreServed, Serving, Event, T
  <2>8. subLease[t] # w => t \in late'.rows
    <3>1. late' = [late EXCEPT !.rows = IF subLease[t] = w THEN @ \ {t} ELSE @ \cup {t}]
      BY <2>1 DEF PersistSubscription, HoldsLease
    <3>2. late \in [rows : SUBSET Tokens, marks : SUBSET Tokens]
      BY DEF IInv, Types, BookTypes
    <3> QED
      BY <3>1, <3>2
  <2> HIDE DEF t, s
  <2>6. x.version = s.version /\ s.version \in Nat
    BY <2>5 DEF SubRows, SubsRead
  <2> HIDE DEF x
  <2>7. \A u \in Tokens : row'[u] = IF u = t THEN x ELSE row[u]
    BY <1>0, <2>3, <2>4
  <2> QED
    BY <1>0, <2>2, <2>5, <2>6, <2>7, <2>8
<1>3. CASE UNCHANGED purchase.version /\ \A t \in Tokens : row'[t].version = row[t].version
  BY <1>0, <1>3
<1>4. CASE \E w \in Workers : RevokePeriod(w)
  <2>1. PICK w \in Workers : RevokePeriod(w)
    BY <1>4
  <2>2. purchase' = purchase /\ req[w].pc \in LeasePcs
    BY <2>1 DEF RevokePeriod, At, LeasePcs
  <2>3. T(w) \in Tokens
    BY <2>2, UnderItsLease
  <2>4. \E n : row' = [row EXCEPT ![T(w)].revoked = n]
    BY <2>1 DEF RevokePeriod
  <2>5. \A t \in Tokens : row'[t].version = row[t].version
    BY <1>0, <2>3, <2>4 DEF SubRows
  <2> QED
    BY <1>3, <2>2, <2>5
<1>5. CASE UNCHANGED row /\ (UNCHANGED purchase \/ purchase'.version = purchase.version)
  BY <1>3, <1>5
<1>6. CASE UNCHANGED vars \/ StripeStep \/ TimeStep
  <2>1. UNCHANGED row /\ \/ UNCHANGED purchase
                         \/ purchase' = [purchase EXCEPT !.lapsed = TRUE]
    BY <1>6 DEF vars, StripeStep, PayOnce, DisputePurchase, PaySession, ExpireSession,
           ChangeSubscription, RefundPeriod, TimeStep, DeliverAgain, ClaimLapses, SyncLapses,
           LeaseLapses, LockLapses, books
  <2> QED
    BY <1>0, <1>5, <2>1 DEF Purchases
<1>7. ASSUME NEW w \in Workers, WorkerStep(w), ~PersistSubscription(w), ~RevokePeriod(w),
             ~(PublishPurchase(w) /\ HoldsSync(w))
      PROVE  UNCHANGED row /\ (UNCHANGED purchase \/ purchase'.version = purchase.version)
  <2>1. CASE RecordPurchase(w) \/ BeginSync(w) \/ AbandonSync(w)
    <3>1. UNCHANGED row
          /\ \/ UNCHANGED purchase
             \/ purchase' = [purchase EXCEPT !.exists = TRUE]
             \/ \E v \in Anyone : purchase' = [purchase EXCEPT !.sync = v, !.lapsed = FALSE]
      BY <2>1 DEF RecordPurchase, BeginSync, AbandonSync, Anyone
    <3> QED
      BY <1>0, <3>1 DEF Purchases
  <2>2. CASE \/ ReadPurchase(w) \/ PublishPurchase(w) \/ ReadSubscription(w) \/ ReadRefunds(w)
             \/ ReadRow(w) \/ ReleaseLease(w) \/ Unlock(w) \/ Notify(w) \/ FinishEvent(w)
             \/ AbandonEvent(w)
    BY <1>7, <2>2 DEF ReadPurchase, PublishPurchase, ReadSubscription, ReadRefunds, ReadRow,
           ReleaseLease, Unlock, Notify, FinishEvent, AbandonEvent, books
  <2>3. CASE \/ AcquireLease(w) \/ GiveUpLease(w) \/ CallFails(w)
             \/ (\E e \in EventIds : Deliver(w, e))
    BY <2>3 DEF AcquireLease, GiveUpLease, CallFails, Deliver, books
  <2>4. CASE \/ StartCheckout(w) \/ ListSubscriptions(w) \/ CreateSession(w)
             \/ CheckoutFails(w) \/ WorkerDies(w)
    BY <2>4 DEF StartCheckout, ListSubscriptions, CreateSession, CheckoutFails, WorkerDies,
           books
  <2> QED
    BY <1>7, <2>1, <2>2, <2>3, <2>4 DEF WorkerStep, EventStep
<1> QED
  BY <1>1, <1>2, <1>4, <1>5, <1>6, <1>7, Steps

\* What is written about a purchase is never older than what was there, though
\* events come in any order and more than once, and a Worker may hold what it
\* read for as long as it likes: publishing asks for the claim that the read was
\* made under.  For a subscription there is no such question in upsertSubscription:
\* the theorem is that its row goes back only when a Worker writes it that has
\* outlived its lease of billing_subscription_sync_leases, or when the row such
\* a Worker wrote is written again.
THEOREM BooksGoForward == Spec => BooksNeverGoBack
<1>1. IInv /\ [Next]_vars => [/\ purchase'.version >= purchase.version
                              /\ \A t \in Tokens :
                                    row'[t].version >= row[t].version
                                       \/ t \in late.rows \cup late'.rows]_vars
  BY BooksGoOn
<1> QED
  BY <1>1, Invariant, PTL DEF Spec, BooksNeverGoBack
==============================================================================
