----------------------- MODULE UsageReservationProofs ------------------------
(***************************************************************************)
(* The reservation tables keep their types, and every step of every request*)
(* implements VideoAllowance, for any keys, purchases, Workers, lifetimes  *)
(* and limits.  What VideoAllowance promises then holds of the tables.     *)
(***************************************************************************)
EXTENDS UsageReservation, FiniteSetTheorems, WellFoundedInduction, TLAPS

USE DEF NoKey, NoPurchase

-------------------------------------------------------------------------------
(* What the statements make of a row.                                       *)

\* A nonempty set of purchases has an oldest one.
LEMMA OldestPurchase ==
    ASSUME NEW P \in SUBSET Purchases, P # {}
    PROVE  Min(P) \in P
<1>1. P \subseteq Nat
  BY ReservationAssumption
<1>2. PICK p \in P : \A q \in P : <<q, p>> \notin OpToRel(<, Nat)
  BY <1>1, NatLessThanWellFounded, WFMin
<1>3. \A q \in P : ~(q < p)
  <2> SUFFICES ASSUME NEW q \in P, q < p PROVE FALSE
    OBVIOUS
  <2>1. <<q, p>> \in Nat \X Nat /\ <<q, p>>[1] < <<q, p>>[2]
    BY <1>1
  <2>2. <<q, p>> \in {ss \in Nat \X Nat : ss[1] < ss[2]}
    BY <2>1
  <2>3. <<q, p>> \in OpToRel(<, Nat)
    BY <2>2, Zenon DEF OpToRel
  <2> QED
    BY <2>3, <1>2
<1>4. \A q \in P : p <= q
  BY <1>1, <1>3
<1> QED
  BY <1>4 DEF Min

\* Every statement writes a row of the table.
LEMMA StatementsWriteRows ==
    ASSUME TypeOK, NEW k \in Keys, NEW t \in 1 .. MaxTime
    PROVE  /\ rows[k].status # "absent" => Released(rows[k], t) \in Rows
           /\ SettledRow(k, t) \in Rows
           /\ \A live \in BOOLEAN : ReconciledRow(k, live, t) \in Rows
           /\ \A operator \in BOOLEAN : TombstoneRow(operator, t) \in Rows
           /\ \A bucket \in Buckets :
                 (bucket = "one_time" => OpenPurchases(k) # {})
                     => FundedRow(k, bucket, t) \in Rows
<1> USE ReservationAssumption
<1>1. rows[k] \in Rows
  BY DEF TypeOK
<1>2. \A row \in Rows : row.status # "absent" => Released(row, t) \in Rows
  <2> SUFFICES ASSUME NEW row \in Rows, row.status # "absent"
               PROVE  Released(row, t) \in Rows
    OBVIOUS
  <2>1. t \in Nat /\ t - 1 \in Nat /\ row.expires \in Nat
    BY DEF Rows
  <2>2. Min2(row.expires, t - 1) \in Nat
    BY <2>1 DEF Min2
  <2> DEFINE e == Min2(row.expires, t - 1)
  <2>3. e \in Nat
    BY <2>2
  <2>4. Released(row, t) = [row EXCEPT !.status = "released", !.expires = e]
    BY DEF Released
  <2> HIDE DEF e
  <2>5. [row EXCEPT !.status = "released", !.expires = e] \in Rows
    BY <2>3 DEF Rows, RowStatuses
  <2> QED
    BY <2>4, <2>5
<1>3. SettledRow(k, t) \in Rows
  BY <1>1, <1>2 DEF SettledRow
<1>4. \A live \in BOOLEAN : ReconciledRow(k, live, t) \in Rows
  <2>1. [rows[k] EXCEPT !.releaseRequested = TRUE] \in Rows
    BY <1>1 DEF Rows
  <2>2. rows[k].status = "reserved" =>
          [rows[k] EXCEPT !.releaseRequested = TRUE].status # "absent"
    BY <1>1 DEF Rows
  <2> QED
    BY <1>1, <1>2, <2>1, <2>2 DEF ReconciledRow
<1>5. \A operator \in BOOLEAN : TombstoneRow(operator, t) \in Rows
  BY DEF TombstoneRow, Rows, RowStatuses, Buckets
<1>6. ASSUME NEW bucket \in Buckets, bucket = "one_time" => OpenPurchases(k) # {}
      PROVE  FundedRow(k, bucket, t) \in Rows
  <2>1. OpenPurchases(k) \subseteq Purchases
    BY DEF OpenPurchases
  <2>2. bucket = "one_time" => Min(OpenPurchases(k)) \in Purchases
    BY <1>6, <2>1, OldestPurchase
  <2> QED
    BY <2>2 DEF FundedRow, Rows, RowStatuses
<1> QED
  BY <1>1, <1>2, <1>3, <1>4, <1>5, <1>6

\* chooseBillingBucket names a bucket, or none.
LEMMA ChosenBucket ==
    ASSUME NEW operator, NEW snapshot, NEW seconds
    PROVE  ChooseBillingBucket(operator, snapshot, seconds) \in Buckets \cup {NoBucket}
<1> DEFINE usable == CustomerBuckets(snapshot, seconds)
           first(i) == /\ PaymentOrder[i] \in usable
                       /\ \A j \in 1 .. (i - 1) : PaymentOrder[j] \notin usable
<1>1. usable \subseteq {"subscription", "one_time", "free"}
  BY DEF CustomerBuckets
<1>2. /\ PaymentOrder[1] = "subscription"
      /\ PaymentOrder[2] = "one_time"
      /\ PaymentOrder[3] = "free"
  BY DEF PaymentOrder
<1>3. ASSUME usable # {} PROVE \E i \in 1 .. 3 : first(i)
  <2> HIDE DEF usable
  <2>1. CASE "subscription" \in usable
    BY <2>1, <1>2
  <2>2. CASE "subscription" \notin usable /\ "one_time" \in usable
    BY <2>2, <1>2
  <2>3. CASE "subscription" \notin usable /\ "one_time" \notin usable
    <3>1. "free" \in usable
      BY <2>3, <1>1, <1>3, Zenon
    <3>2. \A j \in 1 .. 2 : PaymentOrder[j] \notin usable
      BY <2>3, <1>2
    <3> QED
      BY <3>1, <3>2, <1>2
  <2> QED
    BY <2>1, <2>2, <2>3
<1>4. ASSUME usable # {}
      PROVE  PaymentOrder[CHOOSE i \in 1 .. 3 : first(i)] \in Buckets
  <2> HIDE DEF first, usable
  <2>1. (CHOOSE i \in 1 .. 3 : first(i)) \in 1 .. 3
    BY <1>3, <1>4
  <2> QED
    <3>1. \A c \in 1 .. 3 : PaymentOrder[c] \in Buckets
      BY <1>2 DEF Buckets
    <3> QED
      BY <2>1, <3>1, Zenon
<1>5. CASE operator
  BY <1>5 DEF ChooseBillingBucket, Buckets
<1>6. CASE ~operator
  <2>1. CASE usable = {}
    BY <1>6, <2>1 DEF ChooseBillingBucket
  <2>2. CASE usable # {}
    BY <1>4, <1>6, <2>2, Zenon DEF ChooseBillingBucket
  <2> QED
    BY <2>1, <2>2
<1> QED
  BY <1>5, <1>6

\* The request a Worker is serving, once it has begun one.
LEMMA Serving ==
    ASSUME TypeOK, NEW w \in Workers, h[w].pc # "idle"
    PROVE  /\ h[w] \in Requests
           /\ h[w].key \in Keys
           /\ h[w].t \in 1 .. MaxTime
           /\ h[w].bucket \in Buckets \cup {NoBucket}
           /\ h[w].attempt \in 0 .. MaxAttempts
  BY DEF TypeOK, Idle, Requests

\* The ways a step moves a request on leave it a request.
LEMMA RequestMoves ==
    ASSUME TypeOK, NEW w \in Workers
    PROVE  /\ \A r \in Requests \cup {Idle} :
                 Become(w, r) => h' \in [Workers -> Requests \cup {Idle}]
           /\ Finish(w) => h' \in [Workers -> Requests \cup {Idle}]
           /\ \A pc \in Pcs :
                 h[w].pc # "idle" /\ Goto(w, pc)
                     => h' \in [Workers -> Requests \cup {Idle}]
           /\ \A pc \in Pcs, t \in 1 .. MaxTime :
                 h[w].pc # "idle" /\ GotoAt(w, pc, t)
                     => h' \in [Workers -> Requests \cup {Idle}]
<1>1. h \in [Workers -> Requests \cup {Idle}]
  BY DEF TypeOK
<1>2. \A r \in Requests \cup {Idle} :
          Become(w, r) => h' \in [Workers -> Requests \cup {Idle}]
  BY <1>1 DEF Become
<1>3. ASSUME h[w].pc # "idle"
      PROVE  \A pc \in Pcs, t \in 1 .. MaxTime :
                /\ [h[w] EXCEPT !.pc = pc] \in Requests
                /\ [h[w] EXCEPT !.pc = pc, !.t = t] \in Requests
  <2>1. \A r \in Requests, pc \in Pcs, t \in 1 .. MaxTime :
            /\ [r EXCEPT !.pc = pc] \in Requests
            /\ [r EXCEPT !.pc = pc, !.t = t] \in Requests
    BY DEF Requests
  <2> QED
    BY <1>3, <2>1, Serving
<1> QED
  <2>1. Finish(w) => h' \in [Workers -> Requests \cup {Idle}]
    BY <1>2 DEF Finish
  <2>2. \A pc \in Pcs :
          h[w].pc # "idle" /\ Goto(w, pc) => h' \in [Workers -> Requests \cup {Idle}]
    <3> SUFFICES ASSUME NEW pc \in Pcs, h[w].pc # "idle", Goto(w, pc)
                 PROVE  h' \in [Workers -> Requests \cup {Idle}]
      OBVIOUS
    <3>1. 1 \in 1 .. MaxTime
      BY ReservationAssumption
    <3>2. h' = [h EXCEPT ![w] = [h[w] EXCEPT !.pc = pc]]
      BY DEF Goto
    <3>3. [h[w] EXCEPT !.pc = pc] \in Requests
      BY <1>3, <3>1
    <3> QED
      BY <1>1, <3>2, <3>3
  <2>3. \A pc \in Pcs, t \in 1 .. MaxTime :
          h[w].pc # "idle" /\ GotoAt(w, pc, t)
              => h' \in [Workers -> Requests \cup {Idle}]
    <3> SUFFICES ASSUME NEW pc \in Pcs, NEW t \in 1 .. MaxTime, h[w].pc # "idle",
                        GotoAt(w, pc, t)
                 PROVE  h' \in [Workers -> Requests \cup {Idle}]
      OBVIOUS
    <3>1. h' = [h EXCEPT ![w] = [h[w] EXCEPT !.pc = pc, !.t = t]]
      BY DEF GotoAt
    <3>2. [h[w] EXCEPT !.pc = pc, !.t = t] \in Requests
      BY <1>3
    <3> QED
      BY <1>1, <3>1, <3>2
  <2> QED
    BY <1>2, <2>1, <2>2, <2>3

\* Writing one row, or settling them all, leaves a table of rows.
LEMMA RowWrites ==
    ASSUME TypeOK
    PROVE  /\ \A k \in Keys, row \in Rows : WriteRow(k, row) => rows' \in [Keys -> Rows]
           /\ \A t \in 1 .. MaxTime :
                 rows' = [k \in Keys |-> SettledRow(k, t)] => rows' \in [Keys -> Rows]
<1>1. \A t \in 1 .. MaxTime, k \in Keys : SettledRow(k, t) \in Rows
  BY StatementsWriteRows
<1> QED
  BY <1>1 DEF TypeOK, WriteRow

LEMMA CurrentSubType ==
    ASSUME TypeOK, NEW t
    PROVE  CurrentSub(t) \in Subs /\ NoSub \in Subs
  BY DEF TypeOK, CurrentSub, NoSub, Subs

LEMMA ReserveTypes ==
    ASSUME TypeOK, NEW w \in Workers, ReserveStep(w)
    PROVE  TypeOK'
<1> DEFINE k == h[w].key
           r == h[w]
<1> USE ReservationAssumption
<1>1. ASSUME ReserveReconcile(w) PROVE TypeOK'
  <2>1. h[w].pc # "idle"
    BY <1>1 DEF ReserveReconcile, At
  <2>2. ReconciledRow(k, LiveIntent(k, h[w].t), h[w].t) \in Rows
    <3>1. LiveIntent(k, r.t) \in BOOLEAN
      BY DEF LiveIntent
    <3>2. k \in Keys /\ r.t \in 1 .. MaxTime
      BY <2>1, Serving
    <3> QED
      BY <3>1, <3>2, StatementsWriteRows
  <2>3. rows' \in [Keys -> Rows]
    BY <1>1, <2>1, <2>2, Serving, RowWrites DEF ReserveReconcile
  <2>4. h' \in [Workers -> Requests \cup {Idle}]
    BY <1>1, RequestMoves DEF ReserveReconcile
  <2> QED
    BY <1>1, <2>3, <2>4 DEF ReserveReconcile, TypeOK, ledger
<1>2. ASSUME ReserveMaterialize(w) PROVE TypeOK'
  <2> DEFINE made == LiveIntent(k, r.t) /\ rows[k] = NoRow
             row == IF made THEN TombstoneRow(r.operator, r.t) ELSE rows[k]
  <2>1. h[w].pc # "idle"
    BY <1>2 DEF ReserveMaterialize, At
  <2>2. r \in Requests /\ k \in Keys /\ r.t \in 1 .. MaxTime /\ r.operator \in BOOLEAN
    BY <2>1, Serving DEF Requests
  <2>3. row \in Rows
    BY <2>2, StatementsWriteRows DEF TypeOK
  <2>4. rows' \in [Keys -> Rows]
    BY <1>2, <2>2, <2>3, RowWrites DEF ReserveMaterialize
  <2>5. CASE made \/ r.attempt = MaxAttempts
    <3>1. Finish(w)
      BY <1>2, <2>5 DEF ReserveMaterialize
    <3> QED
      BY <1>2, <2>4, <3>1, RequestMoves DEF ReserveMaterialize, TypeOK, ledger
  <2>6. CASE ~(made \/ r.attempt = MaxAttempts)
    <3> DEFINE next == [r EXCEPT !.pc = "reserveSettle", !.attempt = r.attempt + 1]
    <3>1. h' = [h EXCEPT ![w] = next]
      BY <1>2, <2>6 DEF ReserveMaterialize
    <3>2. r.attempt + 1 \in 0 .. MaxAttempts
      BY <2>1, <2>6, Serving
    <3>3. next \in Requests
      BY <2>2, <3>2 DEF Requests, Pcs
    <3>4. h' \in [Workers -> Requests \cup {Idle}]
      BY <3>1, <3>3 DEF TypeOK
    <3> QED
      BY <1>2, <2>4, <3>4 DEF ReserveMaterialize, TypeOK, ledger
  <2> QED
    BY <2>5, <2>6
<1>3. ASSUME ReserveSettle(w) PROVE TypeOK'
  <2>1. h[w].pc # "idle"
    BY <1>3 DEF ReserveSettle, At
  <2>2. now \in 1 .. MaxTime
    BY DEF TypeOK
  <2>3. rows' \in [Keys -> Rows]
    BY <1>3, <2>2, RowWrites DEF ReserveSettle
  <2>4. h' \in [Workers -> Requests \cup {Idle}]
    BY <1>3, <2>1, <2>2, RequestMoves DEF ReserveSettle, Pcs
  <2> QED
    BY <1>3, <2>3, <2>4 DEF ReserveSettle, TypeOK, ledger
<1>4. ASSUME ReserveChoose(w) PROVE TypeOK'
  <2> DEFINE bucket == ChooseBillingBucket(r.operator, BillingSnapshot(r.t), Duration[k])
             held == IF bucket = "subscription" THEN CurrentSub(r.t) ELSE NoSub
             next == [r EXCEPT !.pc = "reserveInsert", !.bucket = bucket,
                               !.held = held, !.t = now]
  <2>1. h[w].pc # "idle"
    BY <1>4 DEF ReserveChoose, At
  <2>2. bucket \in Buckets \cup {NoBucket}
    BY ChosenBucket
  <2>3. held \in Subs
    BY CurrentSubType
  <2>4. now \in 1 .. MaxTime
    BY DEF TypeOK
  <2>5. \/ Finish(w)
        \/ h' = [h EXCEPT ![w] = next]
    BY <1>4 DEF ReserveChoose
  <2> HIDE DEF bucket, held
  <2>6. next \in Requests
    <3>1. "reserveInsert" \in Pcs
      BY DEF Pcs
    <3>2. \A q \in Requests, b \in Buckets \cup {NoBucket}, s \in Subs,
             t \in 1 .. MaxTime :
            [q EXCEPT !.pc = "reserveInsert", !.bucket = b, !.held = s, !.t = t]
              \in Requests
      BY <3>1, ZenonT(60) DEF Requests
    <3> QED
      BY <2>1, <2>2, <2>3, <2>4, <3>2, Serving
  <2> HIDE DEF next
  <2>7. h' \in [Workers -> Requests \cup {Idle}]
    BY <2>5, <2>6, RequestMoves DEF TypeOK
  <2> QED
    BY <1>4, <2>7 DEF ReserveChoose, TypeOK, tables, ledger
<1>5. ASSUME ReserveInsert(w) PROVE TypeOK'
  <2> DEFINE inserted == CanInsert(k, r)
             row == IF inserted THEN FundedRow(k, r.bucket, r.t) ELSE rows[k]
             next == [r EXCEPT !.pc = "reserveRecheck", !.bucket = NoBucket, !.held = NoSub]
  <2>1. h[w].pc # "idle"
    BY <1>5 DEF ReserveInsert, At
  <2>2. inserted => /\ r.bucket \in Buckets
                    /\ r.bucket = "one_time" => OpenPurchases(k) # {}
    BY DEF CanInsert, CanFund, Buckets
  <2>3. row \in Rows
    BY <2>1, <2>2, Serving, StatementsWriteRows DEF TypeOK
  <2>4. rows' \in [Keys -> Rows]
    BY <1>5, <2>1, <2>3, Serving, RowWrites DEF ReserveInsert
  <2>5. next \in Requests
    <3>1. \A q \in Requests, s \in Subs :
            [q EXCEPT !.pc = "reserveRecheck", !.bucket = NoBucket, !.held = s]
              \in Requests
      BY DEF Requests, Pcs
    <3> QED
      BY <2>1, <3>1, Serving, CurrentSubType
  <2>6. \/ Finish(w)
        \/ h' = [h EXCEPT ![w] = next]
    BY <1>5 DEF ReserveInsert
  <2> HIDE DEF next
  <2>7. h' \in [Workers -> Requests \cup {Idle}]
    BY <2>5, <2>6, RequestMoves DEF TypeOK
  <2> QED
    BY <1>5, <2>4, <2>7 DEF ReserveInsert, TypeOK, ledger
<1>6. ASSUME ReserveRecheck(w) PROVE TypeOK'
  <2>1. h[w].pc # "idle" /\ now \in 1 .. MaxTime
    BY <1>6 DEF ReserveRecheck, At, TypeOK
  <2>2. h' \in [Workers -> Requests \cup {Idle}]
    BY <1>6, <2>1, RequestMoves DEF ReserveRecheck, Pcs
  <2> QED
    BY <1>6, <2>2 DEF ReserveRecheck, TypeOK, tables, ledger
<1> QED
  BY <1>1, <1>2, <1>3, <1>4, <1>5, <1>6 DEF ReserveStep

LEMMA RenewTypes ==
    ASSUME TypeOK, NEW w \in Workers, RenewStep(w)
    PROVE  TypeOK'
<1> DEFINE k == h[w].key
           r == h[w]
<1> USE ReservationAssumption
<1>0. \A row \in Rows, e \in Nat, b \in BOOLEAN :
          /\ [row EXCEPT !.expires = e] \in Rows
          /\ [row EXCEPT !.expires = e, !.releaseRequested = b] \in Rows
  BY DEF Rows
<1>1. ASSUME RenewCheckCompleted(w) PROVE TypeOK'
  <2>1. h[w].pc # "idle"
    BY <1>1 DEF RenewCheckCompleted, At
  <2>2. h' \in [Workers -> Requests \cup {Idle}]
    BY <1>1, <2>1, RequestMoves DEF RenewCheckCompleted, Pcs
  <2> QED
    BY <1>1, <2>2 DEF RenewCheckCompleted, TypeOK, tables, ledger
<1>2. ASSUME RenewExtendCompleted(w) PROVE TypeOK'
  <2> DEFINE e == Max2(rows[k].expires, r.t + Lifetime)
  <2>1. h[w].pc # "idle"
    BY <1>2 DEF RenewExtendCompleted, At
  <2>2. rows[k] \in Rows /\ rows[k].expires \in Nat /\ r.t + Lifetime \in Nat
    <3>1. k \in Keys /\ r.t \in 1 .. MaxTime
      BY <2>1, Serving
    <3>2. rows[k].expires \in Nat
      BY <3>1 DEF TypeOK, Rows
    <3>3. r.t + Lifetime \in Nat
      BY <3>1
    <3>4. rows[k] \in Rows
      BY <3>1 DEF TypeOK
    <3> QED
      BY <3>2, <3>3, <3>4
  <2>3. e \in Nat
    BY <2>2 DEF Max2
  <2>4. WriteRow(k, IF rows[k].status = "completed"
                      THEN [rows[k] EXCEPT !.expires = e] ELSE rows[k])
    BY <1>2 DEF RenewExtendCompleted
  <2> HIDE DEF e
  <2>5. rows' \in [Keys -> Rows]
    <3>1. [rows[k] EXCEPT !.expires = e] \in Rows
      BY <1>0, <2>2, <2>3
    <3> QED
      BY <2>1, <2>2, <2>4, <3>1, Serving, RowWrites
  <2>6. h' \in [Workers -> Requests \cup {Idle}]
    BY <1>2, RequestMoves DEF RenewExtendCompleted
  <2> QED
    BY <1>2, <2>5, <2>6 DEF RenewExtendCompleted, TypeOK, ledger
<1>3. ASSUME RenewSettle(w) PROVE TypeOK'
  <2>1. h[w].pc # "idle"
    BY <1>3 DEF RenewSettle, At
  <2>2. rows' \in [Keys -> Rows]
    BY <1>3, <2>1, Serving, RowWrites DEF RenewSettle
  <2>3. h' \in [Workers -> Requests \cup {Idle}]
    BY <1>3, <2>1, RequestMoves DEF RenewSettle, Pcs
  <2> QED
    BY <1>3, <2>2, <2>3 DEF RenewSettle, TypeOK, ledger
<1>4. ASSUME RenewChoose(w) PROVE TypeOK'
  <2> DEFINE bucket == ChooseBillingBucket(r.operator, BillingSnapshot(r.t), Duration[k])
             held == IF bucket = "subscription" THEN CurrentSub(r.t) ELSE NoSub
             pc == IF r.current /\ ~IsUpgrade(r.oldBucket, bucket)
                     THEN "renewExtend" ELSE "renewCheckLease"
             next == [r EXCEPT !.pc = pc, !.bucket = bucket, !.held = held]
  <2>1. h[w].pc # "idle"
    BY <1>4 DEF RenewChoose, At
  <2>2. bucket \in Buckets \cup {NoBucket}
    BY ChosenBucket
  <2>3. held \in Subs
    BY CurrentSubType
  <2>4. h' = [h EXCEPT ![w] = next]
    BY <1>4 DEF RenewChoose
  <2>5. pc \in Pcs
    BY DEF Pcs
  <2> HIDE DEF bucket, held, pc
  <2>6. next \in Requests
    <3>1. \A q \in Requests, p \in Pcs, b \in Buckets \cup {NoBucket}, s \in Subs :
            [q EXCEPT !.pc = p, !.bucket = b, !.held = s] \in Requests
      BY DEF Requests
    <3> QED
      BY <2>1, <2>2, <2>3, <2>5, <3>1, Serving
  <2> HIDE DEF next
  <2>7. h' \in [Workers -> Requests \cup {Idle}]
    BY <2>4, <2>6 DEF TypeOK
  <2> QED
    BY <1>4, <2>7 DEF RenewChoose, TypeOK, tables, ledger
<1>5. ASSUME RenewExtend(w) PROVE TypeOK'
  <2> DEFINE e == Max2(rows[k].expires, r.t + Lifetime)
             b == rows[k].releaseRequested /\ ~r.resume
  <2>1. h[w].pc # "idle"
    BY <1>5 DEF RenewExtend, At
  <2>2. /\ rows[k] \in Rows /\ rows[k].expires \in Nat /\ r.t + Lifetime \in Nat
        /\ rows[k].releaseRequested \in BOOLEAN /\ r.resume \in BOOLEAN
    BY <2>1, Serving DEF TypeOK, Rows, Requests
  <2>3. e \in Nat
    BY <2>2 DEF Max2
  <2>4. b \in BOOLEAN
    BY <2>2
  <2>5. \/ WriteRow(k, [rows[k] EXCEPT !.expires = e, !.releaseRequested = b])
        \/ WriteRow(k, rows[k])
    BY <1>5 DEF RenewExtend
  <2> HIDE DEF e, b
  <2>6. rows' \in [Keys -> Rows]
    <3>1. [rows[k] EXCEPT !.expires = e, !.releaseRequested = b] \in Rows
      BY <1>0, <2>2, <2>3, <2>4
    <3> QED
      BY <2>1, <2>2, <2>5, <3>1, Serving, RowWrites
  <2>7. h' \in [Workers -> Requests \cup {Idle}]
    BY <1>5, <2>1, RequestMoves DEF RenewExtend, Pcs
  <2>8. intents' = intents \/ intents' = [intents EXCEPT ![k] = NoIntent]
    BY <1>5 DEF RenewExtend
  <2> QED
    BY <1>5, <2>6, <2>7, <2>8 DEF RenewExtend, TypeOK, ledger, NoIntent
<1>6. ASSUME RenewCheckLease(w) PROVE TypeOK'
  <2>1. h[w].pc # "idle"
    BY <1>6 DEF RenewCheckLease, At
  <2>2. h' \in [Workers -> Requests \cup {Idle}]
    BY <1>6, <2>1, RequestMoves DEF RenewCheckLease, Pcs
  <2> QED
    BY <1>6, <2>2 DEF RenewCheckLease, TypeOK, tables, ledger
<1>7. ASSUME RenewReactivate(w) PROVE TypeOK'
  <2> DEFINE row == IF CanReactivate(k, r) THEN FundedRow(k, r.bucket, r.t) ELSE rows[k]
  <2>1. h[w].pc # "idle"
    BY <1>7 DEF RenewReactivate, At
  <2>2. CanReactivate(k, r) => /\ r.bucket \in Buckets
                               /\ r.bucket = "one_time" => OpenPurchases(k) # {}
    BY DEF CanReactivate, CanFund, Buckets
  <2>3. row \in Rows
    BY <2>1, <2>2, Serving, StatementsWriteRows DEF TypeOK
  <2>4. WriteRow(k, row)
    BY <1>7 DEF RenewReactivate
  <2>5. rows' \in [Keys -> Rows]
    BY <2>1, <2>3, <2>4, Serving, RowWrites
  <2>6. intents' = intents \/ intents' = [intents EXCEPT ![k] = NoIntent]
    BY <1>7 DEF RenewReactivate
  <2>7. h' \in [Workers -> Requests \cup {Idle}]
    BY <1>7, RequestMoves DEF RenewReactivate
  <2> QED
    BY <1>7, <2>5, <2>6, <2>7 DEF RenewReactivate, TypeOK, ledger, NoIntent
<1> QED
  BY <1>1, <1>2, <1>3, <1>4, <1>5, <1>6, <1>7 DEF RenewStep

LEMMA ReleaseTypes ==
    ASSUME TypeOK, NEW w \in Workers, ReleaseBatch(w)
    PROVE  TypeOK'
<1> DEFINE k == h[w].key
           t == h[w].t
           Table == [Keys -> [requested : Nat, expires : Nat]]
<1> USE ReservationAssumption
<1>1. k \in Keys /\ t \in 1 .. MaxTime /\ t \in Nat
  BY Serving DEF ReleaseBatch, At
<1>2. IntentsAfterRelease(k, t) \in Table
  <2> DEFINE kept == [j \in Keys |-> IF intents[j].expires < t THEN NoIntent
                                                               ELSE intents[j]]
             mine == IF kept[k] = NoIntent
                       THEN [requested |-> t, expires |-> t + IntentTTL]
                       ELSE [requested |-> Min2(kept[k].requested, t),
                             expires |-> Max2(kept[k].expires, t + IntentTTL)]
  <2>1. kept \in Table
    BY DEF TypeOK, NoIntent
  <2>2. mine \in [requested : Nat, expires : Nat]
    <3>1. kept[k].requested \in Nat /\ kept[k].expires \in Nat
      BY <1>1, <2>1
    <3>2. t + IntentTTL \in Nat
      BY <1>1
    <3> HIDE DEF kept
    <3>3. /\ Min2(kept[k].requested, t) \in Nat
          /\ Max2(kept[k].expires, t + IntentTTL) \in Nat
      BY <1>1, <3>1, <3>2 DEF Min2, Max2
    <3> QED
      BY <1>1, <3>2, <3>3
  <2> HIDE DEF kept, mine
  <2>3. [kept EXCEPT ![k] = mine] \in Table
    BY <2>1, <2>2
  <2>4. \A table \in Table : KeepNewest(table) \in Table
    BY DEF KeepNewest, NoIntent
  <2>5. IntentsAfterRelease(k, t) = KeepNewest([kept EXCEPT ![k] = mine])
    BY DEF IntentsAfterRelease, kept, mine
  <2> HIDE DEF Table
  <2> QED
    BY <2>3, <2>4, <2>5
<1>3. rows' \in [Keys -> Rows]
  <2>1. (intents'[k].expires >= t) \in BOOLEAN
    OBVIOUS
  <2>2. WriteRow(k, ReconciledRow(k, intents'[k].expires >= t, t))
    BY DEF ReleaseBatch
  <2>3. ReconciledRow(k, intents'[k].expires >= t, t) \in Rows
    BY <1>1, <2>1, StatementsWriteRows
  <2> QED
    BY <1>1, <2>2, <2>3, RowWrites
<1>4. h' \in [Workers -> Requests \cup {Idle}]
  BY RequestMoves DEF ReleaseBatch
<1> QED
  BY <1>2, <1>3, <1>4 DEF ReleaseBatch, TypeOK, ledger

LEMMA AiTypes ==
    ASSUME TypeOK, NEW w \in Workers, AiStep(w)
    PROVE  TypeOK'
<1> DEFINE k == h[w].key
           t == h[w].t
<1> USE ReservationAssumption
<1>1. ASSUME AiAcquire(w) PROVE TypeOK'
  <2>1. h[w].pc # "idle"
    BY <1>1 DEF AiAcquire, At
  <2>2. k \in Keys /\ t + LeaseTTL \in Nat
    BY <2>1, Serving
  <2>3. \/ leases' = leases
        \/ leases' = [leases EXCEPT ![k] = [holder |-> w, expires |-> t + LeaseTTL]]
    BY <1>1 DEF AiAcquire
  <2>4. h' \in [Workers -> Requests \cup {Idle}]
    BY <1>1, <2>1, RequestMoves DEF AiAcquire, Pcs
  <2> QED
    BY <1>1, <2>2, <2>3, <2>4 DEF AiAcquire, TypeOK, ledger
<1>2. ASSUME AiBlock(w) PROVE TypeOK'
  <2>1. h[w].pc # "idle"
    BY <1>2 DEF AiBlock, At
  <2>2. k \in Keys /\ rows[k] \in Rows
    BY <2>1, Serving DEF TypeOK
  <2>3. [rows[k] EXCEPT !.status = "completed"] \in Rows
    BY <2>2 DEF Rows, RowStatuses
  <2>4. rows' \in [Keys -> Rows]
    BY <1>2, <2>2, <2>3, RowWrites DEF AiBlock
  <2> QED
    BY <1>2, <2>4 DEF AiBlock, TypeOK, ledger
<1>3. ASSUME AiRelease(w) PROVE TypeOK'
  <2>1. h[w].pc # "idle" /\ now \in 1 .. MaxTime
    BY <1>3 DEF AiRelease, At, TypeOK
  <2>2. leases' = leases \/ leases' = [leases EXCEPT ![k] = NoLease]
    BY <1>3 DEF AiRelease
  <2>3. h' \in [Workers -> Requests \cup {Idle}]
    BY <1>3, <2>1, RequestMoves DEF AiRelease, Pcs
  <2> QED
    BY <1>3, <2>2, <2>3 DEF AiRelease, TypeOK, ledger, NoLease
<1>4. ASSUME AiFinalize(w) PROVE TypeOK'
  <2>1. h[w].pc # "idle"
    BY <1>4 DEF AiFinalize, At
  <2>2. k \in Keys /\ t \in 1 .. MaxTime /\ rows[k] \in Rows
    BY <2>1, Serving DEF TypeOK
  <2>3. rows[k].status = "reserved" => Released(rows[k], t) \in Rows
    BY <2>2, StatementsWriteRows
  <2>4. \/ WriteRow(k, rows[k])
        \/ rows[k].status = "reserved" /\ WriteRow(k, Released(rows[k], t))
    BY <1>4 DEF AiFinalize
  <2>5. rows' \in [Keys -> Rows]
    BY <2>2, <2>3, <2>4, RowWrites
  <2>6. h' \in [Workers -> Requests \cup {Idle}]
    BY <1>4, RequestMoves DEF AiFinalize
  <2> QED
    BY <1>4, <2>5, <2>6 DEF AiFinalize, TypeOK, ledger
<1> QED
  BY <1>1, <1>2, <1>3, <1>4 DEF AiStep

\* Every step of the webhooks.
LEMMA LedgerTypes ==
    ASSUME TypeOK, LedgerStep
    PROVE  TypeOK'
<1> USE ReservationAssumption
<1>0. /\ now \in 1 .. MaxTime /\ now \in Nat /\ now - 1 \in Nat
      /\ now + PeriodLength \in Nat
  BY DEF TypeOK
<1>1. ASSUME NEW row \in Subs, UpsertSubscription(row) PROVE TypeOK'
  BY <1>1 DEF UpsertSubscription, TypeOK, tables
<1>2. ASSUME NEW plan \in Plans, Subscribe(plan) PROVE TypeOK'
  <2> DEFINE row == [status |-> "active", plan |-> plan, start |-> now,
                     end |-> now + PeriodLength, revoked |-> 0]
  <2>1. row \in Subs
    BY <1>0 DEF Subs
  <2> QED
    BY <1>1, <1>2, <2>1 DEF Subscribe
<1>3. ASSUME NEW plan \in Plans, ChangePlan(plan) PROVE TypeOK'
  <2>1. [sub EXCEPT !.plan = plan] \in Subs
    BY DEF TypeOK, Subs
  <2> QED
    BY <1>1, <1>3, <2>1 DEF ChangePlan
<1>4. ASSUME RenewPeriod PROVE TypeOK'
  <2>1. sub.end \in Nat /\ sub.end + PeriodLength \in Nat
    BY DEF TypeOK, Subs
  <2>2. [sub EXCEPT !.start = sub.end, !.end = sub.end + PeriodLength] \in Subs
    BY <2>1 DEF TypeOK, Subs
  <2> QED
    BY <1>1, <1>4, <2>2 DEF RenewPeriod
<1>5. ASSUME CancelSubscription PROVE TypeOK'
  <2>1. [sub EXCEPT !.status = "canceled"] \in Subs
    BY DEF TypeOK, Subs
  <2> QED
    BY <1>1, <1>5, <2>1 DEF CancelSubscription
<1>6. ASSUME NEW p \in Purchases, RecordPurchase(p) \/ RestorePurchase(p)
      PROVE  TypeOK'
  BY <1>6 DEF RecordPurchase, RestorePurchase, TypeOK, tables
<1>7. ASSUME RefundPeriod PROVE TypeOK'
  <2>1. sub.start \in Nat
    BY DEF TypeOK, Subs
  <2>2. refund' \in PeriodRefunds
    BY <1>7, <2>1 DEF RefundPeriod, NoRefund, PeriodRefunds
  <2> QED
    BY <1>7, <2>2 DEF RefundPeriod, TypeOK, tables
<1>8. ASSUME NEW p \in Purchases, RefundPurchase(p) PROVE TypeOK'
  <2>1. refund' \in PurchaseRefunds
    BY <1>8 DEF RefundPurchase, NoRefund, PurchaseRefunds
  <2> QED
    BY <1>8, <2>1 DEF RefundPurchase, TypeOK, tables
\* Which refund a step of the webhook is in the middle of.
<1>9. /\ refund.pc \in {"publishPurchase", "stopPurchase"} => refund \in PurchaseRefunds
      /\ refund.pc \in {"revokePeriod", "expirePeriod", "releasePeriod"}
           => refund \in PeriodRefunds
      /\ NoRefund.pc = "idle"
  BY DEF TypeOK, PurchaseRefunds, PeriodRefunds, NoRefund
<1>10. ASSUME PublishPurchase PROVE TypeOK'
  <2>1. refund \in PurchaseRefunds
    BY <1>9, <1>10 DEF PublishPurchase
  <2>2. refund' \in PurchaseRefunds
    BY <1>10, <2>1 DEF PublishPurchase, RefundGoto, PurchaseRefunds
  <2>3. purchases' \in [Purchases -> {"none", "paid", "revoked"}]
    BY <1>10 DEF PublishPurchase, TypeOK
  <2> QED
    BY <1>10, <2>2, <2>3 DEF PublishPurchase, TypeOK, tables
<1>11. ASSUME NEW row \in Rows
       PROVE  /\ [row EXCEPT !.status = "released", !.expires = now - 1] \in Rows
              /\ [row EXCEPT !.expires = now - 1] \in Rows
              /\ [row EXCEPT !.status = "released"] \in Rows
  BY <1>0 DEF Rows, RowStatuses
<1>12. ASSUME StopPurchase PROVE TypeOK'
  <2>1. rows' \in [Keys -> Rows]
    BY <1>11, <1>12 DEF StopPurchase, TypeOK
  <2> QED
    BY <1>12, <2>1 DEF StopPurchase, TypeOK
<1>13. ASSUME RevokePeriod PROVE TypeOK'
  <2>1. refund \in PeriodRefunds
    BY <1>9, <1>13 DEF RevokePeriod
  <2>2. sub.start \in Nat /\ sub.end \in Nat
    BY DEF TypeOK, Subs
  <2>3. [sub EXCEPT !.revoked = sub.start] \in Subs
    BY <2>2 DEF TypeOK, Subs
  <2>4. [refund EXCEPT !.pc = "expirePeriod", !.end = sub.end] \in PeriodRefunds
    BY <2>1, <2>2 DEF PeriodRefunds
  <2>5. /\ refund' = [refund EXCEPT !.pc = "expirePeriod", !.end = sub.end]
             \/ refund' = NoRefund
        /\ sub' = sub \/ sub' = [sub EXCEPT !.revoked = sub.start]
    BY <1>13 DEF RevokePeriod
  <2> QED
    BY <1>13, <2>3, <2>4, <2>5 DEF RevokePeriod, TypeOK, tables
<1>14. ASSUME ExpirePeriod PROVE TypeOK'
  <2>1. rows' \in [Keys -> Rows]
    BY <1>11, <1>14 DEF ExpirePeriod, TypeOK
  <2>2. refund \in PeriodRefunds
    BY <1>9, <1>14 DEF ExpirePeriod
  <2>3. refund' \in PeriodRefunds
    BY <1>14, <2>2 DEF ExpirePeriod, RefundGoto, PeriodRefunds
  <2> QED
    BY <1>14, <2>1, <2>3 DEF ExpirePeriod, TypeOK
<1>15. ASSUME ReleasePeriod PROVE TypeOK'
  <2>1. rows' \in [Keys -> Rows]
    BY <1>11, <1>15 DEF ReleasePeriod, TypeOK
  <2> QED
    BY <1>15, <2>1 DEF ReleasePeriod, TypeOK
<1>16. ASSUME RestorePeriod PROVE TypeOK'
  <2>1. [sub EXCEPT !.revoked = 0] \in Subs
    BY DEF TypeOK, Subs
  <2> QED
    BY <1>16, <2>1 DEF RestorePeriod, TypeOK, tables
<1>17. ASSUME RefundDies PROVE TypeOK'
  <2>1. CASE refund \in PurchaseRefunds
    <3>1. refund.purchase # NoPurchase
      BY <2>1 DEF PurchaseRefunds
    <3>2. refund' \in PurchaseRefunds
      BY <1>17, <2>1, <3>1 DEF RefundDies, RefundGoto, PurchaseRefunds
    <3> QED
      BY <1>17, <3>2 DEF RefundDies, TypeOK, tables
  <2>2. CASE refund \in PeriodRefunds
    <3>1. refund.purchase = NoPurchase
      BY <2>2 DEF PeriodRefunds
    <3>2. refund' \in PeriodRefunds
      BY <1>17, <2>2, <3>1 DEF RefundDies, RefundGoto, PeriodRefunds
    <3> QED
      BY <1>17, <3>2 DEF RefundDies, TypeOK, tables
  <2> QED
    BY <1>9, <1>17, <2>1, <2>2 DEF RefundDies
<1> QED
  BY <1>2, <1>3, <1>4, <1>5, <1>6, <1>7, <1>8, <1>10, <1>12, <1>13, <1>14, <1>15, <1>16,
     <1>17 DEF LedgerStep

\* A request begins as a request of the type.
LEMMA BeginTypes ==
    ASSUME TypeOK, NEW w \in Workers, NEW k \in Keys, RequestBegins(w, k)
    PROVE  TypeOK'
<1> USE ReservationAssumption
<1>1. now \in 1 .. MaxTime /\ rows[k] \in Rows /\ NoSub \in Subs /\ 0 \in 0 .. MaxAttempts
  BY CurrentSubType DEF TypeOK
<1>2. ASSUME NEW pc \in Pcs, NEW operator \in BOOLEAN, NEW resume \in BOOLEAN,
             NEW old \in Buckets \cup {NoBucket}, NEW current \in BOOLEAN
      PROVE  [Idle EXCEPT !.pc = pc, !.key = k, !.operator = operator, !.resume = resume,
                          !.t = now, !.oldBucket = old, !.current = current] \in Requests
  BY <1>1 DEF Idle, Requests
<1>3. ASSUME NEW operator \in OperatorModes, ReserveBegin(w, k, operator) PROVE TypeOK'
  <2> DEFINE pc == IF rows[k] = NoRow THEN "reserveMaterialize" ELSE "reserveReconcile"
             r == [Idle EXCEPT !.pc = pc, !.key = k, !.operator = operator, !.t = now]
  <2>1. pc \in Pcs
    BY DEF Pcs
  <2>2. Become(w, r)
    BY <1>3 DEF ReserveBegin
  <2> HIDE DEF pc
  <2>3. r \in Requests
    BY <1>1, <2>1 DEF Idle, Requests
  <2> HIDE DEF r
  <2>4. h' \in [Workers -> Requests \cup {Idle}]
    BY <2>2, <2>3, RequestMoves
  <2> QED
    BY <1>3, <2>4 DEF ReserveBegin, TypeOK, tables, ledger
<1>4. ASSUME NEW operator \in OperatorModes, NEW resume \in ResumeModes,
             RenewBegin(w, k, operator, resume)
      PROVE  TypeOK'
  <2> DEFINE row == rows[k]
             pc == IF row.status = "completed" THEN "renewCheckCompleted" ELSE "renewSettle"
             current == row.status = "reserved" /\ ~IsExpired(row, now)
             r == [Idle EXCEPT !.pc = pc, !.key = k, !.operator = operator,
                               !.resume = resume, !.t = now, !.oldBucket = row.bucket,
                               !.current = current]
  <2>1. pc \in Pcs
    BY DEF Pcs
  <2>2. current \in BOOLEAN
    BY DEF IsExpired
  <2>3. row.bucket \in Buckets \cup {NoBucket}
    BY <1>1 DEF Rows
  <2>4. Become(w, r)
    BY <1>4 DEF RenewBegin
  <2> HIDE DEF pc, current, row
  <2>5. r \in Requests
    BY <1>2, <2>1, <2>2, <2>3, ZenonT(30)
  <2> HIDE DEF r
  <2>6. h' \in [Workers -> Requests \cup {Idle}]
    BY <2>4, <2>5, RequestMoves
  <2> QED
    BY <1>4, <2>6 DEF RenewBegin, TypeOK, tables, ledger
<1>5. ASSUME NEW pc \in Pcs, Become(w, [Idle EXCEPT !.pc = pc, !.key = k, !.t = now]),
             UNCHANGED <<now, tables, ledger>>
      PROVE  TypeOK'
  <2>1. [Idle EXCEPT !.pc = pc, !.key = k, !.t = now] \in Requests
    BY <1>1 DEF Idle, Requests
  <2>2. h' \in [Workers -> Requests \cup {Idle}]
    BY <1>5, <2>1, RequestMoves
  <2> QED
    BY <1>5, <2>2 DEF TypeOK, tables, ledger
<1>6. ASSUME ReleaseBegin(w, k) PROVE TypeOK'
  BY <1>5, <1>6 DEF ReleaseBegin, Pcs
<1>7. ASSUME AiBegin(w, k) PROVE TypeOK'
  BY <1>5, <1>7 DEF AiBegin, Pcs
<1> QED
  BY <1>3, <1>4, <1>6, <1>7 DEF RequestBegins

-------------------------------------------------------------------------------

LEMMA InitTypes == Init => TypeOK
  BY ReservationAssumption
  DEF Init, TypeOK, NoRow, Rows, RowStatuses, NoIntent, NoLease, NoSub, Subs

LEMMA StepTypes ==
    ASSUME TypeOK, Next
    PROVE  TypeOK'
<1> USE ReservationAssumption
<1>1. ASSUME NEW w \in Workers, WorkerDies(w) PROVE TypeOK'
  BY <1>1, RequestMoves DEF WorkerDies, TypeOK, tables, ledger
<1>2. ASSUME NEW k \in Keys, CompleteUsage(k) PROVE TypeOK'
  <2>1. [rows[k] EXCEPT !.status = "completed"] \in Rows
    <3>1. rows[k] \in Rows
      BY DEF TypeOK
    <3> QED
      BY <3>1 DEF Rows, RowStatuses
  <2>2. rows' \in [Keys -> Rows]
    BY <1>2, <2>1, RowWrites DEF CompleteUsage
  <2> QED
    BY <1>2, <2>2 DEF CompleteUsage, TypeOK, ledger
<1>3. ASSUME SettleExpired PROVE TypeOK'
  <2>1. rows' \in [Keys -> Rows]
    BY <1>3, RowWrites DEF SettleExpired, TypeOK
  <2> QED
    BY <1>3, <2>1 DEF SettleExpired, TypeOK, ledger
<1>4. ASSUME Tick PROVE TypeOK'
  BY <1>4 DEF Tick, TypeOK, tables, ledger
<1> QED
  BY <1>1, <1>2, <1>3, <1>4, BeginTypes, ReserveTypes, RenewTypes, ReleaseTypes, AiTypes,
     LedgerTypes DEF Next

\* The tables, the ledger and the requests in flight keep their types: no
\* statement writes a time before 0, a bucket without a purchase, or a request
\* past its last attempt.
THEOREM Types == Spec => []TypeOK
<1>1. Init => TypeOK
  BY InitTypes
<1>2. TypeOK /\ [Next]_vars => TypeOK'
  <2>1. CASE Next
    BY <2>1, StepTypes
  <2>2. CASE UNCHANGED vars
    BY <2>2 DEF vars, TypeOK
  <2> QED
    BY <2>1, <2>2
<1> QED
  BY <1>1, <1>2, PTL DEF Spec

-------------------------------------------------------------------------------
(* Every step of every request implements VideoAllowance; so the tables     *)
(* keep what the allowance promises.                                        *)

USE DEF Allowance!NoPurchase

\* The allowance has its own copies of the operators both modules use.
LEMMA SameOperators ==
    /\ \A S : Allowance!Cardinality(S) = Cardinality(S)
    /\ \A f, S : Allowance!SumFunctionOnSet(f, S) = SumFunctionOnSet(f, S)
    /\ \A t : Allowance!StartOfTokyoDay(t) = StartOfTokyoDay(t)
    /\ Allowance!Buckets = Buckets
<1>1. \A S : Allowance!Cardinality(S) = Cardinality(S)
  BY Zenon DEF Allowance!Cardinality, Cardinality
<1>2. \A f, S : Allowance!SumFunctionOnSet(f, S) = SumFunctionOnSet(f, S)
  BY Zenon DEF Allowance!SumFunctionOnSet, Allowance!FoldFunctionOnSet,
               Allowance!MapThenFoldSet, SumFunctionOnSet, FoldFunctionOnSet,
               MapThenFoldSet
<1>3. \A t : Allowance!StartOfTokyoDay(t) = StartOfTokyoDay(t)
  BY Zenon DEF Allowance!StartOfTokyoDay, StartOfTokyoDay
<1>4. Allowance!Buckets = Buckets
  BY DEF Allowance!Buckets, Buckets
<1> QED
  BY <1>1, <1>2, <1>3, <1>4

-------------------------------------------------------------------------------
(* What the allowance sees of a row.                                        *)

Kept(old, new) ==
    /\ new.status = old.status
    /\ new.bucket = old.bucket /\ new.purchase = old.purchase /\ new.created = old.created

Dropped(old, new) ==
    /\ old.status = "reserved" /\ new.status = "released"
    /\ new.bucket = old.bucket /\ new.purchase = old.purchase /\ new.created = old.created

LEMMA Seen ==
    ASSUME NEW row \in Rows
    PROVE  /\ VideoOf(row).stage \in {"none", "held", "spent", "returned"}
           /\ row.status = "absent" <=> VideoOf(row).stage = "none"
           /\ row.status = "reserved" <=> VideoOf(row).stage = "held"
           /\ row.status = "completed" <=> VideoOf(row).stage = "spent"
           /\ row.status = "released" <=> VideoOf(row).stage = "returned"
           /\ VideoOf(row).bucket = row.bucket
           /\ VideoOf(row).purchase = row.purchase
           /\ VideoOf(row).created = row.created
<1>1. row.status \in {"absent", "reserved", "completed", "released"}
  BY DEF Rows, RowStatuses
<1>2. /\ StageOf["absent"] = "none"
      /\ StageOf["reserved"] = "held"
      /\ StageOf["completed"] = "spent"
      /\ StageOf["released"] = "returned"
  BY DEF StageOf
<1>3. VideoOf(row).stage = StageOf[row.status]
  BY DEF VideoOf
<1> QED
  BY <1>1, <1>2, <1>3 DEF VideoOf

\* Rows that only lapse, or change what the allowance does not see.
LEMMA GivingBack ==
    ASSUME TypeOK, rows' \in [Keys -> Rows],
           \A k \in Keys : Kept(rows[k], rows'[k]) \/ Dropped(rows[k], rows'[k])
    PROVE  Allowance!Next
<1> DEFINE K == {k \in Keys : Dropped(rows[k], rows'[k])}
           V(k) == VideoOf(rows[k])
<1>1. ASSUME NEW k \in Keys
      PROVE  VideoOf(rows'[k]) = IF k \in K THEN [VideoOf(rows[k]) EXCEPT !.stage = "returned"]
                                            ELSE VideoOf(rows[k])
  <2>1. CASE k \in K
    <3>1. StageOf["released"] = "returned"
      BY DEF StageOf
    <3> QED
      BY <2>1, <3>1 DEF Dropped, VideoOf
  <2>2. CASE k \notin K
    BY <2>2, <1>1 DEF Kept, VideoOf
  <2> QED
    BY <2>1, <2>2
<1>2. \A k \in K : VideoOf(rows[k]).stage = "held"
  BY Seen DEF Dropped, TypeOK
<1>3. Allowance!GiveBack(K)
  BY <1>1, <1>2 DEF Allowance!GiveBack
<1> QED
  BY <1>3 DEF Allowance!Next

\* A statement that leaves every row alone is not seen at all.
LEMMA NothingSeen ==
    ASSUME UNCHANGED rows
    PROVE  UNCHANGED [k \in Keys |-> VideoOf(rows[k])]
  OBVIOUS

\* The sets of videos that each allowance pays for are the same.
LEMMA SameVideos ==
    ASSUME TypeOK
    PROVE  /\ Allowance!FreeVideos = FreeVideos
           /\ \A p \in Purchases : Allowance!VideosOnPurchase(p) = VideosOnPurchase(p)
           /\ \A day \in Int : Allowance!OperatorVideosOn(day) =
                 {k \in Keys : /\ IsActive(k) /\ rows[k].bucket = "operator"
                               /\ StartOfTokyoDay(rows[k].created) = day}
<1>1. ASSUME NEW k \in Keys
      PROVE  /\ Allowance!IsPaid(k) <=> IsActive(k)
             /\ [j \in Keys |-> VideoOf(rows[j])][k].bucket = rows[k].bucket
             /\ [j \in Keys |-> VideoOf(rows[j])][k].purchase = rows[k].purchase
             /\ [j \in Keys |-> VideoOf(rows[j])][k].created = rows[k].created
  <2>1. rows[k] \in Rows
    BY DEF TypeOK
  <2> QED
    BY <2>1, Seen DEF Allowance!IsPaid, IsActive
<1> QED
  <2>1. Allowance!FreeVideos = FreeVideos
    BY <1>1 DEF Allowance!FreeVideos, FreeVideos
  <2>2. \A p \in Purchases : Allowance!VideosOnPurchase(p) = VideosOnPurchase(p)
    BY <1>1 DEF Allowance!VideosOnPurchase, VideosOnPurchase
  <2>3. \A day \in Int : Allowance!OperatorVideosOn(day) =
           {k \in Keys : /\ IsActive(k) /\ rows[k].bucket = "operator"
                         /\ StartOfTokyoDay(rows[k].created) = day}
    BY <1>1 DEF Allowance!OperatorVideosOn, Allowance!StartOfTokyoDay, StartOfTokyoDay
  <2> QED
    BY <2>1, <2>2, <2>3

\* A day begins no later than any of its seconds.
LEMMA DayStarts ==
    ASSUME NEW t \in Nat
    PROVE  StartOfTokyoDay(t) \in Int /\ StartOfTokyoDay(t) <= t
<1> DEFINE a == t + DayOffset
<1>1. DayLength \in Nat \ {0} /\ DayOffset \in Nat
  BY PolicyAssumption
<1>2. a \in Nat
  BY <1>1
<1> HIDE DEF a
<1>3. a \div DayLength \in Int /\ (a \div DayLength) * DayLength <= a
  BY <1>1, <1>2
<1> QED
  BY <1>1, <1>3 DEF StartOfTokyoDay, a

\* The operator's clause counts from the start of the day; the allowance counts
\* the day alone, which is no more.
LEMMA OperatorRoom ==
    ASSUME TypeOK, NEW k \in Keys, NEW t \in 1 .. MaxTime, OperatorFits(k, t)
    PROVE  Cardinality(Allowance!OperatorVideosOn(StartOfTokyoDay(t)) \ {k})
             < OperatorDailyLimit
<1> DEFINE day == StartOfTokyoDay(t)
           since == OperatorVideosSince(day) \ {k}
           on == Allowance!OperatorVideosOn(day) \ {k}
<1>1. day \in Int
  BY DayStarts, ReservationAssumption
<1>2. on \subseteq since
  <2>1. ASSUME NEW j \in Keys, StartOfTokyoDay(rows[j].created) = day
        PROVE  rows[j].created >= day
    <3>1. rows[j] \in Rows
      BY DEF TypeOK
    <3>2. rows[j].created \in Nat
      BY <3>1, ReservationAssumption DEF Rows
    <3> QED
      BY <1>1, <2>1, <3>2, DayStarts
  <2> QED
    BY <1>1, <2>1, SameVideos DEF OperatorVideosSince
<1>3. IsFiniteSet(since) /\ since \subseteq Keys
  BY FS_Subset, ReservationAssumption DEF OperatorVideosSince
<1> HIDE DEF since, on, day
<1>4. IsFiniteSet(on) /\ Cardinality(on) <= Cardinality(since)
  BY <1>2, <1>3, FS_Subset
<1>5. Cardinality(on) \in Nat /\ Cardinality(since) \in Nat
  BY <1>3, <1>4, FS_CardinalityType
<1>6. Cardinality(since) < OperatorDailyLimit
  BY DEF OperatorFits, since, day
<1> QED
  BY <1>4, <1>5, <1>6, PolicyAssumption DEF on, day

\* A funded row is a video held by an allowance that has room for it.
LEMMA Funding ==
    ASSUME TypeOK, NEW k \in Keys, NEW bucket, NEW held, NEW t \in 1 .. MaxTime,
           CanFund(k, bucket, held, t), rows[k].status # "completed",
           WriteRow(k, FundedRow(k, bucket, t))
    PROVE  Allowance!Next
<1> DEFINE p == IF bucket = "one_time" THEN Min(OpenPurchases(k)) ELSE NoPurchase
<1>1. bucket \in Buckets
  BY DEF CanFund, Buckets
<1>2. bucket = "one_time" => p \in OpenPurchases(k)
  <2>1. OpenPurchases(k) \in SUBSET Purchases
    BY DEF OpenPurchases
  <2>2. bucket = "one_time" => OpenPurchases(k) # {}
    BY DEF CanFund
  <2> QED
    BY <2>1, <2>2, OldestPurchase
<1>3. p \in Purchases \cup {NoPurchase}
  BY <1>2 DEF OpenPurchases
<1>4. Allowance!HasRoom(k, bucket, p, t)
  <2>1. CASE bucket = "free"
    <3>1. FreeFits(k)
      BY <2>1 DEF CanFund
    <3> QED
      BY <2>1, <3>1, SameVideos, SameOperators DEF FreeFits, Allowance!HasRoom
  <2>2. CASE bucket = "operator"
    <3>1. OperatorFits(k, t)
      BY <2>2 DEF CanFund
    <3> QED
      BY <2>2, <3>1, OperatorRoom, SameOperators DEF Allowance!HasRoom
  <2>3. CASE bucket = "one_time"
    BY <1>2, <2>3, SameVideos DEF OpenPurchases, Allowance!HasRoom
  <2>4. CASE bucket = "subscription"
    BY <2>4 DEF Allowance!HasRoom
  <2> QED
    BY <1>1, <2>1, <2>2, <2>3, <2>4 DEF Buckets
<1>5. VideoOf(rows[k]).stage # "spent"
  BY Seen DEF TypeOK
<1>6. rows' = [rows EXCEPT ![k] = FundedRow(k, bucket, t)]
  BY DEF WriteRow
<1>7. VideoOf(FundedRow(k, bucket, t)) = [stage |-> "held", bucket |-> bucket,
                                          purchase |-> p, created |-> t]
  <2>1. StageOf["reserved"] = "held"
    BY DEF StageOf
  <2> QED
    BY <2>1 DEF FundedRow, VideoOf
<1> HIDE DEF p
<1>8. [j \in Keys |-> VideoOf(rows[j])]' =
         [[j \in Keys |-> VideoOf(rows[j])] EXCEPT
            ![k] = [stage |-> "held", bucket |-> bucket, purchase |-> p, created |-> t]]
  BY <1>6, <1>7 DEF TypeOK
<1>9. Allowance!Hold(k, bucket, p, t)
  BY <1>4, <1>5, <1>8 DEF Allowance!Hold
<1> QED
  BY <1>1, <1>3, <1>9, SameOperators DEF Allowance!Next

\* A reserved row that is completed is a held video that is spent.
LEMMA Spending ==
    ASSUME TypeOK, NEW k \in Keys, rows[k].status = "reserved",
           WriteRow(k, [rows[k] EXCEPT !.status = "completed"])
    PROVE  Allowance!Next
<1>1. rows[k] \in Rows /\ VideoOf(rows[k]).stage = "held"
  BY Seen DEF TypeOK
<1>2. VideoOf([rows[k] EXCEPT !.status = "completed"]) =
         [VideoOf(rows[k]) EXCEPT !.stage = "spent"]
  <2>1. StageOf["completed"] = "spent"
    BY DEF StageOf
  <2> QED
    BY <1>1, <2>1 DEF VideoOf, Rows
<1>3. [j \in Keys |-> VideoOf(rows[j])]' =
         [[j \in Keys |-> VideoOf(rows[j])] EXCEPT
            ![k] = [VideoOf(rows[k]) EXCEPT !.stage = "spent"]]
  BY <1>2 DEF WriteRow, TypeOK
<1>4. Allowance!Spend(k)
  BY <1>1, <1>3 DEF Allowance!Spend
<1> QED
  BY <1>4 DEF Allowance!Next

\* A tombstone is a video given back before it was held.
LEMMA Withdrawing ==
    ASSUME TypeOK, NEW k \in Keys, NEW operator, NEW t \in 1 .. MaxTime,
           rows[k] = NoRow, WriteRow(k, TombstoneRow(operator, t))
    PROVE  Allowance!Next
<1> DEFINE bucket == IF operator THEN "operator" ELSE "free"
<1>1. VideoOf(rows[k]).stage = "none"
  <2>1. rows[k] \in Rows
    BY DEF TypeOK
  <2>2. rows[k].status = "absent"
    BY DEF NoRow
  <2> QED
    BY <2>1, <2>2, Seen
<1>2. VideoOf(TombstoneRow(operator, t)) =
         [stage |-> "returned", bucket |-> bucket, purchase |-> NoPurchase, created |-> t]
  <2>1. StageOf["released"] = "returned"
    BY DEF StageOf
  <2> QED
    BY <2>1 DEF VideoOf, TombstoneRow
<1>3. [j \in Keys |-> VideoOf(rows[j])]' =
         [[j \in Keys |-> VideoOf(rows[j])] EXCEPT
            ![k] = [stage |-> "returned", bucket |-> bucket, purchase |-> NoPurchase,
                    created |-> t]]
  BY <1>2 DEF WriteRow, TypeOK
<1>4. Allowance!Withdraw(k, bucket, t)
  BY <1>1, <1>3 DEF Allowance!Withdraw, Allowance!NoPurchase
<1>5. bucket \in Allowance!Buckets
  BY SameOperators DEF Buckets
<1> QED
  BY <1>4, <1>5 DEF Allowance!Next

\* One row rewritten so that the allowance sees it kept, or dropped.
LEMMA OneGivenBack ==
    ASSUME TypeOK, NEW k \in Keys, NEW row \in Rows, WriteRow(k, row),
           Kept(rows[k], row) \/ Dropped(rows[k], row)
    PROVE  Allowance!Next
<1>1. rows' \in [Keys -> Rows]
  BY RowWrites
<1>2. \A j \in Keys : Kept(rows[j], rows'[j]) \/ Dropped(rows[j], rows'[j])
  BY DEF WriteRow, TypeOK, Kept
<1> QED
  BY <1>1, <1>2, GivingBack

\* A row rewritten in what the allowance does not see, or dropped.
LEMMA RowsSeen ==
    ASSUME TypeOK, NEW k \in Keys, NEW t \in 1 .. MaxTime
    PROVE  /\ Kept(rows[k], rows[k])
           /\ rows[k].status = "reserved" => Dropped(rows[k], Released(rows[k], t))
           /\ Kept(rows[k], SettledRow(k, t)) \/ Dropped(rows[k], SettledRow(k, t))
           /\ \A live \in BOOLEAN : \/ Kept(rows[k], ReconciledRow(k, live, t))
                                    \/ Dropped(rows[k], ReconciledRow(k, live, t))
<1>1. rows[k] \in Rows
  BY DEF TypeOK
<1>2. Kept(rows[k], rows[k])
  BY DEF Kept
<1>3. \A row \in Rows : row.status = "reserved" => Dropped(row, Released(row, t))
  BY DEF Dropped, Released, Rows
<1>4. [rows[k] EXCEPT !.releaseRequested = TRUE] \in Rows
  BY <1>1 DEF Rows
<1>5. Kept(rows[k], [rows[k] EXCEPT !.releaseRequested = TRUE])
  BY <1>1 DEF Kept, Rows
<1>6. rows[k].status = "reserved" =>
        Dropped(rows[k], Released([rows[k] EXCEPT !.releaseRequested = TRUE], t))
  <2> DEFINE marked == [rows[k] EXCEPT !.releaseRequested = TRUE]
             freed == Released(marked, t)
  <2>1. rows[k].status = "reserved" => marked.status = "reserved"
    BY <1>1 DEF Rows
  <2>2. marked.status = "reserved" => Dropped(marked, freed)
    BY <1>3, <1>4
  <2>3. Kept(rows[k], marked)
    BY <1>5
  <2> HIDE DEF marked, freed
  <2>4. Dropped(marked, freed) => Dropped(rows[k], freed)
    BY <2>3 DEF Kept, Dropped
  <2>5. rows[k].status = "reserved" => Dropped(rows[k], freed)
    BY <2>1, <2>2, <2>4
  <2> QED
    BY <2>5 DEF freed, marked
<1>7. Kept(rows[k], SettledRow(k, t)) \/ Dropped(rows[k], SettledRow(k, t))
  BY <1>1, <1>2, <1>3 DEF SettledRow
<1>8. ASSUME NEW live \in BOOLEAN
      PROVE  \/ Kept(rows[k], ReconciledRow(k, live, t))
             \/ Dropped(rows[k], ReconciledRow(k, live, t))
  BY <1>2, <1>5, <1>6 DEF ReconciledRow
<1> QED
  BY <1>1, <1>2, <1>3, <1>7, <1>8

LEMMA SettlingSeen ==
    ASSUME TypeOK, NEW t \in 1 .. MaxTime, rows' = [k \in Keys |-> SettledRow(k, t)]
    PROVE  Allowance!Next
<1>1. rows' \in [Keys -> Rows]
  BY RowWrites
<1>2. \A k \in Keys : Kept(rows[k], rows'[k]) \/ Dropped(rows[k], rows'[k])
  BY RowsSeen
<1> QED
  BY <1>1, <1>2, GivingBack

LEMMA ReconcilingSeen ==
    ASSUME TypeOK, NEW k \in Keys, NEW t \in 1 .. MaxTime, NEW live \in BOOLEAN,
           WriteRow(k, ReconciledRow(k, live, t))
    PROVE  Allowance!Next
<1>1. ReconciledRow(k, live, t) \in Rows
  BY StatementsWriteRows
<1>2. \/ Kept(rows[k], ReconciledRow(k, live, t))
      \/ Dropped(rows[k], ReconciledRow(k, live, t))
  BY RowsSeen
<1> QED
  BY <1>1, <1>2, OneGivenBack

LEMMA KeepingSeen ==
    ASSUME TypeOK, NEW k \in Keys, WriteRow(k, rows[k])
    PROVE  Allowance!Next
<1>1. rows[k] \in Rows /\ Kept(rows[k], rows[k])
  BY DEF TypeOK, Kept
<1> QED
  BY <1>1, OneGivenBack

-------------------------------------------------------------------------------
(* The steps.                                                               *)

LEMMA ReserveRefines ==
    ASSUME TypeOK, NEW w \in Workers, ReserveStep(w)
    PROVE  Allowance!Next \/ UNCHANGED rows
<1> DEFINE k == h[w].key
           t == h[w].t
<1>1. CASE ReserveReconcile(w)
  <2>1. k \in Keys /\ t \in 1 .. MaxTime
    BY <1>1, Serving DEF ReserveReconcile, At
  <2>2. LiveIntent(k, t) \in BOOLEAN
    BY DEF LiveIntent
  <2>3. WriteRow(k, ReconciledRow(k, LiveIntent(k, t), t))
    BY <1>1 DEF ReserveReconcile
  <2> QED
    BY <2>1, <2>2, <2>3, ReconcilingSeen
<1>2. CASE ReserveMaterialize(w)
  <2>1. k \in Keys /\ t \in 1 .. MaxTime
    BY <1>2, Serving DEF ReserveMaterialize, At
  <2>2. \/ rows[k] = NoRow /\ WriteRow(k, TombstoneRow(h[w].operator, t))
        \/ WriteRow(k, rows[k])
    BY <1>2 DEF ReserveMaterialize
  <2> QED
    BY <2>1, <2>2, Withdrawing, KeepingSeen
<1>3. CASE ReserveSettle(w)
  BY <1>3, SettlingSeen DEF ReserveSettle, TypeOK
<1>4. CASE ReserveInsert(w)
  <2>1. k \in Keys /\ t \in 1 .. MaxTime
    BY <1>4, Serving DEF ReserveInsert, At
  <2>2. CASE CanInsert(k, h[w])
    <3>1. rows[k].status # "completed"
      BY <2>2 DEF CanInsert, NoRow
    <3>2. CanFund(k, h[w].bucket, h[w].held, t)
      BY <2>2 DEF CanInsert
    <3>3. WriteRow(k, FundedRow(k, h[w].bucket, t))
      BY <1>4, <2>2 DEF ReserveInsert
    <3> QED
      BY <2>1, <3>1, <3>2, <3>3, Funding
  <2>3. CASE ~CanInsert(k, h[w])
    <3>1. WriteRow(k, rows[k])
      BY <1>4, <2>3 DEF ReserveInsert
    <3> QED
      BY <2>1, <3>1, KeepingSeen
  <2> QED
    BY <2>2, <2>3
<1>5. CASE ReserveChoose(w) \/ ReserveRecheck(w)
  BY <1>5 DEF ReserveChoose, ReserveRecheck, tables
<1> QED
  BY <1>1, <1>2, <1>3, <1>4, <1>5 DEF ReserveStep

LEMMA RenewRefines ==
    ASSUME TypeOK, NEW w \in Workers, RenewStep(w)
    PROVE  Allowance!Next \/ UNCHANGED rows
<1> DEFINE k == h[w].key
           t == h[w].t
<1>1. CASE RenewExtendCompleted(w)
  <2> DEFINE row == [rows[k] EXCEPT !.expires = Max2(rows[k].expires, t + Lifetime)]
  <2>1. k \in Keys /\ rows[k] \in Rows
    BY <1>1, Serving DEF RenewExtendCompleted, At, TypeOK
  <2>2. WriteRow(k, row) \/ WriteRow(k, rows[k])
    BY <1>1 DEF RenewExtendCompleted
  <2>3. Kept(rows[k], row)
    BY <2>1 DEF Kept, Rows
  <2>4. WriteRow(k, row) => row \in Rows
    <3>1. TypeOK'
      BY <1>1, RenewTypes DEF RenewStep
    <3> HIDE DEF row
    <3> QED
      BY <2>1, <3>1 DEF TypeOK, WriteRow
  <2> HIDE DEF row
  <2> QED
    BY <2>1, <2>2, <2>3, <2>4, OneGivenBack, KeepingSeen
<1>2. CASE RenewSettle(w)
  <2>1. t \in 1 .. MaxTime
    BY <1>2, Serving DEF RenewSettle, At
  <2> QED
    BY <1>2, <2>1, SettlingSeen DEF RenewSettle
<1>3. CASE RenewExtend(w)
  <2> DEFINE row == [rows[k] EXCEPT !.expires = Max2(rows[k].expires, t + Lifetime),
                                    !.releaseRequested = rows[k].releaseRequested
                                                           /\ ~h[w].resume]
  <2>1. k \in Keys /\ rows[k] \in Rows
    BY <1>3, Serving DEF RenewExtend, At, TypeOK
  <2>2. WriteRow(k, row) \/ WriteRow(k, rows[k])
    BY <1>3 DEF RenewExtend
  <2>3. Kept(rows[k], row)
    BY <2>1 DEF Kept, Rows
  <2>4. WriteRow(k, row) => row \in Rows
    <3>1. TypeOK'
      BY <1>3, RenewTypes DEF RenewStep
    <3> HIDE DEF row
    <3> QED
      BY <2>1, <3>1 DEF TypeOK, WriteRow
  <2> HIDE DEF row
  <2> QED
    BY <2>1, <2>2, <2>3, <2>4, OneGivenBack, KeepingSeen
<1>4. CASE RenewReactivate(w)
  <2>1. k \in Keys /\ t \in 1 .. MaxTime
    BY <1>4, Serving DEF RenewReactivate, At
  <2>2. CASE CanReactivate(k, h[w])
    <3>1. rows[k].status # "completed" /\ CanFund(k, h[w].bucket, h[w].held, t)
      BY <2>2 DEF CanReactivate
    <3>2. WriteRow(k, FundedRow(k, h[w].bucket, t))
      BY <1>4, <2>2 DEF RenewReactivate
    <3> QED
      BY <2>1, <3>1, <3>2, Funding
  <2>3. CASE ~CanReactivate(k, h[w])
    <3>1. WriteRow(k, rows[k])
      BY <1>4, <2>3 DEF RenewReactivate
    <3> QED
      BY <2>1, <3>1, KeepingSeen
  <2> QED
    BY <2>2, <2>3
<1>5. CASE RenewCheckCompleted(w) \/ RenewChoose(w) \/ RenewCheckLease(w)
  BY <1>5 DEF RenewCheckCompleted, RenewChoose, RenewCheckLease, tables
<1> QED
  BY <1>1, <1>2, <1>3, <1>4, <1>5 DEF RenewStep

LEMMA OtherRequestsRefine ==
    ASSUME TypeOK, NEW w \in Workers, ReleaseBatch(w) \/ AiStep(w)
    PROVE  Allowance!Next \/ UNCHANGED rows
<1> DEFINE k == h[w].key
           t == h[w].t
<1>1. CASE ReleaseBatch(w)
  <2>1. k \in Keys /\ t \in 1 .. MaxTime
    BY <1>1, Serving DEF ReleaseBatch, At
  <2>2. (intents'[k].expires >= t) \in BOOLEAN
    OBVIOUS
  <2>3. WriteRow(k, ReconciledRow(k, intents'[k].expires >= t, t))
    BY <1>1 DEF ReleaseBatch
  <2> QED
    BY <2>1, <2>2, <2>3, ReconcilingSeen
<1>2. CASE AiBlock(w)
  <2>1. k \in Keys
    BY <1>2, Serving DEF AiBlock, At
  <2> QED
    BY <1>2, <2>1, Spending DEF AiBlock
<1>3. CASE AiFinalize(w)
  <2>1. k \in Keys /\ t \in 1 .. MaxTime
    BY <1>3, Serving DEF AiFinalize, At
  <2>2. \/ rows[k].status = "reserved" /\ WriteRow(k, Released(rows[k], t))
        \/ WriteRow(k, rows[k])
    BY <1>3 DEF AiFinalize
  <2>3. rows[k].status = "reserved" =>
          Released(rows[k], t) \in Rows /\ Dropped(rows[k], Released(rows[k], t))
    BY <2>1, StatementsWriteRows, RowsSeen
  <2> QED
    BY <2>1, <2>2, <2>3, OneGivenBack, KeepingSeen
<1>4. CASE AiAcquire(w) \/ AiRelease(w)
  BY <1>4 DEF AiAcquire, AiRelease
<1> QED
  BY <1>1, <1>2, <1>3, <1>4 DEF AiStep

LEMMA LedgerRefines ==
    ASSUME TypeOK, LedgerStep
    PROVE  Allowance!Next \/ UNCHANGED rows
<1>1. rows' \in [Keys -> Rows]
  BY LedgerTypes DEF TypeOK
<1>2. \A k \in Keys : rows[k] \in Rows
  BY DEF TypeOK
<1>3. ASSUME NEW row \in Rows
      PROVE  /\ row.status = "reserved" =>
                  /\ Dropped(row, [row EXCEPT !.status = "released", !.expires = now - 1])
                  /\ Dropped(row, [row EXCEPT !.status = "released"])
             /\ Kept(row, [row EXCEPT !.expires = now - 1])
             /\ Kept(row, row)
  BY DEF Dropped, Kept, Rows
<1>4. CASE StopPurchase
  <2>1. \A k \in Keys : Kept(rows[k], rows'[k]) \/ Dropped(rows[k], rows'[k])
    BY <1>2, <1>3, <1>4 DEF StopPurchase
  <2> QED
    BY <1>1, <2>1, GivingBack
<1>5. CASE ExpirePeriod
  <2>1. \A k \in Keys : Kept(rows[k], rows'[k]) \/ Dropped(rows[k], rows'[k])
    BY <1>2, <1>3, <1>5 DEF ExpirePeriod
  <2> QED
    BY <1>1, <2>1, GivingBack
<1>6. CASE ReleasePeriod
  <2>1. \A k \in Keys : Kept(rows[k], rows'[k]) \/ Dropped(rows[k], rows'[k])
    BY <1>2, <1>3, <1>6 DEF ReleasePeriod
  <2> QED
    BY <1>1, <2>1, GivingBack
<1>7. CASE ~(StopPurchase \/ ExpirePeriod \/ ReleasePeriod)
  BY <1>7 DEF LedgerStep, Subscribe, ChangePlan, RenewPeriod, CancelSubscription,
     UpsertSubscription, RecordPurchase, RestorePurchase, RefundPeriod, RefundPurchase,
     PublishPurchase, RevokePeriod, RestorePeriod, RefundDies, tables
<1> QED
  BY <1>4, <1>5, <1>6, <1>7

LEMMA StepRefines ==
    ASSUME TypeOK, Next
    PROVE  Allowance!Next \/ UNCHANGED rows
<1>1. ASSUME NEW w \in Workers, NEW k \in Keys, RequestBegins(w, k) PROVE UNCHANGED rows
  BY <1>1 DEF RequestBegins, ReserveBegin, RenewBegin, ReleaseBegin, AiBegin, tables
<1>2. ASSUME NEW w \in Workers, WorkerDies(w) PROVE UNCHANGED rows
  BY <1>2 DEF WorkerDies, tables
<1>3. ASSUME NEW k \in Keys, CompleteUsage(k) PROVE Allowance!Next
  <2>1. rows[k] \in Rows
    BY DEF TypeOK
  <2>2. CASE rows[k].status = "reserved"
    BY <1>3, <2>2, Spending DEF CompleteUsage
  <2>3. CASE rows[k].status = "completed"
    <3>1. [rows[k] EXCEPT !.status = "completed"] = rows[k]
      BY <2>1, <2>3 DEF Rows
    <3> QED
      BY <1>3, <3>1, KeepingSeen DEF CompleteUsage
  <2> QED
    BY <1>3, <2>2, <2>3 DEF CompleteUsage, IsActive
<1>4. ASSUME SettleExpired PROVE Allowance!Next
  BY <1>4, SettlingSeen DEF SettleExpired, TypeOK
<1>5. ASSUME Tick PROVE UNCHANGED rows
  BY <1>5 DEF Tick, tables
<1> QED
  BY <1>1, <1>2, <1>3, <1>4, <1>5, ReserveRefines, RenewRefines, OtherRequestsRefine,
     LedgerRefines DEF Next

LEMMA InitRefines == Init => Allowance!Init
<1>1. VideoOf(NoRow) = Allowance!NoVideo
  <2>1. StageOf["absent"] = "none"
    BY DEF StageOf
  <2> QED
    BY <2>1 DEF VideoOf, NoRow, Allowance!NoVideo, NoBucket, Allowance!NoBucket
<1> QED
  BY <1>1 DEF Init, Allowance!Init

\* Every statement of every request is a step of the allowance or changes
\* nothing it sees: racing, retrying, lapsing, leaving, refunding and dying
\* never let the tables do what the allowance does not allow.
THEOREM Implements == Spec => ImplementsAllowance
<1>1. Init => Allowance!Init
  BY InitRefines
<1>2. TypeOK /\ [Next]_vars => [Allowance!Next]_[k \in Keys |-> VideoOf(rows[k])]
  <2>1. CASE TypeOK /\ Next
    BY <2>1, StepRefines, NothingSeen
  <2>2. CASE UNCHANGED vars
    BY <2>2, NothingSeen DEF vars
  <2> QED
    BY <2>1, <2>2
<1> QED
  BY <1>1, <1>2, Types, PTL DEF Spec, ImplementsAllowance, Allowance!Spec

-------------------------------------------------------------------------------
(* What the allowance promises, said of the tables: the theorems of          *)
(* VideoAllowanceProofs, of the allowance the tables implement.             *)

Promise == INSTANCE VideoAllowanceProofs WITH
              video <- [k \in Keys |-> VideoOf(rows[k])], Times <- 1 .. MaxTime

USE DEF Promise!NoPurchase

\* The constants of the tables are constants the allowance allows.
LEMMA PromiseAssumptions == Promise!AllowanceAssumption /\ Promise!PolicyAssumption
<1>1. IsFiniteSet(Keys) = Promise!IsFiniteSet(Keys)
  BY DEF IsFiniteSet, Promise!IsFiniteSet
<1>2. Promise!AllowanceAssumption
  BY <1>1, ReservationAssumption DEF Promise!AllowanceAssumption
<1>3. Promise!PolicyAssumption
  BY PolicyAssumption DEF Promise!PolicyAssumption
<1> QED
  BY <1>2, <1>3

\* Both copies of the allowance are the same specification.
LEMMA SameAllowance == Allowance!Spec => Promise!Spec
<1>0. /\ \A S : Allowance!Cardinality(S) = Promise!Cardinality(S)
      /\ \A f, S : Allowance!SumFunctionOnSet(f, S) = Promise!SumFunctionOnSet(f, S)
      /\ \A t : Allowance!StartOfTokyoDay(t) = Promise!StartOfTokyoDay(t)
  BY Zenon DEF Allowance!Cardinality, Promise!Cardinality, Allowance!SumFunctionOnSet,
    Promise!SumFunctionOnSet, Allowance!FoldFunctionOnSet, Promise!FoldFunctionOnSet,
    Allowance!MapThenFoldSet, Promise!MapThenFoldSet, Allowance!StartOfTokyoDay, Promise!StartOfTokyoDay
<1>1. Allowance!Init => Promise!Init
  BY DEF Allowance!Init, Promise!Init, Allowance!NoVideo, Promise!NoVideo, Allowance!NoBucket, Promise!NoBucket
<1>2. /\ Allowance!FreeVideos = Promise!FreeVideos
      /\ \A p : Allowance!VideosOnPurchase(p) = Promise!VideosOnPurchase(p)
      /\ \A d : Allowance!OperatorVideosOn(d) = Promise!OperatorVideosOn(d)
  BY <1>0 DEF 
    Allowance!FreeVideos, Promise!FreeVideos, Allowance!IsPaid, Promise!IsPaid,
    Allowance!VideosOnPurchase, Promise!VideosOnPurchase, Allowance!OperatorVideosOn, Promise!OperatorVideosOn
<1>3. ASSUME NEW k, NEW b, NEW p, NEW t PROVE Allowance!HasRoom(k,b,p,t) = Promise!HasRoom(k,b,p,t)
  BY <1>0, <1>2 DEF Allowance!HasRoom, Promise!HasRoom
<1>4. ASSUME NEW k, NEW b, NEW p, NEW t
      PROVE  Allowance!Hold(k, b, p, t) => Promise!Hold(k, b, p, t)
  BY Zenon, <1>3 DEF Allowance!Hold, Promise!Hold
<1>5. ASSUME NEW k PROVE Allowance!Spend(k) => Promise!Spend(k)
  BY Zenon DEF Allowance!Spend, Promise!Spend
<1>6. ASSUME NEW K PROVE Allowance!GiveBack(K) => Promise!GiveBack(K)
  BY Zenon DEF Allowance!GiveBack, Promise!GiveBack
<1>7. ASSUME NEW k, NEW b, NEW t
      PROVE  Allowance!Withdraw(k, b, t) => Promise!Withdraw(k, b, t)
  BY Zenon DEF Allowance!Withdraw, Promise!Withdraw
<1>8. Allowance!Next => Promise!Next
  <2>1. Allowance!Buckets = Promise!Buckets
    BY DEF Allowance!Buckets, Promise!Buckets
  <2>2. Allowance!NoPurchase = Promise!NoPurchase
    OBVIOUS
  <2> QED
    BY <1>4, <1>5, <1>6, <1>7, <2>1, <2>2 DEF Allowance!Next, Promise!Next
<1> QED
  BY <1>1, <1>8, PTL DEF Allowance!Spec, Promise!Spec

\* The videos of each allowance are the reservations the tables count.
LEMMA PromisedVideos ==
    ASSUME TypeOK
    PROVE  /\ Cardinality(FreeVideos) = Promise!Cardinality(Promise!FreeVideos)
           /\ SumFunctionOnSet(Duration, FreeVideos)
                = Promise!SumFunctionOnSet(Duration, Promise!FreeVideos)
           /\ \A p \in Purchases : VideosOnPurchase(p) = Promise!VideosOnPurchase(p)
           /\ \A t \in 1 .. MaxTime :
                 Cardinality(OperatorVideosOn(StartOfTokyoDay(t)))
                   = Promise!Cardinality(Promise!OperatorVideosOn(Promise!StartOfTokyoDay(t)))
<1>1. /\ \A S : Promise!Cardinality(S) = Cardinality(S)
      /\ \A t : Promise!StartOfTokyoDay(t) = StartOfTokyoDay(t)
      /\ \A f, S : Promise!SumFunctionOnSet(f, S) = SumFunctionOnSet(f, S)
  BY Zenon DEF Promise!Cardinality, Cardinality, Promise!StartOfTokyoDay, StartOfTokyoDay,
    Promise!SumFunctionOnSet, Promise!FoldFunctionOnSet, Promise!MapThenFoldSet,
    SumFunctionOnSet, FoldFunctionOnSet, MapThenFoldSet
<1>2. ASSUME NEW k \in Keys
      PROVE  /\ Promise!IsPaid(k) <=> IsActive(k)
             /\ [j \in Keys |-> VideoOf(rows[j])][k].bucket = rows[k].bucket
             /\ [j \in Keys |-> VideoOf(rows[j])][k].purchase = rows[k].purchase
             /\ [j \in Keys |-> VideoOf(rows[j])][k].created = rows[k].created
  <2>1. rows[k] \in Rows
    BY DEF TypeOK
  <2> QED
    BY <2>1, Seen DEF Promise!IsPaid, IsActive
<1>3. Promise!FreeVideos = FreeVideos
  BY <1>2 DEF Promise!FreeVideos, FreeVideos
<1>4. \A p \in Purchases : VideosOnPurchase(p) = Promise!VideosOnPurchase(p)
  BY <1>2 DEF Promise!VideosOnPurchase, VideosOnPurchase
<1>5. ASSUME NEW t \in 1 .. MaxTime
      PROVE  Promise!OperatorVideosOn(Promise!StartOfTokyoDay(t))
               = OperatorVideosOn(StartOfTokyoDay(t))
  BY <1>1, <1>2 DEF Promise!OperatorVideosOn, OperatorVideosOn
<1> QED
  BY <1>1, <1>3, <1>4, <1>5

\* A saved video stays charged, to the same allowance, in every behaviour: the
\* WHERE clauses on status leave completed rows to the statements that only
\* extend their expiry.
THEOREM SavedStaysCharged == Spec => CompletedIsTerminal
<1> DEFINE video == [k \in Keys |-> VideoOf(rows[k])]
<1>1. Spec => Promise!SpentStaysSpent
  BY Implements, SameAllowance, PromiseAssumptions, Promise!Spent, PTL DEF ImplementsAllowance
<1>2. TypeOK /\ TypeOK'
      /\ [\A k \in Keys : video[k].stage = "spent" => video'[k] = video[k]]_video
      => [\A k \in Keys : rows[k].status = "completed" =>
             /\ rows'[k].status = "completed"
             /\ rows'[k].bucket = rows[k].bucket
             /\ rows'[k].created = rows[k].created
             /\ rows'[k].purchase = rows[k].purchase]_vars
  <2>1. SUFFICES ASSUME TypeOK, TypeOK', NEW k \in Keys, rows[k].status = "completed",
                        \/ \A j \in Keys : video[j].stage = "spent" => video'[j] = video[j]
                        \/ UNCHANGED video
                 PROVE  Kept(rows[k], rows'[k])
    BY DEF Kept
  <2>2. rows[k] \in Rows /\ rows'[k] \in Rows
    BY <2>1 DEF TypeOK
  <2>3. video[k].stage = "spent"
    BY <2>1, <2>2, Seen
  <2>4. video'[k] = video[k]
    BY <2>1, <2>3
  <2> QED
    BY <2>1, <2>2, <2>3, <2>4, Seen DEF Kept
<1> QED
  BY <1>1, <1>2, Types, PTL DEF Spec, CompletedIsTerminal, Promise!SpentStaysSpent

\* The free trial never pays for more videos than its limit.
THEOREM FreeVideosStayWithinLimit == Spec => []FreeVideoQuota
<1>1. Spec => []Promise!FreeTrialWithinLimit
  BY Implements, SameAllowance, PromiseAssumptions, Promise!FreeTrial, PTL
     DEF ImplementsAllowance
<1>2. TypeOK /\ Promise!FreeTrialWithinLimit => FreeVideoQuota
  BY PromisedVideos DEF Promise!FreeTrialWithinLimit, FreeVideoQuota
<1> QED
  BY <1>1, <1>2, Types, PTL

\* Nor for more source seconds.
THEOREM FreeSecondsStayWithinLimit == Spec => []FreeSecondsQuota
<1>1. Spec => []Promise!FreeSecondsWithinLimit
  BY Implements, SameAllowance, PromiseAssumptions, Promise!FreeSeconds, PTL
     DEF ImplementsAllowance
<1>2. TypeOK /\ Promise!FreeSecondsWithinLimit => FreeSecondsQuota
  BY PromisedVideos DEF Promise!FreeSecondsWithinLimit, FreeSecondsQuota
<1> QED
  BY <1>1, <1>2, Types, PTL

\* Two reservations never use the one credit of the same purchase, however
\* many purchases, requests and refunds there are.
THEOREM OnePurchaseOneVideo == Spec => []PurchaseFundsOneVideo
<1>1. Spec => []Promise!OneVideoPerPurchase
  BY Implements, SameAllowance, PromiseAssumptions, Promise!PurchaseOnce, PTL
     DEF ImplementsAllowance
<1>2. TypeOK /\ Promise!OneVideoPerPurchase => PurchaseFundsOneVideo
  <2>1. SUFFICES ASSUME TypeOK, Promise!OneVideoPerPurchase, NEW p \in Purchases
                 PROVE  Cardinality(VideosOnPurchase(p)) <= 1
    BY DEF PurchaseFundsOneVideo
  <2>2. CASE VideosOnPurchase(p) = {}
    BY <2>2, FS_EmptySet
  <2>3. CASE VideosOnPurchase(p) # {}
    <3>1. PICK k \in Keys : k \in VideosOnPurchase(p)
      BY <2>3 DEF VideosOnPurchase
    <3>2. \A j \in VideosOnPurchase(p) : j = k
      BY <2>1, <3>1, PromisedVideos DEF Promise!OneVideoPerPurchase, VideosOnPurchase
    <3>3. VideosOnPurchase(p) = {k}
      BY <3>1, <3>2
    <3> QED
      BY <3>3, FS_Singleton
  <2> QED
    BY <2>2, <2>3
<1> QED
  BY <1>1, <1>2, Types, PTL

\* No Tokyo day pays for more operator videos than the limit, although requests
\* insert with clock readings of the day before.
THEOREM OperatorDayStaysWithinLimit == Spec => []OperatorQuota
<1>1. Spec => []Promise!OperatorDayWithinLimit
  BY Implements, SameAllowance, PromiseAssumptions, Promise!OperatorDay, PTL
     DEF ImplementsAllowance
<1>2. TypeOK /\ Promise!OperatorDayWithinLimit => OperatorQuota
  BY PromisedVideos DEF Promise!OperatorDayWithinLimit, OperatorQuota
<1> QED
  BY <1>1, <1>2, Types, PTL

-------------------------------------------------------------------------------
(***************************************************************************)
(* What VideoAllowance does not know of: leases, release intents, refunds  *)
(* and plans.  The properties follow from what one step can make of one    *)
(* row (RowStep), and from an invariant of the clock readings, the leases, *)
(* the subscription and the refund in progress (Standing).                 *)
(***************************************************************************)

-------------------------------------------------------------------------------
(* The inductive invariant, beside TypeOK.                                  *)

\* A request goes on with a reading of the clock, never with a later time.
ReadingsArePast == \A w \in Workers : ~At(w, "idle") => h[w].t <= now

\* A lease is only taken of a row that is there, and rows are never deleted.
LeasesHaveRows == \A k \in Keys : leases[k].expires > 0 => rows[k].status # "absent"

\* A subscription row is a whole period; a refund revokes the current period,
\* or the note is of a period that is over.
PeriodsAreWhole ==
    sub # NoSub => /\ sub.plan \in Plans
                   /\ sub.end = sub.start + PeriodLength /\ sub.start >= 1
                   /\ sub.revoked <= sub.start

CreditsAreNamed == \A k \in Keys : rows[k].bucket = "one_time" => rows[k].purchase \in Purchases

\* A refund in progress is of a purchase, or of a period it knows the end of.
RefundsKnowTheirs ==
    /\ refund.purchase # NoPurchase => refund.start = 0
    /\ refund.pc \in {"revokePeriod", "expirePeriod", "releasePeriod"} => refund.start >= 1
    /\ refund.pc \in {"expirePeriod", "releasePeriod"} =>
          refund.end = refund.start + PeriodLength

Standing == /\ ReadingsArePast /\ LeasesHaveRows /\ PeriodsAreWhole
            /\ CreditsAreNamed /\ RefundsKnowTheirs

-------------------------------------------------------------------------------
(* What one step makes of one request.                                      *)

RenewPcs == {"renewCheckCompleted", "renewExtendCompleted", "renewSettle", "renewChoose",
             "renewExtend", "renewCheckLease", "renewReactivate"}

\* The lease of v's key comes to be v's, or nobody's.
TakesLease(v) ==
    /\ At(v, "aiAcquire") /\ CanAcquire(h[v].key, h[v].t)
    /\ leases' = [leases EXCEPT ![h[v].key] = [holder |-> v, expires |-> h[v].t + LeaseTTL]]
    /\ h' = [h EXCEPT ![v].pc = "aiRunning"]
    /\ UNCHANGED <<now, rows>>

GivesLease(v) ==
    /\ At(v, "aiRunning") /\ leases[h[v].key].holder = v
    /\ leases' = [leases EXCEPT ![h[v].key] = NoLease]
    /\ h' = [h EXCEPT ![v].pc = "aiFinalize", ![v].t = now]
    /\ UNCHANGED <<now, rows>>

\* The request of v becomes r: its time is kept, or is read anew; it only comes
\* to run AI work by taking the lease, and only to renew as the caller asked.
Moved(v, r) ==
    /\ h' = [h EXCEPT ![v] = r]
    /\ r = Idle \/ r.t = now \/ (~At(v, "idle") /\ r.t = h[v].t)
    /\ r.pc = "aiRunning" => TakesLease(v)
    /\ r.pc \in RenewPcs => \/ r.resume \in ResumeModes
                            \/ h[v].pc \in RenewPcs /\ r.resume = h[v].resume

LEMMA Moves ==
    ASSUME TypeOK, NEW v \in Workers
    PROVE  /\ Finish(v) => \E r : Moved(v, r)
           /\ \A pc : /\ h[v].pc # "idle"
                      /\ pc = "aiRunning" => TakesLease(v)
                      /\ pc \in RenewPcs => h[v].pc \in RenewPcs
                      => /\ Goto(v, pc) => \E r : Moved(v, r)
                         /\ GotoAt(v, pc, now) => \E r : Moved(v, r)
<1>1. Idle.pc \notin RenewPcs /\ Idle.pc # "aiRunning"
  BY DEF Idle, RenewPcs
<1>2. Finish(v) => \E r : Moved(v, r)
  <2>1. Finish(v) => Moved(v, Idle)
    BY <1>1 DEF Finish, Become, Moved
  <2> QED
    BY <2>1
<1>3. ASSUME NEW pc, h[v].pc # "idle", pc = "aiRunning" => TakesLease(v),
             pc \in RenewPcs => h[v].pc \in RenewPcs
      PROVE  /\ Goto(v, pc) => Moved(v, [h[v] EXCEPT !.pc = pc])
             /\ GotoAt(v, pc, now) => Moved(v, [h[v] EXCEPT !.pc = pc, !.t = now])
  <2>1. h[v] \in Requests
    BY <1>3, Serving
  <2>2. /\ [h[v] EXCEPT !.pc = pc].pc = pc
        /\ [h[v] EXCEPT !.pc = pc].t = h[v].t
        /\ [h[v] EXCEPT !.pc = pc].resume = h[v].resume
        /\ [h[v] EXCEPT !.pc = pc, !.t = now].pc = pc
        /\ [h[v] EXCEPT !.pc = pc, !.t = now].t = now
        /\ [h[v] EXCEPT !.pc = pc, !.t = now].resume = h[v].resume
    BY <2>1 DEF Requests
  <2> QED
    BY <1>3, <2>2 DEF Goto, GotoAt, Moved, At
<1> QED
  BY <1>2, <1>3

LEMMA ReserveMoves ==
    ASSUME TypeOK, NEW v \in Workers, ReserveStep(v)
    PROVE  now' = now /\ UNCHANGED leases /\ \E r : Moved(v, r)
<1>0. now' = now /\ UNCHANGED leases
  BY DEF ReserveStep, ReserveReconcile, ReserveMaterialize, ReserveSettle, ReserveChoose,
     ReserveInsert, ReserveRecheck, tables
<1>1. CASE ReserveReconcile(v)
  BY <1>1, Moves DEF ReserveReconcile
<1>2. CASE ReserveMaterialize(v)
  <2> DEFINE r == [h[v] EXCEPT !.pc = "reserveSettle", !.attempt = @ + 1]
  <2>1. Finish(v) \/ h' = [h EXCEPT ![v] = r]
    BY <1>2 DEF ReserveMaterialize
  <2>2. h[v] \in Requests /\ h[v].pc # "idle"
    BY <1>2, Serving DEF ReserveMaterialize, At
  <2>3. r.pc = "reserveSettle" /\ r.t = h[v].t
    BY <2>2 DEF Requests
  <2> HIDE DEF r
  <2>4. h' = [h EXCEPT ![v] = r] => Moved(v, r)
    BY <2>2, <2>3 DEF Moved, RenewPcs, At
  <2> QED
    BY <1>0, <2>1, <2>4, Moves
<1>3. CASE ReserveSettle(v)
  BY <1>0, <1>3, Moves DEF ReserveSettle, At, RenewPcs
<1>4. CASE ReserveChoose(v)
  <2> DEFINE k == h[v].key
             bucket == ChooseBillingBucket(h[v].operator, BillingSnapshot(h[v].t), Duration[k])
             held == IF bucket = "subscription" THEN CurrentSub(h[v].t) ELSE NoSub
             r == [h[v] EXCEPT !.pc = "reserveInsert", !.bucket = bucket, !.held = held,
                               !.t = now]
  <2>1. Finish(v) \/ h' = [h EXCEPT ![v] = r]
    BY <1>4 DEF ReserveChoose
  <2> HIDE DEF bucket, held
  <2>2. h[v] \in Requests
    BY <1>4, Serving DEF ReserveChoose, At
  <2>3. r.pc = "reserveInsert" /\ r.t = now
    BY <2>2 DEF Requests
  <2> HIDE DEF r
  <2>4. h' = [h EXCEPT ![v] = r] => Moved(v, r)
    BY <2>3 DEF Moved, RenewPcs
  <2> QED
    BY <1>0, <2>1, <2>4, Moves
<1>5. CASE ReserveInsert(v)
  <2> DEFINE r == [h[v] EXCEPT !.pc = "reserveRecheck", !.bucket = NoBucket, !.held = NoSub]
  <2>1. Finish(v) \/ h' = [h EXCEPT ![v] = r]
    BY <1>5 DEF ReserveInsert
  <2>2. h[v] \in Requests /\ h[v].pc # "idle"
    BY <1>5, Serving DEF ReserveInsert, At
  <2>3. r.pc = "reserveRecheck" /\ r.t = h[v].t
    BY <2>2 DEF Requests
  <2> HIDE DEF r
  <2>4. h' = [h EXCEPT ![v] = r] => Moved(v, r)
    BY <2>2, <2>3 DEF Moved, RenewPcs, At
  <2> QED
    BY <1>0, <2>1, <2>4, Moves
<1>6. CASE ReserveRecheck(v)
  BY <1>0, <1>6, Moves DEF ReserveRecheck, At, RenewPcs
<1> QED
  BY <1>0, <1>1, <1>2, <1>3, <1>4, <1>5, <1>6 DEF ReserveStep

LEMMA RenewMoves ==
    ASSUME TypeOK, NEW v \in Workers, RenewStep(v)
    PROVE  now' = now /\ UNCHANGED leases /\ \E r : Moved(v, r)
<1>0. now' = now /\ UNCHANGED leases
  BY DEF RenewStep, RenewCheckCompleted, RenewExtendCompleted, RenewSettle, RenewChoose,
     RenewExtend, RenewCheckLease, RenewReactivate, tables
<1>1. CASE RenewCheckCompleted(v)
  BY <1>0, <1>1, Moves DEF RenewCheckCompleted, At, RenewPcs
<1>2. CASE RenewExtendCompleted(v)
  BY <1>0, <1>2, Moves DEF RenewExtendCompleted
<1>3. CASE RenewSettle(v)
  BY <1>0, <1>3, Moves DEF RenewSettle, At, RenewPcs
<1>4. CASE RenewChoose(v)
  <2> DEFINE k == h[v].key
             bucket == ChooseBillingBucket(h[v].operator, BillingSnapshot(h[v].t), Duration[k])
             held == IF bucket = "subscription" THEN CurrentSub(h[v].t) ELSE NoSub
             pc == IF h[v].current /\ ~IsUpgrade(h[v].oldBucket, bucket)
                     THEN "renewExtend" ELSE "renewCheckLease"
             r == [h[v] EXCEPT !.pc = pc, !.bucket = bucket, !.held = held]
  <2>1. h' = [h EXCEPT ![v] = r]
    BY <1>4 DEF RenewChoose
  <2>2. pc \in RenewPcs /\ pc # "aiRunning"
    BY DEF RenewPcs
  <2> HIDE DEF pc, bucket, held
  <2>3. h[v] \in Requests /\ h[v].pc = "renewChoose"
    BY <1>4, Serving DEF RenewChoose, At
  <2>4. r.pc = pc /\ r.t = h[v].t /\ r.resume = h[v].resume
    BY <2>3 DEF Requests
  <2> HIDE DEF r
  <2>5. Moved(v, r)
    BY <2>1, <2>2, <2>3, <2>4 DEF Moved, RenewPcs, At
  <2> QED
    BY <1>0, <2>5
<1>5. CASE RenewExtend(v)
  <2>1. Finish(v) \/ Goto(v, "renewCheckLease")
    BY <1>5 DEF RenewExtend
  <2> QED
    BY <1>0, <1>5, <2>1, Moves DEF RenewExtend, At, RenewPcs
<1>6. CASE RenewCheckLease(v)
  <2>1. Finish(v) \/ Goto(v, "renewReactivate")
    BY <1>6 DEF RenewCheckLease
  <2> QED
    BY <1>0, <1>6, <2>1, Moves DEF RenewCheckLease, At, RenewPcs
<1>7. CASE RenewReactivate(v)
  BY <1>0, <1>7, Moves DEF RenewReactivate
<1> QED
  BY <1>1, <1>2, <1>3, <1>4, <1>5, <1>6, <1>7 DEF RenewStep

LEMMA BeginMoves ==
    ASSUME TypeOK, NEW v \in Workers, NEW k \in Keys, RequestBegins(v, k)
    PROVE  /\ UNCHANGED <<now, tables, ledger>>
           /\ \E r : Moved(v, r)
<1>0. UNCHANGED <<now, tables, ledger>>
  BY DEF RequestBegins, ReserveBegin, RenewBegin, ReleaseBegin, AiBegin
<1>1. ASSUME NEW r, r.pc \notin RenewPcs, r.pc # "aiRunning", r.t = now, Become(v, r)
      PROVE  \E q : Moved(v, q)
  <2>1. Moved(v, r)
    BY <1>1 DEF Become, Moved
  <2> QED
    BY <2>1
<1>2. ASSUME NEW operator, ReserveBegin(v, k, operator) PROVE \E r : Moved(v, r)
  <2> DEFINE pc == IF rows[k] = NoRow THEN "reserveMaterialize" ELSE "reserveReconcile"
             r == [Idle EXCEPT !.pc = pc, !.key = k, !.operator = operator, !.t = now]
  <2>1. pc \notin RenewPcs /\ pc # "aiRunning"
    BY DEF RenewPcs
  <2>2. Become(v, r)
    BY <1>2 DEF ReserveBegin
  <2> HIDE DEF pc
  <2>3. r.pc = pc /\ r.t = now
    BY DEF Idle
  <2> HIDE DEF r
  <2> QED
    BY <1>1, <2>1, <2>2, <2>3
<1>4. ASSUME ReleaseBegin(v, k) PROVE \E r : Moved(v, r)
  <2> DEFINE r == [Idle EXCEPT !.pc = "releaseBatch", !.key = k, !.t = now]
  <2>1. Become(v, r) /\ r.pc = "releaseBatch" /\ r.t = now
    BY <1>4 DEF ReleaseBegin, Idle
  <2> HIDE DEF r
  <2> QED
    BY <1>1, <2>1 DEF RenewPcs
<1>5. ASSUME AiBegin(v, k) PROVE \E r : Moved(v, r)
  <2> DEFINE r == [Idle EXCEPT !.pc = "aiAcquire", !.key = k, !.t = now]
  <2>1. Become(v, r) /\ r.pc = "aiAcquire" /\ r.t = now
    BY <1>5 DEF AiBegin, Idle
  <2> HIDE DEF r
  <2> QED
    BY <1>1, <2>1 DEF RenewPcs
<1>6. ASSUME NEW operator, NEW resume \in ResumeModes, RenewBegin(v, k, operator, resume)
      PROVE  \E r : Moved(v, r)
  <2> DEFINE row == rows[k]
             pc == IF row.status = "completed" THEN "renewCheckCompleted" ELSE "renewSettle"
             current == row.status = "reserved" /\ ~IsExpired(row, now)
             r == [Idle EXCEPT !.pc = pc, !.key = k, !.operator = operator,
                               !.resume = resume, !.t = now, !.oldBucket = row.bucket,
                               !.current = current]
  <2>1. Become(v, r)
    BY <1>6 DEF RenewBegin
  <2>2. pc # "aiRunning"
    OBVIOUS
  <2> HIDE DEF pc, current, row
  <2>3. r.pc = pc /\ r.t = now /\ r.resume = resume
    BY DEF Idle
  <2> HIDE DEF r
  <2>4. Moved(v, r)
    BY <1>6, <2>1, <2>2, <2>3 DEF Become, Moved
  <2> QED
    BY <2>4
<1> QED
  BY <1>0, <1>2, <1>4, <1>5, <1>6 DEF RequestBegins

LEMMA AiMoves ==
    ASSUME TypeOK, NEW v \in Workers, AiStep(v)
    PROVE  /\ now' = now
           /\ UNCHANGED h \/ \E r : Moved(v, r)
           /\ UNCHANGED leases \/ TakesLease(v) \/ GivesLease(v)
<1>0. now' = now
  BY DEF AiStep, AiAcquire, AiBlock, AiRelease, AiFinalize
<1>1. CASE AiAcquire(v)
  <2>1. CASE CanAcquire(h[v].key, h[v].t)
    <3>1. TakesLease(v)
      BY <1>1, <2>1 DEF AiAcquire, TakesLease, Goto
    <3>2. \E r : Moved(v, r)
      BY <1>1, <3>1, Moves DEF AiAcquire, TakesLease, At, RenewPcs, Goto
    <3> QED
      BY <1>0, <3>1, <3>2
  <2>2. CASE ~CanAcquire(h[v].key, h[v].t)
    BY <1>0, <1>1, <2>2, Moves DEF AiAcquire
  <2> QED
    BY <2>1, <2>2
<1>2. CASE AiBlock(v)
  BY <1>2 DEF AiBlock
<1>3. CASE AiRelease(v)
  <2>1. CASE leases[h[v].key].holder = v
    <3>1. GivesLease(v)
      BY <1>3, <2>1 DEF AiRelease, GivesLease, GotoAt
    <3>2. \E r : Moved(v, r)
      BY <1>3, <2>1, Moves DEF AiRelease, At, RenewPcs
    <3> QED
      BY <1>0, <3>1, <3>2
  <2>2. CASE leases[h[v].key].holder # v
    BY <1>0, <1>3, <2>2, Moves DEF AiRelease
  <2> QED
    BY <2>1, <2>2
<1>4. CASE AiFinalize(v)
  BY <1>0, <1>4, Moves DEF AiFinalize
<1> QED
  BY <1>1, <1>2, <1>3, <1>4 DEF AiStep

\* What a step does to the clock, to the requests and to the leases.
LEMMA StepMoves ==
    ASSUME TypeOK, Next
    PROVE  /\ now' \in Nat /\ now' >= now
           /\ UNCHANGED h \/ (\E v \in Workers : \E r : Moved(v, r))
           /\ UNCHANGED leases \/ \E v \in Workers : TakesLease(v) \/ GivesLease(v)
<1> DEFINE Goal == /\ now' \in Nat /\ now' >= now
                   /\ UNCHANGED h \/ (\E v \in Workers : \E r : Moved(v, r))
                   /\ UNCHANGED leases \/ \E v \in Workers : TakesLease(v) \/ GivesLease(v)
<1>0. now \in Nat
  BY ReservationAssumption DEF TypeOK
<1>1. ASSUME NEW v \in Workers, NEW k \in Keys, RequestBegins(v, k) PROVE Goal
  BY <1>0, <1>1, BeginMoves DEF tables
<1>2. ASSUME NEW v \in Workers, ReserveStep(v) PROVE Goal
  BY <1>0, <1>2, ReserveMoves
<1>3. ASSUME NEW v \in Workers, RenewStep(v) PROVE Goal
  BY <1>0, <1>3, RenewMoves
<1>4. ASSUME NEW v \in Workers, ReleaseBatch(v) PROVE Goal
  BY <1>0, <1>4, Moves DEF ReleaseBatch
<1>5. ASSUME NEW v \in Workers, AiStep(v) PROVE Goal
  BY <1>0, <1>5, AiMoves
<1>6. ASSUME NEW v \in Workers, WorkerDies(v) PROVE Goal
  BY <1>0, <1>6, Moves DEF WorkerDies, tables
<1>7. ASSUME NEW k \in Keys, CompleteUsage(k) PROVE Goal
  BY <1>0, <1>7 DEF CompleteUsage
<1>8. ASSUME SettleExpired PROVE Goal
  BY <1>0, <1>8 DEF SettleExpired
<1>9. ASSUME LedgerStep PROVE Goal
  <2>1. UNCHANGED <<now, h, leases>>
    BY <1>9 DEF LedgerStep, Subscribe, ChangePlan, RenewPeriod, CancelSubscription,
       UpsertSubscription, RecordPurchase, RestorePurchase, RefundPeriod, RefundPurchase,
       PublishPurchase, StopPurchase, RevokePeriod, ExpirePeriod, ReleasePeriod,
       RestorePeriod, RefundDies, tables
  <2> QED
    BY <1>0, <2>1
<1>10. ASSUME Tick PROVE Goal
  BY <1>0, <1>10 DEF Tick, tables
<1> HIDE DEF Goal
<1> QED
  <2> Goal
    BY <1>1, <1>2, <1>3, <1>4, <1>5, <1>6, <1>7, <1>8, <1>9, <1>10 DEF Next
  <2> QED
    BY DEF Goal

-------------------------------------------------------------------------------
(* Leases.                                                                  *)

LEMMA ReadingsStayPast ==
    ASSUME TypeOK, TypeOK', ReadingsArePast, Next
    PROVE  ReadingsArePast'
<1> SUFFICES ASSUME NEW w \in Workers, h'[w].pc # "idle"
             PROVE  h'[w].t <= now'
  BY DEF ReadingsArePast, At
<1>1. now \in Nat /\ now' \in Nat /\ now' >= now
  BY StepMoves, ReservationAssumption DEF TypeOK
<1>2. h[w].pc # "idle" => h[w].t \in Nat /\ h[w].t <= now
  BY Serving, ReservationAssumption DEF ReadingsArePast, At
<1>3. CASE UNCHANGED h
  BY <1>1, <1>2, <1>3
<1>4. ASSUME NEW v \in Workers, NEW r, Moved(v, r)
      PROVE  h'[w].t <= now'
  <2>1. CASE v # w
    <3>1. h'[w] = h[w]
      BY <1>4, <2>1 DEF Moved, TypeOK
    <3> QED
      BY <1>1, <1>2, <3>1
  <2>2. CASE v = w
    <3>1. h'[w] = r /\ r # Idle
      BY <1>4, <2>2 DEF Moved, TypeOK, Idle
    <3> QED
      BY <1>1, <1>2, <1>4, <2>2, <3>1 DEF Moved, At
  <2> QED
    BY <2>1, <2>2
<1> QED
  BY <1>3, <1>4, StepMoves

\* Two AI calls never hold an unexpired lease of one reservation: a lease is
\* only replaced once the clock reading of the new holder is past its end, and
\* that reading is no later than the clock.
LEMMA LeasesStayExclusive ==
    ASSUME TypeOK, ReadingsArePast, LeaseExclusive, Next
    PROVE  LeaseExclusive'
<1> SUFFICES ASSUME NEW w \in Workers, h'[w].pc = "aiRunning", h'[w].t + LeaseTTL > now'
             PROVE  leases'[h'[w].key] = [holder |-> w, expires |-> h'[w].t + LeaseTTL]
  BY DEF LeaseExclusive, Deadline, At
<1> DEFINE k == h[w].key
<1>1. now \in Nat /\ now' \in Nat /\ now' >= now /\ LeaseTTL \in Nat
  BY StepMoves, ReservationAssumption DEF TypeOK
<1>2. ASSUME h'[w] = h[w]
      PROVE  /\ leases[k] = [holder |-> w, expires |-> h[w].t + LeaseTTL]
             /\ leases[k].expires > now
             /\ k \in Keys
  <2>1. h[w].pc = "aiRunning" /\ h[w].t \in Nat
    BY <1>2, Serving, ReservationAssumption
  <2>2. h[w].t + LeaseTTL > now
    BY <1>1, <1>2, <2>1
  <2> QED
    BY <2>1, <2>2, Serving DEF LeaseExclusive, Deadline, At
<1>3. ASSUME NEW v \in Workers, TakesLease(v)
      PROVE  leases'[h'[w].key] = [holder |-> w, expires |-> h'[w].t + LeaseTTL]
  <2>0. h[v] \in Requests /\ h[v].key \in Keys /\ h[v].t \in Nat /\ h[v].t <= now
    BY <1>3, Serving, ReservationAssumption DEF TakesLease, At, ReadingsArePast
  <2>1. CASE v = w
    <3>1. h'[w].key = h[w].key /\ h'[w].t = h[w].t
      BY <1>3, <2>0, <2>1 DEF TakesLease, TypeOK, Requests
    <3> QED
      BY <1>3, <2>0, <2>1, <3>1 DEF TakesLease, TypeOK
  <2>2. CASE v # w
    <3>1. h'[w] = h[w]
      BY <1>3, <2>2 DEF TakesLease, TypeOK
    <3>2. h[v].key # k
      <4>1. ~(leases[h[v].key].expires > h[v].t)
        BY <1>3 DEF TakesLease, CanAcquire, LiveLease
      <4>2. leases[h[v].key].expires \in Nat
        BY <2>0 DEF TypeOK
      <4> QED
        BY <1>1, <1>2, <2>0, <3>1, <4>1, <4>2
    <3>3. leases'[k] = leases[k]
      BY <1>2, <1>3, <3>1, <3>2 DEF TakesLease, TypeOK
    <3> QED
      BY <1>2, <3>1, <3>3
  <2> QED
    BY <2>1, <2>2
<1>4. ASSUME NEW v \in Workers, GivesLease(v)
      PROVE  leases'[h'[w].key] = [holder |-> w, expires |-> h'[w].t + LeaseTTL]
  <2>0. h[v] \in Requests
    BY <1>4, Serving DEF GivesLease, At
  <2>1. v # w
    BY <1>4, <2>0 DEF GivesLease, TypeOK, Requests
  <2>2. h'[w] = h[w]
    BY <1>4, <2>1 DEF GivesLease, TypeOK
  <2>3. leases'[k] = leases[k]
    BY <1>2, <1>4, <2>1, <2>2 DEF GivesLease, TypeOK
  <2> QED
    BY <1>2, <2>2, <2>3
<1>5. CASE UNCHANGED leases /\ ~ \E v \in Workers : TakesLease(v)
  <2>1. h'[w] = h[w]
    <3>1. ASSUME NEW v \in Workers, NEW r, Moved(v, r) PROVE h'[w] = h[w]
      BY <1>5, <3>1 DEF Moved, TypeOK
    <3> QED
      BY <3>1, StepMoves
  <2> QED
    BY <1>2, <1>5, <2>1
<1> QED
  BY <1>3, <1>4, <1>5, StepMoves

-------------------------------------------------------------------------------
(* What one step makes of one row.                                          *)

\* If the step leaves an intent to release k that was not there, it applied it.
Heeded(k) ==
    \/ intents'[k].expires <= intents[k].expires
    \/ intents'[k].expires < now
    \/ rows'[k].status # "reserved" \/ rows'[k].releaseRequested

\* Only what the allowance does not see may change, and a mark stays.
Spared(k) ==
    /\ Kept(rows[k], rows'[k])
    /\ rows[k].releaseRequested => rows'[k].releaseRequested
    /\ Heeded(k)

\* A renewal that resumes extends the row, and takes mark and intent away.
Extended(k) == Kept(rows[k], rows'[k]) /\ intents'[k] = NoIntent

\* The row is given back, and nothing but a refund takes it from AI work.
GivenBack(k) ==
    /\ Dropped(rows[k], rows'[k])
    /\ LiveLease(k, now) => refund.pc \in {"stopPurchase", "releasePeriod"}

\* An allowance with room comes to fund the row, with a reading t of the clock.
FundedAt(k, bucket, held, t) ==
    /\ CanFund(k, bucket, held, t)
    /\ WriteRow(k, FundedRow(k, bucket, t))
    /\ ~LiveLease(k, t)
    /\ UNCHANGED <<now, leases, ledger>>
    /\ \/ ~LiveIntent(k, t) /\ UNCHANGED intents
       \/ \E w \in Workers : /\ At(w, "renewReactivate")
                             /\ h[w].resume => intents'[k] = NoIntent

Funded(k) ==
    \E bucket \in Buckets, held \in Subs, t \in 1 .. MaxTime :
        t <= now /\ FundedAt(k, bucket, held, t)

\* The row of a key released in advance.
Withdrawn(k) ==
    /\ rows[k] = NoRow
    /\ rows'[k].status = "released" /\ rows'[k].bucket \in {"operator", "free"}

Saved(k) ==
    /\ rows[k].status = "reserved" /\ rows'[k].status = "completed"
    /\ rows'[k].bucket = rows[k].bucket /\ rows'[k].purchase = rows[k].purchase
    /\ rows'[k].created = rows[k].created

RowStep(k) == \/ Spared(k) \/ Extended(k) \/ GivenBack(k)
              \/ Funded(k) \/ Withdrawn(k) \/ Saved(k)

LEMMA RowLeftAlone ==
    ASSUME TypeOK, NEW k \in Keys, rows'[k] = rows[k], UNCHANGED intents
    PROVE  RowStep(k)
<1>1. intents[k].expires <= intents[k].expires
  BY DEF TypeOK
<1> QED
  BY <1>1 DEF RowStep, Spared, Kept, Heeded

LEMMA RowRewritten ==
    ASSUME TypeOK, NEW k \in Keys, UNCHANGED intents, Kept(rows[k], rows'[k]),
           rows[k].releaseRequested => rows'[k].releaseRequested
    PROVE  RowStep(k)
<1>1. intents[k].expires <= intents[k].expires
  BY DEF TypeOK
<1> QED
  BY <1>1 DEF RowStep, Spared, Heeded

\* A lease that is live now was live at every reading of the clock.
LEMMA LiveAtReadings ==
    ASSUME TypeOK, NEW k \in Keys, NEW t \in 1 .. MaxTime, t <= now, LiveLease(k, now)
    PROVE  LiveLease(k, t)
<1>1. leases[k].expires \in Nat /\ now \in Nat /\ t \in Nat
  BY ReservationAssumption DEF TypeOK
<1> QED
  BY <1>1 DEF LiveLease

LEMMA SettledRows ==
    ASSUME TypeOK, NEW t \in 1 .. MaxTime, t <= now, UNCHANGED intents,
           rows' = [k \in Keys |-> SettledRow(k, t)], NEW j \in Keys
    PROVE  RowStep(j)
<1>1. \/ rows'[j] = rows[j]
      \/ Dropped(rows[j], rows'[j]) /\ ~LiveLease(j, t)
  BY RowsSeen DEF SettledRow
<1> QED
  BY <1>1, RowLeftAlone, LiveAtReadings DEF RowStep, GivenBack

\* What reconciling makes of a row, if the intent is live and if it is not.
LEMMA ReconciledRows ==
    ASSUME TypeOK, NEW k \in Keys, NEW t \in 1 .. MaxTime, NEW live \in BOOLEAN,
           NEW row, row = ReconciledRow(k, live, t)
    PROVE  \/ row = rows[k] /\ (live => rows[k].status # "reserved")
           \/ Kept(rows[k], row) /\ row.releaseRequested
           \/ Dropped(rows[k], row) /\ ~LiveLease(k, t)
<1> DEFINE marked == [rows[k] EXCEPT !.releaseRequested = TRUE]
<1>1. rows[k] \in Rows
  BY DEF TypeOK
<1>2. Kept(rows[k], marked) /\ marked.releaseRequested
  BY <1>1 DEF Kept, Rows
<1>3. CASE rows[k].status = "reserved" /\ live
  <2>1. CASE LiveLease(k, t)
    <3>1. row = marked
      BY <1>3, <2>1 DEF ReconciledRow
    <3> HIDE DEF marked
    <3> QED
      BY <1>2, <3>1
  <2>2. CASE ~LiveLease(k, t)
    <3>1. Kept(rows[k], row) \/ Dropped(rows[k], row)
      BY RowsSeen
    <3>2. row = Released(marked, t)
      BY <1>3, <2>2 DEF ReconciledRow
    <3>3. row.status = "released"
      BY <1>1, <3>2 DEF Released, Rows
    <3> QED
      BY <1>3, <2>2, <3>1, <3>3 DEF Kept
  <2> QED
    BY <2>1, <2>2
<1>4. CASE ~(rows[k].status = "reserved" /\ live)
  BY <1>4 DEF ReconciledRow
<1> QED
  BY <1>3, <1>4

\* One statement writes k's row: every other row is left alone.
LEMMA OtherRows ==
    ASSUME TypeOK, NEW k \in Keys, NEW row, WriteRow(k, row), NEW j \in Keys, j # k
    PROVE  rows'[j] = rows[j]
  BY DEF WriteRow, TypeOK

LEMMA WrittenRow ==
    ASSUME TypeOK, NEW k \in Keys, NEW row, WriteRow(k, row)
    PROVE  rows'[k] = row
  BY DEF WriteRow, TypeOK

LEMMA ReserveRows ==
    ASSUME TypeOK, Standing, NEW w \in Workers, ReserveStep(w), NEW j \in Keys
    PROVE  RowStep(j)
<1> DEFINE k == h[w].key
           t == h[w].t
<1>0. UNCHANGED <<now, intents, leases, ledger>>
  BY DEF ReserveStep, ReserveReconcile, ReserveMaterialize, ReserveSettle, ReserveChoose,
     ReserveInsert, ReserveRecheck, tables
<1>1. h[w].pc # "idle"
  BY DEF ReserveStep, ReserveReconcile, ReserveMaterialize, ReserveSettle, ReserveChoose,
     ReserveInsert, ReserveRecheck, At
<1>2. k \in Keys /\ t \in 1 .. MaxTime /\ t <= now
  BY <1>1, Serving DEF Standing, ReadingsArePast, At
<1>3. CASE ReserveReconcile(w)
  <2> DEFINE row == ReconciledRow(k, LiveIntent(k, t), t)
  <2>1. WriteRow(k, row)
    BY <1>3 DEF ReserveReconcile
  <2>2. LiveIntent(k, t) \in BOOLEAN
    BY DEF LiveIntent
  <2>3. \/ row = rows[k]
        \/ Kept(rows[k], row) /\ row.releaseRequested
        \/ Dropped(rows[k], row) /\ ~LiveLease(k, t)
    BY <1>2, <2>2, ReconciledRows
  <2> HIDE DEF row
  <2>4. CASE j = k
    <3>1. rows'[k] = row
      BY <1>2, <2>1, WrittenRow
    <3> QED
      BY <1>0, <1>2, <2>3, <2>4, <3>1, RowLeftAlone, RowRewritten, LiveAtReadings
         DEF RowStep, GivenBack
  <2>5. CASE j # k
    BY <1>0, <1>2, <2>1, <2>5, OtherRows, RowLeftAlone
  <2> QED
    BY <2>4, <2>5
<1>4. CASE ReserveMaterialize(w)
  <2>1. \/ rows[k] = NoRow /\ WriteRow(k, TombstoneRow(h[w].operator, t))
        \/ WriteRow(k, rows[k])
    BY <1>4 DEF ReserveMaterialize
  <2>2. CASE rows[k] = NoRow /\ WriteRow(k, TombstoneRow(h[w].operator, t))
    <3>1. CASE j = k
      <4>1. rows'[k] = TombstoneRow(h[w].operator, t)
        BY <1>2, <2>2, WrittenRow
      <4>2. Withdrawn(k)
        BY <2>2, <4>1 DEF Withdrawn, TombstoneRow
      <4> QED
        BY <3>1, <4>2 DEF RowStep
    <3>2. CASE j # k
      BY <1>0, <1>2, <2>2, <3>2, OtherRows, RowLeftAlone
    <3> QED
      BY <3>1, <3>2
  <2>3. CASE WriteRow(k, rows[k])
    BY <1>0, <1>2, <2>3, OtherRows, WrittenRow, RowLeftAlone
  <2> QED
    BY <2>1, <2>2, <2>3
<1>5. CASE ReserveSettle(w)
  <2>1. now \in 1 .. MaxTime /\ now <= now
    BY ReservationAssumption DEF TypeOK
  <2> QED
    BY <1>0, <1>5, <2>1, SettledRows DEF ReserveSettle
<1>6. CASE ReserveInsert(w)
  <2>1. CASE CanInsert(k, h[w])
    <3>1. CanFund(k, h[w].bucket, h[w].held, t) /\ rows[k] = NoRow /\ ~LiveIntent(k, t)
      BY <2>1 DEF CanInsert
    <3>2. WriteRow(k, FundedRow(k, h[w].bucket, t))
      BY <1>6, <2>1 DEF ReserveInsert
    <3>3. ~LiveLease(k, t)
      <4>1. ~(leases[k].expires > 0) /\ leases[k].expires \in Nat
        BY <1>2, <3>1 DEF Standing, LeasesHaveRows, NoRow, TypeOK
      <4> QED
        BY <1>2, <4>1, ReservationAssumption DEF LiveLease
    <3>4. h[w].bucket \in Buckets /\ h[w].held \in Subs
      BY <1>1, <3>1, Serving DEF CanFund, Buckets, Requests
    <3>5. Funded(k)
      BY <1>0, <1>2, <3>1, <3>2, <3>3, <3>4 DEF Funded, FundedAt
    <3>6. CASE j # k
      BY <1>0, <1>2, <3>2, <3>6, OtherRows, RowLeftAlone
    <3> QED
      BY <3>5, <3>6 DEF RowStep
  <2>2. CASE ~CanInsert(k, h[w])
    <3>1. WriteRow(k, rows[k])
      BY <1>6, <2>2 DEF ReserveInsert
    <3> QED
      BY <1>0, <1>2, <3>1, OtherRows, WrittenRow, RowLeftAlone
  <2> QED
    BY <2>1, <2>2
<1>7. CASE ReserveChoose(w) \/ ReserveRecheck(w)
  <2>1. UNCHANGED rows
    BY <1>7 DEF ReserveChoose, ReserveRecheck, tables
  <2> QED
    BY <1>0, <2>1, RowLeftAlone
<1> QED
  BY <1>3, <1>4, <1>5, <1>6, <1>7 DEF ReserveStep

LEMMA RenewRows ==
    ASSUME TypeOK, Standing, NEW w \in Workers, RenewStep(w), NEW j \in Keys
    PROVE  RowStep(j)
<1> DEFINE k == h[w].key
           t == h[w].t
<1>0. UNCHANGED <<now, leases, ledger>>
  BY DEF RenewStep, RenewCheckCompleted, RenewExtendCompleted, RenewSettle, RenewChoose,
     RenewExtend, RenewCheckLease, RenewReactivate, tables
<1>1. h[w].pc # "idle"
  BY DEF RenewStep, RenewCheckCompleted, RenewExtendCompleted, RenewSettle, RenewChoose,
     RenewExtend, RenewCheckLease, RenewReactivate, At
<1>2. k \in Keys /\ t \in 1 .. MaxTime /\ t <= now /\ rows[k] \in Rows
  BY <1>1, Serving DEF Standing, ReadingsArePast, At, TypeOK
<1>3. CASE RenewExtendCompleted(w)
  <2> DEFINE row == [rows[k] EXCEPT !.expires = Max2(@, t + Lifetime)]
  <2>1. UNCHANGED intents /\ (WriteRow(k, row) \/ WriteRow(k, rows[k]))
    BY <1>3 DEF RenewExtendCompleted
  <2>2. Kept(rows[k], row) /\ row.releaseRequested = rows[k].releaseRequested
    BY <1>2 DEF Kept, Rows
  <2> HIDE DEF row
  <2>3. CASE j = k
    <3>1. rows'[k] = row \/ rows'[k] = rows[k]
      BY <1>2, <2>1, WrittenRow
    <3> QED
      BY <1>2, <2>1, <2>2, <2>3, <3>1, RowLeftAlone, RowRewritten
  <2>4. CASE j # k
    BY <1>2, <2>1, <2>4, OtherRows, RowLeftAlone
  <2> QED
    BY <2>3, <2>4
<1>4. CASE RenewSettle(w)
  BY <1>2, <1>4, SettledRows DEF RenewSettle
<1>5. CASE RenewExtend(w)
  <2> DEFINE row == [rows[k] EXCEPT !.expires = Max2(rows[k].expires, t + Lifetime),
                                    !.releaseRequested = rows[k].releaseRequested
                                                           /\ ~h[w].resume]
  <2>1. \/ WriteRow(k, row) /\ rows[k].status = "reserved"
        \/ WriteRow(k, rows[k])
    BY <1>5 DEF RenewExtend
  <2>2. intents' = intents \/ intents' = [intents EXCEPT ![k] = NoIntent]
    BY <1>5 DEF RenewExtend
  <2>3. CASE j # k
    <3>1. rows'[j] = rows[j] /\ intents'[j] = intents[j]
      BY <1>2, <2>1, <2>2, <2>3, OtherRows DEF TypeOK
    <3>2. intents'[j].expires <= intents[j].expires
      BY <3>1 DEF TypeOK
    <3> QED
      BY <3>1, <3>2 DEF RowStep, Spared, Kept, Heeded
  <2>4. CASE j = k /\ ~h[w].resume
    <3>1. Kept(rows[k], row) /\ row.releaseRequested = rows[k].releaseRequested
      BY <1>2, <2>4, Zenon DEF Kept, Rows
    <3>2. rows'[k] = row \/ rows'[k] = rows[k]
      BY <1>2, <2>1, WrittenRow
    <3>3. UNCHANGED intents
      BY <1>5, <2>4 DEF RenewExtend
    <3> HIDE DEF row
    <3> QED
      BY <1>2, <2>4, <3>1, <3>2, <3>3, RowLeftAlone, RowRewritten
  <2>5. CASE j = k /\ h[w].resume
    <3>1. CASE WriteRow(k, row) /\ rows[k].status = "reserved"
      <4> DEFINE until == t + Lifetime
                 e == Max2(rows[k].expires, until)
      <4>1. e >= until
        <5>1. until \in Nat /\ rows[k].expires \in Nat
          BY <1>2, ReservationAssumption DEF Rows
        <5> HIDE DEF until
        <5> QED
          BY <5>1 DEF Max2
      <4>2. /\ Kept(rows[k], row)
            /\ row.status = "reserved" /\ ~row.releaseRequested /\ row.expires = e
        BY <1>2, <2>5, <3>1 DEF Kept, Rows
      <4>3. rows'[k] = row
        BY <1>2, <3>1, WrittenRow
      <4>4. intents'[k] = NoIntent
        <5>1. \E after : /\ rows'[k] = after
                         /\ intents' = IF /\ h[w].resume
                                          /\ after.status = "reserved"
                                          /\ ~after.releaseRequested
                                          /\ after.expires >= until
                                         THEN [intents EXCEPT ![k] = NoIntent] ELSE intents
          BY <1>2, <1>5, WrittenRow DEF RenewExtend
        <5> HIDE DEF row, until, e
        <5>2. PICK after :
                 /\ rows'[k] = after
                 /\ intents' = IF /\ h[w].resume
                                  /\ after.status = "reserved"
                                  /\ ~after.releaseRequested
                                  /\ after.expires >= until
                                 THEN [intents EXCEPT ![k] = NoIntent] ELSE intents
          BY <5>1
        <5>3. after = row
          BY <4>3, <5>2
        <5>4. intents' = [intents EXCEPT ![k] = NoIntent]
          BY <2>5, <4>1, <4>2, <5>2, <5>3
        <5> QED
          BY <1>2, <5>4 DEF TypeOK
      <4> HIDE DEF row
      <4> QED
        BY <2>5, <4>2, <4>3, <4>4 DEF RowStep, Extended
    <3>2. CASE WriteRow(k, rows[k])
      <4>1. rows'[k] = rows[k]
        BY <1>2, <3>2, WrittenRow
      <4>2. intents'[k].expires <= intents[k].expires
        BY <1>2, <2>2 DEF TypeOK, NoIntent
      <4> QED
        BY <2>5, <4>1, <4>2 DEF RowStep, Spared, Kept, Heeded
    <3> QED
      BY <2>1, <3>1, <3>2
  <2> QED
    BY <2>3, <2>4, <2>5
<1>6. CASE RenewReactivate(w)
  <2>2. intents' = intents \/ intents' = [intents EXCEPT ![k] = NoIntent]
    BY <1>6 DEF RenewReactivate
  <2>3. WriteRow(k, FundedRow(k, h[w].bucket, t)) \/ WriteRow(k, rows[k])
    BY <1>6 DEF RenewReactivate
  <2>4. CASE j # k
    <3>1. rows'[j] = rows[j] /\ intents'[j] = intents[j]
      BY <1>2, <2>2, <2>3, <2>4, OtherRows DEF TypeOK
    <3>2. intents'[j].expires <= intents[j].expires
      BY <3>1 DEF TypeOK
    <3> QED
      BY <3>1, <3>2 DEF RowStep, Spared, Kept, Heeded
  <2>5. CASE j = k /\ CanReactivate(k, h[w])
    <3>1. CanFund(k, h[w].bucket, h[w].held, t) /\ ~LiveLease(k, t)
      BY <2>5 DEF CanReactivate
    <3>2. WriteRow(k, FundedRow(k, h[w].bucket, t))
      BY <1>6, <2>5 DEF RenewReactivate
    <3>3. h[w].bucket \in Buckets /\ h[w].held \in Subs
      BY <1>1, <3>1, Serving DEF CanFund, Buckets, Requests
    <3>4. h[w].resume => intents'[k] = NoIntent
      <4> DEFINE after == FundedRow(k, h[w].bucket, t)
      <4>1. /\ after.status = "reserved" /\ ~after.releaseRequested
            /\ after.created = t /\ after.expires = t + Lifetime
        BY DEF FundedRow
      <4>2. intents' = IF /\ h[w].resume
                          /\ after.status = "reserved" /\ ~after.releaseRequested
                          /\ after.created = t /\ after.expires = t + Lifetime
                         THEN [intents EXCEPT ![k] = NoIntent] ELSE intents
        BY <1>6, <2>5 DEF RenewReactivate
      <4> HIDE DEF after
      <4> QED
        BY <1>2, <4>1, <4>2 DEF TypeOK
    <3>5. FundedAt(k, h[w].bucket, h[w].held, t)
      BY <1>0, <1>6, <3>1, <3>2, <3>4 DEF FundedAt, RenewReactivate
    <3> QED
      BY <1>2, <2>5, <3>3, <3>5 DEF RowStep, Funded
  <2>6. CASE j = k /\ ~CanReactivate(k, h[w])
    <3>1. rows'[k] = rows[k]
      BY <1>2, <1>6, <2>6, WrittenRow DEF RenewReactivate
    <3>2. intents'[k].expires <= intents[k].expires
      BY <1>2, <2>2 DEF TypeOK, NoIntent
    <3> QED
      BY <2>6, <3>1, <3>2 DEF RowStep, Spared, Kept, Heeded
  <2> QED
    BY <2>4, <2>5, <2>6
<1>7. CASE RenewCheckCompleted(w) \/ RenewChoose(w) \/ RenewCheckLease(w)
  <2>1. UNCHANGED rows /\ UNCHANGED intents
    BY <1>7 DEF RenewCheckCompleted, RenewChoose, RenewCheckLease, tables
  <2> QED
    BY <2>1, RowLeftAlone
<1> QED
  BY <1>3, <1>4, <1>5, <1>6, <1>7 DEF RenewStep

\* Recording the release of k brings no other key's intent up.
LEMMA OtherIntents ==
    ASSUME TypeOK, NEW k \in Keys, NEW t \in 1 .. MaxTime, NEW j \in Keys, j # k,
           intents' = IntentsAfterRelease(k, t)
    PROVE  intents'[j].expires <= intents[j].expires
<1> DEFINE kept == [i \in Keys |-> IF intents[i].expires < t THEN NoIntent ELSE intents[i]]
           mine == IF kept[k] = NoIntent
                     THEN [requested |-> t, expires |-> t + IntentTTL]
                     ELSE [requested |-> Min2(kept[k].requested, t),
                           expires |-> Max2(kept[k].expires, t + IntentTTL)]
           table == [kept EXCEPT ![k] = mine]
<1>1. intents' = KeepNewest(table)
  BY DEF IntentsAfterRelease
<1>2. table[j] = kept[j]
  OBVIOUS
<1>3. kept[j] \in {NoIntent, intents[j]}
  OBVIOUS
<1> HIDE DEF table, kept
<1>4. intents'[j] \in {NoIntent, table[j]}
  BY <1>1 DEF KeepNewest
<1>5. intents[j].expires \in Nat
  BY DEF TypeOK
<1> QED
  BY <1>2, <1>3, <1>4, <1>5 DEF NoIntent

LEMMA ReleaseRows ==
    ASSUME TypeOK, Standing, NEW w \in Workers, ReleaseBatch(w), NEW j \in Keys
    PROVE  RowStep(j)
<1> DEFINE k == h[w].key
           t == h[w].t
           live == intents'[k].expires >= t
           row == ReconciledRow(k, live, t)
<1>1. k \in Keys /\ t \in 1 .. MaxTime /\ t <= now
  BY Serving DEF Standing, ReadingsArePast, At, ReleaseBatch
<1>2. WriteRow(k, row) /\ intents' = IntentsAfterRelease(k, t)
  BY DEF ReleaseBatch
<1>3. live \in BOOLEAN
  OBVIOUS
<1>4. \/ row = rows[k] /\ (live => rows[k].status # "reserved")
      \/ Kept(rows[k], row) /\ row.releaseRequested
      \/ Dropped(rows[k], row) /\ ~LiveLease(k, t)
  BY <1>1, <1>3, ReconciledRows
<1> HIDE DEF row
<1>5. CASE j = k
  <2>1. rows'[k] = row
    BY <1>1, <1>2, WrittenRow
  <2>2. CASE row = rows[k] /\ live
    <3>1. rows'[k].status # "reserved" \/ rows'[k].releaseRequested
      BY <1>4, <2>1, <2>2 DEF Dropped
    <3> QED
      BY <1>5, <2>1, <2>2, <3>1 DEF RowStep, Spared, Kept, Heeded
  <2>3. CASE row = rows[k] /\ ~live
    <3>1. intents'[k].expires < now
      <4>1. intents'[k].expires \in Nat
        <5>1. TypeOK'
          BY ReleaseTypes
        <5> QED
          BY <1>1, <5>1 DEF TypeOK
      <4>2. t \in Nat /\ now \in Nat
        BY <1>1, ReservationAssumption DEF TypeOK
      <4> QED
        BY <1>1, <2>3, <4>1, <4>2
    <3> QED
      BY <1>5, <2>1, <2>3, <3>1 DEF RowStep, Spared, Kept, Heeded
  <2>4. CASE Kept(rows[k], row) /\ row.releaseRequested
    BY <1>5, <2>1, <2>4 DEF RowStep, Spared, Heeded
  <2>5. CASE Dropped(rows[k], row) /\ ~LiveLease(k, t)
    BY <1>1, <1>5, <2>1, <2>5, LiveAtReadings DEF RowStep, GivenBack
  <2> QED
    BY <1>4, <2>2, <2>3, <2>4, <2>5
<1>6. CASE j # k
  <2>1. rows'[j] = rows[j]
    BY <1>1, <1>2, <1>6, OtherRows
  <2>2. intents'[j].expires <= intents[j].expires
    BY <1>1, <1>2, <1>6, OtherIntents
  <2> QED
    BY <2>1, <2>2 DEF RowStep, Spared, Kept, Heeded
<1> QED
  BY <1>5, <1>6

LEMMA SavedRow ==
    ASSUME TypeOK, NEW k \in Keys, rows[k].status = "reserved", UNCHANGED intents,
           WriteRow(k, [rows[k] EXCEPT !.status = "completed"]), NEW j \in Keys
    PROVE  RowStep(j)
<1>1. rows[k] \in Rows
  BY DEF TypeOK
<1>2. CASE j = k
  <2>1. rows'[k] = [rows[k] EXCEPT !.status = "completed"]
    BY WrittenRow
  <2> QED
    BY <1>1, <1>2, <2>1 DEF RowStep, Saved, Rows
<1>3. CASE j # k
  BY <1>3, OtherRows, RowLeftAlone
<1> QED
  BY <1>2, <1>3

LEMMA AiRows ==
    ASSUME TypeOK, Standing, NEW w \in Workers, AiStep(w), NEW j \in Keys
    PROVE  RowStep(j)
<1> DEFINE k == h[w].key
           t == h[w].t
<1>0. UNCHANGED intents
  BY DEF AiStep, AiAcquire, AiBlock, AiRelease, AiFinalize
<1>1. CASE AiAcquire(w) \/ AiRelease(w)
  BY <1>0, <1>1, RowLeftAlone DEF AiAcquire, AiRelease
<1>2. CASE AiBlock(w)
  <2>1. k \in Keys
    BY <1>2, Serving DEF AiBlock, At
  <2> QED
    BY <1>0, <1>2, <2>1, SavedRow DEF AiBlock
<1>3. CASE AiFinalize(w)
  <2>1. k \in Keys /\ t \in 1 .. MaxTime /\ t <= now
    BY <1>3, Serving DEF Standing, ReadingsArePast, At, AiFinalize
  <2>2. \/ /\ rows[k].status = "reserved" /\ ~LiveLease(k, t)
           /\ WriteRow(k, Released(rows[k], t))
        \/ WriteRow(k, rows[k])
    BY <1>3 DEF AiFinalize
  <2>3. CASE j = k
    <3>1. \/ Dropped(rows[k], rows'[k]) /\ ~LiveLease(k, t)
          \/ rows'[k] = rows[k]
      BY <2>1, <2>2, RowsSeen, WrittenRow
    <3> QED
      BY <1>0, <2>1, <2>3, <3>1, RowLeftAlone, LiveAtReadings DEF RowStep, GivenBack
  <2>4. CASE j # k
    BY <1>0, <2>1, <2>2, <2>4, OtherRows, RowLeftAlone
  <2> QED
    BY <2>3, <2>4
<1> QED
  BY <1>1, <1>2, <1>3 DEF AiStep

LEMMA LedgerRows ==
    ASSUME TypeOK, LedgerStep, NEW j \in Keys
    PROVE  /\ \/ Spared(j)
              \/ GivenBack(j) /\ refund.pc \in {"stopPurchase", "releasePeriod"}
           /\ UNCHANGED <<now, intents, leases, h>>
<1>0. UNCHANGED <<now, intents, leases, h>>
  BY DEF LedgerStep, Subscribe, ChangePlan, RenewPeriod, CancelSubscription,
     UpsertSubscription, RecordPurchase, RestorePurchase, RefundPeriod, RefundPurchase,
     PublishPurchase, StopPurchase, RevokePeriod, ExpirePeriod, ReleasePeriod,
     RestorePeriod, RefundDies, tables
<1>1. rows[j] \in Rows /\ Heeded(j)
  BY <1>0 DEF TypeOK, Heeded
<1>2. /\ rows[j].status = "reserved" =>
           /\ Dropped(rows[j], [rows[j] EXCEPT !.status = "released", !.expires = now - 1])
           /\ Dropped(rows[j], [rows[j] EXCEPT !.status = "released"])
      /\ Kept(rows[j], [rows[j] EXCEPT !.expires = now - 1])
      /\ [rows[j] EXCEPT !.expires = now - 1].releaseRequested = rows[j].releaseRequested
  BY <1>1 DEF Dropped, Kept, Rows
<1>3. rows'[j] = rows[j] => Spared(j)
  BY <1>1 DEF Spared, Kept
<1>4. CASE StopPurchase
  <2>1. \/ /\ rows[j].status = "reserved"
           /\ rows'[j] = [rows[j] EXCEPT !.status = "released", !.expires = now - 1]
        \/ rows'[j] = rows[j]
    BY <1>4 DEF StopPurchase
  <2> QED
    BY <1>0, <1>2, <1>3, <1>4, <2>1 DEF StopPurchase, GivenBack
<1>5. CASE ExpirePeriod
  BY <1>0, <1>1, <1>2, <1>3, <1>5 DEF ExpirePeriod, Spared
<1>6. CASE ReleasePeriod
  <2>1. \/ /\ rows[j].status = "reserved"
           /\ rows'[j] = [rows[j] EXCEPT !.status = "released"]
        \/ rows'[j] = rows[j]
    BY <1>6 DEF ReleasePeriod
  <2> QED
    BY <1>0, <1>2, <1>3, <1>6, <2>1 DEF ReleasePeriod, GivenBack
<1>7. CASE ~(StopPurchase \/ ExpirePeriod \/ ReleasePeriod)
  <2>1. UNCHANGED rows
    BY <1>7 DEF LedgerStep, Subscribe, ChangePlan, RenewPeriod, CancelSubscription,
       UpsertSubscription, RecordPurchase, RestorePurchase, RefundPeriod, RefundPurchase,
       PublishPurchase, RevokePeriod, RestorePeriod, RefundDies, tables
  <2> QED
    BY <1>0, <1>3, <2>1
<1> QED
  BY <1>0, <1>4, <1>5, <1>6, <1>7

\* What any step makes of any row; the ledger is written by its own steps alone.
LEMMA StepRows ==
    ASSUME TypeOK, Standing, Next
    PROVE  /\ \A j \in Keys : RowStep(j)
           /\ LedgerStep \/ UNCHANGED ledger
<1> DEFINE Goal == /\ \A j \in Keys : RowStep(j)
                   /\ LedgerStep \/ UNCHANGED ledger
<1>1. ASSUME NEW w \in Workers, NEW k \in Keys, RequestBegins(w, k)
      PROVE  Goal
  BY <1>1, BeginMoves, RowLeftAlone DEF tables
<1>2. ASSUME NEW w \in Workers, ReserveStep(w) PROVE Goal
  <2>1. UNCHANGED ledger
    BY <1>2 DEF ReserveStep, ReserveReconcile, ReserveMaterialize, ReserveSettle,
       ReserveChoose, ReserveInsert, ReserveRecheck
  <2> QED
    BY <1>2, <2>1, ReserveRows
<1>3. ASSUME NEW w \in Workers, RenewStep(w) PROVE Goal
  <2>1. UNCHANGED ledger
    BY <1>3 DEF RenewStep, RenewCheckCompleted, RenewExtendCompleted, RenewSettle,
       RenewChoose, RenewExtend, RenewCheckLease, RenewReactivate
  <2> QED
    BY <1>3, <2>1, RenewRows
<1>4. ASSUME NEW w \in Workers, ReleaseBatch(w) PROVE Goal
  BY <1>4, ReleaseRows DEF ReleaseBatch
<1>5. ASSUME NEW w \in Workers, AiStep(w) PROVE Goal
  <2>1. UNCHANGED ledger
    BY <1>5 DEF AiStep, AiAcquire, AiBlock, AiRelease, AiFinalize
  <2> QED
    BY <1>5, <2>1, AiRows
<1>6. ASSUME NEW w \in Workers, WorkerDies(w) PROVE Goal
  BY <1>6, RowLeftAlone DEF WorkerDies, tables
<1>7. ASSUME NEW k \in Keys, CompleteUsage(k) PROVE Goal
  <2>1. CASE rows[k].status = "reserved"
    BY <1>7, <2>1, SavedRow DEF CompleteUsage
  <2>2. CASE rows[k].status = "completed"
    <3>1. rows[k] \in Rows
      BY DEF TypeOK
    <3>2. [rows[k] EXCEPT !.status = "completed"] = rows[k]
      BY <2>2, <3>1 DEF Rows
    <3>3. WriteRow(k, rows[k])
      BY <1>7, <3>2 DEF CompleteUsage
    <3> QED
      BY <1>7, <3>3, OtherRows, WrittenRow, RowLeftAlone DEF CompleteUsage
  <2> QED
    BY <1>7, <2>1, <2>2 DEF CompleteUsage, IsActive
<1>8. ASSUME SettleExpired PROVE Goal
  <2>1. now \in 1 .. MaxTime /\ now <= now
    BY ReservationAssumption DEF TypeOK
  <2> QED
    BY <1>8, <2>1, SettledRows DEF SettleExpired
<1>9. ASSUME LedgerStep PROVE Goal
  BY <1>9, LedgerRows DEF RowStep
<1>10. ASSUME Tick PROVE Goal
  BY <1>10, RowLeftAlone DEF Tick, tables
<1> HIDE DEF Goal
<1>11. Goal
  BY <1>1, <1>2, <1>3, <1>4, <1>5, <1>6, <1>7, <1>8, <1>9, <1>10 DEF Next
<1> QED
  BY <1>11 DEF Goal

-------------------------------------------------------------------------------
(* The invariant is inductive.                                              *)

\* A funded row is reserved, from the reading of the clock the request took.
LEMMA FundedRows ==
    ASSUME TypeOK, NEW k \in Keys, NEW bucket \in Buckets, NEW held, NEW t \in 1 .. MaxTime,
           FundedAt(k, bucket, held, t)
    PROVE  /\ rows'[k] = FundedRow(k, bucket, t)
           /\ rows'[k].status = "reserved" /\ rows'[k].bucket = bucket
           /\ rows'[k].created = t
           /\ bucket = "one_time" => rows'[k].purchase \in OpenPurchases(k)
<1>1. rows'[k] = FundedRow(k, bucket, t)
  BY WrittenRow DEF FundedAt
<1>2. bucket = "one_time" => Min(OpenPurchases(k)) \in OpenPurchases(k)
  <2>1. OpenPurchases(k) \in SUBSET Purchases
    BY DEF OpenPurchases
  <2>2. bucket = "one_time" => OpenPurchases(k) # {}
    BY DEF FundedAt, CanFund
  <2> QED
    BY <2>1, <2>2, OldestPurchase
<1> QED
  BY <1>1, <1>2 DEF FundedRow

LEMMA RowsStay ==
    ASSUME TypeOK, Standing, NEW k \in Keys, RowStep(k)
    PROVE  /\ rows[k].status # "absent" => rows'[k].status # "absent"
           /\ rows'[k].bucket = "one_time" => rows'[k].purchase \in Purchases
<1>1. rows[k].bucket = "one_time" => rows[k].purchase \in Purchases
  BY DEF Standing, CreditsAreNamed
<1>2. CASE Spared(k) \/ Extended(k)
  BY <1>1, <1>2 DEF Spared, Extended, Kept
<1>3. CASE GivenBack(k)
  BY <1>1, <1>3 DEF GivenBack, Dropped
<1>4. CASE Funded(k)
  BY <1>4, FundedRows DEF Funded, OpenPurchases
<1>5. CASE Withdrawn(k)
  BY <1>5 DEF Withdrawn
<1>6. CASE Saved(k)
  BY <1>1, <1>6 DEF Saved
<1> QED
  BY <1>2, <1>3, <1>4, <1>5, <1>6 DEF RowStep

LEMMA LeasesKeepRows ==
    ASSUME TypeOK, Standing, Next
    PROVE  LeasesHaveRows'
<1> SUFFICES ASSUME NEW k \in Keys, leases'[k].expires > 0
             PROVE  rows'[k].status # "absent"
  BY DEF LeasesHaveRows
<1>1. rows[k].status # "absent" => rows'[k].status # "absent"
  BY StepRows, RowsStay
<1>2. leases[k].expires > 0 => rows[k].status # "absent"
  BY DEF Standing, LeasesHaveRows
<1>3. ASSUME NEW v \in Workers, TakesLease(v)
      PROVE  rows[k].status # "absent"
  <2>1. CASE k = h[v].key
    BY <1>3, <2>1 DEF TakesLease, CanAcquire, IsActive
  <2>2. CASE k # h[v].key
    BY <1>2, <1>3, <2>2 DEF TakesLease, TypeOK
  <2> QED
    BY <2>1, <2>2
<1>4. ASSUME NEW v \in Workers, GivesLease(v)
      PROVE  rows[k].status # "absent"
  <2>1. leases'[k] = NoLease \/ leases'[k] = leases[k]
    BY <1>4 DEF GivesLease, TypeOK
  <2> QED
    BY <1>2, <2>1 DEF NoLease
<1> QED
  BY <1>1, <1>2, <1>3, <1>4, StepMoves

\* The webhooks keep the periods whole, and a refund what it knows.
LEMMA LedgerStands ==
    ASSUME TypeOK, TypeOK', PeriodsAreWhole, RefundsKnowTheirs, LedgerStep
    PROVE  PeriodsAreWhole' /\ RefundsKnowTheirs'
<1> USE ReservationAssumption
<1>0. /\ now \in Nat /\ now >= 1 /\ PeriodLength \in Nat \ {0}
      /\ sub \in Subs
      /\ refund \in PurchaseRefunds \cup PeriodRefunds \cup {NoRefund}
  BY DEF TypeOK
<1>1. ASSUME NEW plan \in Plans, Subscribe(plan)
      PROVE  PeriodsAreWhole' /\ RefundsKnowTheirs'
  <2>1. sub' = [status |-> "active", plan |-> plan, start |-> now,
                end |-> now + PeriodLength, revoked |-> 0] /\ UNCHANGED refund
    BY <1>1 DEF Subscribe, UpsertSubscription
  <2> QED
    BY <1>0, <2>1 DEF PeriodsAreWhole, RefundsKnowTheirs
<1>2. ASSUME NEW plan \in Plans, ChangePlan(plan)
      PROVE  PeriodsAreWhole' /\ RefundsKnowTheirs'
  <2>1. sub' = [sub EXCEPT !.plan = plan] /\ UNCHANGED refund /\ sub # NoSub
    BY <1>2 DEF ChangePlan, UpsertSubscription, NoSub
  <2> QED
    BY <1>0, <2>1 DEF PeriodsAreWhole, RefundsKnowTheirs, Subs
<1>3. ASSUME RenewPeriod PROVE PeriodsAreWhole' /\ RefundsKnowTheirs'
  <2>1. /\ sub' = [sub EXCEPT !.start = sub.end, !.end = sub.end + PeriodLength]
        /\ UNCHANGED refund /\ sub # NoSub
    BY <1>3 DEF RenewPeriod, UpsertSubscription, NoSub
  <2> QED
    BY <1>0, <2>1 DEF PeriodsAreWhole, RefundsKnowTheirs, Subs
<1>4. ASSUME CancelSubscription PROVE PeriodsAreWhole' /\ RefundsKnowTheirs'
  <2>1. sub' = [sub EXCEPT !.status = "canceled"] /\ UNCHANGED refund /\ sub # NoSub
    BY <1>4 DEF CancelSubscription, UpsertSubscription, NoSub
  <2> QED
    BY <1>0, <2>1 DEF PeriodsAreWhole, RefundsKnowTheirs, Subs
<1>5. ASSUME NEW p \in Purchases, RecordPurchase(p) \/ RestorePurchase(p)
      PROVE  PeriodsAreWhole' /\ RefundsKnowTheirs'
  BY <1>5 DEF RecordPurchase, RestorePurchase, PeriodsAreWhole, RefundsKnowTheirs
<1>6. ASSUME NEW p \in Purchases, RefundPurchase(p)
      PROVE  PeriodsAreWhole' /\ RefundsKnowTheirs'
  <2>1. UNCHANGED sub /\ refund'.pc = "publishPurchase" /\ refund'.start = 0
    BY <1>6 DEF RefundPurchase, NoRefund
  <2> QED
    BY <2>1 DEF PeriodsAreWhole, RefundsKnowTheirs
<1>7. ASSUME RefundPeriod PROVE PeriodsAreWhole' /\ RefundsKnowTheirs'
  <2>1. /\ UNCHANGED sub /\ sub # NoSub
        /\ refund'.pc = "revokePeriod" /\ refund'.start = sub.start
        /\ refund'.purchase = NoPurchase
    BY <1>7 DEF RefundPeriod, NoRefund
  <2> QED
    BY <2>1 DEF PeriodsAreWhole, RefundsKnowTheirs
<1>8. ASSUME PublishPurchase PROVE PeriodsAreWhole' /\ RefundsKnowTheirs'
  <2>1. /\ UNCHANGED sub
        /\ refund'.pc = "stopPurchase"
        /\ refund'.purchase = refund.purchase /\ refund'.start = refund.start
    BY <1>0, <1>8 DEF PublishPurchase, RefundGoto, PurchaseRefunds, PeriodRefunds, NoRefund
  <2> QED
    BY <2>1 DEF PeriodsAreWhole, RefundsKnowTheirs
<1>9. ASSUME StopPurchase \/ ReleasePeriod PROVE PeriodsAreWhole' /\ RefundsKnowTheirs'
  <2>1. UNCHANGED sub /\ refund' = NoRefund
    BY <1>9, Zenon DEF StopPurchase, ReleasePeriod
  <2>2. refund'.pc = "idle" /\ refund'.purchase = NoPurchase
    BY <2>1 DEF NoRefund
  <2>3. PeriodsAreWhole'
    BY <2>1 DEF PeriodsAreWhole
  <2>4. RefundsKnowTheirs'
    BY <2>2 DEF RefundsKnowTheirs
  <2> QED
    BY <2>3, <2>4
<1>10. ASSUME RevokePeriod PROVE PeriodsAreWhole' /\ RefundsKnowTheirs'
  <2>1. refund \in PeriodRefunds /\ refund.start >= 1
    BY <1>0, <1>10 DEF RevokePeriod, PurchaseRefunds, NoRefund, RefundsKnowTheirs
  <2>2. CASE sub.start = refund.start
    <3>1. sub # NoSub
      BY <2>1, <2>2 DEF NoSub
    <3>2. sub' = [sub EXCEPT !.revoked = sub.start]
          /\ refund' = [refund EXCEPT !.pc = "expirePeriod", !.end = sub.end]
      BY <1>10, <2>2 DEF RevokePeriod
    <3>3. PeriodsAreWhole'
      BY <1>0, <3>1, <3>2 DEF PeriodsAreWhole, Subs
    <3>4. /\ refund'.start = refund.start /\ refund'.end = sub.end
          /\ refund'.purchase = NoPurchase
      BY <2>1, <3>2 DEF PeriodRefunds
    <3>5. RefundsKnowTheirs'
      BY <2>1, <2>2, <3>1, <3>4 DEF PeriodsAreWhole, RefundsKnowTheirs
    <3> QED
      BY <3>3, <3>5
  <2>3. CASE sub.start # refund.start
    BY <1>10, <2>3 DEF RevokePeriod, PeriodsAreWhole, RefundsKnowTheirs, NoRefund
  <2> QED
    BY <2>2, <2>3
<1>11. ASSUME ExpirePeriod PROVE PeriodsAreWhole' /\ RefundsKnowTheirs'
  <2>1. /\ UNCHANGED sub /\ refund.pc = "expirePeriod"
        /\ refund'.purchase = refund.purchase /\ refund'.start = refund.start
        /\ refund'.end = refund.end
    BY <1>0, <1>11 DEF ExpirePeriod, RefundGoto, PurchaseRefunds, PeriodRefunds, NoRefund
  <2> QED
    BY <2>1 DEF PeriodsAreWhole, RefundsKnowTheirs
<1>12. ASSUME RestorePeriod PROVE PeriodsAreWhole' /\ RefundsKnowTheirs'
  <2>1. sub' = [sub EXCEPT !.revoked = 0] /\ UNCHANGED refund /\ sub # NoSub
    BY <1>12 DEF RestorePeriod, NoSub
  <2> QED
    BY <1>0, <2>1 DEF PeriodsAreWhole, RefundsKnowTheirs, Subs
<1>13. ASSUME RefundDies PROVE PeriodsAreWhole' /\ RefundsKnowTheirs'
  <2>1. /\ UNCHANGED sub
        /\ refund.pc \in {"stopPurchase", "expirePeriod", "releasePeriod"}
        /\ refund'.pc = IF refund.purchase # NoPurchase THEN "publishPurchase"
                                                        ELSE "revokePeriod"
        /\ refund'.purchase = refund.purchase /\ refund'.start = refund.start
    BY <1>0, <1>13 DEF RefundDies, RefundGoto, PurchaseRefunds, PeriodRefunds, NoRefund
  <2>2. refund.purchase = NoPurchase => refund.pc \in {"expirePeriod", "releasePeriod"}
    <3>1. CASE refund \in PurchaseRefunds
      BY <3>1 DEF PurchaseRefunds, NoPurchase
    <3>2. CASE refund \in PeriodRefunds
      BY <2>1, <3>2 DEF PeriodRefunds
    <3> QED
      BY <1>0, <2>1, <3>1, <3>2 DEF NoRefund
  <2> QED
    BY <2>1, <2>2 DEF PeriodsAreWhole, RefundsKnowTheirs
<1> QED
  BY <1>1, <1>2, <1>3, <1>4, <1>5, <1>6, <1>7, <1>8, <1>9, <1>10, <1>11, <1>12, <1>13
     DEF LedgerStep

LEMMA StandingInit == Init => Standing
  BY ReservationAssumption DEF Init, Standing, ReadingsArePast, At, Idle, LeasesHaveRows,
     NoLease, PeriodsAreWhole, CreditsAreNamed, NoRow, NoBucket, RefundsKnowTheirs, NoRefund

LEMMA StandingStep ==
    ASSUME TypeOK, TypeOK', Standing, Next
    PROVE  Standing'
<1>1. ReadingsArePast'
  BY ReadingsStayPast DEF Standing
<1>2. LeasesHaveRows'
  BY LeasesKeepRows
<1>3. CreditsAreNamed'
  BY StepRows, RowsStay DEF CreditsAreNamed
<1>4. PeriodsAreWhole' /\ RefundsKnowTheirs'
  <2>1. CASE LedgerStep
    BY <2>1, LedgerStands DEF Standing
  <2>2. CASE UNCHANGED ledger
    BY <2>2 DEF Standing, PeriodsAreWhole, RefundsKnowTheirs, ledger
  <2> QED
    BY <2>1, <2>2, StepRows
<1> QED
  BY <1>1, <1>2, <1>3, <1>4 DEF Standing

\* Clock readings are never of the future, leases are only of rows that are
\* there, the subscription is a whole period and a refund knows what it refunds.
THEOREM Stands == Spec => []Standing
<1>1. TypeOK /\ TypeOK' /\ Standing /\ [Next]_vars => Standing'
  <2>1. CASE UNCHANGED vars
    BY <2>1 DEF vars, Standing, ReadingsArePast, At, LeasesHaveRows, PeriodsAreWhole,
                CreditsAreNamed, RefundsKnowTheirs
  <2> QED
    BY <2>1, StandingStep
<1> QED
  BY <1>1, StandingInit, Types, PTL DEF Spec

-------------------------------------------------------------------------------
(* The properties.                                                          *)

\* Two AI calls never hold an unexpired lease of the same reservation, whatever
\* calls overlap, die or outlive their lease (acquireUsageOperationLease and
\* releaseUsageOperationLease).
THEOREM LeasesAreExclusive == Spec => []LeaseExclusive
<1>1. Init => LeaseExclusive
  BY DEF Init, LeaseExclusive, At, Idle
<1>2. TypeOK /\ Standing /\ LeaseExclusive /\ [Next]_vars => LeaseExclusive'
  <2>1. CASE UNCHANGED vars
    BY <2>1 DEF vars, LeaseExclusive, Deadline, At
  <2> QED
    BY <2>1, LeasesStayExclusive DEF Standing
<1> QED
  BY <1>1, <1>2, Types, Stands, PTL DEF Spec

\* While AI work holds a reservation nothing moves it to another allowance: no
\* retry, renewal, upgrade, settlement, release or refund.
THEOREM LeasedStaysFunded == Spec => LeaseProtectsFunding
<1>1. ASSUME TypeOK, Standing, Next, NEW k \in Keys, LiveLease(k, now)
      PROVE  /\ rows'[k].bucket = rows[k].bucket
             /\ rows'[k].purchase = rows[k].purchase
             /\ rows'[k].created = rows[k].created
  <2>1. RowStep(k)
    BY <1>1, StepRows
  <2>2. ~Funded(k)
    BY <1>1, LiveAtReadings DEF Funded, FundedAt
  <2>3. ~Withdrawn(k)
    <3>1. now \in Nat /\ leases[k].expires \in Nat
      BY <1>1, ReservationAssumption DEF TypeOK
    <3>2. rows[k].status # "absent"
      BY <1>1, <3>1 DEF LiveLease, Standing, LeasesHaveRows
    <3> QED
      BY <3>2 DEF Withdrawn, NoRow
  <2> QED
    BY <2>1, <2>2, <2>3 DEF RowStep, Spared, Extended, GivenBack, Saved, Kept, Dropped
<1>2. TypeOK /\ Standing /\ [Next]_vars =>
        [\A k \in Keys : LiveLease(k, now) =>
            /\ rows'[k].bucket = rows[k].bucket
            /\ rows'[k].purchase = rows[k].purchase
            /\ rows'[k].created = rows[k].created]_vars
  BY <1>1
<1> QED
  BY <1>2, Types, Stands, PTL DEF Spec, LeaseProtectsFunding

\* A reservation AI work holds is not given back, neither by leaving the page
\* nor by lapsing, but only by a refund.
THEOREM LeasedIsNotReleased == Spec => LeaseDefersRelease
<1>1. ASSUME TypeOK, Standing, Next, NEW k \in Keys, LiveLease(k, now),
             rows[k].status = "reserved", rows'[k].status = "released"
      PROVE  refund.pc \in {"stopPurchase", "releasePeriod"}
  <2>1. RowStep(k)
    BY <1>1, StepRows
  <2>2. ~Funded(k)
    BY <1>1, LiveAtReadings DEF Funded, FundedAt
  <2>3. ~Withdrawn(k)
    BY <1>1 DEF Withdrawn, NoRow
  <2> QED
    BY <1>1, <2>1, <2>2, <2>3 DEF RowStep, Spared, Extended, GivenBack, Saved, Kept
<1>2. TypeOK /\ Standing /\ [Next]_vars =>
        [\A k \in Keys : (LiveLease(k, now) /\ rows[k].status = "reserved"
                            /\ rows'[k].status = "released")
            => refund.pc \in {"stopPurchase", "releasePeriod"}]_vars
  BY <1>1
<1> QED
  BY <1>2, Types, Stands, PTL DEF Spec, LeaseDefersRelease

LEMMA OneMore ==
    ASSUME NEW S, IsFiniteSet(S), NEW x
    PROVE  Cardinality(S) <= Cardinality(S \ {x}) + 1
<1>1. Cardinality(S) \in Nat /\ IsFiniteSet(S \ {x})
  BY FS_CardinalityType, FS_RemoveElement
<1>2. Cardinality(S \ {x}) = IF x \in S THEN Cardinality(S) - 1 ELSE Cardinality(S)
  BY FS_RemoveElement
<1> QED
  BY <1>1, <1>2

\* A reservation that a plan comes to fund fits the limit of the plan as it is
\* when the row is written, whatever plan the request had read before.
THEOREM GrantsFitThePlan == Spec => SubscriptionQuotaOnGrant
<1>1. ASSUME TypeOK, TypeOK', Standing, Next, NEW k \in Keys,
             rows'[k].bucket = "subscription", rows'[k].status = "reserved",
             rows'[k].created # rows[k].created
      PROVE  /\ sub.status = "active" /\ sub.revoked # sub.start
             /\ Cardinality(SubscriptionVideos(sub.start, sub.end)') <= PlanLimit[sub.plan]
  <2>1. Funded(k)
    <3>1. RowStep(k)
      BY <1>1, StepRows
    <3> QED
      BY <1>1, <3>1 DEF RowStep, Spared, Extended, GivenBack, Withdrawn, Saved, Kept, Dropped
  <2>2. PICK bucket \in Buckets, held \in Subs, t \in 1 .. MaxTime :
             FundedAt(k, bucket, held, t)
    BY <2>1 DEF Funded
  <2>3. bucket = "subscription"
    BY <1>1, <2>2, FundedRows
  <2>4. SubscriptionFits(k, held, t)
    BY <2>2, <2>3 DEF FundedAt, CanFund
  <2>5. /\ sub.status = "active" /\ sub.revoked # sub.start
        /\ sub.start = held.start /\ sub.end = held.end /\ sub.plan = held.plan
        /\ Cardinality(SubscriptionVideos(sub.start, sub.end) \ {k}) < PlanLimit[sub.plan]
    BY <2>4 DEF SubscriptionFits, SubIsUsable
  <2> DEFINE before == SubscriptionVideos(sub.start, sub.end) \ {k}
             after == SubscriptionVideos(sub.start, sub.end)'
  <2>6. after \ {k} \subseteq before
    <3>1. sub' = sub
      BY <2>2 DEF FundedAt, ledger
    <3>2. \A j \in Keys \ {k} : rows'[j] = rows[j]
      BY <1>1, <2>2, OtherRows DEF FundedAt
    <3> QED
      BY <3>1, <3>2 DEF SubscriptionVideos, IsActive
  <2>7. IsFiniteSet(before) /\ IsFiniteSet(after)
    <3>1. before \subseteq Keys /\ after \subseteq Keys
      BY DEF SubscriptionVideos
    <3> QED
      BY <3>1, FS_Subset, ReservationAssumption
  <2> HIDE DEF before, after
  <2>8. Cardinality(after) <= Cardinality(after \ {k}) + 1
    BY <2>7, OneMore
  <2>9. /\ Cardinality(after \ {k}) <= Cardinality(before)
        /\ Cardinality(after \ {k}) \in Nat
        /\ Cardinality(after) \in Nat /\ Cardinality(before) \in Nat
    BY <2>6, <2>7, FS_Subset, FS_CardinalityType
  <2>10. PlanLimit[sub.plan] \in Nat
    <3>1. sub.plan \in Plans
      BY <1>1, <2>5 DEF Standing, PeriodsAreWhole, NoSub
    <3> QED
      BY <3>1, PolicyAssumption
  <2>11. Cardinality(before) < PlanLimit[sub.plan]
    BY <2>5 DEF before
  <2>12. Cardinality(after) <= PlanLimit[sub.plan]
    BY <2>8, <2>9, <2>10, <2>11
  <2> QED
    BY <2>5, <2>12 DEF after
<1>2. TypeOK /\ TypeOK' /\ Standing /\ [Next]_vars =>
        [\A k \in Keys :
            (/\ rows'[k].bucket = "subscription" /\ rows'[k].status = "reserved"
             /\ rows'[k].created # rows[k].created)
            => /\ sub.status = "active" /\ sub.revoked # sub.start
               /\ Cardinality(SubscriptionVideos(sub.start, sub.end)') <= PlanLimit[sub.plan]
        ]_vars
  BY <1>1
<1> QED
  BY <1>2, Types, Stands, PTL DEF Spec, SubscriptionQuotaOnGrant

\* Of one key: what RefundStopsReservations says of every key.
HoldsNoRefunded(k) ==
    rows[k].status = "reserved" =>
        /\ (rows[k].bucket = "one_time" /\ purchases[rows[k].purchase] = "revoked")
              => refund.purchase = rows[k].purchase
        /\ (/\ rows[k].bucket = "subscription" /\ sub.revoked = sub.start
            /\ sub.start <= rows[k].created /\ rows[k].created < sub.end)
              => refund.start = sub.start

\* Requests cannot break it: they only fund from what is not refunded.
LEMMA RequestsHoldNoRefunded ==
    ASSUME TypeOK, NEW k \in Keys, RowStep(k), UNCHANGED ledger, HoldsNoRefunded(k)
    PROVE  HoldsNoRefunded(k)'
<1>1. CASE Spared(k) \/ Extended(k)
  BY <1>1 DEF Spared, Extended, Kept, HoldsNoRefunded, ledger
<1>2. CASE GivenBack(k) \/ Withdrawn(k) \/ Saved(k)
  BY <1>2 DEF GivenBack, Dropped, Withdrawn, Saved, HoldsNoRefunded
<1>3. CASE Funded(k)
  <2>1. PICK bucket \in Buckets, held \in Subs, t \in 1 .. MaxTime :
             FundedAt(k, bucket, held, t)
    BY <1>3 DEF Funded
  <2>2. /\ rows'[k].bucket = bucket
        /\ bucket = "one_time" => purchases[rows'[k].purchase] = "paid"
    BY <2>1, FundedRows DEF OpenPurchases
  <2>3. bucket = "subscription" => sub.revoked # sub.start
    BY <2>1 DEF FundedAt, CanFund, SubscriptionFits, SubIsUsable
  <2> QED
    BY <2>2, <2>3 DEF HoldsNoRefunded, ledger
<1> QED
  BY <1>1, <1>2, <1>3 DEF RowStep

\* The webhooks keep it.  A refund that published has its purchase or period in
\* `refund' until it stopped the reservations; a new period, or none, is not
\* the refunded one.
LEMMA WebhooksHoldNoRefunded ==
    ASSUME TypeOK, TypeOK', Standing, LedgerStep, NEW k \in Keys, HoldsNoRefunded(k)
    PROVE  HoldsNoRefunded(k)'
<1> USE ReservationAssumption
<1> DEFINE row == rows[k]
           OnPurchase == row.bucket = "one_time" /\ purchases[row.purchase] = "revoked"
           InPeriod == /\ row.bucket = "subscription" /\ sub.revoked = sub.start
                       /\ sub.start <= row.created /\ row.created < sub.end
<1>1. CASE rows'[k].status # "reserved"
  BY <1>1 DEF HoldsNoRefunded
<1>2. CASE rows'[k].status = "reserved"
  <2>1. /\ row.status = "reserved"
        /\ rows'[k].bucket = row.bucket /\ rows'[k].purchase = row.purchase
        /\ rows'[k].created = row.created
    BY <1>2, LedgerRows DEF Spared, Kept, GivenBack, Dropped
  <2>2. /\ OnPurchase => refund.purchase = row.purchase
        /\ InPeriod => refund.start = sub.start
    BY <2>1 DEF HoldsNoRefunded
  <2>3. /\ row.bucket = "one_time" => row.purchase \in Purchases
        /\ row.created \in Nat /\ now \in Nat /\ now >= 1
        /\ sub \in Subs /\ sub.start \in Nat /\ sub.end \in Nat /\ sub.revoked \in Nat
        /\ refund \in PurchaseRefunds \cup PeriodRefunds \cup {NoRefund}
        /\ PeriodLength \in Nat \ {0}
    BY DEF TypeOK, Rows, Subs, Standing, CreditsAreNamed
  \* Nothing is refunded before the webhook starts, or but the other kind.
  <2>4. refund.purchase = NoPurchase => ~OnPurchase
    BY <2>2, <2>3 DEF NoPurchase
  <2>5. refund.start = 0 => ~InPeriod
    <3>1. SUFFICES ASSUME refund.start = 0, InPeriod PROVE FALSE
      OBVIOUS
    <3>2. sub.start = 0
      BY <2>2, <3>1
    <3>3. sub = NoSub
      BY <2>3, <3>2 DEF Standing, PeriodsAreWhole
    <3> QED
      BY <2>3, <3>1, <3>3 DEF NoSub
  <2> HIDE DEF OnPurchase, InPeriod
  <2> DEFINE OnPurchase2 == /\ row.bucket = "one_time"
                            /\ purchases'[row.purchase] = "revoked"
             InPeriod2 == /\ row.bucket = "subscription" /\ sub'.revoked = sub'.start
                          /\ sub'.start <= row.created /\ row.created < sub'.end
             Goal == /\ OnPurchase2 => refund'.purchase = row.purchase
                     /\ InPeriod2 => refund'.start = sub'.start
  <2>6. UNCHANGED purchases => (OnPurchase2 => OnPurchase)
    BY DEF OnPurchase
  <2>7. (/\ sub'.revoked = sub.revoked /\ sub'.start = sub.start /\ sub'.end = sub.end)
        => (InPeriod2 => InPeriod)
    BY DEF InPeriod
  <2>8. Goal => HoldsNoRefunded(k)'
    BY <2>1 DEF HoldsNoRefunded
  <2> HIDE DEF row
  <2>9. ASSUME NEW plan \in Plans, Subscribe(plan) PROVE Goal
    <3>1. sub'.start = now /\ sub'.revoked = 0 /\ UNCHANGED <<purchases, refund>>
      BY <2>9 DEF Subscribe, UpsertSubscription
    <3> QED
      BY <2>2, <2>3, <2>6, <3>1
  <2>10. ASSUME NEW plan \in Plans, ChangePlan(plan) PROVE Goal
    <3>1. /\ sub'.start = sub.start /\ sub'.end = sub.end /\ sub'.revoked = sub.revoked
          /\ UNCHANGED <<purchases, refund>>
      BY <2>3, <2>10 DEF ChangePlan, UpsertSubscription, Subs
    <3> QED
      BY <2>2, <2>6, <2>7, <3>1
  <2>11. ASSUME RenewPeriod PROVE Goal
    <3>1. /\ sub'.start = sub.end /\ sub'.revoked = sub.revoked
          /\ UNCHANGED <<purchases, refund>> /\ sub # NoSub
      BY <2>3, <2>11 DEF RenewPeriod, UpsertSubscription, Subs, NoSub
    <3>2. sub.revoked < sub.end
      BY <2>3, <3>1 DEF Standing, PeriodsAreWhole
    <3> QED
      BY <2>2, <2>3, <2>6, <3>1, <3>2
  <2>12. ASSUME CancelSubscription PROVE Goal
    <3>1. /\ sub'.start = sub.start /\ sub'.end = sub.end /\ sub'.revoked = sub.revoked
          /\ UNCHANGED <<purchases, refund>>
      BY <2>3, <2>12 DEF CancelSubscription, UpsertSubscription, Subs
    <3> QED
      BY <2>2, <2>6, <2>7, <3>1
  <2>13. ASSUME NEW p \in Purchases, RecordPurchase(p) \/ RestorePurchase(p) PROVE Goal
    <3>1. purchases' = [purchases EXCEPT ![p] = "paid"] /\ UNCHANGED <<sub, refund>>
      BY <2>13, Zenon DEF RecordPurchase, RestorePurchase
    <3>2. OnPurchase2 => OnPurchase
      BY <2>3, <3>1 DEF OnPurchase, TypeOK
    <3> QED
      BY <2>2, <2>7, <3>1, <3>2
  <2>14. ASSUME NEW p \in Purchases, RefundPurchase(p) PROVE Goal
    <3>1. refund.purchase = NoPurchase /\ refund.start = 0 /\ UNCHANGED <<sub, purchases>>
      BY <2>14 DEF RefundPurchase, NoRefund
    <3> QED
      BY <2>4, <2>5, <2>6, <2>7, <3>1
  <2>15. ASSUME RefundPeriod PROVE Goal
    <3>1. /\ refund.purchase = NoPurchase /\ refund'.start = sub.start
          /\ UNCHANGED <<sub, purchases>>
      BY <2>15 DEF RefundPeriod, NoRefund
    <3> QED
      BY <2>4, <2>6, <3>1
  <2>16. ASSUME PublishPurchase PROVE Goal
    <3>1. /\ refund'.purchase = refund.purchase /\ refund'.start = refund.start
          /\ UNCHANGED sub
          /\ purchases' = [purchases EXCEPT ![refund.purchase] = "revoked"]
      BY <2>3, <2>16 DEF PublishPurchase, RefundGoto, PurchaseRefunds, PeriodRefunds, NoRefund
    <3>2. OnPurchase2 => OnPurchase \/ row.purchase = refund.purchase
      BY <2>3, <3>1 DEF OnPurchase, TypeOK
    <3> QED
      BY <2>2, <2>7, <3>1, <3>2
  <2>17. ASSUME StopPurchase PROVE Goal
    <3>1. /\ refund.purchase # row.purchase
          /\ UNCHANGED <<sub, purchases>>
      <4>1. rows'[k] = IF rows[k].status = "reserved" /\ rows[k].purchase = refund.purchase
                         THEN [rows[k] EXCEPT !.status = "released", !.expires = now - 1]
                         ELSE rows[k]
        BY <2>17, Zenon DEF StopPurchase
      <4>2. [rows[k] EXCEPT !.status = "released", !.expires = now - 1].status # "reserved"
        BY DEF TypeOK, Rows
      <4>3. UNCHANGED <<sub, purchases>>
        BY <2>17, Zenon DEF StopPurchase
      <4> QED
        BY <1>2, <2>1, <4>1, <4>2, <4>3 DEF row
    <3>2. refund.start = 0
      <4>1. refund.pc = "stopPurchase"
        BY <2>17, Zenon DEF StopPurchase
      <4>2. refund.purchase # NoPurchase
        BY <2>3, <4>1 DEF PurchaseRefunds, PeriodRefunds, NoRefund, NoPurchase
      <4> QED
        BY <4>2 DEF Standing, RefundsKnowTheirs
    <3> QED
      BY <2>2, <2>5, <2>6, <2>7, <3>1, <3>2
  <2>18. ASSUME RevokePeriod PROVE Goal
    <3>1. refund.purchase = NoPurchase /\ UNCHANGED purchases
      BY <2>3, <2>18 DEF RevokePeriod, PurchaseRefunds, PeriodRefunds, NoRefund
    <3>2. CASE sub.start = refund.start
      <4>1. sub'.start = sub.start /\ refund'.start = refund.start
        <5>1. /\ sub' = [sub EXCEPT !.revoked = sub.start]
              /\ refund' = [refund EXCEPT !.pc = "expirePeriod", !.end = sub.end]
          BY <2>18, <3>2 DEF RevokePeriod
        <5> QED
          BY <2>3, <5>1 DEF Subs, PurchaseRefunds, PeriodRefunds, NoRefund
      <4> QED
        BY <2>4, <2>6, <3>1, <3>2, <4>1
    <3>3. CASE sub.start # refund.start
      <4>1. UNCHANGED sub
        BY <2>18, <3>3 DEF RevokePeriod
      <4> QED
        BY <2>2, <2>4, <2>6, <2>7, <3>1, <3>3, <4>1
    <3> QED
      BY <3>2, <3>3
  <2>19. ASSUME ExpirePeriod PROVE Goal
    <3>1. /\ refund'.purchase = refund.purchase /\ refund'.start = refund.start
          /\ UNCHANGED <<sub, purchases>>
      BY <2>3, <2>19 DEF ExpirePeriod, RefundGoto, PurchaseRefunds, PeriodRefunds, NoRefund
    <3> QED
      BY <2>2, <2>6, <2>7, <3>1
  <2>20. ASSUME ReleasePeriod PROVE Goal
    <3>1. refund.purchase = NoPurchase /\ UNCHANGED <<sub, purchases>>
      BY <2>3, <2>20 DEF ReleasePeriod, PurchaseRefunds, PeriodRefunds, NoRefund
    <3>2. ~InRefundedPeriod(row)
      <4>1. rows'[k] = IF rows[k].status = "reserved" /\ InRefundedPeriod(rows[k])
                         THEN [rows[k] EXCEPT !.status = "released"] ELSE rows[k]
        BY <2>20 DEF ReleasePeriod
      <4>2. [rows[k] EXCEPT !.status = "released"].status # "reserved"
        BY DEF TypeOK, Rows
      <4> QED
        BY <1>2, <2>1, <4>1, <4>2 DEF row
    <3>3. ~InPeriod
      <4>1. refund.start >= 1 /\ refund.end = refund.start + PeriodLength
        BY <2>20 DEF ReleasePeriod, Standing, RefundsKnowTheirs
      <4>2. SUFFICES ASSUME InPeriod PROVE FALSE
        OBVIOUS
      <4>3. refund.start = sub.start
        BY <2>2, <4>2
      <4>4. sub.end = sub.start + PeriodLength
        BY <4>1, <4>3 DEF Standing, PeriodsAreWhole, NoSub
      <4> QED
        BY <3>2, <4>1, <4>2, <4>3, <4>4 DEF InRefundedPeriod, InPeriod
    <3> QED
      BY <2>4, <2>6, <2>7, <3>1, <3>3
  <2>21. ASSUME RestorePeriod PROVE Goal
    <3>1. /\ sub'.revoked = 0 /\ sub'.start = sub.start /\ sub.start # 0
          /\ UNCHANGED <<purchases, refund>>
      BY <2>3, <2>21 DEF RestorePeriod, Subs
    <3> QED
      BY <2>2, <2>6, <3>1
  <2>22. ASSUME RefundDies PROVE Goal
    <3>1. /\ refund'.purchase = refund.purchase /\ refund'.start = refund.start
          /\ UNCHANGED <<sub, purchases>>
      BY <2>3, <2>22 DEF RefundDies, RefundGoto, PurchaseRefunds, PeriodRefunds, NoRefund
    <3> QED
      BY <2>2, <2>6, <2>7, <3>1
  <2> HIDE DEF Goal
  <2>23. Goal
    BY <2>9, <2>10, <2>11, <2>12, <2>13, <2>14, <2>15, <2>16, <2>17, <2>18, <2>19, <2>20,
       <2>21, <2>22 DEF LedgerStep
  <2> QED
    BY <2>8, <2>23
<1> QED
  BY <1>1, <1>2

\* A refunded purchase or period holds no reservation once the webhook that
\* refunds it, however often it dies and is delivered again, is done
\* (stopOneTimeReservationsForPurchase, setSubscriptionPeriodRevocationState).
THEOREM RefundsStop == Spec => []RefundStopsReservations
<1>1. RefundStopsReservations <=> \A k \in Keys : HoldsNoRefunded(k)
  BY DEF RefundStopsReservations, HoldsNoRefunded
<1>2. Init => RefundStopsReservations
  BY DEF Init, RefundStopsReservations, NoRow
<1>3. ASSUME TypeOK, TypeOK', Standing, RefundStopsReservations, Next
      PROVE  RefundStopsReservations'
  <2>1. SUFFICES ASSUME NEW k \in Keys PROVE HoldsNoRefunded(k)'
    BY DEF RefundStopsReservations, HoldsNoRefunded
  <2>2. HoldsNoRefunded(k)
    BY <1>1, <1>3
  <2> QED
    BY <1>3, <2>2, StepRows, RequestsHoldNoRefunded, WebhooksHoldNoRefunded
<1>4. ASSUME RefundStopsReservations, UNCHANGED vars PROVE RefundStopsReservations'
  BY <1>4 DEF RefundStopsReservations, vars
<1> QED
  BY <1>2, <1>3, <1>4, Types, Stands, PTL DEF Spec

-------------------------------------------------------------------------------
(* A key whose page was left.                                               *)

LeftAlone(k) ==
    LiveIntent(k, now) /\ rows[k].status = "reserved" => rows[k].releaseRequested

\* A renewal that was not asked to resume, at its last statement: the one step
\* that takes the allowance of a released key again.
RevivedBy(w) == At(w, "renewReactivate") /\ ~h[w].resume

\* The time, the intent and the mark of a key that comes to be held.
LEMMA StaysReleased ==
    ASSUME TypeOK, TypeOK', Standing, Next, NEW k \in Keys, LeftAlone(k),
           ~ \E w \in Workers : RevivedBy(w)
    PROVE  LeftAlone(k)'
<1>1. /\ now \in Nat /\ now' \in Nat /\ now' >= now /\ now >= 1
      /\ intents[k].expires \in Nat /\ intents'[k].expires \in Nat
  BY StepMoves, ReservationAssumption DEF TypeOK
<1>2. SUFFICES ASSUME intents'[k].expires >= now', rows'[k].status = "reserved"
               PROVE  rows'[k].releaseRequested
  BY DEF LeftAlone, LiveIntent
<1>3. CASE Spared(k)
  <2>1. rows[k].status = "reserved"
    BY <1>2, <1>3 DEF Spared, Kept
  <2>2. intents'[k].expires <= intents[k].expires => LiveIntent(k, now)
    BY <1>1, <1>2 DEF LiveIntent
  <2>3. ~(intents'[k].expires < now)
    BY <1>1, <1>2
  <2> QED
    BY <1>2, <1>3, <2>1, <2>2, <2>3 DEF Spared, Heeded, LeftAlone
<1>4. intents'[k] # NoIntent
  BY <1>1, <1>2 DEF NoIntent
<1>5. CASE Extended(k)
  BY <1>4, <1>5 DEF Extended
<1>6. CASE Funded(k)
  <2>1. PICK bucket \in Buckets, held \in Subs, t \in 1 .. MaxTime :
             t <= now /\ FundedAt(k, bucket, held, t)
    BY <1>6 DEF Funded
  <2>2. ~LiveIntent(k, t) /\ UNCHANGED intents
    BY <1>4, <2>1 DEF FundedAt, RevivedBy
  <2>3. t \in Nat /\ intents[k].expires = intents'[k].expires
    BY <2>2, ReservationAssumption
  <2> QED
    BY <1>1, <1>2, <2>1, <2>2, <2>3 DEF LiveIntent
<1>7. CASE GivenBack(k) \/ Withdrawn(k) \/ Saved(k)
  BY <1>2, <1>7 DEF GivenBack, Dropped, Withdrawn, Saved
<1> QED
  BY <1>3, <1>5, <1>6, <1>7, StepRows DEF RowStep

\* The only step that makes a released key hold its allowance again is the last
\* statement of a renewal that was not asked to resume: no reservation, however
\* long it was under way, no retry, no AI call and no webhook does.
THEOREM OnlyRenewalRevives ==
    Spec => [][\A k \in Keys : LeftAlone(k) /\ ~LeftAlone(k)'
                    => \E w \in Workers : RevivedBy(w)]_vars
<1>1. TypeOK /\ TypeOK' /\ Standing /\ [Next]_vars =>
        [\A k \in Keys : LeftAlone(k) /\ ~LeftAlone(k)'
              => \E w \in Workers : RevivedBy(w)]_vars
  BY StaysReleased
<1> QED
  BY <1>1, Types, Stands, PTL DEF Spec

RenewalsResume == \A w \in Workers : h[w].pc \in RenewPcs => h[w].resume

\* Where every renewal resumes (the pages that hold the key of an unfinished
\* run ask for it; the export page does not), a key that was released stays
\* released until a renewal takes its intent away.
THEOREM ReleasedStaysReleased ==
    ASSUME ResumeModes \subseteq {TRUE}
    PROVE  Spec => []ReleasedKeyStaysReleased
<1>1. Init => RenewalsResume /\ ReleasedKeyStaysReleased
  BY DEF Init, RenewalsResume, RenewPcs, Idle, ReleasedKeyStaysReleased, NoRow
<1>2. ASSUME TypeOK, RenewalsResume, Next PROVE RenewalsResume'
  <2>1. SUFFICES ASSUME NEW w \in Workers, h'[w].pc \in RenewPcs PROVE h'[w].resume
    BY DEF RenewalsResume
  <2>2. h'[w] = h[w] => h'[w].resume
    BY <1>2, <2>1 DEF RenewalsResume
  <2>3. ASSUME NEW v \in Workers, NEW r, Moved(v, r) PROVE h'[w].resume
    <3>1. CASE v = w
      <4>1. h'[w] = r
        BY <1>2, <2>3, <3>1 DEF Moved, TypeOK
      <4> QED
        BY <1>2, <2>1, <2>3, <3>1, <4>1 DEF Moved, RenewalsResume
    <3>2. CASE v # w
      BY <1>2, <2>2, <2>3, <3>2 DEF Moved, TypeOK
    <3> QED
      BY <3>1, <3>2
  <2> QED
    BY <1>2, <2>2, <2>3, StepMoves
<1>3. ASSUME TypeOK, TypeOK', Standing, RenewalsResume, ReleasedKeyStaysReleased, Next
      PROVE  ReleasedKeyStaysReleased'
  <2>1. \A w \in Workers : ~RevivedBy(w)
    BY <1>3 DEF RevivedBy, At, RenewalsResume, RenewPcs
  <2>2. \A k \in Keys : LeftAlone(k)
    BY <1>3 DEF LeftAlone, ReleasedKeyStaysReleased
  <2>3. \A k \in Keys : LeftAlone(k)'
    BY <1>3, <2>1, <2>2, StaysReleased
  <2> QED
    BY <2>3 DEF LeftAlone, ReleasedKeyStaysReleased
<1>4. ASSUME RenewalsResume, ReleasedKeyStaysReleased, UNCHANGED vars
      PROVE  RenewalsResume' /\ ReleasedKeyStaysReleased'
  BY <1>4 DEF RenewalsResume, ReleasedKeyStaysReleased, LiveIntent, vars
<1> QED
  BY <1>1, <1>2, <1>3, <1>4, Types, Stands, PTL DEF Spec
==============================================================================
