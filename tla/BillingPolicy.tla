---------------------------- MODULE BillingPolicy ----------------------------
(***************************************************************************)
(* The allowances of lib/billing-policy.ts: which bucket pays for a video, *)
(* and how many videos each bucket has.  Pure definitions, shared by the   *)
(* modules that model the reservation tables.                              *)
(***************************************************************************)
EXTENDS Integers

CONSTANTS
    Plans,               \* the keys of MONTHLY_PLANS
    PlanLimit,           \* videos of each plan per subscription period
    FreeVideoLimit,      \* FREE_VIDEO_LIMIT (2)
    FreeSecondsLimit,    \* FREE_SECONDS_LIMIT (180)
    OperatorDailyLimit,  \* OPERATOR_DAILY_VIDEO_LIMIT (20)
    DayLength,           \* seconds of a day (86400)
    DayOffset            \* Tokyo's offset from UTC (32400)

ASSUME PolicyAssumption ==
    /\ PlanLimit \in [Plans -> Nat]
    /\ FreeVideoLimit \in Nat
    /\ FreeSecondsLimit \in Nat
    /\ OperatorDailyLimit \in Nat
    /\ DayLength \in Nat \ {0}
    /\ DayOffset \in 0 .. (DayLength - 1)

Buckets == {"free", "subscription", "one_time", "operator"}

NoBucket == "none"

\* The first second of the Tokyo day that holds t.
StartOfTokyoDay(t) == ((t + DayOffset) \div DayLength) * DayLength - DayOffset

(***************************************************************************)
(* chooseBillingBucket.  A snapshot says what is used and what is left.  An*)
(* operator never falls through to a customer's bucket; a customer pays    *)
(* from the plan first, then from bought videos, then from the free trial. *)
(***************************************************************************)
CustomerBuckets(snapshot, seconds) ==
    {b \in Buckets :
        \/ /\ b = "subscription"
           /\ snapshot.planActive
           /\ snapshot.planVideosUsed < snapshot.planLimit
        \/ /\ b = "one_time"
           /\ snapshot.creditsLeft > 0
        \/ /\ b = "free"
           /\ snapshot.freeVideosUsed < FreeVideoLimit
           /\ snapshot.freeSecondsUsed + seconds <= FreeSecondsLimit}

PaymentOrder == <<"subscription", "one_time", "free">>

ChooseBillingBucket(operator, snapshot, seconds) ==
    LET usable == CustomerBuckets(snapshot, seconds)
        first(i) == /\ PaymentOrder[i] \in usable
                    /\ \A j \in 1 .. (i - 1) : PaymentOrder[j] \notin usable
    IN  IF operator
          THEN IF snapshot.operatorVideosToday < OperatorDailyLimit
                 THEN "operator" ELSE NoBucket
          ELSE IF usable = {} THEN NoBucket
          ELSE PaymentOrder[CHOOSE i \in 1 .. 3 : first(i)]
==============================================================================
