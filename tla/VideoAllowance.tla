---------------------------- MODULE VideoAllowance ----------------------------
(***************************************************************************)
(* What the reservations promise, without tables, clocks, leases, intents  *)
(* or requests: each video is paid for by one allowance, an allowance never*)
(* pays for more videos than it has, and a saved video stays paid for.     *)
(* UsageReservation is shown to implement it.                              *)
(***************************************************************************)
EXTENDS BillingPolicy, FiniteSets, Functions

CONSTANTS
    Keys,       \* the videos, by idempotency key
    Purchases,  \* one-time purchases, each good for one video
    Duration,   \* source seconds of each video
    Times       \* the seconds at which a video can come to be held

NoPurchase == 0

ASSUME AllowanceAssumption ==
    /\ IsFiniteSet(Keys)
    /\ NoPurchase \notin Purchases
    /\ Duration \in [Keys -> Nat]
    /\ Times \subseteq Nat

VARIABLE video  \* for each key: its stage, and what pays for it since when

NoVideo == [stage |-> "none", bucket |-> NoBucket, purchase |-> NoPurchase, created |-> 0]

Videos == [stage : {"none", "held", "spent", "returned"},
           bucket : Buckets \cup {NoBucket},
           purchase : Purchases \cup {NoPurchase},
           created : Times \cup {0}]

IsPaid(k) == video[k].stage \in {"held", "spent"}

FreeVideos == {k \in Keys : IsPaid(k) /\ video[k].bucket = "free"}

VideosOnPurchase(p) == {k \in Keys : IsPaid(k) /\ video[k].purchase = p}

OperatorVideosOn(day) ==
    {k \in Keys : /\ IsPaid(k) /\ video[k].bucket = "operator"
                  /\ StartOfTokyoDay(video[k].created) = day}

-------------------------------------------------------------------------------

Init == video = [k \in Keys |-> NoVideo]

\* Mutant: a video may come on top of a full allowance.
HasRoomOnTop(k, bucket, purchase, t) ==
    \/ /\ bucket = "free" /\ purchase = NoPurchase
       /\ Cardinality(FreeVideos \ {k}) <= FreeVideoLimit
    \/ /\ bucket = "operator" /\ purchase = NoPurchase
       /\ Cardinality(OperatorVideosOn(StartOfTokyoDay(t)) \ {k}) <= OperatorDailyLimit
    \/ bucket = "one_time" /\ purchase \in Purchases
    \/ bucket = "subscription" /\ purchase = NoPurchase

\* The allowance `bucket' has room for k beside the other videos it pays for.
HasRoom(k, bucket, purchase, t) ==
    \/ /\ bucket = "free" /\ purchase = NoPurchase
       /\ Cardinality(FreeVideos \ {k}) < FreeVideoLimit
       /\ SumFunctionOnSet(Duration, FreeVideos \ {k}) + Duration[k] <= FreeSecondsLimit
    \/ /\ bucket = "operator" /\ purchase = NoPurchase
       /\ Cardinality(OperatorVideosOn(StartOfTokyoDay(t)) \ {k}) < OperatorDailyLimit
    \/ /\ bucket = "one_time" /\ purchase \in Purchases
       /\ VideosOnPurchase(purchase) \subseteq {k}
    \/ /\ bucket = "subscription" /\ purchase = NoPurchase

\* Mutant: a saved video is charged anew.
HoldSpent(k, bucket, purchase, t) ==
    /\ HasRoom(k, bucket, purchase, t)
    /\ video' = [video EXCEPT ![k] = [stage |-> "held", bucket |-> bucket,
                                      purchase |-> purchase, created |-> t]]

\* A reservation is made, or made anew under another allowance.
Hold(k, bucket, purchase, t) ==
    /\ video[k].stage # "spent"
    /\ HasRoom(k, bucket, purchase, t)
    /\ video' = [video EXCEPT ![k] = [stage |-> "held", bucket |-> bucket,
                                      purchase |-> purchase, created |-> t]]

\* The video is saved, or its source proves longer than was declared.
Spend(k) ==
    /\ video[k].stage = "held"
    /\ video' = [video EXCEPT ![k].stage = "spent"]

\* Reservations that lapsed, were left or lost their funding, at once.
GiveBack(K) ==
    /\ \A k \in K : video[k].stage = "held"
    /\ video' = [k \in Keys |-> IF k \in K THEN [video[k] EXCEPT !.stage = "returned"]
                                           ELSE video[k]]

\* Mutant: the tombstone is dated by its expiry.
WithdrawByExpiry(k, bucket, t) ==
    /\ video[k].stage = "none"
    /\ video' = [video EXCEPT ![k] = [stage |-> "returned", bucket |-> bucket,
                                      purchase |-> NoPurchase, created |-> t + 1]]

\* A key given back before it was ever held.
Withdraw(k, bucket, t) ==
    /\ video[k].stage = "none"
    /\ video' = [video EXCEPT ![k] = [stage |-> "returned", bucket |-> bucket,
                                      purchase |-> NoPurchase, created |-> t]]

Next ==
    \/ \E k \in Keys, bucket \in Buckets, purchase \in Purchases \cup {NoPurchase},
          t \in Times : Hold(k, bucket, purchase, t)
    \/ \E k \in Keys : Spend(k)
    \/ \E K \in SUBSET Keys : GiveBack(K)
    \/ \E k \in Keys, bucket \in Buckets, t \in Times : Withdraw(k, bucket, t)

Spec == Init /\ [][Next]_video

-------------------------------------------------------------------------------
(* What the allowances promise.                                             *)

TypeOK == video \in [Keys -> Videos]

\* The free trial of FREE_VIDEO_LIMIT videos is never exceeded.
FreeTrialWithinLimit == Cardinality(FreeVideos) <= FreeVideoLimit

\* Nor for more source seconds than FREE_SECONDS_LIMIT.
FreeSecondsWithinLimit == SumFunctionOnSet(Duration, FreeVideos) <= FreeSecondsLimit

\* No purchase pays for two videos, whatever was given back and held anew.
OneVideoPerPurchase ==
    \A p \in Purchases, j, k \in Keys :
        j \in VideosOnPurchase(p) /\ k \in VideosOnPurchase(p) => j = k

\* A Tokyo day never pays for more operator videos than the daily limit.
OperatorDayWithinLimit ==
    \A t \in Times : Cardinality(OperatorVideosOn(StartOfTokyoDay(t))) <= OperatorDailyLimit

\* An allowance once spent on a video stays spent on it.
SpentStaysSpent ==
    [][\A k \in Keys : video[k].stage = "spent" => video'[k] = video[k]]_video
-------------------------------------------------------------------------------
(* The small instance that is model-checked.                                *)

\* Three short videos exceed the trial's two; the two long ones its 180 seconds.
MCDuration == [k \in Keys |-> <<20, 60, 100, 130>>[k]]
MCPlanLimit == [p \in Plans |-> 1]

\* Two Tokyo days.
MCTimes == {1, 3}
===============================================================================
