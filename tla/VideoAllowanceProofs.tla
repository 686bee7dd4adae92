------------------------ MODULE VideoAllowanceProofs -------------------------
(***************************************************************************)
(* The promises of VideoAllowance hold for any number of videos, purchases *)
(* and limits.  Each follows from the step that holds a video: it counts   *)
(* the other videos of the allowance before it adds its own.               *)
(***************************************************************************)
EXTENDS VideoAllowance, SumProofs

\* The types of the abstract state.
THEOREM AllowanceType == Spec => []TypeOK
<1>1. Init => TypeOK
  <2>1. NoVideo \in Videos
    BY DEF NoVideo, Videos
  <2> QED
    BY <2>1 DEF Init, TypeOK
<1>2. TypeOK /\ [Next]_video => TypeOK'
  <2> SUFFICES ASSUME TypeOK, [Next]_video PROVE TypeOK'
    OBVIOUS
  <2>1. ASSUME NEW k \in Keys, NEW b \in Buckets, NEW p \in Purchases \cup {NoPurchase},
               NEW t \in Times, Hold(k, b, p, t)
        PROVE  TypeOK'
    BY <2>1 DEF Hold, TypeOK, Videos
  <2>2. ASSUME NEW k \in Keys, Spend(k) PROVE TypeOK'
    BY <2>2 DEF Spend, TypeOK, Videos
  <2>3. ASSUME NEW K \in SUBSET Keys, GiveBack(K) PROVE TypeOK'
    BY <2>3 DEF GiveBack, TypeOK, Videos
  <2>4. ASSUME NEW k \in Keys, NEW b \in Buckets, NEW t \in Times, Withdraw(k, b, t)
        PROVE  TypeOK'
    BY <2>4 DEF Withdraw, TypeOK, Videos
  <2>5. CASE UNCHANGED video
    BY <2>5 DEF TypeOK
  <2> QED
    BY <2>1, <2>2, <2>3, <2>4, <2>5 DEF Next
<1> QED
  BY <1>1, <1>2, PTL DEF Spec

\* A set of videos that gains at most one member, of which a step has found
\* fewer than n others, stays within n.
LEMMA CountedBeforeAdded ==
    ASSUME NEW S, NEW T, NEW k, NEW n \in Nat,
           IsFiniteSet(S), T \subseteq S \cup {k},
           Cardinality(S) <= n,
           k \in T => Cardinality(S \ {k}) < n
    PROVE  Cardinality(T) <= n
<1>1. CASE k \in T
  <2>1. IsFiniteSet(S \ {k}) /\ Cardinality(S \ {k}) \in Nat
    BY FS_Subset, FS_CardinalityType
  <2>2. IsFiniteSet((S \ {k}) \cup {k})
        /\ Cardinality((S \ {k}) \cup {k}) = Cardinality(S \ {k}) + 1
    BY <2>1, FS_AddElement
  <2>3. T \subseteq (S \ {k}) \cup {k}
    OBVIOUS
  <2>4. Cardinality(T) <= Cardinality((S \ {k}) \cup {k}) /\ Cardinality(T) \in Nat
    BY <2>2, <2>3, FS_Subset, FS_CardinalityType
  <2> QED
    BY <1>1, <2>1, <2>2, <2>4
<1>2. CASE k \notin T
  <2>1. T \subseteq S
    BY <1>2
  <2> QED
    BY <2>1, FS_Subset, FS_CardinalityType
<1> QED
  BY <1>1, <1>2

\* The free trial is never exceeded (FREE_VIDEO_LIMIT).
THEOREM FreeTrial == Spec => []FreeTrialWithinLimit
<1>1. Init => FreeTrialWithinLimit
  <2> SUFFICES ASSUME Init PROVE FreeTrialWithinLimit
    OBVIOUS
  <2>1. FreeVideos = {}
    BY DEF Init, NoVideo, FreeVideos, IsPaid
  <2> QED
    BY <2>1, FS_EmptySet, PolicyAssumption DEF FreeTrialWithinLimit
<1>2. TypeOK /\ FreeTrialWithinLimit /\ [Next]_video => FreeTrialWithinLimit'
  <2> SUFFICES ASSUME TypeOK, FreeTrialWithinLimit, [Next]_video
               PROVE  FreeTrialWithinLimit'
    OBVIOUS
  <2> FreeVideoLimit \in Nat /\ IsFiniteSet(FreeVideos)
    BY PolicyAssumption, AllowanceAssumption, FS_Subset DEF FreeVideos
  <2>1. ASSUME NEW k \in Keys, NEW b \in Buckets, NEW p \in Purchases \cup {NoPurchase},
               NEW t \in Times, Hold(k, b, p, t)
        PROVE  FreeTrialWithinLimit'
    <3>1. FreeVideos' \subseteq FreeVideos \cup {k}
      BY <2>1 DEF Hold, TypeOK, FreeVideos, IsPaid
    <3>2. k \in FreeVideos' => Cardinality(FreeVideos \ {k}) < FreeVideoLimit
      BY <2>1 DEF Hold, HasRoom, TypeOK, FreeVideos, IsPaid
    <3> QED
      BY <3>1, <3>2, CountedBeforeAdded DEF FreeTrialWithinLimit
  <2>2. ASSUME FreeVideos' \subseteq FreeVideos PROVE FreeTrialWithinLimit'
    BY <2>2, FS_Subset, FS_CardinalityType DEF FreeTrialWithinLimit
  <2>3. ASSUME NEW k \in Keys, Spend(k) PROVE FreeVideos' \subseteq FreeVideos
    BY <2>3 DEF Spend, TypeOK, FreeVideos, IsPaid
  <2>4. ASSUME NEW K \in SUBSET Keys, GiveBack(K) PROVE FreeVideos' \subseteq FreeVideos
    BY <2>4 DEF GiveBack, TypeOK, Videos, FreeVideos, IsPaid
  <2>5. ASSUME NEW k \in Keys, NEW b \in Buckets, NEW t \in Times, Withdraw(k, b, t)
        PROVE  FreeVideos' \subseteq FreeVideos
    BY <2>5 DEF Withdraw, TypeOK, FreeVideos, IsPaid
  <2>6. CASE UNCHANGED video
    BY <2>2, <2>6 DEF FreeVideos, IsPaid
  <2> QED
    BY <2>1, <2>2, <2>3, <2>4, <2>5, <2>6 DEF Next
<1> QED
  BY <1>1, <1>2, AllowanceType, PTL DEF Spec

\* The free trial never pays for more seconds than it has (FREE_SECONDS_LIMIT):
\* the step that holds a video has summed the others.
THEOREM FreeSeconds == Spec => []FreeSecondsWithinLimit
<1>1. Init => FreeSecondsWithinLimit
  <2> SUFFICES ASSUME Init PROVE FreeSecondsWithinLimit
    OBVIOUS
  <2>1. FreeVideos = {}
    BY DEF Init, NoVideo, FreeVideos, IsPaid
  <2> QED
    BY <2>1, SumOfNothing, PolicyAssumption DEF FreeSecondsWithinLimit
<1>2. TypeOK /\ FreeSecondsWithinLimit /\ [Next]_video => FreeSecondsWithinLimit'
  <2> SUFFICES ASSUME TypeOK, FreeSecondsWithinLimit, [Next]_video
               PROVE  FreeSecondsWithinLimit'
    OBVIOUS
  <2> DEFINE S == FreeVideos
             T == FreeVideos'
  <2>0. /\ Duration \in [Keys -> Nat] /\ FreeSecondsLimit \in Nat
        /\ S \in SUBSET Keys /\ IsFiniteSet(S) /\ T \in SUBSET Keys
        /\ SumFunctionOnSet(Duration, S) <= FreeSecondsLimit
    BY PolicyAssumption, AllowanceAssumption, FS_Subset DEF FreeVideos, FreeSecondsWithinLimit
  <2>1. ASSUME NEW k \in Keys, NEW b \in Buckets, NEW p \in Purchases \cup {NoPurchase},
               NEW t \in Times, Hold(k, b, p, t)
        PROVE  SumFunctionOnSet(Duration, T) <= FreeSecondsLimit
    <3>1. T \subseteq S \cup {k}
      BY <2>1 DEF Hold, TypeOK, FreeVideos, IsPaid
    <3>2. k \in T => SumFunctionOnSet(Duration, S \ {k}) + Duration[k] <= FreeSecondsLimit
      BY <2>1 DEF Hold, HasRoom, TypeOK, FreeVideos, IsPaid
    <3> HIDE DEF S, T
    <3> QED
      BY <2>0, <3>1, <3>2, SummedBeforeAdded
  <2>2. ASSUME T \subseteq S PROVE SumFunctionOnSet(Duration, T) <= FreeSecondsLimit
    <3> HIDE DEF S, T
    <3>1. SumFunctionOnSet(Duration, T) <= SumFunctionOnSet(Duration, S)
      BY <2>0, <2>2, SumGrows
    <3>2. SumFunctionOnSet(Duration, T) \in Nat /\ SumFunctionOnSet(Duration, S) \in Nat
      BY <2>0, <2>2, SumType, FS_Subset
    <3> QED
      BY <2>0, <3>1, <3>2
  <2>3. ASSUME NEW k \in Keys, Spend(k) PROVE T \subseteq S
    BY <2>3 DEF Spend, TypeOK, FreeVideos, IsPaid
  <2>4. ASSUME NEW K \in SUBSET Keys, GiveBack(K) PROVE T \subseteq S
    BY <2>4 DEF GiveBack, TypeOK, Videos, FreeVideos, IsPaid
  <2>5. ASSUME NEW k \in Keys, NEW b \in Buckets, NEW t \in Times, Withdraw(k, b, t)
        PROVE  T \subseteq S
    BY <2>5 DEF Withdraw, TypeOK, FreeVideos, IsPaid
  <2>6. CASE UNCHANGED video
    <3>1. T \subseteq S
      BY <2>6 DEF FreeVideos, IsPaid
    <3> QED
      BY <2>2, <3>1 DEF FreeSecondsWithinLimit
  <2>7. SumFunctionOnSet(Duration, T) <= FreeSecondsLimit => FreeSecondsWithinLimit'
    BY DEF FreeSecondsWithinLimit
  <2> HIDE DEF S, T
  <2> QED
    BY <2>1, <2>2, <2>3, <2>4, <2>5, <2>6, <2>7 DEF Next
<1> QED
  BY <1>1, <1>2, AllowanceType, PTL DEF Spec

\* No purchase pays for two videos (credits = 1).
THEOREM PurchaseOnce == Spec => []OneVideoPerPurchase
<1>1. Init => OneVideoPerPurchase
  BY DEF Init, NoVideo, OneVideoPerPurchase, VideosOnPurchase, IsPaid
<1>2. TypeOK /\ OneVideoPerPurchase /\ [Next]_video => OneVideoPerPurchase'
  <2> SUFFICES ASSUME TypeOK, OneVideoPerPurchase, [Next]_video,
                      NEW q \in Purchases, NEW i \in Keys, NEW j \in Keys,
                      (i \in VideosOnPurchase(q))', (j \in VideosOnPurchase(q))'
               PROVE  i = j
    BY DEF OneVideoPerPurchase
  <2>0. i \in VideosOnPurchase(q) /\ j \in VideosOnPurchase(q) => i = j
    BY DEF OneVideoPerPurchase
  <2>1. ASSUME NEW k \in Keys, NEW b \in Buckets, NEW p \in Purchases \cup {NoPurchase},
               NEW t \in Times, Hold(k, b, p, t)
        PROVE  i = j
    BY <2>0, <2>1, AllowanceAssumption DEF Hold, HasRoom, TypeOK, VideosOnPurchase, IsPaid
  <2>2. ASSUME NEW k \in Keys, Spend(k) PROVE i = j
    BY <2>0, <2>2 DEF Spend, TypeOK, VideosOnPurchase, IsPaid
  <2>3. ASSUME NEW K \in SUBSET Keys, GiveBack(K) PROVE i = j
    BY <2>0, <2>3 DEF GiveBack, TypeOK, Videos, VideosOnPurchase, IsPaid
  <2>4. ASSUME NEW k \in Keys, NEW b \in Buckets, NEW t \in Times, Withdraw(k, b, t)
        PROVE  i = j
    BY <2>0, <2>4 DEF Withdraw, TypeOK, VideosOnPurchase, IsPaid
  <2>5. CASE UNCHANGED video
    BY <2>0, <2>5 DEF VideosOnPurchase, IsPaid
  <2> QED
    BY <2>1, <2>2, <2>3, <2>4, <2>5 DEF Next
<1> QED
  BY <1>1, <1>2, AllowanceType, PTL DEF Spec

\* No Tokyo day exceeds the operator's limit (OPERATOR_DAILY_VIDEO_LIMIT).
THEOREM OperatorDay == Spec => []OperatorDayWithinLimit
<1>1. Init => OperatorDayWithinLimit
  <2> SUFFICES ASSUME Init, NEW t \in Times
               PROVE  Cardinality(OperatorVideosOn(StartOfTokyoDay(t))) <= OperatorDailyLimit
    BY DEF OperatorDayWithinLimit
  <2>1. OperatorVideosOn(StartOfTokyoDay(t)) = {}
    BY DEF Init, NoVideo, OperatorVideosOn, IsPaid
  <2> QED
    BY <2>1, FS_EmptySet, PolicyAssumption
<1>2. TypeOK /\ OperatorDayWithinLimit /\ [Next]_video => OperatorDayWithinLimit'
  <2> SUFFICES ASSUME TypeOK, OperatorDayWithinLimit, [Next]_video, NEW u \in Times
               PROVE  Cardinality(OperatorVideosOn(StartOfTokyoDay(u)))' <= OperatorDailyLimit
    BY DEF OperatorDayWithinLimit
  <2> DEFINE day == StartOfTokyoDay(u)
             S == OperatorVideosOn(day)
             T == OperatorVideosOn(day)'
  <2>0. /\ OperatorDailyLimit \in Nat
        /\ IsFiniteSet(S)
        /\ Cardinality(S) <= OperatorDailyLimit
    BY PolicyAssumption, AllowanceAssumption, FS_Subset DEF OperatorVideosOn, OperatorDayWithinLimit
  <2>1. ASSUME NEW k \in Keys, NEW b \in Buckets, NEW p \in Purchases \cup {NoPurchase},
               NEW t \in Times, Hold(k, b, p, t)
        PROVE  Cardinality(T) <= OperatorDailyLimit
    <3>1. T \subseteq S \cup {k}
      BY <2>1 DEF Hold, TypeOK, OperatorVideosOn, IsPaid
    <3>2. k \in T => Cardinality(S \ {k}) < OperatorDailyLimit
      BY <2>1 DEF Hold, HasRoom, TypeOK, OperatorVideosOn, IsPaid
    <3> HIDE DEF S, T
    <3> QED
      BY <2>0, <3>1, <3>2, CountedBeforeAdded
  <2>2. ASSUME T \subseteq S PROVE Cardinality(T) <= OperatorDailyLimit
    <3> HIDE DEF S, T
    <3> QED
      BY <2>0, <2>2, FS_Subset, FS_CardinalityType
  <2>3. ASSUME NEW k \in Keys, Spend(k) PROVE T \subseteq S
    BY <2>3 DEF Spend, TypeOK, OperatorVideosOn, IsPaid
  <2>4. ASSUME NEW K \in SUBSET Keys, GiveBack(K) PROVE T \subseteq S
    BY <2>4 DEF GiveBack, TypeOK, Videos, OperatorVideosOn, IsPaid
  <2>5. ASSUME NEW k \in Keys, NEW b \in Buckets, NEW t \in Times, Withdraw(k, b, t)
        PROVE  T \subseteq S
    BY <2>5 DEF Withdraw, TypeOK, OperatorVideosOn, IsPaid
  <2>6. CASE UNCHANGED video
    <3>1. T \subseteq S
      BY <2>6 DEF OperatorVideosOn, IsPaid
    <3> QED
      BY <2>2, <3>1
  <2> QED
    BY <2>1, <2>2, <2>3, <2>4, <2>5, <2>6 DEF Next
<1> QED
  BY <1>1, <1>2, AllowanceType, PTL DEF Spec

\* A spent allowance stays spent on its video.
THEOREM Spent == Spec => SpentStaysSpent
<1>1. TypeOK /\ [Next]_video
        => [\A k \in Keys : video[k].stage = "spent" => video'[k] = video[k]]_video
  <2> SUFFICES ASSUME TypeOK, Next, NEW j \in Keys, video[j].stage = "spent"
               PROVE  video'[j] = video[j]
    OBVIOUS
  <2>1. ASSUME NEW k \in Keys, NEW b \in Buckets, NEW p \in Purchases \cup {NoPurchase},
               NEW t \in Times, Hold(k, b, p, t)
        PROVE  video'[j] = video[j]
    BY <2>1 DEF Hold, TypeOK
  <2>2. ASSUME NEW k \in Keys, Spend(k) PROVE video'[j] = video[j]
    BY <2>2 DEF Spend, TypeOK
  <2>3. ASSUME NEW K \in SUBSET Keys, GiveBack(K) PROVE video'[j] = video[j]
    BY <2>3 DEF GiveBack, TypeOK
  <2>4. ASSUME NEW k \in Keys, NEW b \in Buckets, NEW t \in Times, Withdraw(k, b, t)
        PROVE  video'[j] = video[j]
    BY <2>4 DEF Withdraw, TypeOK
  <2> QED
    BY <2>1, <2>2, <2>3, <2>4 DEF Next
<1> QED
  BY <1>1, AllowanceType, PTL DEF Spec, SpentStaysSpent
==============================================================================
