---------------------------- MODULE AccountsProofs ----------------------------
(***************************************************************************)
(* The safety of the components of MCAccounts, for every set of customers, *)
(* executors, devices, browsers, passkeys and attempts, and every limit:   *)
(* each component has an inductive invariant, and rests while another      *)
(* moves.  They are OperatorIInv (what a terminal counted before it was    *)
(* let in), DeletionIInv (what a claimed request has ruled out by each     *)
(* step of its executor), TrialIInv (what moves fits where it moves),      *)
(* SessionsIInv (what each credential, session and ceremony still vouches  *)
(* for) and GateIInv.                                                      *)
(***************************************************************************)
EXTENDS MCAccounts, SumProofs, SequenceTheorems

-------------------------------------------------------------------------------
(* OperatorAccess.                                                          *)

OperatorTypes ==
    /\ devices \in Seq(Terminals)
    /\ terminal \in [Terminals -> {"idle", "compare", "activate", "replace"}]
    /\ attempts \in Nat /\ guesses \in Nat /\ enrolls \in Nat
    /\ over \in BOOLEAN /\ blocked \in BOOLEAN

\* What is counted is what was guessed; so a request that is past the look at
\* the block was let in while the count was short of the limit.
OperatorIInv ==
    /\ OperatorTypes
    /\ CapHolds
    /\ guesses = attempts
    /\ GuessesAreBounded

LEMMA ComparingIsFinite ==
    ASSUME OperatorTypes
    PROVE  /\ Cardinality(Terminals) \in Nat /\ Cardinality(Comparing) \in Nat
           /\ Cardinality(Comparing) <= Cardinality(Terminals)
  BY OperatorAssumption, FS_CardinalityType, FS_Subset DEF Comparing

LEMMA TerminalGoes ==
    ASSUME OperatorTypes, NEW t \in Terminals,
           NEW place \in {"idle", "compare", "activate", "replace"}, Goto(t, place)
    PROVE  /\ terminal' \in [Terminals -> {"idle", "compare", "activate", "replace"}]
           /\ Cardinality(Comparing') \in Nat /\ Cardinality(Comparing') <= Cardinality(Terminals)
           /\ place # "compare" /\ terminal[t] # "compare" => Comparing' = Comparing
           /\ place # "compare" /\ terminal[t] = "compare" =>
                 Cardinality(Comparing') = Cardinality(Comparing) - 1
<1>1. terminal' \in [Terminals -> {"idle", "compare", "activate", "replace"}]
  BY DEF OperatorTypes, Goto
<1>2. /\ IsFiniteSet(Comparing) /\ IsFiniteSet(Comparing')
      /\ Cardinality(Comparing') \in Nat /\ Cardinality(Comparing') <= Cardinality(Terminals)
  BY OperatorAssumption, FS_CardinalityType, FS_Subset DEF Comparing
<1>3. ASSUME place # "compare" PROVE Comparing' = Comparing \ {t}
  BY <1>3 DEF Comparing, Goto, OperatorTypes
<1>4. ASSUME place # "compare", terminal[t] # "compare" PROVE Comparing' = Comparing
  BY <1>3, <1>4 DEF Comparing
<1>5. ASSUME place # "compare", terminal[t] = "compare"
      PROVE  Cardinality(Comparing') = Cardinality(Comparing) - 1
  <2>1. t \in Comparing
    BY <1>5 DEF Comparing
  <2> QED
    BY <1>2, <1>3, <1>5, <2>1, FS_RemoveElement
<1> QED
  BY <1>1, <1>2, <1>4, <1>5

LEMMA OperatorsBegin ==
    ASSUME Init PROVE OperatorIInv
<1>1. OperatorTypes /\ CapHolds /\ guesses = attempts
  <2>1. devices \in Seq(Terminals) /\ Len(devices) = 0
    BY DEF Init
  <2>2. terminal \in [Terminals -> {"idle", "compare", "activate", "replace"}]
    BY DEF Init
  <2>3. over \in BOOLEAN /\ blocked \in BOOLEAN
    BY Zenon DEF Init
  <2>4. attempts \in Nat /\ guesses \in Nat /\ enrolls \in Nat /\ guesses = attempts
    BY DEF Init
  <2>5. CapHolds
    BY <2>1, OperatorAssumption DEF CapHolds
  <2> QED
    BY <2>1, <2>2, <2>3, <2>4, <2>5, Zenon DEF OperatorTypes
<1>2. /\ Cardinality(Terminals) \in Nat /\ Cardinality(Comparing) \in Nat
      /\ Cardinality(Comparing) <= Cardinality(Terminals)
  BY <1>1, ComparingIsFinite
<1> QED
  BY <1>1, <1>2, OperatorAssumption DEF Init, OperatorIInv, GuessesAreBounded

LEMMA OperatorsRest ==
    ASSUME OperatorIInv, UNCHANGED ovars PROVE OperatorIInv'
  BY DEF OperatorIInv, OperatorTypes, CapHolds, GuessesAreBounded, Comparing, ovars

\* Where no code is compared and no slot is taken, the counts stand or start anew.
LEMMA CountsStand ==
    ASSUME OperatorIInv, OperatorTypes', CapHolds', Clear \/ UNCHANGED throttle,
           Cardinality(Comparing') \in Nat,
           Cardinality(Comparing') <= Cardinality(Terminals), Comparing' = Comparing \/ Clear
    PROVE  OperatorIInv'
<1>1. /\ Cardinality(Terminals) \in Nat /\ Cardinality(Comparing) \in Nat
  BY ComparingIsFinite DEF OperatorIInv
<1>2. CASE Clear
  BY <1>1, <1>2, OperatorAssumption DEF Clear, OperatorIInv, GuessesAreBounded
<1>3. CASE UNCHANGED throttle /\ Comparing' = Comparing
  <2>1. Cardinality(Comparing') = Cardinality(Comparing)
    BY <1>3
  <2> QED
    BY <1>1, <1>3, <2>1 DEF throttle, OperatorIInv, GuessesAreBounded
<1> QED
  BY <1>2, <1>3

LEMMA EnrollBounded ==
    ASSUME OperatorIInv, NEW t \in Terminals, Enroll(t)
    PROVE  OperatorIInv'
<1>1. /\ terminal' \in [Terminals -> {"idle", "compare", "activate", "replace"}]
      /\ Cardinality(Comparing') \in Nat /\ Cardinality(Comparing') <= Cardinality(Terminals)
  BY TerminalGoes DEF Enroll, OperatorIInv
<1>2. OperatorTypes' /\ CapHolds'
  BY <1>1 DEF Enroll, throttle, OperatorIInv, OperatorTypes, CapHolds
<1>3. ~blocked /\ UNCHANGED throttle
  BY DEF Enroll
<1>4. Cardinality(Terminals) \in Nat
  BY ComparingIsFinite DEF OperatorIInv
<1> QED
  BY <1>1, <1>2, <1>3, <1>4, OperatorAssumption
  DEF throttle, OperatorIInv, OperatorTypes, GuessesAreBounded

LEMMA WrongCodeBounded ==
    ASSUME OperatorIInv, NEW t \in Terminals, WrongCode(t)
    PROVE  OperatorIInv'
<1>1. /\ terminal' \in [Terminals -> {"idle", "compare", "activate", "replace"}]
      /\ Cardinality(Comparing') \in Nat /\ Cardinality(Comparing') <= Cardinality(Terminals)
      /\ Cardinality(Comparing') = Cardinality(Comparing) - 1
  BY TerminalGoes DEF WrongCode, OperatorIInv
<1>2. blocked' = (attempts' >= MaxAttempts)
  BY Zenon DEF WrongCode, Blocks
<1>3. /\ Cardinality(Terminals) \in Nat /\ Cardinality(Comparing) \in Nat
      /\ Cardinality(Comparing) <= Cardinality(Terminals)
  BY ComparingIsFinite DEF OperatorIInv
<1>4. /\ attempts' = IF over THEN 1 ELSE attempts + 1
      /\ guesses' = attempts' /\ over' = FALSE
      /\ UNCHANGED <<devices, enrolls>>
  BY DEF WrongCode, OperatorIInv
<1>5. attempts' \in Nat /\ over' \in BOOLEAN
  <2>1. attempts \in Nat
    BY DEF OperatorIInv, OperatorTypes
  <2>2. attempts' = 1 \/ attempts' = attempts + 1
    BY <1>4, Zenon
  <2>3. over' \in BOOLEAN
    BY <1>4, Zenon
  <2> QED
    BY <2>1, <2>2, <2>3
<1>6. blocked' \in BOOLEAN /\ (blocked' <=> attempts' >= MaxAttempts)
  <2>1. (attempts' >= MaxAttempts) \in BOOLEAN
    BY <1>5, OperatorAssumption
  <2>2. blocked' \in BOOLEAN
    BY <1>2, <2>1, Zenon
  <2>3. blocked' <=> attempts' >= MaxAttempts
    BY <1>2
  <2> QED
    BY <2>2, <2>3
<1>7. OperatorTypes' /\ CapHolds'
  BY <1>1, <1>4, <1>5, <1>6, Zenon DEF OperatorIInv, OperatorTypes, CapHolds
<1> QED
  BY <1>1, <1>3, <1>4, <1>6, <1>7, OperatorAssumption
  DEF OperatorIInv, OperatorTypes, GuessesAreBounded

LEMMA RightCodeBounded ==
    ASSUME OperatorIInv, NEW t \in Terminals, RightCode(t)
    PROVE  OperatorIInv'
<1>1. /\ terminal' \in [Terminals -> {"idle", "compare", "activate", "replace"}]
      /\ Cardinality(Comparing') \in Nat /\ Cardinality(Comparing') <= Cardinality(Terminals)
  BY TerminalGoes DEF RightCode, OperatorIInv
<1>2. OperatorTypes' /\ CapHolds' /\ Clear
  BY <1>1 DEF RightCode, Clear, OperatorIInv, OperatorTypes, CapHolds
<1> QED
  BY <1>1, <1>2, CountsStand

\* A slot is taken below the cap, or is one that another terminal gives up.
LEMMA SlotsBounded ==
    ASSUME OperatorIInv, NEW t \in Terminals, Activate(t) \/ Replace(t)
    PROVE  OperatorIInv'
<1>1. /\ terminal' \in [Terminals -> {"idle", "compare", "activate", "replace"}]
      /\ Cardinality(Comparing') \in Nat /\ Cardinality(Comparing') <= Cardinality(Terminals)
      /\ Comparing' = Comparing
  BY TerminalGoes DEF Activate, Replace, OperatorIInv
<1>2. devices \in Seq(Terminals) /\ Len(devices) <= DeviceLimit /\ Len(devices) \in Nat
  BY DEF OperatorIInv, OperatorTypes, CapHolds
<1>3. devices' \in Seq(Terminals) /\ Len(devices') <= DeviceLimit
  <2>1. CASE UNCHANGED devices
    BY <1>2, <2>1
  <2>2. CASE HasRoom /\ devices' = Append(devices, t)
    BY <1>2, <2>2, OperatorAssumption DEF HasRoom
  <2>3. CASE devices # <<>> /\ devices' = Append(Tail(devices), t)
    BY <1>2, <2>3, OperatorAssumption
  <2> QED
    BY <2>1, <2>2, <2>3 DEF Activate, Replace
<1>4. Clear \/ UNCHANGED throttle
  BY DEF Activate, Replace
<1>5. enrolls' = enrolls
  BY DEF Activate, Replace
<1>6. /\ attempts' \in Nat /\ guesses' \in Nat
      /\ over' \in BOOLEAN /\ blocked' \in BOOLEAN
  <2>1. CASE Clear
    <3>1. attempts' \in Nat /\ guesses' \in Nat
      BY <2>1 DEF Clear
    <3> QED
      BY <2>1, <3>1, Zenon DEF Clear
  <2>2. CASE UNCHANGED throttle
    BY <2>2, Zenon DEF throttle, OperatorIInv, OperatorTypes
  <2> QED
    BY <1>4, <2>1, <2>2
<1>7. OperatorTypes' /\ CapHolds'
  BY <1>1, <1>3, <1>5, <1>6 DEF OperatorIInv, OperatorTypes, CapHolds
<1> QED
  BY <1>1, <1>4, <1>7, CountsStand

LEMMA SlotGoes ==
    ASSUME OperatorIInv, NEW i \in DOMAIN devices, RevokeOrExpire(i)
    PROVE  OperatorIInv'
<1>1. devices \in Seq(Terminals) /\ Len(devices) <= DeviceLimit
  BY DEF OperatorIInv, OperatorTypes, CapHolds
<1>2. i \in 1 .. Len(devices)
  BY <1>1
<1> DEFINE before == SubSeq(devices, 1, i - 1)
           after == SubSeq(devices, i + 1, Len(devices))
<1>3. before \in Seq(Terminals) /\ Len(before) = i - 1
  BY <1>1, <1>2
<1>4. after \in Seq(Terminals) /\ Len(after) = Len(devices) - i
  BY <1>1, <1>2
<1>5. devices' = before \o after
  BY DEF RevokeOrExpire, RemoveAt
<1> HIDE DEF before, after
<1>6. devices' \in Seq(Terminals) /\ Len(devices') = Len(devices) - 1
  BY <1>1, <1>2, <1>3, <1>4, <1>5
<1>7. CapHolds'
  BY <1>1, <1>6, OperatorAssumption DEF CapHolds
<1>8. UNCHANGED <<terminal, attempts, over, blocked, guesses, enrolls>>
  BY DEF RevokeOrExpire, throttle
<1> QED
  BY <1>6, <1>7, <1>8 DEF OperatorIInv, OperatorTypes, GuessesAreBounded, Comparing

LEMMA OperatorSteps ==
    ASSUME OperatorIInv, Next
    PROVE  OperatorIInv'
<1>1. CASE WindowEnds \/ BlockEnds
  <2>1. UNCHANGED <<devices, terminal, attempts, guesses, enrolls>>
    BY <1>1 DEF WindowEnds, BlockEnds
  <2>2. over' \in BOOLEAN /\ blocked' \in BOOLEAN
    BY <1>1, Zenon DEF WindowEnds, BlockEnds, OperatorIInv, OperatorTypes
  <2>3. OperatorTypes' /\ CapHolds' /\ guesses' = attempts'
    BY <2>1, <2>2, Zenon DEF OperatorIInv, OperatorTypes, CapHolds
  <2>4. over' /\ (blocked' => blocked)
    BY <1>1 DEF WindowEnds, BlockEnds, OperatorIInv, OperatorTypes
  <2> QED
    BY <2>1, <2>3, <2>4 DEF OperatorIInv, GuessesAreBounded
<1>2. ASSUME NEW t \in Terminals,
             Enroll(t) \/ WrongCode(t) \/ RightCode(t) \/ Activate(t) \/ Replace(t)
      PROVE  OperatorIInv'
  BY <1>2, EnrollBounded, WrongCodeBounded, RightCodeBounded, SlotsBounded
<1>3. ASSUME NEW i \in DOMAIN devices, RevokeOrExpire(i)
      PROVE  OperatorIInv'
  BY <1>3, SlotGoes
<1> QED
  BY <1>1, <1>2, <1>3 DEF Next

-------------------------------------------------------------------------------
(* AccountDeletion.                                                         *)

MediaRows == {"absent", "uploading", "complete"}
DeletionRequests == [status : {"none", "scheduled", "processing", "cancelled", "completed"},
                     due : BOOLEAN, lapsed : BOOLEAN, token : Executors \cup {"nobody"}]
DeletionMedia == [row : MediaRows, bytes : {"none", "parts", "object"}, late : BOOLEAN]
DeletionPcs == {"idle", "claim", "local", "stripe", "list", "remove", "complete", "giveBack"}
DeletionRuns == [pc : DeletionPcs, batch : Seq(Users), seen : MediaRows]

DeletionTypes ==
    /\ account \in [Users -> {"live", "deleted"}]
    /\ request \in [Users -> DeletionRequests]
    /\ contract \in [Users -> {"none", "checkout", "live", "ended"}]
    /\ media \in [Users -> DeletionMedia]
    /\ exec \in [Executors -> DeletionRuns]

\* Who has claimed a request has it until it is done with it, and no checkout
\* is open when a request is due.
RequestSound(u) ==
    /\ request[u].status = "processing" => request[u].due
    /\ request[u].due /\ Deletion!Booked(u) => contract[u] # "checkout"

\* Bytes have a row, save those of an upload that came after the list.
Removed(m) == m.bytes = "none" \/ m.late
MediaSound(u) ==
    /\ account[u] = "live" /\ media[u].row = "absent" => media[u].bytes = "none"
    /\ account[u] = "deleted" => Removed(media[u])

Working(x) == exec[x].pc \notin {"idle", "claim"}
RunSound(x) ==
    /\ exec[x].pc # "idle" => exec[x].batch # <<>>
    /\ Working(x) => Deletion!Owns(x) /\ ~request[Deletion!User(x)].lapsed
    /\ exec[x].pc \in {"list", "remove", "complete"} =>
          contract[Deletion!User(x)] \notin {"live", "checkout"}
    /\ exec[x].pc = "remove" /\ exec[x].seen = "absent" => Removed(media[Deletion!User(x)])
    /\ exec[x].pc = "complete" => Removed(media[Deletion!User(x)])

DeletionIInv ==
    /\ DeletionTypes
    /\ \A u \in Users : RequestSound(u) /\ MediaSound(u)
    /\ \A x \in Executors : RunSound(x)

LEMMA DeletionBegins ==
    ASSUME Deletion!Init PROVE DeletionIInv
<1>1. DeletionTypes
  <2>1. exec \in [Executors -> DeletionRuns]
    BY DEF Deletion!Init, DeletionRuns, DeletionPcs, MediaRows, Deletion!Resting
  <2> QED
    BY <2>1 DEF Deletion!Init, DeletionTypes, DeletionRequests, DeletionMedia, MediaRows,
       Deletion!NoRequest, Deletion!NoMedia, Deletion!Nobody
<1>2. \A u \in Users : RequestSound(u) /\ MediaSound(u)
  BY DEF Deletion!Init, RequestSound, MediaSound, Deletion!Booked, Deletion!NoRequest, Deletion!NoMedia
<1>3. \A x \in Executors : RunSound(x)
  BY DEF Deletion!Init, RunSound, Working, Deletion!Resting
<1> QED
  BY <1>1, <1>2, <1>3 DEF DeletionIInv

\* Its user is in the table.
LEMMA UserOfARun ==
    ASSUME DeletionIInv, NEW x \in Executors, exec[x].pc # "idle"
    PROVE  /\ Deletion!User(x) \in Users
           /\ exec[x].batch \in Seq(Users) /\ exec[x].batch # <<>>
<1>1. exec[x].batch \in Seq(Users) /\ exec[x].batch # <<>>
  BY DEF DeletionIInv, DeletionTypes, DeletionRuns, RunSound
<1>2. Head(exec[x].batch) \in Users
  BY <1>1
<1> QED
  BY <1>1, <1>2 DEF Deletion!User

\* A request that somebody works on is claimed by him, and by nobody else.
LEMMA WorkedOn ==
    ASSUME DeletionIInv, NEW x \in Executors, Working(x)
    PROVE  /\ request[Deletion!User(x)].status = "processing" /\ request[Deletion!User(x)].due
           /\ request[Deletion!User(x)].token = x /\ ~request[Deletion!User(x)].lapsed
           /\ ~Deletion!IsCandidate(Deletion!User(x))
           /\ \A y \in Executors : Working(y) /\ Deletion!User(y) = Deletion!User(x) => y = x
<1>1. Deletion!User(x) \in Users
  BY UserOfARun DEF Working
<1> QED
  BY <1>1 DEF DeletionIInv, RunSound, RequestSound, Deletion!Owns, Deletion!IsCandidate

LEMMA HandlingIsWorking ==
    ASSUME NEW x \in Executors, NEW u \in Users
    PROVE  Deletion!Handling(x, u) <=> Working(x) /\ Deletion!User(x) = u
  BY DEF Deletion!Handling, Working, Deletion!User
LEMMA DeletionRests ==
    ASSUME DeletionIInv, UNCHANGED deletion PROVE DeletionIInv'
  BY DEF deletion, DeletionIInv, DeletionTypes, RequestSound, MediaSound, RunSound, Removed, Working,
     Deletion!Booked, Deletion!Owns, Deletion!User

-------------------------------------------------------------------------------
\* What a customer does leaves a run sound that leaves its request alone, makes
\* no contract and no bytes on time.
LEMMA RunsStand ==
    ASSUME DeletionIInv, UNCHANGED exec,
           \A x \in Executors : Working(x) =>
              /\ request'[Deletion!User(x)] = request[Deletion!User(x)]
              /\ contract[Deletion!User(x)] \notin {"live", "checkout"}
                    => contract'[Deletion!User(x)] \notin {"live", "checkout"}
              /\ exec[x].pc \in {"remove", "complete"} /\ Removed(media[Deletion!User(x)])
                    => Removed(media'[Deletion!User(x)])
    PROVE  \A x \in Executors : RunSound(x)'
<1> SUFFICES ASSUME NEW x \in Executors PROVE RunSound(x)'
  OBVIOUS
<1>1. RunSound(x)
  BY DEF DeletionIInv
<1>2. Deletion!User(x)' = Deletion!User(x) /\ (Working(x)' <=> Working(x))
  BY DEF Deletion!User, Working
<1>3. Deletion!Owns(x)' <=> request'[Deletion!User(x)].status = "processing" /\ request'[Deletion!User(x)].token = x
  BY <1>2 DEF Deletion!Owns
<1>4. CASE ~Working(x)
  BY <1>1, <1>2, <1>4 DEF RunSound, Working
<1>5. CASE Working(x)
  <2>1. Deletion!Owns(x)' /\ ~request'[Deletion!User(x)].lapsed
    BY <1>1, <1>3, <1>5 DEF RunSound, Deletion!Owns
  <2> QED
    BY <1>1, <1>2, <1>5, <2>1 DEF RunSound, Working
<1> QED
  BY <1>4, <1>5

RequestSteps(u) ==
    Deletion!Schedule(u) \/ Deletion!Cancel(u) \/ Deletion!GracePasses(u) \/ Deletion!ClaimLapses(u)

LEMMA RequestsStaySound ==
    ASSUME DeletionIInv, NEW u \in Users, RequestSteps(u)
    PROVE  DeletionIInv'
<1>0. request \in [Users -> DeletionRequests] /\ UNCHANGED <<account, contract, media, exec>>
  BY DEF DeletionIInv, DeletionTypes, RequestSteps, Deletion!Schedule, Deletion!Cancel, Deletion!GracePasses,
     Deletion!ClaimLapses, Deletion!customer
<1>1. \A v \in Users : v # u => request'[v] = request[v]
  BY <1>0 DEF RequestSteps, Deletion!Schedule, Deletion!Cancel, Deletion!GracePasses, Deletion!ClaimLapses
<1>2. request' \in [Users -> DeletionRequests]
  <2>1. CASE Deletion!Schedule(u)
    <3>1. [Deletion!NoRequest EXCEPT !.status = "scheduled"] \in DeletionRequests
      BY DEF Deletion!NoRequest, Deletion!Nobody, DeletionRequests
    <3> QED
      BY <1>0, <2>1, <3>1 DEF Deletion!Schedule
  <2>2. CASE Deletion!Cancel(u)
    BY <1>0, <2>2 DEF Deletion!Cancel, DeletionRequests
  <2>3. CASE Deletion!GracePasses(u)
    <3>1. [request[u] EXCEPT !.due = TRUE] \in DeletionRequests
      BY <1>0 DEF DeletionRequests
    <3> QED
      BY <1>0, <2>3, <3>1 DEF Deletion!GracePasses
  <2>4. CASE Deletion!ClaimLapses(u)
    <3>1. [request[u] EXCEPT !.lapsed = TRUE] \in DeletionRequests
      BY <1>0 DEF DeletionRequests
    <3> QED
      BY <1>0, <2>4, <3>1 DEF Deletion!ClaimLapses
  <2> QED
    BY <2>1, <2>2, <2>3, <2>4 DEF RequestSteps
<1>3. RequestSound(u)'
  <2>1. RequestSound(u)
    BY DEF DeletionIInv
  <2> QED
    BY <1>0, <2>1 DEF RequestSteps, Deletion!Schedule, Deletion!Cancel, Deletion!GracePasses,
       Deletion!ClaimLapses, RequestSound, Deletion!Booked, DeletionRequests, Deletion!NoRequest
<1>4. \A v \in Users : RequestSound(v)' /\ MediaSound(v)'
  BY <1>0, <1>1, <1>3 DEF DeletionIInv, RequestSound, MediaSound, Removed, Deletion!Booked
<1>5. ASSUME NEW x \in Executors, Working(x) PROVE Deletion!User(x) # u
  <2>1. /\ request[Deletion!User(x)].status = "processing"
        /\ Deletion!User(x) = u => Deletion!Handling(x, u)
    BY <1>5, WorkedOn, HandlingIsWorking
  <2> QED
    BY <1>5, <2>1 DEF RequestSteps, Deletion!Schedule, Deletion!Cancel, Deletion!GracePasses, Deletion!ClaimLapses
<1>6. \A x \in Executors : Working(x) =>
         /\ request'[Deletion!User(x)] = request[Deletion!User(x)]
         /\ contract'[Deletion!User(x)] = contract[Deletion!User(x)]
         /\ Removed(media[Deletion!User(x)]) => Removed(media'[Deletion!User(x)])
  <2> SUFFICES ASSUME NEW x \in Executors, Working(x)
               PROVE  /\ request'[Deletion!User(x)] = request[Deletion!User(x)]
                      /\ contract'[Deletion!User(x)] = contract[Deletion!User(x)]
                      /\ Removed(media[Deletion!User(x)]) => Removed(media'[Deletion!User(x)])
    OBVIOUS
  <2>1. Deletion!User(x) \in Users /\ Deletion!User(x)' = Deletion!User(x)
    BY <1>0, UserOfARun DEF Working, Deletion!User
  <2> QED
    BY <1>0, <1>1, <1>5, <2>1 DEF Removed
<1>7. \A x \in Executors : RunSound(x)'
  BY <1>0, <1>6, RunsStand
<1> QED
  BY <1>0, <1>2, <1>4, <1>7 DEF DeletionIInv, DeletionTypes

ContractSteps(u) == Deletion!OpenCheckout(u) \/ Deletion!PayCheckout(u) \/ Deletion!CheckoutOrContractEnds(u)

LEMMA ContractsStaySound ==
    ASSUME DeletionIInv, NEW u \in Users, ContractSteps(u)
    PROVE  DeletionIInv'
<1>0. /\ contract \in [Users -> {"none", "checkout", "live", "ended"}]
      /\ UNCHANGED <<account, request, media, exec>>
  BY DEF DeletionIInv, DeletionTypes, ContractSteps, Deletion!OpenCheckout, Deletion!PayCheckout,
     Deletion!CheckoutOrContractEnds
<1>1. /\ contract' \in [Users -> {"none", "checkout", "live", "ended"}]
      /\ \A v \in Users : v # u => contract'[v] = contract[v]
  BY <1>0 DEF ContractSteps, Deletion!OpenCheckout, Deletion!PayCheckout, Deletion!CheckoutOrContractEnds
<1>2. contract'[u] = "checkout" => ~Deletion!Booked(u)
  BY <1>0 DEF ContractSteps, Deletion!OpenCheckout, Deletion!PayCheckout, Deletion!CheckoutOrContractEnds,
     Deletion!MayBuy
<1>3. contract'[u] = "live" => contract[u] = "checkout"
  BY <1>0 DEF ContractSteps, Deletion!OpenCheckout, Deletion!PayCheckout, Deletion!CheckoutOrContractEnds
<1>4. \A v \in Users : RequestSound(v)' /\ MediaSound(v)'
  BY <1>0, <1>1, <1>2 DEF DeletionIInv, RequestSound, MediaSound, Removed, Deletion!Booked
<1>5. \A x \in Executors : Working(x) =>
         /\ request'[Deletion!User(x)] = request[Deletion!User(x)]
         /\ contract[Deletion!User(x)] \notin {"live", "checkout"}
               => contract'[Deletion!User(x)] \notin {"live", "checkout"}
         /\ Removed(media[Deletion!User(x)]) => Removed(media'[Deletion!User(x)])
  <2> SUFFICES ASSUME NEW x \in Executors, Working(x)
               PROVE  /\ request'[Deletion!User(x)] = request[Deletion!User(x)]
                      /\ contract[Deletion!User(x)] \notin {"live", "checkout"}
                            => contract'[Deletion!User(x)] \notin {"live", "checkout"}
                      /\ Removed(media[Deletion!User(x)]) => Removed(media'[Deletion!User(x)])
    OBVIOUS
  <2>1. Deletion!User(x) \in Users /\ Deletion!User(x)' = Deletion!User(x)
    BY <1>0, UserOfARun DEF Working, Deletion!User
  <2>2. Deletion!Booked(Deletion!User(x))
    BY WorkedOn DEF Deletion!Booked
  <2> QED
    BY <1>0, <1>1, <1>2, <1>3, <2>1, <2>2 DEF Removed
<1>6. \A x \in Executors : RunSound(x)'
  BY <1>0, <1>5, RunsStand
<1> QED
  BY <1>0, <1>1, <1>4, <1>6 DEF DeletionIInv, DeletionTypes

UploadSteps(u) == Deletion!StartUpload(u) \/ Deletion!FinishUpload(u)

\* An upload begun while its customer's media go is late, and stays late.
LEMMA UploadsStaySound ==
    ASSUME DeletionIInv, NEW u \in Users, UploadSteps(u)
    PROVE  DeletionIInv'
<1>0. /\ media \in [Users -> DeletionMedia] /\ account[u] = "live"
      /\ UNCHANGED <<account, request, contract, exec>>
  BY DEF DeletionIInv, DeletionTypes, UploadSteps, Deletion!StartUpload, Deletion!FinishUpload
<1> DEFINE late == \E x \in Executors : Deletion!Handling(x, u) /\ exec[x].pc \in {"remove", "complete"}
<1>1. late \in BOOLEAN
  OBVIOUS
<1>2. \/ media[u].row = "absent" /\ media' = [media EXCEPT ![u] = [row |-> "uploading", bytes |-> "parts", late |-> late]]
      \/ /\ media[u].bytes = "parts"
         /\ media' = [media EXCEPT ![u].row = "complete", ![u].bytes = "object"]
  BY DEF UploadSteps, Deletion!StartUpload, Deletion!FinishUpload
<1> HIDE DEF late
<1>3. media' \in [Users -> DeletionMedia] /\ \A v \in Users : v # u => media'[v] = media[v]
  BY <1>0, <1>1, <1>2 DEF DeletionMedia, MediaRows
<1>4. media'[u].row # "absent" /\ (media'[u].late = late \/ (media'[u].late = media[u].late /\ media[u].bytes = "parts"))
  BY <1>0, <1>2 DEF DeletionMedia
<1>5. \A v \in Users : RequestSound(v)' /\ MediaSound(v)'
  BY <1>0, <1>3, <1>4 DEF DeletionIInv, RequestSound, MediaSound, Removed, Deletion!Booked
<1>6. ASSUME NEW x \in Executors, Working(x)
      PROVE  /\ request'[Deletion!User(x)] = request[Deletion!User(x)]
             /\ contract'[Deletion!User(x)] = contract[Deletion!User(x)]
             /\ exec[x].pc \in {"remove", "complete"} /\ Removed(media[Deletion!User(x)])
                   => Removed(media'[Deletion!User(x)])
  <2>1. Deletion!User(x) \in Users /\ Deletion!User(x)' = Deletion!User(x)
    BY <1>0, <1>6, UserOfARun DEF Working, Deletion!User
  <2>2. ASSUME exec[x].pc \in {"remove", "complete"}, Removed(media[Deletion!User(x)]), Deletion!User(x) = u
        PROVE  media'[u].late
    <3>1. late
      BY <1>6, <2>2, HandlingIsWorking DEF late
    <3> QED
      BY <1>4, <2>2, <3>1 DEF Removed
  <2> QED
    BY <1>0, <1>3, <2>1, <2>2 DEF Removed
<1>7. \A x \in Executors : RunSound(x)'
  BY <1>0, <1>6, RunsStand
<1> QED
  BY <1>0, <1>3, <1>5, <1>7 DEF DeletionIInv, DeletionTypes
-------------------------------------------------------------------------------
\* A step of one run leaves the others sound, and the users they work on alone.
LEMMA OthersStand ==
    ASSUME DeletionIInv, NEW x \in Executors,
           \A y \in Executors \ {x} :
              /\ exec'[y] = exec[y]
              /\ Working(y) => /\ request'[Deletion!User(y)] = request[Deletion!User(y)]
                               /\ contract'[Deletion!User(y)] = contract[Deletion!User(y)]
                               /\ media'[Deletion!User(y)] = media[Deletion!User(y)]
    PROVE  \A y \in Executors \ {x} : RunSound(y)'
<1> SUFFICES ASSUME NEW y \in Executors \ {x} PROVE RunSound(y)'
  OBVIOUS
<1>1. RunSound(y)
  BY DEF DeletionIInv
<1>2. /\ exec'[y] = exec[y]
      /\ Deletion!User(y)' = Deletion!User(y)
  BY DEF Deletion!User
<1>3. CASE ~Working(y)
  BY <1>1, <1>2, <1>3 DEF RunSound, Working
<1>4. CASE Working(y)
  <2>1. /\ request'[Deletion!User(y)] = request[Deletion!User(y)]
        /\ contract'[Deletion!User(y)] = contract[Deletion!User(y)]
        /\ media'[Deletion!User(y)] = media[Deletion!User(y)]
    BY <1>4
  <2> QED
    BY <1>1, <1>2, <1>4, <2>1 DEF RunSound, Working, Removed, Deletion!Owns
<1> QED
  BY <1>3, <1>4

LEMMA RunGoes ==
    ASSUME DeletionIInv, NEW x \in Executors, exec[x].pc # "idle",
           NEW pc \in DeletionPcs \ {"idle"}, Deletion!Goto(x, pc)
    PROVE  /\ exec' \in [Executors -> DeletionRuns]
           /\ \A y \in Executors \ {x} : exec'[y] = exec[y]
           /\ exec'[x].pc = pc /\ exec'[x].batch = exec[x].batch /\ exec'[x].seen = exec[x].seen
           /\ Deletion!User(x)' = Deletion!User(x) /\ exec'[x].batch # <<>>
<1>1. exec \in [Executors -> DeletionRuns]
  BY DEF DeletionIInv, DeletionTypes
<1>2. exec' = [exec EXCEPT ![x].pc = pc]
  BY DEF Deletion!Goto
<1>3. /\ exec' \in [Executors -> DeletionRuns]
      /\ \A y \in Executors \ {x} : exec'[y] = exec[y]
      /\ exec'[x].pc = pc /\ exec'[x].batch = exec[x].batch /\ exec'[x].seen = exec[x].seen
  BY <1>1, <1>2 DEF DeletionRuns
<1>4. Deletion!User(x)' = Head(exec'[x].batch) /\ Deletion!User(x) = Head(exec[x].batch)
  BY DEF Deletion!User
<1>5. exec[x].batch # <<>>
  BY UserOfARun
<1> QED
  BY <1>3, <1>4, <1>5

LEMMA RestingIsARun == Deletion!Resting \in DeletionRuns /\ Deletion!Resting.pc = "idle"
<1>1. <<>> \in Seq(Users)
  OBVIOUS
<1> QED
  BY <1>1 DEF Deletion!Resting, DeletionRuns, DeletionPcs, MediaRows

LEMMA RunTakesTheNext ==
    ASSUME DeletionIInv, NEW x \in Executors, exec[x].pc # "idle", Deletion!NextCandidate(x)
    PROVE  /\ exec' \in [Executors -> DeletionRuns]
           /\ \A y \in Executors \ {x} : exec'[y] = exec[y]
           /\ RunSound(x)'
<1>1. exec \in [Executors -> DeletionRuns]
  BY DEF DeletionIInv, DeletionTypes
<1>2. exec[x].batch \in Seq(Users) /\ exec[x].batch # <<>>
  BY UserOfARun
<1> DEFINE rest == Tail(exec[x].batch)
<1>3. Len(exec[x].batch) # 1 => rest \in Seq(Users) /\ rest # <<>>
  <2>1. Len(exec[x].batch) \in Nat /\ Len(exec[x].batch) # 0
    BY <1>2
  <2>2. rest \in Seq(Users) /\ Len(rest) = Len(exec[x].batch) - 1
    BY <1>2
  <2> HIDE DEF rest
  <2>3. rest = <<>> => Len(rest) = 0
    BY EmptySeq
  <2> QED
    BY <2>1, <2>2, <2>3
<1> HIDE DEF rest
<1>4. CASE Len(exec[x].batch) = 1
  <2>1. exec' = [exec EXCEPT ![x] = Deletion!Resting]
    BY <1>4 DEF Deletion!NextCandidate
  <2>2. exec' \in [Executors -> DeletionRuns] /\ exec'[x].pc = "idle" /\ \A y \in Executors \ {x} : exec'[y] = exec[y]
    BY <1>1, <2>1, RestingIsARun
  <2> QED
    BY <2>2 DEF RunSound, Working
<1>5. CASE Len(exec[x].batch) # 1
  <2> DEFINE next == [Deletion!Resting EXCEPT !.pc = "claim", !.batch = rest]
  <2>1. exec' = [exec EXCEPT ![x] = next]
    BY <1>5 DEF Deletion!NextCandidate, rest
  <2>2. next \in DeletionRuns /\ next.pc = "claim" /\ next.batch = rest
    BY <1>3, <1>5 DEF Deletion!Resting, DeletionRuns, DeletionPcs, MediaRows
  <2> HIDE DEF next
  <2>3. /\ exec' \in [Executors -> DeletionRuns] /\ exec'[x] = next
        /\ \A y \in Executors \ {x} : exec'[y] = exec[y]
    BY <1>1, <2>1, <2>2
  <2> QED
    BY <1>3, <1>5, <2>2, <2>3 DEF RunSound, Working
<1> QED
  BY <1>4, <1>5

LEMMA BatchesAreOfUsers ==
    ASSUME Deletion!Candidates # {}, NEW b \in Deletion!Batches
    PROVE  b \in Seq(Users) /\ b # <<>>
<1>1. Deletion!Candidates \in SUBSET Users
  BY DEF Deletion!Candidates
<1>2. IsFiniteSet(Deletion!Candidates) /\ Cardinality(Deletion!Candidates) \in Nat \ {0}
  BY <1>1, AccountsAssumption, FS_Subset, FS_CardinalityType, FS_EmptySet
<1>3. Deletion!Cardinality(Deletion!Candidates) = Cardinality(Deletion!Candidates)
  BY Zenon DEF Deletion!Cardinality, Cardinality
<1>4. PICK n \in Nat \ {0} : b \in [1 .. n -> Deletion!Candidates]
  BY <1>2, <1>3, AccountsAssumption DEF Deletion!Batches
<1>5. b \in Seq(Users) /\ Len(b) = n
  <2>1. b \in [1 .. n -> Users]
    BY <1>1, <1>4
  <2>2. b \in Seq(Users)
    BY <2>1, SeqDef
  <2> QED
    BY <2>1, <2>2, LenProperties
<1> QED
  BY <1>5, EmptySeq
\* Tables are not written by a run that begins, looks, or gives up.
LEMMA TablesStand ==
    ASSUME DeletionIInv, UNCHANGED <<account, request, contract, media>>, NEW x \in Executors,
           exec' \in [Executors -> DeletionRuns],
           \A y \in Executors \ {x} : exec'[y] = exec[y],
           RunSound(x)'
    PROVE  DeletionIInv'
<1>1. \A y \in Executors \ {x} : RunSound(y)'
  BY OthersStand
<1>2. \A u \in Users : RequestSound(u)' /\ MediaSound(u)'
  BY DEF DeletionIInv, RequestSound, MediaSound, Removed, Deletion!Booked
<1> QED
  BY <1>1, <1>2 DEF DeletionIInv, DeletionTypes

LEMMA RunBegins ==
    ASSUME DeletionIInv, NEW x \in Executors, Deletion!Run(x) PROVE DeletionIInv'
<1>1. Deletion!Candidates # {} /\ UNCHANGED <<account, request, contract, media>>
  BY DEF Deletion!Run, Deletion!customer
<1>2. PICK b \in Deletion!Batches : exec' = [exec EXCEPT ![x].pc = "claim", ![x].batch = b]
  BY DEF Deletion!Run
<1>3. b \in Seq(Users) /\ b # <<>>
  BY <1>1, BatchesAreOfUsers
<1>4. exec \in [Executors -> DeletionRuns]
  BY DEF DeletionIInv, DeletionTypes
<1>5. /\ exec' \in [Executors -> DeletionRuns]
      /\ exec'[x].pc = "claim" /\ exec'[x].batch = b
      /\ \A y \in Executors \ {x} : exec'[y] = exec[y]
  BY <1>2, <1>3, <1>4 DEF DeletionRuns, DeletionPcs
<1>6. RunSound(x)'
  BY <1>3, <1>5 DEF RunSound, Working
<1> QED
  BY <1>1, <1>5, <1>6, TablesStand

LEMMA RunClaims ==
    ASSUME DeletionIInv, NEW x \in Executors, Deletion!Claim(x) PROVE DeletionIInv'
<1> DEFINE u == Deletion!User(x)
<1>0. exec[x].pc = "claim" /\ UNCHANGED <<account, contract, media>>
  BY DEF Deletion!Claim, Deletion!At, Deletion!customer
<1>1. u \in Users /\ request \in [Users -> DeletionRequests]
  BY <1>0, UserOfARun DEF DeletionIInv, DeletionTypes
<1>2. CASE ~Deletion!IsCandidate(u)
  <2>1. Deletion!NextCandidate(x) /\ UNCHANGED request
    BY <1>2 DEF Deletion!Claim
  <2> QED
    BY <1>0, <2>1, RunTakesTheNext, TablesStand
<1>3. CASE Deletion!IsCandidate(u)
  <2>1. /\ request' = [request EXCEPT ![u].status = "processing", ![u].token = x, ![u].lapsed = FALSE]
        /\ Deletion!Goto(x, "local")
    BY <1>3 DEF Deletion!Claim
  <2>2. /\ exec' \in [Executors -> DeletionRuns]
        /\ \A y \in Executors \ {x} : exec'[y] = exec[y]
        /\ exec'[x].pc = "local" /\ exec'[x].batch # <<>> /\ u' = u
    BY <1>0, <2>1, RunGoes DEF DeletionPcs
  <2> HIDE DEF u
  <2>3. /\ request' \in [Users -> DeletionRequests]
        /\ \A v \in Users : v # u => request'[v] = request[v]
        /\ request'[u].status = "processing" /\ request'[u].token = x /\ request'[u].lapsed = FALSE
        /\ request'[u].due = request[u].due
    BY <1>1, <2>1 DEF DeletionRequests
  <2>4. ASSUME NEW y \in Executors \ {x}, Working(y) PROVE request'[Deletion!User(y)] = request[Deletion!User(y)]
    <3>1. Deletion!User(y) # u /\ Deletion!User(y) \in Users
      BY <1>3, <2>4, WorkedOn, UserOfARun DEF Working
    <3> QED
      BY <2>3, <3>1
  <2>5. \A y \in Executors \ {x} : RunSound(y)'
    BY <1>0, <2>2, <2>4, OthersStand
  <2>6. RunSound(x)'
    <3>1. Deletion!Owns(x)'
      BY <2>2, <2>3 DEF Deletion!Owns, u
    <3> QED
      BY <2>2, <2>3, <3>1 DEF RunSound, u
  <2>7. request[u].due /\ contract[u] # "checkout"
    BY <1>1, <1>3 DEF Deletion!IsCandidate, DeletionIInv, RequestSound, Deletion!Booked
  <2>8. \A v \in Users : RequestSound(v)' /\ MediaSound(v)'
    BY <1>0, <1>1, <2>3, <2>7 DEF DeletionIInv, RequestSound, MediaSound, Removed, Deletion!Booked
  <2> QED
    BY <1>0, <2>2, <2>3, <2>5, <2>6, <2>8 DEF DeletionIInv, DeletionTypes
<1> QED
  BY <1>2, <1>3

LEMMA RunLooks ==
    ASSUME DeletionIInv, NEW x \in Executors,
           Deletion!LookLocally(x) \/ Deletion!AskStripe(x) \/ Deletion!Fails(x)
    PROVE  DeletionIInv'
<1> DEFINE u == Deletion!User(x)
<1>0. UNCHANGED <<account, request, contract, media>> /\ Working(x) /\ exec[x].pc # "idle"
  BY DEF Deletion!LookLocally, Deletion!AskStripe, Deletion!Fails, Deletion!customer, Deletion!At, Working
<1>1. PICK pc \in {"giveBack", "stripe", "list"} :
         /\ Deletion!Goto(x, pc)
         /\ pc = "list" => exec[x].pc = "stripe" /\ contract[u] # "live"
  BY DEF Deletion!LookLocally, Deletion!AskStripe, Deletion!Fails, Deletion!At
<1>2. /\ exec' \in [Executors -> DeletionRuns]
      /\ \A y \in Executors \ {x} : exec'[y] = exec[y]
      /\ exec'[x].pc = pc /\ exec'[x].batch # <<>> /\ Deletion!User(x)' = u
  BY <1>0, <1>1, RunGoes DEF DeletionPcs
<1>3. contract[u] # "checkout"
  <2>1. u \in Users
    BY <1>0, UserOfARun
  <2> QED
    BY <1>0, <2>1, WorkedOn DEF DeletionIInv, RequestSound, Deletion!Booked
<1>4. RunSound(x)'
  <2>1. Deletion!Owns(x)' /\ ~request'[Deletion!User(x)'].lapsed
    BY <1>0, <1>2 DEF DeletionIInv, RunSound, Deletion!Owns
  <2> QED
    BY <1>0, <1>1, <1>2, <1>3, <2>1 DEF RunSound
<1> QED
  BY <1>0, <1>2, <1>4, TablesStand

LEMMA RunLists ==
    ASSUME DeletionIInv, NEW x \in Executors, Deletion!ListMedia(x) PROVE DeletionIInv'
<1> DEFINE u == Deletion!User(x)
<1>0. UNCHANGED <<account, request, contract, media>> /\ Working(x) /\ exec[x].pc = "list"
  BY DEF Deletion!ListMedia, Deletion!customer, Deletion!At, Working
<1>1. u \in Users /\ exec[x].batch # <<>>
  BY <1>0, UserOfARun
<1>2. exec' = [exec EXCEPT ![x].pc = "remove", ![x].seen = media[u].row]
  BY DEF Deletion!ListMedia
<1>3. exec \in [Executors -> DeletionRuns] /\ media[u].row \in MediaRows
      /\ account[u] \in {"live", "deleted"}
  BY <1>1 DEF DeletionIInv, DeletionTypes, DeletionMedia
<1> HIDE DEF u
<1>4. /\ exec' \in [Executors -> DeletionRuns]
      /\ \A y \in Executors \ {x} : exec'[y] = exec[y]
      /\ exec'[x].pc = "remove" /\ exec'[x].seen = media[u].row /\ exec'[x].batch = exec[x].batch
  BY <1>2, <1>3 DEF DeletionRuns, DeletionPcs
<1>5. Deletion!User(x)' = u
  BY <1>4 DEF Deletion!User, u
<1>6. media[u].row = "absent" => Removed(media[u])
  <2>1. MediaSound(u)
    BY <1>1 DEF DeletionIInv
  <2> QED
    BY <1>3, <2>1 DEF MediaSound, Removed
<1>7. Deletion!Owns(x)' /\ ~request'[u].lapsed /\ contract'[u] \notin {"live", "checkout"}
  BY <1>0, <1>5 DEF DeletionIInv, RunSound, Deletion!Owns, u
<1>8. RunSound(x)'
  BY <1>0, <1>1, <1>4, <1>5, <1>6, <1>7 DEF RunSound
<1> QED
  BY <1>0, <1>4, <1>8, TablesStand

\* Refused or removed: nothing of what was seen is left where it goes on.
LEMMA RunRemoves ==
    ASSUME DeletionIInv, NEW x \in Executors, Deletion!RemoveMedia(x) PROVE DeletionIInv'
<1> DEFINE u == Deletion!User(x)
<1>0. UNCHANGED <<account, request, contract>> /\ Working(x) /\ exec[x].pc = "remove"
  BY DEF Deletion!RemoveMedia, Deletion!At, Working
<1>1. u \in Users /\ media \in [Users -> DeletionMedia]
  BY <1>0, UserOfARun DEF DeletionIInv, DeletionTypes
<1>2. PICK pc \in {"complete", "giveBack"} :
         /\ Deletion!Goto(x, pc)
         /\ \/ pc = "complete" /\ exec[x].seen # "absent" /\ media' = [media EXCEPT ![u].bytes = "none"]
            \/ pc = "complete" /\ exec[x].seen = "absent" /\ UNCHANGED media
            \/ pc = "giveBack" /\ UNCHANGED media
  BY DEF Deletion!RemoveMedia, Deletion!AfterRefusal
<1>3. /\ exec' \in [Executors -> DeletionRuns]
      /\ \A y \in Executors \ {x} : exec'[y] = exec[y]
      /\ exec'[x].pc = pc /\ exec'[x].batch # <<>> /\ Deletion!User(x)' = u
  BY <1>0, <1>2, RunGoes DEF DeletionPcs
<1> HIDE DEF u
<1>4. /\ media' \in [Users -> DeletionMedia]
      /\ \A v \in Users : v # u => media'[v] = media[v]
      /\ media'[u].row = media[u].row /\ media'[u].late = media[u].late
      /\ media'[u].bytes \in {media[u].bytes, "none"}
  BY <1>1, <1>2 DEF DeletionMedia
<1>5. ASSUME pc = "complete" PROVE Removed(media'[u])
  <2>1. CASE exec[x].seen = "absent"
    <3>1. Removed(media[u]) /\ media' = media
      BY <1>0, <1>2, <1>5, <2>1 DEF DeletionIInv, RunSound, u
    <3> QED
      BY <3>1
  <2>2. CASE exec[x].seen # "absent"
    <3>1. media'[u].bytes = "none"
      BY <1>1, <1>2, <1>5, <2>2 DEF DeletionMedia
    <3> QED
      BY <3>1 DEF Removed
  <2> QED
    BY <2>1, <2>2
<1>6. ASSUME NEW y \in Executors \ {x}, Working(y) PROVE media'[Deletion!User(y)] = media[Deletion!User(y)]
  <2>1. Deletion!User(y) # u /\ Deletion!User(y) \in Users
    BY <1>0, <1>6, WorkedOn, UserOfARun DEF Working, u
  <2> QED
    BY <1>4, <2>1
<1>7. \A y \in Executors \ {x} : RunSound(y)'
  BY <1>0, <1>3, <1>6, OthersStand
<1>8. RunSound(x)'
  <2>1. Deletion!Owns(x)' /\ ~request'[u].lapsed /\ contract'[u] \notin {"live", "checkout"}
    BY <1>0, <1>3 DEF DeletionIInv, RunSound, Deletion!Owns, u
  <2> QED
    BY <1>2, <1>3, <1>5, <2>1 DEF RunSound
<1>9. \A v \in Users : RequestSound(v)' /\ MediaSound(v)'
  BY <1>0, <1>1, <1>4 DEF DeletionIInv, RequestSound, MediaSound, Removed, Deletion!Booked
<1> QED
  BY <1>0, <1>3, <1>4, <1>7, <1>8, <1>9 DEF DeletionIInv, DeletionTypes

LEMMA RunEnds ==
    ASSUME DeletionIInv, NEW x \in Executors, Deletion!Complete(x) \/ Deletion!GiveBack(x)
    PROVE  DeletionIInv'
<1> DEFINE u == Deletion!User(x)
<1>0. UNCHANGED contract /\ Working(x) /\ exec[x].pc # "idle" /\ Deletion!NextCandidate(x)
  BY DEF Deletion!Complete, Deletion!GiveBack, Deletion!At, Deletion!customer, Working
<1>1. /\ u \in Users /\ media \in [Users -> DeletionMedia] /\ request \in [Users -> DeletionRequests]
      /\ account \in [Users -> {"live", "deleted"}]
      /\ Deletion!Owns(x)
  BY <1>0, UserOfARun DEF DeletionIInv, DeletionTypes, RunSound
<1>2. /\ exec' \in [Executors -> DeletionRuns]
      /\ \A y \in Executors \ {x} : exec'[y] = exec[y]
      /\ RunSound(x)'
  BY <1>0, RunTakesTheNext
<1>3. request' \in [Users -> DeletionRequests] /\ \A v \in Users : v # u => request'[v] = request[v]
  <2>1. [Deletion!NoRequest EXCEPT !.status = "completed"] \in DeletionRequests
    BY DEF Deletion!NoRequest, Deletion!Nobody, DeletionRequests
  <2>2. [request[u] EXCEPT !.status = "scheduled", !.token = Deletion!Nobody] \in DeletionRequests
    BY <1>1 DEF DeletionRequests, Deletion!Nobody
  <2> QED
    BY <1>1, <2>1, <2>2 DEF Deletion!Complete, Deletion!GiveBack
<1>4. /\ request'[u].status # "processing"
      /\ request'[u].due /\ request'[u].status = "scheduled" => contract[u] # "checkout"
  <2>1. contract[u] # "checkout"
    BY <1>0, <1>1, WorkedOn DEF DeletionIInv, RequestSound, Deletion!Booked
  <2> HIDE DEF u
  <2>2. \/ request' = [request EXCEPT ![u] = [Deletion!NoRequest EXCEPT !.status = "completed"]]
        \/ request' = [request EXCEPT ![u] = [@ EXCEPT !.status = "scheduled", !.token = Deletion!Nobody]]
    BY <1>1 DEF Deletion!Complete, Deletion!GiveBack, u
  <2>3. request'[u].status # "processing"
    BY <1>1, <2>2 DEF DeletionRequests, Deletion!NoRequest
  <2> QED
    BY <2>1, <2>3
<1>5. /\ media' \in [Users -> DeletionMedia] /\ account' \in [Users -> {"live", "deleted"}]
      /\ \A v \in Users : v # u => media'[v] = media[v] /\ account'[v] = account[v]
      /\ \/ account'[u] = account[u] /\ media'[u] = media[u]
         \/ account'[u] = "deleted" /\ Removed(media'[u])
  <2>1. CASE Deletion!GiveBack(x)
    BY <1>1, <2>1 DEF Deletion!GiveBack, Deletion!customer
  <2>2. CASE Deletion!Complete(x)
    <3>1. Removed(media[u])
      BY <2>2 DEF Deletion!Complete, Deletion!At, DeletionIInv, RunSound
    <3>2. media' = [media EXCEPT ![u].row = "absent"] /\ account' = [account EXCEPT ![u] = "deleted"]
      BY <2>2 DEF Deletion!Complete
    <3> HIDE DEF u
    <3>3. /\ media' \in [Users -> DeletionMedia] /\ account' \in [Users -> {"live", "deleted"}]
          /\ \A v \in Users : v # u => media'[v] = media[v] /\ account'[v] = account[v]
          /\ account'[u] = "deleted"
          /\ media'[u].bytes = media[u].bytes /\ media'[u].late = media[u].late
      BY <1>1, <3>2 DEF DeletionMedia, MediaRows
    <3>4. Removed(media'[u])
      BY <3>1, <3>3, Zenon DEF Removed
    <3> QED
      BY <3>3, <3>4
  <2> QED
    BY <2>1, <2>2
<1> HIDE DEF u
<1>6. ASSUME NEW y \in Executors \ {x}, Working(y)
      PROVE  /\ request'[Deletion!User(y)] = request[Deletion!User(y)]
             /\ media'[Deletion!User(y)] = media[Deletion!User(y)]
  <2>1. Deletion!User(y) # u /\ Deletion!User(y) \in Users
    BY <1>0, <1>6, WorkedOn, UserOfARun DEF Working, u
  <2> QED
    BY <1>3, <1>5, <2>1
<1>7. \A y \in Executors \ {x} : RunSound(y)'
  BY <1>0, <1>2, <1>6, OthersStand
<1>8. \A v \in Users : RequestSound(v)' /\ MediaSound(v)'
  <2> SUFFICES ASSUME NEW v \in Users PROVE RequestSound(v)' /\ MediaSound(v)'
    OBVIOUS
  <2>1. RequestSound(v) /\ MediaSound(v)
    BY DEF DeletionIInv
  <2>2. CASE v # u
    BY <1>0, <1>3, <1>5, <2>1, <2>2 DEF RequestSound, MediaSound, Removed, Deletion!Booked
  <2>3. CASE v = u
    <3>1. RequestSound(v)'
      BY <1>0, <1>4, <2>3 DEF RequestSound, Deletion!Booked
    <3>2. MediaSound(v)'
      BY <1>1, <1>5, <2>1, <2>3 DEF MediaSound
    <3> QED
      BY <3>1, <3>2
  <2> QED
    BY <2>2, <2>3
<1> QED
  BY <1>0, <1>2, <1>3, <1>5, <1>7, <1>8 DEF DeletionIInv, DeletionTypes

LEMMA RunDies ==
    ASSUME DeletionIInv, NEW x \in Executors, Deletion!Dies(x) PROVE DeletionIInv'
<1>1. UNCHANGED <<account, request, contract, media>> /\ exec' = [exec EXCEPT ![x] = Deletion!Resting]
  BY DEF Deletion!Dies, Deletion!customer
<1>2. exec \in [Executors -> DeletionRuns]
  BY DEF DeletionIInv, DeletionTypes
<1>3. /\ exec' \in [Executors -> DeletionRuns] /\ exec'[x].pc = "idle"
      /\ \A y \in Executors \ {x} : exec'[y] = exec[y]
  BY <1>1, <1>2, RestingIsARun
<1>4. RunSound(x)'
  BY <1>3 DEF RunSound, Working
<1> QED
  BY <1>1, <1>3, <1>4, TablesStand

LEMMA DeletionSteps ==
    ASSUME DeletionIInv, Deletion!Next PROVE DeletionIInv'
<1>1. ASSUME NEW u \in Users, Deletion!Dispute(u) \/ Deletion!Use(u) PROVE DeletionIInv'
  <2>1. UNCHANGED <<account, request, contract, media, exec>>
    BY <1>1 DEF Deletion!Dispute, Deletion!Use
  <2> QED
    BY <2>1 DEF DeletionIInv, DeletionTypes, RequestSound, MediaSound, RunSound, Removed, Working,
       Deletion!Booked, Deletion!Owns, Deletion!User
<1>2. ASSUME NEW u \in Users, RequestSteps(u) \/ ContractSteps(u) \/ UploadSteps(u) PROVE DeletionIInv'
  BY <1>2, RequestsStaySound, ContractsStaySound, UploadsStaySound
<1>3. ASSUME NEW x \in Executors, Deletion!ExecutorStep(x) \/ Deletion!Fails(x) \/ Deletion!Dies(x)
      PROVE  DeletionIInv'
  BY <1>3, RunBegins, RunClaims, RunLooks, RunLists, RunRemoves, RunEnds, RunDies DEF Deletion!ExecutorStep
<1> QED
  BY <1>1, <1>2, <1>3 DEF Deletion!Next, RequestSteps, ContractSteps, UploadSteps

\* An account goes only while its request is claimed and Stripe owes nothing.
LEMMA SettledWhenDeleted ==
    ASSUME DeletionIInv, Deletion!Next, NEW u \in Users, account[u] = "live", account'[u] = "deleted"
    PROVE  request[u].status = "processing" /\ contract[u] \notin {"live", "checkout"}
<1>1. PICK x \in Executors : Deletion!Complete(x)
  BY DEF Deletion!Next, Deletion!Schedule, Deletion!Cancel, Deletion!OpenCheckout, Deletion!PayCheckout,
     Deletion!CheckoutOrContractEnds, Deletion!Dispute, Deletion!Use, Deletion!StartUpload,
     Deletion!FinishUpload, Deletion!GracePasses, Deletion!ClaimLapses, Deletion!ExecutorStep,
     Deletion!Run, Deletion!Claim, Deletion!LookLocally, Deletion!AskStripe, Deletion!ListMedia,
     Deletion!RemoveMedia, Deletion!GiveBack, Deletion!Fails, Deletion!Dies
<1>2. u = Deletion!User(x)
  BY <1>1 DEF Deletion!Complete, DeletionIInv, DeletionTypes
<1>3. exec[x].pc = "complete"
  BY <1>1 DEF Deletion!Complete, Deletion!At
<1> QED
  BY <1>2, <1>3, WorkedOn DEF Working, DeletionIInv, RunSound

LEMMA DeletionSafe ==
    ASSUME DeletionIInv PROVE Deletion!NoMediaLeftBehind /\ Deletion!TypeOK
  BY DEF DeletionIInv, DeletionTypes, DeletionRequests, DeletionMedia, MediaRows, MediaSound, Removed,
     RequestSound, RunSound, Deletion!NoMediaLeftBehind, Deletion!TypeOK, Deletion!Nobody

-------------------------------------------------------------------------------
(* TrialTransfer.                                                           *)

TrialVideos == [owner : Trial!Principals \cup {"noone"},
                status : {"none", "reserved", "completed", "released"}, late : BOOLEAN]
TrialVisits == [doing : {"nothing", "refresh", "reserve"}, of : Videos \cup {"noone"}]
TrialSignIns == [stage : {"none", "move", "adopt"}, to : Trial!Principals \cup {"noone"}]

TrialTypes ==
    /\ trialRow \in [Devices -> {"none", "unbound"} \cup Trial!Principals]
    /\ recent \subseteq fingerprint /\ fingerprint \subseteq Devices
    /\ video \in [Videos -> TrialVideos]
    /\ visit \in [Devices -> TrialVisits]
    /\ signIn \in [Devices -> TrialSignIns]

\* A video has an owner from its reservation on, and a sign-in moves a trial to
\* a member: what a bound trial still holds was written late.
TrialIInv ==
    /\ TrialTypes
    /\ \A v \in Videos : video[v].owner = "noone" <=> video[v].status = "none"
    /\ \A d \in Devices : signIn[d].stage = "move" => signIn[d].to \in Members
    /\ \A d \in Devices : visit[d].doing = "reserve" => visit[d].of \in Videos
    /\ \A p \in Trial!Principals : Trial!WithinTrial(Trial!LiveOf({p}))
    /\ Trial!NothingStaysBehind

\* The caps hold of fewer videos, too.
LEMMA FewerFit ==
    ASSUME NEW ws \in SUBSET Videos, NEW vs \in SUBSET ws, Trial!WithinTrial(ws)
    PROVE  Trial!WithinTrial(vs)
<1>1. Trial!Cardinality(vs) = Cardinality(vs) /\ Trial!Cardinality(ws) = Cardinality(ws)
  BY Zenon DEF Trial!Cardinality, Cardinality
<1>2. \A S : Trial!SumFunctionOnSet(Length, S) = SumFunctionOnSet(Length, S)
  BY Zenon DEF Trial!SumFunctionOnSet, Trial!FoldFunctionOnSet, Trial!MapThenFoldSet,
               SumFunctionOnSet, FoldFunctionOnSet, MapThenFoldSet
<1>3. IsFiniteSet(ws) /\ IsFiniteSet(vs) /\ Cardinality(vs) <= Cardinality(ws)
      /\ Cardinality(vs) \in Nat /\ Cardinality(ws) \in Nat
  BY AccountsAssumption, FS_Subset, FS_CardinalityType
<1>4. Length \in [Videos -> Nat]
  BY AccountsAssumption
<1>5. SumFunctionOnSet(Length, vs) <= SumFunctionOnSet(Length, ws)
  BY <1>3, <1>4, SumGrows
<1>6. SumFunctionOnSet(Length, vs) \in Nat /\ SumFunctionOnSet(Length, ws) \in Nat
  <2>1. vs \in SUBSET Videos
    OBVIOUS
  <2> QED
    BY <1>3, <1>4, <2>1, SumType
<1>7. Cardinality(ws) <= FreeVideos /\ SumFunctionOnSet(Length, ws) <= FreeSeconds
  BY <1>1, <1>2 DEF Trial!WithinTrial, Trial!SecondsOf
<1>8. Cardinality(vs) <= FreeVideos /\ SumFunctionOnSet(Length, vs) <= FreeSeconds
  BY <1>3, <1>5, <1>6, <1>7, AccountsAssumption
<1> QED
  BY <1>1, <1>2, <1>8 DEF Trial!WithinTrial, Trial!SecondsOf

LEMMA NothingFits == Trial!WithinTrial({})
<1>1. Trial!Cardinality({}) = Cardinality({})
  BY Zenon DEF Trial!Cardinality, Cardinality
<1>2. Trial!SumFunctionOnSet(Length, {}) = SumFunctionOnSet(Length, {})
  BY Zenon DEF Trial!SumFunctionOnSet, Trial!FoldFunctionOnSet, Trial!MapThenFoldSet,
               SumFunctionOnSet, FoldFunctionOnSet, MapThenFoldSet
<1>3. Cardinality({}) = 0 /\ SumFunctionOnSet(Length, {}) = 0
  BY FS_EmptySet, SumOfNothing
<1> QED
  BY <1>1, <1>2, <1>3, AccountsAssumption DEF Trial!WithinTrial, Trial!SecondsOf

LEMMA LiveVideos ==
    \A S : Trial!LiveOf(S) \in SUBSET Videos
  BY DEF Trial!LiveOf

LEMMA TrialBegins ==
    ASSUME Trial!Init PROVE TrialIInv
<1>1. TrialTypes
  BY DEF Trial!Init, TrialTypes, TrialVideos, TrialVisits, TrialSignIns, Trial!NoVideo, Trial!NoVisit,
     Trial!NoSignIn, Trial!NoOne
<1>2. \A S : Trial!LiveOf(S) = {}
  BY DEF Trial!Init, Trial!LiveOf, Trial!Live, Trial!NoVideo
<1>3. \A p \in Trial!Principals : Trial!WithinTrial(Trial!LiveOf({p}))
  BY <1>2, NothingFits
<1>4. Trial!NothingStaysBehind
  BY AccountsAssumption DEF Trial!Init, Trial!NothingStaysBehind, Trial!NoVideo, Trial!NoOne
<1> QED
  BY <1>1, <1>3, <1>4 DEF Trial!Init, TrialIInv, Trial!NoVideo, Trial!NoVisit, Trial!NoSignIn, Trial!NoOne

LEMMA TrialRests ==
    ASSUME TrialIInv, UNCHANGED trial PROVE TrialIInv'
<1>1. \A S : Trial!LiveOf(S)' = Trial!LiveOf(S)
  BY DEF trial, Trial!LiveOf
<1> QED
  BY <1>1 DEF trial, TrialIInv, TrialTypes, Trial!NothingStaysBehind, Trial!LiveOf, Trial!WithinTrial
\* A step that leaves the videos alone and binds no trial to a member.
LEMMA VideosStand ==
    ASSUME TrialIInv, TrialTypes', UNCHANGED video,
           \A d \in Devices : trialRow'[d] \in Members => trialRow[d] = trialRow'[d],
           \A d \in Devices : signIn'[d].stage = "move" => signIn'[d].to \in Members,
           \A d \in Devices : visit'[d].doing = "reserve" => visit'[d].of \in Videos
    PROVE  TrialIInv'
<1>1. \A S : Trial!LiveOf(S)' = Trial!LiveOf(S)
  BY DEF Trial!LiveOf
<1>2. \A p \in Trial!Principals : Trial!WithinTrial(Trial!LiveOf({p}))'
  BY <1>1 DEF TrialIInv, Trial!WithinTrial
<1>3. Trial!NothingStaysBehind'
  BY DEF TrialIInv, Trial!NothingStaysBehind
<1> QED
  BY <1>2, <1>3 DEF TrialIInv

LEMMA TrialSessionSteps ==
    ASSUME TrialIInv, NEW d \in Devices,
           \/ Trial!Issue(d) \/ Trial!BeginRefresh(d) \/ Trial!EndRefresh(d) \/ Trial!Logout(d)
           \/ Trial!BeginSignUp(d) \/ Trial!SignUp(d)
           \/ \E v \in Videos : Trial!BeginReserve(d, v)
           \/ \E m \in Members : Trial!BeginSignIn(d, m)
    PROVE  TrialIInv'
<1>1. TrialTypes'
  BY DEF Trial!Issue, Trial!BeginRefresh, Trial!EndRefresh, Trial!Logout, Trial!BeginSignUp, Trial!SignUp,
     Trial!BeginReserve, Trial!BeginSignIn, TrialIInv, TrialTypes, TrialVisits, TrialSignIns,
     Trial!NoVisit, Trial!NoSignIn, Trial!NoOne, Trial!Principals
<1>2. UNCHANGED video
  BY DEF Trial!Issue, Trial!BeginRefresh, Trial!EndRefresh, Trial!Logout, Trial!BeginSignUp, Trial!SignUp,
     Trial!BeginReserve, Trial!BeginSignIn
<1>3. \A e \in Devices : trialRow'[e] \in Members => trialRow[e] = trialRow'[e]
  BY AccountsAssumption
  DEF Trial!Issue, Trial!BeginRefresh, Trial!EndRefresh, Trial!Logout, Trial!BeginSignUp, Trial!SignUp,
     Trial!BeginReserve, Trial!BeginSignIn, TrialIInv, TrialTypes
<1>4. \A e \in Devices : signIn'[e].stage = "move" => signIn'[e].to \in Members
  BY DEF Trial!Issue, Trial!BeginRefresh, Trial!EndRefresh, Trial!Logout, Trial!BeginSignUp, Trial!SignUp,
     Trial!BeginReserve, Trial!BeginSignIn, TrialIInv, TrialTypes, TrialSignIns, Trial!NoSignIn
<1>5. \A e \in Devices : visit'[e].doing = "reserve" => visit'[e].of \in Videos
  BY DEF Trial!Issue, Trial!BeginRefresh, Trial!EndRefresh, Trial!Logout, Trial!BeginSignUp, Trial!SignUp,
     Trial!BeginReserve, Trial!BeginSignIn, TrialIInv, TrialTypes, TrialVisits, Trial!NoVisit
<1> QED
  BY <1>1, <1>2, <1>3, <1>4, <1>5, VideosStand

\* A reservation is made where it fits, by a principal that may still act or late.
LEMMA ReservedWithinTrial ==
    ASSUME TrialIInv, NEW owner \in Trial!Principals, NEW v \in Videos, NEW late \in BOOLEAN,
           Trial!Reserve(owner, v, late), UNCHANGED trialRow,
           owner \in Devices /\ trialRow[owner] \in Members => late
    PROVE  /\ video' \in [Videos -> TrialVideos]
           /\ \A w \in Videos : video'[w].owner = "noone" <=> video'[w].status = "none"
           /\ \A p \in Trial!Principals : Trial!WithinTrial(Trial!LiveOf({p}))'
           /\ Trial!NothingStaysBehind'
<1>0. video \in [Videos -> TrialVideos] /\ "noone" \notin Trial!Principals
  BY AccountsAssumption DEF TrialIInv, TrialTypes, Trial!Principals
<1>1. CASE video' = video
  <2>1. \A S : Trial!LiveOf(S)' = Trial!LiveOf(S)
    BY <1>1 DEF Trial!LiveOf
  <2>2. \A p \in Trial!Principals : Trial!WithinTrial(Trial!LiveOf({p}))'
    BY <2>1 DEF TrialIInv, Trial!WithinTrial
  <2> QED
    BY <1>0, <1>1, <2>2 DEF TrialIInv, Trial!NothingStaysBehind
<1>2. CASE /\ Trial!WithinTrial(Trial!LiveOf({owner}) \cup {v})
           /\ video' = [video EXCEPT ![v] = [owner |-> owner, status |-> "reserved", late |-> late]]
  <2>1. video' \in [Videos -> TrialVideos]
    BY <1>0, <1>2 DEF TrialVideos
  <2>2. \A w \in Videos : w # v => video'[w] = video[w]
    BY <1>0, <1>2
  <2>3. /\ video'[v].owner = owner /\ video'[v].status = "reserved" /\ video'[v].late = late
    BY <1>0, <1>2
  <2>4. \A w \in Videos : video'[w].owner = "noone" <=> video'[w].status = "none"
    BY <1>0, <2>2, <2>3 DEF TrialIInv
  <2>5. Trial!LiveOf({owner})' \in SUBSET (Trial!LiveOf({owner}) \cup {v})
    BY <2>2 DEF Trial!LiveOf
  <2>6. ASSUME NEW p \in Trial!Principals, p # owner
        PROVE  Trial!LiveOf({p})' \in SUBSET Trial!LiveOf({p})
    BY <2>2, <2>3, <2>6 DEF Trial!LiveOf
  <2>7. ASSUME NEW p \in Trial!Principals PROVE Trial!WithinTrial(Trial!LiveOf({p}))'
    <3>1. Trial!WithinTrial(Trial!LiveOf({p})')
      <4>1. CASE p = owner
        <5>1. Trial!LiveOf({owner}) \cup {v} \in SUBSET Videos
          BY LiveVideos
        <5> QED
          BY <1>2, <2>5, <4>1, <5>1, FewerFit
      <4>2. CASE p # owner
        BY <2>6, <4>2, LiveVideos, FewerFit DEF TrialIInv
      <4> QED
        BY <4>1, <4>2
    <3> QED
      BY <3>1 DEF Trial!WithinTrial
  <2>8. Trial!NothingStaysBehind'
    BY <2>2, <2>3 DEF TrialIInv, Trial!NothingStaysBehind
  <2> QED
    BY <2>1, <2>4, <2>7, <2>8
<1> QED
  BY <1>1, <1>2 DEF Trial!Reserve

LEMMA TrialVideoSteps ==
    ASSUME TrialIInv,
           \/ \E d \in Devices : Trial!EndReserve(d)
           \/ \E v \in Videos, m \in Members : Trial!MemberReserves(m, v)
    PROVE  TrialIInv'
<1>1. ASSUME NEW d \in Devices, Trial!EndReserve(d) PROVE TrialIInv'
  <2>1. visit[d].of \in Videos /\ d \in Trial!Principals
    BY <1>1 DEF Trial!EndReserve, TrialIInv, Trial!Principals
  <2>2. (~Trial!ActsAlone(d)) \in BOOLEAN
    OBVIOUS
  <2>3. trialRow[d] \in Members => ~Trial!ActsAlone(d)
    BY AccountsAssumption DEF Trial!ActsAlone
  <2>4. Trial!Reserve(d, visit[d].of, ~Trial!ActsAlone(d)) /\ UNCHANGED trialRow
    BY <1>1 DEF Trial!EndReserve
  <2>5. /\ video' \in [Videos -> TrialVideos]
        /\ \A w \in Videos : video'[w].owner = "noone" <=> video'[w].status = "none"
        /\ \A p \in Trial!Principals : Trial!WithinTrial(Trial!LiveOf({p}))'
        /\ Trial!NothingStaysBehind'
    BY <2>1, <2>2, <2>3, <2>4, ReservedWithinTrial
  <2>6. visit' \in [Devices -> TrialVisits] /\ \A e \in Devices : visit'[e].doing = "reserve" => visit'[e].of \in Videos
    BY <1>1 DEF Trial!EndReserve, TrialIInv, TrialTypes, TrialVisits, Trial!NoVisit, Trial!NoOne
  <2>7. UNCHANGED <<trialRow, fingerprint, recent, signIn>>
    BY <1>1 DEF Trial!EndReserve
  <2> QED
    BY <2>5, <2>6, <2>7 DEF TrialIInv, TrialTypes
<1>2. ASSUME NEW v \in Videos, NEW m \in Members, Trial!MemberReserves(m, v) PROVE TrialIInv'
  <2>1. m \in Trial!Principals /\ m \notin Devices
    BY AccountsAssumption DEF Trial!Principals
  <2>2. Trial!Reserve(m, v, FALSE) /\ UNCHANGED <<trialRow, fingerprint, recent, visit, signIn>>
    BY <1>2 DEF Trial!MemberReserves
  <2>3. /\ video' \in [Videos -> TrialVideos]
        /\ \A w \in Videos : video'[w].owner = "noone" <=> video'[w].status = "none"
        /\ \A p \in Trial!Principals : Trial!WithinTrial(Trial!LiveOf({p}))'
        /\ Trial!NothingStaysBehind'
    BY <2>1, <2>2, ReservedWithinTrial
  <2> QED
    BY <2>2, <2>3 DEF TrialIInv, TrialTypes
<1> QED
  BY <1>1, <1>2

LEMMA TrialVideoEnds ==
    ASSUME TrialIInv, NEW v \in Videos, Trial!SaveOrRelease(v)
    PROVE  TrialIInv'
<1>0. video \in [Videos -> TrialVideos]
  BY DEF TrialIInv, TrialTypes
<1>1. PICK s \in {"completed", "released"} : video' = [video EXCEPT ![v].status = s]
  BY DEF Trial!SaveOrRelease
<1>2. UNCHANGED <<trialRow, fingerprint, recent, visit, signIn>> /\ video[v].status = "reserved"
  BY DEF Trial!SaveOrRelease
<1>3. video' \in [Videos -> TrialVideos]
  BY <1>0, <1>1 DEF TrialVideos
<1>4. \A w \in Videos : /\ video'[w].owner = video[w].owner /\ video'[w].late = video[w].late
                        /\ w # v => video'[w].status = video[w].status
                        /\ video'[v].status # "none"
  BY <1>0, <1>1 DEF TrialVideos
<1>5. ASSUME NEW p \in Trial!Principals PROVE Trial!WithinTrial(Trial!LiveOf({p}))'
  <2>1. Trial!LiveOf({p})' \in SUBSET Trial!LiveOf({p})
    BY <1>2, <1>4 DEF Trial!LiveOf, Trial!Live
  <2>2. Trial!WithinTrial(Trial!LiveOf({p})')
    BY <2>1, LiveVideos, FewerFit DEF TrialIInv
  <2> QED
    BY <2>2 DEF Trial!WithinTrial
<1>6. Trial!NothingStaysBehind'
  BY <1>2, <1>4 DEF TrialIInv, Trial!NothingStaysBehind
<1>7. \A w \in Videos : video'[w].owner = "noone" <=> video'[w].status = "none"
  BY <1>2, <1>4 DEF TrialIInv
<1> QED
  BY <1>2, <1>3, <1>5, <1>6, <1>7 DEF TrialIInv, TrialTypes

\* What moves fits, or moves released; nothing is left where it came from.
LEMMA TrialMoves ==
    ASSUME TrialIInv, NEW d \in Devices, Trial!SignIn(d)
    PROVE  TrialIInv'
<1> DEFINE m == signIn[d].to
<1>0. /\ video \in [Videos -> TrialVideos] /\ m \in Members /\ m \in Trial!Principals /\ m # d
      /\ m \notin Devices
  BY AccountsAssumption DEF Trial!SignIn, TrialIInv, TrialTypes, Trial!Principals
<1>1. UNCHANGED <<fingerprint, recent, visit>>
  BY DEF Trial!SignIn
<1>2. /\ trialRow' \in [Devices -> {"none", "unbound"} \cup Trial!Principals]
      /\ \A e \in Devices : e # d => trialRow'[e] = trialRow[e]
      /\ trialRow'[d] = IF trialRow[d] = "unbound" THEN m ELSE trialRow[d]
  BY <1>0 DEF Trial!SignIn, TrialIInv, TrialTypes
<1>3. /\ signIn' \in [Devices -> TrialSignIns]
      /\ \A e \in Devices : signIn'[e].stage = "move" => signIn'[e].to \in Members
  BY DEF Trial!SignIn, TrialIInv, TrialTypes, TrialSignIns, Trial!NoSignIn, Trial!NoOne
<1>4. video' = IF trialRow[d] \in {"unbound", m} THEN Trial!Moved(d, m) ELSE video
  BY DEF Trial!SignIn
<1> HIDE DEF m
<1>5. CASE trialRow[d] \notin {"unbound", m}
  <2>1. UNCHANGED video /\ trialRow'[d] = trialRow[d]
    BY <1>2, <1>4, <1>5
  <2>2. TrialTypes'
    BY <1>1, <1>2, <1>3, <2>1 DEF TrialIInv, TrialTypes
  <2> QED
    BY <1>1, <1>2, <1>3, <2>1, <2>2, VideosStand DEF TrialIInv
<1>6. CASE trialRow[d] \in {"unbound", m}
  <2>1. video' = Trial!Moved(d, m)
    BY <1>4, <1>6
  <2>2. ASSUME NEW v \in Videos
        PROVE  /\ video[v].owner # d => video'[v] = video[v]
               /\ video[v].owner = d =>
                     /\ video'[v].owner = m /\ video'[v].late = video[v].late
                     /\ video'[v].status = IF video[v].status \in Trial!Live /\ ~Trial!Fits(d, m)
                                           THEN "released" ELSE video[v].status
    BY <1>0, <2>1 DEF Trial!Moved, TrialVideos
  <2>3. video' \in [Videos -> TrialVideos]
    BY <1>0, <2>1 DEF Trial!Moved, TrialVideos
  <2>4. \A v \in Videos : video'[v].owner = "noone" <=> video'[v].status = "none"
    <3> SUFFICES ASSUME NEW v \in Videos PROVE video'[v].owner = "noone" <=> video'[v].status = "none"
      OBVIOUS
    <3>1. "noone" \notin Trial!Principals /\ d \in Trial!Principals
      BY AccountsAssumption DEF Trial!Principals
    <3>2. video[v].owner = "noone" <=> video[v].status = "none"
      BY DEF TrialIInv
    <3> QED
      BY <1>0, <2>2, <3>1, <3>2
  <2>5. ASSUME NEW p \in Trial!Principals PROVE Trial!WithinTrial(Trial!LiveOf({p})')
    <3>1. CASE p # m
      <4>1. Trial!LiveOf({p})' \in SUBSET Trial!LiveOf({p})
        BY <2>2, <3>1 DEF Trial!LiveOf
      <4> QED
        BY <4>1, LiveVideos, FewerFit DEF TrialIInv
    <3>2. CASE p = m /\ Trial!Fits(d, m)
      <4>1. Trial!LiveOf({p})' \in SUBSET Trial!LiveOf({d, m})
        BY <2>2, <3>2 DEF Trial!LiveOf
      <4> QED
        BY <3>2, <4>1, LiveVideos, FewerFit DEF Trial!Fits
    <3>3. CASE p = m /\ ~Trial!Fits(d, m)
      <4>1. Trial!LiveOf({p})' \in SUBSET Trial!LiveOf({p})
        BY <2>2, <3>3 DEF Trial!LiveOf, Trial!Live
      <4> QED
        BY <4>1, LiveVideos, FewerFit DEF TrialIInv
    <3> QED
      BY <3>1, <3>2, <3>3
  <2>6. \A p \in Trial!Principals : Trial!WithinTrial(Trial!LiveOf({p}))'
    BY <2>5 DEF Trial!WithinTrial
  <2>7. Trial!NothingStaysBehind'
    <3> SUFFICES ASSUME NEW v \in Videos, NEW e \in Devices,
                        video'[v].owner = e, trialRow'[e] \in Members
                 PROVE  video'[v].late
      BY DEF Trial!NothingStaysBehind
    <3>1. video[v].owner # d
      BY <1>0, <2>2
    <3>2. video'[v] = video[v] /\ e # d /\ trialRow[e] \in Members
      BY <1>2, <2>2, <3>1
    <3> QED
      BY <3>2 DEF TrialIInv, Trial!NothingStaysBehind
  <2> QED
    BY <1>1, <1>2, <1>3, <2>3, <2>4, <2>6, <2>7 DEF TrialIInv, TrialTypes
<1> QED
  BY <1>5, <1>6

LEMMA TrialSteps ==
    ASSUME TrialIInv, Trial!Next
    PROVE  TrialIInv'
<1>1. CASE Trial!WindowPasses
  <2>1. TrialTypes' /\ UNCHANGED <<video, trialRow, signIn, visit>>
    BY <1>1 DEF Trial!WindowPasses, TrialIInv, TrialTypes
  <2> QED
    BY <2>1, VideosStand DEF TrialIInv
<1> QED
  BY <1>1, TrialSessionSteps, TrialVideoSteps, TrialVideoEnds, TrialMoves DEF Trial!Next

\* Nobody has more than one trial, bound or not.
LEMMA OneTrial ==
    ASSUME TrialIInv PROVE Trial!OneTrialEach /\ Trial!NothingStaysBehind /\ Trial!TypeOK
<1>1. ASSUME NEW d \in Devices, trialRow[d] \in Members
      PROVE  Trial!WithinTrial({v \in Trial!LiveOf({d, trialRow[d]}) : ~(video[v].owner = d /\ video[v].late)})
  <2>1. {v \in Trial!LiveOf({d, trialRow[d]}) : ~(video[v].owner = d /\ video[v].late)}
          \in SUBSET Trial!LiveOf({trialRow[d]})
    BY <1>1 DEF TrialIInv, Trial!NothingStaysBehind, Trial!LiveOf
  <2>2. trialRow[d] \in Trial!Principals
    BY <1>1 DEF Trial!Principals
  <2> QED
    BY <2>1, <2>2, LiveVideos, FewerFit DEF TrialIInv
<1>2. Trial!TypeOK
  BY DEF TrialIInv, TrialTypes, TrialVideos, Trial!TypeOK, Trial!NoOne
<1> QED
  BY <1>1, <1>2 DEF TrialIInv, Trial!OneTrialEach

-------------------------------------------------------------------------------
(* AccountSessions.                                                         *)

USE DEF Sessions!Unknown, Sessions!Removed

SomeCredentials == Passkeys \cup Subjects
Ceremonies == {"none", "passkeyLogin", "passkeyStepUp", "register", "remove", "providerLogin",
               "providerStepUp", "link"}

SessionRows == [user : Accounts \cup {"unknown"}, by : SomeCredentials \cup {"unknown"},
                fresh : BOOLEAN, stepUp : BOOLEAN]
CeremonyRows == [kind : Ceremonies, stage : {"none", "asked", "checked", "purge"}, from : Nat,
                 user : Accounts \cup {"unknown"}, key : SomeCredentials \cup {"unknown"}]

SessionTypes ==
    /\ credential \in [SomeCredentials -> Accounts \cup {"unknown", "removed"}]
    /\ closed \subseteq Accounts
    /\ session \in [1 .. MaxSessions -> SessionRows]
    /\ made \in 0 .. MaxSessions
    /\ cookie \in [Browsers -> 0 .. made]
    /\ ceremony \in [Browsers -> CeremonyRows]
    /\ purged \in [Passkeys -> Nat \cup {-1}]

\* Only passkeys are removed, and what belongs to anybody belongs to an open account.
CredentialSound(c) ==
    /\ c \in Subjects => credential[c] # "removed"
    /\ credential[c] \notin closed

\* A session is of an open account with a way in, and of the owner of its passkey.
SessionSound(i) ==
    /\ session[i].user # "unknown" =>
          /\ session[i].user \notin closed
          /\ \E c \in SomeCredentials : credential[c] = session[i].user
    /\ session[i].by \in Passkeys =>
          /\ credential[session[i].by] # "unknown"
          /\ credential[session[i].by] \in Accounts => session[i].user = credential[session[i].by]

\* A passkey is purged after it was removed, and nobody comes back by it.
PurgeSound(k) ==
    purged[k] # -1 =>
       /\ credential[k] = "removed"
       /\ \A i \in 1 .. MaxSessions : session[i].by = k => i = purged[k]

\* An answer names a credential of its kind; what a removal has still to sign
\* out is sessions of the account that removed.
RowSound(r, cr, se, ma) ==
    /\ r.from <= ma
    /\ r.kind = "providerLogin" => r.from = 0
    /\ r.kind \in {"register", "link", "remove"} => r.from # 0 /\ r.user # "unknown"
    /\ r.stage = "checked" =>
          r.key \in IF r.kind \in {"passkeyLogin", "passkeyStepUp", "register", "remove"}
                      THEN Passkeys ELSE Subjects
    /\ r.stage = "purge" =>
          /\ r.key \in Passkeys /\ cr[r.key] = "removed"
          /\ \A i \in 1 .. MaxSessions : se[i].by = r.key => se[i].user = r.user

SessionsIInv ==
    /\ SessionTypes
    /\ \A c \in SomeCredentials : CredentialSound(c)
    /\ \A i \in 1 .. MaxSessions : SessionSound(i)
    /\ \A k \in Passkeys : PurgeSound(k)
    /\ \A b \in Browsers : RowSound(ceremony[b], credential, session, made)

LEMMA Names ==
    /\ "unknown" \notin Accounts /\ "removed" \notin Accounts
    /\ "unknown" \notin SomeCredentials /\ Passkeys \subseteq SomeCredentials
    /\ Subjects \subseteq SomeCredentials /\ Passkeys \cap Subjects = {}
    /\ MaxSessions \in Nat \ {0} /\ Sessions!Credentials = SomeCredentials
  BY AccountsAssumption DEF SomeCredentials, Sessions!Credentials

LEMMA RowsOfSessions ==
    /\ Sessions!NoSession \in SessionRows /\ Sessions!NoSession.user = "unknown"
    /\ Sessions!NoSession.by = "unknown"
    /\ Sessions!Idle \in CeremonyRows /\ Sessions!Idle.from = 0 /\ Sessions!Idle.kind = "none"
    /\ Sessions!Idle.stage = "none"
    /\ \A a \in Accounts, c \in SomeCredentials, s \in BOOLEAN :
          /\ Sessions!NewSession(a, c, s) \in SessionRows
          /\ Sessions!NewSession(a, c, s).user = a /\ Sessions!NewSession(a, c, s).by = c
  BY DEF Sessions!NoSession, Sessions!Idle, Sessions!NewSession, SessionRows, CeremonyRows, Ceremonies

LEMMA SessionsBegin ==
    ASSUME Sessions!Init PROVE SessionsIInv
<1>1. /\ closed = {} /\ ceremony = [b \in Browsers |-> Sessions!Idle]
      /\ purged = [k \in Passkeys |-> -1]
  BY DEF Sessions!Init
<1>2. (\A k \in Passkeys : PurgeSound(k)) /\ \A c \in SomeCredentials : credential[c] \notin closed
  BY <1>1 DEF PurgeSound
<1>3. \A b \in Browsers : made \in Nat => RowSound(ceremony[b], credential, session, made)
  BY <1>1, RowsOfSessions DEF RowSound
<1>4. CASE /\ credential = [c \in SomeCredentials |-> "unknown"]
           /\ session = [i \in 1 .. MaxSessions |-> Sessions!NoSession]
           /\ made = 0
           /\ cookie = [b \in Browsers |-> 0]
  <2>1. SessionTypes
    BY <1>1, <1>4, Names, RowsOfSessions DEF SessionTypes
  <2>2. \A c \in SomeCredentials : CredentialSound(c)
    BY <1>2, <1>4 DEF CredentialSound
  <2>3. \A i \in 1 .. MaxSessions : SessionSound(i)
    BY <1>4, RowsOfSessions, Names DEF SessionSound
  <2> QED
    BY <1>2, <1>3, <1>4, <2>1, <2>2, <2>3 DEF SessionsIInv
<1>5. ASSUME NEW a \in Accounts, NEW k \in Passkeys, NEW d,
             credential = [c \in SomeCredentials |-> IF c \in Passkeys THEN a ELSE "unknown"],
             session = [i \in 1 .. MaxSessions |->
                          IF i = MaxSessions - 1 THEN Sessions!NewSession(a, k, TRUE) ELSE Sessions!NoSession],
             made = MaxSessions - 1,
             cookie = [b \in Browsers |-> IF b = d THEN MaxSessions - 1 ELSE 0]
      PROVE  SessionsIInv
  <2>0. MaxSessions - 1 \in Nat /\ Sessions!NewSession(a, k, TRUE) \in SessionRows
    <3>1. MaxSessions - 1 \in Nat
      BY Names
    <3>2. TRUE \in BOOLEAN /\ k \in SomeCredentials
      BY Names
    <3> QED
      BY <3>1, <3>2, RowsOfSessions
  <2>1. SessionTypes
    <3>1. session \in [1 .. MaxSessions -> SessionRows]
      BY <1>5, <2>0, RowsOfSessions
    <3>2. made \in 0 .. MaxSessions /\ cookie \in [Browsers -> 0 .. made]
      BY <1>5, <2>0, Names
    <3> QED
      BY <1>1, <1>5, <3>1, <3>2, Names, RowsOfSessions DEF SessionTypes
  <2>2. \A c \in SomeCredentials : CredentialSound(c)
    BY <1>2, <1>5, Names DEF CredentialSound
  <2>3. \A i \in 1 .. MaxSessions : SessionSound(i)
    <3> SUFFICES ASSUME NEW i \in 1 .. MaxSessions PROVE SessionSound(i)
      OBVIOUS
    <3>1. CASE i = MaxSessions - 1
      <4>1. session[i].user = a /\ session[i].by = k
        BY <1>5, <3>1, RowsOfSessions, Names
      <4>2. credential[k] = a /\ k \in SomeCredentials
        BY <1>5, Names
      <4> QED
        BY <1>1, <4>1, <4>2, Names DEF SessionSound
    <3>2. CASE i # MaxSessions - 1
      <4>1. session[i] = Sessions!NoSession
        BY <1>5, <3>2
      <4> QED
        BY <4>1, RowsOfSessions, Names DEF SessionSound
    <3> QED
      BY <3>1, <3>2
  <2> QED
    BY <1>2, <1>3, <1>5, <2>0, <2>1, <2>2, <2>3 DEF SessionsIInv
<1> QED
  <2> DEFINE k == CHOOSE c \in Passkeys : TRUE
             d == CHOOSE c \in Browsers : TRUE
  <2>1. k \in Passkeys
    BY AccountsAssumption
  <2>2. \/ /\ credential = [c \in SomeCredentials |-> "unknown"]
           /\ session = [i \in 1 .. MaxSessions |-> Sessions!NoSession]
           /\ made = 0
           /\ cookie = [b \in Browsers |-> 0]
        \/ \E a \in Accounts :
              /\ credential = [c \in SomeCredentials |-> IF c \in Passkeys THEN a ELSE "unknown"]
              /\ session = [i \in 1 .. MaxSessions |->
                              IF i = MaxSessions - 1 THEN Sessions!NewSession(a, k, TRUE)
                              ELSE Sessions!NoSession]
              /\ made = MaxSessions - 1
              /\ cookie = [b \in Browsers |-> IF b = d THEN MaxSessions - 1 ELSE 0]
    BY Zenon, Names DEF Sessions!Init, Sessions!Unknown
  <2> HIDE DEF k, d
  <2>3. ASSUME NEW a \in Accounts,
               credential = [c \in SomeCredentials |-> IF c \in Passkeys THEN a ELSE "unknown"],
               session = [i \in 1 .. MaxSessions |->
                            IF i = MaxSessions - 1 THEN Sessions!NewSession(a, k, TRUE)
                            ELSE Sessions!NoSession],
               made = MaxSessions - 1,
               cookie = [b \in Browsers |-> IF b = d THEN MaxSessions - 1 ELSE 0]
        PROVE  SessionsIInv
    BY Zenon, <1>5, <2>1, <2>3
  <2> QED
    BY Zenon, <1>4, <2>2, <2>3

LEMMA SessionsRest ==
    ASSUME SessionsIInv, UNCHANGED sessions PROVE SessionsIInv'
  BY DEF SessionsIInv, sessions, SessionTypes, CredentialSound, SessionSound, PurgeSound

\* What a browser's ceremony becomes, while nothing else moves.
LEMMA CeremonyMoves ==
    ASSUME SessionsIInv, NEW b \in Browsers, NEW row \in CeremonyRows,
           RowSound(row, credential, session, made),
           ceremony' = [ceremony EXCEPT ![b] = row],
           UNCHANGED <<credential, closed, session, made, cookie, purged>>
    PROVE  SessionsIInv'
<1>1. SessionTypes'
  BY DEF SessionsIInv, SessionTypes
<1>2. /\ \A c \in SomeCredentials : CredentialSound(c)'
      /\ \A i \in 1 .. MaxSessions : SessionSound(i)'
      /\ \A k \in Passkeys : PurgeSound(k)'
  BY DEF SessionsIInv, CredentialSound, SessionSound, PurgeSound
<1>3. \A d \in Browsers : RowSound(ceremony'[d], credential', session', made')
  <2> SUFFICES ASSUME NEW d \in Browsers PROVE RowSound(ceremony'[d], credential, session, made)
    BY Zenon
  <2>1. ceremony'[d] = IF d = b THEN row ELSE ceremony[d]
    BY DEF SessionsIInv, SessionTypes
  <2> QED
    BY Zenon, <2>1 DEF SessionsIInv
<1> QED
  BY <1>1, <1>2, <1>3 DEF SessionsIInv

LEMMA IdleIsSound ==
    ASSUME SessionsIInv
    PROVE  Sessions!Idle \in CeremonyRows /\ RowSound(Sessions!Idle, credential, session, made)
  BY RowsOfSessions, Names DEF RowSound, SessionsIInv, SessionTypes

LEMMA SessionsLeave ==
    ASSUME SessionsIInv, NEW b \in Browsers, Sessions!Leave(b),
           UNCHANGED <<credential, closed, session, made, cookie, purged>>
    PROVE  SessionsIInv'
  BY IdleIsSound, CeremonyMoves DEF Sessions!Leave

LEMMA SessionsStart ==
    ASSUME SessionsIInv, NEW b \in Browsers, Sessions!Start(b) PROVE SessionsIInv'
<1>1. UNCHANGED <<credential, closed, session, made, cookie, purged>>
  BY DEF Sessions!Start
<1>2. PICK kind \in Ceremonies, from \in {0, cookie[b]}, user \in {"unknown", Sessions!UserOf(b)} :
        /\ Sessions!Enter(b, kind, from, user)
        /\ kind = "providerLogin" => from = 0
        /\ kind \in {"register", "link", "remove"} =>
              from = cookie[b] /\ cookie[b] # 0 /\ user = Sessions!UserOf(b) /\ user # "unknown"
  BY DEF Sessions!Start, Ceremonies, Sessions!SteppedUp, Sessions!Recent, Sessions!UserOf
<1> DEFINE row == [kind |-> kind, stage |-> "asked", from |-> from, user |-> user, key |-> "unknown"]
<1>3. ceremony' = [ceremony EXCEPT ![b] = row]
  BY <1>2 DEF Sessions!Enter
<1>4. /\ cookie[b] \in Nat /\ cookie[b] <= made /\ made \in Nat /\ made <= MaxSessions
      /\ Sessions!UserOf(b) \in Accounts \cup {"unknown"}
  <2>1. made \in 0 .. MaxSessions /\ cookie[b] \in 0 .. made
    BY Names DEF SessionsIInv, SessionTypes
  <2>2. cookie[b] # 0 => cookie[b] \in 1 .. MaxSessions
    BY <2>1, Names
  <2>3. \A i \in 1 .. MaxSessions : session[i].user \in Accounts \cup {"unknown"}
    BY DEF SessionsIInv, SessionTypes, SessionRows
  <2> QED
    BY <2>1, <2>2, <2>3, Names DEF Sessions!UserOf
<1>5. row \in CeremonyRows
  BY <1>2, <1>4 DEF CeremonyRows
<1>6. RowSound(row, credential, session, made)
  BY <1>2, <1>4 DEF RowSound
<1> HIDE DEF row
<1> QED
  BY <1>1, <1>3, <1>5, <1>6, CeremonyMoves

LEMMA SessionsAnswer ==
    ASSUME SessionsIInv, NEW b \in Browsers, NEW c \in SomeCredentials, Sessions!Answer(b, c)
    PROVE  SessionsIInv'
<1> DEFINE r == ceremony[b]
           row == [r EXCEPT !.stage = "checked", !.key = c,
                            !.user = IF @ = "unknown" THEN credential[c] ELSE @]
<1>1. /\ UNCHANGED <<credential, closed, session, made, cookie, purged>>
      /\ ceremony' = [ceremony EXCEPT ![b] = row]
      /\ Sessions!Admissible(b, c)
  BY Zenon DEF Sessions!Answer
<1>2. r \in CeremonyRows /\ RowSound(r, credential, session, made)
  BY DEF SessionsIInv, SessionTypes
<1>3. /\ row.kind = r.kind /\ row.stage = "checked" /\ row.from = r.from /\ row.key = c
      /\ row.user = IF r.user = "unknown" THEN credential[c] ELSE r.user
  BY <1>2 DEF CeremonyRows
<1>4. r.user = "unknown" => credential[c] \in Accounts \cup {"unknown"}
  <2>1. CredentialSound(c) /\ credential[c] \in Accounts \cup {"unknown", "removed"}
    BY DEF SessionsIInv, SessionTypes
  <2>2. r.kind \in {"register", "remove"} => r.user # "unknown"
    BY <1>2 DEF RowSound
  <2>3. credential[c] # "removed" \/ r.user # "unknown" \/ c \in Subjects
    BY <1>1, <2>2, Names DEF Sessions!Admissible, Sessions!Kind
  <2> QED
    BY <2>1, <2>3 DEF CredentialSound
<1>5. row \in CeremonyRows
  BY <1>2, <1>4 DEF CeremonyRows
<1>6. RowSound(row, credential, session, made)
  <2>1. r.kind \in {"passkeyLogin", "passkeyStepUp", "register", "remove"} => c \in Passkeys
    BY <1>1 DEF Sessions!Admissible, Sessions!Kind
  <2>2. r.kind \notin {"passkeyLogin", "passkeyStepUp", "register", "remove"} => c \in Subjects
    BY <1>1 DEF Sessions!Admissible, Sessions!Kind
  <2> HIDE DEF row, r
  <2> QED
    BY <1>2, <1>3, <2>1, <2>2 DEF RowSound
<1> HIDE DEF row
<1> QED
  BY <1>1, <1>5, <1>6, CeremonyMoves

\* The end of a ceremony that gives credential c to account a, or lets the
\* browser in by it, or both.
LEMMA SessionsBind ==
    ASSUME SessionsIInv, NEW b \in Browsers, NEW a \in Accounts, NEW c \in SomeCredentials, NEW s \in BOOLEAN,
           a \notin closed, credential[c] \in {a, "unknown"},
           credential' = [credential EXCEPT ![c] = a],
           Sessions!Mint(b, a, c, s) \/ Sessions!NoMint,
           Sessions!Leave(b), UNCHANGED <<closed, purged>>
    PROVE  SessionsIInv'
<1> DEFINE fresh == Sessions!NewSession(a, c, s)
<1>1. /\ made \in 0 .. MaxSessions /\ cookie \in [Browsers -> 0 .. made]
      /\ session \in [1 .. MaxSessions -> SessionRows] /\ ceremony \in [Browsers -> CeremonyRows]
      /\ credential \in [SomeCredentials -> Accounts \cup {"unknown", "removed"}]
  BY DEF SessionsIInv, SessionTypes
<1>2. fresh \in SessionRows /\ fresh.user = a /\ fresh.by = c
  BY RowsOfSessions
<1>3. \/ /\ made' = made + 1 /\ made' \in 1 .. MaxSessions
         /\ session' = [session EXCEPT ![made'] = fresh]
         /\ cookie' = [cookie EXCEPT ![b] = made']
      \/ UNCHANGED <<made, session, cookie>>
  BY <1>1, Names DEF Sessions!Mint, Sessions!NoMint
<1> HIDE DEF fresh
<1>4. \A i \in 1 .. MaxSessions : session'[i] = session[i] \/ session'[i] = fresh
  BY <1>1, <1>3
<1>5. \A d \in SomeCredentials : credential'[d] = IF d = c THEN a ELSE credential[d]
  BY <1>1
<1>6. made' \in 0 .. MaxSessions /\ made <= made'
  BY <1>1, <1>3, Names
<1>7. SessionTypes'
  <2>1. session' \in [1 .. MaxSessions -> SessionRows]
    BY <1>1, <1>2, <1>3
  <2>2. cookie' \in [Browsers -> 0 .. made']
    BY <1>1, <1>3
  <2>3. ceremony' \in [Browsers -> CeremonyRows]
    BY <1>1, RowsOfSessions DEF Sessions!Leave
  <2>4. credential' \in [SomeCredentials -> Accounts \cup {"unknown", "removed"}]
    BY <1>1
  <2> QED
    BY <1>6, <2>1, <2>2, <2>3, <2>4 DEF SessionTypes, SessionsIInv
<1>8. \A d \in SomeCredentials : CredentialSound(d)'
  BY <1>5, Names DEF CredentialSound, SessionsIInv
<1>9. \A i \in 1 .. MaxSessions : SessionSound(i)'
  <2> SUFFICES ASSUME NEW i \in 1 .. MaxSessions PROVE SessionSound(i)'
    OBVIOUS
  <2>1. CASE session'[i] = fresh
    <3>1. session'[i].user = a /\ session'[i].by = c /\ credential'[c] = a
      BY <1>2, <1>5, <2>1
    <3> QED
      BY <3>1, Names DEF SessionSound
  <2>2. CASE session'[i] = session[i]
    <3>1. SessionSound(i)
      BY DEF SessionsIInv
    <3> QED
      BY <1>5, <2>2, <3>1, Names DEF SessionSound
  <2> QED
    BY <1>4, <2>1, <2>2
<1>10. \A k \in Passkeys : PurgeSound(k)'
  <2> SUFFICES ASSUME NEW k \in Passkeys, purged[k] # -1 PROVE PurgeSound(k)'
    BY DEF PurgeSound
  <2>1. PurgeSound(k)
    BY DEF SessionsIInv
  <2>2. credential[k] = "removed" /\ k # c
    BY <2>1, Names DEF PurgeSound
  <2>3. \A i \in 1 .. MaxSessions : session'[i].by = k => session'[i] = session[i]
    BY <1>2, <1>4, <2>2
  <2> QED
    BY <1>5, <2>1, <2>2, <2>3, Names DEF PurgeSound
<1>11. \A d \in Browsers : RowSound(ceremony'[d], credential', session', made')
  <2> SUFFICES ASSUME NEW d \in Browsers PROVE RowSound(ceremony'[d], credential', session', made')
    OBVIOUS
  <2>1. PICK r \in CeremonyRows : r = ceremony'[d] /\ RowSound(r, credential, session, made)
    <3>1. ceremony'[d] = IF d = b THEN Sessions!Idle ELSE ceremony[d]
      BY <1>1 DEF Sessions!Leave
    <3>2. CASE d = b
      BY <3>1, <3>2, IdleIsSound
    <3>3. CASE d # b
      BY <1>1, <3>1, <3>3 DEF SessionsIInv
    <3> QED
      BY <3>2, <3>3
  <2>2. r.from \in Nat /\ made \in Nat /\ made' \in Nat
    BY <1>1, <1>6, Names DEF CeremonyRows
  <2>3. \A k \in Passkeys : credential[k] = "removed" =>
           /\ credential'[k] = "removed"
           /\ \A i \in 1 .. MaxSessions : session'[i].by = k =>
                 session[i].by = k /\ session'[i].user = session[i].user
    BY <1>2, <1>4, <1>5, Names
  <2>4. RowSound(r, credential', session', made')
    BY <1>6, <2>1, <2>2, <2>3 DEF RowSound
  <2> QED
    BY <2>1, <2>4
<1> QED
  BY <1>7, <1>8, <1>9, <1>10, <1>11 DEF SessionsIInv

LEMMA CheckedAnswers ==
    ASSUME SessionsIInv, NEW b \in Browsers, ceremony[b].stage = "checked"
    PROVE  /\ Sessions!Key(b) \in SomeCredentials
           /\ ceremony[b].from \in Nat /\ ceremony[b].from <= made
           /\ Sessions!Account(b) \in Accounts \cup {"unknown"}
           /\ Sessions!Kind(b) = "providerLogin" => ceremony[b].from = 0
           /\ Sessions!Kind(b) \in {"register", "link", "remove"} =>
                 ceremony[b].from # 0 /\ Sessions!Account(b) \in Accounts
           /\ Sessions!Kind(b) \in {"register", "remove"} => Sessions!Key(b) \in Passkeys
<1>1. ceremony[b] \in CeremonyRows /\ RowSound(ceremony[b], credential, session, made)
  BY DEF SessionsIInv, SessionTypes
<1>2. ceremony[b].from \in Nat /\ ceremony[b].user \in Accounts \cup {"unknown"}
  BY <1>1 DEF CeremonyRows
<1> QED
  BY <1>1, <1>2, Names DEF RowSound, Sessions!Key, Sessions!Account, Sessions!Kind

LEMMA SessionsSignIn ==
    ASSUME SessionsIInv, NEW b \in Browsers, Sessions!SignIn(b) PROVE SessionsIInv'
<1> DEFINE a == Sessions!Account(b)
           c == Sessions!Key(b)
           s == ceremony[b].from # 0
<1>1. /\ a \in Accounts /\ c \in SomeCredentials /\ s \in BOOLEAN
      /\ Sessions!Leave(b) /\ UNCHANGED <<credential, closed, purged>>
  BY CheckedAnswers DEF Sessions!SignIn, Sessions!Checked
<1>2. CASE Sessions!MaySignIn(b)
  <2>1. Sessions!Mint(b, a, c, s)
    BY <1>2 DEF Sessions!SignIn
  <2>2. a \notin closed /\ credential[c] = a
    BY <1>2 DEF Sessions!MaySignIn
  <2>3. credential' = [credential EXCEPT ![c] = a]
    BY <1>1, <2>2 DEF SessionsIInv, SessionTypes
  <2> HIDE DEF a, c, s
  <2> QED
    BY <1>1, <2>1, <2>2, <2>3, SessionsBind
<1>3. CASE ~Sessions!MaySignIn(b)
  BY <1>1, <1>3, SessionsLeave DEF Sessions!SignIn, Sessions!NoMint
<1> QED
  BY <1>2, <1>3

LEMMA SessionsSignUp ==
    ASSUME SessionsIInv, NEW b \in Browsers, Sessions!SignUp(b) PROVE SessionsIInv'
<1> DEFINE c == Sessions!Key(b)
<1>1. /\ c \in SomeCredentials /\ FALSE \in BOOLEAN
      /\ Sessions!Leave(b) /\ UNCHANGED <<closed, purged>>
  BY CheckedAnswers DEF Sessions!SignUp, Sessions!Checked
<1>2. CASE credential[c] = "unknown"
  <2>1. PICK a \in Accounts \ closed :
          credential' = [credential EXCEPT ![c] = a] /\ Sessions!Mint(b, a, c, FALSE)
    BY <1>2 DEF Sessions!SignUp
  <2> HIDE DEF c
  <2> QED
    BY <1>1, <1>2, <2>1, SessionsBind
<1>3. CASE credential[c] # "unknown"
  <2> DEFINE a == credential[c]
  <2>1. a \in Accounts /\ Sessions!Mint(b, a, c, FALSE) /\ UNCHANGED credential
    BY <1>3 DEF Sessions!SignUp
  <2>2. credential' = [credential EXCEPT ![c] = a]
    BY <1>1, <2>1 DEF SessionsIInv, SessionTypes
  <2>3. a \notin closed
    BY <1>1 DEF SessionsIInv, CredentialSound
  <2>4. a \in {a, "unknown"}
    OBVIOUS
  <2> HIDE DEF c
  <2> QED
    BY <1>1, <2>1, <2>2, <2>3, <2>4, SessionsBind
<1> QED
  BY <1>2, <1>3

LEMMA SessionsLink ==
    ASSUME SessionsIInv, NEW b \in Browsers, Sessions!Link(b) PROVE SessionsIInv'
<1> DEFINE a == Sessions!Account(b)
           c == Sessions!Key(b)
<1>1. /\ a \in Accounts /\ c \in SomeCredentials /\ FALSE \in BOOLEAN
      /\ Sessions!Leave(b) /\ UNCHANGED <<closed, session, made, cookie, purged>>
  BY CheckedAnswers DEF Sessions!Link, Sessions!Checked
<1>2. CASE a \notin closed /\ credential[c] = "unknown" /\ credential' = [credential EXCEPT ![c] = a]
  <2>1. Sessions!NoMint /\ credential[c] \in {a, "unknown"}
    BY <1>1, <1>2 DEF Sessions!NoMint
  <2> HIDE DEF a, c
  <2> QED
    BY <1>1, <1>2, <2>1, SessionsBind
<1>3. CASE credential' = credential
  BY <1>1, <1>3, SessionsLeave
<1> QED
  BY <1>2, <1>3 DEF Sessions!Link

LEMMA SessionsRegister ==
    ASSUME SessionsIInv, NEW b \in Browsers, Sessions!Register(b) PROVE SessionsIInv'
<1> DEFINE a == Sessions!Account(b)
           c == Sessions!Key(b)
<1>1. /\ a \in Accounts /\ c \in SomeCredentials /\ TRUE \in BOOLEAN
      /\ Sessions!Leave(b) /\ UNCHANGED <<closed, purged>>
  BY CheckedAnswers DEF Sessions!Register, Sessions!Checked
<1>2. CASE /\ a \notin closed /\ credential[c] = "unknown"
           /\ credential' = [credential EXCEPT ![c] = a] /\ Sessions!Mint(b, a, c, TRUE)
  <2>1. credential[c] \in {a, "unknown"}
    BY <1>2
  <2> HIDE DEF a, c
  <2> QED
    BY <1>1, <1>2, <2>1, SessionsBind
<1>3. CASE Sessions!NoMint /\ credential' = credential
  BY <1>1, <1>3, SessionsLeave DEF Sessions!NoMint
<1> QED
  BY <1>2, <1>3 DEF Sessions!Register

\* Sessions end or grow old, and a browser may leave its ceremony.
LEMMA SessionsFade ==
    ASSUME SessionsIInv,
           session' \in [1 .. MaxSessions -> SessionRows],
           \A i \in 1 .. MaxSessions :
              \/ session'[i].user = session[i].user /\ session'[i].by = session[i].by
              \/ session'[i] = Sessions!NoSession,
           UNCHANGED <<credential, closed, made>>,
           cookie' \in [Browsers -> 0 .. made],
           ceremony' = ceremony \/ \E b \in Browsers : Sessions!Leave(b),
           purged' \in [Passkeys -> Nat \cup {-1}], \A k \in Passkeys : PurgeSound(k)'
    PROVE  SessionsIInv'
<1>1. ceremony' \in [Browsers -> CeremonyRows]
      /\ \A d \in Browsers : ceremony'[d] \in {ceremony[d], Sessions!Idle}
  <2>1. ceremony \in [Browsers -> CeremonyRows]
    BY DEF SessionsIInv, SessionTypes
  <2>2. ASSUME NEW b \in Browsers, Sessions!Leave(b)
        PROVE  /\ ceremony' \in [Browsers -> CeremonyRows]
               /\ \A d \in Browsers : ceremony'[d] \in {ceremony[d], Sessions!Idle}
    BY <2>1, <2>2, RowsOfSessions DEF Sessions!Leave
  <2>3. CASE ceremony' = ceremony
    BY <2>1, <2>3
  <2> QED
    BY <2>2, <2>3
<1>2. SessionTypes'
  BY <1>1 DEF SessionsIInv, SessionTypes
<1>3. \A c \in SomeCredentials : CredentialSound(c)'
  BY DEF SessionsIInv, CredentialSound
<1>4. \A i \in 1 .. MaxSessions : SessionSound(i)'
  <2> SUFFICES ASSUME NEW i \in 1 .. MaxSessions PROVE SessionSound(i)'
    OBVIOUS
  <2>1. SessionSound(i)
    BY DEF SessionsIInv
  <2>2. CASE session'[i] = Sessions!NoSession
    BY <2>2, RowsOfSessions, Names DEF SessionSound
  <2>3. CASE session'[i].user = session[i].user /\ session'[i].by = session[i].by
    BY <2>1, <2>3 DEF SessionSound
  <2> QED
    BY <2>2, <2>3
<1>5. \A d \in Browsers : RowSound(ceremony'[d], credential', session', made')
  <2> SUFFICES ASSUME NEW d \in Browsers PROVE RowSound(ceremony'[d], credential', session', made')
    OBVIOUS
  <2>1. PICK r \in CeremonyRows : r = ceremony'[d] /\ RowSound(r, credential, session, made)
    BY <1>1, IdleIsSound DEF SessionsIInv, SessionTypes
  <2>2. \A k \in Passkeys, i \in 1 .. MaxSessions :
           session'[i].by = k => session[i].by = k /\ session'[i].user = session[i].user
    BY RowsOfSessions, Names
  <2>3. RowSound(r, credential', session', made')
    BY <2>1, <2>2 DEF RowSound
  <2> QED
    BY <2>1, <2>3
<1> QED
  BY <1>2, <1>3, <1>4, <1>5 DEF SessionsIInv

LEMMA PurgesStaySound ==
    ASSUME SessionsIInv, UNCHANGED <<credential, purged>>,
           \A i \in 1 .. MaxSessions :
              \/ session'[i].user = session[i].user /\ session'[i].by = session[i].by
              \/ session'[i] = Sessions!NoSession
    PROVE  purged' \in [Passkeys -> Nat \cup {-1}] /\ \A k \in Passkeys : PurgeSound(k)'
  BY RowsOfSessions, Names DEF SessionsIInv, SessionTypes, PurgeSound

LEMMA SessionsPurge ==
    ASSUME SessionsIInv, NEW b \in Browsers, Sessions!Purge(b) PROVE SessionsIInv'
<1> DEFINE r == ceremony[b]
<1>1. /\ r.stage = "purge" /\ Sessions!Leave(b) /\ UNCHANGED <<credential, closed, made, cookie>>
      /\ session' = [i \in DOMAIN session |-> IF session[i].user = r.user /\ i # r.from
                                                THEN Sessions!NoSession ELSE session[i]]
      /\ purged' = [purged EXCEPT ![r.key] = r.from]
  BY Zenon DEF Sessions!Purge, Sessions!Account, Sessions!Key
<1>2. r \in CeremonyRows /\ RowSound(r, credential, session, made)
  BY DEF SessionsIInv, SessionTypes
<1>3. /\ session \in [1 .. MaxSessions -> SessionRows] /\ cookie \in [Browsers -> 0 .. made]
      /\ purged \in [Passkeys -> Nat \cup {-1}]
  BY DEF SessionsIInv, SessionTypes
<1>4. /\ r.key \in Passkeys /\ credential[r.key] = "removed" /\ r.from \in Nat
      /\ \A i \in 1 .. MaxSessions : session[i].by = r.key => session[i].user = r.user
  <2>1. r.from \in Nat
    BY <1>2 DEF CeremonyRows
  <2> QED
    BY <1>1, <1>2, <2>1 DEF RowSound
<1> HIDE DEF r
<1>5. \A i \in 1 .. MaxSessions :
         session'[i] = IF session[i].user = r.user /\ i # r.from THEN Sessions!NoSession ELSE session[i]
  BY <1>1, <1>3
<1>6. session' \in [1 .. MaxSessions -> SessionRows]
  BY <1>1, <1>3, RowsOfSessions
<1>7. purged' \in [Passkeys -> Nat \cup {-1}]
  BY <1>1, <1>3, <1>4
<1>8. \A k \in Passkeys : PurgeSound(k)'
  <2> SUFFICES ASSUME NEW k \in Passkeys PROVE PurgeSound(k)'
    OBVIOUS
  <2>1. CASE k = r.key
    <3>1. \A i \in 1 .. MaxSessions : session'[i].by = k => i = r.from
      BY <1>4, <1>5, <2>1, RowsOfSessions, Names
    <3> QED
      BY <1>1, <1>3, <1>4, <2>1, <3>1 DEF PurgeSound
  <2>2. CASE k # r.key
    <3>1. PurgeSound(k) /\ purged'[k] = purged[k]
      BY <1>1, <1>3, <2>2 DEF SessionsIInv
    <3>2. \A i \in 1 .. MaxSessions : session'[i].by = k => session[i].by = k
      BY <1>5, RowsOfSessions, Names
    <3> QED
      BY <1>1, <3>1, <3>2 DEF PurgeSound
  <2> QED
    BY <2>1, <2>2
<1>9. \A i \in 1 .. MaxSessions :
         \/ session'[i].user = session[i].user /\ session'[i].by = session[i].by
         \/ session'[i] = Sessions!NoSession
  BY <1>5
<1> QED
  BY <1>1, <1>3, <1>6, <1>7, <1>8, <1>9, SessionsFade

LEMMA SessionsEnd ==
    ASSUME SessionsIInv, NEW S \in SUBSET (1 .. MaxSessions),
           session' = [i \in 1 .. MaxSessions |-> IF i \in S THEN Sessions!NoSession ELSE session[i]],
           cookie' \in [Browsers -> 0 .. made],
           UNCHANGED <<credential, closed, made, ceremony, purged>>
    PROVE  SessionsIInv'
<1>1. \A i \in 1 .. MaxSessions : session'[i] = IF i \in S THEN Sessions!NoSession ELSE session[i]
  OBVIOUS
<1>2. session' \in [1 .. MaxSessions -> SessionRows]
  BY RowsOfSessions DEF SessionsIInv, SessionTypes
<1>3. \A i \in 1 .. MaxSessions :
         \/ session'[i].user = session[i].user /\ session'[i].by = session[i].by
         \/ session'[i] = Sessions!NoSession
  BY <1>1
<1> QED
  BY <1>2, <1>3, SessionsFade, PurgesStaySound

LEMMA SessionsLogout ==
    ASSUME SessionsIInv, NEW b \in Browsers, Sessions!Logout(b) \/ Sessions!LogoutEverywhere(b)
    PROVE  SessionsIInv'
<1> DEFINE S == IF Sessions!Logout(b) THEN {cookie[b]}
                ELSE {i \in 1 .. MaxSessions : session[i].user = Sessions!UserOf(b)}
<1>1. /\ session \in [1 .. MaxSessions -> SessionRows] /\ cookie \in [Browsers -> 0 .. made]
      /\ made \in 0 .. MaxSessions
  BY DEF SessionsIInv, SessionTypes
<1>2. cookie' \in [Browsers -> 0 .. made] /\ UNCHANGED <<credential, closed, made, ceremony, purged>>
  BY <1>1, Names DEF Sessions!Logout, Sessions!LogoutEverywhere
<1>3. S \subseteq 1 .. MaxSessions
  BY <1>1, Names DEF Sessions!Logout
<1>4. session' = [i \in 1 .. MaxSessions |-> IF i \in S THEN Sessions!NoSession ELSE session[i]]
  <2>1. CASE Sessions!Logout(b)
    BY <1>1, <2>1 DEF Sessions!Logout
  <2>2. CASE ~Sessions!Logout(b)
    BY <1>1, <2>2 DEF Sessions!LogoutEverywhere
  <2> QED
    BY <2>1, <2>2
<1> HIDE DEF S
<1> QED
  BY <1>2, <1>3, <1>4, SessionsEnd

LEMMA SessionsGrowOld ==
    ASSUME SessionsIInv, NEW i \in 1 .. MaxSessions, Sessions!GrowsOld(i) PROVE SessionsIInv'
<1>1. /\ session \in [1 .. MaxSessions -> SessionRows] /\ cookie \in [Browsers -> 0 .. made]
      /\ UNCHANGED <<credential, closed, made, cookie, ceremony, purged>>
  BY DEF SessionsIInv, SessionTypes, Sessions!GrowsOld
<1>2. session' = [session EXCEPT ![i].fresh = FALSE]
  BY DEF Sessions!GrowsOld
<1>3. session' \in [1 .. MaxSessions -> SessionRows]
  BY <1>1, <1>2 DEF SessionRows
<1>4. \A j \in 1 .. MaxSessions : session'[j].user = session[j].user /\ session'[j].by = session[j].by
  BY <1>1, <1>2 DEF SessionRows
<1> QED
  BY <1>1, <1>3, <1>4, SessionsFade, PurgesStaySound

LEMMA KeepsAnother ==
    ASSUME SessionsIInv, NEW a \in Accounts, NEW k \in Passkeys, credential[k] = a,
           Sessions!KeepsAWayIn(a, k)
    PROVE  \E c \in SomeCredentials : c # k /\ credential[c] = a
<1> DEFINE P == Sessions!Owned(a) \cap Passkeys
<1>1. CASE Sessions!Owned(a) \cap Subjects # {}
  BY <1>1, Names DEF Sessions!Owned
<1>2. CASE Sessions!Cardinality(P) > 1
  <2>1. Sessions!Cardinality(P) = Cardinality(P)
    BY Zenon DEF Sessions!Cardinality, Cardinality
  <2>2. P # {k}
    BY <1>2, <2>1, FS_Singleton
  <2>3. k \in P
    BY Names DEF Sessions!Owned
  <2> QED
    BY <2>2, <2>3, Names DEF Sessions!Owned
<1> QED
  BY <1>1, <1>2 DEF Sessions!KeepsAWayIn

LEMMA SessionsRemove ==
    ASSUME SessionsIInv, NEW b \in Browsers, Sessions!Remove(b) PROVE SessionsIInv'
<1> DEFINE r == ceremony[b]
           k == Sessions!Key(b)
           a == Sessions!Account(b)
           row == [r EXCEPT !.stage = "purge"]
<1>0. /\ k \in Passkeys /\ a \in Accounts /\ k = r.key /\ a = r.user
      /\ UNCHANGED <<closed, session, made, cookie, purged>>
  BY CheckedAnswers DEF Sessions!Remove, Sessions!Checked, Sessions!Key, Sessions!Account
<1>1. CASE Sessions!Leave(b) /\ UNCHANGED credential
  BY <1>0, <1>1, SessionsLeave
<1>2. CASE /\ credential[k] = a /\ Sessions!KeepsAWayIn(a, k)
           /\ credential' = [credential EXCEPT ![k] = "removed"]
           /\ ceremony' = [ceremony EXCEPT ![b] = row]
  <2>1. PICK c \in SomeCredentials : c # k /\ credential[c] = a
    <3> HIDE DEF a, k
    <3> QED
      BY <1>0, <1>2, KeepsAnother
  <2>2. /\ r \in CeremonyRows /\ RowSound(r, credential, session, made)
        /\ credential \in [SomeCredentials -> Accounts \cup {"unknown", "removed"}]
        /\ ceremony \in [Browsers -> CeremonyRows] /\ session \in [1 .. MaxSessions -> SessionRows]
    BY DEF SessionsIInv, SessionTypes
  <2>3. /\ row \in CeremonyRows /\ row.stage = "purge" /\ row.kind = r.kind /\ row.from = r.from
        /\ row.key = k /\ row.user = a
    <3>1. row \in CeremonyRows
      BY <2>2 DEF CeremonyRows
    <3> QED
      BY <1>0, <2>2, <3>1 DEF CeremonyRows
  <2> HIDE DEF row, k, a
  <2>4. \A d \in SomeCredentials : credential'[d] = IF d = k THEN "removed" ELSE credential[d]
    BY <1>2, <2>2
  <2>5. SessionTypes'
    BY <1>0, <1>2, <2>2, <2>3, Names DEF SessionsIInv, SessionTypes
  <2>6. \A d \in SomeCredentials : CredentialSound(d)'
    BY <1>0, <2>4, Names DEF SessionsIInv, SessionTypes, CredentialSound
  <2>7. \A i \in 1 .. MaxSessions : SessionSound(i)'
    <3> SUFFICES ASSUME NEW i \in 1 .. MaxSessions PROVE SessionSound(i)'
      OBVIOUS
    <3>1. SessionSound(i)
      BY DEF SessionsIInv
    <3>2. session[i].user # "unknown" => \E d \in SomeCredentials : credential'[d] = session[i].user
      BY <1>2, <2>1, <2>4, <3>1 DEF SessionSound
    <3>3. session[i].by \in Passkeys => session[i].by \in SomeCredentials
      BY Names
    <3> QED
      BY <1>0, <2>4, <3>1, <3>2, <3>3, Names DEF SessionSound
  <2>8. \A d \in Passkeys : PurgeSound(d)'
    BY <1>0, <2>4, Names DEF SessionsIInv, PurgeSound
  <2>9. \A d \in Browsers : RowSound(ceremony'[d], credential', session', made')
    <3> SUFFICES ASSUME NEW d \in Browsers PROVE RowSound(ceremony'[d], credential', session, made)
      BY Zenon, <1>0
    <3>1. CASE d = b
      <4>1. SessionsIInv /\ ceremony'[d] = row
        BY <1>2, <2>2, <3>1
      <4>2. \A i \in 1 .. MaxSessions : session[i].by = k => session[i].user = a
        BY <1>0, <1>2 DEF SessionsIInv, SessionSound
      <4>3. credential'[k] = "removed"
        BY <1>0, <2>4, Names
      <4>4. RowSound(row, credential', session, made)
        BY <1>0, <2>2, <2>3, <4>2, <4>3 DEF RowSound
      <4> QED
        BY <4>1, <4>4
    <3>2. CASE d # b
      <4>1. ceremony'[d] = ceremony[d] /\ RowSound(ceremony[d], credential, session, made)
        BY <1>2, <2>2, <3>2 DEF SessionsIInv
      <4>2. \A e \in Passkeys : credential[e] = "removed" => credential'[e] = "removed"
        BY <2>4, Names
      <4> QED
        BY <4>1, <4>2 DEF RowSound
    <3> QED
      BY <3>1, <3>2
  <2> QED
    BY <2>5, <2>6, <2>7, <2>8, <2>9 DEF SessionsIInv
<1> QED
  BY <1>1, <1>2 DEF Sessions!Remove

LEMMA SessionsClose ==
    ASSUME SessionsIInv, NEW a \in Accounts, Sessions!CloseAccount(a) PROVE SessionsIInv'
<1>1. /\ UNCHANGED <<made, cookie, ceremony, purged>> /\ closed' = closed \cup {a}
      /\ credential' = [c \in SomeCredentials |-> IF credential[c] # a THEN credential[c]
                                                  ELSE IF c \in Passkeys THEN "removed" ELSE "unknown"]
      /\ session' = [i \in DOMAIN session |-> IF session[i].user = a THEN Sessions!NoSession ELSE session[i]]
  BY Zenon, Names DEF Sessions!CloseAccount
<1>2. /\ session \in [1 .. MaxSessions -> SessionRows]
      /\ credential \in [SomeCredentials -> Accounts \cup {"unknown", "removed"}]
  BY DEF SessionsIInv, SessionTypes
<1>3. \A i \in 1 .. MaxSessions :
         session'[i] = IF session[i].user = a THEN Sessions!NoSession ELSE session[i]
  BY <1>1, <1>2
<1>4. \A c \in SomeCredentials :
         credential'[c] = IF credential[c] # a THEN credential[c]
                          ELSE IF c \in Passkeys THEN "removed" ELSE "unknown"
  BY <1>1
<1>5. SessionTypes'
  <2>1. session' \in [1 .. MaxSessions -> SessionRows]
    BY <1>1, <1>2, RowsOfSessions
  <2>2. credential' \in [SomeCredentials -> Accounts \cup {"unknown", "removed"}]
    BY <1>1, <1>2
  <2> QED
    BY <1>1, <2>1, <2>2 DEF SessionTypes, SessionsIInv
<1>6. \A c \in SomeCredentials : CredentialSound(c)'
  BY <1>1, <1>4, Names DEF SessionsIInv, SessionTypes, CredentialSound
<1>7. \A i \in 1 .. MaxSessions : SessionSound(i)'
  <2> SUFFICES ASSUME NEW i \in 1 .. MaxSessions PROVE SessionSound(i)'
    OBVIOUS
  <2>1. SessionSound(i)
    BY DEF SessionsIInv
  <2>2. CASE session[i].user = a
    BY <1>3, <2>2, RowsOfSessions, Names DEF SessionSound
  <2>3. CASE session[i].user # a
    <3>1. session'[i] = session[i]
      BY <1>3, <2>3
    <3>2. session[i].user # "unknown" => \E c \in SomeCredentials : credential'[c] = session[i].user
      BY <1>4, <2>1, <2>3 DEF SessionSound
    <3>3. session[i].by \in Passkeys =>
             /\ credential'[session[i].by] # "unknown"
             /\ credential'[session[i].by] \in Accounts => session[i].user = credential'[session[i].by]
      BY <1>4, <2>1, Names DEF SessionSound
    <3>4. session[i].user # "unknown" => session[i].user \notin closed'
      BY <1>1, <2>1, <2>3 DEF SessionSound
    <3> QED
      BY <3>1, <3>2, <3>3, <3>4 DEF SessionSound
  <2> QED
    BY <2>2, <2>3
<1>8. \A k \in Passkeys : PurgeSound(k)'
  BY <1>1, <1>3, <1>4, RowsOfSessions, Names DEF SessionsIInv, PurgeSound
<1>9. \A d \in Browsers : RowSound(ceremony'[d], credential', session', made')
  <2> SUFFICES ASSUME NEW d \in Browsers PROVE RowSound(ceremony[d], credential', session', made)
    BY Zenon, <1>1
  <2>1. RowSound(ceremony[d], credential, session, made)
    BY DEF SessionsIInv
  <2>2. \A k \in Passkeys, i \in 1 .. MaxSessions :
           session'[i].by = k => session[i].by = k /\ session'[i].user = session[i].user
    BY <1>3, RowsOfSessions, Names
  <2>3. \A k \in Passkeys : credential[k] = "removed" => credential'[k] = "removed"
    BY <1>4, Names
  <2> QED
    BY <2>1, <2>2, <2>3 DEF RowSound
<1> QED
  BY <1>5, <1>6, <1>7, <1>8, <1>9 DEF SessionsIInv

LEMMA SessionsSteps ==
    ASSUME SessionsIInv, Sessions!Next PROVE SessionsIInv'
<1>1. ASSUME NEW b \in Browsers,
             \/ Sessions!Start(b) \/ Sessions!GiveUp(b) \/ \E c \in SomeCredentials : Sessions!Answer(b, c)
             \/ Sessions!SignIn(b) \/ Sessions!SignUp(b) \/ Sessions!Link(b) \/ Sessions!Register(b)
             \/ Sessions!Remove(b) \/ Sessions!Purge(b) \/ Sessions!DieBeforePurge(b)
             \/ Sessions!Logout(b) \/ Sessions!LogoutEverywhere(b)
      PROVE  SessionsIInv'
  <2>1. CASE Sessions!GiveUp(b) \/ Sessions!DieBeforePurge(b)
    BY <2>1, SessionsLeave DEF Sessions!GiveUp, Sessions!DieBeforePurge
  <2> QED
    BY Zenon, <1>1, <2>1, SessionsStart, SessionsAnswer, SessionsSignIn, SessionsSignUp, SessionsLink,
       SessionsRegister, SessionsRemove, SessionsPurge, SessionsLogout
<1>2. Sessions!Next =>
        \/ \E b \in Browsers :
             \/ Sessions!Start(b) \/ Sessions!GiveUp(b) \/ \E c \in SomeCredentials : Sessions!Answer(b, c)
             \/ Sessions!SignIn(b) \/ Sessions!SignUp(b) \/ Sessions!Link(b) \/ Sessions!Register(b)
             \/ Sessions!Remove(b) \/ Sessions!Purge(b) \/ Sessions!DieBeforePurge(b)
             \/ Sessions!Logout(b) \/ Sessions!LogoutEverywhere(b)
        \/ \E i \in 1 .. MaxSessions : Sessions!GrowsOld(i)
        \/ \E a \in Accounts : Sessions!CloseAccount(a)
  BY Zenon, Names DEF Sessions!Next
<1> QED
  BY Zenon, <1>1, <1>2, SessionsGrowOld, SessionsClose

\* A browser that holds another session got it from a statement that asked for
\* the one it began with.
LEMMA SignedOutSteps ==
    ASSUME SessionsIInv, Sessions!Next, NEW b \in Browsers,
           cookie'[b] # cookie[b], cookie'[b] # 0, ceremony[b].from # 0
    PROVE  Sessions!IsLive(ceremony[b].from, session'[cookie'[b]].user)
<1>1. /\ cookie \in [Browsers -> 0 .. made] /\ session \in [1 .. MaxSessions -> SessionRows]
      /\ made \in Nat
  BY Names DEF SessionsIInv, SessionTypes
<1>2. ASSUME NEW d \in Browsers, NEW a \in Accounts, NEW c \in SomeCredentials, NEW s \in BOOLEAN,
             Sessions!Mint(d, a, c, s), Sessions!Account(d) = a, Sessions!Began(d)
      PROVE  Sessions!IsLive(ceremony[b].from, session'[cookie'[b]].user)
  <2>1. d = b /\ cookie'[b] = made + 1 /\ made + 1 \in 1 .. MaxSessions
    BY <1>1, <1>2, Names DEF Sessions!Mint
  <2>2. session'[made + 1].user = a
    BY <1>1, <1>2, <2>1, RowsOfSessions DEF Sessions!Mint
  <2> QED
    BY <1>2, <2>1, <2>2 DEF Sessions!Began
<1>3. ASSUME NEW d \in Browsers, Sessions!SignIn(d)
      PROVE  Sessions!IsLive(ceremony[b].from, session'[cookie'[b]].user)
  <2> DEFINE a == Sessions!Account(d)
             c == Sessions!Key(d)
             s == ceremony[d].from # 0
  <2>1. a \in Accounts /\ c \in SomeCredentials /\ s \in BOOLEAN
    BY <1>3, CheckedAnswers DEF Sessions!SignIn, Sessions!Checked
  <2>2. Sessions!Mint(d, a, c, s) /\ Sessions!Began(d)
    BY <1>3 DEF Sessions!SignIn, Sessions!NoMint, Sessions!MaySignIn
  <2>3. Sessions!Account(d) = a
    OBVIOUS
  <2> HIDE DEF a, c, s
  <2> QED
    BY <1>2, <2>1, <2>2, <2>3
<1>4. ASSUME NEW d \in Browsers, Sessions!Register(d)
      PROVE  Sessions!IsLive(ceremony[b].from, session'[cookie'[b]].user)
  <2> DEFINE a == Sessions!Account(d)
             c == Sessions!Key(d)
  <2>1. a \in Accounts /\ c \in SomeCredentials /\ TRUE \in BOOLEAN
    BY <1>4, CheckedAnswers DEF Sessions!Register, Sessions!Checked
  <2>2. Sessions!Mint(d, a, c, TRUE) /\ Sessions!Began(d)
    BY <1>4 DEF Sessions!Register, Sessions!NoMint
  <2>3. Sessions!Account(d) = a
    OBVIOUS
  <2> HIDE DEF a, c
  <2> QED
    BY <1>2, <2>1, <2>2, <2>3
<1>5. ASSUME NEW d \in Browsers, Sessions!SignUp(d) PROVE FALSE
  <2>1. ceremony[d].from = 0
    BY <1>5, CheckedAnswers DEF Sessions!SignUp, Sessions!Checked
  <2>2. \A e \in Browsers : e # d => cookie'[e] = cookie[e]
    BY <1>1, <1>5 DEF Sessions!SignUp, Sessions!Mint
  <2> QED
    BY <2>1, <2>2
<1>6. ASSUME NEW d \in Browsers, Sessions!Logout(d) \/ Sessions!LogoutEverywhere(d) PROVE FALSE
  BY <1>1, <1>6 DEF Sessions!Logout, Sessions!LogoutEverywhere
<1>7. ASSUME UNCHANGED cookie PROVE FALSE
  BY <1>7
<1> QED
  BY <1>3, <1>4, <1>5, <1>6, <1>7 DEF Sessions!Next, Sessions!Start, Sessions!GiveUp, Sessions!Answer,
     Sessions!Link, Sessions!Remove, Sessions!Purge, Sessions!DieBeforePurge, Sessions!GrowsOld,
     Sessions!CloseAccount

LEMMA SessionsSafe ==
    ASSUME SessionsIInv
    PROVE  Sessions!TypeOK /\ Sessions!AlwaysAWayIn /\ Sessions!NoSessionOfARemovedPasskey
<1>1. DOMAIN session = 1 .. MaxSessions
  BY DEF SessionsIInv, SessionTypes
<1>2. Sessions!TypeOK
  <2>1. credential \in [Sessions!Credentials -> Accounts \cup {"unknown", "removed"}]
    BY Names DEF SessionsIInv, SessionTypes
  <2>2. \A i \in DOMAIN session : session[i].user \in Accounts \cup {"unknown"}
    BY <1>1 DEF SessionsIInv, SessionTypes, SessionRows
  <2>3. \A b \in Browsers : cookie[b] \in 0 .. made /\ ceremony[b].from \in 0 .. made
    <3> SUFFICES ASSUME NEW b \in Browsers PROVE cookie[b] \in 0 .. made /\ ceremony[b].from \in 0 .. made
      OBVIOUS
    <3>1. /\ cookie[b] \in 0 .. made /\ made \in Nat /\ ceremony[b] \in CeremonyRows
          /\ RowSound(ceremony[b], credential, session, made)
      BY Names DEF SessionsIInv, SessionTypes
    <3>2. ceremony[b].from \in Nat
      BY <3>1 DEF CeremonyRows
    <3> QED
      BY <3>1, <3>2 DEF RowSound
  <2> QED
    BY <2>1, <2>2, <2>3 DEF Sessions!TypeOK
<1>3. Sessions!AlwaysAWayIn
  BY <1>1, Names DEF Sessions!AlwaysAWayIn, Sessions!Owned, SessionsIInv, SessionSound
<1>4. Sessions!NoSessionOfARemovedPasskey
  BY <1>1 DEF Sessions!NoSessionOfARemovedPasskey, SessionsIInv, PurgeSound
<1> QED
  BY <1>2, <1>3, <1>4

-------------------------------------------------------------------------------
(* AuthenticationGate.                                                      *)

LineWindows == [of : Attempts \cup {0}, closed : BOOLEAN, overdue : BOOLEAN]
TabJourneys == [of : Attempts \cup {0}, committed : BOOLEAN]

GateTypes ==
    /\ open \in BOOLEAN /\ settled \in BOOLEAN
    /\ busy \in {"none", "passkey", "line"}
    /\ passkey \in Attempts \cup {0} /\ lineAttempt \in Attempts \cup {0}
    /\ recovery \in Attempts \cup {0}
    /\ popup \in LineWindows /\ tab \in TabJourneys

\* Beside what BlockedByItsAttempt says of an open dialog: one that is settled
\* is closed, and a closed one has no attempt.
GateIInv ==
    /\ GateTypes
    /\ Gate!BlockedByItsAttempt
    /\ settled => ~open
    /\ ~open => passkey = 0 /\ lineAttempt = 0

\* A fresh attempt has a number, and what a dialog without one looks like.
LEMMA GateValues ==
    /\ 0 \notin Attempts
    /\ Gate!NoPopup \in LineWindows /\ Gate!NoTab \in TabJourneys
    /\ \A i \in Attempts : [Gate!NoPopup EXCEPT !.of = i] \in LineWindows
    /\ \A i \in Attempts : [of |-> i, committed |-> FALSE] \in TabJourneys
  BY AccountsAssumption DEF Gate!NoPopup, Gate!NoTab, LineWindows, TabJourneys

LEMMA GateBegins ==
    ASSUME Gate!Init PROVE GateIInv
  BY GateValues DEF Gate!Init, GateIInv, GateTypes, Gate!BlockedByItsAttempt, Gate!NoPopup, Gate!NoTab

LEMMA GateRests ==
    ASSUME GateIInv, UNCHANGED gate PROVE GateIInv'
  BY DEF GateIInv, GateTypes, Gate!BlockedByItsAttempt, gate, Gate!NoPopup, Gate!NoTab

\* An attempt that ends takes the block with it.
LEMMA GateDrops ==
    ASSUME GateIInv, UNCHANGED <<open, settled>>,
           \/ open /\ lineAttempt # 0 /\ Gate!DropLine /\ busy' = "none" /\ UNCHANGED passkey
           \/ open /\ passkey # 0 /\ Gate!DropPasskey /\ busy' = "none" /\ Gate!LineAsIs
    PROVE  GateIInv'
  BY GateValues DEF GateIInv, GateTypes, Gate!BlockedByItsAttempt, Gate!DropLine, Gate!DropPasskey, Gate!LineAsIs,
     Gate!NoPopup, Gate!NoTab

LEMMA GateSettles ==
    ASSUME GateIInv, settled' \in BOOLEAN, open' = FALSE, Gate!DropLine, Gate!DropPasskey, UNCHANGED busy
    PROVE  GateIInv'
  BY GateValues DEF GateIInv, GateTypes, Gate!BlockedByItsAttempt, Gate!DropLine, Gate!DropPasskey,
     Gate!NoPopup, Gate!NoTab

GateState == <<open, settled, busy, passkey, lineAttempt, popup, tab, recovery>>

LEMMA GateStands ==
    ASSUME GateIInv, UNCHANGED GateState PROVE GateIInv'
  BY DEF GateIInv, GateTypes, Gate!BlockedByItsAttempt, GateState, Gate!NoPopup, Gate!NoTab

LEMMA GateAnswers ==
    ASSUME GateIInv, NEW a \in asking, NEW failed \in BOOLEAN, Gate!Answer(a, failed)
    PROVE  GateIInv'
<1>1. CASE ~open \/ ~Gate!Holds(a.guard)
  BY <1>1, GateStands DEF Gate!Answer, GateState
<1>2. CASE open /\ Gate!Holds(a.guard) /\ a.yes /\ ~failed
  BY <1>2, GateSettles DEF Gate!Answer, Gate!Settle
<1>3. CASE open /\ Gate!Holds(a.guard) /\ ~(a.yes /\ ~failed) /\ ~Gate!GivesUp(a.guard, failed)
  BY <1>3, GateStands DEF Gate!Answer, GateState
<1>4. CASE open /\ Gate!Holds(a.guard) /\ ~(a.yes /\ ~failed) /\ Gate!GivesUp(a.guard, failed)
  <2>1. a.guard.how \in {"poll", "return", "passkey"}
    BY <1>4 DEF Gate!GivesUp
  <2>2. a.guard.how = "passkey" => passkey # 0
    BY <1>4, <2>1 DEF Gate!Holds, Gate!IsPasskey, Gate!Any, Gate!Guard
  <2>3. a.guard.how # "passkey" => lineAttempt # 0
    BY <1>4, <2>1 DEF Gate!Holds, Gate!IsLine, Gate!Any, Gate!Guard
  <2>4. UNCHANGED <<open, settled>>
    BY <1>4 DEF Gate!Answer
  <2>5. CASE a.guard.how = "passkey"
    BY <1>4, <2>2, <2>4, <2>5, GateDrops DEF Gate!Answer
  <2>6. CASE a.guard.how # "passkey"
    BY <1>4, <2>3, <2>4, <2>6, GateDrops DEF Gate!Answer
  <2> QED
    BY <2>5, <2>6
<1> QED
  BY <1>1, <1>2, <1>3, <1>4

\* Only a dialog that blocks nothing begins an attempt.
LEMMA GateBeginsAttempt ==
    ASSUME GateIInv, NEW i \in Attempts, UNCHANGED <<open, settled>>,
           \/ Gate!Claim(i, "passkey") /\ passkey' = i /\ Gate!LineAsIs
           \/ /\ Gate!Claim(i, "line") /\ lineAttempt' = i /\ UNCHANGED passkey
              /\ popup' \in LineWindows /\ tab' \in TabJourneys /\ recovery' \in Attempts \cup {0}
    PROVE  GateIInv'
  BY GateValues DEF GateIInv, GateTypes, Gate!BlockedByItsAttempt, Gate!Claim, Gate!LineAsIs, Gate!NoPopup, Gate!NoTab

LEMMA GatePasskeySteps ==
    ASSUME GateIInv, NEW i \in Attempts,
           \/ Gate!BeginPasskey(i) \/ Gate!PasskeyGoesOn(i) \/ Gate!PasskeyFails(i)
           \/ Gate!PasskeyVerified(i)
    PROVE  GateIInv'
<1>1. CASE Gate!BeginPasskey(i)
  BY <1>1, GateBeginsAttempt DEF Gate!BeginPasskey
<1>2. CASE Gate!PasskeyGoesOn(i)
  BY <1>2, GateStands DEF Gate!PasskeyGoesOn, GateState
<1>3. CASE Gate!PasskeyFails(i)
  <2>1. CASE Gate!IsPasskey(i)
    BY <1>3, <2>1, GateDrops DEF Gate!PasskeyFails, Gate!IsPasskey
  <2>2. CASE ~Gate!IsPasskey(i)
    BY <1>3, <2>2, GateStands DEF Gate!PasskeyFails, Gate!LineAsIs, GateState
  <2> QED
    BY <2>1, <2>2
<1>4. CASE Gate!PasskeyVerified(i)
  BY <1>4, GateStands DEF Gate!PasskeyVerified, GateState
<1> QED
  BY <1>1, <1>2, <1>3, <1>4

LEMMA GateWindowSteps ==
    ASSUME GateIInv, NEW i \in Attempts,
           \/ Gate!BeginPopup(i) \/ Gate!PopupBlocked(i) \/ \E ok \in BOOLEAN : Gate!PopupPrepared(i, ok)
           \/ Gate!PopupCannotMove(i) \/ Gate!LineSays(i) \/ Gate!HandleResult(i)
    PROVE  GateIInv'
<1>1. CASE Gate!BeginPopup(i)
  BY <1>1, GateBeginsAttempt, GateValues DEF Gate!BeginPopup
<1>2. CASE Gate!PopupBlocked(i)
  BY <1>2, GateValues DEF Gate!PopupBlocked, Gate!DropLine, GateIInv, GateTypes, Gate!BlockedByItsAttempt
<1>3. ASSUME NEW ok \in BOOLEAN, Gate!PopupPrepared(i, ok) PROVE GateIInv'
  <2>1. CASE Gate!IsLine(i) /\ ~(ok /\ ~popup.closed)
    BY <1>3, <2>1, GateDrops DEF Gate!PopupPrepared, Gate!IsLine
  <2>2. CASE ~Gate!IsLine(i) \/ (ok /\ ~popup.closed)
    BY <1>3, <2>2, GateStands DEF Gate!PopupPrepared, Gate!LineAsIs, GateState
  <2> QED
    BY <2>1, <2>2
<1>4. CASE Gate!PopupCannotMove(i)
  BY <1>4, GateValues DEF Gate!PopupCannotMove, Gate!IsLine, GateIInv, GateTypes, Gate!BlockedByItsAttempt
<1>5. CASE Gate!LineSays(i)
  BY <1>5, GateStands DEF Gate!LineSays, GateState
<1>6. CASE Gate!HandleResult(i)
  <2>1. CASE Gate!OfThisFlow(i) /\ Gate!IsLine(lineAttempt) /\ said[i] # "succeeded"
    BY <1>6, <2>1, GateDrops DEF Gate!HandleResult, Gate!IsLine
  <2>2. CASE ~(Gate!OfThisFlow(i) /\ Gate!IsLine(lineAttempt)) \/ said[i] = "succeeded"
    BY <1>6, <2>2, GateStands DEF Gate!HandleResult, Gate!LineAsIs, GateState
  <2> QED
    BY <2>1, <2>2
<1> QED
  BY <1>1, <1>2, <1>3, <1>4, <1>5, <1>6

\* The window there is belongs to the attempt there is.
LEMMA GateWaits ==
    ASSUME GateIInv, Gate!CloseWindow \/ Gate!Overdue \/ Gate!Poll \/ Gate!StopWaiting
    PROVE  GateIInv'
<1>1. CASE Gate!CloseWindow \/ Gate!Overdue
  <2>1. lineAttempt # 0
    BY <1>1 DEF Gate!CloseWindow, Gate!Overdue, GateIInv, Gate!BlockedByItsAttempt, Gate!NoPopup
  <2>2. popup' \in LineWindows
    BY <1>1 DEF Gate!CloseWindow, Gate!Overdue, GateIInv, GateTypes, LineWindows
  <2> QED
    BY <1>1, <2>1, <2>2 DEF Gate!CloseWindow, Gate!Overdue, GateIInv, GateTypes, Gate!BlockedByItsAttempt
<1>2. CASE Gate!Poll
  BY <1>2, GateStands DEF Gate!Poll, GateState
<1>3. CASE Gate!StopWaiting
  BY <1>3, GateDrops DEF Gate!StopWaiting, Gate!Polling, Gate!IsLine
<1> QED
  BY <1>1, <1>2, <1>3

LEMMA GateTabSteps ==
    ASSUME GateIInv, NEW i \in Attempts,
           \/ Gate!BeginTab(i) \/ \E ok \in BOOLEAN : Gate!TabPrepared(i, ok)
           \/ Gate!Leave(i)
    PROVE  GateIInv'
<1>1. CASE Gate!BeginTab(i)
  BY <1>1, GateBeginsAttempt, GateValues DEF Gate!BeginTab
<1>2. ASSUME NEW ok \in BOOLEAN, Gate!TabPrepared(i, ok) PROVE GateIInv'
  <2>1. CASE Gate!IsLine(i) /\ ~ok
    BY <1>2, <2>1, GateDrops DEF Gate!TabPrepared, Gate!IsLine
  <2>2. CASE ~Gate!IsLine(i) \/ ok
    BY <1>2, <2>2, GateStands DEF Gate!TabPrepared, Gate!LineAsIs, GateState
  <2> QED
    BY <2>1, <2>2
<1>3. CASE Gate!Leave(i)
  <2>1. [tab EXCEPT !.committed = TRUE] \in TabJourneys
    BY DEF GateIInv, GateTypes, TabJourneys
  <2>2. Gate!Pending(tab.of) => lineAttempt # 0
    BY DEF Gate!Pending, Gate!IsLine
  <2>3. tab' \in TabJourneys /\ recovery' \in Attempts \cup {0}
    BY <1>3, <2>1 DEF Gate!Leave, GateIInv, GateTypes
  <2>4. lineAttempt = 0 => UNCHANGED <<tab, recovery>>
    BY <1>3, <2>2 DEF Gate!Leave
  <2>5. UNCHANGED <<open, settled, lineAttempt, popup>>
    BY <1>3 DEF Gate!Leave
  <2>6. passkey' = 0 /\ busy' = IF passkey # 0 THEN "none" ELSE busy
    BY <1>3 DEF Gate!Leave, Gate!DropPasskey
  <2> QED
    BY <2>3, <2>4, <2>5, <2>6 DEF GateIInv, GateTypes, Gate!BlockedByItsAttempt
<1> QED
  BY <1>1, <1>2, <1>3

LEMMA GateComesBack ==
    ASSUME GateIInv, Gate!Recover \/ Gate!Return
    PROVE  GateIInv'
<1>1. CASE Gate!Recover
  <2>1. CASE Gate!Pending(recovery)
    BY <1>1, <2>1, GateDrops DEF Gate!Recover, Gate!Pending, Gate!IsLine
  <2>2. CASE ~Gate!Pending(recovery)
    BY <1>1, <2>2 DEF Gate!Recover, GateIInv, GateTypes, Gate!BlockedByItsAttempt
  <2> QED
    BY <2>1, <2>2
<1>2. CASE Gate!Return
  <2>1. CASE tab.committed /\ Gate!IsLine(tab.of)
    BY <1>2, <2>1, GateValues DEF Gate!Return, Gate!IsLine, GateIInv, GateTypes, Gate!BlockedByItsAttempt
  <2>2. CASE ~(tab.committed /\ Gate!IsLine(tab.of))
    BY <1>2, <2>2, GateStands DEF Gate!Return, GateState
  <2> QED
    BY <2>1, <2>2
<1> QED
  BY <1>1, <1>2

LEMMA GateSteps ==
    ASSUME GateIInv, Gate!Next
    PROVE  GateIInv'
<1>1. CASE Gate!Answers
  BY <1>1, GateAnswers DEF Gate!Answers
<1>2. CASE Gate!StopPasskey
  BY <1>2, GateDrops DEF Gate!StopPasskey
<1>3. CASE Gate!CloseWindow \/ Gate!Overdue \/ Gate!Poll \/ Gate!StopWaiting
  BY <1>3, GateWaits
<1>4. CASE Gate!Recover \/ Gate!Return
  BY <1>4, GateComesBack
<1>5. ASSUME NEW i \in Attempts, Gate!Continues(i) PROVE GateIInv'
  BY <1>5, GatePasskeySteps, GateWindowSteps, GateTabSteps DEF Gate!Continues
<1>6. ASSUME NEW i \in Attempts,
             \/ Gate!BeginPasskey(i) \/ Gate!BeginPopup(i) \/ Gate!PopupBlocked(i) \/ Gate!BeginTab(i)
             \/ Gate!PopupCannotMove(i) \/ Gate!LineSays(i) \/ Gate!HandleResult(i) \/ Gate!Leave(i)
      PROVE  GateIInv'
  BY <1>6, GatePasskeySteps, GateWindowSteps, GateTabSteps
<1>7. CASE Gate!Focus
  BY <1>7, GateStands DEF Gate!Focus, GateState
<1>8. CASE Gate!Close
  BY <1>8, GateSettles DEF Gate!Close, GateIInv, GateTypes
<1>9. CASE Gate!Reopen
  BY <1>9, GateValues DEF Gate!Reopen, Gate!DropLine, Gate!DropPasskey, GateIInv, GateTypes,
     Gate!BlockedByItsAttempt
<1> QED
  BY <1>1, <1>2, <1>3, <1>4, <1>5, <1>6, <1>7, <1>8, <1>9 DEF Gate!Next

-------------------------------------------------------------------------------
(* Together.                                                                *)

LEMMA OperatorsSafe ==
    ASSUME OperatorIInv PROVE TypeOK /\ OperatorsAreFew
  BY LenProperties DEF OperatorIInv, OperatorTypes, TypeOK, OperatorsAreFew

LEMMA GateSafe ==
    ASSUME GateIInv PROVE Gate!TypeOK /\ Gate!BlockedByItsAttempt
  BY DEF GateIInv, GateTypes, LineWindows, Gate!TypeOK

AccountsIInv == OperatorIInv /\ DeletionIInv /\ TrialIInv /\ SessionsIInv /\ GateIInv

LEMMA AccountsBegin ==
    ASSUME AccountsInit PROVE AccountsIInv
  BY OperatorsBegin, DeletionBegins, TrialBegins, SessionsBegin, GateBegins DEF AccountsInit, AccountsIInv

LEMMA AccountsSteps ==
    ASSUME AccountsIInv, [AccountsNext]_allvars PROVE AccountsIInv'
<1>0. OperatorIInv /\ DeletionIInv /\ TrialIInv /\ SessionsIInv /\ GateIInv
  BY DEF AccountsIInv
<1>1. OperatorIInv'
  <2>1. Next \/ UNCHANGED ovars
    BY DEF AccountsNext, allvars, Only, others
  <2> QED
    BY <1>0, <2>1, OperatorSteps, OperatorsRest
<1>2. DeletionIInv'
  <2>1. Deletion!Next \/ UNCHANGED deletion
    BY DEF AccountsNext, allvars, Only, others
  <2> QED
    BY <1>0, <2>1, DeletionSteps, DeletionRests
<1>3. TrialIInv'
  <2>1. Trial!Next \/ UNCHANGED trial
    BY DEF AccountsNext, allvars, Only, others
  <2> QED
    BY <1>0, <2>1, TrialSteps, TrialRests
<1>4. SessionsIInv'
  <2>1. Sessions!Next \/ UNCHANGED sessions
    BY DEF AccountsNext, allvars, Only, others
  <2> QED
    BY <1>0, <2>1, SessionsSteps, SessionsRest
<1>5. GateIInv'
  <2>1. Gate!Next \/ UNCHANGED gate
    BY DEF AccountsNext, allvars, Only, others
  <2> QED
    BY <1>0, <2>1, GateSteps, GateRests
<1> QED
  BY <1>1, <1>2, <1>3, <1>4, <1>5 DEF AccountsIInv

\* What every reachable state of every component satisfies, and what all that
\* follows rests on.
THEOREM AccountsInvariant == AccountsSpec => []AccountsIInv
<1>1. AccountsInit => AccountsIInv
  BY AccountsBegin
<1>2. AccountsIInv /\ [AccountsNext]_allvars => AccountsIInv'
  BY AccountsSteps
<1> QED
  BY <1>1, <1>2, PTL DEF AccountsSpec

\* Tables, cookies and attempts keep their types in every component.
THEOREM AccountsTypes == AccountsSpec => []AccountsTypeOK
<1>1. AccountsIInv => AccountsTypeOK
  BY OperatorsSafe, DeletionSafe, OneTrial, SessionsSafe, GateSafe DEF AccountsIInv, AccountsTypeOK
<1> QED
  BY <1>1, AccountsInvariant, PTL

\* An executor that dies, fails or is overtaken never leaves bytes of a deleted
\* account without their row, save of an upload begun after the list; however
\* many devices and sign-ins race, a member and his device hold one trial, and
\* what a bound trial made is his.
THEOREM NothingIsLeft == AccountsSpec => []NothingLeftBehind
<1>1. AccountsIInv => NothingLeftBehind
  BY DeletionSafe, OneTrial DEF AccountsIInv, NothingLeftBehind
<1> QED
  BY <1>1, AccountsInvariant, PTL

\* Removals, registrations and closures in any number of browsers leave an open
\* account a way in and a removed passkey none; any number of terminals at once
\* stay within the cap of devices and of compared codes.
THEOREM WaysInHold == AccountsSpec => []WaysIn
<1>1. AccountsIInv => WaysIn
  BY OperatorsSafe, SessionsSafe DEF AccountsIInv, WaysIn
<1> QED
  BY <1>1, AccountsInvariant, PTL

\* Answers of older attempts, windows closed late and other tabs never leave the
\* dialog blocked without an attempt, or an attempt without its block.
THEOREM GateBlocksForItsAttempt == AccountsSpec => []BlockedByItsAttempt
<1>1. AccountsIInv => BlockedByItsAttempt
  BY GateSafe DEF AccountsIInv, BlockedByItsAttempt
<1> QED
  BY <1>1, AccountsInvariant, PTL

\* No step deletes an account whose request was cancelled or given back, or to
\* which Stripe still owes a contract; and none brings a browser back in whose
\* session was signed out between the answer and the statement.
THEOREM GroundsAreFresh == AccountsSpec => NothingOnStaleGrounds
<1> DEFINE Settles == \A u \in Users :
                         account[u] = "live" /\ account'[u] = "deleted" =>
                            request[u].status = "processing" /\ contract[u] \notin {"live", "checkout"}
           StaysOut == \A b \in Browsers :
                          cookie'[b] # cookie[b] /\ cookie'[b] # 0 /\ ceremony[b].from # 0 =>
                             Sessions!IsLive(ceremony[b].from, session'[cookie'[b]].user)
<1>1. AccountsIInv /\ [AccountsNext]_allvars => [Settles]_(Deletion!dvars)
  <2> SUFFICES ASSUME AccountsIInv, [AccountsNext]_allvars, ~UNCHANGED deletion PROVE Settles
    BY DEF Deletion!dvars, deletion
  <2>1. Deletion!Next
    BY DEF AccountsNext, allvars, Only, others
  <2> QED
    BY <2>1, SettledWhenDeleted DEF AccountsIInv
<1>2. AccountsIInv /\ [AccountsNext]_allvars => [StaysOut]_(Sessions!avars)
  <2> SUFFICES ASSUME AccountsIInv, [AccountsNext]_allvars, ~UNCHANGED sessions PROVE StaysOut
    BY DEF Sessions!avars, sessions
  <2>1. Sessions!Next
    BY DEF AccountsNext, allvars, Only, others
  <2> QED
    BY <2>1, SignedOutSteps DEF AccountsIInv
<1> QED
  BY <1>1, <1>2, AccountsInvariant, PTL
     DEF AccountsSpec, NothingOnStaleGrounds, Deletion!DeletedOnlyWhenSettled, Sessions!SignedOutStaysOut
===============================================================================
