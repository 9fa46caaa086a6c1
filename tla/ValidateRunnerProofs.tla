------------------------ MODULE ValidateRunnerProofs ------------------------
(***************************************************************************)
(* Proofs about ValidateRunner, for every chain, every set of read-only    *)
(* gates, every assignment of resources and every size of the pool.        *)
(***************************************************************************)
EXTENDS ValidateRunner, ListingProofs

-----------------------------------------------------------------------------
(***************************************************************************)
(* The invariant.  A child that has started and has not been settled       *)
(* either belongs to the batch, or is the one child spawnSync waits for.   *)
(***************************************************************************)
Begun(k) == child[k] \in {"running", "exited"}

Shape ==
  /\ child \in [DOMAIN steps -> {"waiting", "running", "exited", "settled"}]
  /\ batch \subseteq DOMAIN steps
  /\ IsFiniteSet(Active)

\* A batch holds read-only steps only.
BatchSafe == \A k \in batch : Safe(k)

\* Outside a batch one child at most has begun: the step the walk is at,
\* which is not one a batch could begin with.
OneAtATime ==
  \A k \in DOMAIN steps : Begun(k) => k \in batch \/ (batch = {} /\ k = at /\ ~Pooled)

\* busy holds the keys of the steps of the batch that have begun.
BusyIsHeld == busy = UNION {Keys(k) : k \in Active}
HeldOnce   == \A j, k \in Active : j # k => Keys(j) \cap Keys(k) = {}
HasRoom    == Cardinality(Active) <= PoolSize

IInv == Shape /\ BatchSafe /\ OneAtATime /\ BusyIsHeld /\ HeldOnce /\ HasRoom

-----------------------------------------------------------------------------
(* A step has one key at most.                                             *)
LEMMA OneKey == \A k : Keys(k) = {} \/ \E r : Keys(k) = {r}
BY DEF Keys

(* Nothing the invariant speaks of moves when these stay.                  *)
LEMMA Unmoved ==
  ASSUME IInv, UNCHANGED <<steps, reportAll, at, batch, child, busy>>
  PROVE  IInv'
<1>1. Active' = Active /\ Pooled' = Pooled /\ \A k : Keys(k)' = Keys(k) /\ Safe(k)' = Safe(k)
  BY DEF Active, Pooled, BatchAt, Keys, Safe
<1>2. Shape' /\ BatchSafe' /\ BusyIsHeld' /\ HeldOnce' /\ HasRoom'
  BY <1>1 DEF IInv, Shape, BatchSafe, BusyIsHeld, HeldOnce, HasRoom
<1>3. OneAtATime'
  BY <1>1 DEF IInv, OneAtATime, Begun
<1>4. QED
  BY <1>2, <1>3 DEF IInv

(* Outside a batch no step of a batch has begun, and no key is held.       *)
LEMMA Idle ==
  ASSUME BusyIsHeld, Active = {}
  PROVE  busy = {}
BY DEF BusyIsHeld

(* After a step that leaves nothing of a batch begun, the invariant is the *)
(* safety of the batch and the step the walk is at.                        *)
LEMMA Calm ==
  ASSUME Active' = {}, busy' = {}, BatchSafe', OneAtATime', batch' \subseteq DOMAIN steps',
         child' \in [DOMAIN steps' -> {"waiting", "running", "exited", "settled"}]
  PROVE  IInv'
<1>1. IsFiniteSet(Active') /\ Cardinality(Active') = 0
  BY FS_EmptySet
<1>2. HasRoom'
  BY <1>1, RunnerAssumption DEF HasRoom
<1>3. BusyIsHeld' /\ HeldOnce'
  BY DEF BusyIsHeld, HeldOnce
<1>4. QED
  BY <1>1, <1>2, <1>3 DEF IInv, Shape

(* The program starts with no child begun.                                 *)
LEMMA InitIInv == Init => IInv
<1> SUFFICES ASSUME Init PROVE IInv
  OBVIOUS
<1>1. batch = {} /\ busy = {} /\ child = [k \in DOMAIN steps |-> "waiting"]
  BY DEF Init
<1>2. Active = {} /\ BatchSafe /\ OneAtATime
  BY <1>1 DEF Active, BatchSafe, OneAtATime, Begun
<1>3. IsFiniteSet(Active) /\ Cardinality(Active) = 0
  BY <1>2, FS_EmptySet
<1>4. Shape /\ HasRoom
  BY <1>1, <1>3, RunnerAssumption DEF Shape, HasRoom
<1>5. BusyIsHeld /\ HeldOnce
  BY <1>1, <1>2 DEF BusyIsHeld, HeldOnce
<1>6. QED
  BY <1>2, <1>4, <1>5 DEF IInv

(* A child exits: who has begun stays the same.                            *)
LEMMA ChildExitsIInv ==
  ASSUME IInv, NEW k \in DOMAIN steps, ChildExits(k)
  PROVE  IInv'
<1>1. /\ child[k] = "running" /\ child' = [child EXCEPT ![k] = "exited"]
      /\ UNCHANGED <<steps, reportAll, at, batch, busy>>
  BY DEF ChildExits, flags
<1>2. Shape
  BY DEF IInv
<1>3. child' \in [DOMAIN steps -> {"waiting", "running", "exited", "settled"}]
  BY <1>1, <1>2 DEF Shape
<1>4. \A j \in DOMAIN steps : Begun(j)' <=> Begun(j)
  BY <1>1, <1>2 DEF Shape, Begun
<1>5. Active' = Active
  BY <1>1, <1>2, <1>4 DEF Shape, Active, Begun
<1>6. Pooled' = Pooled /\ \A j : Keys(j)' = Keys(j) /\ Safe(j)' = Safe(j)
  BY <1>1 DEF Pooled, BatchAt, Keys, Safe
<1>7. Shape'
  BY <1>1, <1>2, <1>3, <1>5 DEF Shape
<1>8. BatchSafe' /\ BusyIsHeld' /\ HeldOnce' /\ HasRoom'
  BY <1>1, <1>5, <1>6 DEF IInv, BatchSafe, BusyIsHeld, HeldOnce, HasRoom
<1>9. OneAtATime'
  BY <1>1, <1>4, <1>6 DEF IInv, OneAtATime
<1>10. QED
  BY <1>7, <1>8, <1>9 DEF IInv

(* runSerial starts and ends a child: there is no batch.                   *)
LEMMA SerialIInv ==
  ASSUME IInv, SpawnSync \/ SpawnSyncReturns
  PROVE  IInv'
<1>1. batch = {} /\ batch' = {} /\ UNCHANGED <<steps, reportAll, busy>>
  BY DEF SpawnSync, SpawnSyncReturns, Walking, flags
<1>2. Active = {} /\ Active' = {}
  BY <1>1 DEF Active
<1>3. busy' = {}
  BY <1>1, <1>2, Idle DEF IInv
<1>4. child' \in [DOMAIN steps' -> {"waiting", "running", "exited", "settled"}]
  BY <1>1 DEF IInv, Shape, SpawnSync, SpawnSyncReturns
<1>5. OneAtATime'
  <2>1. \A k \in DOMAIN steps : Begun(k) => k = at
    BY <1>1 DEF IInv, OneAtATime
  <2>2. CASE SpawnSync
    <3>1. child' = [child EXCEPT ![at] = "running"] /\ at' = at /\ ~Pooled
      BY <2>2 DEF SpawnSync
    <3>2. Pooled' = Pooled
      BY <1>1, <3>1 DEF Pooled, BatchAt, Safe
    <3>3. \A k \in DOMAIN steps : Begun(k)' => k = at
      BY <2>1, <3>1 DEF IInv, Shape, Begun
    <3>4. QED
      BY <1>1, <3>1, <3>2, <3>3 DEF OneAtATime
  <2>3. CASE SpawnSyncReturns
    <3>1. child' = [child EXCEPT ![at] = "settled"]
      BY <2>3 DEF SpawnSyncReturns
    <3>2. \A k \in DOMAIN steps : ~Begun(k)'
      BY <2>1, <3>1 DEF IInv, Shape, Begun
    <3>3. QED
      BY <1>1, <3>2 DEF OneAtATime
  <2>4. QED
    BY <2>2, <2>3
<1>6. BatchSafe' /\ batch' \subseteq DOMAIN steps'
  BY <1>1 DEF BatchSafe
<1>7. QED
  BY <1>2, <1>3, <1>4, <1>5, <1>6, Calm

(* A batch begins when no child has begun, and with read-only steps only.  *)
LEMMA StartBatchIInv ==
  ASSUME IInv, StartBatch
  PROVE  IInv'
<1>1. /\ batch = {} /\ Pooled /\ batch' = BatchAt(at)
      /\ UNCHANGED <<steps, reportAll, child, busy>>
  BY DEF StartBatch, Walking, flags
<1>2. \A k \in DOMAIN steps : ~Begun(k)
  BY <1>1 DEF IInv, OneAtATime
<1>3. batch' \subseteq DOMAIN steps' /\ BatchSafe'
  BY <1>1 DEF BatchAt, BatchSafe, Safe
<1>4. Active' = {} /\ OneAtATime'
  BY <1>1, <1>2, <1>3 DEF Active, OneAtATime, Begun
<1>5. busy' = {}
  <2>1. Active = {}
    BY <1>1 DEF Active
  <2>2. QED
    BY <1>1, <2>1, Idle DEF IInv
<1>6. child' \in [DOMAIN steps' -> {"waiting", "running", "exited", "settled"}]
  BY <1>1 DEF IInv, Shape
<1>7. QED
  BY <1>3, <1>4, <1>5, <1>6, Calm

(* A batch ends when none of its steps is still begun.                     *)
LEMMA FlushIInv ==
  ASSUME IInv, Flush
  PROVE  IInv'
<1>1. /\ batch # {} /\ Active = {} /\ batch' = {}
      /\ UNCHANGED <<steps, reportAll, at, child, busy>>
  BY DEF Flush, BatchDone, flags
<1>2. \A k \in DOMAIN steps : ~Begun(k)
  BY <1>1 DEF IInv, OneAtATime, Active, Begun
<1>3. Active' = {} /\ BatchSafe' /\ OneAtATime' /\ batch' \subseteq DOMAIN steps'
  BY <1>1, <1>2 DEF Active, BatchSafe, OneAtATime, Begun
<1>4. busy' = {}
  BY <1>1, Idle DEF IInv
<1>5. child' \in [DOMAIN steps' -> {"waiting", "running", "exited", "settled"}]
  BY <1>1 DEF IInv, Shape
<1>6. QED
  BY <1>3, <1>4, <1>5, Calm

(* pump starts a step none of whose keys is held, while there is room.     *)
LEMMA LaunchIInv ==
  ASSUME IInv, NEW k \in batch, Launch(k)
  PROVE  IInv'
<1>1. /\ child[k] = "waiting" /\ Keys(k) \cap busy = {} /\ Room
      /\ child' = [child EXCEPT ![k] = "running"] /\ busy' = busy \cup Keys(k)
      /\ UNCHANGED <<steps, reportAll, at, batch>>
  BY DEF Launch, Launchable, flags
<1>2. Shape /\ k \in DOMAIN steps
  BY DEF IInv, Shape
<1>3. Pooled' = Pooled /\ \A j : Keys(j)' = Keys(j) /\ Safe(j)' = Safe(j)
  BY <1>1 DEF Pooled, BatchAt, Keys, Safe
<1>4. Active' = Active \cup {k} /\ k \notin Active
  BY <1>1, <1>2 DEF Shape, Active
<1>5. Shape'
  BY <1>1, <1>2, <1>4, FS_AddElement DEF Shape
<1>6. BatchSafe'
  BY <1>1, <1>3 DEF IInv, BatchSafe
<1>7. OneAtATime'
  BY <1>1, <1>2, <1>3 DEF IInv, OneAtATime, Shape, Begun
<1>8. BusyIsHeld'
  BY <1>1, <1>3, <1>4 DEF IInv, BusyIsHeld
<1>9. HeldOnce'
  <2>1. \A j \in Active : Keys(j) \cap Keys(k) = {}
    BY <1>1 DEF IInv, BusyIsHeld
  <2>2. QED
    BY <2>1, <1>3, <1>4 DEF IInv, HeldOnce
<1>10. HasRoom'
  <2>1. Cardinality(Active) \in Nat /\ Cardinality(Active') = Cardinality(Active) + 1
    BY <1>2, <1>4, FS_CardinalityType, FS_AddElement DEF Shape
  <2>2. QED
    BY <2>1, <1>1, RunnerAssumption DEF Room, HasRoom
<1>11. QED
  BY <1>5, <1>6, <1>7, <1>8, <1>9, <1>10 DEF IInv

(* The callback of a child gives back its key, and no other step's.        *)
LEMMA SettleIInv ==
  ASSUME IInv, NEW k \in batch, Settle(k)
  PROVE  IInv'
<1>1. /\ child[k] = "exited" /\ child' = [child EXCEPT ![k] = "settled"]
      /\ busy' = busy \ Keys(k) /\ UNCHANGED <<steps, reportAll, at, batch>>
  BY DEF Settle, flags
<1>2. Shape /\ k \in DOMAIN steps
  BY DEF IInv, Shape
<1>3. Pooled' = Pooled /\ \A j : Keys(j)' = Keys(j) /\ Safe(j)' = Safe(j)
  BY <1>1 DEF Pooled, BatchAt, Keys, Safe
<1>4. Active' = Active \ {k} /\ k \in Active
  BY <1>1, <1>2 DEF Shape, Active
<1>5. Shape'
  BY <1>1, <1>2, <1>4, FS_RemoveElement DEF Shape
<1>6. BatchSafe'
  BY <1>1, <1>3 DEF IInv, BatchSafe
<1>7. OneAtATime'
  BY <1>1, <1>2, <1>3 DEF IInv, OneAtATime, Shape, Begun
<1>8. BusyIsHeld'
  BY <1>1, <1>3, <1>4 DEF IInv, BusyIsHeld, HeldOnce
<1>9. HeldOnce'
  BY <1>3, <1>4 DEF IInv, HeldOnce
<1>10. HasRoom'
  <2>1. Cardinality(Active) \in Nat /\ Cardinality(Active') = Cardinality(Active) - 1
    BY <1>2, <1>4, FS_CardinalityType, FS_RemoveElement DEF Shape
  <2>2. QED
    BY <2>1, RunnerAssumption DEF IInv, HasRoom
<1>11. QED
  BY <1>5, <1>6, <1>7, <1>8, <1>9, <1>10 DEF IInv

(* Every step preserves the invariant.                                     *)
LEMMA NextIInv == IInv /\ [Next]_vars => IInv'
<1> SUFFICES ASSUME IInv, [Next]_vars PROVE IInv'
  OBVIOUS
<1>1. CASE Children
  BY <1>1, ChildExitsIInv DEF Children
<1>2. CASE SpawnSync \/ SpawnSyncReturns
  BY <1>2, SerialIInv
<1>3. CASE StartBatch
  BY <1>3, StartBatchIInv
<1>4. CASE PumpReturns \/ Exit \/ Exited \/ UNCHANGED vars
  <2>1. UNCHANGED <<steps, reportAll, at, batch, child, busy>>
    BY <1>4 DEF PumpReturns, Exit, Exited, vars, flags
  <2>2. QED
    BY <2>1, Unmoved
<1>5. CASE Flush
  BY <1>5, FlushIInv
<1>6. CASE \E k \in batch : Launch(k) \/ Settle(k)
  BY <1>6, LaunchIInv, SettleIInv
<1>7. QED
  BY <1>1, <1>2, <1>3, <1>4, <1>5, <1>6 DEF Next, Runner

(* The runner keeps the invariant.                                         *)
THEOREM RunnerInvariant == Spec => []IInv
BY InitIInv, NextIInv, PTL DEF Spec

-----------------------------------------------------------------------------
(* validate.mjs:44-46: gates that share a resource never run together,     *)
(* whatever order children exit in and however large the pool is.          *)
THEOREM ResourceMutexHolds == Spec => []ResourceMutex
<1>1. IInv => ResourceMutex
  BY DEF IInv, OneAtATime, Begun, HeldOnce, Active, ResourceMutex, Running
<1>2. QED
  BY <1>1, RunnerInvariant, PTL

(* validate.mjs:23-28: a step that is not PARALLEL_SAFE runs alone.        *)
THEOREM ExclusiveRunsAloneHolds == Spec => []ExclusiveRunsAlone
<1>1. IInv => ExclusiveRunsAlone
  BY DEF IInv, OneAtATime, Begun, BatchSafe, ExclusiveRunsAlone, Running
<1>2. QED
  BY <1>1, RunnerInvariant, PTL

(* validate.mjs:52-64: no more children at once than the pool's size.      *)
THEOREM PoolBoundHolds == Spec => []PoolBound
<1>1. ASSUME IInv PROVE PoolBound
  <2>1. CASE batch = {}
    <3>1. Running \subseteq {at}
      BY <1>1, <2>1 DEF IInv, OneAtATime, Begun, Running
    <3>2. IsFiniteSet({at}) /\ Cardinality({at}) = 1
      BY FS_Singleton
    <3>3. Cardinality(Running) <= 1 /\ Cardinality(Running) \in Nat
      BY <3>1, <3>2, FS_Subset, FS_CardinalityType
    <3>4. QED
      BY <3>3, RunnerAssumption DEF PoolBound
  <2>2. CASE batch # {}
    <3>1. Running \subseteq Active /\ IsFiniteSet(Active)
      BY <1>1, <2>2 DEF IInv, Shape, OneAtATime, Begun, Running, Active
    <3>2. /\ Cardinality(Running) <= Cardinality(Active)
          /\ Cardinality(Running) \in Nat /\ Cardinality(Active) \in Nat
      BY <3>1, FS_Subset, FS_CardinalityType
    <3>3. QED
      BY <1>1, <3>2, RunnerAssumption DEF IInv, HasRoom, PoolBound
  <2>3. QED
    BY <2>1, <2>2
<1>2. QED
  BY <1>1, RunnerInvariant, PTL

-----------------------------------------------------------------------------
(***************************************************************************)
(* The account of the walk.  The steps before `at' are those results tells *)
(* of and, behind them, the batch; or the default chain has met a red step *)
(* and there is nothing more to come.                                      *)
(***************************************************************************)
Verdicts == [step : Nat, ok : BOOLEAN]

Kinds ==
  /\ steps \in Seq(Step) /\ minFloor \in BOOLEAN /\ reportAll \in BOOLEAN
  /\ at \in 1..(Len(steps) + 1)
  /\ results \in Seq(Verdicts) /\ Len(results) < at
  /\ exit \in {"none", "green", "red"}

Stopped ==
  /\ ~reportAll /\ batch = {} /\ at = Len(steps) + 1
  /\ \E j \in DOMAIN results : ~results[j].ok
Place == Stopped \/ batch = (Len(results) + 1)..(at - 1)

\* A step is told of with its own child's verdict, once that child is over.
Told == \A j \in DOMAIN results : results[j] = Outcome(j) /\ child[j] = "settled"

\* Without --report-all there are no batches, and no step follows a red one.
Strict ==
  ~reportAll => batch = {} /\ (Stopped \/ \A j \in DOMAIN results : results[j].ok)

\* The exit code is that of the whole account.
Ended ==
  exit # "none" =>
    /\ batch = {} /\ at = Len(steps) + 1
    /\ steps # <<>> => (exit = "green") = (\A j \in DOMAIN results : results[j].ok)

\* The floor is at the head of the chain, unless it could not be read.
HasFloor ==
  minFloor => \/ steps = <<>> /\ exit = "red"
              \/ \A f \in DOMAIN Floor : f \in DOMAIN steps /\ steps[f] = Floor[f]

Account == Kinds /\ Place /\ Told /\ Strict /\ Ended /\ HasFloor

(* A batch is a run of steps from the one the walk is at.                  *)
LEMMA BatchIsRun ==
  ASSUME steps \in Seq(Step), NEW i \in 1..Len(steps)
  PROVE  \E b \in (i - 1)..Len(steps) :
           BatchAt(i) = i..b /\ Cardinality(BatchAt(i)) = b - i + 1
<1> DEFINE T == {x \in Nat : x >= i /\ x \notin BatchAt(i)}
<1>0. DOMAIN steps = 1..Len(steps) /\ Len(steps) \in Nat
  OBVIOUS
<1>1. Len(steps) + 1 \in T
  BY <1>0 DEF BatchAt
<1>2. PICK m \in T : \A x \in T : m <= x
  BY <1>1, Least
<1>3. m \in Nat /\ i <= m /\ m <= Len(steps) + 1 /\ m \notin BatchAt(i)
  BY <1>1, <1>2
<1>4. \A k \in i..(m - 1) : k \in BatchAt(i)
  BY <1>2, <1>3
<1>5. \A k \in BatchAt(i) : k \in i..(m - 1)
  <2> SUFFICES ASSUME NEW k \in BatchAt(i), k >= m PROVE FALSE
    BY <1>0, <1>3 DEF BatchAt
  <2>1. k \in 1..Len(steps) /\ Safe(k) /\ \A j \in i..(k - 1) : Safe(j)
    BY <1>0 DEF BatchAt
  <2>2. m \in DOMAIN steps /\ Safe(m) /\ \A j \in i..(m - 1) : Safe(j)
    BY <1>0, <1>3, <2>1
  <2>3. QED
    BY <1>3, <2>2 DEF BatchAt
<1>6. BatchAt(i) = i..(m - 1)
  BY <1>4, <1>5
<1>7. m - 1 \in (i - 1)..Len(steps) /\ i \in Int /\ m - 1 \in Int
  BY <1>0, <1>3
<1>8. Cardinality(i..(m - 1)) = (m - 1) - i + 1
  BY <1>7, FS_Interval
<1>9. QED
  BY <1>6, <1>7, <1>8

(* Nothing the account speaks of moves.                                    *)
LEMMA AccountStays ==
  ASSUME Account, UNCHANGED <<steps, minFloor, reportAll, at, batch, results, exit>>,
         \A j \in DOMAIN results :
           child[j] = "settled" => child'[j] = "settled" /\ (j \in passed' <=> j \in passed)
  PROVE  Account'
<1>1. Told'
  BY DEF Account, Told, Outcome
<1>2. Kinds' /\ Place' /\ Strict' /\ Ended' /\ HasFloor'
  BY DEF Account, Kinds, Place, Stopped, Strict, Ended, HasFloor
<1>3. QED
  BY <1>1, <1>2 DEF Account

(* Nothing has been told when the runner starts.                           *)
LEMMA InitAccount == Init => Account
<1> SUFFICES ASSUME Init PROVE Account
  OBVIOUS
<1>1. /\ at = 1 /\ batch = {} /\ results = <<>>
      /\ minFloor \in BOOLEAN /\ reportAll \in BOOLEAN
      /\ exit = "none" \/ (exit = "red" /\ steps = <<>>)
  BY DEF Init
<1>2. steps \in Seq(Step) /\ HasFloor
  <2>1. CASE steps = <<>> /\ exit = "red"
    BY <2>1 DEF HasFloor
  <2>2. CASE \E config \in Configs : steps = IF minFloor THEN WithFloor(config) ELSE config
    <3>1. PICK config \in Configs : steps = IF minFloor THEN WithFloor(config) ELSE config
      BY <2>2
    <3>2. config \in Seq(Step) /\ Floor \in Seq(Step)
      BY RunnerAssumption
    <3> DEFINE extras == Keep(config, {k \in DOMAIN config : config[k].name \notin NamesOf(Floor)})
    <3>3. extras \in Seq(Step)
      BY <3>2, KeepIs
    <3>4. WithFloor(config) = Floor \o extras
      BY DEF WithFloor
    <3> HIDE DEF extras
    <3>5. /\ Floor \o extras \in Seq(Step)
          /\ \A f \in DOMAIN Floor : f \in DOMAIN (Floor \o extras) /\ (Floor \o extras)[f] = Floor[f]
      BY <3>2, <3>3
    <3>6. QED
      BY <3>1, <3>2, <3>4, <3>5 DEF HasFloor
  <2>3. QED
    BY <2>1, <2>2 DEF Init
<1>3. Kinds
  BY <1>1, <1>2 DEF Kinds
<1>4. Place /\ Told /\ Strict
  BY <1>1 DEF Place, Told, Strict
<1>5. Ended
  <2>1. exit # "none" => steps = <<>> /\ batch = {} /\ at = Len(steps) + 1
    BY <1>1
  <2>2. QED
    BY <2>1, Zenon DEF Ended
<1>6. QED
  BY <1>2, <1>3, <1>4, <1>5 DEF Account

(* What is told of is not of the batch, nor the step the walk is at.       *)
LEMMA ToldIsBehind ==
  ASSUME Account
  PROVE  /\ DOMAIN results = 1..Len(results) /\ Len(results) \in Nat /\ at \in Nat
         /\ \A j \in DOMAIN results : j \in DOMAIN steps /\ j \notin batch
         /\ Walking => Len(results) = at - 1 /\ at \in DOMAIN steps /\ at \notin DOMAIN results
<1>1. /\ DOMAIN results = 1..Len(results) /\ Len(results) \in Nat /\ at \in Nat
      /\ DOMAIN steps = 1..Len(steps) /\ Len(steps) \in Nat
      /\ Len(results) < at /\ at <= Len(steps) + 1
  BY DEF Account, Kinds
<1>2. \A j \in DOMAIN results : j \in DOMAIN steps /\ j \notin batch
  BY <1>1 DEF Account, Place, Stopped
<1>3. ASSUME Walking PROVE Len(results) = at - 1 /\ at \in DOMAIN steps /\ at \notin DOMAIN results
  <2>1. batch = {} /\ at <= Len(steps) /\ at \in 1..Len(steps)
    BY <1>1, <1>3 DEF Walking, Account, Kinds
  <2>2. (Len(results) + 1)..(at - 1) = {}
    BY <1>1, <2>1 DEF Account, Place, Stopped
  <2>3. Len(results) + 1 > at - 1
    <3>1. Len(results) + 1 \in Int /\ at - 1 \in Int
      BY <1>1
    <3>2. QED
      BY <2>2, <3>1, EmptyInterval, Zenon
  <2>4. QED
    BY <1>1, <2>1, <2>3
<1>4. QED
  BY <1>1, <1>2, <1>3

(* spawnSync returns, and the walk goes on or stops.                       *)
LEMMA ReturnAccount ==
  ASSUME IInv, Account, SpawnSyncReturns
  PROVE  Account'
<1>1. /\ Walking /\ child' = [child EXCEPT ![at] = "settled"]
      /\ results' = Append(results, Outcome(at))
      /\ at' = IF reportAll \/ at \in passed THEN at + 1 ELSE Len(steps) + 1
      /\ UNCHANGED <<steps, minFloor, reportAll, batch, passed, exit>>
      /\ batch = {} /\ exit = "none"
  BY DEF SpawnSyncReturns, Walking, flags
<1>2. /\ DOMAIN results = 1..Len(results) /\ Len(results) \in Nat /\ at \in Nat
      /\ Len(results) = at - 1 /\ at \in DOMAIN steps /\ at \notin DOMAIN results
  BY <1>1, ToldIsBehind
<1>3. Kinds
  BY DEF Account
<1>4. DOMAIN steps = 1..Len(steps) /\ Len(steps) \in Nat /\ results \in Seq(Verdicts)
  BY <1>3 DEF Kinds
<1>5. Outcome(at) \in Verdicts /\ Outcome(at).ok = (at \in passed) /\ Outcome(at).step = at
  BY <1>2 DEF Outcome, Verdicts
<1>6. /\ results' \in Seq(Verdicts) /\ Len(results') = at /\ DOMAIN results' = 1..at
      /\ results'[at] = Outcome(at)
      /\ \A j \in DOMAIN results : j \in DOMAIN results' /\ results'[j] = results[j]
      /\ \A j \in DOMAIN results' : j \in DOMAIN results \/ j = at
  BY <1>1, <1>2, <1>4, <1>5
<1>7. at' \in 1..(Len(steps) + 1) /\ at < at'
  BY <1>1, <1>2, <1>4
<1>8. Kinds'
  BY <1>1, <1>3, <1>6, <1>7 DEF Kinds
<1>9. Told'
  <2>1. \A j \in DOMAIN results : child'[j] = child[j]
    BY <1>1, <1>2 DEF IInv, Shape
  <2>2. child'[at] = "settled"
    BY <1>1, <1>2 DEF IInv, Shape
  <2>3. QED
    BY <1>1, <1>6, <2>1, <2>2 DEF Account, Told, Outcome
<1>10. Place' /\ Strict'
  <2>1. CASE reportAll \/ at \in passed
    <3>1. at' = at + 1
      BY <1>1, <2>1
    <3>2. (Len(results') + 1)..(at' - 1) = {}
      BY <1>2, <1>6, <3>1
    <3>3. ~Stopped
      BY <1>2, <1>4 DEF Stopped
    <3>4. ~reportAll => \A j \in DOMAIN results' : results'[j].ok
      BY <2>1, <1>5, <1>6, <3>3 DEF Account, Strict
    <3>5. QED
      BY <1>1, <3>2, <3>4 DEF Place, Strict
  <2>2. CASE ~(reportAll \/ at \in passed)
    <3>1. at' = Len(steps) + 1 /\ ~results'[at].ok /\ at \in DOMAIN results'
      <4>1. results'[at] = Outcome(at) /\ at \in DOMAIN results'
        BY <1>2, <1>6
      <4>2. ~Outcome(at).ok
        BY <1>5, <2>2
      <4>3. at' = Len(steps) + 1
        BY <1>1, <2>2
      <4>4. QED
        BY <4>1, <4>2, <4>3
    <3>2. Stopped'
      BY <1>1, <2>2, <3>1 DEF Stopped
    <3>3. QED
      BY <1>1, <3>2 DEF Place, Strict
  <2>3. QED
    BY <2>1, <2>2
<1>11. Ended' /\ HasFloor'
  BY <1>1 DEF Account, Ended, HasFloor
<1>12. QED
  BY <1>8, <1>9, <1>10, <1>11 DEF Account

(* A batch takes over the steps from the one the walk is at.               *)
LEMMA StartBatchAccount ==
  ASSUME Account, StartBatch
  PROVE  Account'
<1>1. /\ Walking /\ Pooled /\ batch' = BatchAt(at) /\ at' = at + Cardinality(BatchAt(at))
      /\ batch = {} /\ exit = "none" /\ reportAll
      /\ UNCHANGED <<steps, minFloor, reportAll, child, passed, results, exit>>
  BY DEF StartBatch, Walking, Pooled, flags
<1>2. Len(results) = at - 1 /\ at \in DOMAIN steps /\ Len(results) \in Nat /\ at \in Nat
  BY <1>1, ToldIsBehind
<1>3. steps \in Seq(Step) /\ DOMAIN steps = 1..Len(steps) /\ Len(steps) \in Nat
  BY DEF Account, Kinds
<1>4. PICK b \in (at - 1)..Len(steps) :
        BatchAt(at) = at..b /\ Cardinality(BatchAt(at)) = b - at + 1
  BY <1>2, <1>3, BatchIsRun
<1>5. at' = b + 1 /\ at' \in 1..(Len(steps) + 1) /\ Len(results) < at'
  BY <1>1, <1>2, <1>3, <1>4
<1>6. batch' = (Len(results) + 1)..(at' - 1)
  BY <1>1, <1>2, <1>3, <1>4, <1>5
<1>7. Kinds' /\ Place'
  BY <1>1, <1>5, <1>6 DEF Account, Kinds, Place
<1>8. Told' /\ Strict' /\ Ended' /\ HasFloor'
  BY <1>1 DEF Account, Told, Outcome, Strict, Ended, HasFloor
<1>9. QED
  BY <1>7, <1>8 DEF Account

(* The outcomes of a batch are put behind those before it, in order.       *)
LEMMA FlushAccount ==
  ASSUME IInv, Account, Flush
  PROVE  Account'
<1>1. /\ batch # {} /\ BatchDone /\ results' = results \o Captured /\ batch' = {}
      /\ UNCHANGED <<steps, minFloor, reportAll, at, child, passed, exit>>
  BY DEF Flush, flags
<1> DEFINE n == Cardinality(batch)
<1>2. /\ batch = (Len(results) + 1)..(at - 1) /\ Len(results) \in Nat /\ at \in Nat
      /\ results \in Seq(Verdicts) /\ DOMAIN results = 1..Len(results)
      /\ Len(results) < at /\ exit = "none" /\ reportAll
  <2>1. /\ results \in Seq(Verdicts) /\ Len(results) < at /\ at \in Nat
    BY DEF Account, Kinds
  <2>2. batch = (Len(results) + 1)..(at - 1) /\ exit = "none" /\ reportAll
    BY <1>1 DEF Account, Kinds, Place, Stopped, Ended, Strict
  <2>3. QED
    BY <2>1, <2>2
<1>3. n = at - 1 - Len(results) /\ n \in Nat
  <2>1. Len(results) + 1 \in Int /\ at - 1 \in Int
    BY <1>2
  <2>2. Cardinality((Len(results) + 1)..(at - 1))
          = IF Len(results) + 1 > at - 1 THEN 0 ELSE (at - 1) - (Len(results) + 1) + 1
    BY <2>1, FS_Interval, Zenon
  <2>3. QED
    BY <1>2, <2>2
<1>4. \A j \in 1..n : Ascending(batch)[j] = Len(results) + j
  <2> SUFFICES ASSUME NEW j \in 1..n PROVE Ascending(batch)[j] = Len(results) + j
    OBVIOUS
  <2>1. Ascending((Len(results) + 1)..(at - 1))[j] = (Len(results) + 1) + j - 1
    <3>1. Len(results) + 1 \in Int /\ at - 1 \in Int
      BY <1>2
    <3>2. j \in 1..Cardinality((Len(results) + 1)..(at - 1))
      BY <1>2
    <3>3. QED
      BY <3>1, <3>2, AscendingInterval
  <2>2. QED
    BY <1>2, <1>3, <2>1
<1>5. Captured = [j \in 1..n |-> Outcome(Len(results) + j)]
  BY <1>4 DEF Captured
<1> HIDE DEF n
<1>6. \A k \in Nat : Outcome(k) \in Verdicts
  BY DEF Outcome, Verdicts
<1>7. Captured \in Seq(Verdicts) /\ Len(Captured) = n
  <2>1. \A j \in 1..n : Len(results) + j \in Nat
    BY <1>2
  <2>2. Captured \in [1..n -> Verdicts]
    BY <1>5, <1>6, <2>1
  <2>3. QED
    BY <1>3, <2>2
<1>8. /\ results' \in Seq(Verdicts) /\ Len(results') = at - 1
      /\ DOMAIN results' = 1..(at - 1)
      /\ \A j \in DOMAIN results : results'[j] = results[j]
      /\ \A j \in DOMAIN results' :
           j \notin DOMAIN results =>
             j - Len(results) \in DOMAIN Captured /\ results'[j] = Captured[j - Len(results)]
  <2>1. Len(results) + n = at - 1
    BY <1>2, <1>3
  <2>2. /\ results \o Captured \in Seq(Verdicts)
        /\ Len(results \o Captured) = Len(results) + Len(Captured)
        /\ DOMAIN (results \o Captured) = 1..(Len(results) + Len(Captured))
        /\ \A j \in DOMAIN results : (results \o Captured)[j] = results[j]
        /\ \A j \in DOMAIN (results \o Captured) :
             j \notin DOMAIN results =>
               /\ j - Len(results) \in DOMAIN Captured
               /\ (results \o Captured)[j] = Captured[j - Len(results)]
    <3>1. results \in Seq(Verdicts) /\ Captured \in Seq(Verdicts)
      BY <1>2, <1>7
    <3>2. QED
      BY <3>1, JoinIs
  <2>3. QED
    BY <1>1, <1>7, <2>1, <2>2, Zenon
<1>9. ASSUME NEW j \in DOMAIN results', j \notin DOMAIN results
      PROVE  j \in batch /\ results'[j] = Outcome(j)
  <2>1. j \in 1..(at - 1) /\ j > Len(results)
    BY <1>2, <1>8, <1>9
  <2>2. j - Len(results) \in 1..n /\ results'[j] = Captured[j - Len(results)]
    BY <1>5, <1>8, <1>9
  <2>3. Captured[j - Len(results)] = Outcome(Len(results) + (j - Len(results)))
    BY <1>5, <2>2
  <2>4. Len(results) + (j - Len(results)) = j
    BY <1>2, <2>1
  <2>5. QED
    BY <1>2, <2>1, <2>2, <2>3, <2>4
<1>10. \A k \in batch : child[k] = "settled"
  BY <1>1 DEF BatchDone, Active, IInv, Shape
<1>11. Told'
  BY <1>1, <1>8, <1>9, <1>10 DEF Account, Told, Outcome
<1>12. Kinds'
  BY <1>1, <1>2, <1>8 DEF Account, Kinds
<1>13. Place'
  <2>1. (Len(results') + 1)..(at' - 1) = {}
    BY <1>1, <1>2, <1>8
  <2>2. QED
    BY <1>1, <2>1 DEF Place
<1>14. Strict' /\ Ended' /\ HasFloor'
  BY <1>1, <1>2 DEF Account, Strict, Ended, HasFloor
<1>15. QED
  BY <1>11, <1>12, <1>13, <1>14 DEF Account

(* The exit code is taken from the whole account.                          *)
LEMMA ExitAccount ==
  ASSUME Account, Exit
  PROVE  Account'
<1>1. /\ batch = {} /\ at > Len(steps) /\ exit = "none"
      /\ exit' = IF \A j \in DOMAIN results : results[j].ok THEN "green" ELSE "red"
      /\ UNCHANGED <<steps, minFloor, reportAll, at, batch, child, passed, results>>
  BY DEF Exit, flags
<1>2. at = Len(steps) + 1
  BY <1>1 DEF Account, Kinds
<1>3. Kinds' /\ Place' /\ Told' /\ Strict' /\ HasFloor'
  BY <1>1 DEF Account, Kinds, Place, Stopped, Told, Outcome, Strict, HasFloor
<1>4. Ended'
  BY <1>1, <1>2 DEF Ended
<1>5. QED
  BY <1>3, <1>4 DEF Account

(* Every step keeps the account.                                           *)
LEMMA NextAccount == IInv /\ Account /\ [Next]_vars => Account'
<1> SUFFICES ASSUME IInv, Account, [Next]_vars PROVE Account'
  OBVIOUS
<1>0. child \in [DOMAIN steps -> {"waiting", "running", "exited", "settled"}]
  BY DEF IInv, Shape
<1>1. ASSUME NEW k \in DOMAIN steps, ChildExits(k) PROVE Account'
  <2>1. /\ child[k] = "running" /\ child' = [child EXCEPT ![k] = "exited"]
        /\ passed' = passed \/ passed' = passed \cup {k}
        /\ UNCHANGED <<steps, minFloor, reportAll, at, batch, results, exit>>
    BY <1>1 DEF ChildExits, flags
  <2>2. \A j \in DOMAIN results :
          child[j] = "settled" => child'[j] = "settled" /\ (j \in passed' <=> j \in passed)
    BY <1>0, <2>1
  <2>3. QED
    BY <2>1, <2>2, AccountStays
<1>2. CASE SpawnSync
  <2>1. /\ child' = [child EXCEPT ![at] = "running"] /\ child[at] = "waiting"
        /\ UNCHANGED <<steps, minFloor, reportAll, at, batch, passed, results, exit>>
    BY <1>2 DEF SpawnSync, flags
  <2>2. QED
    BY <1>0, <2>1, AccountStays
<1>3. CASE SpawnSyncReturns
  BY <1>3, ReturnAccount
<1>4. CASE StartBatch
  BY <1>4, StartBatchAccount
<1>5. CASE PumpReturns \/ Exited \/ UNCHANGED vars
  <2>1. UNCHANGED <<steps, minFloor, reportAll, at, batch, child, passed, results, exit>>
    BY <1>5 DEF PumpReturns, Exited, vars, flags
  <2>2. QED
    BY <2>1, AccountStays
<1>6. CASE Flush
  BY <1>6, FlushAccount
<1>7. CASE Exit
  BY <1>7, ExitAccount
<1>8. ASSUME NEW k \in batch, Launch(k) \/ Settle(k) PROVE Account'
  <2>1. /\ child' = [child EXCEPT ![k] = "running"] \/ child' = [child EXCEPT ![k] = "settled"]
        /\ UNCHANGED <<steps, minFloor, reportAll, at, batch, passed, results, exit>>
    BY <1>8 DEF Launch, Settle, flags
  <2>2. \A j \in DOMAIN results : j \in DOMAIN steps /\ j # k
    BY ToldIsBehind
  <2>3. \A j \in DOMAIN results : child'[j] = child[j]
    BY <1>0, <2>1, <2>2
  <2>4. QED
    BY <2>1, <2>3, AccountStays
<1>9. QED
  BY <1>1, <1>2, <1>3, <1>4, <1>5, <1>6, <1>7, <1>8 DEF Next, Runner, Children

(* The runner keeps the account.                                           *)
THEOREM RunnerAccount == Spec => []Account
BY InitAccount, NextAccount, RunnerInvariant, PTL DEF Spec

(* validate.mjs:187-197 and 203: results[] is in canonical order and tells *)
(* of each step what its own child reported; under --report-all no step is *)
(* missing when the runner exits.                                          *)
THEOREM ResultsInOrderHolds == Spec => []ResultsInOrder
<1>1. ASSUME Account PROVE ResultsInOrder
  <2>1. ASSUME exit # "none", reportAll PROVE Len(results) = Len(steps)
    <3>1. batch = {} /\ at = Len(steps) + 1 /\ batch = (Len(results) + 1)..(at - 1)
      BY <1>1, <2>1 DEF Account, Ended, Place, Stopped
    <3>2. Len(results) \in Nat /\ Len(steps) \in Nat /\ Len(results) < at
      BY <1>1 DEF Account, Kinds
    <3>3. Len(results) + 1 > at - 1
      BY <3>1, <3>2, EmptyInterval
    <3>4. QED
      BY <3>1, <3>2, <3>3
  <2>2. QED
    BY <1>1, <2>1 DEF Account, Told, ResultsInOrder
<1>2. QED
  BY <1>1, RunnerAccount, PTL

(* --min-floor: a green exit means that the floor's own command of every   *)
(* canonical step has run and passed, whatever the config file says.       *)
THEOREM FloorIsRun == Spec => []FloorHolds
<1>1. ASSUME Account, minFloor, exit = "green", NEW f \in DOMAIN Floor
      PROVE  /\ f \in DOMAIN steps /\ steps[f] = Floor[f]
             /\ f \in passed /\ child[f] = "settled"
  <2>1. f \in DOMAIN steps /\ steps[f] = Floor[f]
    BY <1>1 DEF Account, HasFloor
  <2>2. steps # <<>> /\ DOMAIN steps = 1..Len(steps) /\ Len(steps) \in Nat /\ Len(results) \in Nat
        /\ DOMAIN results = 1..Len(results)
    BY <1>1, <2>1 DEF Account, Kinds
  <2>3. /\ batch = {} /\ at = Len(steps) + 1 /\ \A j \in DOMAIN results : results[j].ok
    BY <1>1, <2>2 DEF Account, Ended
  <2>4. (Len(results) + 1)..(at - 1) = {}
    BY <1>1, <2>3 DEF Account, Place, Stopped
  <2>5. f \in DOMAIN results
    BY <2>1, <2>2, <2>3, <2>4
  <2>6. results[f] = Outcome(f) /\ child[f] = "settled" /\ results[f].ok
    BY <1>1, <2>3, <2>5 DEF Account, Told
  <2>7. Outcome(f).ok <=> f \in passed
    BY DEF Outcome
  <2>8. QED
    BY <2>1, <2>6, <2>7, Zenon
<1>2. Account => FloorHolds
  BY <1>1 DEF FloorHolds
<1>3. QED
  BY <1>2, RunnerAccount, PTL

-----------------------------------------------------------------------------
(***************************************************************************)
(* The runner implements GateChain: what a child comes to is its verdict.  *)
(***************************************************************************)
Judged == [k \in DOMAIN steps |-> Verdict(k)]

(* The verdict of a step whose child stays as it is, or starts, or is      *)
(* settled, does not change.                                               *)
LEMMA VerdictStays ==
  ASSUME NEW k, \/ child'[k] = child[k]
                \/ child[k] = "waiting" /\ child'[k] = "running"
                \/ child[k] = "exited" /\ child'[k] = "settled",
         passed' = passed
  PROVE  Verdict(k)' = Verdict(k)
<1>1. CASE child'[k] = child[k]
  BY <1>1 DEF Verdict
<1>2. CASE child[k] = "waiting" /\ child'[k] = "running"
  BY <1>2 DEF Verdict
<1>3. CASE child[k] = "exited" /\ child'[k] = "settled"
  BY <1>3 DEF Verdict
<1>4. QED
  BY <1>1, <1>2, <1>3

(* A child that exits gives a verdict the chain was waiting for.           *)
LEMMA ChildJudges ==
  ASSUME IInv, Account, NEW k \in DOMAIN steps, ChildExits(k)
  PROVE  Chain!Judge(k)
<1>1. /\ child[k] = "running" /\ child' = [child EXCEPT ![k] = "exited"]
      /\ passed' = passed \/ passed' = passed \cup {k}
      /\ UNCHANGED <<steps, minFloor, reportAll, at, batch, results, exit>>
  BY DEF ChildExits, flags
<1>2. /\ child \in [DOMAIN steps -> {"waiting", "running", "exited", "settled"}]
      /\ k \in batch \/ (batch = {} /\ k = at)
  BY <1>1 DEF IInv, Shape, OneAtATime, Begun
<1>3. DOMAIN steps = 1..Len(steps) /\ Len(steps) \in Nat /\ at \in Nat
      /\ DOMAIN results = 1..Len(results) /\ Len(results) \in Nat /\ Len(results) < at
  BY DEF Account, Kinds
<1>4. exit = "none"
  <2>1. k <= Len(steps) /\ (batch = {} => k = at)
    BY <1>2, <1>3
  <2>2. exit # "none" => batch = {} /\ at = Len(steps) + 1
    BY DEF Account, Ended
  <2>3. QED
    BY <1>3, <2>1, <2>2
<1>5. Verdict(k) = "none"
  BY <1>1 DEF Verdict
<1>6. Verdict(k)' \in {"green", "red"}
  <2>1. child'[k] = "exited"
    BY <1>1, <1>2
  <2>2. QED
    BY <2>1 DEF Verdict
<1>7. \A j \in DOMAIN steps \ {k} : Verdict(j)' = Verdict(j)
  <2> SUFFICES ASSUME NEW j \in DOMAIN steps \ {k} PROVE Verdict(j)' = Verdict(j)
    OBVIOUS
  <2>1. child'[j] = child[j] /\ (j \in passed' <=> j \in passed)
    BY <1>1, <1>2
  <2>2. QED
    BY <2>1 DEF Verdict
<1>8. ASSUME ~reportAll, NEW j \in 1..(k - 1) PROVE Verdict(j) = "green"
  <2>1. batch = {} /\ k = at /\ ~Stopped
    BY <1>2, <1>3, <1>8 DEF Account, Strict, Stopped
  <2>2. (Len(results) + 1)..(at - 1) = {} /\ \A i \in DOMAIN results : results[i].ok
    BY <1>8, <2>1 DEF Account, Place, Strict
  <2>3. Len(results) + 1 > at - 1
    <3>1. Len(results) + 1 \in Int /\ at - 1 \in Int
      BY <1>3
    <3>2. QED
      BY <2>2, <3>1, EmptyInterval, Zenon
  <2>4. j \in DOMAIN results
    BY <1>3, <2>1, <2>3
  <2>5. results[j] = Outcome(j) /\ child[j] = "settled" /\ results[j].ok
    BY <2>2, <2>4 DEF Account, Told
  <2>6. Outcome(j).ok <=> j \in passed
    BY DEF Outcome
  <2>7. j \in passed
    BY <2>5, <2>6, Zenon
  <2>8. QED
    BY <2>5, <2>7 DEF Verdict
<1>9. Judged' = [Judged EXCEPT ![k] = Verdict(k)']
  BY <1>1, <1>7 DEF Judged
<1>10. /\ Judged[k] = "none"
       /\ ~reportAll => \A j \in 1..(k - 1) : Judged[j] = "green"
  BY <1>3, <1>5, <1>8 DEF Judged
<1>11. QED
  BY <1>1, <1>4, <1>6, <1>9, <1>10 DEF Chain!Judge, Judged

(* The runner exits with the verdict of the chain.                         *)
LEMMA ExitDecides ==
  ASSUME Account, Exit
  PROVE  Chain!Exit
<1>1. /\ batch = {} /\ at > Len(steps) /\ exit = "none"
      /\ exit' = IF \A j \in DOMAIN results : results[j].ok THEN "green" ELSE "red"
      /\ UNCHANGED <<steps, reportAll, child, passed>>
  BY DEF Exit, flags
<1>2. /\ DOMAIN steps = 1..Len(steps) /\ Len(steps) \in Nat /\ at = Len(steps) + 1
      /\ DOMAIN results = 1..Len(results) /\ Len(results) \in Nat /\ Len(results) < at
  BY <1>1 DEF Account, Kinds
<1>3. Stopped \/ DOMAIN results = DOMAIN steps
  <2> SUFFICES ASSUME ~Stopped PROVE DOMAIN results = DOMAIN steps
    OBVIOUS
  <2>1. Len(results) + 1 \in Int /\ at - 1 \in Int
    BY <1>2
  <2>2. (Len(results) + 1)..(at - 1) = {}
    BY <1>1 DEF Account, Place
  <2>3. Len(results) + 1 > at - 1
    BY <2>1, <2>2, EmptyInterval, Zenon
  <2>4. Len(results) = Len(steps)
    <3>1. /\ Len(steps) \in Nat /\ Len(results) \in Nat
          /\ at = Len(steps) + 1 /\ Len(results) < at
      BY <1>2
    <3>2. QED
      BY <2>3, <3>1
  <2>5. QED
    BY <1>2, <2>4
<1>4. \A j \in DOMAIN results :
        /\ j \in DOMAIN steps
        /\ Verdict(j) = IF results[j].ok THEN "green" ELSE "red"
  <2> SUFFICES ASSUME NEW j \in DOMAIN results
               PROVE  j \in DOMAIN steps /\ Verdict(j) = IF results[j].ok THEN "green" ELSE "red"
    OBVIOUS
  <2>1. results[j] = Outcome(j) /\ child[j] = "settled"
    BY DEF Account, Told
  <2>2. results[j].ok <=> j \in passed
    <3>1. Outcome(j).ok <=> j \in passed
      BY DEF Outcome
    <3>2. QED
      BY <2>1, <3>1, Zenon
  <2>3. Verdict(j) = IF j \in passed THEN "green" ELSE "red"
    BY <2>1 DEF Verdict
  <2>4. j \in DOMAIN steps
    BY <1>2
  <2>5. QED
    BY <2>2, <2>3, <2>4, Zenon
<1>5. Judged' = Judged
  BY <1>1, VerdictStays DEF Judged
<1>6. CASE \A j \in DOMAIN results : results[j].ok
  <2>1. DOMAIN results = DOMAIN steps
    BY <1>3, <1>6 DEF Stopped
  <2>2. \A k \in DOMAIN steps : Judged[k] = "green"
    BY <1>4, <1>6, <2>1 DEF Judged
  <2>3. exit' = "green"
    BY <1>1, <1>6
  <2>4. QED
    BY <1>1, <1>5, <2>2, <2>3 DEF Chain!Exit, Chain!Green, Judged
<1>7. CASE ~\A j \in DOMAIN results : results[j].ok
  <2>1. \E k \in DOMAIN steps : Judged[k] = "red"
    BY <1>4, <1>7 DEF Judged
  <2>2. reportAll => \A k \in DOMAIN steps : Judged[k] # "none"
    BY <1>3, <1>4 DEF Judged, Stopped
  <2>3. exit' = "red"
    BY <1>1, <1>7
  <2>4. QED
    BY <1>1, <1>5, <2>1, <2>2, <2>3 DEF Chain!Exit, Chain!Red, Judged
<1>8. QED
  BY <1>6, <1>7

(* Every other step of the runner is none of the chain's.                  *)
LEMMA OtherStepsStutter ==
  ASSUME UNCHANGED <<steps, reportAll, exit, passed>>,
         \A k \in DOMAIN steps : \/ child'[k] = child[k]
                                 \/ child[k] = "waiting" /\ child'[k] = "running"
                                 \/ child[k] = "exited" /\ child'[k] = "settled"
  PROVE  UNCHANGED Chain!vars
<1>1. \A k \in DOMAIN steps : Verdict(k)' = Verdict(k)
  BY VerdictStays
<1>2. Judged' = Judged
  BY <1>1 DEF Judged
<1>3. QED
  BY <1>2 DEF Chain!vars, Judged

(* Each step of the runner is a step of the chain or none.                 *)
LEMMA StepRefines ==
  ASSUME IInv, Account, [Next]_vars
  PROVE  [Chain!Next]_(Chain!vars)
<1>0. child \in [DOMAIN steps -> {"waiting", "running", "exited", "settled"}]
      /\ batch \subseteq DOMAIN steps
  BY DEF IInv, Shape
<1>1. ASSUME NEW k \in DOMAIN steps, ChildExits(k) PROVE Chain!Next
  BY <1>1, ChildJudges DEF Chain!Next
<1>2. CASE Exit
  BY <1>2, ExitDecides DEF Chain!Next
<1>3. CASE SpawnSync
  <2>1. /\ child' = [child EXCEPT ![at] = "running"] /\ child[at] = "waiting"
        /\ UNCHANGED <<steps, reportAll, exit, passed>>
    BY <1>3 DEF SpawnSync, flags
  <2>2. QED
    BY <1>0, <2>1, OtherStepsStutter
<1>4. CASE SpawnSyncReturns
  <2>1. /\ child' = [child EXCEPT ![at] = "settled"] /\ child[at] = "exited"
        /\ UNCHANGED <<steps, reportAll, exit, passed>>
    BY <1>4 DEF SpawnSyncReturns, flags
  <2>2. QED
    BY <1>0, <2>1, OtherStepsStutter
<1>5. CASE StartBatch \/ PumpReturns \/ Flush \/ Exited \/ UNCHANGED vars
  <2>1. UNCHANGED <<steps, reportAll, exit, passed, child>>
    BY <1>5 DEF StartBatch, PumpReturns, Flush, Exited, vars, flags
  <2>2. QED
    BY <2>1, OtherStepsStutter
<1>6. ASSUME NEW k \in batch, Launch(k) PROVE UNCHANGED Chain!vars
  <2>1. /\ child' = [child EXCEPT ![k] = "running"] /\ child[k] = "waiting"
        /\ UNCHANGED <<steps, reportAll, exit, passed>>
    BY <1>6 DEF Launch, Launchable, flags
  <2>2. QED
    BY <1>0, <2>1, OtherStepsStutter
<1>7. ASSUME NEW k \in batch, Settle(k) PROVE UNCHANGED Chain!vars
  <2>1. /\ child' = [child EXCEPT ![k] = "settled"] /\ child[k] = "exited"
        /\ UNCHANGED <<steps, reportAll, exit, passed>>
    BY <1>7 DEF Settle, flags
  <2>2. QED
    BY <1>0, <2>1, OtherStepsStutter
<1>8. QED
  BY <1>1, <1>2, <1>3, <1>4, <1>5, <1>6, <1>7 DEF Next, Runner, Children

(* The safety half of ImplementsGateChain: the runner starts as the chain  *)
(* does, judges only what the chain would judge next, and exits with its   *)
(* verdict; every other step is one the chain does not see.                *)
THEOREM KeepsGateChain == Spec => Chain!Init /\ [][Chain!Next]_(Chain!vars)
<1>1. Init => Chain!Init
  <2> SUFFICES ASSUME Init PROVE Chain!Init
    OBVIOUS
  <2>1. Account /\ child = [k \in DOMAIN steps |-> "waiting"]
        /\ (exit = "none" \/ (exit = "red" /\ steps = <<>>))
    BY InitAccount DEF Init
  <2>2. \A k \in DOMAIN steps : Verdict(k) = "none"
    BY <2>1 DEF Verdict
  <2>3. QED
    BY <2>1, <2>2 DEF Chain!Init, Account, Kinds
<1>2. QED
  BY <1>1, StepRefines, RunnerInvariant, RunnerAccount, PTL DEF Spec
=============================================================================
