--------------------------- MODULE ValidateRunner ---------------------------
(***************************************************************************)
(* The gate runner (tools/validate.mjs): the chain it resolves, the        *)
(* default run that stops at the first red, and --report-all, which runs   *)
(* consecutive read-only gates in a pool of child processes.               *)
(*                                                                         *)
(* The runner is one thread of JavaScript.  What runs beside it are the    *)
(* children: one may exit at any moment, and the runner hears of it only   *)
(* when its own turn is over, so the callbacks of several exits come in    *)
(* any order.                                                              *)
(***************************************************************************)
EXTENDS Naturals, FiniteSets, Sequences, Listing

CONSTANTS
  StepNames,    \* the names of steps
  Configs,      \* the VALIDATE_STEPS a config file may hold: sequences of steps
  Floor,        \* validate.floor.json: a sequence of steps
  ParallelSafe, \* PARALLEL_SAFE, a set of names
  Resource,     \* STEP_RESOURCES: name -> resource key, for some names
  PoolSize      \* max(1, min(4, availableParallelism() - 1))

\* [name, command] pairs.  The command `true' is what a weakened config puts
\* in place of a gate.
Step == [name : StepNames, command : {"gate", "true"}]

ASSUME RunnerAssumption ==
  /\ Configs \subseteq Seq(Step) /\ Floor \in Seq(Step)
  /\ PoolSize \in 1..4

VARIABLES
  steps,      \* the resolved chain
  minFloor,   \* --min-floor
  reportAll,  \* --report-all
  at,         \* i: the next step to walk to
  batch,      \* indexes of the batch being run, {} outside runBatch
  pumping,    \* pump is on the stack: no callback can run
  child,      \* step index -> what its child process has come to
  passed,     \* the steps whose command has exited with 0
  busy,       \* resource keys of the running steps of the batch
  results,    \* results[]: step index and verdict, in the order printed
  exit        \* "none", "green" (exit code 0) or "red"

flags == <<steps, minFloor, reportAll>>
vars  == <<steps, minFloor, reportAll, at, batch, pumping, child, passed, busy,
           results, exit>>

-----------------------------------------------------------------------------
(***************************************************************************)
(* The chain.                                                              *)
(***************************************************************************)
NamesOf(chain) == {chain[k].name : k \in DOMAIN chain}

\* Wrong: the config's command wins over the floor's for a step both have.
WrongWithFloor(config) ==
  config \o Keep(Floor, {k \in DOMAIN Floor : Floor[k].name \notin NamesOf(config)})

\* resolveSteps under --min-floor: the floor, then what only the config has.
WithFloor(config) ==
  Floor \o Keep(config, {k \in DOMAIN config : config[k].name \notin NamesOf(Floor)})

\* A floor that cannot be read, or holds no well-formed steps, fails closed.
Init ==
  /\ minFloor \in BOOLEAN /\ reportAll \in BOOLEAN
  /\ \/ /\ \E config \in Configs : steps = IF minFloor THEN WithFloor(config) ELSE config
        /\ exit = "none"
     \/ minFloor /\ steps = <<>> /\ exit = "red"
  /\ at = 1 /\ batch = {} /\ pumping = FALSE
  /\ child = [k \in DOMAIN steps |-> "waiting"]
  /\ passed = {} /\ busy = {} /\ results = <<>>

-----------------------------------------------------------------------------
(***************************************************************************)
(* Children.                                                               *)
(***************************************************************************)
Safe(k)     == steps[k].name \in ParallelSafe
Keys(k)     == IF steps[k].name \in DOMAIN Resource THEN {Resource[steps[k].name]} ELSE {}
Running     == {k \in DOMAIN steps : child[k] = "running"}
Active      == {k \in batch : child[k] \in {"running", "exited"}}
Outcome(k)  == [step |-> k, ok |-> k \in passed]

\* A gate exits with any status, `true' with 0.
ChildExits(k) ==
  /\ child[k] = "running"
  /\ child' = [child EXCEPT ![k] = "exited"]
  /\ \/ passed' = passed \cup {k}
     \/ steps[k].command = "gate" /\ passed' = passed
  /\ UNCHANGED <<flags, at, batch, pumping, busy, results, exit>>

-----------------------------------------------------------------------------
(***************************************************************************)
(* The walk: runSerial for the default chain, for an exclusive step and    *)
(* for a batch of one; spawnSync blocks the runner until the child exits.  *)
(***************************************************************************)
Walking == exit = "none" /\ batch = {} /\ at <= Len(steps)

\* Wrong: the batch swallows the steps behind it that are not PARALLEL_SAFE.
WrongBatchAt(i) == {k \in DOMAIN steps : k >= i /\ Safe(i)}

\* The maximal run of consecutive PARALLEL_SAFE steps from i on.
BatchAt(i) == {k \in DOMAIN steps : k >= i /\ Safe(k) /\ \A j \in i..(k - 1) : Safe(j)}
Pooled == reportAll /\ Cardinality(BatchAt(at)) > 1

SpawnSync ==
  /\ Walking /\ ~Pooled /\ child[at] = "waiting"
  /\ child' = [child EXCEPT ![at] = "running"]
  /\ UNCHANGED <<flags, at, batch, pumping, passed, busy, results, exit>>

\* Without --report-all a red step is the last one.
SpawnSyncReturns ==
  /\ Walking /\ child[at] = "exited"
  /\ child' = [child EXCEPT ![at] = "settled"]
  /\ results' = Append(results, Outcome(at))
  /\ at' = IF reportAll \/ at \in passed THEN at + 1 ELSE Len(steps) + 1
  /\ UNCHANGED <<flags, batch, pumping, passed, busy, exit>>

-----------------------------------------------------------------------------
(***************************************************************************)
(* runBatch.  An iteration of the loop in pump is one Launch.              *)
(***************************************************************************)
StartBatch ==
  /\ Walking /\ Pooled
  /\ batch' = BatchAt(at) /\ at' = at + Cardinality(BatchAt(at))
  /\ pumping' = TRUE
  /\ UNCHANGED <<flags, child, passed, busy, results, exit>>

\* Wrong: the keys of the running steps are not looked at.
WrongLaunchable == {k \in batch : child[k] = "waiting"}

\* Steps not started and not blocked by a running step.
Launchable == {k \in batch : child[k] = "waiting" /\ Keys(k) \cap busy = {}}

Room == Cardinality(Active) < PoolSize

Launch(k) ==
  /\ pumping /\ Room
  /\ k \in Launchable /\ \A j \in Launchable : k <= j
  /\ child' = [child EXCEPT ![k] = "running"]
  /\ busy' = busy \cup Keys(k)
  /\ UNCHANGED <<flags, at, batch, pumping, passed, results, exit>>

PumpReturns ==
  /\ pumping /\ ~(Room /\ Launchable # {})
  /\ pumping' = FALSE
  /\ UNCHANGED <<flags, at, batch, child, passed, busy, results, exit>>

\* Wrong: the key is kept, so a step that needs it never starts.
WrongSettle(k) ==
  /\ k \in batch /\ child[k] = "exited" /\ ~pumping
  /\ child' = [child EXCEPT ![k] = "settled"]
  /\ pumping' = TRUE
  /\ UNCHANGED <<flags, at, batch, passed, busy, results, exit>>

\* The callback of a child that has exited: it frees the key and pumps again.
Settle(k) ==
  /\ k \in batch /\ child[k] = "exited" /\ ~pumping
  /\ child' = [child EXCEPT ![k] = "settled"]
  /\ busy' = busy \ Keys(k)
  /\ pumping' = TRUE
  /\ UNCHANGED <<flags, at, batch, passed, results, exit>>

\* Wrong: the batch is flushed as soon as nothing more is waiting.
WrongBatchDone == \A k \in batch : child[k] # "waiting"
BatchDone == Active = {} /\ \A k \in batch : child[k] # "waiting"

\* The outcomes of the batch, in canonical order.
Captured == [j \in 1..Cardinality(batch) |-> Outcome(Ascending(batch)[j])]

\* printBatchResults: the captured outcomes, in canonical order.
Flush ==
  /\ batch # {} /\ ~pumping /\ BatchDone
  /\ results' = results \o Captured
  /\ batch' = {}
  /\ UNCHANGED <<flags, at, pumping, child, passed, busy, exit>>

-----------------------------------------------------------------------------
Exit ==
  /\ exit = "none" /\ batch = {} /\ at > Len(steps)
  /\ exit' = IF \A j \in DOMAIN results : results[j].ok THEN "green" ELSE "red"
  /\ UNCHANGED <<flags, at, batch, pumping, child, passed, busy, results>>

Children == \E k \in DOMAIN steps : ChildExits(k)
Runner ==
  \/ SpawnSync \/ SpawnSyncReturns \/ StartBatch \/ PumpReturns \/ Flush \/ Exit
  \/ \E k \in batch : Launch(k) \/ Settle(k)

\* The process has exited: not a deadlock.
Exited == exit # "none" /\ UNCHANGED vars

Next == Children \/ Runner \/ Exited

\* The event loop never rests while it has work, and every gate is a command
\* that ends: validate.mjs has no timeout of its own for one that does not.
Fairness ==
  /\ WF_vars(Runner)
  /\ WF_vars(Children)

Spec == Init /\ [][Next]_vars /\ Fairness

-----------------------------------------------------------------------------
(***************************************************************************)
(* Properties.                                                             *)
(***************************************************************************)
\* Every variable holds a value of its kind.
TypeOK ==
  /\ minFloor \in BOOLEAN /\ reportAll \in BOOLEAN /\ pumping \in BOOLEAN
  /\ at \in Nat
  /\ batch \subseteq DOMAIN steps
  /\ child \in [DOMAIN steps -> {"waiting", "running", "exited", "settled"}]
  /\ passed \subseteq DOMAIN steps
  /\ exit \in {"none", "green", "red"}

\* validate.mjs:44-46: two gates that share a resource (the git index lock)
\* are never running at the same time, whatever order children exit in.
ResourceMutex ==
  \A j, k \in Running : j # k => Keys(j) \cap Keys(k) = {}

\* validate.mjs:23-28: a step not known to be read-only, perf-budget and its
\* clock among them, never shares the machine with another gate.
ExclusiveRunsAlone ==
  \A k \in Running : ~Safe(k) => Running = {k}

\* No more children than the pool has room for.
PoolBound == Cardinality(Running) <= PoolSize

\* results[] is the chain in canonical order with no step missing, and it
\* tells of each step what its own child reported, however they finished.
ResultsInOrder ==
  /\ \A j \in DOMAIN results : results[j] = Outcome(j) /\ child[j] = "settled"
  /\ exit # "none" /\ reportAll => Len(results) = Len(steps)

\* --min-floor: a green exit means that the floor's own command of every
\* canonical step has run and passed, whatever the config file says.
FloorHolds ==
  minFloor /\ exit = "green" =>
    \A f \in DOMAIN Floor :
      \E k \in DOMAIN steps :
        /\ steps[k] = Floor[f]
        /\ k \in passed /\ child[k] = "settled"

\* The runner keeps what GateChain promises: it judges in an order a chain
\* allows, exits green only when all is green, and always comes to an end.
Verdict(k) ==
  CASE child[k] \in {"waiting", "running"} -> "none"
    [] child[k] \in {"exited", "settled"} -> IF k \in passed THEN "green" ELSE "red"

Chain == INSTANCE GateChain WITH verdict <- [k \in DOMAIN steps |-> Verdict(k)]
ImplementsGateChain == Chain!Spec
=============================================================================
