------------------------------- MODULE Screens -------------------------------
(***************************************************************************)
(* The screens of the mobile app: the route manifest, its allowlist, the   *)
(* Maestro flows and the startup budgets that must agree with the files    *)
(* expo-router serves (check-route-manifest, check-mobile-perf), and the   *)
(* device lane that opens and times what they name (check-e2e-device,      *)
(* measure-startup).                                                       *)
(*                                                                         *)
(* `tree' is the working tree, changed one fact at a time; `gates' is the  *)
(* verdict on the tree as it stands, and the lane runs on a green tree.    *)
(***************************************************************************)
EXTENDS Integers, Sequences, FiniteSets, SequencesExt, TreeEdits, Listing

CONSTANTS
  RouteFiles,    \* keys of route files under app/: sequences of <<kind, name>>
  RouteIds,      \* ids an entry may have
  NewEntries,    \* manifest entries people write
  TestIds,       \* state test ids
  Containers,    \* testIDs a screen's container may carry
  MaxFacts,      \* bound: edits of a pull request
  MaxCap         \* bound: startup times and caps

None == "none"
StateKeys == <<"loading", "empty", "error">>

ASSUME ScreensAssumption == "null" \notin TestIds

VARIABLES
  tree,    \* the files and lists of the working tree
  gates,   \* the verdict on it: "none", "green", "red"
  facts,   \* edits of the pull request
  lane     \* the device lane
svars == <<tree, gates, facts, lane>>

NoLane ==
  [pc |-> None, at |-> 1, boot |-> <<>>, results |-> <<>>,
   bundle |-> "fast", app |-> "dead", again |-> FALSE]

\* A fresh project: one screen, registered.
OneScreen(f, e) ==
  [files |-> {f}, container |-> [g \in RouteFiles |-> e.id], notFound |-> TRUE,
   routes |-> <<e>>, chrome |-> {}, unreachable |-> {},
   flows |-> {e.id}, budget |-> e.id :> [cold |-> MaxCap, warm |-> 0], capsValid |-> TRUE]

-----------------------------------------------------------------------------
(***************************************************************************)
(* What expo-router serves.                                                *)
(***************************************************************************)
\* "(group)" segments vanish, a trailing index is its parent, [param] and
\* [...param] are dynamic.
DeriveRoutePath(key) ==
  LET urls == SelectSeq(key, LAMBDA s : s[1] # "group")
  IN IF urls # <<>> /\ Last(urls) = <<"plain", "index">> THEN Front(urls) ELSE urls

\* A path no canonical route path matches: capitals and a space.
BadPath == <<<<"plain", "Bad Path">>>>
Canonical(path) == path # BadPath

\* An entry of the manifest, as its schema has it.
Entry ==
  [id : RouteIds \cup {None}, titled : BOOLEAN,
   path : {DeriveRoutePath(f) : f \in RouteFiles} \cup {BadPath}, file : RouteFiles,
   states : [DOMAIN StateKeys -> TestIds \cup {"null"}]]
ASSUME EntryAssumption == NewEntries \subseteq Entry

\* Any tree whose manifest is a list of entries.
ScreensInit ==
  /\ {"routes", "files"} \subseteq DOMAIN tree
  /\ tree.routes \in Seq(Entry) /\ tree.files \subseteq RouteFiles
  /\ gates = "none" /\ facts = 0 /\ lane = NoLane

-----------------------------------------------------------------------------
(***************************************************************************)
(* check-route-manifest.                                                   *)
(***************************************************************************)
Entries(t) == DOMAIN t.routes
\* An entry without an id is called by its place.
NameOf(t, i) == IF t.routes[i].id = None THEN i ELSE t.routes[i].id

PathOwner(t, i) == \A j \in 1..i-1 : t.routes[j].path # t.routes[i].path
FileOwner(t, i) == \A j \in 1..i-1 : t.routes[j].file # t.routes[i].file

IdOk(t, i) == t.routes[i].id # None /\ \A j \in 1..i-1 : t.routes[j].id # t.routes[i].id
PathOk(t, i) == Canonical(t.routes[i].path) /\ PathOwner(t, i)
FileOk(t, i) == t.routes[i].file \in RouteFiles /\ FileOwner(t, i)

\* Wrong: a test id is compared with those of its own entry only.
WrongTestIdFree(t, i, k) ==
  \A m \in 1..k-1 : t.routes[i].states[m] # t.routes[i].states[k]
\* No state of this entry before it and no entry before has the test id.
TestIdFree(t, i, k) ==
  /\ \A m \in 1..k-1 : t.routes[i].states[m] # t.routes[i].states[k]
  /\ \A j \in 1..i-1, m \in DOMAIN StateKeys : t.routes[j].states[m] # t.routes[i].states[k]

\* A state has a test id of its own, or is null and documented as unreachable.
StateOk(t, i, k) ==
  \/ t.routes[i].states[k] = "null" /\ <<NameOf(t, i), k>> \in t.unreachable
  \/ t.routes[i].states[k] \in TestIds /\ TestIdFree(t, i, k)

EntryOk(t, i) ==
  /\ IdOk(t, i) /\ t.routes[i].titled /\ PathOk(t, i) /\ FileOk(t, i)
  /\ \A k \in DOMAIN StateKeys : StateOk(t, i, k)

\* The path on record for an owner is looked up by the owner's name.
DeclaredPath(t, name) == {t.routes[j].path : j \in {e \in Entries(t) : NameOf(t, e) = name /\ PathOwner(t, e)}}
OwnersOf(t, f) == {i \in Entries(t) : t.routes[i].file = f /\ FileOwner(t, i)}
FileClaimed(t, f) ==
  \/ OwnersOf(t, f) = {} /\ f \in t.chrome
  \/ /\ OwnersOf(t, f) # {} /\ f \notin t.chrome
     /\ \A i \in OwnersOf(t, f) : DeclaredPath(t, NameOf(t, i)) \subseteq {DeriveRoutePath(f)}

\* An entry, an allowlist row or a documented null that names nothing is stale.
NothingStale(t) ==
  /\ \A i \in Entries(t) : t.routes[i].file \in t.files
  /\ t.chrome \subseteq t.files
  /\ \A u \in t.unreachable :
       \E i \in Entries(t) : t.routes[i].id = u[1] /\ t.routes[i].states[u[2]] = "null"

RouteManifest(t) ==
  /\ t.routes # <<>>
  /\ \A i \in Entries(t) : EntryOk(t, i)
  /\ t.notFound
  /\ \A f \in t.files : FileClaimed(t, f)
  /\ NothingStale(t)

-----------------------------------------------------------------------------
(***************************************************************************)
(* check-mobile-perf: the closure, and the verdict on a measurement.       *)
(***************************************************************************)
IdsOf(t) == {t.routes[i].id : i \in Entries(t)} \ {None}

\* Every id has a flow and a row with a positive cap, and the other way round.
Closure(t) ==
  \/ IdsOf(t) = {}
  \/ /\ t.flows = IdsOf(t) /\ DOMAIN t.budget = IdsOf(t)
     /\ \A id \in DOMAIN t.budget : t.budget[id].cold > 0

\* A declared warm cap (0 is none) that nothing was measured for is red too.
Within(cap, r) ==
  /\ r.cold <= cap.cold
  /\ cap.warm > 0 => r.warm \in 1..cap.warm
Measured(t, results) ==
  /\ DOMAIN results = DOMAIN t.budget
  /\ \A id \in DOMAIN t.budget : Within(t.budget[id], results[id])

Green(t) == RouteManifest(t) /\ Closure(t)

-----------------------------------------------------------------------------
(***************************************************************************)
(* A pull request: facts of the tree change one at a time.                 *)
(***************************************************************************)
Row == [cold : 0..MaxCap, warm : 0..MaxCap]

EditRoutes ==
  \/ \E e \in NewEntries : tree' = [tree EXCEPT !.routes = Append(@, e)]
  \/ \E i \in Entries(tree) :
       \/ tree' = [tree EXCEPT !.routes = RemoveAt(@, i)]
       \/ \E id \in RouteIds \cup {None} : tree' = [tree EXCEPT !.routes[i].id = id]
       \/ \E p \in {DeriveRoutePath(f) : f \in RouteFiles} \cup {BadPath} :
            tree' = [tree EXCEPT !.routes[i].path = p]
       \/ \E f \in RouteFiles : tree' = [tree EXCEPT !.routes[i].file = f]
       \/ \E k \in DOMAIN StateKeys, s \in TestIds \cup {"null"} :
            tree' = [tree EXCEPT !.routes[i].states[k] = s]
       \/ tree' = [tree EXCEPT !.routes[i].titled = ~@]
EditFiles ==
  \/ \E f \in RouteFiles : tree' = [tree EXCEPT !.files = Toggled(@, f)]
  \/ \E f \in RouteFiles, c \in Containers : tree' = [tree EXCEPT !.container[f] = c]
  \/ tree' = [tree EXCEPT !.notFound = ~@]
EditLists ==
  \/ \E f \in RouteFiles : tree' = [tree EXCEPT !.chrome = Toggled(@, f)]
  \/ \E id \in RouteIds, k \in DOMAIN StateKeys :
       tree' = [tree EXCEPT !.unreachable = Toggled(@, <<id, k>>)]
  \/ \E id \in RouteIds : tree' = [tree EXCEPT !.flows = Toggled(@, id)]
  \/ \E id \in RouteIds, row \in Row :
       tree' = [tree EXCEPT !.budget = With(@, id, row)]
  \/ \E id \in DOMAIN tree.budget :
       tree' = [tree EXCEPT !.budget = Less(@, id)]
EditCaps == tree' = [tree EXCEPT !.capsValid = ~@]

EditScreens ==
  /\ lane = NoLane /\ facts < MaxFacts
  /\ EditRoutes \/ EditFiles \/ EditLists \/ EditCaps
  /\ tree' # tree /\ Len(tree'.routes) <= Cardinality(RouteIds)
  /\ facts' = facts + 1 /\ gates' = "none" /\ UNCHANGED lane

CheckScreens ==
  /\ lane = NoLane /\ gates = "none"
  /\ gates' = IF Green(tree) THEN "green" ELSE "red"
  /\ UNCHANGED <<tree, facts, lane>>

-----------------------------------------------------------------------------
(***************************************************************************)
(* The device lane, on what was merged. `boot' is how long each screen     *)
(* really takes; `bundle' is the JavaScript on the device and `app' what   *)
(* the process shows, a verdict of the perf harness included.              *)
(***************************************************************************)
Fail == lane' = [lane EXCEPT !.pc = "red"]

StartLane ==
  /\ lane = NoLane /\ gates = "green"
  /\ \E boot \in [tree.files -> 1..MaxCap] :
       lane' = [NoLane EXCEPT !.pc = "sweep", !.boot = boot]
  /\ UNCHANGED <<tree, gates, facts>>

\* The file a deep link to `path' shows, or +not-found.
Shown(path) == {f \in tree.files : DeriveRoutePath(f) = path}
Visible(i) ==
  \A f \in Shown(tree.routes[i].path) : tree.container[f] = tree.routes[i].id

\* A flow, or a step of the sweep: the link is opened and the container of the
\* route awaited; what is not there in time, or hangs, ends the lane.
OpenRoute ==
  LET i == lane.at
  IN /\ lane.pc = "sweep" /\ i <= Len(tree.routes)
     /\ \/ /\ Shown(tree.routes[i].path) # {} /\ Visible(i)
           /\ lane' = [lane EXCEPT !.at = i + 1, !.app = "elsewhere"]
        \/ Fail
     /\ UNCHANGED <<tree, gates, facts>>

SweepEnds ==
  /\ lane.pc = "sweep" /\ lane.at > Len(tree.routes)
  /\ lane' = [lane EXCEPT !.pc = "startup", !.at = 1]
  /\ UNCHANGED <<tree, gates, facts>>

\* Three cold starts, one of which the scheduler may have disturbed, and a
\* warm one that may print no time; a cold one that prints none, or adb that
\* fails, ends the lane.
TimeRoute ==
  LET i == lane.at
      f == CHOOSE g \in Shown(tree.routes[i].path) : TRUE
  IN /\ lane.pc = "startup" /\ i <= Len(tree.routes)
     /\ \/ \E spiked \in 1..3, t \in 1..MaxCap, warm \in 0..MaxCap :
             LET cold == Median([k \in 1..3 |-> IF k = spiked THEN t ELSE lane.boot[f]])
             IN lane' = [lane EXCEPT !.at = i + 1,
                           !.results = With(@, tree.routes[i].id, [cold |-> cold, warm |-> warm])]
        \/ Fail
     /\ UNCHANGED <<tree, gates, facts>>

StartupEnds ==
  /\ lane.pc = "startup" /\ lane.at > Len(tree.routes)
  /\ IF Measured(tree, lane.results) THEN lane' = [lane EXCEPT !.pc = "perf"] ELSE Fail
  /\ UNCHANGED <<tree, gates, facts>>

Verdict(bundle) == IF bundle = "fast" THEN "perf-pass" ELSE "perf-fail"

\* Wrong: the process is left as it is.
WrongStopped(app) == app
\* am force-stop: the link will meet a process that has measured nothing.
Stopped(app) == "dead"

\* The deep link: a fresh process measures, a mounted harness keeps its verdict.
PerfHarness ==
  /\ lane.pc = "perf"
  /\ LET app == IF Stopped(lane.app) \in {"perf-pass", "perf-fail"}
                THEN Stopped(lane.app) ELSE Verdict(lane.bundle)
     IN IF tree.capsValid
        THEN lane' = [lane EXCEPT !.app = app, !.pc = IF app = "perf-pass" THEN "green" ELSE "red"]
        ELSE Fail
  /\ UNCHANGED <<tree, gates, facts>>

\* Another bundle reaches a device whose app is running, and the phase is run
\* again: whether the screen remounts is up to the dev client.
ChangeBundle ==
  /\ lane.pc \in {"green", "red"} /\ lane.app \in {"perf-pass", "perf-fail"} /\ ~lane.again
  /\ \E bundle \in {"fast", "stalled"} :
       \E app \in {lane.app, Verdict(bundle)} :
         lane' = [lane EXCEPT !.bundle = bundle, !.app = app, !.pc = "perf", !.again = TRUE]
  /\ UNCHANGED <<tree, gates, facts>>

LaneOver ==
  /\ lane.pc \in {"green", "red"}
  /\ lane' = NoLane /\ UNCHANGED <<tree, gates, facts>>

ScreensNext ==
  \/ EditScreens \/ CheckScreens
  \/ StartLane \/ OpenRoute \/ SweepEnds \/ TimeRoute \/ StartupEnds
  \/ PerfHarness \/ ChangeBundle \/ LaneOver

ScreensSpec == ScreensInit /\ [][ScreensNext]_svars

-----------------------------------------------------------------------------
(***************************************************************************)
(* Properties.                                                             *)
(***************************************************************************)
\* check-route-manifest.mjs:2-13: a green tree has, for every file the router
\* serves, exactly one entry with the URL it is served at, three states no
\* other screen has, a flow and an enforceable cap; or it is chrome.
ScreensAreCovered ==
  gates = "green" =>
    /\ \A f \in tree.files \ tree.chrome :
         \E i \in Entries(tree) :
           LET e == tree.routes[i] IN
           /\ \A j \in Entries(tree) : tree.routes[j].file = f <=> j = i
           /\ e.path = DeriveRoutePath(f)
           /\ e.id \in tree.flows /\ e.id \in DOMAIN tree.budget /\ tree.budget[e.id].cold > 0
           /\ \A j \in Entries(tree), k, m \in DOMAIN StateKeys :
                <<j, m>> # <<i, k>> =>
                  \/ e.states[k] = "null" /\ <<e.id, k>> \in tree.unreachable
                  \/ e.states[k] # tree.routes[j].states[m]
    /\ \A f, g \in tree.files \ tree.chrome :
         f # g => DeriveRoutePath(f) # DeriveRoutePath(g)

\* measure-startup.mjs, check-e2e-device.mjs: a green lane has seen every
\* screen, at the link it is served at and under its own name; none is slower
\* than its cap, one disturbed launch or none, and the bundle on the device is
\* the one that kept the interaction budgets. (A chrome file the router serves
\* at a screen's URL goes unnoticed: no gate derives the URL of chrome.)
LaneVouches ==
  lane.pc = "green" =>
    /\ \A f \in {g \in tree.files \ tree.chrome : Shown(DeriveRoutePath(g)) = {g}} :
         \E id \in DOMAIN tree.budget :
           tree.container[f] = id /\ lane.boot[f] <= tree.budget[id].cold
    /\ lane.bundle = "fast"

=============================================================================
