---------------------------- MODULE GatesProofs -----------------------------
(***************************************************************************)
(* Proofs about the gates of a project: the ramp, the screens and the      *)
(* device lane, the design, the native surface, the ratchets, the coverage *)
(* floors and the budgets.  Each is proved of its own specification, for   *)
(* every value of the constants that the assumptions admit.                *)
(***************************************************************************)
EXTENDS VersionRamp, Screens, Design, Native, Ratchets, DiffCoverage, Budgets,
        TLAPS, ListingProofs

-----------------------------------------------------------------------------
(* VersionRamp: every chain of gates, every set of checks, every number of *)
(* releases and of edits.                                                  *)

(* The vintage is a release.                                               *)
LEMMA BaseType == TypeOK => Base \in Versions
BY RampAssumption DEF TypeOK, Base, Versions

(* A gate that exits moves the run on within the chain, or to its end.     *)
LEMMA GateDoneTypes ==
  ASSUME TypeOK, Running, NEW red \in BOOLEAN, NEW noted \in BOOLEAN, GateDone(red, noted)
  PROVE  /\ run' \in [by : {"none", "local", "ci", "graduate"}, at : 1..(Len(Chain) + 1),
                      red : BOOLEAN, noted : BOOLEAN]
         /\ seen' = NoStamp
<1> DEFINE at == IF red /\ run.by # "local" THEN Len(Chain) + 1 ELSE run.at + 1
<1>1. Len(Chain) \in Nat
  BY RampAssumption
<1>2. at \in 1..(Len(Chain) + 1)
  BY <1>1 DEF TypeOK, Running
<1>3. (run.red \/ red) \in BOOLEAN /\ (run.noted \/ noted) \in BOOLEAN
  OBVIOUS
<1>4. run' = [run EXCEPT !.at = at, !.red = run.red \/ red, !.noted = run.noted \/ noted]
  BY DEF GateDone
<1> HIDE DEF at
<1>5. QED
  BY <1>2, <1>3, <1>4 DEF TypeOK, GateDone

(* What is checked is what the declared inputs of a gate of the chain hold. *)
LEMMA GateType == Running /\ TypeOK => Gate \in Gates /\ content[Gate] \in Contents
BY RampAssumption DEF Running, TypeOK, Gate

(* The types hold at first.                                                *)
LEMMA InitTypes == Init => TypeOK
<1>1. Len(Chain) \in Nat
  BY RampAssumption
<1>2. QED
  BY <1>1, RampAssumption DEF Init, TypeOK, Versions, NoRun

(* The types are inductive.                                                *)
LEMMA TypeStep == TypeOK /\ [Next]_vars => TypeOK'
<1> SUFFICES ASSUME TypeOK, [Next]_vars PROVE TypeOK'
  OBVIOUS
<1> USE RampAssumption
<1>l. Len(Chain) \in Nat
  OBVIOUS
<1>1. ASSUME NEW g \in Gates, Edit(g) PROVE TypeOK'
  BY <1>1 DEF Edit, TypeOK, install
<1>2. CASE NewRelease
  BY <1>2 DEF NewRelease, TypeOK, Versions
<1>3. CASE Update
  BY <1>3, BaseType DEF Update, TypeOK, Versions
<1>4. ASSUME NEW by \in {"local", "ci", "graduate"}, StartValidate(by) PROVE TypeOK'
  BY <1>4, <1>l DEF StartValidate, NoRun, TypeOK, install
<1>5. CASE HashInputs
  <2>1. CASE Warm /\ GateDone(FALSE, FALSE)
    BY <1>5, <2>1, GateDoneTypes DEF HashInputs, TypeOK, install
  <2>2. CASE seen' = content[Gate] /\ UNCHANGED run
    BY <1>5, <2>2, GateType DEF HashInputs, TypeOK, install
  <2>3. QED
    BY <1>5, <2>1, <2>2 DEF HashInputs
<1>6. CASE CheckInputs
  <2>1. PICK noted \in BOOLEAN, red \in BOOLEAN :
          /\ GateDone(red, noted)
          /\ stamp' = stamp \/ stamp' = [stamp EXCEPT ![Gate] = seen]
    BY <1>6 DEF CheckInputs
  <2>2. stamp' \in [Gates -> Contents \cup {NoStamp}]
    BY <2>1 DEF TypeOK
  <2>3. QED
    BY <1>6, <2>1, <2>2, GateDoneTypes DEF CheckInputs, TypeOK, install
<1>7. CASE EndValidate
  BY <1>7, <1>l DEF EndValidate, RunEnds, NoRun, TypeOK, install
<1>8. CASE EndGraduate
  BY <1>8, <1>l DEF EndGraduate, RunEnds, NoRun, TypeOK, Versions
<1>9. CASE UNCHANGED vars
  BY <1>9 DEF vars, install, TypeOK
<1>10. QED
  BY <1>1, <1>2, <1>3, <1>4, <1>5, <1>6, <1>7, <1>8, <1>9 DEF Next, StartGraduate

(* Every reachable state of the ramp is well typed.                        *)
THEOREM RampTypeCorrect == Spec => []TypeOK
  BY InitTypes, TypeStep, PTL DEF Spec

-----------------------------------------------------------------------------
(***************************************************************************)
(* The invariant.  A CI run that is not red has judged every gate behind   *)
(* it: one nobody edited since had its prerequisite and nothing live.      *)
(***************************************************************************)
Sound(g) == g \in ready /\ Live(g) = {}
JudgedSoFar ==
  run.by = "ci" /\ ~run.red =>
    \A j \in DOMAIN Chain : j < run.at /\ Chain[j] \notin edited => Sound(Chain[j])

\* `update' writes the scripts and the version of one release.
ToolsAreInstalled == tools = hv

IInv == TypeOK /\ JudgedSoFar /\ ToolsAreInstalled

(* What a gate would find depends on these alone.                          *)
LEMMA LiveStays ==
  ASSUME NEW g, UNCHANGED <<tools, hv, base>>, content'[g] = content[g]
  PROVE  Live(g)' = Live(g)
BY DEF Live, Found, Base

(* The invariant of the ramp is inductive.                                 *)
LEMMA IInvInductive == IInv /\ [Next]_vars => IInv'
<1> SUFFICES ASSUME IInv, [Next]_vars PROVE JudgedSoFar' /\ ToolsAreInstalled'
  BY TypeStep DEF IInv
<1> USE RampAssumption
<1>a. TypeOK
  BY DEF IInv
<1>1. ASSUME NEW g \in Gates, Edit(g) PROVE JudgedSoFar' /\ ToolsAreInstalled'
  <2>1. \A h \in Gates \ {g} : content'[h] = content[h] /\ (h \in ready <=> h \in ready')
    BY <1>1, <1>a DEF Edit, TypeOK
  <2>2. \A h \in Gates : h \notin edited' /\ Sound(h) => Sound(h)'
    BY <1>1, <2>1, LiveStays DEF Edit, install, Sound
  <2>3. QED
    BY <1>1, <2>2 DEF Edit, install, IInv, JudgedSoFar, ToolsAreInstalled
<1>2. CASE NewRelease
  BY <1>2, LiveStays DEF NewRelease, IInv, JudgedSoFar, ToolsAreInstalled, Sound
<1>3. CASE Update
  BY <1>3 DEF Update, NoRun, JudgedSoFar, ToolsAreInstalled
<1>4. ASSUME NEW by \in {"local", "ci", "graduate"}, StartValidate(by)
      PROVE  JudgedSoFar' /\ ToolsAreInstalled'
  BY <1>4 DEF StartValidate, NoRun, install, IInv, JudgedSoFar, ToolsAreInstalled
<1>5. CASE HashInputs
  <2>1. run.by = "ci" => UNCHANGED run
    BY <1>5 DEF HashInputs, Warm, InCI
  <2>2. run'.by = run.by
    BY <1>5, <1>a DEF HashInputs, GateDone, TypeOK
  <2>3. QED
    BY <1>5, <2>1, <2>2, LiveStays DEF HashInputs, install, IInv, JudgedSoFar, ToolsAreInstalled, Sound
<1>6. CASE CheckInputs
  <2> DEFINE noted == \E c \in Found(Gate) : c \notin Live(Gate)
             red   == \/ Live(Gate) \cap Static # {}
                      \/ Gate \in ready /\ Live(Gate) # {}
                      \/ Gate \notin ready /\ InCI
  <2>1. GateDone(red, noted)
    BY <1>6 DEF CheckInputs
  <2>2. run.by = "ci" /\ ~red => Sound(Gate)
    BY DEF InCI, Sound
  <2>3. UNCHANGED <<content, ready, tools, hv, base, edited>> /\ Running
    BY <1>6 DEF CheckInputs, install
  <2> HIDE DEF red, noted
  <2>4. /\ run'.by = run.by
        /\ ~run'.red => ~run.red /\ ~red /\ run'.at = run.at + 1
    BY <2>1, <1>a DEF GateDone, TypeOK
  <2>5. ASSUME run'.by = "ci", ~run'.red, NEW j \in DOMAIN Chain, j < run'.at, Chain[j] \notin edited
        PROVE  Sound(Chain[j])
    <3>1. j < run.at \/ j = run.at
      BY <2>4, <2>5, <1>a DEF TypeOK
    <3>2. QED
      BY <3>1, <2>2, <2>4, <2>5 DEF IInv, JudgedSoFar, Gate
  <2>6. \A g : Sound(g)' <=> Sound(g)
    BY <2>3, LiveStays DEF Sound
  <2>7. QED
    BY <2>3, <2>5, <2>6 DEF IInv, JudgedSoFar, ToolsAreInstalled
<1>7. CASE EndValidate
  BY <1>7 DEF EndValidate, RunEnds, NoRun, install, IInv, JudgedSoFar, ToolsAreInstalled
<1>8. CASE EndGraduate
  BY <1>8 DEF EndGraduate, RunEnds, NoRun, IInv, JudgedSoFar, ToolsAreInstalled
<1>9. CASE UNCHANGED vars
  BY <1>9, LiveStays DEF vars, install, IInv, JudgedSoFar, ToolsAreInstalled, Sound
<1>10. QED
  BY <1>1, <1>2, <1>3, <1>4, <1>5, <1>6, <1>7, <1>8, <1>9 DEF Next, StartGraduate

(* No run has judged anything at first.                                    *)
LEMMA InitIInv == Init => IInv
BY InitTypes DEF Init, NoRun, IInv, JudgedSoFar, ToolsAreInstalled

(* A green CI run is a real one, whatever stamps there are.                *)
THEOREM CITruthHolds == Spec => []CITruth
<1>1. IInv => CITruth
  <2> SUFFICES ASSUME IInv, run.by = "ci", run.at > Len(Chain), ~run.red,
                      NEW j \in DOMAIN Chain, Chain[j] \notin edited
               PROVE  Chain[j] \in ready /\ Live(Chain[j]) = {}
    BY DEF CITruth, ChainDone
  <2>1. j < run.at
    BY RampAssumption DEF IInv, TypeOK
  <2>2. QED
    BY <2>1 DEF IInv, JudgedSoFar, Sound
<1>2. QED
  BY <1>1, InitIInv, IInvInductive, PTL DEF Spec

(* No update turns a gate red that was not, for a project whose vintage is *)
(* not ahead of its scripts.                                               *)
THEOREM UpdatesDoNotAmbushHolds == Spec => UpdatesDoNotAmbush
<1>1. IInv /\ [Next]_vars =>
        [tools' # tools /\ Base <= hv =>
           \A g \in Gates : Live(g)' # {} => Live(g) # {}]_vars
  <2> SUFFICES ASSUME IInv, [Next]_vars, tools' # tools, Base <= hv, NEW g \in Gates
               PROVE  Live(g)' \subseteq Live(g)
    OBVIOUS
  <2> USE RampAssumption
  <2>1. Update
    BY DEF Next, Edit, NewRelease, StartValidate, StartGraduate, HashInputs, CheckInputs,
           EndValidate, EndGraduate, vars, install
  <2>2. Base \in Versions /\ Base' = Base
    BY <2>1, BaseType DEF Update, Base, IInv, Versions
  <2>3. \A c \in Live(g)' : c \in Checks /\ GateOf[c] = g /\ content[g] \in Violates[c]
                              /\ LiveFrom[c] <= Base
    BY <2>1, <2>2 DEF Live, Found, Update, Versions
  <2>4. \A c \in Live(g)' : LiveFrom[c] <= tools
    BY <2>2, <2>3 DEF IInv, TypeOK, ToolsAreInstalled, Versions
  <2>5. QED
    BY <2>2, <2>3, <2>4 DEF Live, Found, Versions
<1>2. QED
  BY <1>1, InitIInv, IInvInductive, PTL DEF Spec, UpdatesDoNotAmbush

-----------------------------------------------------------------------------
(***************************************************************************)
(* A run of graduate that is neither red nor noted has found nothing       *)
(* static behind it, in the gates that really ran.                         *)
(***************************************************************************)
Swept(g) == Found(g) \cap Static = {}
SweptSoFar ==
  run.by = "graduate" /\ ~run.red /\ ~run.noted =>
    \A j \in DOMAIN Chain : j < run.at /\ Chain[j] \notin edited \cup Stamped => Swept(Chain[j])

(* What a gate finds depends on these alone.                               *)
LEMMA FoundStays ==
  ASSUME NEW g, UNCHANGED tools, content'[g] = content[g]
  PROVE  Found(g)' = Found(g)
BY DEF Found

(* The sweep is inductive.                                                 *)
LEMMA SweptStep == TypeOK /\ SweptSoFar /\ [Next]_vars => SweptSoFar'
<1> SUFFICES ASSUME TypeOK, SweptSoFar, [Next]_vars PROVE SweptSoFar'
  OBVIOUS
<1> USE RampAssumption
<1>1. ASSUME NEW g \in Gates, Edit(g) PROVE SweptSoFar'
  <2>1. \A h \in Gates \ {g} : content'[h] = content[h]
    BY <1>1 DEF Edit, TypeOK
  <2>2. \A h \in Gates : h \notin edited' /\ Swept(h) => Swept(h)'
    BY <1>1, <2>1, FoundStays DEF Edit, install, Swept
  <2>3. QED
    BY <1>1, <2>2 DEF Edit, install, SweptSoFar
<1>2. CASE NewRelease
  BY <1>2, FoundStays DEF NewRelease, SweptSoFar, Swept
<1>3. CASE Update
  BY <1>3 DEF Update, NoRun, SweptSoFar
<1>4. ASSUME NEW by \in {"local", "ci", "graduate"}, StartValidate(by) PROVE SweptSoFar'
  BY <1>4 DEF StartValidate, NoRun, SweptSoFar
<1>5. CASE HashInputs
  <2>1. UNCHANGED <<content, tools, edited>> /\ Running
    BY <1>5 DEF HashInputs, install
  <2>2. \A g : Swept(g)' <=> Swept(g)
    BY <2>1, FoundStays DEF Swept
  <2>3. CASE UNCHANGED run
    BY <2>1, <2>2, <2>3 DEF SweptSoFar
  <2>4. CASE Warm /\ GateDone(FALSE, FALSE)
    <3>1. /\ run'.by = run.by /\ run'.at = run.at + 1 /\ run'.red = run.red /\ run'.noted = run.noted
          /\ Gate \in Stamped
      BY <2>4 DEF GateDone, TypeOK, Warm
    <3>2. \A j \in DOMAIN Chain : j < run.at + 1 => j < run.at \/ j = run.at
      BY DEF TypeOK
    <3>3. QED
      BY <2>1, <2>2, <3>1, <3>2 DEF SweptSoFar, Gate
  <2>5. QED
    BY <1>5, <2>3, <2>4 DEF HashInputs
<1>6. CASE CheckInputs
  <2> DEFINE noted == \E c \in Found(Gate) : c \notin Live(Gate)
             red   == \/ Live(Gate) \cap Static # {}
                      \/ Gate \in ready /\ Live(Gate) # {}
                      \/ Gate \notin ready /\ InCI
  <2>1. GateDone(red, noted)
    BY <1>6 DEF CheckInputs
  <2>2. ~red /\ ~noted => Swept(Gate)
    BY DEF Swept
  <2>3. UNCHANGED <<content, tools, edited>> /\ Running
    BY <1>6 DEF CheckInputs, install
  <2> HIDE DEF red, noted
  <2>4. /\ run'.by = run.by
        /\ ~run'.red => ~run.red /\ ~red /\ run'.at = run.at + 1
        /\ ~run'.noted => ~run.noted /\ ~noted
    BY <2>1 DEF GateDone, TypeOK
  <2>5. ASSUME run'.by = "graduate", ~run'.red, ~run'.noted, NEW j \in DOMAIN Chain, j < run'.at,
               Chain[j] \notin edited \cup Stamped
        PROVE  Swept(Chain[j])
    <3>1. j < run.at \/ j = run.at
      BY <2>4, <2>5 DEF TypeOK
    <3>2. QED
      BY <3>1, <2>2, <2>4, <2>5 DEF SweptSoFar, Gate
  <2>6. \A g : Swept(g)' <=> Swept(g)
    BY <2>3, FoundStays DEF Swept
  <2>7. QED
    BY <2>3, <2>5, <2>6 DEF SweptSoFar
<1>7. CASE EndValidate
  BY <1>7 DEF EndValidate, RunEnds, NoRun, SweptSoFar
<1>8. CASE EndGraduate
  BY <1>8 DEF EndGraduate, RunEnds, NoRun, SweptSoFar
<1>9. CASE UNCHANGED vars
  BY <1>9, FoundStays DEF vars, install, SweptSoFar, Swept
<1>10. QED
  BY <1>1, <1>2, <1>3, <1>4, <1>5, <1>6, <1>7, <1>8, <1>9 DEF Next, StartGraduate

(* graduate advances the vintage only when the static checks of the gates  *)
(* that really ran have nothing left to report, ramped ones included.      *)
THEOREM GraduateSweepsHolds == Spec => GraduateSweeps
<1>1. Init => SweptSoFar
  BY DEF Init, NoRun, SweptSoFar
<1>2. TypeOK /\ SweptSoFar /\ [Next]_vars =>
        [base' # base /\ ChainDone("graduate") =>
           \A j \in DOMAIN Chain :
             Chain[j] \notin edited \cup Stamped => Found(Chain[j]) \cap Static = {}]_vars
  <2> SUFFICES ASSUME TypeOK, SweptSoFar, [Next]_vars, base' # base, run.by = "graduate",
                      run.at > Len(Chain), NEW j \in DOMAIN Chain, Chain[j] \notin edited \cup Stamped
               PROVE  Swept(Chain[j])
    BY DEF ChainDone, Swept
  <2>1. EndGraduate /\ ~run.red /\ ~run.noted
    <3>1. ~Update
      BY DEF Update, NoRun
    <3>2. EndGraduate
      BY <3>1 DEF Next, Edit, NewRelease, StartValidate, StartGraduate, HashInputs, CheckInputs,
             EndValidate, vars, install
    <3>3. QED
      BY <3>2 DEF EndGraduate
  <2>2. j < run.at
    BY RampAssumption DEF TypeOK
  <2>3. QED
    BY <2>1, <2>2 DEF SweptSoFar
<1>3. QED
  BY <1>1, <1>2, InitTypes, TypeStep, SweptStep, PTL DEF Spec, GraduateSweeps
-----------------------------------------------------------------------------
(* Screens: what is green of a tree, and what a lane has seen of it.       *)

(* The manifest stays a list of entries, and a green verdict is of the tree *)
(* as it stands.                                                            *)
ScreensType ==
  /\ {"routes", "files"} \subseteq DOMAIN tree
  /\ tree.routes \in Seq(Entry) /\ tree.files \subseteq RouteFiles
GreenIsSo == gates = "green" => Green(tree)

(* Taking a member out of a sequence leaves a sequence of the same kind. *)
LEMMA RemoveAtType ==
  ASSUME NEW X, NEW s \in Seq(X), NEW i \in DOMAIN s
  PROVE  RemoveAt(s, i) \in Seq(X)
<1>1. Len(s) \in Nat /\ i \in 1..Len(s)
  OBVIOUS
<1>2. SubSeq(s, 1, i - 1) \in Seq(X)
  BY <1>1
<1>3. SubSeq(s, i + 1, Len(s)) \in Seq(X)
  BY <1>1
<1>4. QED
  BY <1>2, <1>3 DEF RemoveAt

(* Putting one in does. *)
LEMMA EntryChanged ==
  ASSUME NEW r \in Seq(Entry), NEW i \in DOMAIN r, NEW e \in Entry
  PROVE  [r EXCEPT ![i] = e] \in Seq(Entry)
OBVIOUS

(* Whatever becomes of the manifest, its entries have the fields of one.   *)
LEMMA RoutesEdited ==
  ASSUME ScreensType, EditRoutes
  PROVE  ScreensType'
<1> USE EntryAssumption
<1> DEFINE r == tree.routes
<1>0. r \in Seq(Entry)
  BY DEF ScreensType
<1>1. ASSUME NEW q \in Seq(Entry), tree' = [tree EXCEPT !.routes = q] PROVE ScreensType'
  BY <1>1 DEF ScreensType
<1>2. ASSUME NEW e \in NewEntries, tree' = [tree EXCEPT !.routes = Append(@, e)] PROVE ScreensType'
  <2>1. Append(r, e) \in Seq(Entry)
    BY <1>0
  <2>2. tree' = [tree EXCEPT !.routes = Append(r, e)]
    BY <1>2
  <2>3. QED
    BY <1>1, <2>1, <2>2
<1>3. ASSUME NEW i \in Entries(tree), tree' = [tree EXCEPT !.routes = RemoveAt(@, i)] PROVE ScreensType'
  <2>1. RemoveAt(r, i) \in Seq(Entry)
    BY <1>0, RemoveAtType DEF Entries
  <2>2. QED
    BY <1>1, <1>3, <2>1
<1>4. ASSUME NEW i \in Entries(tree), NEW e \in Entry,
             tree' = [tree EXCEPT !.routes = [r EXCEPT ![i] = e]]
      PROVE  ScreensType'
  BY <1>0, <1>1, <1>4, EntryChanged DEF Entries
<1>5. \A i \in Entries(tree) : r[i] \in Entry
  BY <1>0 DEF Entries
<1>6. ASSUME NEW i \in Entries(tree), NEW id \in RouteIds \cup {None},
             tree' = [tree EXCEPT !.routes[i].id = id]
      PROVE  ScreensType'
  <2>1. [r[i] EXCEPT !.id = id] \in Entry
    BY <1>5 DEF Entry
  <2>2. QED
    BY <1>4, <1>6, <2>1
<1>7. ASSUME NEW i \in Entries(tree), NEW p \in {DeriveRoutePath(f) : f \in RouteFiles} \cup {BadPath},
             tree' = [tree EXCEPT !.routes[i].path = p]
      PROVE  ScreensType'
  <2>1. [r[i] EXCEPT !.path = p] \in Entry
    BY <1>5 DEF Entry
  <2>2. QED
    BY <1>4, <1>7, <2>1
<1>8. ASSUME NEW i \in Entries(tree), NEW f \in RouteFiles, tree' = [tree EXCEPT !.routes[i].file = f]
      PROVE  ScreensType'
  <2>1. [r[i] EXCEPT !.file = f] \in Entry
    BY <1>5 DEF Entry
  <2>2. QED
    BY <1>4, <1>8, <2>1
<1>9. ASSUME NEW i \in Entries(tree), NEW k \in DOMAIN StateKeys, NEW s \in TestIds \cup {"null"},
             tree' = [tree EXCEPT !.routes[i].states[k] = s]
      PROVE  ScreensType'
  <2>1. [r[i].states EXCEPT ![k] = s] \in [DOMAIN StateKeys -> TestIds \cup {"null"}]
    BY <1>5 DEF Entry
  <2>2. [r[i] EXCEPT !.states = [r[i].states EXCEPT ![k] = s]] \in Entry
    BY <1>5, <2>1 DEF Entry
  <2>3. QED
    BY <1>4, <1>9, <2>2
<1>10. ASSUME NEW i \in Entries(tree), tree' = [tree EXCEPT !.routes[i].titled = ~@]
       PROVE  ScreensType'
  <2>1. [r[i] EXCEPT !.titled = ~r[i].titled] \in Entry
    BY <1>5 DEF Entry
  <2>2. QED
    BY <1>4, <1>10, <2>1
<1>11. QED
  BY <1>2, <1>3, <1>6, <1>7, <1>8, <1>9, <1>10 DEF EditRoutes

(* The lists of the tree keep their kinds.                                 *)
LEMMA ScreensTypeStep == ScreensType /\ [ScreensNext]_svars => ScreensType'
<1> SUFFICES ASSUME ScreensType, [ScreensNext]_svars PROVE ScreensType'
  OBVIOUS
<1>1. CASE EditScreens
  <2>1. CASE EditRoutes
    BY <2>1, RoutesEdited
  <2>2. CASE EditFiles
    <3>1. ASSUME NEW f \in RouteFiles, tree' = [tree EXCEPT !.files = Toggled(@, f)] PROVE ScreensType'
      BY <3>1 DEF ScreensType, Toggled
    <3>2. QED
      BY <2>2, <3>1 DEF EditFiles, ScreensType
  <2>3. CASE EditLists
    BY <2>3 DEF EditLists, ScreensType
  <2>4. CASE EditCaps
    BY <2>4 DEF EditCaps, ScreensType
  <2>5. QED
    BY <1>1, <2>1, <2>2, <2>3, <2>4 DEF EditScreens
<1>2. CASE UNCHANGED tree
  BY <1>2 DEF ScreensType
<1>3. QED
  BY <1>1, <1>2 DEF ScreensNext, svars, CheckScreens, StartLane, OpenRoute, SweepEnds, TimeRoute,
        StartupEnds, PerfHarness, ChangeBundle, LaneOver

(* Whatever changes the tree forgets the verdict.                          *)
LEMMA GreenStep == GreenIsSo /\ [ScreensNext]_svars => GreenIsSo'
<1> SUFFICES ASSUME GreenIsSo, [ScreensNext]_svars PROVE GreenIsSo'
  OBVIOUS
<1>1. CASE EditScreens
  BY <1>1 DEF EditScreens, GreenIsSo
<1>2. CASE CheckScreens
  BY <1>2, Zenon DEF CheckScreens, GreenIsSo
<1>3. CASE UNCHANGED <<tree, gates>>
  BY <1>3, Zenon DEF GreenIsSo
<1>4. QED
  BY <1>1, <1>2, <1>3 DEF ScreensNext, svars, StartLane, OpenRoute, SweepEnds, TimeRoute,
        StartupEnds, PerfHarness, ChangeBundle, LaneOver

(* What a green route manifest and a green closure say of a screen file.   *)
LEMMA GreenCovers ==
  ASSUME NEW t, t.routes \in Seq(Entry), Green(t)
  PROVE  /\ \A f \in t.files \ t.chrome :
              \E i \in Entries(t) :
                LET e == t.routes[i] IN
                /\ \A j \in Entries(t) : t.routes[j].file = f <=> j = i
                /\ e.path = DeriveRoutePath(f)
                /\ e.id \in t.flows /\ e.id \in DOMAIN t.budget /\ t.budget[e.id].cold > 0
                /\ \A j \in Entries(t), k, m \in DOMAIN StateKeys :
                     <<j, m>> # <<i, k>> =>
                       \/ e.states[k] = "null" /\ <<e.id, k>> \in t.unreachable
                       \/ e.states[k] # t.routes[j].states[m]
         /\ \A f, g \in t.files \ t.chrome : f # g => DeriveRoutePath(f) # DeriveRoutePath(g)
<1> DEFINE E == Entries(t)
           r == t.routes
<1>0. /\ \A j \in E : j \in Int
      /\ \A i, j \in E : j < i => j \in 1..i-1
      /\ \A k \in DOMAIN StateKeys : k \in Int
      /\ \A k, m \in DOMAIN StateKeys : m < k => m \in 1..k-1
  BY DEF Entries, StateKeys
<1>1. \A i \in E : EntryOk(t, i)
  BY DEF Green, RouteManifest
<1>2. \A i, j \in E : j < i => r[j].file # r[i].file /\ r[j].path # r[i].path
  BY <1>0, <1>1 DEF EntryOk, FileOk, PathOk, FileOwner, PathOwner
<1>3. \A i, j \in E : i # j => r[j].file # r[i].file /\ r[j].path # r[i].path
  BY <1>0, <1>2
<1>4. \A f \in t.files \ t.chrome : \E i \in E : r[i].file = f /\ r[i].path = DeriveRoutePath(f)
  <2> TAKE f \in t.files \ t.chrome
  <2>1. FileClaimed(t, f)
    BY DEF Green, RouteManifest
  <2>2. PICK i \in OwnersOf(t, f) : DeclaredPath(t, NameOf(t, i)) \subseteq {DeriveRoutePath(f)}
    BY <2>1 DEF FileClaimed
  <2>3. i \in E /\ r[i].file = f
    BY <2>2 DEF OwnersOf
  <2>4. r[i].path \in DeclaredPath(t, NameOf(t, i))
    BY <1>1, <2>3 DEF DeclaredPath, EntryOk, PathOk
  <2>5. QED
    BY <2>2, <2>3, <2>4
<1>5. ASSUME NEW i \in E
      PROVE  r[i].id \in t.flows /\ r[i].id \in DOMAIN t.budget /\ t.budget[r[i].id].cold > 0
  <2>1. r[i].id \in IdsOf(t)
    BY <1>1 DEF IdsOf, EntryOk, IdOk
  <2>2. QED
    BY <2>1 DEF Green, Closure
<1>6. ASSUME NEW i \in E, NEW j \in E, NEW k \in DOMAIN StateKeys, NEW m \in DOMAIN StateKeys,
             <<j, m>> # <<i, k>>, r[i].states[k] = r[j].states[m]
      PROVE  r[i].states[k] = "null" /\ <<r[i].id, k>> \in t.unreachable
  <2>1. StateOk(t, i, k) /\ StateOk(t, j, m) /\ NameOf(t, i) = r[i].id
    BY <1>1 DEF EntryOk, IdOk, NameOf
  <2>2. SUFFICES ASSUME TestIdFree(t, i, k), TestIdFree(t, j, m) PROVE FALSE
    BY <1>6, <2>1, ScreensAssumption DEF StateOk
  <2>3. j < i \/ i < j \/ (i = j /\ m < k) \/ (i = j /\ k < m)
    BY <1>0, <1>6
  <2>4. QED
    BY <1>0, <1>6, <2>2, <2>3 DEF TestIdFree
<1>7. ASSUME NEW f \in t.files \ t.chrome
      PROVE  \E i \in E :
               LET e == t.routes[i] IN
               /\ \A j \in E : t.routes[j].file = f <=> j = i
               /\ e.path = DeriveRoutePath(f)
               /\ e.id \in t.flows /\ e.id \in DOMAIN t.budget /\ t.budget[e.id].cold > 0
               /\ \A j \in E, k, m \in DOMAIN StateKeys :
                    <<j, m>> # <<i, k>> =>
                      \/ e.states[k] = "null" /\ <<e.id, k>> \in t.unreachable
                      \/ e.states[k] # t.routes[j].states[m]
  <2>1. PICK i \in E : r[i].file = f /\ r[i].path = DeriveRoutePath(f)
    BY <1>4
  <2>2. \A j \in E : r[j].file = f <=> j = i
    BY <1>3, <2>1
  <2>3. \A j \in E, k, m \in DOMAIN StateKeys :
          <<j, m>> # <<i, k>> =>
            \/ r[i].states[k] = "null" /\ <<r[i].id, k>> \in t.unreachable
            \/ r[i].states[k] # r[j].states[m]
    BY <1>6
  <2> HIDE DEF E
  <2>4. QED
    BY <1>5, <2>1, <2>2, <2>3, Zenon
<1>8. \A f, g \in t.files \ t.chrome : f # g => DeriveRoutePath(f) # DeriveRoutePath(g)
  BY <1>3, <1>4
<1>9. QED
  BY <1>7, <1>8

(* On a green tree every file the router serves has one entry, at its URL,  *)
(* with states, a flow and a cap of its own, or is chrome.                  *)
THEOREM ScreensAreCoveredHolds == ScreensSpec => []ScreensAreCovered
<1>1. ScreensInit => ScreensType /\ GreenIsSo
  BY DEF ScreensInit, ScreensType, GreenIsSo
<1>2. ScreensType /\ GreenIsSo => ScreensAreCovered
  BY GreenCovers, Zenon DEF ScreensType, GreenIsSo, ScreensAreCovered
<1>3. QED
  BY <1>1, <1>2, ScreensTypeStep, GreenStep, PTL DEF ScreensSpec

(* The device lane. What the sweep and the startup step have seen so far.  *)
Verdicts == {"perf-pass", "perf-fail"}
SweptTo(n) == \A i \in Entries(tree) : i < n => Visible(i)
TimedTo(n) ==
  \A i \in Entries(tree) : i < n =>
    /\ tree.routes[i].id \in DOMAIN lane.results
    /\ \A f \in tree.files : Shown(tree.routes[i].path) = {f} =>
         lane.results[tree.routes[i].id].cold = lane.boot[f]
AllSeen ==
  /\ SweptTo(Len(tree.routes) + 1) /\ TimedTo(Len(tree.routes) + 1)
  /\ Measured(tree, lane.results)

LaneType ==
  /\ lane = [pc |-> lane.pc, at |-> lane.at, boot |-> lane.boot, results |-> lane.results,
             bundle |-> lane.bundle, app |-> lane.app, again |-> lane.again]
  /\ lane.pc \in {None, "sweep", "startup", "perf", "green", "red"} /\ lane.at \in Nat

(* A lane runs on a green tree, has seen what it has passed, and shows no   *)
(* verdict of the harness before it has seen and timed every screen.        *)
LaneInv ==
  /\ LaneType
  /\ lane.pc # None => Green(tree) /\ lane.boot \in [tree.files -> 1..MaxCap]
  /\ lane.pc = "sweep" => SweptTo(lane.at)
  /\ lane.pc = "startup" => SweptTo(Len(tree.routes) + 1) /\ TimedTo(lane.at)
  /\ lane.pc \in {"sweep", "startup"} => lane.app \notin Verdicts
  /\ lane.pc \in {"perf", "green"} \/ lane.app \in Verdicts => AllSeen
  /\ lane.pc = "green" => lane.bundle = "fast"

(* A new value for an id leaves the others as they were.                   *)
LEMMA ResultAdded ==
  ASSUME NEW id, NEW v, NEW f
  PROVE  /\ id \in DOMAIN With(f, id, v) /\ With(f, id, v)[id] = v
         /\ \A y \in DOMAIN f : y \in DOMAIN With(f, id, v)
         /\ \A y \in DOMAIN f : y # id => With(f, id, v)[y] = f[y]
BY DEF With

(* The screens of a green tree have ids of their own.                      *)
LEMMA IdsDiffer ==
  ASSUME tree.routes \in Seq(Entry), Green(tree)
  PROVE  \A i, j \in Entries(tree) : j < i => tree.routes[j].id # tree.routes[i].id
<1>1. \A i, j \in Entries(tree) : j < i => j \in 1..i-1
  BY DEF Entries
<1>2. QED
  BY <1>1 DEF Green, RouteManifest, EntryOk, IdOk

(* What no step touches stays so.                                          *)
LEMMA LaneStays ==
  ASSUME LaneInv, UNCHANGED <<tree, lane>>
  PROVE  LaneInv'
BY DEF LaneInv, LaneType, SweptTo, TimedTo, AllSeen, Visible, Shown

(* The sweep passes a screen only when it is seen.                         *)
LEMMA OpenRouteStep == ScreensType /\ LaneInv /\ OpenRoute => LaneInv'
<1> SUFFICES ASSUME ScreensType, LaneInv, OpenRoute PROVE LaneInv'
  OBVIOUS
<1> DEFINE n == lane.at
<1>0. UNCHANGED tree /\ lane.pc = "sweep" /\ n \in Nat /\ SweptTo(n) /\ lane.app \notin Verdicts
  BY DEF OpenRoute, LaneInv, LaneType
<1>1. CASE Fail
  BY <1>0, <1>1 DEF Fail, LaneInv, LaneType, SweptTo, TimedTo, AllSeen, None
<1>2. CASE Visible(n) /\ lane' = [lane EXCEPT !.at = n + 1, !.app = "elsewhere"]
  <2>1. lane' = [lane EXCEPT !.at = n + 1, !.app = "elsewhere"]
    BY <1>2
  <2>2. lane'.pc = "sweep" /\ lane'.at = n + 1 /\ lane'.app = "elsewhere" /\ lane'.boot = lane.boot
    BY <1>0, <2>1 DEF LaneInv, LaneType, None
  <2>3. LaneType'
    <3>1. lane' = [pc |-> lane.pc, at |-> n + 1, boot |-> lane.boot, results |-> lane.results,
                   bundle |-> lane.bundle, app |-> "elsewhere", again |-> lane.again]
      BY <2>1 DEF LaneInv, LaneType
    <3>2. QED
      BY <1>0, <3>1 DEF LaneType
  <2>4. SweptTo(n + 1)
    <3>1. \A i \in Entries(tree) : i \in Int
      BY DEF ScreensType, Entries
    <3>2. QED
      BY <1>0, <1>2, <3>1 DEF SweptTo
  <2>5. SweptTo(lane.at)'
    BY <1>0, <2>2, <2>4 DEF SweptTo, Visible, Shown
  <2>6. QED
    BY <1>0, <2>2, <2>3, <2>5 DEF LaneInv, Verdicts, None
<1>3. QED
  BY <1>1, <1>2 DEF OpenRoute

(* A sweep that ends has seen them all.                                    *)
LEMMA SweepEndsStep == ScreensType /\ LaneInv /\ SweepEnds => LaneInv'
<1> SUFFICES ASSUME ScreensType, LaneInv, SweepEnds PROVE LaneInv'
  OBVIOUS
<1>0. /\ UNCHANGED tree /\ lane.pc = "sweep" /\ lane.at \in Nat
      /\ SweptTo(lane.at) /\ lane.app \notin Verdicts
  BY DEF SweepEnds, LaneInv, LaneType
<1>1. lane' = [lane EXCEPT !.pc = "startup", !.at = 1] /\ lane.at > Len(tree.routes)
  BY DEF SweepEnds
<1>2. /\ lane'.pc = "startup" /\ lane'.at = 1 /\ lane'.app = lane.app /\ lane'.boot = lane.boot
      /\ LaneType'
  BY <1>0, <1>1 DEF LaneInv, LaneType, None
<1>3. \A i \in Entries(tree) : i \in 1..Len(tree.routes) /\ Len(tree.routes) \in Nat
  BY DEF ScreensType, Entries
<1>4. SweptTo(Len(tree.routes) + 1)
  BY <1>0, <1>1, <1>3 DEF SweptTo
<1>5. SweptTo(Len(tree.routes) + 1)'
  BY <1>0, <1>4 DEF SweptTo, Visible, Shown
<1>6. TimedTo(lane.at)'
  BY <1>0, <1>2, <1>3 DEF TimedTo, Entries
<1>7. QED
  BY <1>0, <1>2, <1>5, <1>6 DEF LaneInv, Verdicts, None

(* The median of three boots, of which one at most is slow, is the time a  *)
(* screen takes.                                                           *)
LEMMA TimeRouteStep == ScreensType /\ LaneInv /\ TimeRoute /\ ~Fail => LaneInv'
<1> SUFFICES ASSUME ScreensType, LaneInv, TimeRoute, ~Fail PROVE LaneInv'
  OBVIOUS
<1> DEFINE n == lane.at
           f == CHOOSE g \in Shown(tree.routes[n].path) : TRUE
<1>0. /\ UNCHANGED tree /\ lane.pc = "startup" /\ n \in Nat /\ n <= Len(tree.routes)
      /\ SweptTo(Len(tree.routes) + 1) /\ TimedTo(n) /\ lane.app \notin Verdicts
      /\ Green(tree) /\ lane.boot \in [tree.files -> 1..MaxCap]
  BY DEF TimeRoute, LaneInv, LaneType, None
<1>1. PICK spiked \in 1..3, t \in 1..MaxCap, warm \in 0..MaxCap :
        LET cold == Median([k \in 1..3 |-> IF k = spiked THEN t ELSE lane.boot[f]])
        IN lane' = [lane EXCEPT !.at = n + 1,
                      !.results = With(@, tree.routes[n].id, [cold |-> cold, warm |-> warm])]
  BY DEF TimeRoute
<1> DEFINE cold == Median([k \in 1..3 |-> IF k = spiked THEN t ELSE lane.boot[f]])
           added == With(lane.results, tree.routes[n].id, [cold |-> cold, warm |-> warm])
<1>2. lane' = [lane EXCEPT !.at = n + 1, !.results = added]
  BY <1>1
<1>3. ASSUME NEW g \in tree.files, Shown(tree.routes[n].path) = {g} PROVE cold = lane.boot[g]
  <2>1. f = g
    BY <1>3
  <2>2. lane.boot[g] \in Int /\ t \in Int
    BY <1>0
  <2> DEFINE s == [k \in 1..3 |-> IF k = spiked THEN t ELSE lane.boot[f]]
  <2>3. s \in [1..3 -> Int] /\ \A k \in 1..3 : k # spiked => s[k] = lane.boot[g]
    BY <2>1, <2>2
  <2> HIDE DEF s, f
  <2>4. Median(s) = lane.boot[g]
    BY <2>2, <2>3, MedianIs
  <2>5. QED
    BY <2>4 DEF s
<1> HIDE DEF f, cold
<1>4. /\ tree.routes[n].id \in DOMAIN added /\ added[tree.routes[n].id].cold = cold
      /\ \A y \in DOMAIN lane.results : y \in DOMAIN added
      /\ \A y \in DOMAIN lane.results : y # tree.routes[n].id => added[y] = lane.results[y]
  BY ResultAdded
<1> HIDE DEF added
<1>5. /\ lane'.pc = "startup" /\ lane'.at = n + 1 /\ lane'.app = lane.app /\ lane'.boot = lane.boot
      /\ lane'.results = added /\ LaneType'
  <2>1. lane' = [pc |-> lane.pc, at |-> n + 1, boot |-> lane.boot, results |-> added,
                 bundle |-> lane.bundle, app |-> lane.app, again |-> lane.again]
    BY <1>2 DEF LaneInv, LaneType
  <2>2. QED
    BY <1>0, <2>1 DEF LaneType
<1>6. SweptTo(Len(tree.routes) + 1)'
  BY <1>0 DEF SweptTo, Visible, Shown
<1>7. ASSUME NEW i \in Entries(tree), i < n + 1
      PROVE  /\ tree.routes[i].id \in DOMAIN added
             /\ \A g \in tree.files : Shown(tree.routes[i].path) = {g} =>
                  added[tree.routes[i].id].cold = lane.boot[g]
  <2>1. i \in Int /\ (n \in Entries(tree) \/ i = n)
    BY <1>0, <1>7 DEF ScreensType, Entries
  <2>2. CASE i = n
    BY <1>3, <1>4, <2>2
  <2>3. CASE i # n
    <3>1. i < n /\ n \in Entries(tree)
      BY <1>0, <1>7, <2>1, <2>3
    <3>2. tree.routes[i].id # tree.routes[n].id
      BY <1>0, <3>1, IdsDiffer DEF ScreensType
    <3>3. QED
      BY <1>0, <1>4, <3>1, <3>2 DEF TimedTo
  <2>4. QED
    BY <2>2, <2>3
<1>8. TimedTo(lane.at)'
  BY <1>0, <1>5, <1>7 DEF TimedTo, Entries, Shown
<1>9. QED
  BY <1>0, <1>5, <1>6, <1>8 DEF LaneInv, Verdicts, None

(* A cold start that fails leaves a red lane.                              *)
LEMMA TimeRouteFails == LaneInv /\ TimeRoute /\ Fail => LaneInv'
BY DEF TimeRoute, Fail, LaneInv, LaneType, SweptTo, TimedTo, AllSeen, None, Verdicts

(* A startup step that ends has timed every screen within its cap.         *)
LEMMA StartupEndsStep == ScreensType /\ LaneInv /\ StartupEnds => LaneInv'
<1> SUFFICES ASSUME ScreensType, LaneInv, StartupEnds PROVE LaneInv'
  OBVIOUS
<1>0. /\ UNCHANGED tree /\ lane.pc = "startup" /\ lane.at \in Nat /\ lane.at > Len(tree.routes)
      /\ SweptTo(Len(tree.routes) + 1) /\ TimedTo(lane.at) /\ lane.app \notin Verdicts
  BY DEF StartupEnds, LaneInv, LaneType
<1>1. CASE Fail
  BY <1>0, <1>1 DEF Fail, LaneInv, LaneType, SweptTo, TimedTo, AllSeen, None
<1>2. CASE Measured(tree, lane.results) /\ lane' = [lane EXCEPT !.pc = "perf"]
  <2>1. \A i \in Entries(tree) : i \in 1..Len(tree.routes) /\ Len(tree.routes) \in Nat
    BY DEF ScreensType, Entries
  <2>2. AllSeen
    BY <1>0, <1>2, <2>1 DEF AllSeen, TimedTo
  <2>3. /\ lane'.pc = "perf" /\ lane'.app = lane.app /\ lane'.boot = lane.boot
        /\ lane'.results = lane.results /\ LaneType'
    BY <1>0, <1>2 DEF LaneInv, LaneType, None
  <2>4. AllSeen'
    BY <1>0, <2>2, <2>3 DEF AllSeen, SweptTo, TimedTo, Entries, Visible, Shown
  <2>5. QED
    BY <1>0, <2>3, <2>4 DEF LaneInv, Verdicts, None
<1>3. QED
  BY <1>1, <1>2 DEF StartupEnds

(* The harness answers when everything is seen.                            *)
LEMMA PerfStep == LaneInv /\ (PerfHarness \/ ChangeBundle) => LaneInv'
<1> SUFFICES ASSUME LaneInv, PerfHarness \/ ChangeBundle PROVE LaneInv'
  OBVIOUS
<1>1. AllSeen /\ UNCHANGED tree /\ lane.pc # None
  BY DEF LaneInv, PerfHarness, ChangeBundle, Verdicts, None
<1>2. /\ LaneType' /\ lane'.pc \in {"perf", "green", "red"}
      /\ lane'.boot = lane.boot /\ lane'.results = lane.results
  BY DEF PerfHarness, ChangeBundle, LaneInv, LaneType, Fail
<1>3. AllSeen'
  BY <1>1, <1>2 DEF AllSeen, SweptTo, TimedTo, Entries, Visible, Shown
<1>4. lane'.pc = "green" => lane'.bundle = "fast"
  BY DEF PerfHarness, ChangeBundle, LaneInv, LaneType, Fail, Stopped, Verdict
<1>5. QED
  BY <1>1, <1>2, <1>3, <1>4 DEF LaneInv, None

(* The invariant of the lane is inductive.                                 *)
LEMMA LaneInvStep == ScreensType /\ GreenIsSo /\ LaneInv /\ [ScreensNext]_svars => LaneInv'
<1> SUFFICES ASSUME ScreensType, GreenIsSo, LaneInv, [ScreensNext]_svars PROVE LaneInv'
  OBVIOUS
<1>1. CASE EditScreens
  <2>1. lane' = NoLane
    BY <1>1 DEF EditScreens
  <2>2. QED
    BY <2>1 DEF NoLane, LaneInv, LaneType, Verdicts, None
<1>2. CASE StartLane
  <2>1. PICK boot \in [tree.files -> 1..MaxCap] :
          lane' = [NoLane EXCEPT !.pc = "sweep", !.boot = boot]
    BY <1>2 DEF StartLane
  <2>2. \A i \in Entries(tree) : ~(i < 1)
    BY DEF Entries, ScreensType
  <2>3. Green(tree) /\ UNCHANGED tree
    BY <1>2 DEF StartLane, GreenIsSo
  <2>4. QED
    BY <2>1, <2>2, <2>3 DEF NoLane, LaneInv, LaneType, Verdicts, None, SweptTo, Entries
<1>3. CASE LaneOver
  BY <1>3 DEF LaneOver, NoLane, LaneInv, LaneType, Verdicts, None
<1>4. CASE UNCHANGED <<tree, lane>>
  BY <1>4, LaneStays
<1>5. QED
  BY <1>1, <1>2, <1>3, <1>4, OpenRouteStep, SweepEndsStep, TimeRouteStep, TimeRouteFails, StartupEndsStep,
     PerfStep
     DEF ScreensNext, svars, CheckScreens

(* A green lane vouches for what it says.                                  *)
LEMMA LaneKeepsWord == ScreensType /\ LaneInv => LaneVouches
<1> SUFFICES ASSUME ScreensType, LaneInv, lane.pc = "green" PROVE LaneVouches
  BY DEF LaneVouches
<1>1. AllSeen /\ Green(tree) /\ lane.bundle = "fast"
  BY DEF LaneInv, None
<1>2. ASSUME NEW f \in tree.files \ tree.chrome, Shown(DeriveRoutePath(f)) = {f}
      PROVE  \E id \in DOMAIN tree.budget :
               tree.container[f] = id /\ lane.boot[f] <= tree.budget[id].cold
  <2>1. PICK i \in Entries(tree) :
          tree.routes[i].path = DeriveRoutePath(f) /\ tree.routes[i].id \in DOMAIN tree.budget
    BY <1>1, GreenCovers, Zenon DEF ScreensType
  <2>2. i < Len(tree.routes) + 1
    BY DEF ScreensType, Entries
  <2>3. Visible(i) /\ lane.results[tree.routes[i].id].cold = lane.boot[f]
    BY <1>1, <1>2, <2>1, <2>2 DEF AllSeen, SweptTo, TimedTo
  <2>4. tree.container[f] = tree.routes[i].id
    BY <1>2, <2>1, <2>3 DEF Visible
  <2>5. lane.results[tree.routes[i].id].cold <= tree.budget[tree.routes[i].id].cold
    BY <1>1, <2>1 DEF AllSeen, Measured, Within
  <2>6. QED
    BY <2>1, <2>3, <2>4, <2>5
<1>3. QED
  BY <1>1, <1>2 DEF LaneVouches

(* A green lane has seen every screen of a green tree and timed it within   *)
(* its cap, and its perf harness passed.                                   *)
THEOREM LaneVouchesHolds == ScreensSpec => []LaneVouches
<1>1. ScreensInit => ScreensType /\ GreenIsSo /\ LaneInv
  BY DEF ScreensInit, ScreensType, GreenIsSo, NoLane, LaneInv, LaneType, Verdicts, None
<1>2. QED
  BY <1>1, ScreensTypeStep, GreenStep, LaneInvStep, LaneKeepsWord, PTL DEF ScreensSpec
-----------------------------------------------------------------------------
(* Design.                                                                 *)

(* The manifest is one the schema lets through, and a green review is of    *)
(* the manifest, the module and the sources as they stand.                 *)
ManifestInv ==
  /\ manifest \in Manifest
  /\ On(manifest, "base") => On(manifest, "controlPrimitives")
ReviewIsSo == review = "green" => Styleguide(manifest, module, source)

(* A theme a colour of which changes, comes or goes is a theme.            *)
LEMMA PaletteEdits ==
  ASSUME NEW p \in Palettes, NEW t \in Tokens
  PROVE  /\ \A ink \in Inks \cup {OutOfGamut} : With(p, t, ink) \in Palettes
         /\ Less(p, t) \in Palettes
<1>1. PICK S \in SUBSET Tokens : p \in [S -> Inks \cup {OutOfGamut}]
  BY DEF Palettes
<1>2. Less(p, t) \in [S \ {t} -> Inks \cup {OutOfGamut}]
  BY <1>1 DEF Less
<1>3. ASSUME NEW ink \in Inks \cup {OutOfGamut}
      PROVE  With(p, t, ink) \in [S \cup {t} -> Inks \cup {OutOfGamut}]
  BY <1>1 DEF With
<1>4. S \ {t} \in SUBSET Tokens /\ S \cup {t} \in SUBSET Tokens
  OBVIOUS
<1>5. QED
  BY <1>2, <1>3, <1>4 DEF Palettes

(* Every edit leaves a manifest the generator reads.                       *)
LEMMA ManifestStep == ManifestInv /\ [DesignNext]_dvars => ManifestInv'
<1> SUFFICES ASSUME ManifestInv, [DesignNext]_dvars PROVE ManifestInv'
  OBVIOUS
<1> DEFINE m == manifest
           Kinds == UNION {[T -> Palettes] : T \in SUBSET Themes}
<1>0. m \in Manifest /\ (On(m, "base") => On(m, "controlPrimitives"))
  BY DEF ManifestInv
<1>t. PICK T \in SUBSET Themes : m.themes \in [T -> Palettes]
  BY <1>0 DEF Manifest
<1>a. ASSUME NEW th \in Kinds, manifest' = [manifest EXCEPT !.themes = th] PROVE ManifestInv'
  BY <1>0, <1>a DEF Manifest, ManifestInv, On
<1>b. ASSUME NEW th \in DOMAIN m.themes, NEW p \in Palettes,
             manifest' = [manifest EXCEPT !.themes = [m.themes EXCEPT ![th] = p]]
      PROVE  ManifestInv'
  <2>1. [m.themes EXCEPT ![th] = p] \in [T -> Palettes]
    BY <1>t, <1>b
  <2>2. QED
    BY <1>a, <1>b, <2>1
<1>1. CASE EditTokens
  <2>1. ASSUME NEW t \in Tokens, manifest' = [manifest EXCEPT !.tokens = Toggled(@, t)]
        PROVE  ManifestInv'
    BY <1>0, <2>1 DEF Manifest, ManifestInv, On, Toggled
  <2>2. ASSUME NEW th \in DOMAIN m.themes, NEW t \in Tokens, NEW ink \in Inks \cup {OutOfGamut},
               manifest' = [manifest EXCEPT !.themes[th] = With(@, t, ink)]
        PROVE  ManifestInv'
    <3>1. With(m.themes[th], t, ink) \in Palettes
      BY <1>t, PaletteEdits
    <3>2. QED
      BY <1>b, <2>2, <3>1
  <2>3. ASSUME NEW th \in DOMAIN m.themes, NEW t \in Tokens,
               manifest' = [manifest EXCEPT !.themes[th] = Less(@, t)]
        PROVE  ManifestInv'
    <3>1. Less(m.themes[th], t) \in Palettes
      BY <1>t, PaletteEdits
    <3>2. QED
      BY <1>b, <2>3, <3>1
  <2>4. ASSUME NEW th \in DOMAIN m.themes, manifest' = [manifest EXCEPT !.themes = Less(@, th)]
        PROVE  ManifestInv'
    <3>1. Less(m.themes, th) \in [T \ {th} -> Palettes] /\ T \ {th} \in SUBSET Themes
      BY <1>t DEF Less
    <3>2. QED
      BY <1>a, <2>4, <3>1
  <2>5. ASSUME NEW pair \in Pairs, manifest' = [manifest EXCEPT !.contrast = Toggled(@, pair)]
        PROVE  ManifestInv'
    BY <1>0, <2>5 DEF Manifest, ManifestInv, On, Toggled
  <2>6. ASSUME manifest' = [manifest EXCEPT !.paired = ~@] PROVE ManifestInv'
    BY <1>0, <2>6 DEF Manifest, ManifestInv, On
  <2>7. QED
    BY <1>1, <2>1, <2>2, <2>3, <2>4, <2>5, <2>6 DEF EditTokens
<1>2. CASE EditScans
  <2>1. ASSUME NEW s \in Sections, s = "controlPrimitives" => ~On(manifest, "base"),
               s = "base" => On(manifest, "controlPrimitives"),
               manifest' = [manifest EXCEPT !.sections = Toggled(@, s)]
        PROVE  ManifestInv'
    <3>1. manifest' \in Manifest /\ manifest'.sections = Toggled(m.sections, s)
      BY <1>0, <2>1 DEF Manifest, Toggled
    <3>2. QED
      BY <1>0, <2>1, <3>1 DEF ManifestInv, On, Toggled
  <2>2. ASSUME NEW f \in Sources, \/ manifest' = [manifest EXCEPT !.allow = Toggled(@, f)]
                                  \/ manifest' = [manifest EXCEPT !.controlAllow = Toggled(@, f)]
                                  \/ manifest' = [manifest EXCEPT !.statusAllow = Toggled(@, f)]
        PROVE  ManifestInv'
    BY <1>0, <2>2 DEF Manifest, ManifestInv, On, Toggled
  <2>3. QED
    BY <1>2, <2>1, <2>2 DEF EditScans
<1>3. CASE UNCHANGED manifest
  BY <1>3 DEF ManifestInv, On
<1>4. QED
  BY <1>1, <1>2, <1>3 DEF DesignNext, dvars, EditSource, EditModule, Regenerate, Review

(* Whatever changes the design forgets the review.                         *)
LEMMA ReviewStep == ReviewIsSo /\ [DesignNext]_dvars => ReviewIsSo'
<1> SUFFICES ASSUME ReviewIsSo, [DesignNext]_dvars PROVE ReviewIsSo'
  OBVIOUS
<1>1. CASE review' = "none"
  BY <1>1 DEF ReviewIsSo
<1>2. CASE Review
  BY <1>2, Zenon DEF Review, ReviewIsSo
<1>3. CASE UNCHANGED <<manifest, module, source, review>>
  BY <1>3, Zenon DEF ReviewIsSo
<1>4. QED
  BY <1>1, <1>2, <1>3 DEF DesignNext, dvars, EditTokens, EditScans, EditSource, EditModule,
        Changed, Regenerate

(* Two colours that are far enough apart are as far apart as bytes, but for *)
(* one step of the scale.                                                   *)
LEMMA BytesApart ==
  ASSUME NEW a \in Nat, NEW b \in Nat, NEW min \in Nat, Distance(a, b) >= min
  PROVE  2 * Distance(Byte(a), Byte(b)) + 1 >= min
<1>1. /\ Byte(a) \in Nat /\ (a = 2 * Byte(a) \/ a = 2 * Byte(a) + 1)
      /\ Byte(b) \in Nat /\ (b = 2 * Byte(b) \/ b = 2 * Byte(b) + 1)
  BY DEF Byte
<1>2. QED
  BY <1>1 DEF Distance

(* What a green review says of the paint.                                  *)
LEMMA GreenPaints ==
  ASSUME ManifestInv, Styleguide(manifest, module, source),
         NEW th \in DOMAIN module.palettes, NEW pair \in manifest.contrast
  PROVE  /\ {pair.fg, pair.bg} \subseteq DOMAIN module.palettes[th]
         /\ 2 * Distance(module.palettes[th][pair.fg], module.palettes[th][pair.bg]) + 1 >= pair.min
<1> DEFINE ink == manifest.themes[th]
<1>1. Renders(manifest) /\ module = Rendered(manifest)
  BY DEF Styleguide, RegenClean
<1>2. /\ DOMAIN module.palettes = DOMAIN manifest.themes
      /\ module.palettes[th] = [t \in manifest.tokens |-> Byte(ink[t])]
  BY <1>1 DEF Rendered
<1>3. Clears(manifest, th, pair) /\ DOMAIN ink = manifest.tokens
  BY <1>1, <1>2 DEF Renders
<1>4. ink \in Palettes
  BY <1>2 DEF ManifestInv, Manifest
<1>5. \A t \in DOMAIN ink : InGamut(ink[t]) => ink[t] \in Nat
  BY <1>4, DesignAssumption DEF Palettes, InGamut
<1> HIDE DEF ink
<1>6. /\ {pair.fg, pair.bg} \subseteq manifest.tokens /\ ink[pair.fg] \in Nat /\ ink[pair.bg] \in Nat
      /\ Distance(ink[pair.fg], ink[pair.bg]) >= pair.min
  BY <1>3, <1>5 DEF Clears, ink
<1>7. pair.min \in Nat
  BY DesignAssumption DEF ManifestInv, Manifest
<1>8. QED
  BY <1>2, <1>6, <1>7, BytesApart

(* What a green review says of the sources.                                *)
LEMMA GreenSources ==
  ASSUME ManifestInv, Walk(manifest, source), NEW f \in Sources
  PROVE  /\ "raw" \in source[f] => f \in manifest.allow
         /\ On(manifest, "base") /\ On(manifest, "sizing") /\ f # Seam /\ f \notin manifest.controlAllow =>
              /\ "pressable" \in source[f] => f = TouchableBase
              /\ Styles(source[f]) => f \in Home /\ "minTarget" \in source[f]
<1>1. /\ NoEscapes(manifest, f, source[f]) /\ Touchable(manifest, f, source[f])
      /\ Exemptions(manifest, source)
  BY DEF Walk
<1>2. "raw" \in source[f] => f \in manifest.allow
  BY <1>1 DEF NoEscapes
<1>3. ASSUME On(manifest, "base"), On(manifest, "sizing"), f # Seam, f \notin manifest.controlAllow
      PROVE  /\ "pressable" \in source[f] => f = TouchableBase
             /\ Styles(source[f]) => f \in Home /\ "minTarget" \in source[f]
  <2>1. On(manifest, "controlPrimitives")
    BY <1>3 DEF ManifestInv
  <2>2. Styles(source[f]) => f \in Home
    BY <1>1, <1>3, <2>1 DEF Exemptions, Forks, Tsx
  <2>3. "pressable" \in source[f] => Styles(source[f])
    BY DEF Styles, Controls
  <2>4. QED
    BY <1>1, <1>3, <2>1, <2>2, <2>3 DEF Touchable
<1>4. QED
  BY <1>2, <1>3

(* On a green tree every listed pair is readable as it is painted, and a     *)
(* source that paints something else is exempt by name.                     *)
THEOREM PaintIsReadableHolds == DesignSpec => []PaintIsReadable
<1>1. DesignInit => ManifestInv /\ ReviewIsSo
  BY DEF DesignInit, ManifestInv, ReviewIsSo
<1>2. ManifestInv /\ ReviewIsSo => PaintIsReadable
  <2> SUFFICES ASSUME ManifestInv, Styleguide(manifest, module, source) PROVE PaintIsReadable
    BY DEF ReviewIsSo, PaintIsReadable
  <2>1. Walk(manifest, source)
    BY DEF Styleguide
  <2>2. QED
    BY <2>1, GreenPaints, GreenSources DEF PaintIsReadable
<1>3. QED
  BY <1>1, <1>2, ManifestStep, ReviewStep, PTL DEF DesignSpec
-----------------------------------------------------------------------------
(* Native.                                                                 *)

(* What the inputs a stamp is the digest of decide of a gate.              *)
Vouched(g, t) ==
  CASE g = "expo-policy" -> SurfacePolicy(t)
    [] g = "native-deps" -> VersionsAligned(t)
    [] OTHER             -> EasUpdate(t)

(* A stamp is one of inputs that decide well, whatever tree holds them. *)
NativeInv ==
  /\ local \in [NativeGates -> {"none", "skipped", "red", "green"}]
  /\ stamps = [g \in NativeGates |-> stamps[g]]
  /\ \A g \in NativeGates : \A d \in stamps[g] : \A t : d = Declared(g, t) => Vouched(g, t)
  /\ \A g \in NativeGates : local[g] = "green" => BeforeStamp(g, app) /\ Vouched(g, app)

(* Two trees that agree on the inputs of a gate agree on what they decide. *)
LEMMA InputsDecide ==
  ASSUME NEW g \in NativeGates, NEW s, NEW t, Declared(g, s) = Declared(g, t), Vouched(g, s)
  PROVE  Vouched(g, t)
<1>1. CASE g = "expo-policy"
  <2>1. /\ s.config = t.config /\ s.deps = t.deps /\ s.lock = t.lock
        /\ s.permissionRows = t.permissionRows /\ s.pluginRows = t.pluginRows
        /\ s.usageRows = t.usageRows /\ s.eas = t.eas /\ s.tokens = t.tokens
        /\ s.policy = t.policy /\ s.assets = t.assets
    BY <1>1 DEF Declared
  <2>2. SurfacePolicy(s)
    BY <1>1 DEF Vouched
  <2>3. StoreReady(s) => StoreReady(t)
    BY <2>1, Zenon DEF StoreReady, UsageDescriptions, Says, ExportCompliance, PrivacyManifests,
              TrackingAgrees, Trackers, ClaimsTracking, TargetFloor, TargetSdk, IconIntegrity, IconOk
  <2>4. SurfacePolicy(t)
    BY <2>1, <2>2, <2>3, Zenon DEF SurfacePolicy, Identity, Engine, Transport, NoSecretExtra,
              SplashLockstep, EasJson
  <2>5. QED
    BY <1>1, <2>4 DEF Vouched
<1>2. CASE g = "native-deps"
  BY <1>2 DEF Declared, Vouched, VersionsAligned
<1>3. CASE g = "eas-update"
  <2>1. s.config = t.config /\ s.deps = t.deps /\ s.eas = t.eas /\ s.lock = t.lock
    BY <1>3 DEF Declared
  <2>2. EasUpdate(s)
    BY <1>3 DEF Vouched
  <2>3. EasUpdate(t)
    BY <2>1, <2>2, Zenon DEF EasUpdate, UpdatesUrl, Channels
  <2>4. QED
    BY <1>3, <2>3 DEF Vouched
<1>4. QED
  BY <1>1, <1>2, <1>3 DEF NativeGates

(* A gate that passes vouches for its inputs, and more.                    *)
LEMMA PassVouches ==
  ASSUME NEW g \in NativeGates, NEW t, AfterStamp(g, t)
  PROVE  Vouched(g, t)
BY DEF NativeGates, AfterStamp, Vouched, ExpoPolicy

(* No stamp is there at first.                                             *)
LEMMA NativeInvInit == NativeInit => NativeInv
BY DEF NativeInit, NativeInv, NativeGates

(* A stamp is written by a gate that passes, and outlives any edit.        *)
LEMMA NativeInvStep == NativeInv /\ [NativeNext]_nvars => NativeInv'
<1> SUFFICES ASSUME NativeInv, [NativeNext]_nvars PROVE NativeInv'
  OBVIOUS
<1>1. CASE EditNative
  BY <1>1 DEF EditNative, NativeInv
<1>2. ASSUME NEW g \in NativeGates, LocalRun(g) PROVE NativeInv'
  <2> DEFINE warm == Declared(g, app) \in stamps[g]
             verdict == IF Skips(g, app) THEN "skipped"
                        ELSE IF ~BeforeStamp(g, app) THEN "red"
                        ELSE IF warm THEN "green"
                        ELSE IF SkipsLate(g, app) THEN "skipped"
                        ELSE IF AfterStamp(g, app) THEN "green" ELSE "red"
  <2>1. /\ local' = [local EXCEPT ![g] = verdict] /\ UNCHANGED app
        /\ stamps' = IF verdict = "green" THEN [stamps EXCEPT ![g] = {Declared(g, app)}] ELSE stamps
    BY <1>2 DEF LocalRun
  <2>2. verdict = "green" => BeforeStamp(g, app) /\ Vouched(g, app)
    BY PassVouches DEF NativeInv
  <2>3. verdict \in {"skipped", "red", "green"}
    OBVIOUS
  <2> HIDE DEF verdict
  <2>4. /\ local' \in [NativeGates -> {"none", "skipped", "red", "green"}]
        /\ \A h \in NativeGates : local'[h] = "green" => BeforeStamp(h, app) /\ Vouched(h, app)
    BY <2>1, <2>2, <2>3 DEF NativeInv
  <2>5. stamps' = [h \in NativeGates |-> stamps'[h]]
    BY <2>1 DEF NativeInv
  <2>6. ASSUME NEW h \in NativeGates, NEW d \in stamps'[h], NEW t, d = Declared(h, t)
        PROVE  Vouched(h, t)
    <3>1. CASE d \in stamps[h]
      BY <2>6, <3>1 DEF NativeInv
    <3>2. CASE d \notin stamps[h]
      <4>1. verdict = "green" /\ h = g /\ d = Declared(g, app)
        BY <2>1, <2>6, <3>2 DEF NativeInv
      <4>2. QED
        BY <2>2, <2>6, <4>1, InputsDecide
    <3>3. QED
      BY <3>1, <3>2
  <2>7. QED
    BY <2>1, <2>4, <2>5, <2>6 DEF NativeInv
<1>3. CASE CiRun
  BY <1>3 DEF CiRun, NativeInv
<1>4. CASE UNCHANGED nvars
  BY <1>4 DEF nvars, NativeInv
<1>5. QED
  BY <1>1, <1>2, <1>3, <1>4 DEF NativeNext

(* A native gate that is green holds of the app as it stands, stamped or not. *)
THEOREM GreenIsCurrentHolds == NativeSpec => []GreenIsCurrent
<1>1. NativeInv => GreenIsCurrent
  BY DEF NativeInv, NativeGates, GreenIsCurrent, BeforeStamp, Vouched
<1>2. QED
  BY <1>1, NativeInvInit, NativeInvStep, PTL DEF NativeSpec

(* Every gate that CI requires passes over the app that CI found green.    *)
CiInv == ci = "green" => \A g \in Required(app) : Passes(g, app)

(* CI has not run at first.                                                *)
LEMMA CiInvInit == NativeInit => CiInv
BY DEF NativeInit, CiInv

(* A green is of one run over the app as it stands; an edit takes it away. *)
LEMMA CiInvStep == CiInv /\ [NativeNext]_nvars => CiInv'
<1> SUFFICES ASSUME CiInv, [NativeNext]_nvars PROVE CiInv'
  OBVIOUS
<1>1. CASE EditNative
  BY <1>1 DEF EditNative, CiInv
<1>2. ASSUME NEW g \in NativeGates, LocalRun(g) PROVE CiInv'
  BY <1>2 DEF LocalRun, CiInv
<1>3. CASE CiRun
  BY <1>3 DEF CiRun, CiInv
<1>4. CASE UNCHANGED nvars
  BY <1>4 DEF nvars, CiInv
<1>5. QED
  BY <1>1, <1>2, <1>3, <1>4 DEF NativeNext

(* The profile a step above x, or Absent.                                  *)
Parent(ps, x) == IF x \in DOMAIN ps /\ "extends" \in DOMAIN ps[x] THEN ps[x]["extends"] ELSE Absent

(* A climb of `extends' from n goes as far as one asks.                    *)
LEMMA ClimbExists ==
  ASSUME NEW ps, NEW n, NEW N \in Nat
  PROVE  \E up : up = [k \in 0..N |-> IF k = 0 THEN n ELSE Parent(ps, up[k-1])]
<1> DEFINE T == {i \in Nat : \E up : up = [k \in 0..i |-> IF k = 0 THEN n ELSE Parent(ps, up[k-1])]}
<1>1. 0 \in T
  <2> DEFINE f == [k \in 0..0 |-> n]
  <2>1. f = [k \in 0..0 |-> IF k = 0 THEN n ELSE Parent(ps, f[k-1])]
    OBVIOUS
  <2>2. QED
    BY <2>1
<1>2. ASSUME NEW i \in T \cap Nat PROVE i + 1 \in T
  <2>1. PICK f : f = [k \in 0..i |-> IF k = 0 THEN n ELSE Parent(ps, f[k-1])]
    OBVIOUS
  <2> DEFINE g == [k \in 0..(i+1) |-> IF k <= i THEN f[k] ELSE Parent(ps, f[i])]
  <2>2. \A k \in 0..i : f[k] = IF k = 0 THEN n ELSE Parent(ps, f[k-1])
    BY <2>1
  <2> HIDE DEF T
  <2>3. ASSUME NEW k \in 0..(i+1) PROVE g[k] = IF k = 0 THEN n ELSE Parent(ps, g[k-1])
    <3>1. CASE k <= i
      <4>1. k \in 0..i /\ (k # 0 => k - 1 \in 0..(i+1) /\ k - 1 <= i)
        BY <3>1
      <4>2. QED
        BY <2>2, <3>1, <4>1
    <3>2. CASE k = i + 1
      BY <3>2
    <3>3. QED
      BY <3>1, <3>2
  <2>4. g = [k \in 0..(i+1) |-> g[k]]
    OBVIOUS
  <2> HIDE DEF g
  <2>5. g = [k \in 0..(i+1) |-> IF k = 0 THEN n ELSE Parent(ps, g[k-1])]
    BY <2>3, <2>4
  <2>6. QED
    BY <2>5 DEF T
<1> HIDE DEF T
<1>3. Nat \subseteq T
  BY <1>1, <1>2, Induct
<1>4. QED
  BY <1>3 DEF T

(* Above is that climb.                                                    *)
LEMMA AboveIs ==
  ASSUME NEW ps, NEW n
  PROVE  /\ Cardinality(Profiles) \in Nat
         /\ DOMAIN Above(ps, n) = 0..Cardinality(Profiles)
         /\ Above(ps, n)[0] = n
         /\ \A k \in DOMAIN Above(ps, n) :
              k # 0 => Above(ps, n)[k] = Parent(ps, Above(ps, n)[k-1])
<1> DEFINE N == Cardinality(Profiles)
           up == Above(ps, n)
<1>1. N \in Nat
  BY NativeAssumption, FS_CardinalityType
<1>2. up = CHOOSE f : f = [k \in 0..N |-> IF k = 0 THEN n ELSE Parent(ps, f[k-1])]
  BY DEF Above, Parent
<1> HIDE DEF N, up
<1>3. up = [k \in 0..N |-> IF k = 0 THEN n ELSE Parent(ps, up[k-1])]
  BY <1>1, <1>2, ClimbExists
<1>4. DOMAIN up = 0..N /\ 0 \in 0..N
  BY <1>1, <1>3
<1>5. up[0] = n /\ \A k \in DOMAIN up : k # 0 => up[k] = Parent(ps, up[k-1])
  BY <1>3, <1>4
<1>6. QED
  BY <1>1, <1>4, <1>5 DEF N, up

(* What a field resolves to is what the first profile that sets it says.   *)
LEMMA ResolvedIsOfLine ==
  ASSUME NEW ps, NEW n \in DOMAIN ps, NEW field,
         ResolveField(ps, n, field) \notin {"error", Absent}
  PROVE  ResolveField(ps, n, field) \in Inherited(ps, n, field)
<1> DEFINE up == Above(ps, n)
           Stops(k) == \/ up[k] \notin DOMAIN ps
                       \/ field \in DOMAIN ps[up[k]] \/ "extends" \notin DOMAIN ps[up[k]]
           ends == {k \in DOMAIN up : Stops(k)}
           last == Min(ends)
<1>1. ResolveField(ps, n, field) =
        IF ends = {} \/ up[last] \notin DOMAIN ps THEN "error"
        ELSE IF field \in DOMAIN ps[up[last]] THEN ps[up[last]][field] ELSE Absent
  BY DEF ResolveField
<1>2. /\ DOMAIN up \subseteq Nat /\ up[0] = n
      /\ \A k \in DOMAIN up : k # 0 => k - 1 \in DOMAIN up /\ up[k] = Parent(ps, up[k-1])
  BY AboveIs
<1> HIDE DEF up
<1>3. ends # {} /\ ends \in SUBSET Nat
  BY <1>1, <1>2
<1>4. last \in ends /\ \A k \in ends : last <= k
  <2> HIDE DEF ends
  <2>1. QED
    BY <1>3, Least DEF Min
<1>5. /\ up[last] \in DOMAIN ps /\ field \in DOMAIN ps[up[last]]
      /\ ps[up[last]][field] = ResolveField(ps, n, field)
  BY <1>1, <1>3
<1>6. ASSUME NEW S \in SUBSET DOMAIN ps, n \in S,
             \A m \in S : /\ field \notin DOMAIN ps[m]
                          /\ "extends" \in DOMAIN ps[m] /\ ps[m]["extends"] \in DOMAIN ps
                          => ps[m]["extends"] \in S
      PROVE  up[last] \in S
  <2> SUFFICES ASSUME up[last] \notin S PROVE FALSE
    OBVIOUS
  <2> DEFINE out == {k \in DOMAIN up : up[k] \notin S}
  <2>1. last \in out /\ out \in SUBSET Nat
    BY <1>2, <1>4
  <2>2. PICK k \in out : \A j \in out : k <= j
    <3> HIDE DEF out
    <3>1. QED
      BY <2>1, Least
  <2>3. k # 0 /\ k \in DOMAIN up /\ k \in Nat /\ k <= last /\ last \in Nat
    BY <1>2, <1>6, <2>1, <2>2
  <2>4. k - 1 \in DOMAIN up /\ k - 1 \notin out /\ k - 1 \notin ends
    BY <1>2, <1>4, <2>2, <2>3
  <2>5. /\ up[k-1] \in S /\ field \notin DOMAIN ps[up[k-1]]
        /\ "extends" \in DOMAIN ps[up[k-1]] /\ up[k-1] \in DOMAIN ps
        /\ up[k] = ps[up[k-1]]["extends"]
    BY <1>2, <2>3, <2>4 DEF Parent
  <2>6. up[k] \in DOMAIN ps
    <3>1. CASE k = last
      BY <3>1, <1>5
    <3>2. CASE k # last
      <4>1. k \notin ends
        BY <1>4, <2>3, <3>2
      <4>2. QED
        BY <2>3, <4>1
    <3>3. QED
      BY <3>1, <3>2
  <2>7. QED
    BY <1>6, <2>2, <2>5, <2>6
<1>7. up[last] \in Line(ps, n, field)
  <2> HIDE DEF last
  <2>1. QED
    BY <1>5, <1>6 DEF Line
<1>8. QED
  BY <1>5, <1>7 DEF Inherited

(* The binary of a profile the gate accepts is a dev client, or gets a     *)
(* channel.                                                                *)
LEMMA ChannelledLine ==
  ASSUME NEW ps, NEW n \in DOMAIN ps, Channelled(ps, n)
  PROVE  \/ "yes" \in Inherited(ps, n, "developmentClient")
         \/ Inherited(ps, n, "channel") \ {""} # {}
<1>1. CASE ResolveField(ps, n, "developmentClient") = "yes"
  <2>1. ResolveField(ps, n, "developmentClient") \notin {"error", Absent}
    BY <1>1, NativeAssumption
  <2>2. QED
    BY <1>1, <2>1, ResolvedIsOfLine
<1>2. CASE ResolveField(ps, n, "developmentClient") # "yes"
  <2>1. ResolveField(ps, n, "channel") \notin {"error", Absent, ""}
    BY <1>2 DEF Channelled
  <2>2. QED
    BY <2>1, ResolvedIsOfLine
<1>3. QED
  BY <1>1, <1>2

(* A green chain lets one story ship: plugins, purpose strings and         *)
(* tracking, one colour, one project, and a channel for every binary.      *)
THEOREM SurfaceAgreesHolds == NativeSpec => []SurfaceAgrees
<1>1. CiInv => SurfaceAgrees
  <2> SUFFICES ASSUME CiInv, ci = "green" PROVE SurfaceAgrees
    BY DEF SurfaceAgrees
  <2>1. SurfacePolicy(app) /\ (app.wired => EasUpdate(app))
    BY DEF CiInv, Required, Passes, AfterStamp, ExpoPolicy
  <2>2. UsageDescriptions(app) /\ TrackingAgrees(app) /\ SplashLockstep(app) /\ Identity(app)
    BY <2>1 DEF SurfacePolicy, StoreReady
  <2>3. \A p \in app.config.plugins : \A key \in Implied[p] : Says(app, key) /\ app.usageRows[key]
    BY <2>2 DEF UsageDescriptions, Lockstep, Reviewed
  <2>4. /\ (Signals \cap (app.config.plugins \cup app.deps.names) # {}) <=> ClaimsTracking(app)
        /\ ClaimsTracking(app) <=> Tracking \in DOMAIN app.config.usage
    BY <2>2 DEF TrackingAgrees, Trackers, Says
  <2>5. {app.config.splash, app.config.adaptive} = {app.tokens}
    BY <2>2 DEF SplashLockstep
  <2>6. app.wired =>
          app.config.url.project = app.config.project /\ "expo-updates" \in app.deps.names
    BY <2>1, <2>2 DEF EasUpdate, UpdatesUrl, Identity
  <2>7. ASSUME app.wired, NEW n \in DOMAIN app.eas.build \ Parents(app.eas.build)
        PROVE  \/ "yes" \in Inherited(app.eas.build, n, "developmentClient")
               \/ Inherited(app.eas.build, n, "channel") \ {""} # {}
    BY <2>1, <2>7, ChannelledLine DEF EasUpdate, Channels
  <2>8. QED
    BY <2>3, <2>4, <2>5, <2>6, <2>7 DEF SurfaceAgrees
<1>2. QED
  BY <1>1, CiInvInit, CiInvStep, PTL DEF NativeSpec
-----------------------------------------------------------------------------
(* Ratchets.                                                               *)

(* A sequence with a member more is a sequence of the same kind. *)
LEMMA InsertAtType ==
  ASSUME NEW X, NEW s \in Seq(X), NEW i \in 1..Len(s)+1, NEW e \in X
  PROVE  InsertAt(s, i, e) \in Seq(X)
<1>1. Len(s) \in Nat /\ i \in 1..Len(s)+1
  OBVIOUS
<1>2. SubSeq(s, 1, i - 1) \in Seq(X) /\ SubSeq(s, i, Len(s)) \in Seq(X) /\ <<e>> \in Seq(X)
  BY <1>1
<1>3. QED
  BY <1>2 DEF InsertAt

(* Of what is written down there is finitely much. *)
IsReport(rep) == IsFiniteSet(DOMAIN rep) /\ \A f \in DOMAIN rep : rep[f] \in Seq(Mutants)
RatchetsType ==
  /\ code \in [Files -> Seq(Mutants)] /\ IsFiniteSet(rows) /\ IsReport(report)
  /\ vintage \in Nat /\ main.vintages \in Seq(Nat)

(* A green verdict is of the branch as it stands.                           *)
VerdictIsSo ==
  judged.verdict = "green" =>
    /\ judged.scope \subseteq Files
    /\ RatchetHolds([f \in judged.scope |-> code[f]]) /\ NeverBack(vintage, main.vintages)

(* The baseline a report is turned into is finite.                         *)
LEMMA WrittenFinite ==
  ASSUME NEW rep, IsReport(rep), IsFiniteSet(rows)
  PROVE  IsFiniteSet(Written(rep))
<1> DEFINE of(f) == {Id(f, rep[f], i) : i \in {j \in DOMAIN rep[f] : Survives(rep[f], j)}}
<1>1. ASSUME NEW f \in DOMAIN rep PROVE IsFiniteSet(of(f))
  <2> DEFINE D == {j \in DOMAIN rep[f] : Survives(rep[f], j)}
             g == [i \in D |-> Id(f, rep[f], i)]
  <2>1. rep[f] \in Seq(Mutants)
    BY DEF IsReport
  <2>2. DOMAIN rep[f] = 1..Len(rep[f]) /\ Len(rep[f]) \in Int /\ 1 \in Int
    BY <2>1
  <2>3. IsFiniteSet(DOMAIN rep[f])
    BY <2>2, FS_Interval, Zenon
  <2>4. IsFiniteSet(DOMAIN g)
    BY <2>3, FS_Subset
  <2>5. of(f) = {g[i] : i \in DOMAIN g}
    OBVIOUS
  <2> HIDE DEF g, of
  <2>6. QED
    BY <2>4, <2>5, ValuesFinite
<1> DEFINE h == [f \in DOMAIN rep |-> of(f)]
<1>2. IsFiniteSet({h[f] : f \in DOMAIN h})
  <2>1. IsFiniteSet(DOMAIN h)
    BY DEF IsReport
  <2> HIDE DEF h
  <2>2. QED
    BY <2>1, ValuesFinite
<1>3. Survivors(rep) = UNION {h[f] : f \in DOMAIN h}
  BY DEF Survivors
<1>4. \A T \in {h[f] : f \in DOMAIN h} : IsFiniteSet(T)
  BY <1>1
<1>5. IsFiniteSet(Survivors(rep))
  <2> HIDE DEF h
  <2>1. QED
    BY <1>2, <1>3, <1>4, FS_UNION
<1> DEFINE w == [id \in Survivors(rep) |->
                   [file |-> id.file, text |-> id.text, nth |-> id.nth, reasoned |-> HasReason(id)]]
<1>6. IsFiniteSet({w[id] : id \in DOMAIN w})
  <2>1. IsFiniteSet(DOMAIN w)
    BY <1>5
  <2> HIDE DEF w
  <2>2. QED
    BY <2>1, ValuesFinite
<1>7. IsFiniteSet({row \in rows : row.file \notin DOMAIN rep})
  BY FS_Subset
<1>8. Written(rep) = {row \in rows : row.file \notin DOMAIN rep} \cup {w[id] : id \in DOMAIN w}
  BY DEF Written
<1> HIDE DEF w
<1>9. QED
  BY <1>6, <1>7, <1>8, FS_Union

(* Code that changes stays lists of mutants.                               *)
LEMMA EditCodeType == RatchetsType /\ EditCode => code' \in [Files -> Seq(Mutants)]
<1> SUFFICES ASSUME RatchetsType, EditCode PROVE code' \in [Files -> Seq(Mutants)]
  OBVIOUS
<1>1. PICK f \in Files :
       \/ \E i \in 1..Len(code[f])+1, m \in Mutants :
            Len(code[f]) < MaxMutants /\ code' = [code EXCEPT ![f] = InsertAt(@, i, m)]
       \/ \E i \in DOMAIN code[f] : code' = [code EXCEPT ![f] = RemoveAt(@, i)]
       \/ \E i \in DOMAIN code[f] : code' = [code EXCEPT ![f][i].killed = ~@]
  BY DEF EditCode
<1>2. code[f] \in Seq(Mutants)
  BY DEF RatchetsType
<1>3. ASSUME NEW s \in Seq(Mutants), code' = [code EXCEPT ![f] = s]
      PROVE  code' \in [Files -> Seq(Mutants)]
  BY <1>3 DEF RatchetsType
<1>4. ASSUME NEW i \in 1..Len(code[f])+1, NEW m \in Mutants,
             code' = [code EXCEPT ![f] = InsertAt(@, i, m)]
      PROVE  code' \in [Files -> Seq(Mutants)]
  BY <1>2, <1>3, <1>4, InsertAtType
<1>5. ASSUME NEW i \in DOMAIN code[f], code' = [code EXCEPT ![f] = RemoveAt(@, i)]
      PROVE  code' \in [Files -> Seq(Mutants)]
  BY <1>2, <1>3, <1>5, RemoveAtType
<1>6. ASSUME NEW i \in DOMAIN code[f], code' = [code EXCEPT ![f][i].killed = ~@]
      PROVE  code' \in [Files -> Seq(Mutants)]
  <2>0. code[f][i] \in Mutants
    BY <1>2
  <2>1. [code[f][i] EXCEPT !.killed = ~code[f][i].killed] \in Mutants
    BY <2>0 DEF Mutants
  <2>2. [code[f] EXCEPT ![i] = [code[f][i] EXCEPT !.killed = ~code[f][i].killed]] \in Seq(Mutants)
    BY <1>2, <2>1
  <2>3. QED
    BY <1>3, <1>6, <2>2
<1>7. QED
  BY <1>1, <1>4, <1>5, <1>6

(* The types are inductive.                                                *)
LEMMA RatchetsTypeStep == RatchetsType /\ [RatchetsNext]_rvars => RatchetsType'
<1> SUFFICES ASSUME RatchetsType, [RatchetsNext]_rvars PROVE RatchetsType'
  OBVIOUS
<1>1. CASE EditCode
  BY <1>1, EditCodeType DEF EditCode, RatchetsType, IsReport
<1>2. CASE EditRows
  <2>1. PICK row \in rows :
       \/ ~row.reasoned /\ rows' = (rows \ {row}) \cup {[row EXCEPT !.reasoned = TRUE]}
       \/ rows' = rows \ {row}
    BY <1>2 DEF EditRows
  <2>2. IsFiniteSet(rows \ {row})
    BY FS_RemoveElement DEF RatchetsType
  <2>3. IsFiniteSet(rows')
    BY <2>1, <2>2, FS_AddElement
  <2>4. QED
    BY <1>2, <2>3 DEF EditRows, RatchetsType, IsReport
<1>3. CASE EditVintage
  BY <1>3 DEF EditVintage, RatchetsType, IsReport
<1>4. CASE MutateLocally
  <2>1. PICK scope \in {Files, ChangedFiles} : report' = [f \in scope |-> code[f]]
    BY <1>4 DEF MutateLocally
  <2>2. scope \subseteq Files
    BY DEF ChangedFiles
  <2>3. IsFiniteSet(scope)
    BY <2>2, RatchetsAssumption, FS_Subset
  <2>4. IsReport(report)'
    BY <2>1, <2>2, <2>3 DEF IsReport, RatchetsType
  <2>5. QED
    BY <1>4, <2>4 DEF MutateLocally, RatchetsType
<1>5. CASE WriteBaseline
  BY <1>5, WrittenFinite DEF WriteBaseline, RatchetsType, IsReport
<1>6. CASE PullRequestLane \/ NightlyLane
  BY <1>6 DEF PullRequestLane, NightlyLane, Judge, RatchetsType, IsReport
<1>7. CASE Merge
  <2>1. <<vintage>> \o main.vintages \in Seq(Nat)
    BY DEF RatchetsType
  <2>2. QED
    BY <1>7, <2>1 DEF Merge, RatchetsType, IsReport
<1>8. CASE UNCHANGED rvars
  BY <1>8 DEF rvars, RatchetsType, IsReport
<1>9. QED
  BY <1>1, <1>2, <1>3, <1>4, <1>5, <1>6, <1>7, <1>8 DEF RatchetsNext

(* Whatever changes the branch forgets the verdict.                        *)
LEMMA VerdictStep == VerdictIsSo /\ [RatchetsNext]_rvars => VerdictIsSo'
<1> SUFFICES ASSUME VerdictIsSo, [RatchetsNext]_rvars PROVE VerdictIsSo'
  OBVIOUS
<1>1. CASE judged' = Unjudged
  BY <1>1 DEF Unjudged, VerdictIsSo
<1>2. ASSUME NEW scope \in {Files, ChangedFiles}, Judge(scope) PROVE VerdictIsSo'
  <2>1. scope \subseteq Files
    BY DEF ChangedFiles
  <2>2. /\ judged'.scope = scope /\ UNCHANGED <<code, rows, vintage, main>>
        /\ judged'.verdict = "green" =>
             RatchetHolds([f \in scope |-> code[f]]) /\ NeverBack(vintage, main.vintages)
    BY <1>2 DEF Judge
  <2>3. QED
    BY <2>1, <2>2 DEF VerdictIsSo, RatchetHolds, NeverBack, Accepted
<1>3. CASE UNCHANGED <<code, rows, vintage, main, judged>>
  BY <1>3 DEF VerdictIsSo, RatchetHolds, NeverBack, Accepted
<1>4. QED
  BY <1>1, <1>2, <1>3 DEF RatchetsNext, rvars, EditCode, EditRows, EditVintage, Stepped, MutateLocally,
        WriteBaseline, PullRequestLane, NightlyLane, Merge

(* A survivor has more survivors of its text before it than an earlier one. *)
LEMMA NthGrows ==
  ASSUME NEW ms \in Seq(Mutants), NEW i \in DOMAIN ms, NEW j \in DOMAIN ms, i < j,
         Survives(ms, i), ms[i].text = ms[j].text
  PROVE  Nth(ms, i) < Nth(ms, j)
<1> DEFINE L(k) == {l \in 1..k-1 : Survives(ms, l) /\ ms[l].text = ms[k].text}
<1>1. i \in Nat /\ j \in Nat /\ 1 <= i
  OBVIOUS
<1>2. ASSUME NEW k \in Nat PROVE IsFiniteSet(L(k))
  <2>1. 1 \in Int /\ k - 1 \in Int
    OBVIOUS
  <2>2. IsFiniteSet(1..k-1)
    BY <2>1, FS_Interval, Zenon
  <2>3. QED
    BY <2>2, FS_Subset
<1>3. L(i) \cup {i} \subseteq L(j) /\ i \notin L(i)
  BY <1>1
<1>4. Cardinality(L(i) \cup {i}) = Cardinality(L(i)) + 1 /\ IsFiniteSet(L(j))
  BY <1>1, <1>2, <1>3, FS_AddElement
<1>5. Cardinality(L(i) \cup {i}) <= Cardinality(L(j))
  BY <1>3, <1>4, FS_Subset
<1>6. Nth(ms, i) = Cardinality(L(i)) /\ Nth(ms, j) = Cardinality(L(j))
  BY DEF Nth
<1>7. Cardinality(L(i)) \in Nat /\ Cardinality(L(j)) \in Nat
  BY <1>1, <1>2, FS_CardinalityType
<1> HIDE DEF L
<1>8. QED
  BY <1>4, <1>5, <1>6, <1>7

(* The survivors of one text, and the reasoned rows there are for them.    *)
SurvivorsOf(ms, text) == {i \in DOMAIN ms : ms[i].text = text /\ Survives(ms, i)}
ReasonsFor(f, text) == {row \in rows : row.file = f /\ row.text = text /\ row.reasoned}

(* A report that the ratchet lets pass has a row of its own, with a reason, *)
(* for every survivor.                                                      *)
LEMMA RowsSuffice ==
  ASSUME NEW rep, RatchetHolds(rep), IsFiniteSet(rows), NEW f \in DOMAIN rep,
         rep[f] \in Seq(Mutants), NEW text
  PROVE  Cardinality(SurvivorsOf(rep[f], text)) <= Cardinality(ReasonsFor(f, text))
<1> USE DEF SurvivorsOf, ReasonsFor
<1> DEFINE ms == rep[f]
           S == SurvivorsOf(ms, text)
           R == ReasonsFor(f, text)
           row(i) == CHOOSE r \in R : r.nth = Nth(ms, i)
           g == [i \in S |-> row(i)]
<1>1. (\A r \in rows : r.reasoned) /\ Survivors(rep) \subseteq Accepted
  BY DEF RatchetHolds
<1>2. ASSUME NEW i \in S PROVE \E r \in R : r.nth = Nth(ms, i)
  <2>1. Id(f, ms, i) \in Survivors(rep)
    BY DEF Survivors
  <2>2. PICK r \in rows : IdOf(r) = Id(f, ms, i)
    BY <1>1, <2>1 DEF Accepted
  <2>3. r.file = f /\ r.text = text /\ r.nth = Nth(ms, i)
    BY <2>2 DEF IdOf, Id
  <2>4. QED
    BY <1>1, <2>3
<1>3. \A i \in S : g[i] \in R /\ g[i].nth = Nth(ms, i)
  BY <1>2
<1>4. \A i, j \in S : i < j => Nth(ms, i) < Nth(ms, j)
  BY NthGrows
<1>5. \A i \in S : i \in Int /\ Nth(ms, i) \in Int
  <2> TAKE i \in S
  <2>1. i \in Int /\ 1 \in Int /\ i - 1 \in Int
    OBVIOUS
  <2>2. IsFiniteSet(1..i-1)
    BY <2>1, FS_Interval, Zenon
  <2>3. QED
    BY <2>1, <2>2, FS_Subset, FS_CardinalityType DEF Nth
<1>6. g \in Injection(S, R)
  <2>1. g \in [S -> R]
    BY <1>3
  <2>2. \A i, j \in S : g[i] = g[j] => i = j
    <3> HIDE DEF g, S
    <3>1. QED
      BY <1>3, <1>4, <1>5
  <2>3. QED
    BY <2>1, <2>2 DEF Injection, IsInjective
<1>7. IsFiniteSet(R)
  BY FS_Subset
<1> HIDE DEF g, S, R
<1>8. Cardinality(S) <= Cardinality(R)
  BY <1>6, <1>7, FS_Injection
<1>9. QED
  BY <1>8 DEF S, R

(* A history each member of which is at least the one after it.            *)
LEMMA NeverBackIs ==
  ASSUME NEW now \in Nat, NEW past \in Seq(Nat), NeverBack(now, past)
  PROVE  \A k \in DOMAIN past : past[k] <= now
<1> DEFINE all == <<now>> \o past
           T == {n \in Nat : n + 1 \in 1..Len(all) => all[n + 1] <= now}
<1>1. /\ <<now>> \in Seq(Nat) /\ all \in Seq(Nat) /\ Len(all) = Len(past) + 1 /\ Len(past) \in Nat
      /\ all[1] = now /\ \A k \in 1..Len(past) : all[k + 1] = past[k]
  OBVIOUS
<1>2. \A k \in 1..Len(all)-1 : all[k] >= all[k+1]
  BY DEF NeverBack
<1>3. \A k \in 1..Len(all) : all[k] \in Nat
  BY <1>1
<1> HIDE DEF all
<1>4. 0 \in T
  BY <1>1
<1>5. \A n \in T \cap Nat : n + 1 \in T
  <2> SUFFICES ASSUME NEW n \in Nat, n \in T, (n + 1) + 1 \in 1..Len(all) PROVE all[(n + 1) + 1] <= now
    OBVIOUS
  <2>1. n + 1 \in 1..Len(all) - 1 /\ n + 1 \in 1..Len(all)
    BY <1>1
  <2>2. all[n + 1] >= all[(n + 1) + 1] /\ all[n + 1] <= now
    BY <1>2, <2>1
  <2>3. QED
    BY <1>3, <2>1, <2>2
<1>6. Nat \subseteq T
  BY <1>4, <1>5, Induct
<1>7. QED
  <2> SUFFICES ASSUME NEW k \in DOMAIN past PROVE past[k] <= now
    OBVIOUS
  <2>1. k \in Nat /\ k \in 1..Len(past) /\ k + 1 \in 1..Len(all)
    BY <1>1
  <2>2. k \in T
    BY <1>6, <2>1
  <2>3. QED
    BY <1>1, <2>1, <2>2

(* On a green branch no text survives more often than rows give a reason    *)
(* for it, and no vintage that was ever merged is above the one now.        *)
THEOREM SurvivorsAccountedHolds == RatchetsSpec => []SurvivorsAccounted
<1>1. RatchetsInit => RatchetsType /\ VerdictIsSo
  <2>1. IsFiniteSet({}) /\ DOMAIN <<>> = {} /\ <<1>> \in Seq(Nat)
    BY FS_EmptySet
  <2>2. QED
    BY <2>1 DEF RatchetsInit, RatchetsType, IsReport, VerdictIsSo, Unjudged
<1>2. RatchetsType /\ VerdictIsSo => SurvivorsAccounted
  <2> SUFFICES ASSUME RatchetsType, VerdictIsSo, judged.verdict = "green" PROVE SurvivorsAccounted
    BY DEF SurvivorsAccounted
  <2>1. ASSUME NEW f \in judged.scope, NEW text \in Texts
        PROVE  Cardinality(SurvivorsOf(code[f], text)) <= Cardinality(ReasonsFor(f, text))
    <3> DEFINE rep == [g \in judged.scope |-> code[g]]
    <3>1. /\ RatchetHolds(rep) /\ IsFiniteSet(rows) /\ f \in DOMAIN rep /\ rep[f] = code[f]
          /\ rep[f] \in Seq(Mutants)
      BY DEF VerdictIsSo, RatchetsType
    <3> HIDE DEF rep
    <3>2. Cardinality(SurvivorsOf(rep[f], text)) <= Cardinality(ReasonsFor(f, text))
      BY <3>1, RowsSuffice
    <3>3. QED
      BY <3>1, <3>2
  <2>2. \A k \in DOMAIN main.vintages : main.vintages[k] <= vintage
    BY NeverBackIs DEF VerdictIsSo, RatchetsType
  <2>3. QED
    BY <2>1, <2>2, Zenon DEF SurvivorsAccounted, SurvivorsOf, ReasonsFor
<1>3. QED
  BY <1>1, <1>2, RatchetsTypeStep, VerdictStep, PTL DEF RatchetsSpec
-----------------------------------------------------------------------------
(* DiffCoverage.                                                           *)

(* The maximum of a finite set of numbers is one of them and no less than any. *)
LEMMA MaxIs ==
  ASSUME NEW S \in SUBSET Int, IsFiniteSet(S), S # {}
  PROVE  Max(S) \in S /\ \A y \in S : Max(S) >= y
<1> DEFINE n == Cardinality(S)
           o == Ascending(S)
<1>1. /\ n \in Nat /\ o \in [1..n -> S]
      /\ \A i, j \in 1..n : i < j => o[i] < o[j]
      /\ \A x \in S : \E j \in 1..n : o[j] = x
  BY AscendingIs
<1> HIDE DEF n, o
<1>2. n \in 1..n
  <2>1. PICK x \in S : TRUE
    OBVIOUS
  <2>2. PICK j \in 1..n : o[j] = x
    BY <1>1
  <2>3. QED
    BY <1>1, <2>2
<1>3. o[n] \in S /\ \A y \in S : o[n] >= y
  <2>1. ASSUME NEW y \in S PROVE o[n] >= y
    <3>1. PICK j \in 1..n : o[j] = y
      BY <1>1
    <3>2. j = n \/ o[j] < o[n]
      BY <1>1, <1>2
    <3>3. o[n] \in Int
      BY <1>1, <1>2
    <3>4. QED
      BY <3>1, <3>2, <3>3
  <2>2. QED
    BY <1>1, <1>2, <2>1
<1>4. QED
  BY <1>3 DEF Max

-----------------------------------------------------------------------------
(* A map holds what tests can execute; a verdict is by the trees as they   *)
(* stand and by the maps it was given.                                     *)
AreMaps(ms) ==
  \A r \in Runners : ms[r].state = "there" => ms[r].entries \in Hits(r)
CoverageType ==
  /\ trees = [p \in Places |-> trees[p]] /\ \A p \in Places : IsTree(trees[p])
  /\ maps = [r \in Runners |-> maps[r]] /\ AreMaps(maps)
FlooredIsSo ==
  floored.verdict # "none" =>
    /\ floored.verdict = FloorVerdict(IF floored.lane = "ci" THEN "head" ELSE "work", floored.seen)
    /\ AreMaps(floored.seen)
    /\ floored.lane \in {"stop", "alone", "ci"}
    /\ floored.lane = "stop" => floored.seen = MapsOf(trees.work)
    /\ floored.lane = "ci" => floored.seen = MapsOf(trees.head)

(* What the unit steps write are maps.                                     *)
LEMMA TreeMaps == ASSUME NEW t, IsTree(t) PROVE AreMaps(MapsOf(t))
BY DEF IsTree, AreMaps, MapsOf

(* An edit that leaves the hits a test can have leaves a tree.             *)
LEMMA WorkEdited ==
  ASSUME CoverageType, NEW t, IsTree(t), trees' = [trees EXCEPT !.work = t]
  PROVE  trees' = [p \in Places |-> trees'[p]] /\ \A p \in Places : IsTree(trees'[p])
BY DEF CoverageType, Places

(* An edit of sources or of tests leaves a tree.                           *)
LEMMA TreesStep ==
  ASSUME CoverageType, EditSources \/ EditUnitTests
  PROVE  trees' = [p \in Places |-> trees'[p]] /\ \A p \in Places : IsTree(trees'[p])
<1> DEFINE w == trees.work
<1>0. IsTree(w)
  BY DEF CoverageType, Places
<1>1. CASE EditSources
  <2>1. PICK f \in CodeFiles, c \in 0..MaxContents :
          trees' = [trees EXCEPT !.work.code[f] = c,
                     !.work.hits = IF c = 0 THEN [r \in Runners |-> [@[r] EXCEPT ![f] = {}]] ELSE @]
    BY <1>1 DEF EditSources
  <2> DEFINE h == IF c = 0 THEN [r \in Runners |-> [w.hits[r] EXCEPT ![f] = {}]] ELSE w.hits
             t == [code |-> [w.code EXCEPT ![f] = c], hits |-> h]
  <2>2. h = [r \in Runners |-> h[r]] /\ \A r \in Runners : h[r] \in Hits(r)
    BY <1>0 DEF IsTree, Hits
  <2>3. IsTree(t)
    BY <2>2 DEF IsTree
  <2>4. w = [code |-> w.code, hits |-> w.hits]
    BY <1>0 DEF IsTree
  <2>5. trees = [p \in Places |-> trees[p]] /\ "work" \in Places
    BY DEF CoverageType, Places
  <2> DEFINE trees1 == [trees EXCEPT !.work.code[f] = c]
  <2>6. trees1 = [trees EXCEPT !.work = [w EXCEPT !.code = [w.code EXCEPT ![f] = c]]]
    OBVIOUS
  <2>7. trees1.work = [code |-> [w.code EXCEPT ![f] = c], hits |-> w.hits]
    BY <2>4, <2>5, <2>6
  <2>8. trees' = [trees1 EXCEPT !.work.hits = h]
    BY <2>1, <2>7
  <2> HIDE DEF h, trees1
  <2>9. trees' = [trees EXCEPT !.work = t]
    <3>1. trees' = [trees1 EXCEPT !.work = [trees1.work EXCEPT !.hits = h]]
      BY <2>8
    <3>2. [trees1.work EXCEPT !.hits = h] = t
      <4>1. \A x, k, l : x = [code |-> k, hits |-> l] =>
                           [x EXCEPT !.hits = h] = [code |-> k, hits |-> h]
        OBVIOUS
      <4>2. QED
        BY <2>7, <4>1
    <3> HIDE DEF t
    <3>3. trees' = [trees1 EXCEPT !.work = t]
      BY <3>1, <3>2, Zenon
    <3>4. QED
      BY <3>3, <2>6
  <2> HIDE DEF t
  <2>10. QED
    BY <2>3, <2>9, WorkEdited
<1>2. CASE EditUnitTests
  <2>1. PICK r \in Runners, f \in CodeFiles :
          \E hit \in {{}} \cup {{h} : h \in SUBSET DOMAIN StatementLines[r]} :
            trees' = [trees EXCEPT !.work.hits[r][f] = hit]
    BY <1>2 DEF EditUnitTests
  <2>2. PICK hit \in {{}} \cup {{h} : h \in SUBSET DOMAIN StatementLines[r]} :
          trees' = [trees EXCEPT !.work.hits[r][f] = hit]
    BY <2>1
  <2> DEFINE h == [w.hits EXCEPT ![r] = [w.hits[r] EXCEPT ![f] = hit]]
             t == [code |-> w.code, hits |-> h]
  <2>3. h = [q \in Runners |-> h[q]] /\ \A q \in Runners : h[q] \in Hits(q)
    BY <1>0 DEF IsTree, Hits
  <2>4. IsTree(t)
    BY <2>3 DEF IsTree
  <2>5. t = [w EXCEPT !.hits = h]
    BY <1>0 DEF IsTree
  <2>6. trees' = [trees EXCEPT !.work = t]
    BY <2>2, <2>5
  <2> HIDE DEF t
  <2>7. QED
    BY <2>4, <2>6, WorkEdited
<1>3. QED
  BY <1>1, <1>2

(* Trees and maps keep their types.                                        *)
LEMMA CoverageTypeStep == CoverageType /\ [CoverageNext]_cvars => CoverageType'
<1> SUFFICES ASSUME CoverageType, [CoverageNext]_cvars PROVE CoverageType'
  OBVIOUS
<1>1. CASE EditSources \/ EditUnitTests
  BY <1>1, TreesStep DEF EditSources, EditUnitTests, CoverageType, AreMaps
<1>2. CASE EditSurroundings
  <2>1. UNCHANGED trees
    BY <1>2 DEF EditSurroundings
  <2>2. ASSUME NEW r \in Runners, NEW to \in {"none", "garbled"},
               maps' = [maps EXCEPT ![r] = [NoMap EXCEPT !.state = to]]
        PROVE  maps' = [q \in Runners |-> maps'[q]] /\ AreMaps(maps')
    BY <2>2 DEF CoverageType, AreMaps, NoMap
  <2>3. QED
    BY <1>2, <2>1, <2>2 DEF EditSurroundings, CoverageType, AreMaps
<1>3. CASE Stage \/ Commit
  BY <1>3 DEF Stage, Commit, CoverageType, Places, AreMaps
<1>4. CASE StopChain
  <2>1. AreMaps(MapsOf(trees.work))
    BY TreeMaps DEF CoverageType, Places
  <2>2. maps' = MapsOf(trees.work) /\ UNCHANGED trees
    BY <1>4 DEF StopChain
  <2>3. maps' = [r \in Runners |-> maps'[r]]
    BY <2>2 DEF MapsOf
  <2>4. QED
    BY <2>1, <2>2, <2>3 DEF CoverageType, AreMaps
<1>5. CASE UNCHANGED <<trees, maps>>
  BY <1>5 DEF CoverageType, AreMaps
<1>6. QED
  BY <1>1, <1>2, <1>3, <1>4, <1>5 DEF CoverageNext, GateAlone, PullRequestChain, cvars

(* Whatever changes a tree forgets the verdict.                            *)
LEMMA FlooredStep == CoverageType /\ FlooredIsSo /\ [CoverageNext]_cvars => FlooredIsSo'
<1> SUFFICES ASSUME CoverageType, FlooredIsSo, [CoverageNext]_cvars PROVE FlooredIsSo'
  OBVIOUS
<1>1. CASE floored' = Unfloored
  BY <1>1 DEF Unfloored, FlooredIsSo
<1>2. ASSUME UNCHANGED <<trees, runners, git>>
      PROVE  \A place, ms : FloorVerdict(place, ms)' = FloorVerdict(place, ms)
  BY <1>2 DEF FloorVerdict, ChangedIn, Differs, Untracked, RunnerOf, EntriesOf, ClearsFloors, Merged, UnionLines, Metric,
        LinesIn, LinesHit, Percent
<1>3. AreMaps(MapsOf(trees.work)) /\ AreMaps(MapsOf(trees.head)) /\ AreMaps(maps)
  BY TreeMaps DEF CoverageType, Places
<1>4. CASE StopChain
  <2>1. /\ floored' = [verdict |-> FloorVerdict("work", MapsOf(trees.work)), lane |-> "stop",
                       seen |-> MapsOf(trees.work)]
        /\ UNCHANGED <<trees, runners, git>>
    BY <1>4 DEF StopChain, Judged
  <2>2. QED
    BY <1>2, <1>3, <2>1 DEF FlooredIsSo
<1>5. CASE GateAlone
  <2>1. /\ floored' = [verdict |-> FloorVerdict("work", maps), lane |-> "alone", seen |-> maps]
        /\ UNCHANGED <<trees, runners, git>>
    BY <1>5 DEF GateAlone, Judged
  <2>2. QED
    BY <1>2, <1>3, <2>1 DEF FlooredIsSo
<1>6. CASE PullRequestChain
  <2>1. /\ floored' = [verdict |-> FloorVerdict("head", MapsOf(trees.head)), lane |-> "ci",
                       seen |-> MapsOf(trees.head)]
        /\ UNCHANGED <<trees, runners, git>>
    BY <1>6 DEF PullRequestChain, Judged
  <2>2. QED
    BY <1>2, <1>3, <2>1 DEF FlooredIsSo
<1>7. CASE UNCHANGED cvars
  <2>1. UNCHANGED <<trees, runners, git, floored>>
    BY <1>7 DEF cvars
  <2>2. QED
    BY <1>2, <2>1 DEF FlooredIsSo
<1>8. QED
  BY <1>1, <1>4, <1>5, <1>6, <1>7 DEF CoverageNext, EditSources, EditUnitTests,
        EditSurroundings, Stage, Commit, Covered

-----------------------------------------------------------------------------
(* The numbers of a file.                                                  *)

(* A percentage is a number, and none of some is 0.                        *)
LEMMA PercentIs ==
  ASSUME NEW part \in Nat, NEW whole \in Nat
  PROVE  Percent(part, whole) \in Int /\ (part = 0 /\ whole # 0 => Percent(part, whole) = 0)
<1>1. CASE whole = 0
  BY <1>1 DEF Percent
<1>2. CASE whole # 0
  <2>1. part * 10000 \in Nat
    OBVIOUS
  <2>2. \A x \in Nat : x \div whole \in Int
    BY <1>2
  <2>3. 0 \div whole = 0
    BY <1>2
  <2>4. Percent(part, whole) = (part * 10000) \div whole
    BY <1>2 DEF Percent
  <2>5. part = 0 => part * 10000 = 0
    OBVIOUS
  <2>6. QED
    BY <2>1, <2>2, <2>3, <2>4, <2>5
<1>3. QED
  BY <1>1, <1>2

(* An entry of a map, and the numbers of one and of two.                   *)
IsHit(e) == e.runner \in Runners /\ e.hit \subseteq DOMAIN StatementLines[e.runner]

(* A file has finitely many entries, and they are those of maps.           *)
LEMMA EntriesAre ==
  ASSUME NEW ms, AreMaps(ms), NEW f \in CodeFiles
  PROVE  IsFiniteSet(EntriesOf(ms, f)) /\ \A e \in EntriesOf(ms, f) : IsHit(e)
<1> DEFINE A(r) == IF ms[r].state = "there"
                   THEN {[runner |-> r, hit |-> hit] : hit \in ms[r].entries[f]} ELSE {}
<1>1. ASSUME NEW r \in Runners PROVE IsFiniteSet(A(r)) /\ \A e \in A(r) : IsHit(e)
  <2>1. CASE ms[r].state = "there"
    <3>1. ms[r].entries \in Hits(r)
      BY <2>1 DEF AreMaps
    <3>2. ms[r].entries[f] \in {{}} \cup {{hit} : hit \in SUBSET DOMAIN StatementLines[r]}
      BY <3>1 DEF Hits
    <3>3. CASE ms[r].entries[f] = {}
      <4>1. A(r) = {}
        BY <3>3
      <4>2. QED
        BY <4>1, FS_EmptySet
    <3>4. ASSUME NEW hit \in SUBSET DOMAIN StatementLines[r], ms[r].entries[f] = {hit}
          PROVE  IsFiniteSet(A(r)) /\ \A e \in A(r) : IsHit(e)
      <4>1. A(r) = {[runner |-> r, hit |-> hit]}
        BY <2>1, <3>4
      <4>2. IsHit([runner |-> r, hit |-> hit])
        BY DEF IsHit
      <4>3. QED
        BY <4>1, <4>2, FS_Singleton
    <3>5. QED
      BY <3>2, <3>3, <3>4
  <2>2. CASE ms[r].state # "there"
    BY <2>2, FS_EmptySet
  <2>3. QED
    BY <2>1, <2>2
<1>2. EntriesOf(ms, f) = A("vitest") \cup A("jest")
  BY DiffCoverageAssumption DEF EntriesOf
<1>3. "vitest" \in Runners /\ "jest" \in Runners
  BY DiffCoverageAssumption
<1> HIDE DEF A
<1>4. IsFiniteSet(A("vitest")) /\ IsFiniteSet(A("jest"))
  BY <1>1, <1>3
<1>5. IsFiniteSet(EntriesOf(ms, f))
  BY <1>2, <1>4, FS_Union
<1>6. QED
  BY <1>1, <1>2, <1>3, <1>5

(* The lines of an entry are finitely many.                                *)
LEMMA LinesFinite ==
  ASSUME NEW e, IsHit(e)
  PROVE  /\ IsFiniteSet(LinesHit(e)) /\ IsFiniteSet(LinesIn(e)) /\ IsFiniteSet(e.hit)
         /\ Len(StatementLines[e.runner]) \in Nat
<1> DEFINE s == StatementLines[e.runner]
<1>1. s \in Seq(Nat)
  BY DiffCoverageAssumption DEF IsHit
<1>2. Len(s) \in Nat /\ DOMAIN s = 1..Len(s)
  BY <1>1
<1>3. IsFiniteSet(DOMAIN s)
  <2>1. 1 \in Int /\ Len(s) \in Int
    BY <1>2
  <2>2. IsFiniteSet(1..Len(s))
    BY <2>1, FS_Interval, Zenon
  <2>3. QED
    BY <1>2, <2>2
<1>4. IsFiniteSet({s[k] : k \in DOMAIN s})
  BY <1>3, ValuesFinite
<1>5. e.hit \subseteq DOMAIN s
  BY DEF IsHit
<1>6. LinesIn(e) = {s[k] : k \in DOMAIN s} /\ LinesHit(e) \subseteq {s[k] : k \in DOMAIN s}
  BY <1>5 DEF LinesIn, LinesHit, Range
<1>7. IsFiniteSet(e.hit)
  BY <1>3, <1>5, FS_Subset
<1>8. IsFiniteSet(LinesHit(e))
  BY <1>4, <1>6, FS_Subset
<1>9. QED
  BY <1>2, <1>4, <1>6, <1>7, <1>8

(* A file of which no statement is executed clears no floor, if it has any.*)
LEMMA MetricIs ==
  ASSUME NEW e, IsHit(e), NEW metric
  PROVE  /\ Metric(e, metric) \in Int
         /\ metric = "statements" /\ Metric(e, metric) >= Floor =>
              e.hit # {} \/ StatementLines[e.runner] = <<>>
<1> DEFINE s == StatementLines[e.runner]
<1>1. /\ Cardinality(e.hit) \in Nat /\ Len(s) \in Nat
      /\ Cardinality(LinesHit(e)) \in Nat /\ Cardinality(LinesIn(e)) \in Nat
  BY LinesFinite, FS_CardinalityType
<1>2. Metric(e, metric) \in Int
  BY <1>1, PercentIs DEF Metric
<1>3. ASSUME metric = "statements", e.hit = {}, Len(s) # 0 PROVE Metric(e, metric) = 0
  <2>1. Cardinality(e.hit) = 0
    BY <1>3, FS_EmptySet
  <2>2. QED
    BY <1>1, <1>3, <2>1, PercentIs DEF Metric
<1>4. Len(s) = 0 => s = <<>>
  <2>1. s \in Seq(Nat)
    BY DiffCoverageAssumption DEF IsHit
  <2>2. QED
    BY <2>1
<1>5. QED
  BY <1>2, <1>3, <1>4 DEF Floor

(* What Merged takes the maximum of.                                       *)
Numbers(es, metric) ==
  {Metric(e, metric) : e \in es} \cup
  (IF metric = "lines" /\ Cardinality(es) > 1 THEN {UnionLines(es)} ELSE {})

(* The union of the lines is measured as a number.                         *)
LEMMA UnionLinesIs ==
  ASSUME NEW es, \A e \in es : IsHit(e)
  PROVE  UnionLines(es) \in Int
<1> DEFINE In  == UNION {LinesIn(e) : e \in es}
           Hit == UNION {LinesHit(e) : e \in es}
           All == {StatementLines["vitest"][k] : k \in DOMAIN StatementLines["vitest"]} \cup
                  {StatementLines["jest"][k] : k \in DOMAIN StatementLines["jest"]}
<1>1. ASSUME NEW r \in Runners
      PROVE  IsFiniteSet({StatementLines[r][k] : k \in DOMAIN StatementLines[r]})
  <2>1. IsHit([runner |-> r, hit |-> {}])
    BY DEF IsHit
  <2>2. IsFiniteSet(LinesIn([runner |-> r, hit |-> {}]))
    BY <2>1, LinesFinite
  <2>3. QED
    BY <2>2 DEF LinesIn, Range
<1>2. IsFiniteSet(All)
  BY <1>1, DiffCoverageAssumption, FS_Union
<1>3. In \subseteq All /\ Hit \subseteq All
  <2>1. ASSUME NEW e \in es PROVE LinesIn(e) \subseteq All /\ LinesHit(e) \subseteq All
    BY DiffCoverageAssumption DEF IsHit, LinesIn, LinesHit, Range
  <2>2. QED
    BY <2>1
<1> HIDE DEF All, In, Hit
<1>4. Cardinality(In) \in Nat /\ Cardinality(Hit) \in Nat
  BY <1>2, <1>3, FS_Subset, FS_CardinalityType
<1>5. UnionLines(es) = Percent(Cardinality(Hit), Cardinality(In))
  BY DEF UnionLines, In, Hit
<1>6. QED
  BY <1>4, <1>5, PercentIs

(* There are finitely many numbers, and one at least.                      *)
LEMMA NumbersAre ==
  ASSUME NEW es, IsFiniteSet(es), es # {}, \A e \in es : IsHit(e), NEW metric
  PROVE  /\ Numbers(es, metric) \in SUBSET Int
         /\ IsFiniteSet(Numbers(es, metric)) /\ Numbers(es, metric) # {}
<1> DEFINE g == [e \in es |-> Metric(e, metric)]
           V == {Metric(e, metric) : e \in es}
           U == IF metric = "lines" /\ Cardinality(es) > 1 THEN {UnionLines(es)} ELSE {}
<1>1. \A e \in es : Metric(e, metric) \in Int
  BY MetricIs
<1>2. UnionLines(es) \in Int
  BY UnionLinesIs
<1>3. IsFiniteSet({g[e] : e \in DOMAIN g})
  BY ValuesFinite
<1>4. IsFiniteSet(V)
  BY <1>3
<1>5. IsFiniteSet(U)
  BY FS_Singleton, FS_EmptySet
<1>6. V \in SUBSET Int /\ V # {} /\ U \in SUBSET Int
  BY <1>1, <1>2
<1>7. Numbers(es, metric) = V \cup U
  BY DEF Numbers
<1> HIDE DEF V, U
<1>8. QED
  BY <1>4, <1>5, <1>6, <1>7, FS_Union

(* Merging never costs anything: what one map clears, both do. A file that  *)
(* clears the floors has a map in which a statement of it is executed.      *)
LEMMA MergingRaises ==
  ASSUME NEW es, IsFiniteSet(es), \A e \in es : IsHit(e)
  PROVE  /\ \A e \in es : ClearsFloors({e}) => ClearsFloors(es)
         /\ ClearsFloors(es) => \E e \in es : e.hit # {} \/ StatementLines[e.runner] = <<>>
<1>1. \A ds, metric : Merged(ds, metric) = Max(Numbers(ds, metric))
  BY DEF Merged, Numbers
<1>2. ASSUME NEW e \in es, ClearsFloors({e}) PROVE ClearsFloors(es)
  <2>1. ASSUME NEW metric \in Metrics PROVE Merged(es, metric) >= Floor
    <3>1. Cardinality({e}) = 1
      BY FS_Singleton
    <3>2. Numbers({e}, metric) = {Metric(e, metric)}
      BY <3>1 DEF Numbers
    <3>3. Max(Numbers({e}, metric)) >= Floor /\ Metric(e, metric) \in Int
      BY <1>1, <1>2, MetricIs DEF ClearsFloors
    <3>4. Max(Numbers({e}, metric)) \in Numbers({e}, metric)
      <4>1. /\ Numbers({e}, metric) \in SUBSET Int /\ IsFiniteSet(Numbers({e}, metric))
            /\ Numbers({e}, metric) # {}
        BY <3>2, <3>3, FS_Singleton
      <4>2. QED
        BY <4>1, MaxIs
    <3>5. Metric(e, metric) >= Floor
      BY <3>2, <3>3, <3>4
    <3>6. /\ Max(Numbers(es, metric)) \in Int
          /\ \A y \in Numbers(es, metric) : Max(Numbers(es, metric)) >= y
      <4>1. /\ Numbers(es, metric) \in SUBSET Int /\ IsFiniteSet(Numbers(es, metric))
            /\ Numbers(es, metric) # {}
        BY NumbersAre
      <4>2. /\ Max(Numbers(es, metric)) \in Numbers(es, metric)
            /\ \A y \in Numbers(es, metric) : Max(Numbers(es, metric)) >= y
        BY <4>1, MaxIs
      <4>3. QED
        BY <4>1, <4>2
    <3>7. Max(Numbers(es, metric)) >= Metric(e, metric)
      BY <3>6 DEF Numbers
    <3>8. QED
      BY <1>1, <3>3, <3>5, <3>6, <3>7 DEF Floor
  <2>2. QED
    BY <2>1 DEF ClearsFloors
<1>3. ASSUME ClearsFloors(es) PROVE \E e \in es : e.hit # {} \/ StatementLines[e.runner] = <<>>
  <2> DEFINE top == Max(Numbers(es, "statements"))
  <2>1. top \in Numbers(es, "statements")
    <3>1. /\ Numbers(es, "statements") \in SUBSET Int /\ IsFiniteSet(Numbers(es, "statements"))
          /\ Numbers(es, "statements") # {}
      BY <1>3, NumbersAre DEF ClearsFloors
    <3>2. QED
      BY <3>1, MaxIs
  <2>2. top >= Floor
    BY <1>1, <1>3 DEF ClearsFloors, Metrics
  <2>3. PICK e \in es : top = Metric(e, "statements")
    BY <2>1 DEF Numbers
  <2>4. QED
    BY <2>2, <2>3, MetricIs
<1>4. QED
  BY <1>2, <1>3

-----------------------------------------------------------------------------
(* What a lane calls touched is what the gate calls changed and measured.  *)
LEMMA TouchedIs ==
  ASSUME NEW l
  PROVE  Touched(l) =
           {f \in ChangedIn(IF l = "ci" THEN "head" ELSE "work") : RunnerOf(f) # "none"}
BY DEF Touched, ChangedIn, Differs, Untracked, RunnerOf

(* A verdict by the trees as they stand holds the floors.                  *)
LEMMA VerdictFloors == CoverageType /\ FlooredIsSo => FloorsHold
<1> SUFFICES ASSUME CoverageType, FlooredIsSo PROVE FloorsHold
  OBVIOUS
<1> DEFINE place == IF floored.lane = "ci" THEN "head" ELSE "work"
           ms    == floored.seen
<1>1. ASSUME floored.verdict = "green", NEW f \in Touched(floored.lane)
      PROVE  \E r \in Runners :
               \E hit \in Executed(r, f) : hit # {} \/ StatementLines[r] = <<>>
  <2>1. /\ AreMaps(ms) /\ FloorVerdict(place, ms) = "green"
        /\ floored.lane \in {"stop", "alone", "ci"}
        /\ floored.lane = "stop" => ms = MapsOf(trees.work)
        /\ floored.lane = "ci" => ms = MapsOf(trees.head)
    BY <1>1 DEF FlooredIsSo
  <2>2. f \in ChangedIn(place) /\ RunnerOf(f) # "none" /\ f \in CodeFiles
    BY TouchedIs DEF Touched
  <2>3. ClearsFloors(EntriesOf(ms, f))
    BY <2>1, <2>2 DEF FloorVerdict
  <2>4. PICK e \in EntriesOf(ms, f) : e.hit # {} \/ StatementLines[e.runner] = <<>>
    BY <2>1, <2>2, <2>3, EntriesAre, MergingRaises
  <2>5. /\ e.runner \in Runners /\ ms[e.runner].state = "there"
        /\ e.hit \in ms[e.runner].entries[f]
    BY <2>4 DEF EntriesOf
  <2>6. e.hit \in Executed(e.runner, f)
    BY <2>1, <2>5 DEF MapsOf, Executed
  <2>7. QED
    BY <2>4, <2>5, <2>6
<1>2. ASSUME floored.verdict = "red", git, {runners.vitest, runners.jest} = {"ok"},
             \A r \in Runners : ms[r].state = "there"
      PROVE  \E f \in Touched(floored.lane) : \A e \in EntriesOf(ms, f) : ~ClearsFloors({e})
  <2>1. FloorVerdict(place, ms) = "red" /\ AreMaps(ms)
    BY <1>2 DEF FlooredIsSo
  <2>2. runners.vitest = "ok" /\ runners.jest = "ok"
    BY <1>2
  <2>3. PICK f \in ChangedIn(place) :
          /\ RunnerOf(f) # "none"
          /\ ms[RunnerOf(f)].state = "none" \/ ~ClearsFloors(EntriesOf(ms, f))
    BY <1>2, <2>1, <2>2 DEF FloorVerdict
  <2>4. RunnerOf(f) \in Runners
    BY <2>3, DiffCoverageAssumption DEF RunnerOf
  <2>5. ~ClearsFloors(EntriesOf(ms, f)) /\ f \in CodeFiles /\ f \in Touched(floored.lane)
    BY <1>2, <2>3, <2>4, TouchedIs DEF ChangedIn, Differs, Untracked
  <2>6. \A e \in EntriesOf(ms, f) : ~ClearsFloors({e})
    BY <2>1, <2>5, EntriesAre, MergingRaises
  <2>7. QED
    BY <2>5, <2>6
<1>3. QED
  BY <1>1, <1>2 DEF FloorsHold

(* check-diff-coverage holds every changed file to what its tests execute, *)
(* and being measured twice never costs a file anything.                   *)
THEOREM FloorsHoldHolds == CoverageSpec => []FloorsHold
<1>1. CoverageInit => CoverageType /\ FlooredIsSo
  BY DEF CoverageInit, CoverageType, FlooredIsSo, AreMaps, NoMap, Unfloored
<1>2. QED
  BY <1>1, CoverageTypeStep, FlooredStep, VerdictFloors, PTL DEF CoverageSpec
-----------------------------------------------------------------------------
(* Budgets.                                                                *)

(* A run of the gate sees what stands still while it runs: every subject    *)
(* behind it is within its row, and a subject that it measures again has    *)
(* been too slow, unless that measurement was disturbed.                    *)
BudgetsType ==
  /\ features \in UNION {[D -> Feature] : D \in SUBSET Dirs}
  /\ effects \in [Effects -> Effect]
  /\ budget.subjects \in UNION {[D -> Cap] : D \in SUBSET Dirs}
  /\ {"subjects", "exempt", "leakAllow"} \subseteq DOMAIN budget

PerfType ==
  /\ perf = [pc |-> perf.pc, left |-> perf.left, retried |-> perf.retried, disturbed |-> perf.disturbed]
  /\ perf.pc \in {"none", "measure", "red", "broken", "slow", "green"}
  /\ perf.retried \in BOOLEAN /\ perf.disturbed \in {0, 1}

WithinRow(d) ==
  /\ features[d].mount <= budget.subjects[d].mount
  /\ budget.subjects[d].update > 0 => features[d].update <= budget.subjects[d].update
  /\ budget.subjects[d].scales => 10 * features[d].rendered >= 9 * Cells - 9
TooSlow(d) ==
  \/ features[d].mount > budget.subjects[d].mount
  \/ budget.subjects[d].update > 0 /\ features[d].update > budget.subjects[d].update
Current == CHOOSE x \in perf.left : TRUE

PerfInv ==
  /\ perf.pc \in {"measure", "green"} =>
       /\ NoLeaks /\ Closed /\ perf.left \subseteq Subjects
       /\ \A d \in Subjects \ perf.left : WithinRow(d)
  /\ perf.pc = "measure" /\ ~perf.retried => perf.disturbed = 0
  /\ perf.pc = "measure" /\ perf.retried /\ perf.disturbed = 0 => TooSlow(Current)
  /\ perf.pc = "green" => perf.left = {}
  /\ perf.pc = "slow" => \A d \in perf.left : TooSlow(d)

(* A new directory, or a row that comes or goes, keeps the types.          *)
LEMMA WithType ==
  ASSUME NEW Names, NEW X, NEW f \in UNION {[D -> X] : D \in SUBSET Names}, NEW n \in Names
  PROVE  /\ \A v \in X : With(f, n, v) \in UNION {[D -> X] : D \in SUBSET Names}
         /\ Less(f, n) \in UNION {[D -> X] : D \in SUBSET Names}
<1>1. PICK D \in SUBSET Names : f \in [D -> X]
  OBVIOUS
<1>2. Less(f, n) \in [D \ {n} -> X] /\ D \ {n} \in SUBSET Names
  BY <1>1 DEF Less
<1>3. ASSUME NEW v \in X PROVE With(f, n, v) \in [D \cup {n} -> X] /\ D \cup {n} \in SUBSET Names
  BY <1>1 DEF With
<1>4. QED
  BY <1>2, <1>3

(* A feature that changes has the fields of one.                           *)
LEMMA FeatureEdited ==
  ASSUME BudgetsType, EditFeature
  PROVE  features' \in UNION {[D -> Feature] : D \in SUBSET Dirs}
<1>1. PICK D \in SUBSET Dirs : features \in [D -> Feature]
  BY DEF BudgetsType
<1>2. ASSUME NEW d \in D, NEW v \in Feature, features' = [features EXCEPT ![d] = v]
      PROVE  features' \in UNION {[E -> Feature] : E \in SUBSET Dirs}
  BY <1>1, <1>2
<1>3. ASSUME NEW d \in D
      PROVE  /\ \A how \in {"hook", "shape"} :
                  [features[d] EXCEPT !.dense = Toggled(features[d].dense, how)] \in Feature
             /\ [features[d] EXCEPT !.subject = ~features[d].subject] \in Feature
             /\ \A n \in 0..Cells : [features[d] EXCEPT !.rendered = n] \in Feature
             /\ \A c \in 1..MaxCost : [features[d] EXCEPT !.mount = c] \in Feature
             /\ \A c \in 1..MaxCost : [features[d] EXCEPT !.update = c] \in Feature
  <2>1. features[d] \in Feature
    BY <1>1
  <2>2. \A how \in {"hook", "shape"} : Toggled(features[d].dense, how) \in SUBSET {"hook", "shape"}
    BY <2>1 DEF Feature, Toggled
  <2>3. QED
    BY <2>1, <2>2 DEF Feature
<1>4. ASSUME NEW d \in Dirs \ D,
             features' = With(features, d, [dense |-> {}, subject |-> FALSE, rendered |-> Cells,
                                            mount |-> 1, update |-> 1])
      PROVE  features' \in UNION {[E -> Feature] : E \in SUBSET Dirs}
  <2> DEFINE v == [dense |-> {}, subject |-> FALSE, rendered |-> Cells, mount |-> 1, update |-> 1]
  <2>1. v \in Feature
    BY BudgetsAssumption DEF Feature
  <2> HIDE DEF v
  <2>2. QED
    BY <1>4, <2>1, WithType DEF BudgetsType, v
<1>5. ASSUME NEW d \in D, features' = Less(features, d)
      PROVE  features' \in UNION {[E -> Feature] : E \in SUBSET Dirs}
  BY <1>5, WithType DEF BudgetsType
<1>6. QED
  BY <1>1, <1>2, <1>3, <1>4, <1>5 DEF EditFeature

(* What people edit keeps its type.                                        *)
LEMMA BudgetsTypeStep == BudgetsType /\ [BudgetsNext]_bvars => BudgetsType'
<1> SUFFICES ASSUME BudgetsType, [BudgetsNext]_bvars PROVE BudgetsType'
  OBVIOUS
<1>1. CASE EditFeature
  BY <1>1, FeatureEdited DEF EditFeature, BudgetsType
<1>2. CASE EditEffect
  <2>1. PICK f \in Effects :
          \/ \E p \in LeakPairs, part \in {"registers", "body", "cleanup"} :
               effects' = [effects EXCEPT ![f][part] = Toggled(@, p)]
          \/ \E r \in {"never", "last", "early"} : effects' = [effects EXCEPT ![f].returns = r]
    BY <1>2 DEF EditEffect
  <2>2. effects[f] \in Effect
    BY DEF BudgetsType
  <2>3. ASSUME NEW v \in Effect, effects' = [effects EXCEPT ![f] = v]
        PROVE  effects' \in [Effects -> Effect]
    BY <2>3 DEF BudgetsType
  <2>4. ASSUME NEW p \in LeakPairs, NEW part \in {"registers", "body", "cleanup"}
        PROVE  [effects[f] EXCEPT ![part] = Toggled(effects[f][part], p)] \in Effect
    <3>1. Toggled(effects[f][part], p) \in SUBSET LeakPairs
      BY <2>2 DEF Effect, Toggled
    <3>2. QED
      BY <2>2, <3>1 DEF Effect
  <2>5. \A r \in {"never", "last", "early"} : [effects[f] EXCEPT !.returns = r] \in Effect
    BY <2>2 DEF Effect
  <2>6. effects' \in [Effects -> Effect]
    BY <2>1, <2>3, <2>4, <2>5
  <2>7. QED
    BY <1>2, <2>6 DEF EditEffect, BudgetsType
<1>3. CASE EditBudget
  <2> DEFINE Caps == UNION {[D -> Cap] : D \in SUBSET Dirs}
  <2>1. ASSUME NEW s \in Caps, budget' = [budget EXCEPT !.subjects = s]
        PROVE  budget'.subjects \in Caps /\ {"subjects", "exempt", "leakAllow"} \subseteq DOMAIN budget'
    BY <2>1 DEF BudgetsType
  <2>2. ASSUME NEW d \in Dirs
        PROVE  /\ \A v \in Cap : With(budget.subjects, d, v) \in Caps
               /\ Less(budget.subjects, d) \in Caps
    BY WithType DEF BudgetsType
  <2>3. \A m \in 1..MaxCost, u \in 0..MaxCost, s \in BOOLEAN :
          [mount |-> m, update |-> u, scales |-> s] \in Cap
    BY DEF Cap
  <2> HIDE DEF Caps
  <2>4. ASSUME NEW d \in Dirs,
               \/ \E m \in 1..MaxCost, u \in 0..MaxCost, s \in BOOLEAN :
                    budget' = [budget EXCEPT !.subjects =
                                With(@, d, [mount |-> m, update |-> u, scales |-> s])]
               \/ budget' = [budget EXCEPT !.subjects = Less(@, d)]
        PROVE  budget'.subjects \in Caps /\ {"subjects", "exempt", "leakAllow"} \subseteq DOMAIN budget'
    BY <2>1, <2>2, <2>3, <2>4
  <2>5. ASSUME \/ \E d \in Dirs : budget' = [budget EXCEPT !.exempt = Toggled(@, d)]
               \/ \E f \in Effects : budget' = [budget EXCEPT !.leakAllow = Toggled(@, f)]
        PROVE  budget'.subjects \in Caps /\ {"subjects", "exempt", "leakAllow"} \subseteq DOMAIN budget'
    BY <2>5 DEF BudgetsType, Caps
  <2>6. budget'.subjects \in Caps /\ {"subjects", "exempt", "leakAllow"} \subseteq DOMAIN budget'
    BY <1>3, <2>4, <2>5 DEF EditBudget
  <2>7. QED
    BY <1>3, <2>6 DEF EditBudget, BudgetsType, Caps
<1>4. CASE UNCHANGED <<features, effects, budget>>
  BY <1>4 DEF BudgetsType
<1>5. QED
  BY <1>1, <1>2, <1>3, <1>4 DEF BudgetsNext, bvars, StartPerf, Measure, PerfEnds

(* The median of samples of which at most one was slowed is the real cost, *)
(* and that or the slow one otherwise.                                     *)
LEMMA TimedMedian ==
  ASSUME NEW cost \in 1..MaxCost, NEW slowed \in SUBSET (1..Runs)
  PROVE  /\ Median(Timed(cost, slowed)) \in {cost, MaxCost + 1}
         /\ ~(Cardinality(slowed) > 1) => Median(Timed(cost, slowed)) = cost
<1> DEFINE s == Timed(cost, slowed)
<1>0. MaxCost \in Nat /\ cost \in Int /\ MaxCost + 1 \in Int
  BY BudgetsAssumption
<1>1. s \in [1..3 -> Int] /\ \A k \in 1..3 : s[k] = IF k \in slowed THEN MaxCost + 1 ELSE cost
  BY <1>0 DEF Timed, Runs
<1> HIDE DEF s
<1>2. ASSUME NEW x \in 1..3, \A k \in 1..3 : k # x => k \notin slowed PROVE Median(s) = cost
  BY <1>0, <1>1, <1>2, MedianIs
<1>3. ASSUME NEW x \in 1..3, \A k \in 1..3 : k # x => k \in slowed PROVE Median(s) = MaxCost + 1
  BY <1>0, <1>1, <1>3, MedianIs
<1>4. (\E x \in 1..3 : \A k \in 1..3 : k # x => k \notin slowed)
      \/ (\E x \in 1..3 : \A k \in 1..3 : k # x => k \in slowed)
  <2>1. \A k \in 1..3 : k = 1 \/ k = 2 \/ k = 3
    OBVIOUS
  <2>2. 1 \in 1..3 /\ 2 \in 1..3 /\ 3 \in 1..3
    OBVIOUS
  <2>3. QED
    BY <2>1, <2>2
<1>5. ~(Cardinality(slowed) > 1) => \E x \in 1..3 : \A k \in 1..3 : k # x => k \notin slowed
  <2> SUFFICES ASSUME ~(Cardinality(slowed) > 1)
               PROVE  \E x \in 1..3 : \A k \in 1..3 : k # x => k \notin slowed
    OBVIOUS
  <2>1. IsFiniteSet(slowed)
    <3>1. 1 \in Int /\ 3 \in Int
      OBVIOUS
    <3>2. IsFiniteSet(1..3)
      BY <3>1, FS_Interval, Zenon
    <3>3. QED
      BY <3>2, FS_Subset DEF Runs
  <2>2. Cardinality(slowed) = 0 \/ Cardinality(slowed) = 1
    BY <2>1, FS_CardinalityType
  <2>3. slowed = {} \/ \E x : slowed = {x}
    BY <2>1, <2>2, FS_EmptySet, FS_Singleton
  <2>4. 1 \in 1..3
    OBVIOUS
  <2>5. QED
    BY <2>3, <2>4 DEF Runs
<1>6. QED
  BY <1>2, <1>3, <1>4, <1>5 DEF s

(* So does the run of the gate.                                            *)
LEMMA PerfTypeStep == PerfType /\ [BudgetsNext]_bvars => PerfType'
<1> SUFFICES ASSUME PerfType, [BudgetsNext]_bvars PROVE PerfType'
  OBVIOUS
<1>0. CASE UNCHANGED perf
  BY <1>0, Zenon DEF PerfType
<1>1. CASE perf' = NoPerf
  BY <1>1 DEF NoPerf, PerfType
<1>2. CASE StartPerf
  BY <1>2 DEF StartPerf, NoPerf, PerfType
<1>3. CASE PerfEnds
  BY <1>3 DEF PerfEnds, PerfType
<1>4. CASE Measure
  <2>1. PICK slowMount \in SUBSET (1..Runs), slowUpdate \in SUBSET (1..Runs) :
       LET d      == CHOOSE x \in perf.left : TRUE
           row    == budget.subjects[d]
           f      == features[d]
           over   == Over(row, Median(Timed(f.mount, slowMount)), Median(Timed(f.update, slowUpdate)))
           bad    == Cardinality(slowMount) > 1 \/ Cardinality(slowUpdate) > 1
           spoilt == IF bad THEN perf.disturbed + 1 ELSE perf.disturbed
       IN /\ spoilt <= 1
          /\ perf' =
               IF Vacuous(row, f) THEN [perf EXCEPT !.pc = "broken"]
               ELSE IF ~over
                    THEN [perf EXCEPT !.left = @ \ {d}, !.retried = FALSE, !.disturbed = 0]
               ELSE IF ~perf.retried
                    THEN [perf EXCEPT !.retried = TRUE, !.disturbed = spoilt]
               ELSE [perf EXCEPT !.pc = "slow", !.left = {d}]
    BY <1>4 DEF Measure
  <2> DEFINE bad == Cardinality(slowMount) > 1 \/ Cardinality(slowUpdate) > 1
             spoilt == IF bad THEN perf.disturbed + 1 ELSE perf.disturbed
  <2>2. /\ spoilt <= 1
        /\ \/ perf' = [perf EXCEPT !.pc = "broken"]
           \/ \E l : perf' = [perf EXCEPT !.left = l, !.retried = FALSE, !.disturbed = 0]
           \/ perf' = [perf EXCEPT !.retried = TRUE, !.disturbed = spoilt]
           \/ \E l : perf' = [perf EXCEPT !.pc = "slow", !.left = l]
    BY <2>1
  <2>3. spoilt \in {0, 1}
    <3>1. perf.disturbed = 0 \/ perf.disturbed = 1
      BY DEF PerfType
    <3>2. spoilt <= 1 /\ (spoilt = perf.disturbed + 1 \/ spoilt = perf.disturbed)
      BY <2>2
    <3> HIDE DEF spoilt
    <3>3. QED
      BY <3>1, <3>2
  <2> HIDE DEF spoilt
  <2>4. QED
    BY <2>2, <2>3 DEF PerfType
<1>5. QED
  BY <1>0, <1>1, <1>2, <1>3, <1>4 DEF BudgetsNext, bvars, EditFeature, EditEffect, EditBudget, Tweaked

(* What the scans say of a tree they let pass.                             *)
LEMMA MeasureStep == BudgetsType /\ PerfType /\ PerfInv /\ Measure => PerfInv'
<1> SUFFICES ASSUME BudgetsType, PerfType, PerfInv, Measure PROVE PerfInv'
  OBVIOUS
<1> DEFINE d      == Current
           row    == budget.subjects[d]
           f      == features[d]
<1>1. PICK slowMount \in SUBSET (1..Runs), slowUpdate \in SUBSET (1..Runs) :
     LET over   == Over(row, Median(Timed(f.mount, slowMount)), Median(Timed(f.update, slowUpdate)))
         bad    == Cardinality(slowMount) > 1 \/ Cardinality(slowUpdate) > 1
         spoilt == IF bad THEN perf.disturbed + 1 ELSE perf.disturbed
     IN /\ spoilt <= 1
        /\ perf' =
             IF Vacuous(row, f) THEN [perf EXCEPT !.pc = "broken"]
             ELSE IF ~over
                  THEN [perf EXCEPT !.left = @ \ {d}, !.retried = FALSE, !.disturbed = 0]
             ELSE IF ~perf.retried
                  THEN [perf EXCEPT !.retried = TRUE, !.disturbed = spoilt]
             ELSE [perf EXCEPT !.pc = "slow", !.left = {d}]
  BY DEF Measure, Current
<1> DEFINE mount  == Median(Timed(f.mount, slowMount))
           update == Median(Timed(f.update, slowUpdate))
           over   == Over(row, mount, update)
           bad    == Cardinality(slowMount) > 1 \/ Cardinality(slowUpdate) > 1
           spoilt == IF bad THEN perf.disturbed + 1 ELSE perf.disturbed
<1>2. /\ UNCHANGED <<features, effects, budget>> /\ perf.pc = "measure"
      /\ d \in perf.left /\ perf.left \subseteq Subjects /\ NoLeaks /\ Closed
      /\ \A e \in Subjects \ perf.left : WithinRow(e)
  BY DEF Measure, PerfInv, Current
<1>3. row \in Cap /\ f \in Feature
  <2>1. d \in DOMAIN budget.subjects /\ d \in DOMAIN features
    BY <1>2 DEF Closed, HasSubject, Subjects
  <2>2. QED
    BY <2>1 DEF BudgetsType
<1>t. /\ MaxCost \in Nat /\ f.mount \in 1..MaxCost /\ f.update \in 1..MaxCost
      /\ row.mount \in 1..MaxCost /\ row.update \in 0..MaxCost
  BY <1>3, BudgetsAssumption DEF Cap, Feature
<1>4. /\ mount \in {f.mount, MaxCost + 1} /\ (~(Cardinality(slowMount) > 1) => mount = f.mount)
      /\ update \in {f.update, MaxCost + 1} /\ (~(Cardinality(slowUpdate) > 1) => update = f.update)
  <2> HIDE DEF f
  <2>1. QED
    BY <1>t, TimedMedian
<1>5. f.mount <= mount /\ f.update <= update /\ mount \in Int /\ update \in Int
  <2> HIDE DEF mount, update, f
  <2>1. QED
    BY <1>4, <1>t
<1>a. /\ spoilt <= 1
      /\ perf' =
           IF Vacuous(row, f) THEN [perf EXCEPT !.pc = "broken"]
           ELSE IF ~over
                THEN [perf EXCEPT !.left = @ \ {d}, !.retried = FALSE, !.disturbed = 0]
           ELSE IF ~perf.retried
                THEN [perf EXCEPT !.retried = TRUE, !.disturbed = spoilt]
           ELSE [perf EXCEPT !.pc = "slow", !.left = {d}]
  BY <1>1
<1>6. ~Vacuous(row, f) /\ ~over => WithinRow(d)
  <2> SUFFICES ASSUME ~Vacuous(row, f), ~over PROVE WithinRow(d)
    OBVIOUS
  <2>1. row.scales => 10 * f.rendered >= 9 * Cells - 9
    <3>1. f.rendered \in Int /\ Cells \in Int
      BY <1>3, BudgetsAssumption DEF Feature
    <3>2. row.scales => ~(f.rendered < (Cells * 9) \div 10)
      BY DEF Vacuous
    <3> HIDE DEF row, f
    <3>3. QED
      BY <3>1, <3>2
  <2>2. ~(mount > row.mount) /\ ~(row.update > 0 /\ update > row.update)
    BY DEF Over
  <2>3. f.mount <= row.mount /\ (row.update > 0 => f.update <= row.update)
    <3> HIDE DEF mount, update, row, f
    <3>1. QED
      BY <1>t, <1>5, <2>2
  <2>4. QED
    BY <2>1, <2>3 DEF WithinRow
<1>7. over /\ ~bad => TooSlow(d)
  BY <1>4 DEF Over, TooSlow
<1>8. \A e : (WithinRow(e)' <=> WithinRow(e)) /\ (TooSlow(e)' <=> TooSlow(e))
  BY <1>2 DEF WithinRow, TooSlow
<1>9. (NoLeaks' <=> NoLeaks) /\ (Closed' <=> Closed) /\ Subjects' = Subjects
  BY <1>2 DEF NoLeaks, Closed, Subjects, HasSubject, Dense
<1>10. perf.retried => spoilt = 0 \/ ~bad \/ TooSlow(d)
  BY <1>2, <1>a DEF PerfInv, PerfType
<1>c. ~perf.retried /\ spoilt = 0 => ~bad
  BY <1>2 DEF PerfInv, PerfType
<1> HIDE DEF over, bad, spoilt, mount, update, row, f
<1>11. CASE perf' = [perf EXCEPT !.pc = "broken"]
  BY <1>11 DEF PerfInv, PerfType
<1>12. CASE ~Vacuous(row, f) /\ ~over /\ perf' = [perf EXCEPT !.left = @ \ {d}, !.retried = FALSE, !.disturbed = 0]
  <2>1. perf'.pc = "measure" /\ perf'.left = perf.left \ {d} /\ perf'.retried = FALSE /\ perf'.disturbed = 0
    BY <1>2, <1>12 DEF PerfType
  <2>2. WithinRow(d)
    BY <1>6, <1>12
  <2> HIDE DEF d
  <2>3. QED
    BY <1>2, <1>8, <1>9, <2>1, <2>2 DEF PerfInv
<1>13. CASE over /\ ~perf.retried /\ perf' = [perf EXCEPT !.retried = TRUE, !.disturbed = spoilt]
  <2>1. perf'.pc = "measure" /\ perf'.left = perf.left /\ perf'.retried = TRUE /\ perf'.disturbed = spoilt
    BY <1>2, <1>13 DEF PerfType
  <2>2. spoilt = 0 => TooSlow(d)
    BY <1>7, <1>c, <1>13
  <2>3. Current' = d
    BY <2>1 DEF Current
  <2> HIDE DEF d
  <2>4. QED
    BY <1>2, <1>8, <1>9, <2>1, <2>2, <2>3 DEF PerfInv
<1>14. CASE over /\ perf.retried /\ perf' = [perf EXCEPT !.pc = "slow", !.left = {d}]
  <2>1. perf'.pc = "slow" /\ perf'.left = {d}
    BY <1>2, <1>14 DEF PerfType
  <2>2. TooSlow(d)
    <3>1. bad => perf.disturbed = 0
      BY <1>a DEF PerfType, spoilt
    <3>2. QED
      BY <1>2, <1>7, <1>14, <3>1 DEF PerfInv
  <2> HIDE DEF d
  <2>3. QED
    BY <1>8, <2>1, <2>2 DEF PerfInv
<1>15. QED
  BY <1>a, <1>11, <1>12, <1>13, <1>14

(* The invariant of the render budgets is inductive.                       *)
LEMMA PerfInvStep == BudgetsType /\ PerfType /\ PerfInv /\ [BudgetsNext]_bvars => PerfInv'
<1> SUFFICES ASSUME BudgetsType, PerfType, PerfInv, [BudgetsNext]_bvars PROVE PerfInv'
  OBVIOUS
<1>1. CASE perf' = NoPerf
  BY <1>1 DEF NoPerf, PerfInv
<1>2. CASE StartPerf
  <2>1. CASE NoLeaks /\ Closed /\ perf' = [NoPerf EXCEPT !.pc = "measure", !.left = Subjects]
    BY <1>2, <2>1 DEF StartPerf, NoPerf, PerfInv, NoLeaks, Closed, Subjects, HasSubject, Dense
  <2>2. CASE perf' = [NoPerf EXCEPT !.pc = "red"]
    BY <2>2 DEF NoPerf, PerfInv
  <2>3. QED
    BY <1>2, <2>1, <2>2 DEF StartPerf
<1>3. CASE PerfEnds
  BY <1>3 DEF PerfEnds, PerfType, PerfInv, NoLeaks, Closed, Subjects, HasSubject, Dense, WithinRow
<1>4. CASE UNCHANGED bvars
  BY <1>4 DEF bvars, PerfInv, NoLeaks, Closed, Subjects, HasSubject, Dense, WithinRow, TooSlow, Current
<1>5. QED
  BY <1>1, <1>2, <1>3, <1>4, MeasureStep DEF BudgetsNext, EditFeature, EditEffect, EditBudget, Tweaked

(* A green render gate is of subjects within their rows and sources that   *)
(* leak nothing; a slow one names a subject that is really too slow.       *)
THEOREM RenderVerdictHolds == BudgetsSpec => []RenderBudgetHolds
<1> DEFINE Inv == BudgetsType /\ PerfType /\ PerfInv
<1>1. BudgetsInit => Inv
  BY DEF BudgetsInit, NoPerf, BudgetsType, PerfType, PerfInv
<1>2. Inv /\ [BudgetsNext]_bvars => Inv'
  BY BudgetsTypeStep, PerfTypeStep, PerfInvStep
<1>3. Inv => RenderBudgetHolds
  <2> SUFFICES ASSUME Inv PROVE RenderBudgetHolds
    OBVIOUS
  <2>1. ASSUME perf.pc = "green"
        PROVE  /\ \A d \in DOMAIN features \ budget.exempt : features[d].dense # {} => d \in Subjects
               /\ \A d \in Subjects : WithinRow(d)
               /\ \A f \in Effects \ budget.leakAllow :
                    effects[f].returns # "early" => effects[f].registers \subseteq effects[f].cleanup
    <3>1. NoLeaks /\ Closed /\ perf.left = {} /\ \A d \in Subjects \ perf.left : WithinRow(d)
      BY <2>1 DEF PerfInv
    <3>2. \A f \in Effects : effects[f].returns \in {"never", "last", "early"}
      BY DEF BudgetsType, Effect
    <3>3. \A f \in Effects \ budget.leakAllow :
            effects[f].returns # "early" => effects[f].registers \subseteq effects[f].cleanup
      BY <3>1, <3>2 DEF NoLeaks, Unpaired, CleanupSlice
    <3>4. QED
      BY <3>1, <3>3 DEF Closed, Dense
  <2>2. perf.pc = "slow" => \A d \in perf.left : TooSlow(d)
    BY DEF PerfInv
  <2>3. QED
    BY <2>1, <2>2 DEF RenderBudgetHolds, WithinRow, TooSlow
<1>4. QED
  BY <1>1, <1>2, <1>3, PTL DEF BudgetsSpec

=============================================================================
