----------------------------- MODULE DiffCoverage -----------------------------
(***************************************************************************)
(* check-diff-coverage: every changed source file clears the coverage      *)
(* floors of the runner that measures it, by the maps the two unit steps   *)
(* leave on disk, locally against HEAD and in CI against the merge base.   *)
(*                                                                         *)
(* A tree is its sources and what its tests execute of them.  Branches and *)
(* functions are merged and held as statements are and are left out, with  *)
(* the files that are no code or are tests themselves.                     *)
(***************************************************************************)
EXTENDS Naturals, FiniteSets, SequencesExt, TreeEdits

CONSTANTS
  CodeFiles,       \* sources under apps/*/src, packages/*/src and apps/mobile/app
  MobileFiles,     \* those under apps/mobile
  TopLevel,        \* and of them those directly in its src or app
  Runners,         \* "vitest" and "jest"
  StatementLines,  \* Runners -> the line of each statement, as it counts them
  MaxContents,     \* bound: contents of a file, numbered; 0 is no file
  MaxCovered       \* bound: changes by people

Metrics == {"statements", "lines"}
Floor   == 5000       \* hundredths of a percent, as pct rounds

ASSUME DiffCoverageAssumption ==
  /\ TopLevel \subseteq MobileFiles /\ MobileFiles \subseteq CodeFiles
  /\ Runners = {"vitest", "jest"}
  /\ \A r \in Runners : StatementLines[r] \in Seq(Nat)

VARIABLES
  trees,    \* of the Places: [code, hits]
  maps,     \* Runners -> the map on disk: "none", "garbled", or its entries
  runners,  \* the two configs: are they readable, and what they leave out
  git,      \* can the changed files be told?
  floored,  \* the last verdict, its lane and the maps it was given by
  covers    \* changes so far
cvars == <<trees, maps, runners, git, floored, covers>>

\* The merge base, HEAD, what git add has staged, and the work tree.
Places == {"base", "head", "index", "work"}
\* hits: Runners -> CodeFiles -> {} if no test of the runner loads the file,
\* or {the statements executed}.
NoMap     == [state |-> "none", entries |-> <<>>]
Unfloored == [verdict |-> "none", lane |-> "none", seen |-> [r \in Runners |-> NoMap]]

-----------------------------------------------------------------------------
(***************************************************************************)
(* One file: the metrics of its entries, each [runner, hit].               *)
(***************************************************************************)
Percent(part, whole) == IF whole = 0 THEN 10000 ELSE (part * 10000) \div whole

LinesIn(e) == Range(StatementLines[e.runner])
LinesHit(e) == {StatementLines[e.runner][s] : s \in e.hit}

Metric(e, metric) ==
  IF metric = "statements" THEN Percent(Cardinality(e.hit), Len(StatementLines[e.runner]))
  ELSE Percent(Cardinality(LinesHit(e)), Cardinality(LinesIn(e)))

UnionLines(es) ==
  Percent(Cardinality(UNION {LinesHit(e) : e \in es}), Cardinality(UNION {LinesIn(e) : e \in es}))

\* Wrong: the lines of both maps are the file's, whatever one map alone says.
WrongMerged(es, metric) ==
  IF metric = "lines" THEN UnionLines(es) ELSE Max({Metric(e, metric) : e \in es})
\* Two maps: the better one, and for lines their union if that is better.
Merged(es, metric) ==
  Max({Metric(e, metric) : e \in es} \cup
      (IF metric = "lines" /\ Cardinality(es) > 1 THEN {UnionLines(es)} ELSE {}))

ClearsFloors(es) == es # {} /\ \A metric \in Metrics : Merged(es, metric) >= Floor

-----------------------------------------------------------------------------
(***************************************************************************)
(* The gate.                                                               *)
(***************************************************************************)
\* classifyChanged: the runner whose config measures the file, as the gate reads
\* the config.  Jest measures the mobile files at the top level too, but globToRe
\* wants a directory where a glob says **: the gate holds them to no floor.
RunnerOf(f) ==
  IF f \in runners.unmeasured \cup TopLevel THEN "none"
  ELSE IF f \in MobileFiles THEN "jest" ELSE "vitest"

EntriesOf(ms, f) ==
  UNION {{[runner |-> r, hit |-> hit] : hit \in ms[r].entries[f]} :
           r \in {q \in Runners : ms[q].state = "there"}}

\* changedFiles: what differs and is still there.  Locally that is the work
\* tree and the index, each against HEAD, and what is untracked; in CI HEAD
\* against the merge base.
Differs(place, past) ==
  {f \in CodeFiles : trees[place].code[f] \notin {0, trees[past].code[f]}}
Untracked == {f \in CodeFiles : trees.index.code[f] = 0 /\ trees.work.code[f] # 0}
ChangedIn(place) ==
  IF place = "head" THEN Differs("head", "base")
  ELSE Differs("work", "head") \cup Differs("index", "head") \cup Untracked

FloorVerdict(place, ms) ==
  LET changed == ChangedIn(place)
      held    == {f \in changed : RunnerOf(f) # "none"}
  IN IF runners.vitest # "ok" \/ runners.jest = "garbled" THEN "red"
     ELSE IF ~git THEN IF place = "head" THEN "red" ELSE "skipped"
     ELSE IF \/ runners.jest = "none" /\ changed \cap MobileFiles # {}
             \/ \E r \in Runners : ms[r].state = "garbled"
             \/ \E f \in held : ms[RunnerOf(f)].state = "none" \/ ~ClearsFloors(EntriesOf(ms, f))
          THEN "red" ELSE "green"

-----------------------------------------------------------------------------
(***************************************************************************)
(* People and lanes.                                                       *)
(***************************************************************************)
\* What the unit steps write of a tree.
MapsOf(tree) == [r \in Runners |-> [state |-> "there", entries |-> tree.hits[r]]]

Covered == covers < MaxCovered /\ covers' = covers + 1 /\ floored' = Unfloored

EditSources ==
  /\ Covered
  /\ \E f \in CodeFiles, c \in 0..MaxContents :
       /\ c # trees.work.code[f]
       /\ trees' = [trees EXCEPT !.work.code[f] = c,
                     !.work.hits = IF c = 0 THEN [r \in Runners |-> [@[r] EXCEPT ![f] = {}]] ELSE @]
  /\ UNCHANGED <<maps, runners, git>>

EditUnitTests ==
  /\ Covered
  /\ \E r \in Runners, f \in {g \in CodeFiles : trees.work.code[g] # 0} :
       \E hit \in {{}} \cup {{h} : h \in SUBSET DOMAIN StatementLines[r]} :
         trees' = [trees EXCEPT !.work.hits[r][f] = hit]
  /\ UNCHANGED <<maps, runners, git>>

\* A config changes, the history is cut off, or a map is lost.
EditSurroundings ==
  /\ Covered
  /\ \/ \E f \in CodeFiles : runners' = [runners EXCEPT !.unmeasured = Toggled(@, f)]
        /\ UNCHANGED <<maps, git>>
     \/ \E to \in {"ok", "garbled"} : runners' = [runners EXCEPT !.vitest = to]
        /\ UNCHANGED <<maps, git>>
     \/ \E to \in {"ok", "garbled", "none"} : runners' = [runners EXCEPT !.jest = to]
        /\ UNCHANGED <<maps, git>>
     \/ git' = ~git /\ UNCHANGED <<maps, runners>>
     \/ \E r \in Runners, to \in {"none", "garbled"} :
          maps' = [maps EXCEPT ![r] = [NoMap EXCEPT !.state = to]] /\ UNCHANGED <<runners, git>>
  /\ UNCHANGED trees

Stage ==
  /\ trees' = [trees EXCEPT !.index = trees.work] /\ floored' = Unfloored
  /\ UNCHANGED <<maps, runners, git, covers>>

Commit ==
  /\ trees' = [trees EXCEPT !.head = trees.index] /\ floored' = Unfloored
  /\ UNCHANGED <<maps, runners, git, covers>>

Judged(lane, place, ms) ==
  floored' = [verdict |-> FloorVerdict(place, ms), lane |-> lane, seen |-> ms]

\* The Stop chain: both unit steps, then the gate.
StopChain ==
  /\ maps' = MapsOf(trees.work) /\ Judged("stop", "work", maps')
  /\ UNCHANGED <<trees, runners, git, covers>>

\* The gate on its own, by whatever maps there are.
GateAlone ==
  /\ Judged("alone", "work", maps)
  /\ UNCHANGED <<trees, maps, runners, git, covers>>

\* CI, in a checkout of its own.
PullRequestChain ==
  /\ Judged("ci", "head", MapsOf(trees.head))
  /\ UNCHANGED <<trees, maps, runners, git, covers>>

\* Any tree whose hits are statements of its files, checked out and untested.
Hits(r) == [CodeFiles -> {{}} \cup {{hit} : hit \in SUBSET DOMAIN StatementLines[r]}]
IsTree(t) ==
  /\ t = [code |-> t.code, hits |-> t.hits]
  /\ t.hits = [r \in Runners |-> t.hits[r]] /\ \A r \in Runners : t.hits[r] \in Hits(r)
CoverageInit ==
  /\ trees = [p \in Places |-> trees[p]] /\ \A p \in Places : IsTree(trees[p])
  /\ maps = [r \in Runners |-> NoMap] /\ floored = Unfloored /\ covers = 0

CoverageNext ==
  \/ EditSources \/ EditUnitTests \/ EditSurroundings \/ Stage \/ Commit
  \/ StopChain \/ GateAlone \/ PullRequestChain

CoverageSpec == CoverageInit /\ [][CoverageNext]_cvars

-----------------------------------------------------------------------------
(***************************************************************************)
(* Properties.                                                             *)
(***************************************************************************)
\* The files with a floor a person has added or changed and not committed, or in
\* CI committed.
Touched(lane) ==
  LET base == trees.base.code
      head == trees.head.code
      index == trees.index.code
      work == trees.work.code
  IN {f \in CodeFiles \ (runners.unmeasured \cup TopLevel) :
        IF lane = "ci" THEN head[f] \notin {0, base[f]}
        ELSE \/ {work[f], index[f]} \ {0, head[f]} # {}
             \/ index[f] = 0 /\ work[f] # 0}

\* What is known to be executed of a file: a chain has just run the tests of its
\* tree, the gate alone goes by the maps it finds.
Executed(r, f) ==
  CASE floored.lane = "ci" -> trees.head.hits[r][f]
    [] floored.lane = "stop" -> trees.work.hits[r][f]
    [] OTHER -> IF floored.seen[r].state = "there" THEN floored.seen[r].entries[f] ELSE {}

\* check-diff-coverage.mjs:2-6 and :205 "merging can only ever RAISE a file's
\* numbers": behind a green verdict there is no changed file with statements of
\* which no test executes one, whatever became of the maps; a red gate that can
\* see the change and its maps names a file that neither runner alone would pass,
\* so that being measured twice never costs anything.  A mobile file at the top
\* level is held to nothing, an oddity the tests pin
\* (check-diff-coverage.test.mjs:280-295).
FloorsHold ==
  /\ floored.verdict = "green" =>
       \A f \in Touched(floored.lane) :
         \E r \in Runners : \E hit \in Executed(r, f) : hit # {} \/ StatementLines[r] = <<>>
  /\ floored.verdict = "red" /\ git /\ {runners.vitest, runners.jest} = {"ok"}
     /\ (\A r \in Runners : floored.seen[r].state = "there") =>
       \E f \in Touched(floored.lane) :
         \A e \in EntriesOf(floored.seen, f) : ~ClearsFloors({e})

=============================================================================
