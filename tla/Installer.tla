------------------------------ MODULE Installer ------------------------------
(***************************************************************************)
(* The installer CLI (src/installer): init, update, update                 *)
(* --refresh-seeded, enable and disable, run again and again on one        *)
(* project while people edit it, new releases appear and commands die half *)
(* way.                                                                    *)
(*                                                                         *)
(* A command reads .harness/manifest.json once, walks its plan writing     *)
(* project files one by one, and writes the manifest once, at the very     *)
(* end.  The files of a plan are distinct, so the order of the walk only   *)
(* decides which part of it a crash leaves behind: `todo' is a set, and    *)
(* every part is allowed.                                                  *)
(*                                                                         *)
(* File contents are data: who wrote them, and from which release.  sha256 *)
(* is taken to be injective, so the sha a manifest records is represented  *)
(* by the content it is the sha of.                                        *)
(*                                                                         *)
(* Definitions named Wrong... are the definition that follows with one     *)
(* plausible bug in it.  They are no part of the specification: each shows *)
(* that a property would notice that bug.                                  *)
(***************************************************************************)
EXTENDS Naturals

CONSTANTS
  Paths,        \* install paths of the template, over all releases
  Modules,      \* opt-in modules (layout.mjs MODULES)
  Layout,       \* Paths -> the row layout.mjs has for a path
  PackageJson,  \* the path package.json
  Ships,        \* release -> the paths its template holds
  Removed,      \* release -> the paths migrations.json removes or renames there
  Promoted,     \* release -> the modules migrations.json folds into the base
  MaxVersion,   \* releases are 1..MaxVersion
  ProjectTexts, \* identifiers of the texts people write
  DryRuns,      \* bound: the values of --dry-run that are tried
  MaxEdits,     \* bound: edits and deletions by people
  MaxCrashes    \* bound: commands that die half way

Versions == 1..MaxVersion
Trees == {"base", "stack"} \cup Modules

(***************************************************************************)
(* A row of layout.mjs: the template tree a path comes from, its mode      *)
(* (fileMode), what a retrofit does with a file that is already there,     *)
(* whether a retrofit adds it when absent (RETROFIT_ADDITIVE), whether     *)
(* `update' withholds it (seedOnInitOnly) and the directory --consume      *)
(* treats specially.                                                       *)
(***************************************************************************)
Rows == [tree     : Trees,
         mode     : {"owned", "seeded", "config"},
         retrofit : {"package", "workspace", "gitignore", "settings", "park"},
         additive : BOOLEAN,
         initOnly : BOOLEAN,
         dir      : {"github", "tests", "other"}]

\* package.json is a seeded file; a removed path does not come back.
ASSUME InstallerAssumption ==
  /\ MaxVersion \in Nat \ {0}
  /\ MaxEdits \in Nat /\ MaxCrashes \in Nat /\ DryRuns \subseteq BOOLEAN
  /\ ProjectTexts \subseteq Nat
  /\ Modules \cap {"base", "stack", "none"} = {}
  /\ Layout \in [Paths -> Rows]
  /\ PackageJson \in Paths
  /\ \A p \in Paths : Layout[p].retrofit = "package" => Layout[p].mode = "seeded"
  /\ Ships \in [Versions -> SUBSET Paths]
  /\ Removed \in [Versions -> SUBSET Paths]
  /\ Promoted \in [Versions -> SUBSET Modules]
  /\ \A v \in Versions : \A w \in Versions : v <= w => Removed[v] \cap Ships[w] = {}

(***************************************************************************)
(* Contents.  `steps' is the release up to which a gate config carries the *)
(* configSteps and configCommandUpdates of migrations.json.                *)
(***************************************************************************)
Authors == {"nobody", "harness", "project", "merged"}
Content == [by : Authors, id : Nat, steps : Nat]

Absent == [by |-> "nobody", id |-> 0, steps |-> 0]
Template(p, v) ==
  [by |-> "harness", id |-> v, steps |-> IF Layout[p].mode = "config" THEN v ELSE 0]
Merged(v) == [by |-> "merged", id |-> v, steps |-> 0]
Inject(c, v) == [c EXCEPT !.steps = v]

(***************************************************************************)
(* Contents people leave at p: a text of their own, or the template of     *)
(* some release (a fix applied by hand, a checkout of an old commit).      *)
(***************************************************************************)
PeopleWrite(p) ==
  {[by |-> "project", id |-> i, steps |-> 0] : i \in ProjectTexts}
    \cup {Template(p, v) : v \in Versions}

NoModule == "none"
Ops == {"idle", "init", "migrate", "update", "refresh", "enable", "disable"}

VARIABLES
  disk,      \* Paths -> Content: the project's files
  parked,    \* Paths -> Content: the copy under .harness/pending, .harness/conflicts or *.harness.*
  touched,   \* history: paths people wrote or deleted since the installer last wrote them
  rec,       \* manifest.files[p].sha256, Absent when p has no record
  tag,       \* paths whose record names a module
  mods,      \* manifest.modules
  hv,        \* manifest.harnessVersion, 0 while there is no manifest
  mode,      \* manifest.mode
  iv,        \* release of the installer at hand
  cmd,       \* the running command and its flags
  todo,      \* the part of its plan still ahead
  newRec, newTag, newMods,  \* the manifest it builds in memory
  edits, crashes            \* counters for the bounds

project  == <<disk, parked, touched>>
manifest == <<rec, tag, mods, hv, mode>>
memory   == <<newRec, newTag, newMods>>
bounds   == <<edits, crashes>>
vars == <<disk, parked, touched, rec, tag, mods, hv, mode, iv, cmd, todo,
          newRec, newTag, newMods, edits, crashes>>

Idle == [op |-> "idle", force |-> FALSE, dry |-> FALSE, consume |-> FALSE,
         module |-> NoModule, mode |-> "bootstrap"]
NoRecords == [p \in Paths |-> Absent]

(***************************************************************************)
(* RETIRED_MODULES of release v, and the plan of an `update': base, stack  *)
(* and the enabled modules.  The files of a retired module are base files. *)
(***************************************************************************)
Retired(v) == UNION {Promoted[w] : w \in 1..v}
Tree(p, v) == IF Layout[p].tree \in Retired(v) THEN "base" ELSE Layout[p].tree
Plan(v, ms) == {p \in Ships[v] : Tree(p, v) \in {"base", "stack"} \cup ms}
Owned(p) == Layout[p].mode = "owned"

-----------------------------------------------------------------------------
(***************************************************************************)
(* reconcile.mjs: what `update' does with a file.                          *)
(***************************************************************************)
\* Wrong: drift is measured against the incoming text, not the recorded one.
WrongClassifyDrift(current, recorded, incoming, force) ==
  CASE current = Absent -> "create"
    [] current # Absent /\ recorded = Absent ->
         IF current = incoming THEN "skip-same" ELSE "update-clean"
    [] OTHER -> IF current = incoming THEN "record-only"
                ELSE IF force THEN "force-overwrite" ELSE "park"

ClassifyDrift(current, recorded, incoming, force) ==
  CASE current = Absent -> "create"
    [] current # Absent /\ (recorded = Absent \/ current = recorded) ->
         IF current = incoming THEN "skip-same" ELSE "update-clean"
    [] OTHER ->
         IF current = incoming THEN "record-only"
         ELSE IF force THEN "force-overwrite" ELSE "park"

(***************************************************************************)
(* The three effects a step has on the project, each one guarded by        *)
(* --dry-run in the code.                                                  *)
(***************************************************************************)
WriteFile(p, c) ==
  /\ disk' = IF cmd.dry THEN disk ELSE [disk EXCEPT ![p] = c]
  /\ touched' = IF cmd.dry THEN touched ELSE touched \ {p}
  /\ UNCHANGED parked
RemoveFile(p) ==
  /\ disk' = IF cmd.dry THEN disk ELSE [disk EXCEPT ![p] = Absent]
  /\ touched' = IF cmd.dry THEN touched ELSE touched \ {p}
  /\ UNCHANGED parked
Park(p, c) ==
  /\ parked' = IF cmd.dry THEN parked ELSE [parked EXCEPT ![p] = c]
  /\ UNCHANGED <<disk, touched>>

Record(p, c) == newRec' = [newRec EXCEPT ![p] = c]
Forget(p) ==
  /\ newRec' = [newRec EXCEPT ![p] = Absent]
  /\ newTag' = newTag \ {p}

\* The step for p is done; nothing but the walk moves on.
Walk(p) ==
  /\ p \in todo
  /\ todo' = todo \ {p}
  /\ UNCHANGED <<manifest, iv, cmd, newMods, bounds>>

-----------------------------------------------------------------------------
(***************************************************************************)
(* People, and the release of new installers.                              *)
(***************************************************************************)
ProjectInit ==
  \/ disk = [p \in Paths |-> Absent]
  \/ /\ disk \in [Paths -> {Absent} \cup
                    {[by |-> "project", id |-> i, steps |-> 0] : i \in ProjectTexts}]
     /\ \A p \in Paths :
          Layout[p].retrofit \in {"package", "workspace"} => disk[p] # Absent

Init ==
  /\ ProjectInit
  /\ parked = NoRecords
  /\ touched = {p \in Paths : disk[p] # Absent}
  /\ rec = NoRecords /\ tag = {} /\ mods = {} /\ hv = 0 /\ mode = "bootstrap"
  /\ iv = 1
  /\ cmd = Idle /\ todo = {}
  /\ newRec = NoRecords /\ newTag = {} /\ newMods = {}
  /\ edits = 0 /\ crashes = 0

Edit(p, c) ==
  /\ edits < MaxEdits
  /\ c # disk[p]
  /\ disk' = [disk EXCEPT ![p] = c]
  /\ touched' = touched \cup {p}
  /\ edits' = edits + 1
  /\ UNCHANGED <<parked, manifest, iv, cmd, todo, memory, crashes>>

NewRelease ==
  /\ cmd = Idle /\ iv < MaxVersion
  /\ iv' = iv + 1
  /\ UNCHANGED <<project, manifest, cmd, todo, memory, bounds>>

-----------------------------------------------------------------------------
(***************************************************************************)
(* Starting and ending a command.                                          *)
(***************************************************************************)
Begin(c, plan, r, t, ms) ==
  /\ cmd = Idle
  /\ cmd' = c /\ todo' = plan
  /\ newRec' = r /\ newTag' = t /\ newMods' = ms
  /\ UNCHANGED <<parked, manifest, iv, bounds>>

Forgotten ==
  /\ cmd' = Idle /\ todo' = {}
  /\ newRec' = NoRecords /\ newTag' = {} /\ newMods' = {}

\* writeManifest, the last effect of a command: nothing under --dry-run.
SaveManifest(version, installMode) ==
  /\ rec'  = IF cmd.dry THEN rec  ELSE newRec
  /\ tag'  = IF cmd.dry THEN tag  ELSE newTag
  /\ mods' = IF cmd.dry THEN mods ELSE newMods
  /\ hv'   = IF cmd.dry THEN hv   ELSE version
  /\ mode' = IF cmd.dry THEN mode ELSE installMode

\* The process dies: what it wrote stays, what it had in memory is gone.
Crash ==
  /\ cmd.op # "idle" /\ crashes < MaxCrashes
  /\ crashes' = crashes + 1
  /\ Forgotten
  /\ UNCHANGED <<project, manifest, iv, edits>>

-----------------------------------------------------------------------------
(***************************************************************************)
(* init.  Refused on an installed project without --force.  The mode is    *)
(* detected from package.json, kept from the manifest, or bootstrap under  *)
(* --consume, which first clears .github.  A detected retrofit needs a     *)
(* pnpm-workspace.yaml, and every retrofit reads package.json.             *)
(***************************************************************************)
InitMode(consume) ==
  IF consume THEN "bootstrap"
  ELSE IF hv # 0 THEN mode
  ELSE IF disk[PackageJson] = Absent THEN "bootstrap" ELSE "retrofit"

StartInit(force, dry, consume, ms) ==
  /\ hv # 0 => force
  /\ InitMode(consume) = "retrofit" =>
       /\ disk[PackageJson] # Absent
       /\ hv = 0 => \A p \in Paths : Layout[p].retrofit = "workspace" => disk[p] # Absent
  /\ ms \cap Retired(iv) = {}
  /\ Begin([op |-> "init", force |-> force, dry |-> dry, consume |-> consume,
            module |-> NoModule, mode |-> InitMode(consume)],
           Plan(iv, ms), NoRecords, {}, ms)
  /\ disk' = [p \in Paths |->
                IF consume /\ Layout[p].dir = "github" THEN Absent ELSE disk[p]]
  /\ touched' = {p \in touched : ~(consume /\ Layout[p].dir = "github")}

Retrofitting == cmd.mode = "retrofit"

\* A retrofit installs no stack file but the additive ones that are absent.
InitSkips(p) ==
  /\ Retrofitting /\ Layout[p].tree = "stack" /\ p # PackageJson
  /\ Layout[p].additive => disk[p] # Absent

\* Wrong: settings.json is not looked for.
WrongInitMeets(p) ==
  /\ Retrofitting /\ hv = 0 /\ ~InitSkips(p)
  /\ Layout[p].retrofit \in {"gitignore", "park"}
  /\ disk[p] \notin {Absent, Template(p, iv)}

\* A first retrofit meets a file that differs from the template's.
InitMeets(p) ==
  /\ Retrofitting /\ hv = 0 /\ ~InitSkips(p)
  /\ Layout[p].retrofit \notin {"package", "workspace"}
  /\ disk[p] \notin {Absent, Template(p, iv)}

InitSkip(p) ==
  /\ InitSkips(p)
  /\ UNCHANGED <<project, newRec, newTag>>

\* .gitignore: missing patterns, if any, are appended; nothing is recorded.
InitMergeGitignore(p) ==
  /\ InitMeets(p) /\ Layout[p].retrofit = "gitignore"
  /\ WriteFile(p, Merged(iv)) \/ UNCHANGED project
  /\ UNCHANGED <<newRec, newTag>>

\* .claude/settings.json: merged and recorded, unless it does not parse.
InitMergeSettings(p) ==
  /\ InitMeets(p) /\ Layout[p].retrofit = "settings"
  /\ WriteFile(p, Merged(iv)) /\ Record(p, Merged(iv))
  /\ UNCHANGED newTag

\* Wrong: the file that is kept is recorded as it stands.
WrongInitPark(p) ==
  /\ \/ InitMeets(p) /\ Layout[p].retrofit \in {"settings", "park"}
     \/ Retrofitting /\ Layout[p].retrofit = "workspace" /\ disk[p] # Absent
  /\ Park(p, Template(p, iv))
  /\ Record(p, disk[p])
  /\ UNCHANGED newTag

\* Theirs stays, ours goes beside it or under .harness/conflicts; no record.
InitPark(p) ==
  /\ \/ InitMeets(p) /\ Layout[p].retrofit \in {"settings", "park"}
     \/ Retrofitting /\ Layout[p].retrofit = "workspace" /\ disk[p] # Absent
  /\ Park(p, Template(p, iv))
  /\ UNCHANGED <<newRec, newTag>>

\* package.json and pnpm-workspace.yaml are merged by a retrofit; the rest is
\* written as the template has it.
InitContent(p) ==
  IF /\ Retrofitting /\ Layout[p].retrofit \in {"package", "workspace"}
     /\ disk[p] # Absent
  THEN Merged(iv) ELSE Template(p, iv)

InitWrite(p) ==
  /\ ~InitSkips(p) /\ ~InitMeets(p)
  /\ WriteFile(p, InitContent(p)) /\ Record(p, InitContent(p))
  /\ newTag' = IF Tree(p, iv) \in Modules THEN newTag \cup {p} ELSE newTag

InitStep(p) ==
  /\ cmd.op = "init" /\ Walk(p)
  /\ \/ InitSkip(p) \/ InitMergeGitignore(p) \/ InitMergeSettings(p)
     \/ InitPark(p) \/ InitWrite(p)

\* --consume ends by removing the checkout's own tests directory.
FinishInit ==
  /\ cmd.op = "init" /\ todo = {}
  /\ SaveManifest(iv, cmd.mode)
  /\ disk' = [p \in Paths |->
                IF cmd.consume /\ Layout[p].dir = "tests" THEN Absent ELSE disk[p]]
  /\ Forgotten
  /\ UNCHANGED <<parked, touched, iv, bounds>>

-----------------------------------------------------------------------------
(***************************************************************************)
(* update: the migrations of the releases between the installed and the    *)
(* incoming one, then the sweep over the plan.                             *)
(***************************************************************************)
Pending == {v \in Versions : hv < v /\ v <= iv}
IsConfig(p) == Layout[p].mode = "config"

\* Wrong: a promoted module leaves the list, its files keep their tag.
WrongStartUpdate(force, dry) ==
  /\ hv # 0
  /\ Begin([Idle EXCEPT !.op = "migrate", !.force = force, !.dry = dry],
           (UNION {Removed[v] : v \in Pending})
             \cup {p \in Paths : IsConfig(p) /\ Pending # {}},
           rec, tag, mods \ UNION {Promoted[v] : v \in Pending})
  /\ UNCHANGED <<disk, touched>>

StartUpdate(force, dry) ==
  /\ hv # 0
  /\ Begin([Idle EXCEPT !.op = "migrate", !.force = force, !.dry = dry],
           (UNION {Removed[v] : v \in Pending})
             \cup {p \in Paths : IsConfig(p) /\ Pending # {}},
           rec,
           {p \in tag : Layout[p].tree \notin UNION {Promoted[v] : v \in Pending}},
           mods \ UNION {Promoted[v] : v \in Pending})
  /\ UNCHANGED <<disk, touched>>

\* applyFileMigrations' removeOne.
MigrateRemove(p) ==
  \/ /\ disk[p] = Absent
     /\ Forget(p)
     /\ UNCHANGED project
  \/ /\ disk[p] # Absent /\ newRec[p] \notin {Absent, disk[p]}
     /\ UNCHANGED <<project, newRec, newTag>>
  \/ /\ disk[p] # Absent /\ newRec[p] \in {Absent, disk[p]}
     /\ RemoveFile(p) /\ Forget(p)

\* Wrong: the injected config is not hashed again.
WrongMigrateConfig(p) ==
  \/ /\ disk[p] # Absent /\ disk[p].steps < iv
     /\ disk' = IF cmd.dry THEN disk ELSE [disk EXCEPT ![p] = Inject(disk[p], iv)]
     /\ UNCHANGED <<parked, touched, newRec, newTag>>
  \/ /\ disk[p] = Absent \/ disk[p].steps >= iv \/ disk[p].by = "project"
     /\ UNCHANGED <<project, newRec, newTag>>

\* applyConfigSteps and applyConfigCommandUpdates: the steps are injected into
\* whatever text is there, hand-edited or not, and the result is recorded.  A
\* text that has them is left alone, and one of the project's may be: it has
\* them in its own words, or its anchors are gone.
MigrateConfig(p) ==
  \/ /\ disk[p] # Absent /\ disk[p].steps < iv
     /\ disk' = IF cmd.dry THEN disk ELSE [disk EXCEPT ![p] = Inject(disk[p], iv)]
     /\ newRec' = IF cmd.dry \/ newRec[p] = Absent THEN newRec
                  ELSE [newRec EXCEPT ![p] = Inject(disk[p], iv)]
     /\ UNCHANGED <<parked, touched, newTag>>
  \/ /\ disk[p] = Absent \/ disk[p].steps >= iv \/ disk[p].by = "project"
     /\ UNCHANGED <<project, newRec, newTag>>

MigrateStep(p) ==
  /\ cmd.op = "migrate" /\ Walk(p)
  /\ IF IsConfig(p) THEN MigrateConfig(p) ELSE MigrateRemove(p)

StartSweep ==
  /\ cmd.op = "migrate" /\ todo = {}
  /\ cmd' = [cmd EXCEPT !.op = "update"]
  /\ todo' = Plan(iv, mods)
  /\ UNCHANGED <<project, manifest, iv, memory, bounds>>

\* package.json is never rewritten; seeded and config files that exist are
\* the project's; an absent init-only exemplar is withheld.
SweepSkips(p) ==
  \/ Layout[p].retrofit = "package"
  \/ ~Owned(p) /\ disk[p] # Absent
  \/ ~Owned(p) /\ Layout[p].initOnly

SweepStep(p) ==
  /\ cmd.op = "update" /\ Walk(p)
  /\ LET incoming == Template(p, iv)
         kind == ClassifyDrift(disk[p], rec[p], incoming, cmd.force)
     IN \/ /\ SweepSkips(p) \/ kind = "skip-same"
           /\ UNCHANGED <<project, newRec, newTag>>
        \/ /\ ~SweepSkips(p) /\ kind = "create"
           /\ WriteFile(p, incoming) /\ Record(p, incoming)
           /\ newTag' = IF Tree(p, iv) \in Modules THEN newTag \cup {p} ELSE newTag \ {p}
        \/ /\ ~SweepSkips(p) /\ kind \in {"update-clean", "force-overwrite"}
           /\ WriteFile(p, incoming) /\ Record(p, incoming)
           /\ UNCHANGED newTag
        \/ /\ ~SweepSkips(p) /\ kind = "record-only"
           /\ Record(p, incoming)
           /\ UNCHANGED <<project, newTag>>
        \/ /\ ~SweepSkips(p) /\ kind = "park"
           /\ Park(p, incoming)
           /\ UNCHANGED <<newRec, newTag>>

\* Wrong: the records the command read are saved, not those it built.
WrongFinishUpdate ==
  /\ cmd.op = "update" /\ todo = {}
  /\ hv' = IF cmd.dry THEN hv ELSE iv
  /\ Forgotten
  /\ UNCHANGED <<project, rec, tag, mods, mode, iv, bounds>>

FinishUpdate ==
  /\ cmd.op = "update" /\ todo = {}
  /\ SaveManifest(iv, mode)
  /\ Forgotten
  /\ UNCHANGED <<project, iv, bounds>>

-----------------------------------------------------------------------------
(***************************************************************************)
(* update --refresh-seeded: some paths of the plan, whatever their mode.   *)
(* A file without a record is never taken for an untouched one.            *)
(***************************************************************************)
StartRefresh(S, force, dry) ==
  /\ hv # 0 /\ S # {} /\ S \subseteq Plan(iv, mods)
  /\ Begin([Idle EXCEPT !.op = "refresh", !.force = force, !.dry = dry], S, rec, tag, mods)
  /\ UNCHANGED <<disk, touched>>

RefreshKind(p) ==
  LET kind == ClassifyDrift(disk[p], newRec[p], Template(p, iv), cmd.force)
  IN IF kind = "update-clean" /\ newRec[p] = Absent /\ ~cmd.force THEN "park" ELSE kind

RefreshStep(p) ==
  /\ cmd.op = "refresh" /\ Walk(p)
  /\ UNCHANGED newTag
  /\ \/ /\ RefreshKind(p) \in {"create", "update-clean", "force-overwrite"}
        /\ WriteFile(p, Template(p, iv)) /\ Record(p, Template(p, iv))
     \/ /\ RefreshKind(p) \in {"skip-same", "record-only"}
        /\ UNCHANGED <<project, newRec>>
     \/ /\ RefreshKind(p) = "park"
        /\ Park(p, Template(p, iv))
        /\ UNCHANGED newRec

-----------------------------------------------------------------------------
(***************************************************************************)
(* enable and disable a module.                                            *)
(***************************************************************************)
StartEnable(m, dry) ==
  /\ hv # 0 /\ m \notin Retired(iv)
  /\ Begin([Idle EXCEPT !.op = "enable", !.dry = dry, !.module = m],
           {p \in Ships[iv] : Layout[p].tree = m}, rec, tag, mods \cup {m})
  /\ UNCHANGED <<disk, touched>>

EnableStep(p) ==
  /\ cmd.op = "enable" /\ Walk(p)
  /\ LET theirs == disk[p] \notin {Absent, Template(p, iv)} /\ disk[p] # newRec[p]
     IN \/ /\ theirs
           /\ Park(p, Template(p, iv))
           /\ UNCHANGED <<newRec, newTag>>
        \/ /\ ~theirs
           /\ WriteFile(p, Template(p, iv)) /\ Record(p, Template(p, iv))
           /\ newTag' = newTag \cup {p}

StartDisable(m, dry) ==
  /\ hv # 0 /\ m \notin Retired(iv)
  /\ Begin([Idle EXCEPT !.op = "disable", !.dry = dry, !.module = m],
           {p \in tag : Layout[p].tree = m}, rec, tag, mods \ {m})
  /\ UNCHANGED <<disk, touched>>

\* Wrong: the file goes whatever it holds.
WrongDisableStep(p) ==
  /\ cmd.op = "disable" /\ Walk(p) /\ Forget(p)
  /\ IF disk[p] # Absent THEN RemoveFile(p) ELSE UNCHANGED project

DisableStep(p) ==
  /\ cmd.op = "disable" /\ Walk(p) /\ Forget(p)
  /\ IF disk[p] = newRec[p] THEN RemoveFile(p) ELSE UNCHANGED project

\* refresh-seeded, enable and disable leave the versions alone.
FinishOther ==
  /\ cmd.op \in {"refresh", "enable", "disable"} /\ todo = {}
  /\ SaveManifest(hv, mode)
  /\ Forgotten
  /\ UNCHANGED <<project, iv, bounds>>

-----------------------------------------------------------------------------
Start ==
  \E force \in BOOLEAN, dry \in DryRuns :
    \/ \E consume \in BOOLEAN, ms \in SUBSET Modules : StartInit(force, dry, consume, ms)
    \/ StartUpdate(force, dry)
    \/ \E S \in SUBSET Paths : StartRefresh(S, force, dry)
    \/ \E m \in Modules : StartEnable(m, dry) \/ StartDisable(m, dry)

Step ==
  \E p \in todo : InitStep(p) \/ MigrateStep(p) \/ SweepStep(p) \/ RefreshStep(p)
                    \/ EnableStep(p) \/ DisableStep(p)

Finish == FinishInit \/ StartSweep \/ FinishUpdate \/ FinishOther

People == \E p \in Paths : \E c \in PeopleWrite(p) \cup {Absent} : Edit(p, c)

Next == People \/ NewRelease \/ Start \/ Step \/ Finish \/ Crash
Spec == Init /\ [][Next]_vars

-----------------------------------------------------------------------------
(***************************************************************************)
(* Properties.                                                             *)
(***************************************************************************)
Commands == [op : Ops, force : BOOLEAN, dry : BOOLEAN, consume : BOOLEAN,
             module : Modules \cup {NoModule}, mode : {"bootstrap", "retrofit"}]

\* Every variable holds a value of its kind.
TypeOK ==
  /\ disk \in [Paths -> Content] /\ parked \in [Paths -> Content]
  /\ touched \subseteq Paths
  /\ rec \in [Paths -> Content] /\ newRec \in [Paths -> Content]
  /\ tag \subseteq Paths /\ newTag \subseteq Paths
  /\ mods \subseteq Modules /\ newMods \subseteq Modules
  /\ hv \in 0..MaxVersion /\ iv \in Versions
  /\ mode \in {"bootstrap", "retrofit"}
  /\ cmd \in Commands /\ todo \subseteq Paths
  /\ edits \in Nat /\ crashes \in Nat

\* A step of a command, as opposed to one of people or of a release.
InstallerStep == cmd' # cmd \/ todo' # todo
ByPeople(p) == disk[p].by = "project"

\* The manifest never vouches for a text people wrote, the gate config that
\* migrations inject into excepted: the shas it holds are those of template
\* and merged files, so an edited file never looks untouched.
NoProjectTextRecorded ==
  \A p \in Paths : ~IsConfig(p) => rec[p].by # "project" /\ newRec[p].by # "project"

\* When the installer can tell that p may be the project's: p has a record,
\* or the command is one that takes a file without a record for the
\* project's, or p is not an owned file.
Vouched(p) ==
  \/ rec[p] # Absent
  \/ cmd.op \in {"refresh", "enable", "disable"}
  \/ cmd.op = "update" /\ ~Owned(p)

\* No command but init, run without --force, overwrites or deletes a text
\* people wrote in a file the installer can tell may be theirs.
WorkSurvives ==
  [][\A p \in Paths :
       /\ InstallerStep /\ ~cmd.force /\ cmd.op \notin {"idle", "init"}
       /\ ByPeople(p) /\ Vouched(p) /\ ~IsConfig(p)
       => disk'[p] = disk[p]]_vars

\* A first retrofit replaces no text people wrote but by a merge of it.
RetrofitKeepsTheirs ==
  [][\A p \in Paths :
       cmd.op = "init" /\ cmd.mode = "retrofit" /\ hv = 0 /\ ByPeople(p) /\ InstallerStep
       => \/ disk'[p] = disk[p]
          \/ disk'[p].by = "merged" /\ Layout[p].retrofit # "park"]_vars

\* Between commands, a recorded file nobody touched since the installer wrote
\* it is the file the manifest records: no later command takes it for drift.
PristineMatchesRecord ==
  cmd = Idle => \A p \in Paths \ touched : rec[p] # Absent => disk[p] = rec[p]

\* update.mjs: "Owned files upgrade when unmodified".
UnmodifiedUpgrades ==
  [][\A p \in todo \ touched :
       /\ cmd.op = "update" /\ ~cmd.dry /\ Owned(p) /\ rec[p] # Absent
       /\ cmd' = cmd /\ todo' = todo \ {p}
       => disk'[p] = Template(p, iv)]_vars

\* An update that ends has left no owned file behind: the new text is
\* recorded or parked, or the file has no record at all.
UpdateSettles ==
  [][cmd.op = "update" /\ ~cmd.dry /\ cmd' = Idle /\ crashes' = crashes
     => \A p \in Plan(iv, mods) :
          Owned(p) => \/ rec'[p] \in {Template(p, iv), Absent}
                      \/ parked'[p] = Template(p, iv)]_vars

\* What disable may delete is what an enabled module installed and recorded.
TagsFollowModules ==
  \A p \in tag : Layout[p].tree \in mods /\ rec[p] # Absent

=============================================================================
