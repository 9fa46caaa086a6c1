--------------------------- MODULE InstallerProofs ---------------------------
(***************************************************************************)
(* Proofs about Installer, for every template, every number of releases    *)
(* and every number of edits and crashes.                                  *)
(***************************************************************************)
EXTENDS Installer, TLAPS

-----------------------------------------------------------------------------
(* The contents the installer handles are contents.                        *)
LEMMA ContentFacts ==
  /\ Absent \in Content
  /\ \A p \in Paths, v \in Nat : Template(p, v) \in Content
  /\ \A v \in Nat : Merged(v) \in Content
  /\ \A c \in Content, v \in Nat : Inject(c, v) \in Content
<1>1. \A c \in Content, v \in Nat : Inject(c, v) \in Content
  BY DEF Content, Inject
<1>2. QED
  BY <1>1 DEF Content, Authors, Absent, Template, Merged

(* An empty set of records is a set of records.                            *)
LEMMA NoRecordsType == NoRecords \in [Paths -> Content]
  BY ContentFacts DEF NoRecords

(* The idle command is of its type.                                        *)
LEMMA IdleType == Idle \in Commands
  BY DEF Idle, Commands, Ops, NoModule

(* The parts of the type invariant a step on one file may change.          *)
StepType ==
  /\ disk' \in [Paths -> Content] /\ parked' \in [Paths -> Content]
  /\ touched' \subseteq Paths
  /\ newRec' \in [Paths -> Content] /\ newTag' \subseteq Paths

(* Type correctness of the step of a walk: one file is looked at.          *)
LEMMA StepTypes ==
  ASSUME TypeOK, NEW p \in Paths,
         InitStep(p) \/ MigrateStep(p) \/ SweepStep(p) \/ RefreshStep(p)
           \/ EnableStep(p) \/ DisableStep(p)
  PROVE  TypeOK'
<1> USE InstallerAssumption
<1>v. iv \in Nat /\ Template(p, iv) \in Content /\ Merged(iv) \in Content
      /\ Absent \in Content /\ disk[p] \in Content
  BY ContentFacts DEF TypeOK, Versions
<1>w. ASSUME NEW c \in Content, WriteFile(p, c)
      PROVE  disk' \in [Paths -> Content] /\ parked' \in [Paths -> Content] /\ touched' \subseteq Paths
  BY <1>w DEF WriteFile, TypeOK
<1>r. ASSUME RemoveFile(p)
      PROVE  disk' \in [Paths -> Content] /\ parked' \in [Paths -> Content] /\ touched' \subseteq Paths
  BY <1>r, <1>v DEF RemoveFile, TypeOK
<1>k. ASSUME NEW c \in Content, Park(p, c)
      PROVE  disk' \in [Paths -> Content] /\ parked' \in [Paths -> Content] /\ touched' \subseteq Paths
  BY <1>k DEF Park, TypeOK
<1>u. ASSUME UNCHANGED project
      PROVE  disk' \in [Paths -> Content] /\ parked' \in [Paths -> Content] /\ touched' \subseteq Paths
  BY <1>u DEF project, TypeOK
<1>c. ASSUME NEW c \in Content, Record(p, c)
      PROVE  newRec' \in [Paths -> Content]
  BY <1>c DEF Record, TypeOK
<1>f. ASSUME Forget(p)
      PROVE  newRec' \in [Paths -> Content] /\ newTag' \subseteq Paths
  BY <1>f, <1>v DEF Forget, TypeOK
<1>s. Walk(p) /\ StepType => TypeOK'
  BY DEF Walk, StepType, TypeOK, manifest, bounds
<1>1. CASE InitStep(p)
  <2>1. CASE InitSkip(p)
    BY <2>1, <1>1, <1>u, <1>s DEF InitSkip, InitStep, StepType, TypeOK
  <2>2. CASE InitMergeGitignore(p)
    BY <2>2, <1>1, <1>u, <1>w, <1>v, <1>s DEF InitMergeGitignore, InitStep, StepType, TypeOK
  <2>3. CASE InitMergeSettings(p)
    BY <2>3, <1>1, <1>w, <1>c, <1>v, <1>s DEF InitMergeSettings, InitStep, StepType, TypeOK
  <2>4. CASE InitPark(p)
    BY <2>4, <1>1, <1>k, <1>v, <1>s DEF InitPark, InitStep, StepType, TypeOK
  <2>5. CASE InitWrite(p)
    <3>1. InitContent(p) \in Content
      BY <1>v DEF InitContent
    <3>2. QED
      BY <2>5, <1>1, <3>1, <1>w, <1>c, <1>s DEF InitWrite, InitStep, StepType, TypeOK
  <2>6. QED
    BY <1>1, <2>1, <2>2, <2>3, <2>4, <2>5 DEF InitStep
<1>2. CASE MigrateStep(p)
  <2>1. CASE MigrateRemove(p)
    BY <2>1, <1>2, <1>u, <1>r, <1>f, <1>s DEF MigrateRemove, MigrateStep, StepType, TypeOK
  <2>2. CASE MigrateConfig(p)
    <3>1. Inject(disk[p], iv) \in Content
      BY <1>v, ContentFacts
    <3>2. QED
      BY <2>2, <1>2, <3>1, <1>u, <1>s DEF MigrateConfig, MigrateStep, StepType, TypeOK
  <2>3. QED
    BY <1>2, <2>1, <2>2 DEF MigrateStep
<1>3. CASE SweepStep(p)
  BY <1>3, <1>u, <1>w, <1>k, <1>c, <1>v, <1>s DEF SweepStep, StepType, TypeOK
<1>4. CASE RefreshStep(p)
  BY <1>4, <1>u, <1>w, <1>k, <1>c, <1>v, <1>s DEF RefreshStep, StepType, TypeOK
<1>5. CASE EnableStep(p)
  BY <1>5, <1>w, <1>k, <1>c, <1>v, <1>s DEF EnableStep, StepType, TypeOK
<1>6. CASE DisableStep(p)
  BY <1>6, <1>u, <1>r, <1>f, <1>s DEF DisableStep, StepType, TypeOK
<1>7. QED
  BY <1>1, <1>2, <1>3, <1>4, <1>5, <1>6

-----------------------------------------------------------------------------
(* Type correctness.                                                       *)

LEMMA InitTypes == Init => TypeOK
<1> SUFFICES ASSUME Init PROVE TypeOK
  OBVIOUS
<1>1. disk \in [Paths -> Content]
  <2>1. \A i \in ProjectTexts : [by |-> "project", id |-> i, steps |-> 0] \in Content
    BY InstallerAssumption DEF Content, Authors
  <2>2. QED
    BY <2>1, ContentFacts DEF Init, ProjectInit
<1>2. QED
  BY <1>1, NoRecordsType, IdleType, InstallerAssumption DEF Init, TypeOK, Versions

(* A command that begins has its arguments in memory.                      *)
LEMMA BeginTypes ==
  ASSUME TypeOK, NEW c \in Commands, NEW plan \in SUBSET Paths,
         NEW r \in [Paths -> Content], NEW t \in SUBSET Paths, NEW ms \in SUBSET Modules,
         Begin(c, plan, r, t, ms),
         disk' \in [Paths -> Content], touched' \subseteq Paths
  PROVE  TypeOK'
BY DEF Begin, TypeOK, manifest, bounds

(* A command that begins is well typed.                                    *)
LEMMA StartTypes == TypeOK /\ Start => TypeOK'
<1> SUFFICES ASSUME TypeOK, NEW force \in BOOLEAN, NEW dry \in DryRuns,
                    \/ \E consume \in BOOLEAN, ms \in SUBSET Modules :
                         StartInit(force, dry, consume, ms)
                    \/ StartUpdate(force, dry)
                    \/ \E S \in SUBSET Paths : StartRefresh(S, force, dry)
                    \/ \E m \in Modules : StartEnable(m, dry) \/ StartDisable(m, dry)
             PROVE  TypeOK'
  BY DEF Start
<1> USE InstallerAssumption
<1>d. dry \in BOOLEAN
  OBVIOUS
<1> USE <1>d
<1>p. \A ms \in SUBSET Modules : Plan(iv, ms) \subseteq Paths
  BY DEF Plan, TypeOK
<1>1. ASSUME NEW consume \in BOOLEAN, NEW ms \in SUBSET Modules,
             StartInit(force, dry, consume, ms)
      PROVE  TypeOK'
  <2> DEFINE c == [op |-> "init", force |-> force, dry |-> dry, consume |-> consume,
                   module |-> NoModule, mode |-> InitMode(consume)]
  <2>1. c \in Commands
    BY DEF Commands, Ops, InitMode, TypeOK, NoModule
  <2>2. disk' \in [Paths -> Content] /\ touched' \subseteq Paths
    BY <1>1, ContentFacts DEF StartInit, TypeOK
  <2>3. QED
    BY <1>1, <2>1, <2>2, <1>p, NoRecordsType, BeginTypes DEF StartInit
<1>2. CASE StartUpdate(force, dry)
  <2> DEFINE c == [Idle EXCEPT !.op = "migrate", !.force = force, !.dry = dry]
             plan == (UNION {Removed[v] : v \in Pending})
                       \cup {p \in Paths : IsConfig(p) /\ Pending # {}}
             t == {p \in tag : Layout[p].tree \notin UNION {Promoted[v] : v \in Pending}}
             ms == mods \ UNION {Promoted[v] : v \in Pending}
  <2>1. c \in Commands
    BY DEF Commands, Ops, Idle, NoModule
  <2>2. plan \subseteq Paths /\ t \subseteq Paths /\ ms \subseteq Modules
    BY DEF Pending, TypeOK
  <2>3. Begin(c, plan, rec, t, ms) /\ UNCHANGED <<disk, touched>>
    BY <1>2 DEF StartUpdate
  <2> HIDE DEF c, plan, t, ms
  <2>4. QED
    BY <2>1, <2>2, <2>3, BeginTypes DEF TypeOK
<1>3. ASSUME NEW S \in SUBSET Paths, StartRefresh(S, force, dry)
      PROVE  TypeOK'
  <2>1. [Idle EXCEPT !.op = "refresh", !.force = force, !.dry = dry] \in Commands
    BY DEF Commands, Ops, Idle, NoModule
  <2>2. QED
    BY <1>3, <2>1, BeginTypes DEF StartRefresh, TypeOK
<1>4. ASSUME NEW m \in Modules, StartEnable(m, dry)
      PROVE  TypeOK'
  <2> DEFINE plan == {p \in Ships[iv] : Layout[p].tree = m}
  <2>1. [Idle EXCEPT !.op = "enable", !.dry = dry, !.module = m] \in Commands
    BY DEF Commands, Ops, Idle, NoModule
  <2>2. plan \subseteq Paths /\ mods \cup {m} \subseteq Modules
    BY DEF TypeOK
  <2>3. Begin([Idle EXCEPT !.op = "enable", !.dry = dry, !.module = m], plan, rec, tag,
              mods \cup {m}) /\ UNCHANGED <<disk, touched>>
    BY <1>4 DEF StartEnable
  <2> HIDE DEF plan
  <2>4. QED
    BY <2>1, <2>2, <2>3, BeginTypes DEF TypeOK
<1>5. ASSUME NEW m \in Modules, StartDisable(m, dry)
      PROVE  TypeOK'
  <2>1. [Idle EXCEPT !.op = "disable", !.dry = dry, !.module = m] \in Commands
    BY DEF Commands, Ops, Idle, NoModule
  <2> DEFINE plan == {p \in tag : Layout[p].tree = m}
  <2>2. plan \subseteq Paths /\ mods \ {m} \subseteq Modules
    BY DEF TypeOK
  <2>3. QED
    BY <1>5, <2>1, <2>2, BeginTypes DEF StartDisable, TypeOK
<1>6. QED
  BY <1>1, <1>2, <1>3, <1>4, <1>5

(* So is one that ends, or dies.                                           *)
LEMMA FinishTypes == TypeOK /\ (Finish \/ Crash) => TypeOK'
<1> SUFFICES ASSUME TypeOK, Finish \/ Crash PROVE TypeOK'
  OBVIOUS
<1> USE InstallerAssumption
<1>f. ASSUME Forgotten
      PROVE  /\ cmd' \in Commands /\ todo' \subseteq Paths
             /\ newRec' \in [Paths -> Content] /\ newTag' \subseteq Paths /\ newMods' \subseteq Modules
  BY <1>f, IdleType, NoRecordsType DEF Forgotten
<1>s. ASSUME NEW v \in 0..MaxVersion, NEW md \in {"bootstrap", "retrofit"}, SaveManifest(v, md)
      PROVE  /\ rec' \in [Paths -> Content] /\ tag' \subseteq Paths /\ mods' \subseteq Modules
             /\ hv' \in 0..MaxVersion /\ mode' \in {"bootstrap", "retrofit"}
  BY <1>s DEF SaveManifest, TypeOK
<1>v. iv \in 0..MaxVersion /\ hv \in 0..MaxVersion /\ mode \in {"bootstrap", "retrofit"}
      /\ cmd.mode \in {"bootstrap", "retrofit"}
  BY DEF TypeOK, Versions, Commands
<1>1. CASE FinishInit
  <2>1. disk' \in [Paths -> Content]
    BY <1>1, ContentFacts DEF FinishInit, TypeOK
  <2>2. QED
    BY <1>1, <2>1, <1>f, <1>s, <1>v DEF FinishInit, TypeOK, bounds
<1>2. CASE StartSweep
  <2>1. [cmd EXCEPT !.op = "update"] \in Commands
    BY DEF TypeOK, Commands, Ops
  <2>2. Plan(iv, mods) \subseteq Paths
    BY DEF Plan, TypeOK
  <2>3. QED
    BY <1>2, <2>1, <2>2 DEF StartSweep, TypeOK, project, manifest, memory, bounds
<1>3. CASE FinishUpdate
  BY <1>3, <1>f, <1>s, <1>v DEF FinishUpdate, TypeOK, project, bounds
<1>4. CASE FinishOther
  BY <1>4, <1>f, <1>s, <1>v DEF FinishOther, TypeOK, project, bounds
<1>5. CASE Crash
  BY <1>5, <1>f DEF Crash, TypeOK, project, manifest
<1>6. QED
  BY <1>1, <1>2, <1>3, <1>4, <1>5 DEF Finish

(* Every step keeps the types.                                             *)
LEMMA TypeStep == TypeOK /\ [Next]_vars => TypeOK'
<1> SUFFICES ASSUME TypeOK, [Next]_vars PROVE TypeOK'
  OBVIOUS
<1> USE InstallerAssumption
<1>1. CASE People
  <2>1. PICK p \in Paths : \E c \in PeopleWrite(p) \cup {Absent} : Edit(p, c)
    BY <1>1 DEF People
  <2>c. PICK c \in PeopleWrite(p) \cup {Absent} : Edit(p, c)
    BY <2>1
  <2>2. c \in Content
    <3>1. \A i \in ProjectTexts : [by |-> "project", id |-> i, steps |-> 0] \in Content
      BY DEF Content, Authors
    <3>2. \A v \in Versions : Template(p, v) \in Content
      BY ContentFacts DEF Versions
    <3>3. QED
      BY <3>1, <3>2, ContentFacts DEF PeopleWrite
  <2>3. QED
    BY <2>c, <2>2 DEF Edit, TypeOK, manifest, memory
<1>2. CASE NewRelease
  BY <1>2 DEF NewRelease, TypeOK, Versions, project, manifest, memory, bounds
<1>3. CASE Start
  BY <1>3, StartTypes
<1>4. CASE Step
  <2>1. PICK p \in todo : InitStep(p) \/ MigrateStep(p) \/ SweepStep(p) \/ RefreshStep(p)
                            \/ EnableStep(p) \/ DisableStep(p)
    BY <1>4 DEF Step
  <2>2. p \in Paths
    BY DEF TypeOK
  <2>3. QED
    BY <2>1, <2>2, StepTypes
<1>5. CASE Finish \/ Crash
  BY <1>5, FinishTypes
<1>6. CASE UNCHANGED vars
  BY <1>6 DEF vars, TypeOK
<1>7. QED
  BY <1>1, <1>2, <1>3, <1>4, <1>5, <1>6 DEF Next

(* Every reachable state of the installer is well typed.                   *)
THEOREM TypeCorrect == Spec => []TypeOK
  BY InitTypes, TypeStep, PTL DEF Spec

-----------------------------------------------------------------------------
(* What the manifest vouches for.                                          *)

(* Until the migrations reach a file, the record in memory is the one the  *)
(* manifest has.                                                           *)
MigrationsReadManifest ==
  cmd.op = "migrate" => \A p \in todo : newRec[p] = rec[p]

(* NoProjectTextRecorded is inductive with TypeOK alone; WorkSurvives      *)
(* needs to know what the migrations compare a file with.                  *)
IInv == TypeOK /\ NoProjectTextRecorded /\ MigrationsReadManifest

(* Who wrote what the installer writes.                                    *)
LEMMA TemplateBy ==
  /\ Absent.by = "nobody"
  /\ \A p \in Paths, v \in Nat : Template(p, v).by = "harness"
  /\ \A v \in Nat : Merged(v).by = "merged"
BY DEF Absent, Template, Merged

(* The step for p leaves the other records alone, and gives p a text that  *)
(* is not the project's, unless p is the gate config.                      *)
LEMMA StepRecords ==
  ASSUME TypeOK, NEW p \in Paths,
         InitStep(p) \/ MigrateStep(p) \/ SweepStep(p) \/ RefreshStep(p)
           \/ EnableStep(p) \/ DisableStep(p)
  PROVE  /\ rec' = rec /\ cmd' = cmd /\ todo' = todo \ {p}
         /\ \A q \in Paths \ {p} : newRec'[q] = newRec[q]
         /\ \/ newRec'[p] = newRec[p]
            \/ newRec'[p].by # "project"
            \/ IsConfig(p)
<1> USE InstallerAssumption
<1> DEFINE Good == /\ \A q \in Paths \ {p} : newRec'[q] = newRec[q]
                   /\ \/ newRec'[p] = newRec[p]
                      \/ newRec'[p].by # "project"
                      \/ IsConfig(p)
<1>v. iv \in Nat
  BY DEF TypeOK, Versions
<1>c. ASSUME NEW c, c.by # "project", Record(p, c) PROVE Good
  BY <1>c DEF Record, TypeOK
<1>f. ASSUME Forget(p) PROVE Good
  BY <1>f, TemplateBy DEF Forget, TypeOK
<1>u. ASSUME UNCHANGED newRec PROVE Good
  BY <1>u
<1>t. Template(p, iv).by # "project" /\ Merged(iv).by # "project"
  BY <1>v, TemplateBy
<1>w. rec' = rec /\ cmd' = cmd /\ todo' = todo \ {p}
  BY DEF InitStep, MigrateStep, SweepStep, RefreshStep, EnableStep, DisableStep, Walk, manifest
<1>g. Good
  <2>1. CASE InitStep(p)
    <3>1. InitContent(p).by # "project"
      BY <1>t DEF InitContent
    <3>2. (\E c \in {InitContent(p), Merged(iv)} : Record(p, c)) \/ UNCHANGED newRec
      BY <2>1 DEF InitStep, InitSkip, InitMergeGitignore, InitMergeSettings, InitPark, InitWrite
    <3>3. QED
      BY <3>1, <3>2, <1>t, <1>c, <1>u
  <2>2. CASE MigrateStep(p)
    <3>1. CASE MigrateRemove(p)
      BY <3>1, <1>f, <1>u DEF MigrateRemove
    <3>2. CASE IsConfig(p) /\ MigrateConfig(p)
      BY <3>2, <1>u DEF MigrateConfig, TypeOK
    <3>3. QED
      BY <2>2, <3>1, <3>2 DEF MigrateStep
  <2>3. CASE SweepStep(p)
    <3>1. Record(p, Template(p, iv)) \/ UNCHANGED newRec
      BY <2>3 DEF SweepStep
    <3>2. QED
      BY <3>1, <1>t, <1>c, <1>u
  <2>4. CASE RefreshStep(p)
    <3>1. Record(p, Template(p, iv)) \/ UNCHANGED newRec
      BY <2>4 DEF RefreshStep
    <3>2. QED
      BY <3>1, <1>t, <1>c, <1>u
  <2>5. CASE EnableStep(p)
    <3>1. Record(p, Template(p, iv)) \/ UNCHANGED newRec
      BY <2>5 DEF EnableStep
    <3>2. QED
      BY <3>1, <1>t, <1>c, <1>u
  <2>6. CASE DisableStep(p)
    BY <2>6, <1>f DEF DisableStep
  <2>7. QED
    BY <2>1, <2>2, <2>3, <2>4, <2>5, <2>6
<1>q. QED
  BY <1>w, <1>g

(* The step for one file keeps the records clean.                          *)
LEMMA StepIInv ==
  ASSUME IInv, NEW p \in Paths,
         InitStep(p) \/ MigrateStep(p) \/ SweepStep(p) \/ RefreshStep(p)
           \/ EnableStep(p) \/ DisableStep(p)
  PROVE  NoProjectTextRecorded' /\ MigrationsReadManifest'
<1>1. /\ rec' = rec /\ cmd' = cmd /\ todo' = todo \ {p}
      /\ \A q \in Paths \ {p} : newRec'[q] = newRec[q]
      /\ \/ newRec'[p] = newRec[p]
         \/ newRec'[p].by # "project"
         \/ IsConfig(p)
  BY StepRecords DEF IInv
<1>2. NoProjectTextRecorded'
  BY <1>1 DEF IInv, NoProjectTextRecorded, IsConfig
<1>3. MigrationsReadManifest'
  BY <1>1 DEF IInv, MigrationsReadManifest, TypeOK
<1>4. QED
  BY <1>2, <1>3

(* The inductive invariant is one.                                         *)
LEMMA IInvInductive == IInv /\ [Next]_vars => IInv'
<1> SUFFICES ASSUME IInv, [Next]_vars PROVE NoProjectTextRecorded' /\ MigrationsReadManifest'
  BY TypeStep DEF IInv
<1>1. CASE People \/ NewRelease \/ UNCHANGED vars
  <2>1. UNCHANGED <<rec, newRec, cmd, todo>>
    BY <1>1 DEF People, Edit, NewRelease, vars, manifest, memory
  <2>2. QED
    BY <2>1 DEF IInv, NoProjectTextRecorded, MigrationsReadManifest
<1>2. CASE Start
  <2>1. rec' = rec /\ newRec' \in {rec, NoRecords} /\ (cmd'.op = "migrate" => newRec' = rec)
    <3>1. ASSUME NEW force \in BOOLEAN, NEW dry \in DryRuns, NEW consume \in BOOLEAN,
                 NEW ms \in SUBSET Modules, StartInit(force, dry, consume, ms)
          PROVE  rec' = rec /\ newRec' = NoRecords /\ cmd'.op # "migrate"
      BY <3>1 DEF StartInit, Begin, manifest
    <3>2. ASSUME NEW force \in BOOLEAN, NEW dry \in DryRuns, StartUpdate(force, dry)
          PROVE  rec' = rec /\ newRec' = rec
      BY <3>2 DEF StartUpdate, Begin, manifest
    <3>3. ASSUME NEW S \in SUBSET Paths, NEW force \in BOOLEAN, NEW dry \in DryRuns,
                 StartRefresh(S, force, dry)
          PROVE  rec' = rec /\ newRec' = rec
      BY <3>3 DEF StartRefresh, Begin, manifest
    <3>4. ASSUME NEW m \in Modules, NEW dry \in DryRuns,
                 StartEnable(m, dry) \/ StartDisable(m, dry)
          PROVE  rec' = rec /\ newRec' = rec
      BY <3>4 DEF StartEnable, StartDisable, Begin, manifest
    <3>5. QED
      BY <1>2, <3>1, <3>2, <3>3, <3>4 DEF Start
  <2>2. NoProjectTextRecorded'
    BY <2>1, TemplateBy DEF IInv, NoProjectTextRecorded, IsConfig, NoRecords
  <2>3. MigrationsReadManifest'
    BY <2>1 DEF MigrationsReadManifest
  <2>4. QED
    BY <2>2, <2>3
<1>3. CASE Step
  <2>1. PICK p \in todo : InitStep(p) \/ MigrateStep(p) \/ SweepStep(p) \/ RefreshStep(p)
                            \/ EnableStep(p) \/ DisableStep(p)
    BY <1>3 DEF Step
  <2>2. QED
    BY <2>1, StepIInv DEF IInv, TypeOK
<1>4. CASE StartSweep
  BY <1>4, TypeStep DEF IInv, StartSweep, NoProjectTextRecorded, MigrationsReadManifest, IsConfig,
     memory, manifest, TypeOK, Commands
<1>5. CASE FinishInit \/ FinishUpdate \/ FinishOther \/ Crash
  <2>1. rec' \in {rec, newRec} /\ newRec' = NoRecords /\ todo' = {}
    BY <1>5 DEF FinishInit, FinishUpdate, FinishOther, Crash, SaveManifest, Forgotten, manifest
  <2>2. NoProjectTextRecorded'
    BY <2>1, TemplateBy DEF IInv, NoProjectTextRecorded, IsConfig, NoRecords
  <2>3. QED
    BY <2>1, <2>2 DEF MigrationsReadManifest
<1>6. QED
  BY <1>1, <1>2, <1>3, <1>4, <1>5 DEF Next, Finish

(* No record but the gate config's vouches for a text people wrote.        *)
THEOREM RecordsAreNotProjectText == Spec => []NoProjectTextRecorded
<1>1. Init => IInv
  BY InitTypes, TemplateBy DEF Init, IInv, NoProjectTextRecorded, MigrationsReadManifest, NoRecords, Idle
<1>2. IInv => NoProjectTextRecorded
  BY DEF IInv
<1>3. QED
  BY <1>1, <1>2, IInvInductive, PTL DEF Spec

-----------------------------------------------------------------------------
(* Work survives.                                                          *)

(* The text of a file stays when the step leaves it alone or only parks.   *)
LEMMA StepKeepsWork ==
  ASSUME IInv, NEW p \in Paths, NEW q \in Paths,
         MigrateStep(p) \/ SweepStep(p) \/ RefreshStep(p) \/ EnableStep(p) \/ DisableStep(p),
         ~cmd.force, ByPeople(q), Vouched(q), ~IsConfig(q)
  PROVE  disk'[q] = disk[q]
<1> USE InstallerAssumption
<1>1. CASE p # q
  <2>1. \A c : WriteFile(p, c) => disk'[q] = disk[q]
    BY <1>1 DEF WriteFile, IInv, TypeOK
  <2>2. RemoveFile(p) => disk'[q] = disk[q]
    BY <1>1 DEF RemoveFile, IInv, TypeOK
  <2>3. \A c : Park(p, c) => disk'[q] = disk[q]
    BY DEF Park
  <2>4. MigrateConfig(p) => disk'[q] = disk[q]
    BY <1>1 DEF MigrateConfig, project, IInv, TypeOK
  <2>5. QED
    BY <2>1, <2>2, <2>3, <2>4 DEF MigrateStep, MigrateRemove, SweepStep, RefreshStep,
       EnableStep, DisableStep, project
<1>2. CASE p = q
  <2>1. disk[p] # Absent /\ newRec[p] # disk[p] /\ rec[p] # disk[p]
    BY <1>2, TemplateBy DEF IInv, NoProjectTextRecorded, ByPeople
  <2>2. CASE MigrateStep(p)
    <3>1. newRec[p] = rec[p] /\ rec[p] # Absent /\ ~IsConfig(p)
      BY <1>2, <2>2 DEF IInv, MigrationsReadManifest, MigrateStep, Walk, Vouched
    <3>2. QED
      BY <1>2, <2>1, <2>2, <3>1 DEF MigrateStep, MigrateRemove, project
  <2>3. CASE SweepStep(p)
    <3>1. SweepSkips(p) \/ rec[p] # Absent
      BY <1>2, <2>1, <2>3 DEF SweepStep, Vouched, SweepSkips
    <3>2. rec[p] # Absent =>
            ClassifyDrift(disk[p], rec[p], Template(p, iv), cmd.force)
              \in {"record-only", "park"}
      BY <1>2, <2>1 DEF ClassifyDrift
    <3>3. QED
      BY <1>2, <2>3, <3>1, <3>2 DEF SweepStep, Park, project
  <2>4. CASE RefreshStep(p)
    <3>1. RefreshKind(p) \in {"skip-same", "record-only", "park"}
      BY <1>2, <2>1 DEF RefreshKind, ClassifyDrift
    <3>2. QED
      BY <1>2, <2>4, <3>1 DEF RefreshStep, Park, project
  <2>5. CASE EnableStep(p)
    <3>1. disk[p] # Template(p, iv)
      BY <1>2, TemplateBy DEF ByPeople, IInv, TypeOK, Versions
    <3>2. QED
      BY <1>2, <2>1, <2>5, <3>1 DEF EnableStep, Park
  <2>6. CASE DisableStep(p)
    BY <1>2, <2>1, <2>6 DEF DisableStep, project
  <2>7. QED
    BY <2>2, <2>3, <2>4, <2>5, <2>6
<1>3. QED
  BY <1>1, <1>2

(* Whatever the template, the releases, the crashes and the people: no     *)
(* command but init, run without --force, destroys a text people wrote in  *)
(* a file the installer can tell may be theirs.                            *)
THEOREM ProjectWorkSurvives == Spec => WorkSurvives
<1>1. IInv /\ [Next]_vars =>
        [\A p \in Paths :
           /\ InstallerStep /\ ~cmd.force /\ cmd.op \notin {"idle", "init"}
           /\ ByPeople(p) /\ Vouched(p) /\ ~IsConfig(p)
           => disk'[p] = disk[p]]_vars
  <2> SUFFICES ASSUME IInv, Next, NEW q \in Paths,
                      InstallerStep, ~cmd.force, cmd.op \notin {"idle", "init"},
                      ByPeople(q), Vouched(q), ~IsConfig(q)
               PROVE  disk'[q] = disk[q]
    OBVIOUS
  <2>1. CASE People \/ NewRelease
    BY <2>1 DEF People, Edit, NewRelease, InstallerStep
  <2>2. CASE Start
    <3>1. cmd = Idle
      BY <2>2 DEF Start, StartInit, StartUpdate, StartRefresh, StartEnable, StartDisable, Begin
    <3>2. QED
      BY <3>1 DEF Idle
  <2>3. CASE Step
    <3>1. PICK p \in todo : InitStep(p) \/ MigrateStep(p) \/ SweepStep(p) \/ RefreshStep(p)
                              \/ EnableStep(p) \/ DisableStep(p)
      BY <2>3 DEF Step
    <3>2. ~InitStep(p)
      BY DEF InitStep
    <3>3. QED
      BY <3>1, <3>2, StepKeepsWork DEF IInv, TypeOK
  <2>4. CASE Finish \/ Crash
    BY <2>4 DEF Finish, FinishInit, StartSweep, FinishUpdate, FinishOther, Crash, project
  <2>5. QED
    BY <2>1, <2>2, <2>3, <2>4 DEF Next
<1>2. Init => IInv
  BY InitTypes, TemplateBy DEF Init, IInv, NoProjectTextRecorded, MigrationsReadManifest, NoRecords, Idle
<1>3. QED
  BY <1>1, <1>2, IInvInductive, PTL DEF Spec, WorkSurvives

-----------------------------------------------------------------------------
(***************************************************************************)
(* What disable may delete.                                                *)
(***************************************************************************)
(* The manifest in memory: a tagged file is recorded, and its module is    *)
(* enabled but for what a disable has not reached.                         *)
TagsInMemory ==
  \A p \in newTag : /\ newRec[p] # Absent
                    /\ Layout[p].tree \in newMods \/ (cmd.op = "disable" /\ p \in todo)

(* The plan of a command is of the modules it will record as enabled; the  *)
(* migrations drop none but those a release has folded into the base.      *)
PlanFollowsModules ==
  /\ cmd.op = "init" => todo \subseteq Plan(iv, newMods)
  /\ cmd.op \in {"migrate", "update"} => mods \ Retired(iv) \subseteq newMods
  /\ cmd.op = "update" => todo \subseteq Plan(iv, mods)
  /\ cmd.op = "enable" => \A p \in todo : Layout[p].tree \in newMods

TagInv == TypeOK /\ TagsFollowModules /\ TagsInMemory /\ PlanFollowsModules

(* A file of the plan of a release that is installed under a module is of  *)
(* that module, which the release has not retired.                         *)
LEMMA ModuleOfPlan ==
  ASSUME NEW v, NEW ms \in SUBSET Modules, NEW p \in Plan(v, ms), Tree(p, v) \in Modules
  PROVE  Layout[p].tree \in ms \ Retired(v)
BY InstallerAssumption DEF Plan, Tree

(* A text that steps are injected into is a text.                          *)
LEMMA InjectedIsPresent ==
  ASSUME TypeOK, NEW c \in Content PROVE Inject(c, iv) # Absent
<1>1. Inject(c, iv).steps = iv /\ iv # 0
  BY InstallerAssumption DEF TypeOK, Versions, Inject, Content
<1>2. Absent.steps = 0
  BY DEF Absent
<1>3. QED
  BY <1>1, <1>2

(* A step records what it tags, and tags what an enabled module ships.     *)
LEMMA StepTags ==
  ASSUME TagInv, NEW p \in Paths, p \in todo,
         InitStep(p) \/ MigrateStep(p) \/ SweepStep(p) \/ RefreshStep(p)
           \/ EnableStep(p) \/ DisableStep(p)
  PROVE  TagsFollowModules' /\ TagsInMemory' /\ PlanFollowsModules'
<1> USE InstallerAssumption
<1>w. UNCHANGED <<rec, tag, mods, iv, cmd, newMods>> /\ todo' = todo \ {p}
  BY DEF InitStep, MigrateStep, SweepStep, RefreshStep, EnableStep, DisableStep, Walk, manifest
<1>o. /\ newRec \in [Paths -> Content] /\ newTag \subseteq Paths /\ newMods \subseteq Modules
      /\ mods \subseteq Modules /\ disk \in [Paths -> Content]
  BY DEF TagInv, TypeOK
<1>t. Template(p, iv) # Absent /\ Merged(iv) # Absent
  BY TemplateBy DEF TagInv, TypeOK, Versions
<1> DEFINE Kept == \A q \in newTag' \ {p} : q \in newTag /\ newRec'[q] = newRec[q]
           Here == p \in newTag' => newRec'[p] # Absent /\ Layout[p].tree \in newMods
<1>q. ASSUME Kept, Here
      PROVE  TagsFollowModules' /\ TagsInMemory' /\ PlanFollowsModules'
  <2>1. TagsInMemory'
    <3> SUFFICES ASSUME NEW q \in newTag'
                 PROVE  /\ newRec'[q] # Absent
                        /\ Layout[q].tree \in newMods \/ (cmd.op = "disable" /\ q \in todo \ {p})
      BY <1>w DEF TagsInMemory
    <3>1. CASE q = p
      BY <3>1, <1>q
    <3>2. CASE q # p
      <4>1. q \in newTag /\ newRec'[q] = newRec[q]
        BY <3>2, <1>q
      <4>2. QED
        BY <3>2, <4>1 DEF TagInv, TagsInMemory
    <3>3. QED
      BY <3>1, <3>2
  <2>2. TagsFollowModules'
    BY <1>w DEF TagInv, TagsFollowModules
  <2>3. PlanFollowsModules'
    BY <1>w DEF TagInv, PlanFollowsModules
  <2>4. QED
    BY <2>1, <2>2, <2>3
<1>b. cmd.op # "disable" /\ p \in newTag => newRec[p] # Absent /\ Layout[p].tree \in newMods
  BY DEF TagInv, TagsInMemory
<1>c. ASSUME NEW c, c # Absent, Record(p, c), newTag' \in {newTag, newTag \ {p}}, cmd.op # "disable"
      PROVE  Kept /\ Here
  BY <1>c, <1>b, <1>o DEF Record
<1>m. ASSUME NEW c, c # Absent, Record(p, c), newTag' = newTag \cup {p}, Layout[p].tree \in newMods
      PROVE  Kept /\ Here
  BY <1>m, <1>o DEF Record
<1>u. ASSUME UNCHANGED <<newRec, newTag>>, cmd.op # "disable"
      PROVE  Kept /\ Here
  BY <1>u, <1>b
<1>f. ASSUME Forget(p)
      PROVE  Kept /\ Here
  BY <1>f, <1>o DEF Forget
<1>1. CASE InitStep(p)
  <2>0. cmd.op = "init"
    BY <1>1 DEF InitStep
  <2>1. CASE InitSkip(p) \/ InitMergeGitignore(p) \/ InitPark(p)
    BY <2>1, <2>0, <1>u, <1>q DEF InitSkip, InitMergeGitignore, InitPark
  <2>2. CASE InitMergeSettings(p)
    BY <2>2, <2>0, <1>c, <1>t, <1>q DEF InitMergeSettings
  <2>3. CASE InitWrite(p)
    <3>1. InitContent(p) # Absent
      BY <1>t DEF InitContent
    <3>2. Tree(p, iv) \in Modules => Layout[p].tree \in newMods
      BY <2>0, <1>o, ModuleOfPlan DEF TagInv, PlanFollowsModules
    <3>3. QED
      BY <2>3, <2>0, <3>1, <3>2, <1>c, <1>m, <1>q DEF InitWrite
  <2>4. QED
    BY <1>1, <2>1, <2>2, <2>3 DEF InitStep
<1>2. CASE MigrateStep(p)
  <2>0. cmd.op = "migrate"
    BY <1>2 DEF MigrateStep
  <2>1. CASE MigrateRemove(p)
    BY <2>1, <2>0, <1>u, <1>f, <1>q DEF MigrateRemove
  <2>2. CASE MigrateConfig(p)
    <3>1. (Record(p, Inject(disk[p], iv)) /\ UNCHANGED newTag) \/ UNCHANGED <<newRec, newTag>>
      BY <2>2 DEF MigrateConfig, Record
    <3>2. Inject(disk[p], iv) # Absent
      BY <1>o, InjectedIsPresent DEF TagInv
    <3>3. QED
      BY <2>0, <3>1, <3>2, <1>c, <1>u, <1>q
  <2>3. QED
    BY <1>2, <2>1, <2>2 DEF MigrateStep
<1>3. CASE SweepStep(p)
  <2>0. cmd.op = "update"
    BY <1>3 DEF SweepStep
  <2>1. Tree(p, iv) \in Modules => Layout[p].tree \in newMods
    BY <2>0, <1>o, ModuleOfPlan DEF TagInv, PlanFollowsModules
  <2>2. \/ UNCHANGED <<newRec, newTag>>
        \/ /\ Record(p, Template(p, iv))
           /\ \/ newTag' = newTag \cup {p} /\ Tree(p, iv) \in Modules
              \/ newTag' \in {newTag, newTag \ {p}}
    BY <1>3 DEF SweepStep
  <2>3. QED
    BY <2>0, <2>1, <2>2, <1>c, <1>m, <1>u, <1>t, <1>q
<1>4. CASE RefreshStep(p)
  <2>1. cmd.op # "disable" /\ newTag' = newTag /\ (Record(p, Template(p, iv)) \/ UNCHANGED newRec)
    BY <1>4 DEF RefreshStep
  <2>2. QED
    BY <2>1, <1>c, <1>u, <1>t, <1>q
<1>5. CASE EnableStep(p)
  <2>0. cmd.op = "enable"
    BY <1>5 DEF EnableStep
  <2>1. Layout[p].tree \in newMods
    BY <2>0 DEF TagInv, PlanFollowsModules
  <2>2. \/ UNCHANGED <<newRec, newTag>>
        \/ Record(p, Template(p, iv)) /\ newTag' = newTag \cup {p}
    BY <1>5 DEF EnableStep
  <2>3. QED
    BY <2>0, <2>1, <2>2, <1>m, <1>u, <1>t, <1>q
<1>6. CASE DisableStep(p)
  BY <1>6, <1>f, <1>q DEF DisableStep
<1>7. QED
  BY <1>1, <1>2, <1>3, <1>4, <1>5, <1>6

(* A command begins with the tags of the manifest, or with none.           *)
LEMMA StartTags == TagInv /\ Start => TagsFollowModules' /\ TagsInMemory' /\ PlanFollowsModules'
<1> SUFFICES ASSUME TagInv, NEW force \in BOOLEAN, NEW dry \in DryRuns,
                    \/ \E consume \in BOOLEAN, ms \in SUBSET Modules :
                         StartInit(force, dry, consume, ms)
                    \/ StartUpdate(force, dry)
                    \/ \E S \in SUBSET Paths : StartRefresh(S, force, dry)
                    \/ \E m \in Modules : StartEnable(m, dry) \/ StartDisable(m, dry)
             PROVE  TagsFollowModules' /\ TagsInMemory' /\ PlanFollowsModules'
  BY DEF Start
<1> USE InstallerAssumption
<1>o. /\ tag \subseteq Paths /\ mods \subseteq Modules
      /\ \A p \in tag : Layout[p].tree \in mods /\ rec[p] # Absent
  BY DEF TagInv, TypeOK, TagsFollowModules
<1>s. UNCHANGED <<rec, tag, mods, iv>> => TagsFollowModules'
  BY <1>o DEF TagsFollowModules
<1>1. ASSUME NEW consume \in BOOLEAN, NEW ms \in SUBSET Modules,
             StartInit(force, dry, consume, ms)
      PROVE  TagsFollowModules' /\ TagsInMemory' /\ PlanFollowsModules'
  <2>1. /\ TagsFollowModules' /\ cmd'.op = "init" /\ todo' = Plan(iv, ms)
        /\ newTag' = {} /\ newMods' = ms /\ iv' = iv
    BY <1>1, <1>s DEF StartInit, Begin, manifest
  <2>2. QED
    BY <2>1 DEF TagsInMemory, PlanFollowsModules
<1>2. CASE StartUpdate(force, dry)
  <2> DEFINE gone == UNION {Promoted[v] : v \in Pending}
  <2>1. /\ TagsFollowModules' /\ cmd'.op = "migrate"
        /\ newRec' = rec /\ newTag' = {p \in tag : Layout[p].tree \notin gone}
        /\ newMods' = mods \ gone /\ UNCHANGED <<iv, mods>>
    BY <1>2, <1>s DEF StartUpdate, Begin, manifest, Idle
  <2>2. gone \subseteq Retired(iv)
    BY DEF Retired, Pending, Versions
  <2>3. TagsInMemory'
    BY <2>1, <1>o DEF TagsInMemory
  <2>4. PlanFollowsModules'
    BY <2>1, <2>2 DEF PlanFollowsModules
  <2>5. QED
    BY <2>1, <2>3, <2>4
<1>3. ASSUME NEW S \in SUBSET Paths, StartRefresh(S, force, dry)
      PROVE  TagsFollowModules' /\ TagsInMemory' /\ PlanFollowsModules'
  <2>1. /\ TagsFollowModules' /\ cmd'.op = "refresh"
        /\ newRec' = rec /\ newTag' = tag /\ newMods' = mods
    BY <1>3, <1>s DEF StartRefresh, Begin, manifest, Idle
  <2>2. QED
    BY <2>1, <1>o DEF TagsInMemory, PlanFollowsModules
<1>4. ASSUME NEW m \in Modules, StartEnable(m, dry)
      PROVE  TagsFollowModules' /\ TagsInMemory' /\ PlanFollowsModules'
  <2>1. /\ TagsFollowModules' /\ cmd'.op = "enable"
        /\ todo' = {p \in Ships[iv] : Layout[p].tree = m}
        /\ newRec' = rec /\ newTag' = tag /\ newMods' = mods \cup {m}
    BY <1>4, <1>s DEF StartEnable, Begin, manifest, Idle
  <2>2. QED
    BY <2>1, <1>o DEF TagsInMemory, PlanFollowsModules
<1>5. ASSUME NEW m \in Modules, StartDisable(m, dry)
      PROVE  TagsFollowModules' /\ TagsInMemory' /\ PlanFollowsModules'
  <2>1. /\ TagsFollowModules' /\ cmd'.op = "disable"
        /\ todo' = {p \in tag : Layout[p].tree = m}
        /\ newRec' = rec /\ newTag' = tag /\ newMods' = mods \ {m}
    BY <1>5, <1>s DEF StartDisable, Begin, manifest, Idle
  <2>2. QED
    BY <2>1, <1>o DEF TagsInMemory, PlanFollowsModules
<1>6. QED
  BY <1>1, <1>2, <1>3, <1>4, <1>5

(* Every step keeps the tags with their modules.                           *)
LEMMA TagStep == TagInv /\ [Next]_vars => TagInv'
<1> SUFFICES ASSUME TagInv, [Next]_vars
             PROVE  TagsFollowModules' /\ TagsInMemory' /\ PlanFollowsModules'
  BY TypeStep DEF TagInv
<1>1. CASE People \/ UNCHANGED vars
  <2>1. UNCHANGED <<rec, tag, mods, iv, cmd, todo, newRec, newTag, newMods>>
    BY <1>1 DEF People, Edit, vars, manifest, memory
  <2>2. QED
    BY <2>1 DEF TagInv, TagsFollowModules, TagsInMemory, PlanFollowsModules
<1>2. CASE NewRelease
  <2>1. UNCHANGED <<rec, tag, mods, cmd, todo, newRec, newTag, newMods>> /\ cmd.op = "idle"
    BY <1>2 DEF NewRelease, manifest, memory, Idle
  <2>2. QED
    BY <2>1 DEF TagInv, TagsFollowModules, TagsInMemory, PlanFollowsModules
<1>3. CASE Start
  BY <1>3, StartTags
<1>4. CASE Step
  <2>1. PICK p \in todo : InitStep(p) \/ MigrateStep(p) \/ SweepStep(p) \/ RefreshStep(p)
                            \/ EnableStep(p) \/ DisableStep(p)
    BY <1>4 DEF Step
  <2>2. QED
    BY <2>1, StepTags DEF TagInv, TypeOK
<1>5. CASE StartSweep
  <2>1. /\ UNCHANGED <<rec, tag, mods, iv, newRec, newTag, newMods>>
        /\ cmd.op = "migrate" /\ cmd'.op = "update" /\ todo' = Plan(iv, mods)
    BY <1>5 DEF StartSweep, manifest, memory, TagInv, TypeOK, Commands
  <2>2. TagsFollowModules' /\ TagsInMemory'
    BY <2>1 DEF TagInv, TagsFollowModules, TagsInMemory
  <2>3. Plan(iv, mods)' = Plan(iv, mods) /\ Retired(iv)' = Retired(iv)
    BY <2>1 DEF Plan, Tree, Retired
  <2>4. PlanFollowsModules'
    BY <2>1, <2>3 DEF TagInv, PlanFollowsModules
  <2>5. QED
    BY <2>2, <2>4
<1>6. CASE FinishInit \/ FinishUpdate \/ FinishOther \/ Crash
  <2>1. /\ newTag' = {} /\ cmd'.op = "idle"
        /\ \/ UNCHANGED <<rec, tag, mods>>
           \/ rec' = newRec /\ tag' = newTag /\ mods' = newMods /\ todo = {}
    BY <1>6 DEF FinishInit, FinishUpdate, FinishOther, Crash, SaveManifest, Forgotten, manifest, Idle
  <2>2. TagsFollowModules'
    BY <2>1 DEF TagInv, TagsFollowModules, TagsInMemory
  <2>3. QED
    BY <2>1, <2>2 DEF TagsInMemory, PlanFollowsModules
<1>7. QED
  BY <1>1, <1>2, <1>3, <1>4, <1>5, <1>6 DEF Next, Finish

(* Whatever is promoted, enabled, disabled or left half done: a file that  *)
(* disable may delete is one that an enabled module installed.             *)
THEOREM TagsFollow == Spec => []TagsFollowModules
<1>1. Init => TagInv
  BY InitTypes DEF Init, TagInv, TagsFollowModules, TagsInMemory, PlanFollowsModules, Idle
<1>2. TagInv => TagsFollowModules
  BY DEF TagInv
<1>3. QED
  BY <1>1, <1>2, TagStep, PTL DEF Spec

-----------------------------------------------------------------------------
(***************************************************************************)
(* What a first retrofit keeps.                                            *)
(***************************************************************************)
(* --consume is never a retrofit.                                          *)
ConsumeBootstraps == cmd.consume => cmd.mode = "bootstrap"

RetrofitInv == TypeOK /\ ConsumeBootstraps

(* Only a bootstrap consumes, whatever the step.                           *)
LEMMA RetrofitStep == RetrofitInv /\ [Next]_vars => RetrofitInv'
<1> SUFFICES ASSUME RetrofitInv, [Next]_vars PROVE ConsumeBootstraps'
  BY TypeStep DEF RetrofitInv
<1>1. CASE People \/ NewRelease \/ Step \/ UNCHANGED vars
  <2>1. cmd' = cmd
    BY <1>1 DEF People, Edit, NewRelease, vars, Step, InitStep, MigrateStep, SweepStep, RefreshStep,
       EnableStep, DisableStep, Walk
  <2>2. QED
    BY <2>1 DEF RetrofitInv, ConsumeBootstraps
<1>2. CASE Start
  <2>1. ASSUME NEW force \in BOOLEAN, NEW dry \in DryRuns, NEW consume \in BOOLEAN,
               NEW ms \in SUBSET Modules, StartInit(force, dry, consume, ms)
        PROVE  ConsumeBootstraps'
    BY <2>1 DEF StartInit, Begin, InitMode, ConsumeBootstraps
  <2>2. ASSUME NEW force \in BOOLEAN, NEW dry \in DryRuns,
               \/ StartUpdate(force, dry)
               \/ \E S \in SUBSET Paths : StartRefresh(S, force, dry)
               \/ \E m \in Modules : StartEnable(m, dry) \/ StartDisable(m, dry)
        PROVE  ConsumeBootstraps'
    BY <2>2 DEF StartUpdate, StartRefresh, StartEnable, StartDisable, Begin, Idle, ConsumeBootstraps
  <2>3. QED
    BY <1>2, <2>1, <2>2 DEF Start
<1>3. CASE StartSweep
  BY <1>3 DEF StartSweep, RetrofitInv, TypeOK, Commands, ConsumeBootstraps
<1>4. CASE FinishInit \/ FinishUpdate \/ FinishOther \/ Crash
  BY <1>4 DEF FinishInit, FinishUpdate, FinishOther, Crash, Forgotten, Idle, ConsumeBootstraps
<1>5. QED
  BY <1>1, <1>2, <1>3, <1>4 DEF Next, Finish

(* For every template: what a first retrofit writes over a text people     *)
(* wrote is a merge of it.                                                 *)
THEOREM RetrofitKeeps == Spec => RetrofitKeepsTheirs
<1>1. RetrofitInv /\ [Next]_vars =>
        [\A p \in Paths :
           cmd.op = "init" /\ cmd.mode = "retrofit" /\ hv = 0 /\ ByPeople(p) /\ InstallerStep
           => \/ disk'[p] = disk[p]
              \/ disk'[p].by = "merged" /\ Layout[p].retrofit # "park"]_vars
  <2> SUFFICES ASSUME RetrofitInv, Next, NEW q \in Paths, cmd.op = "init",
                      cmd.mode = "retrofit", hv = 0, ByPeople(q), InstallerStep
               PROVE  \/ disk'[q] = disk[q]
                      \/ disk'[q].by = "merged" /\ Layout[q].retrofit # "park"
    OBVIOUS
  <2> USE InstallerAssumption
  <2>t. /\ disk \in [Paths -> Content] /\ iv \in Nat
        /\ disk[q] \notin {Absent, Template(q, iv)} /\ Merged(iv).by = "merged"
    BY TemplateBy DEF ByPeople, RetrofitInv, TypeOK, Versions
  <2>1. CASE People \/ NewRelease
    BY <2>1 DEF People, Edit, NewRelease, InstallerStep
  <2>2. CASE Start
    <3>1. cmd = Idle
      BY <2>2 DEF Start, StartInit, StartUpdate, StartRefresh, StartEnable, StartDisable, Begin
    <3>2. QED
      BY <3>1 DEF Idle
  <2>3. CASE Step
    <3>1. PICK p \in todo : InitStep(p)
      BY <2>3 DEF Step, MigrateStep, SweepStep, RefreshStep, EnableStep, DisableStep
    <3>2. CASE InitSkip(p) \/ InitPark(p)
      BY <3>2 DEF InitSkip, InitPark, Park, project
    <3>3. CASE InitMergeGitignore(p) \/ InitMergeSettings(p)
      BY <3>3, <2>t DEF InitMergeGitignore, InitMergeSettings, WriteFile, project
    <3>4. CASE InitWrite(p)
      <4>1. CASE p # q
        BY <4>1, <3>4, <2>t DEF InitWrite, WriteFile
      <4>2. CASE p = q
        <5>1. Layout[q].retrofit \in {"package", "workspace"} /\ InitContent(q) = Merged(iv)
          BY <4>2, <3>4, <2>t DEF InitWrite, InitMeets, InitContent, Retrofitting
        <5>2. QED
          BY <4>2, <5>1, <3>4, <2>t DEF InitWrite, WriteFile
      <4>3. QED
        BY <4>1, <4>2
    <3>5. QED
      BY <3>1, <3>2, <3>3, <3>4 DEF InitStep
  <2>4. CASE Finish \/ Crash
    BY <2>4, <2>t DEF Finish, FinishInit, StartSweep, FinishUpdate, FinishOther, Crash, project,
       RetrofitInv, ConsumeBootstraps
  <2>5. QED
    BY <2>1, <2>2, <2>3, <2>4 DEF Next
<1>2. Init => RetrofitInv
  BY InitTypes DEF Init, RetrofitInv, ConsumeBootstraps, Idle
<1>3. QED
  BY <1>1, <1>2, RetrofitStep, PTL DEF Spec, RetrofitKeepsTheirs

-----------------------------------------------------------------------------
(***************************************************************************)
(* An update leaves no owned file behind.                                  *)
(***************************************************************************)
(* Until the sweep reaches an owned file, the migrations may have dropped  *)
(* its record but have given it no other.                                  *)
RecordsOnlyDropped ==
  cmd.op \in {"migrate", "update"} =>
    \A p \in Paths : Owned(p) /\ (cmd.op = "migrate" \/ p \in todo) => newRec[p] \in {rec[p], Absent}

(* The files the sweep is through with are recorded or parked.             *)
SettledSoFar ==
  cmd.op = "update" /\ ~cmd.dry =>
    \A p \in Plan(iv, mods) \ todo :
      Owned(p) => \/ newRec[p] \in {Template(p, iv), Absent}
                  \/ parked[p] = Template(p, iv)

SettleInv == TypeOK /\ RecordsOnlyDropped /\ SettledSoFar

(* A step of the sweep settles its file and leaves the others alone.       *)
LEMMA SweepSettles ==
  ASSUME SettleInv, NEW p \in Paths, SweepStep(p)
  PROVE  /\ \A q \in Paths \ {p} : newRec'[q] = newRec[q] /\ parked'[q] = parked[q]
         /\ Owned(p) /\ ~cmd.dry => \/ newRec'[p] \in {Template(p, iv), Absent}
                                    \/ parked'[p] = Template(p, iv)
<1> USE InstallerAssumption
<1>o. /\ newRec \in [Paths -> Content] /\ parked \in [Paths -> Content]
      /\ cmd.op = "update" /\ p \in todo
      /\ Owned(p) => newRec[p] \in {rec[p], Absent}
  BY DEF SettleInv, TypeOK, RecordsOnlyDropped, SweepStep, Walk
<1>s. Owned(p) => ~SweepSkips(p)
  BY DEF Owned, SweepSkips
<1>k. ClassifyDrift(disk[p], rec[p], Template(p, iv), cmd.force) = "skip-same"
        => rec[p] \in {Template(p, iv), Absent}
  BY DEF ClassifyDrift
<1>1. CASE Record(p, Template(p, iv)) /\ UNCHANGED parked
  BY <1>1, <1>o DEF Record
<1>2. CASE Park(p, Template(p, iv)) /\ UNCHANGED newRec
  BY <1>2, <1>o DEF Park
<1>3. CASE /\ SweepSkips(p)
              \/ ClassifyDrift(disk[p], rec[p], Template(p, iv), cmd.force) = "skip-same"
           /\ UNCHANGED <<parked, newRec>>
  BY <1>3, <1>o, <1>s, <1>k
<1>4. QED
  BY <1>1, <1>2, <1>3 DEF SweepStep, WriteFile, project

(* Every step keeps what the sweep has settled.                            *)
LEMMA SettleStep == SettleInv /\ [Next]_vars => SettleInv'
<1> SUFFICES ASSUME SettleInv, [Next]_vars PROVE RecordsOnlyDropped' /\ SettledSoFar'
  BY TypeStep DEF SettleInv
<1> USE InstallerAssumption
<1>1. CASE People \/ UNCHANGED vars
  <2>1. UNCHANGED <<rec, mods, iv, cmd, todo, newRec, parked>>
    BY <1>1 DEF People, Edit, vars, manifest, memory
  <2>2. QED
    BY <2>1 DEF SettleInv, RecordsOnlyDropped, SettledSoFar
<1>2. CASE NewRelease
  <2>1. cmd'.op = "idle"
    BY <1>2 DEF NewRelease, Idle
  <2>2. QED
    BY <2>1 DEF RecordsOnlyDropped, SettledSoFar
<1>3. CASE Start
  <2>1. cmd'.op # "update" /\ (cmd'.op = "migrate" => newRec' = rec /\ rec' = rec)
    <3>1. ASSUME NEW force \in BOOLEAN, NEW dry \in DryRuns, NEW consume \in BOOLEAN,
                 NEW ms \in SUBSET Modules, StartInit(force, dry, consume, ms)
          PROVE  cmd'.op = "init"
      BY <3>1 DEF StartInit, Begin
    <3>2. ASSUME NEW force \in BOOLEAN, NEW dry \in DryRuns, StartUpdate(force, dry)
          PROVE  cmd'.op = "migrate" /\ newRec' = rec /\ rec' = rec
      BY <3>2 DEF StartUpdate, Begin, Idle, manifest
    <3>3. ASSUME NEW S \in SUBSET Paths, NEW force \in BOOLEAN, NEW dry \in DryRuns,
                 StartRefresh(S, force, dry)
          PROVE  cmd'.op = "refresh"
      BY <3>3 DEF StartRefresh, Begin, Idle
    <3>4. ASSUME NEW m \in Modules, NEW dry \in DryRuns,
                 StartEnable(m, dry) \/ StartDisable(m, dry)
          PROVE  cmd'.op \in {"enable", "disable"}
      BY <3>4 DEF StartEnable, StartDisable, Begin, Idle
    <3>5. QED
      BY <1>3, <3>1, <3>2, <3>3, <3>4 DEF Start
  <2>2. QED
    BY <2>1 DEF RecordsOnlyDropped, SettledSoFar, Owned
<1>4. CASE Step
  <2>1. PICK p \in todo : InitStep(p) \/ MigrateStep(p) \/ SweepStep(p) \/ RefreshStep(p)
                            \/ EnableStep(p) \/ DisableStep(p)
    BY <1>4 DEF Step
  <2>2. /\ p \in Paths /\ UNCHANGED <<rec, mods, iv, cmd>> /\ todo' = todo \ {p}
        /\ todo \subseteq Paths
    BY <2>1 DEF InitStep, MigrateStep, SweepStep, RefreshStep, EnableStep, DisableStep, Walk,
       manifest, SettleInv, TypeOK
  <2>3. CASE MigrateStep(p)
    <3>1. cmd.op = "migrate"
      BY <2>3 DEF MigrateStep
    <3>2. \A q \in Paths : Owned(q) => newRec'[q] \in {newRec[q], Absent}
      BY <2>3, <2>2 DEF MigrateStep, MigrateConfig, MigrateRemove, Forget, IsConfig, Owned,
         SettleInv, TypeOK
    <3>3. QED
      BY <2>2, <3>1, <3>2 DEF SettleInv, RecordsOnlyDropped, SettledSoFar, Owned
  <2>4. CASE SweepStep(p)
    <3>1. cmd.op = "update"
      BY <2>4 DEF SweepStep
    <3>2. RecordsOnlyDropped'
      BY <2>2, <2>4, <3>1, SweepSettles DEF SettleInv, RecordsOnlyDropped, Owned
    <3>3. SettledSoFar'
      <4> SUFFICES ASSUME ~cmd.dry, NEW q \in Plan(iv, mods), q \notin todo \ {p}, Owned(q)
                   PROVE  \/ newRec'[q] \in {Template(q, iv), Absent}
                          \/ parked'[q] = Template(q, iv)
        BY <2>2 DEF SettledSoFar, Plan, Tree, Retired, Owned, Template
      <4>1. CASE q = p
        BY <4>1, <2>2, <2>4, SweepSettles
      <4>2. CASE q # p
        <5>1. q \in Plan(iv, mods) \ todo /\ q \in Paths
          BY <4>2 DEF Plan, SettleInv, TypeOK
        <5>2. \/ newRec[q] \in {Template(q, iv), Absent}
              \/ parked[q] = Template(q, iv)
          BY <5>1, <3>1 DEF SettleInv, SettledSoFar
        <5>3. newRec'[q] = newRec[q] /\ parked'[q] = parked[q]
          BY <5>1, <4>2, <2>2, <2>4, SweepSettles
        <5>4. QED
          BY <5>2, <5>3
      <4>3. QED
        BY <4>1, <4>2
    <3>4. QED
      BY <3>2, <3>3
  <2>5. CASE InitStep(p) \/ RefreshStep(p) \/ EnableStep(p) \/ DisableStep(p)
    BY <2>5, <2>2 DEF InitStep, RefreshStep, EnableStep, DisableStep, RecordsOnlyDropped, SettledSoFar
  <2>6. QED
    BY <2>1, <2>3, <2>4, <2>5
<1>5. CASE StartSweep
  <2>1. /\ UNCHANGED <<rec, mods, iv, newRec>> /\ cmd.op = "migrate"
        /\ cmd'.op = "update" /\ todo' = Plan(iv, mods)
    BY <1>5 DEF StartSweep, manifest, memory, SettleInv, TypeOK, Commands
  <2>2. Plan(iv, mods)' = Plan(iv, mods)
    BY <2>1 DEF Plan, Tree, Retired
  <2>3. QED
    BY <2>1, <2>2 DEF SettleInv, RecordsOnlyDropped, SettledSoFar, Owned
<1>6. CASE FinishInit \/ FinishUpdate \/ FinishOther \/ Crash
  <2>1. cmd'.op = "idle"
    BY <1>6 DEF FinishInit, FinishUpdate, FinishOther, Crash, Forgotten, Idle
  <2>2. QED
    BY <2>1 DEF RecordsOnlyDropped, SettledSoFar
<1>7. QED
  BY <1>1, <1>2, <1>3, <1>4, <1>5, <1>6 DEF Next, Finish

(* For every template and every history of the project: an update that    *)
(* ends has recorded or parked the new text of every owned file.           *)
THEOREM UpdatesSettle == Spec => UpdateSettles
<1>1. SettleInv /\ [Next]_vars =>
        [cmd.op = "update" /\ ~cmd.dry /\ cmd' = Idle /\ crashes' = crashes
           => \A p \in Plan(iv, mods) :
                Owned(p) => \/ rec'[p] \in {Template(p, iv), Absent}
                            \/ parked'[p] = Template(p, iv)]_vars
  <2> SUFFICES ASSUME SettleInv, Next, cmd.op = "update", ~cmd.dry, cmd' = Idle, crashes' = crashes,
                      NEW p \in Plan(iv, mods), Owned(p)
               PROVE  \/ rec'[p] \in {Template(p, iv), Absent}
                      \/ parked'[p] = Template(p, iv)
    OBVIOUS
  <2>1. cmd'.op # cmd.op
    BY DEF Idle
  <2>2. ~People /\ ~NewRelease /\ ~Step
    BY <2>1 DEF People, Edit, NewRelease, Step, InitStep, MigrateStep, SweepStep, RefreshStep,
       EnableStep, DisableStep, Walk
  <2>3. ~Start
    BY DEF Start, StartInit, StartUpdate, StartRefresh, StartEnable, StartDisable, Begin, Idle
  <2>4. ~Crash
    BY DEF Crash, SettleInv, TypeOK
  <2>5. FinishUpdate
    BY <2>2, <2>3, <2>4 DEF Next, Finish, FinishInit, StartSweep, FinishOther
  <2>6. QED
    BY <2>5 DEF FinishUpdate, SaveManifest, project, SettleInv, SettledSoFar
<1>2. Init => SettleInv
  BY InitTypes DEF Init, SettleInv, RecordsOnlyDropped, SettledSoFar, Idle
<1>3. QED
  BY <1>1, <1>2, SettleStep, PTL DEF Spec, UpdateSettles


-----------------------------------------------------------------------------
(***************************************************************************)
(* What nobody touched is what the manifest records.  Two things break     *)
(* this, and the theorems are of behaviours without them: a command that   *)
(* dies leaves files ahead of the manifest, and `init --consume' clears    *)
(* directories whether or not their files are recorded.                    *)
(***************************************************************************)
Undisturbed == [][~Crash /\ ~cmd'.consume]_vars

(* The files nobody touched are those of the records r.                    *)
Matches(r) == \A p \in Paths \ touched : r[p] # Absent => disk[p] = r[p]

(* init builds its records from none.                                      *)
InitRecordsAnew == cmd.op = "init" => \A p \in todo : newRec[p] = Absent

(* The sweep compares with the records the command read, not with those it *)
(* builds: a migration may have removed the file, and has left it alone    *)
(* otherwise.                                                              *)
SweepMeets ==
  cmd.op \in {"migrate", "update"} /\ ~cmd.dry =>
    \A p \in Paths \ touched :
      Owned(p) /\ rec[p] # Absent /\ (cmd.op = "migrate" \/ p \in todo)
        => disk[p] \in {rec[p], Absent}

(* A command that writes keeps the records in memory in step with the      *)
(* files; a dry run, and nobody at all, the records of the manifest.       *)
PristineInv ==
  /\ TypeOK
  /\ ~cmd.consume
  /\ cmd = Idle \/ cmd.dry => Matches(rec)
  /\ cmd # Idle /\ ~cmd.dry => Matches(newRec)
  /\ InitRecordsAnew
  /\ SweepMeets

(* A step of a dry run writes no file.                                     *)
LEMMA DryStep ==
  ASSUME NEW p, cmd.dry,
         InitStep(p) \/ MigrateStep(p) \/ SweepStep(p) \/ RefreshStep(p)
           \/ EnableStep(p) \/ DisableStep(p)
  PROVE  UNCHANGED <<disk, touched>>
<1>1. CASE InitStep(p)
  BY <1>1 DEF InitStep, InitSkip, InitMergeGitignore, InitMergeSettings, InitPark, InitWrite,
     WriteFile, Park, project
<1>2. CASE MigrateStep(p)
  BY <1>2 DEF MigrateStep, MigrateRemove, MigrateConfig, RemoveFile, project
<1>3. CASE SweepStep(p) \/ RefreshStep(p)
  BY <1>3 DEF SweepStep, RefreshStep, WriteFile, Park, project
<1>4. CASE EnableStep(p) \/ DisableStep(p)
  BY <1>4 DEF EnableStep, DisableStep, WriteFile, RemoveFile, Park, project
<1>5. QED
  BY <1>1, <1>2, <1>3, <1>4

(* The step for p changes no other file.                                   *)
LEMMA StepElsewhere ==
  ASSUME TypeOK, NEW p \in Paths, NEW q \in Paths \ {p},
         InitStep(p) \/ MigrateStep(p) \/ SweepStep(p) \/ RefreshStep(p)
           \/ EnableStep(p) \/ DisableStep(p)
  PROVE  disk'[q] = disk[q] /\ (q \in touched' <=> q \in touched)
<1> DEFINE Same == disk'[q] = disk[q] /\ (q \in touched' <=> q \in touched)
<1>w. ASSUME NEW c, WriteFile(p, c) PROVE Same
  BY <1>w DEF WriteFile, TypeOK
<1>r. ASSUME RemoveFile(p) PROVE Same
  BY <1>r DEF RemoveFile, TypeOK
<1>k. ASSUME NEW c, Park(p, c) PROVE Same
  BY <1>k DEF Park
<1>u. ASSUME UNCHANGED project PROVE Same
  BY <1>u DEF project
<1>1. CASE InitStep(p)
  <2>1. QED
    BY <1>1, <1>w, <1>k, <1>u DEF InitStep, InitSkip, InitMergeGitignore, InitMergeSettings,
       InitPark, InitWrite
<1>2. CASE MigrateStep(p)
  <2>1. CASE MigrateRemove(p)
    BY <2>1, <1>r, <1>u DEF MigrateRemove
  <2>2. CASE MigrateConfig(p)
    BY <2>2, <1>u DEF MigrateConfig, TypeOK
  <2>3. QED
    BY <1>2, <2>1, <2>2 DEF MigrateStep
<1>3. CASE SweepStep(p)
  <2>1. QED
    BY <1>3, <1>w, <1>k, <1>u DEF SweepStep
<1>4. CASE RefreshStep(p)
  BY <1>4, <1>w, <1>k, <1>u DEF RefreshStep
<1>5. CASE EnableStep(p) \/ DisableStep(p)
  BY <1>5, <1>w, <1>k, <1>r, <1>u DEF EnableStep, DisableStep
<1>6. QED
  BY <1>1, <1>2, <1>3, <1>4, <1>5

(* The step for p of a command that writes leaves at p what it records.    *)
LEMMA StepMatches ==
  ASSUME PristineInv, NEW p \in Paths, ~cmd.dry, cmd # Idle,
         InitStep(p) \/ MigrateStep(p) \/ SweepStep(p) \/ RefreshStep(p)
           \/ EnableStep(p) \/ DisableStep(p)
  PROVE  p \notin touched' /\ newRec'[p] # Absent => disk'[p] = newRec'[p]
<1> DEFINE Good == p \notin touched' /\ newRec'[p] # Absent => disk'[p] = newRec'[p]
<1>t. disk \in [Paths -> Content] /\ newRec \in [Paths -> Content]
  BY DEF PristineInv, TypeOK
<1>m. p \notin touched /\ newRec[p] # Absent => disk[p] = newRec[p]
  BY DEF PristineInv, Matches
<1>w. ASSUME NEW c, WriteFile(p, c), Record(p, c) PROVE Good
  BY <1>w, <1>t DEF WriteFile, Record
<1>k. ASSUME NEW c, Park(p, c), UNCHANGED newRec PROVE Good
  BY <1>k, <1>m DEF Park
<1>u. ASSUME UNCHANGED project, UNCHANGED newRec PROVE Good
  BY <1>u, <1>m DEF project
<1>f. ASSUME Forget(p) PROVE Good
  BY <1>f, <1>t DEF Forget
<1>1. CASE InitStep(p)
  <2>1. newRec[p] = Absent
    BY <1>1 DEF PristineInv, InitRecordsAnew, InitStep, Walk
  <2>2. CASE InitMergeGitignore(p)
    BY <2>1, <2>2 DEF InitMergeGitignore
  <2>3. CASE InitSkip(p) \/ InitPark(p)
    BY <2>3, <1>u, <1>k DEF InitSkip, InitPark
  <2>4. CASE InitMergeSettings(p) \/ InitWrite(p)
    BY <2>4, <1>w DEF InitMergeSettings, InitWrite
  <2>5. QED
    BY <1>1, <2>2, <2>3, <2>4 DEF InitStep
<1>2. CASE MigrateStep(p)
  <2>1. CASE MigrateRemove(p)
    BY <2>1, <1>f, <1>u DEF MigrateRemove
  <2>2. CASE MigrateConfig(p)
    <3>1. CASE UNCHANGED <<project, newRec, newTag>>
      BY <3>1, <1>u
    <3>2. CASE /\ disk' = [disk EXCEPT ![p] = Inject(disk[p], iv)]
               /\ newRec' = IF newRec[p] = Absent THEN newRec
                            ELSE [newRec EXCEPT ![p] = Inject(disk[p], iv)]
      BY <3>2, <1>t
    <3>3. QED
      BY <2>2, <3>1, <3>2 DEF MigrateConfig
  <2>3. QED
    BY <1>2, <2>1, <2>2 DEF MigrateStep
<1>3. CASE SweepStep(p)
  <2> DEFINE kind == ClassifyDrift(disk[p], rec[p], Template(p, iv), cmd.force)
  <2>1. CASE kind = "record-only" /\ Record(p, Template(p, iv)) /\ UNCHANGED project
    <3>1. disk[p] = Template(p, iv)
      BY <2>1 DEF ClassifyDrift
    <3>2. QED
      BY <2>1, <3>1, <1>t DEF Record, project
  <2>2. CASE ~(kind = "record-only" /\ Record(p, Template(p, iv)) /\ UNCHANGED project)
    <3>1. QED
      BY <1>3, <2>2, <1>w, <1>k, <1>u DEF SweepStep
  <2>3. QED
    BY <2>1, <2>2
<1>4. CASE RefreshStep(p)
  BY <1>4, <1>w, <1>k, <1>u DEF RefreshStep
<1>5. CASE EnableStep(p)
  BY <1>5, <1>w, <1>k DEF EnableStep
<1>6. CASE DisableStep(p)
  BY <1>6, <1>f DEF DisableStep
<1>7. QED
  BY <1>1, <1>2, <1>3, <1>4, <1>5, <1>6

(* A migration leaves an owned file alone or removes it.                   *)
LEMMA MigrationKeeps ==
  ASSUME PristineInv, NEW p \in Paths, MigrateStep(p), Owned(p), ~cmd.dry
  PROVE  disk'[p] = Absent \/ (disk'[p] = disk[p] /\ (p \in touched' <=> p \in touched))
<1>1. MigrateRemove(p) /\ disk \in [Paths -> Content]
  BY DEF MigrateStep, IsConfig, Owned, PristineInv, TypeOK
<1>2. QED
  BY <1>1 DEF MigrateRemove, RemoveFile, project

(* The step for p keeps the invariant.                                     *)
LEMMA StepPristine ==
  ASSUME PristineInv, NEW p \in Paths,
         InitStep(p) \/ MigrateStep(p) \/ SweepStep(p) \/ RefreshStep(p)
           \/ EnableStep(p) \/ DisableStep(p)
  PROVE  PristineInv'
<1>t. TypeOK /\ TypeOK'
  BY StepTypes DEF PristineInv
<1>r. /\ rec' = rec /\ cmd' = cmd /\ todo' = todo \ {p}
      /\ \A q \in Paths \ {p} : newRec'[q] = newRec[q]
  BY <1>t, StepRecords
<1>e. \A q \in Paths \ {p} : disk'[q] = disk[q] /\ (q \in touched' <=> q \in touched)
  BY <1>t, StepElsewhere
<1>i. cmd # Idle /\ p \in todo /\ todo \subseteq Paths
  BY <1>t DEF InitStep, MigrateStep, SweepStep, RefreshStep, EnableStep, DisableStep, Walk, Idle,
     TypeOK
<1>1. cmd'.dry => Matches(rec)'
  <2> SUFFICES ASSUME cmd.dry PROVE Matches(rec)'
    BY <1>r
  <2>1. UNCHANGED <<disk, touched, rec>> /\ Matches(rec)
    BY <1>r, DryStep DEF PristineInv
  <2>2. QED
    BY <2>1 DEF Matches
<1>2. ~cmd'.dry => Matches(newRec)'
  <2> SUFFICES ASSUME ~cmd.dry, NEW q \in Paths \ touched', newRec'[q] # Absent
               PROVE  disk'[q] = newRec'[q]
    BY <1>r DEF Matches
  <2>1. CASE q = p
    BY <2>1, <1>i, StepMatches
  <2>2. CASE q # p
    BY <2>2, <1>r, <1>e, <1>i DEF PristineInv, Matches
  <2>3. QED
    BY <2>1, <2>2
<1>3. InitRecordsAnew'
  BY <1>r, <1>i DEF PristineInv, InitRecordsAnew
<1>4. SweepMeets'
  <2> SUFFICES ASSUME cmd.op \in {"migrate", "update"}, ~cmd.dry, NEW q \in Paths \ touched',
                      Owned(q), rec[q] # Absent, cmd.op = "migrate" \/ q \in todo \ {p}
               PROVE  disk'[q] \in {rec[q], Absent}
    BY <1>r DEF SweepMeets, Owned
  <2>1. q \notin touched => disk[q] \in {rec[q], Absent}
    BY DEF PristineInv, SweepMeets
  <2>2. CASE q # p
    BY <2>1, <2>2, <1>e
  <2>3. CASE q = p
    <3>1. MigrateStep(p)
      BY <2>3 DEF InitStep, SweepStep, RefreshStep, EnableStep, DisableStep
    <3>2. QED
      BY <2>1, <2>3, <3>1, MigrationKeeps
  <2>4. QED
    BY <2>2, <2>3
<1>5. QED
  BY <1>t, <1>r, <1>i, <1>1, <1>2, <1>3, <1>4 DEF PristineInv

(* A command that begins finds the files as the manifest records them.     *)
LEMMA StartPristine ==
  ASSUME PristineInv, Start, ~cmd'.consume
  PROVE  PristineInv'
<1>t. TypeOK'
  BY StartTypes DEF PristineInv
<1>i. cmd = Idle
  BY DEF Start, StartInit, StartUpdate, StartRefresh, StartEnable, StartDisable, Begin
<1>r. rec' = rec /\ Matches(rec)
  BY <1>i DEF Start, StartInit, StartUpdate, StartRefresh, StartEnable, StartDisable, Begin,
     manifest, PristineInv
<1>1. ASSUME NEW force \in BOOLEAN, NEW dry \in DryRuns, NEW consume \in BOOLEAN,
             NEW ms \in SUBSET Modules, StartInit(force, dry, consume, ms)
      PROVE  PristineInv'
  <2>1. ~consume /\ cmd'.op = "init" /\ newRec' = NoRecords
    BY <1>1 DEF StartInit, Begin
  <2>2. \A p \in Paths : disk'[p] = disk[p] /\ (p \in touched' <=> p \in touched)
    BY <1>1, <2>1 DEF StartInit, PristineInv, TypeOK
  <2>3. Matches(rec)' /\ Matches(newRec)'
    BY <2>1, <2>2, <1>r DEF Matches, NoRecords
  <2>4. InitRecordsAnew' /\ SweepMeets'
    BY <2>1, <1>t DEF InitRecordsAnew, SweepMeets, NoRecords, TypeOK
  <2>5. QED
    BY <2>3, <2>4, <1>t DEF PristineInv
<1>2. ASSUME newRec' = rec, UNCHANGED <<disk, touched>>, cmd'.op \notin {"init", "update"}
      PROVE  PristineInv'
  <2>1. Matches(rec)' /\ Matches(newRec)'
    BY <1>2, <1>r DEF Matches
  <2>2. InitRecordsAnew' /\ SweepMeets'
    BY <1>2, <1>r DEF InitRecordsAnew, SweepMeets, Matches
  <2>3. QED
    BY <2>1, <2>2, <1>t DEF PristineInv
<1>3. ASSUME NEW force \in BOOLEAN, NEW dry \in DryRuns, StartUpdate(force, dry)
      PROVE  PristineInv'
  BY <1>3, <1>2 DEF StartUpdate, Begin, Idle
<1>4. ASSUME NEW S \in SUBSET Paths, NEW force \in BOOLEAN, NEW dry \in DryRuns,
             StartRefresh(S, force, dry)
      PROVE  PristineInv'
  BY <1>4, <1>2 DEF StartRefresh, Begin, Idle
<1>5. ASSUME NEW m \in Modules, NEW dry \in DryRuns, StartEnable(m, dry) \/ StartDisable(m, dry)
      PROVE  PristineInv'
  BY <1>5, <1>2 DEF StartEnable, StartDisable, Begin, Idle
<1>6. QED
  BY <1>1, <1>3, <1>4, <1>5 DEF Start

(* A command that ends saves the records that match, or none.              *)
LEMMA FinishPristine ==
  ASSUME PristineInv, Finish
  PROVE  PristineInv'
<1>t. TypeOK'
  BY FinishTypes DEF PristineInv
<1>1. CASE StartSweep
  <2>1. /\ UNCHANGED <<disk, touched, rec, newRec>> /\ cmd.op = "migrate" /\ cmd' # Idle
        /\ cmd'.op = "update" /\ cmd'.dry = cmd.dry /\ cmd'.consume = cmd.consume
        /\ todo' \subseteq Paths
    BY <1>1, <1>t DEF StartSweep, project, manifest, memory, PristineInv, TypeOK, Commands, Idle
  <2>2. cmd # Idle
    BY <2>1 DEF Idle
  <2>3. (cmd'.dry => Matches(rec)') /\ (~cmd'.dry => Matches(newRec)')
    BY <2>1, <2>2 DEF PristineInv, Matches
  <2>4. InitRecordsAnew' /\ SweepMeets'
    BY <2>1 DEF PristineInv, InitRecordsAnew, SweepMeets, Owned
  <2>5. QED
    BY <2>1, <2>3, <2>4, <1>t DEF PristineInv
<1>2. CASE FinishInit \/ FinishUpdate \/ FinishOther
  <2>1. cmd # Idle /\ cmd' = Idle /\ rec' = IF cmd.dry THEN rec ELSE newRec
    BY <1>2 DEF FinishInit, FinishUpdate, FinishOther, SaveManifest, Forgotten, Idle
  <2>2. touched' = touched /\ \A p \in Paths : disk'[p] = disk[p]
    BY <1>2 DEF FinishInit, FinishUpdate, FinishOther, project, PristineInv
  <2>3. Matches(rec)'
    BY <2>1, <2>2 DEF PristineInv, Matches
  <2>4. ~cmd'.consume /\ InitRecordsAnew' /\ SweepMeets'
    BY <2>1 DEF Idle, InitRecordsAnew, SweepMeets
  <2>5. QED
    BY <2>1, <2>3, <2>4, <1>t DEF PristineInv
<1>3. QED
  BY <1>1, <1>2 DEF Finish

(* The invariant is inductive while nothing disturbs the commands.         *)
LEMMA PristineStep ==
  PristineInv /\ [Next]_vars /\ [~Crash /\ ~cmd'.consume]_vars => PristineInv'
<1> SUFFICES ASSUME PristineInv, [Next]_vars, [~Crash /\ ~cmd'.consume]_vars PROVE PristineInv'
  OBVIOUS
<1>t. TypeOK'
  BY TypeStep DEF PristineInv
<1>1. CASE UNCHANGED vars
  BY <1>1, <1>t DEF vars, PristineInv, Matches, InitRecordsAnew, SweepMeets, Owned
<1> SUFFICES ASSUME Next, ~Crash, ~cmd'.consume PROVE PristineInv'
  BY <1>1
<1>2. CASE People
  <2>1. PICK p \in Paths : \E c \in PeopleWrite(p) \cup {Absent} : Edit(p, c)
    BY <1>2 DEF People
  <2>2. /\ UNCHANGED <<cmd, todo, rec, newRec>> /\ touched' = touched \cup {p}
        /\ \A q \in Paths \ {p} : disk'[q] = disk[q]
    BY <2>1 DEF Edit, manifest, memory, PristineInv, TypeOK
  <2>3. (Matches(rec) => Matches(rec)') /\ (Matches(newRec) => Matches(newRec)')
    BY <2>2 DEF Matches
  <2>4. InitRecordsAnew' /\ SweepMeets'
    BY <2>2 DEF PristineInv, InitRecordsAnew, SweepMeets, Owned
  <2>5. QED
    BY <2>2, <2>3, <2>4, <1>t DEF PristineInv
<1>3. CASE NewRelease
  BY <1>3, <1>t DEF NewRelease, project, manifest, memory, PristineInv, Matches, InitRecordsAnew,
     SweepMeets, Owned
<1>4. CASE Start
  BY <1>4, StartPristine
<1>5. CASE Step
  <2>1. PICK p \in todo : InitStep(p) \/ MigrateStep(p) \/ SweepStep(p) \/ RefreshStep(p)
                            \/ EnableStep(p) \/ DisableStep(p)
    BY <1>5 DEF Step
  <2>2. p \in Paths
    BY DEF PristineInv, TypeOK
  <2>3. QED
    BY <2>1, <2>2, StepPristine
<1>6. CASE Finish
  BY <1>6, FinishPristine
<1>7. QED
  BY <1>2, <1>3, <1>4, <1>5, <1>6 DEF Next

(* At first there is no record.                                            *)
LEMMA PristineStarts == Init => PristineInv
  BY InitTypes DEF Init, PristineInv, Matches, NoRecords, Idle, InitRecordsAnew, SweepMeets

(* As long as no command dies and none consumes a checkout, a recorded     *)
(* file that nobody touched is the file the manifest records: no later     *)
(* command takes it for drift.                                             *)
THEOREM PristineRecords == Spec /\ Undisturbed => []PristineMatchesRecord
<1>1. PristineInv => PristineMatchesRecord
  BY DEF PristineInv, Matches, PristineMatchesRecord
<1>2. QED
  BY <1>1, PristineStarts, PristineStep, PTL DEF Spec, Undisturbed

(* The same of the sweep: an owned file that has a record and that nobody  *)
(* touched is brought to the incoming text, whatever else went on.         *)
THEOREM UpgradesUnmodified == Spec /\ Undisturbed => UnmodifiedUpgrades
<1>1. PristineInv /\ [Next]_vars =>
        [\A p \in todo \ touched :
           /\ cmd.op = "update" /\ ~cmd.dry /\ Owned(p) /\ rec[p] # Absent
           /\ cmd' = cmd /\ todo' = todo \ {p}
           => disk'[p] = Template(p, iv)]_vars
  <2> SUFFICES ASSUME PristineInv, Next, NEW p \in todo \ touched,
                      cmd.op = "update", ~cmd.dry, Owned(p), rec[p] # Absent,
                      cmd' = cmd, todo' = todo \ {p}
               PROVE  disk'[p] = Template(p, iv)
    OBVIOUS
  <2>t. disk \in [Paths -> Content] /\ p \in Paths
    BY DEF PristineInv, TypeOK
  <2>i. cmd # Idle
    BY DEF Idle
  <2>1. ~People /\ ~NewRelease /\ ~Start /\ ~Finish /\ ~Crash
    <3>1. ~People /\ ~NewRelease
      BY DEF People, Edit, NewRelease
    <3>2. ~Start
      BY <2>i DEF Start, StartInit, StartUpdate, StartRefresh, StartEnable, StartDisable, Begin
    <3>3. ~Finish /\ ~Crash
      BY <2>i DEF Finish, FinishInit, StartSweep, FinishUpdate, FinishOther, Crash, Forgotten
    <3>4. QED
      BY <3>1, <3>2, <3>3
  <2>2. PICK q \in todo : InitStep(q) \/ MigrateStep(q) \/ SweepStep(q) \/ RefreshStep(q)
                            \/ EnableStep(q) \/ DisableStep(q)
    BY <2>1 DEF Next, Step
  <2>3. SweepStep(q)
    BY <2>2 DEF InitStep, MigrateStep, RefreshStep, EnableStep, DisableStep
  <2>4. q = p
    BY <2>3 DEF SweepStep, Walk
  <2>5. disk[p] \in {rec[p], Absent} /\ ~SweepSkips(p)
    BY <2>t, InstallerAssumption DEF PristineInv, SweepMeets, SweepSkips, Owned
  <2>6. CASE disk[p] = Template(p, iv)
    BY <2>3, <2>4, <2>6, <2>t DEF SweepStep, WriteFile, Park, project
  <2>7. CASE disk[p] # Template(p, iv)
    <3>1. ClassifyDrift(disk[p], rec[p], Template(p, iv), cmd.force) \in {"create", "update-clean"}
      BY <2>5, <2>7 DEF ClassifyDrift
    <3>2. WriteFile(p, Template(p, iv))
      BY <2>3, <2>4, <2>5, <3>1 DEF SweepStep
    <3>3. QED
      BY <3>2, <2>t DEF WriteFile
  <2>8. QED
    BY <2>6, <2>7
<1>2. QED
  BY <1>1, PristineStarts, PristineStep, PTL DEF Spec, Undisturbed, UnmodifiedUpgrades

=============================================================================
