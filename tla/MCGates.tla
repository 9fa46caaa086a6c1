------------------------------ MODULE MCGates -------------------------------
(* The gates of a project, one area of the repository at a time: an initial  *)
(* state names the area that moves, the others stay idle.  The areas share   *)
(* no state, so nothing is lost.                                             *)
EXTENDS MCVersionRamp, Screens, Design, Native, Ratchets, DiffCoverage, Budgets

CONSTANT Areas
VARIABLE area
gvars == <<area, vars, svars, dvars, nvars, rvars, cvars, bvars>>

-----------------------------------------------------------------------------
\* Screens: one screen, two of them, and one beside a chrome file.
HomeFile == <<<<"group", "tabs">>, <<"plain", "index">>>>
NoteFile == <<<<"group", "tabs">>, <<"plain", "note">>>>
SameUrl  == <<<<"plain", "note">>>>
AllRoutes == {HomeFile, NoteFile, SameUrl}
HomeEntry == [id |-> "home", titled |-> TRUE, path |-> <<>>, file |-> HomeFile,
              states |-> <<"a", "b", "c">>]
NoteEntry == [id |-> "note", titled |-> TRUE, path |-> DeriveRoutePath(NoteFile),
              file |-> NoteFile, states |-> <<"d", "null", "f">>]
PossibleEntries == {NoteEntry}
Fresh == OneScreen(HomeFile, HomeEntry)
TwoScreens ==
  [Fresh EXCEPT !.files = {HomeFile, NoteFile}, !.routes = <<HomeEntry, NoteEntry>>,
     !.container[NoteFile] = "note", !.unreachable = {<<"note", 2>>},
     !.flows = {"home", "note"}, !.budget = @ @@ ("note" :> [cold |-> 1, warm |-> 1])]
WithChrome == [Fresh EXCEPT !.files = {HomeFile, NoteFile}, !.chrome = {NoteFile}]
Trees == IF area = "screens" THEN {Fresh, TwoScreens, WithChrome} ELSE {Fresh}

-----------------------------------------------------------------------------
\* Design: two themes of one readable pair.
ListedPairs == {[fg |-> "danger", bg |-> "bg", min |-> 5]}
StyleguideManifest ==
  [tokens |-> {"danger", "bg"},
   themes |-> [th \in Themes |->
                 [t \in {"danger", "bg"} |-> IF (t = "danger") = (th = "light") THEN 0 ELSE 6]],
   contrast |-> Pairs, paired |-> TRUE, sections |-> Sections,
   allow |-> {}, controlAllow |-> {}, statusAllow |-> {}, accentBudget |-> 1]
Scaffolded ==
  [f \in Sources |->
     CASE f = TouchableBase -> {"pressable", "minTarget", "animated"}
       [] f \in Home \ {TouchableBase} -> {"animated"}
       [] f = Seam -> {"animated"}
       [] OTHER -> {"signal", "status", "accent"}]

-----------------------------------------------------------------------------
\* Native: one edit of the scaffold, and two of an app that adopted EAS Update
\* and tracks.
ImpliedKeys == [p \in Plugins |->
  CASE p = "tracker" -> {"tracking"} [] p = "camera" -> {"cam"} [] OTHER -> {}]
Scaffold ==
  [config |-> [bundleId |-> "ours", package |-> "ours", scheme |-> "ours", project |-> "real",
               url |-> Absent, runtime |-> "appVersion", slips |-> {}, origin |-> "https",
               permissions |-> {}, plugins |-> {"router"}, usage |-> <<>>, encryption |-> FALSE,
               privacy |-> Absent, target |-> 0, splash |-> "dark", adaptive |-> "dark"],
   deps |-> [names |-> {}, sdk |-> 57, aligned |-> TRUE],
   lock |-> [id |-> "ours", scheme |-> "ours", project |-> "real"],
   permissionRows |-> <<>>, pluginRows |-> "router" :> TRUE, usageRows |-> <<>>,
   eas |-> [source |-> "local", secret |-> FALSE,
            build |-> "base" :> <<>>
                      @@ "development" :> ("extends" :> "base" @@ "developmentClient" :> "yes")
                      @@ "production" :> ("extends" :> "base" @@ "autoIncrement" :> FALSE)],
   tokens |-> "dark",
   policy |-> [wellFormed |-> TRUE, floor |-> 35, sdkDefaults |-> 57 :> 36,
               nonExemptAllowed |-> FALSE, privacyRows |-> {}, deletion |-> "action",
               escalate |-> FALSE],
   assets |-> [s \in {"icon", "adaptive", "splash"} |-> "flat"], registry |-> TRUE,
   openapi |-> TRUE, sources |-> [secret |-> FALSE, auth |-> TRUE, route |-> FALSE],
   index |-> [tracked |-> FALSE, ignored |-> TRUE], localPlugins |-> "none",
   installed |-> TRUE, wired |-> FALSE]
Adopted ==
  [Scaffold EXCEPT !.config.url = [project |-> "real", exact |-> TRUE],
     !.deps.names = {"expo-updates"}, !.wired = TRUE,
     !.eas.build["production"] = With(@, "channel", "live")]
Tracks ==
  [Adopted EXCEPT !.deps.names = @ \cup {"fbsdk"}, !.config.usage = "tracking" :> "sentence",
     !.usageRows = "tracking" :> TRUE,
     !.config.privacy = [categories |-> {}, tracking |-> TRUE]]
Apps == IF area = "native" THEN {Scaffold, Tracks} ELSE {Scaffold}

-----------------------------------------------------------------------------
\* Ratchets: an accepted survivor behind a like mutant that a test kills.
Mutant(killed) == [text |-> "cond", killed |-> killed]
Critical == [f \in Files |-> IF f = "auth" THEN <<Mutant(TRUE), Mutant(FALSE)>> ELSE <<>>]
BaselineRows == {[file |-> "auth", text |-> "cond", nth |-> 0, reasoned |-> TRUE]}

-----------------------------------------------------------------------------
\* Coverage: a file of the server, one of the app and one at the app's top level,
\* each loaded by either runner; clean, or with one of them edited.
StatementsSeen == [vitest |-> <<1, 2>>, jest |-> <<1, 3>>]
AllTested ==
  [code |-> [f \in CodeFiles |-> 1],
   hits |-> [vitest |-> [f \in CodeFiles |-> {{1}}], jest |-> [f \in CodeFiles |-> {}]]]
WorkTrees ==
  {AllTested} \cup
    IF area = "coverage" THEN {[AllTested EXCEPT !.code[f] = 2] : f \in CodeFiles} ELSE {}

GatesInit ==
  /\ area \in Areas
  /\ Init
  /\ area # "ramp" => content = [g \in Gates |-> "good"] /\ ready = Gates /\ base = 1
  /\ tree \in Trees /\ ScreensInit
  /\ manifest = StyleguideManifest /\ module = Rendered(StyleguideManifest)
  /\ source = Scaffolded /\ DesignInit
  /\ app \in Apps /\ touches = (IF app = Tracks THEN 0 ELSE 1) /\ NativeInit
  /\ code = Critical /\ rows = BaselineRows /\ RatchetsInit
  /\ \E t \in WorkTrees : trees = [p \in Places |-> IF p = "work" THEN t ELSE AllTested]
  /\ CoverageInit
  /\ git = TRUE /\ runners = [vitest |-> "ok", jest |-> "ok", unmeasured |-> {}]
  /\ features = [d \in {"matrix"} |-> [dense |-> {"hook"}, subject |-> TRUE,
                                       rendered |-> Cells, mount |-> 1, update |-> 1]]
  /\ effects = [f \in Effects |-> [registers |-> {"timer"}, body |-> {}, cleanup |-> {"timer"},
                                   returns |-> "last"]]
  /\ budget = [subjects |-> [d \in {"matrix"} |-> [mount |-> 1, update |-> 0, scales |-> TRUE]],
               exempt |-> {}, leakAllow |-> {}]
  /\ BudgetsInit

Ramp ==
  area = "ramp" /\ Next /\ UNCHANGED <<area, svars, dvars, nvars, rvars, cvars, bvars>>
AScreen ==
  area = "screens" /\ ScreensNext /\ UNCHANGED <<area, vars, dvars, nvars, rvars, cvars, bvars>>
ADesign ==
  area = "design" /\ DesignNext /\ UNCHANGED <<area, vars, svars, nvars, rvars, cvars, bvars>>
ANative ==
  area = "native" /\ NativeNext /\ UNCHANGED <<area, vars, svars, dvars, rvars, cvars, bvars>>
ARatchet ==
  area = "ratchets" /\ RatchetsNext /\ UNCHANGED <<area, vars, svars, dvars, nvars, cvars, bvars>>
ACoverage ==
  area = "coverage" /\ CoverageNext /\ UNCHANGED <<area, vars, svars, dvars, nvars, rvars, bvars>>
ABudget ==
  area = "budgets" /\ BudgetsNext /\ UNCHANGED <<area, vars, svars, dvars, nvars, rvars, cvars>>

GatesNext == Ramp \/ AScreen \/ ADesign \/ ANative \/ ARatchet \/ ACoverage \/ ABudget
GatesSpec == GatesInit /\ [][GatesNext]_gvars

=============================================================================
