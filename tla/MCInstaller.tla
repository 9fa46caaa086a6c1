----------------------------- MODULE MCInstaller -----------------------------
(* Small projects for TLC: each definition is the value of a CONSTANT of     *)
(* Installer in the .cfg files.                                              *)
EXTENDS Installer

Row(tree, md, rf) ==
  [tree |-> tree, mode |-> md, retrofit |-> rf, additive |-> FALSE,
   initOnly |-> FALSE, dir |-> "other"]

\* One row per kind of path the installer tells apart.
AllRows ==
  [ pkg       |-> Row("base", "seeded", "package"),
    workspace |-> Row("base", "seeded", "workspace"),
    gitignore |-> Row("base", "seeded", "gitignore"),
    settings  |-> Row("base", "owned", "settings"),
    gate      |-> Row("base", "owned", "park"),
    config    |-> Row("base", "config", "park"),
    workflow  |-> [Row("base", "owned", "park") EXCEPT !.dir = "github"],
    exemplar  |-> [Row("stack", "seeded", "park") EXCEPT !.initOnly = TRUE],
    modfile   |-> Row("m", "owned", "park") ]

LayoutOf == [p \in Paths |-> AllRows[p]]

\* `gate' goes in the last of several releases.
RemovedLast ==
  [v \in 1..MaxVersion |-> IF v > 1 /\ v = MaxVersion THEN Paths \cap {"gate"} ELSE {}]
Shipped == [v \in 1..MaxVersion |-> Paths \ RemovedLast[v]]
NonePromoted == [v \in 1..MaxVersion |-> {}]
PromotedIn2 == [v \in 1..MaxVersion |-> IF v = 2 THEN Modules ELSE {}]
=============================================================================
