------------------------------ MODULE GateChain ------------------------------
(***************************************************************************)
(* What `node tools/validate.mjs' promises to the Stop hook and to CI: the *)
(* resolved steps are judged, a red step stops the chain unless every red  *)
(* is asked for, and the exit code says whether all of them were green.    *)
(* How steps are run, alone or in a pool, is no part of the promise.       *)
(***************************************************************************)
EXTENDS Naturals, Sequences

CONSTANT Step   \* [name, command] pairs

VARIABLES
  steps,      \* the resolved chain
  reportAll,  \* --report-all: judge every step, whatever the others say
  verdict,    \* step index -> "none", "green" or "red"
  exit        \* "none" while it runs, then "green" (0) or "red" (1)

vars == <<steps, reportAll, verdict, exit>>

\* An unreadable floor is refused before any step is judged.
Init ==
  /\ steps \in Seq(Step)
  /\ reportAll \in BOOLEAN
  /\ verdict = [k \in DOMAIN steps |-> "none"]
  /\ exit = "none" \/ (exit = "red" /\ steps = <<>>)

Judge(k) ==
  /\ exit = "none" /\ verdict[k] = "none"
  /\ ~reportAll => \A j \in 1..(k - 1) : verdict[j] = "green"
  /\ \E v \in {"green", "red"} : verdict' = [verdict EXCEPT ![k] = v]
  /\ UNCHANGED <<steps, reportAll, exit>>

Red   == \E k \in DOMAIN steps : verdict[k] = "red"
Green == \A k \in DOMAIN steps : verdict[k] = "green"

Exit ==
  /\ exit = "none"
  /\ \/ Green /\ exit' = "green"
     \/ /\ Red /\ exit' = "red"
        /\ reportAll => \A k \in DOMAIN steps : verdict[k] # "none"
  /\ UNCHANGED <<steps, reportAll, verdict>>

Next == Exit \/ \E k \in DOMAIN steps : Judge(k)

Spec == Init /\ [][Next]_vars /\ WF_vars(Next)
=============================================================================
