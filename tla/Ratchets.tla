------------------------------ MODULE Ratchets -------------------------------
(***************************************************************************)
(* The two ratchets a pull request meets: the surviving mutants on record  *)
(* (mutation-scope, check-mutation-ratchet) and the vintage that may only  *)
(* rise (check-gate-integrity).                                            *)
(*                                                                         *)
(* A file of the critical surface is the sequence of its mutants in source *)
(* order: the text of each (mutator, source and replacement) and whether   *)
(* some test kills it.                                                     *)
(***************************************************************************)
EXTENDS Naturals, FiniteSets, SequencesExt, TreeEdits

CONSTANTS
  Files,       \* files of the critical surface
  Texts,       \* texts mutants may have
  MaxMutants,  \* bound: mutants of a file
  MaxVintage,  \* bound: vintages
  MaxSteps     \* bound: changes by people

ASSUME RatchetsAssumption == IsFiniteSet(Files)

VARIABLES
  code,      \* Files -> mutants, on the branch
  rows,      \* mutation-baseline.json: [file, text, nth, reasoned]
  vintage,   \* baseVersion on the branch
  report,    \* the last local mutation report: its files -> mutants
  main,      \* main: its code and the vintages of its history, newest first
  judged,    \* the last verdict on the branch, and its files
  steps      \* changes so far
rvars == <<code, rows, vintage, report, main, judged, steps>>

Mutants == [text : Texts, killed : BOOLEAN]
Unjudged == [verdict |-> "none", scope |-> {}]

-----------------------------------------------------------------------------
(***************************************************************************)
(* check-mutation-ratchet.                                                 *)
(***************************************************************************)
Survives(ms, i) == ~ms[i].killed

\* Wrong: siblings of one text are one mutant.
WrongNth(ms, i) == 0
\* The occurrence index of a survivor, among the survivors of its text.
Nth(ms, i) == Cardinality({j \in 1..i-1 : Survives(ms, j) /\ ms[j].text = ms[i].text})

Id(f, ms, i) == [file |-> f, text |-> ms[i].text, nth |-> Nth(ms, i)]
Survivors(rep) ==
  UNION {{Id(f, rep[f], i) : i \in {j \in DOMAIN rep[f] : Survives(rep[f], j)}} : f \in DOMAIN rep}
IdOf(row) == [file |-> row.file, text |-> row.text, nth |-> row.nth]
Accepted == {IdOf(row) : row \in rows}
HasReason(id) == \E row \in rows : IdOf(row) = id /\ row.reasoned

\* A report without files has nothing to say; otherwise every row needs a
\* reason, those of other files too, and every survivor a row.
RatchetHolds(rep) ==
  \/ DOMAIN rep = {}
  \/ (\A row \in rows : row.reasoned) /\ Survivors(rep) \subseteq Accepted

\* --write: the rows of the files reported are those found, with the reasons
\* on record for the same id; the rows of other files stay.
Written(rep) ==
  {row \in rows : row.file \notin DOMAIN rep} \cup
  {[file |-> id.file, text |-> id.text, nth |-> id.nth, reasoned |-> HasReason(id)] : id \in Survivors(rep)}

-----------------------------------------------------------------------------
(***************************************************************************)
(* check-gate-integrity: each vintage of the manifest's history is compared *)
(* with the one after it.                                                  *)
(***************************************************************************)
NeverBack(now, past) ==
  LET all == <<now>> \o past
  IN \A k \in 1..Len(all)-1 : all[k] >= all[k+1]

-----------------------------------------------------------------------------
(***************************************************************************)
(* People and lanes.                                                       *)
(***************************************************************************)
SourceOf(ms) == [i \in DOMAIN ms |-> ms[i].text]
ChangedFiles == {f \in Files : SourceOf(code[f]) # SourceOf(main.code[f])}
Stepped == steps < MaxSteps /\ steps' = steps + 1 /\ judged' = Unjudged

\* A statement comes or goes; a test is strengthened or weakened.
EditCode ==
  /\ Stepped
  /\ \E f \in Files :
       \/ \E i \in 1..Len(code[f])+1, m \in Mutants :
            Len(code[f]) < MaxMutants /\ code' = [code EXCEPT ![f] = InsertAt(@, i, m)]
       \/ \E i \in DOMAIN code[f] : code' = [code EXCEPT ![f] = RemoveAt(@, i)]
       \/ \E i \in DOMAIN code[f] : code' = [code EXCEPT ![f][i].killed = ~@]
  /\ UNCHANGED <<rows, vintage, report, main>>

\* A reason is written down, or a row deleted.
EditRows ==
  /\ Stepped
  /\ \E row \in rows :
       \/ ~row.reasoned /\ rows' = (rows \ {row}) \cup {[row EXCEPT !.reasoned = TRUE]}
       \/ rows' = rows \ {row}
  /\ UNCHANGED <<code, vintage, report, main>>

EditVintage ==
  /\ Stepped /\ \E v \in 1..MaxVintage : v # vintage /\ vintage' = v
  /\ UNCHANGED <<code, rows, report, main>>

\* pnpm mutation, or of the files changed only: the report stays on disk.
MutateLocally ==
  /\ \E scope \in {Files, ChangedFiles} : report' = [f \in scope |-> code[f]]
  /\ report' # report
  /\ UNCHANGED <<code, rows, vintage, main, judged, steps>>

WriteBaseline ==
  /\ rows' = Written(report) /\ rows' # rows
  /\ judged' = Unjudged /\ UNCHANGED <<code, vintage, report, main, steps>>

\* In CI the report is of this commit: of the files the pull request changed,
\* or at night of all of them.
Judge(scope) ==
  /\ judged = Unjudged
  /\ judged' = [scope |-> scope,
              verdict |-> IF /\ RatchetHolds([f \in scope |-> code[f]])
                             /\ NeverBack(vintage, main.vintages)
                          THEN "green" ELSE "red"]
  /\ UNCHANGED <<code, rows, vintage, report, main, steps>>
PullRequestLane == Judge(ChangedFiles)
NightlyLane == Judge(Files)

Merge ==
  /\ judged.verdict = "green"
  /\ main.code # code \/ Head(main.vintages) # vintage
  /\ main' = [code |-> code,
              vintages |-> IF vintage = Head(main.vintages) THEN main.vintages
                           ELSE <<vintage>> \o main.vintages]
  /\ judged' = Unjudged
  /\ UNCHANGED <<code, rows, vintage, report, steps>>

\* A branch that has just left a main of one vintage.
RatchetsInit ==
  /\ code \in [Files -> Seq(Mutants)] /\ IsFiniteSet(rows) /\ vintage = 1
  /\ report = <<>> /\ main = [code |-> code, vintages |-> <<1>>]
  /\ judged = Unjudged /\ steps = 0

RatchetsNext ==
  \/ EditCode \/ EditRows \/ EditVintage \/ MutateLocally \/ WriteBaseline
  \/ PullRequestLane \/ NightlyLane \/ Merge

RatchetsSpec == RatchetsInit /\ [][RatchetsNext]_rvars

-----------------------------------------------------------------------------
(***************************************************************************)
(* Properties.                                                             *)
(***************************************************************************)
\* check-mutation-ratchet.mjs:8-18, check-gate-integrity.mjs:115-120: in a file
\* a green lane looked at, no text survives more often than rows give a reason
\* for it, whatever reports they were written from; and no vintage that was
\* ever merged is above the one now. (Which of two like mutants a reason was
\* written for is not kept: an index moves when a sibling is killed.)
SurvivorsAccounted ==
  judged.verdict = "green" =>
    /\ \A f \in judged.scope, text \in Texts :
         Cardinality({i \in DOMAIN code[f] : code[f][i].text = text /\ Survives(code[f], i)})
           <= Cardinality({row \in rows : row.file = f /\ row.text = text /\ row.reasoned})
    /\ \A k \in DOMAIN main.vintages : main.vintages[k] <= vintage

=============================================================================
