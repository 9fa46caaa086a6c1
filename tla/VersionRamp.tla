----------------------------- MODULE VersionRamp -----------------------------
(***************************************************************************)
(* How a check that is new in a release reaches an installed project: the  *)
(* version ramp (rampNote), the stamps that let a gate skip unchanged      *)
(* inputs (stampGate), the loud skip (skipOrFail), `update', which brings  *)
(* new gate scripts, and `graduate', which makes ramped checks fatal.      *)
(*                                                                         *)
(* The shared helpers are those of tools/lib/gate.mjs; a gate that uses    *)
(* all of them has the shape of tools/check-licenses.mjs.                  *)
(***************************************************************************)
EXTENDS Naturals, Sequences

CONSTANTS
  Gates,      \* names of gates
  Chain,      \* the gates in the order validate runs them
  Stamped,    \* gates that call stampGate
  Contents,   \* what the declared inputs of a gate may hold
  Checks,     \* what gates check
  GateOf,     \* Checks -> Gates
  LiveFrom,   \* Checks -> the release that brought the check
  Violates,   \* Checks -> the contents that do not pass it
  Static,     \* checks a gate makes before it asks for its prerequisite
  MaxVersion, \* releases are 1..MaxVersion
  MaxEdits    \* bound: what people change

Versions == 1..MaxVersion
NoStamp == "no stamp"

ASSUME RampAssumption ==
  /\ MaxVersion \in Nat \ {0} /\ MaxEdits \in Nat
  /\ Chain \in Seq(Gates) /\ Stamped \subseteq Gates
  /\ GateOf \in [Checks -> Gates] /\ LiveFrom \in [Checks -> Versions]
  /\ Violates \in [Checks -> SUBSET Contents]
  /\ NoStamp \notin Contents
  /\ Static \subseteq Checks
  /\ \A c \in Checks : LiveFrom[c] > 1 => c \in Static

VARIABLES
  content,  \* Gates -> what the gate's declared inputs hold now
  ready,    \* gates whose prerequisite (an install, a CLI) is there
  tools,    \* the release the gate scripts on disk come from
  hv,       \* manifest.harnessVersion
  base,     \* manifest.baseVersion, 0 when the manifest has no such field
  iv,       \* the release of the installer at hand
  stamp,    \* Gates -> the content .harness/<gate>.ok is the digest of
  run,      \* the validate run under way
  seen,     \* digest the running gate took of its inputs, NoStamp before
  edited,   \* history: gates whose inputs changed during this run
  edits     \* counter for the bound

install == <<tools, hv, base, iv>>
vars == <<content, ready, tools, hv, base, iv, stamp, run, seen, edited, edits>>

NoRun == [by |-> "none", at |-> 1, red |-> FALSE, noted |-> FALSE]

Init ==
  /\ content \in [Gates -> Contents] /\ ready \in SUBSET Gates
  /\ tools = 1 /\ hv = 1 /\ iv = 1
  /\ base \in {0, 1}
  /\ stamp = [g \in Gates |-> NoStamp]
  /\ run = NoRun /\ seen = NoStamp /\ edited = {} /\ edits = 0

-----------------------------------------------------------------------------
(***************************************************************************)
(* People and releases.                                                    *)
(***************************************************************************)
Edit(g) ==
  /\ edits < MaxEdits /\ edits' = edits + 1
  /\ \/ content' \in {[content EXCEPT ![g] = c] : c \in Contents} /\ UNCHANGED ready
     \/ ready' \in {ready \cup {g}, ready \ {g}} /\ UNCHANGED content
  /\ edited' = edited \cup {g}
  /\ UNCHANGED <<install, stamp, run, seen>>

NewRelease ==
  /\ iv < MaxVersion
  /\ iv' = iv + 1
  /\ UNCHANGED <<content, ready, tools, hv, base, stamp, run, seen, edited, edits>>

\* The manifest's vintage: older manifests have only harnessVersion.
Base == IF base = 0 THEN hv ELSE base

\* Wrong: a manifest without baseVersion stays without one.
WrongUpdate ==
  /\ run = NoRun
  /\ tools' = iv /\ hv' = iv /\ base' = base
  /\ UNCHANGED <<content, ready, iv, stamp, run, seen, edited, edits>>

\* `update' to its end: new scripts, and the vintage of the seeded content
\* kept.  (Installer.tla has its steps.)
Update ==
  /\ run = NoRun
  /\ tools' = iv /\ hv' = iv /\ base' = Base
  /\ UNCHANGED <<content, ready, iv, stamp, run, seen, edited, edits>>

-----------------------------------------------------------------------------
(***************************************************************************)
(* A run of validate: by the Stop hook, in CI, or by graduate.             *)
(***************************************************************************)
StartValidate(by) ==
  /\ run = NoRun
  /\ run' = [NoRun EXCEPT !.by = by] /\ edited' = {}
  /\ UNCHANGED <<content, ready, install, stamp, seen, edits>>

\* graduate with nothing to graduate changes nothing.
StartGraduate == Base < iv /\ StartValidate("graduate")

Running == run.by # "none" /\ run.at <= Len(Chain)
Gate == Chain[run.at]
InCI == run.by = "ci"

\* Findings of the scripts on disk, and those the ramp does not withhold.
Found(g) == {c \in Checks : GateOf[c] = g /\ LiveFrom[c] <= tools /\ content[g] \in Violates[c]}
Live(g)  == {c \in Found(g) : Base >= LiveFrom[c]}

\* The gate exits.  Only the Stop hook's --report-all goes on after a red.
GateDone(red, noted) ==
  /\ run' = [run EXCEPT !.at = IF red /\ run.by # "local" THEN Len(Chain) + 1 ELSE @ + 1,
                        !.red = @ \/ red, !.noted = @ \/ noted]
  /\ seen' = NoStamp

\* Wrong: the stamp is honoured in CI too.
WrongWarm == Gate \in Stamped /\ stamp[Gate] = content[Gate]
Warm == Gate \in Stamped /\ ~InCI /\ stamp[Gate] = content[Gate]

\* stampGate: the digest is taken first; a warm stamp ends the gate at once.
HashInputs ==
  /\ Running /\ seen = NoStamp
  /\ \/ Warm /\ GateDone(FALSE, FALSE)
     \/ ~Warm /\ seen' = content[Gate] /\ UNCHANGED run
  /\ UNCHANGED <<content, ready, install, stamp, edited, edits>>

\* What the gate reports once it has hashed: findings of the static checks,
\* then the skip, then the rest; recordGreen only when all of it was run.
CheckInputs ==
  /\ Running /\ seen # NoStamp
  /\ LET noted == \E c \in Found(Gate) : c \notin Live(Gate)
         red   == \/ Live(Gate) \cap Static # {}
                  \/ Gate \in ready /\ Live(Gate) # {}
                  \/ Gate \notin ready /\ InCI
     IN /\ GateDone(red, noted)
        /\ stamp' = IF Gate \in Stamped /\ Gate \in ready /\ ~red
                    THEN [stamp EXCEPT ![Gate] = seen] ELSE stamp
  /\ UNCHANGED <<content, ready, install, edited, edits>>

RunEnds == run.by # "none" /\ run.at > Len(Chain) /\ run' = NoRun

EndValidate ==
  /\ run.by # "graduate" /\ RunEnds
  /\ UNCHANGED <<content, ready, install, stamp, seen, edited, edits>>

\* Wrong: only the exit code of validate is looked at.
WrongEndGraduate ==
  /\ run.by = "graduate" /\ RunEnds
  /\ base' = IF run.red THEN base ELSE iv
  /\ UNCHANGED <<content, ready, tools, hv, iv, stamp, seen, edited, edits>>

\* Advance only when validate is green and printed no ramp NOTE.
EndGraduate ==
  /\ run.by = "graduate" /\ RunEnds
  /\ base' = IF run.red \/ run.noted THEN base ELSE iv
  /\ UNCHANGED <<content, ready, tools, hv, iv, stamp, seen, edited, edits>>

Next ==
  \/ \E g \in Gates : Edit(g)
  \/ NewRelease \/ Update
  \/ \E by \in {"local", "ci"} : StartValidate(by)
  \/ StartGraduate \/ HashInputs \/ CheckInputs \/ EndValidate \/ EndGraduate

Spec == Init /\ [][Next]_vars

-----------------------------------------------------------------------------
(***************************************************************************)
(* Properties.                                                             *)
(***************************************************************************)
\* Every variable holds a value of its kind.
TypeOK ==
  /\ content \in [Gates -> Contents] /\ ready \subseteq Gates
  /\ tools \in Versions /\ hv \in Versions /\ iv \in Versions
  /\ base \in 0..MaxVersion
  /\ stamp \in [Gates -> Contents \cup {NoStamp}]
  /\ seen \in Contents \cup {NoStamp}
  /\ run \in [by : {"none", "local", "ci", "graduate"}, at : 1..(Len(Chain) + 1),
              red : BOOLEAN, noted : BOOLEAN]
  /\ edited \subseteq Gates /\ edits \in Nat

ChainDone(by) == run.by = by /\ run.at > Len(Chain)

\* A green CI run is a real one: every gate whose inputs stood still had its
\* prerequisite and has no finding that is live, whatever stamps there are.
CITruth ==
  ChainDone("ci") /\ ~run.red =>
    \A j \in DOMAIN Chain : Chain[j] \notin edited => Chain[j] \in ready /\ Live(Chain[j]) = {}

\* graduate advances the vintage only when the static checks of the gates that
\* really ran, ramped ones included, have nothing left to report.
GraduateSweeps ==
  [][base' # base /\ ChainDone("graduate") =>
       \A j \in DOMAIN Chain :
         Chain[j] \notin edited \cup Stamped => Found(Chain[j]) \cap Static = {}]_vars

\* gate.mjs:66-67, "gates never ambush an update": for a project whose vintage
\* is not ahead of its scripts, an update turns no gate red that was not.
UpdatesDoNotAmbush ==
  [][tools' # tools /\ Base <= hv =>
       \A g \in Gates : Live(g)' # {} => Live(g) # {}]_vars

=============================================================================
