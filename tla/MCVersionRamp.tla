--------------------------- MODULE MCVersionRamp ---------------------------
(* Two gates: one with everything check-licenses.mjs has, one that neither   *)
(* stamps nor skips, as check-duplication.mjs.                               *)
EXTENDS VersionRamp

TwoGates == <<"licenses", "duplication">>
GateOfCheck == [tree |-> "licenses", citation |-> "licenses", clones |-> "duplication"]
Introduced == [tree |-> 1, citation |-> 2, clones |-> 2]
Violating == [tree |-> {"bad"}, citation |-> {"old"}, clones |-> {"bad", "old"}]
=============================================================================
