------------------------------ MODULE TreeEdits ------------------------------
(* How the facts of a working tree change: a member of a set comes or goes,  *)
(* a key of a function is set or removed.                                    *)

Toggled(S, x) == IF x \in S THEN S \ {x} ELSE S \cup {x}
With(f, x, v) == [y \in DOMAIN f \cup {x} |-> IF y = x THEN v ELSE f[y]]
Less(f, x)    == [y \in DOMAIN f \ {x} |-> f[y]]

=============================================================================
