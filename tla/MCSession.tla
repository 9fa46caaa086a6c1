----------------------------- MODULE MCSession -----------------------------
(* Two people on one device, a screen's call and an account deletion.        *)
EXTENDS Session

\* The behaviours in which nobody signs in: what is in the store after a
\* sign-out was there before, or a refresh put it there.
NextUnlessSignIn ==
  \/ \E c \in Calls : StartCall(c) \/ CallSteps(c)
  \/ BeginSignOut \/ ConfirmDeletion \/ DeletionAnswered
  \/ \E f \in Flows : DropAccess(f) \/ DropGrant(f)
  \/ Kill
NobodySignsIn == Init /\ [][NextUnlessSignIn]_vars
=============================================================================
