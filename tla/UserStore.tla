------------------------------ MODULE UserStore ------------------------------
(***************************************************************************)
(* What the API promises its users about their notes: each has a store of  *)
(* their own, a call looks at or changes only its caller's store, and the  *)
(* answer tells what happened there between the call and the answer.       *)
(*                                                                         *)
(* Server.tla shows that the server keeps this promise with one table, a   *)
(* pool of shared connections and row level security.                      *)
(***************************************************************************)
CONSTANTS
  Users,  \* people with an account
  Calls,  \* calls that may be open at a time
  Ids     \* notes, numbered from 1

VARIABLES
  store,  \* Users -> their notes
  call    \* Calls -> what was asked for, and how far it is

vars == <<store, call>>

Nobody == "nobody"
NoId   == 0
NoCall == [pc |-> "none", user |-> Nobody, op |-> "none", id |-> NoId, had |-> {},
           seen |-> {}, answer |-> "none"]

Init ==
  /\ store = [u \in Users |-> {}]
  /\ call = [c \in Calls |-> NoCall]

\* A call for one user.  A deletion of everything is about what is there now.
Ask(c, u, op, id) ==
  /\ call[c] = NoCall
  /\ call' = [call EXCEPT ![c] =
                [pc |-> "open", user |-> u, op |-> op, id |-> id,
                 had |-> IF op = "me" THEN store[u] ELSE {}, seen |-> {}, answer |-> "none"]]
  /\ UNCHANGED store

\* What a call may find in its caller's store.
Finds(c) ==
  LET mine == store[call[c].user]
  IN CASE call[c].op = "list"              -> {mine}
       [] call[c].op \in {"get", "delete"} -> {mine \cap {call[c].id}}
       [] call[c].op = "create"            -> {{}}
       [] call[c].op = "me"                -> {S \in SUBSET mine : call[c].had \cap mine \subseteq S}

Look(c) ==
  /\ call[c].pc = "open"
  /\ \E seen \in Finds(c) :
       call' = [call EXCEPT ![c] = [@ EXCEPT !.pc = "looked", !.seen = seen]]
  /\ UNCHANGED store

Deletes(c) == call[c].op \in {"delete", "me"}

\* The effect of a call on its caller's store.  What a deletion found is
\* still there: no other call can have deleted it meanwhile.
Effect(c) ==
  LET u == call[c].user
  IN /\ call[c].pc = "looked"
     /\ Deletes(c) => call[c].seen \subseteq store[u]
     /\ store' = [store EXCEPT ![u] =
                    IF call[c].op = "create" THEN @ \cup {call[c].id}
                    ELSE IF Deletes(c) THEN @ \ call[c].seen
                    ELSE @]

Outcome(c) ==
  IF call[c].op \in {"get", "delete"} /\ call[c].seen = {} THEN "absent" ELSE "ok"

Answers(c, answer) ==
  call' = [call EXCEPT ![c] = [@ EXCEPT !.pc = "answered", !.answer = answer, !.had = {},
                                        !.seen = {}]]

Finish(c) == Effect(c) /\ Answers(c, Outcome(c))

\* An error answer leaves open whether the call took effect.
Fail(c) ==
  /\ call[c].pc \in {"open", "looked"}
  /\ Answers(c, "error")
  /\ Effect(c) \/ UNCHANGED store

\* The caller has the answer.
Done(c) ==
  /\ call[c].pc = "answered"
  /\ call' = [call EXCEPT ![c] = NoCall]
  /\ UNCHANGED store

\* The server goes away: open calls are never answered.
Stop ==
  /\ call' = [c \in Calls |-> NoCall]
  /\ UNCHANGED store

Ops == {"list", "create", "get", "delete", "me"}

Next ==
  \/ \E c \in Calls, u \in Users, op \in Ops, id \in Ids \cup {NoId} : Ask(c, u, op, id)
  \/ \E c \in Calls : Look(c) \/ Finish(c) \/ Fail(c) \/ Done(c)
  \/ Stop

Spec == Init /\ [][Next]_vars
=============================================================================
