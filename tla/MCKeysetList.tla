---------------------------- MODULE MCKeysetList ----------------------------
(* The two long reads of the mobile app, which share nothing: pages of one   *)
(* of a few notes, two requests of loadMore at a time; or a stream, over a   *)
(* small alphabet.  A fair behaviour is one of the list.                     *)
EXTENDS KeysetList, Sse

VARIABLE area

LineEndings == {"cr", "lf", "bom", "data", "x"}
Ids         == {"lf", "data", "id", "nul", "x"}
Types       == {"lf", "data", "event", "retry", "space", "comment", "0"}
SmallAlphabets == {LineEndings, Ids, Types}

ReadsInit ==
  /\ area \in {"list", "stream"}
  /\ Init /\ StreamInit
  /\ area = "list" => alphabet = LineEndings
  /\ area = "stream" => created = 0

List   == area = "list" /\ Next /\ UNCHANGED <<area, streamVars>>
Stream == area = "stream" /\ StreamNext /\ UNCHANGED <<area, vars>>

ReadsSpec == ReadsInit /\ [][List \/ Stream]_<<area, vars, streamVars>> /\ Fairness
=============================================================================
