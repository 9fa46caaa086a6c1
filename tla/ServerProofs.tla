----------------------------- MODULE ServerProofs -----------------------------
(***************************************************************************)
(* Proofs about Server, for every set of people, requests handled at a     *)
(* time, connections of the pool, notes and inputs.                        *)
(***************************************************************************)
EXTENDS Server, SequenceTheorems, TLAPS

-----------------------------------------------------------------------------
(***************************************************************************)
(* The invariant.                                                          *)
(***************************************************************************)
RequestState ==
  [pc : {"idle", "verifying", "queued", "streaming", "answered"} \cup OnConnection,
   in : Inputs \cup {NoInput}, conn : Conns \cup {NoConn},
   seen : SUBSET Ids, had : SUBSET Ids, ticks : 0..SSE_DEMO_TICKS,
   status : Nat, gone : BOOLEAN]

\* A request has a connection exactly while its transaction is open, one
\* that is nobody's until set_config has run and its user's from then on.
Placed(r) ==
  /\ req[r].pc \in OnConnection <=> req[r].conn # NoConn
  /\ req[r].pc = "begun" => user[req[r].conn] = Nobody
  /\ req[r].pc \in OnConnection \ {"begun"} => user[req[r].conn] = req[r].in.token

\* What the guards have let in so far, and what they answer strangers.
Guarded(r) ==
  /\ req[r].pc = "verifying" => req[r].in.route \in ApiRoutes /\ ~req[r].in.skewed
  /\ req[r].pc \in OnConnection \cup {"queued", "streaming"} => req[r].in.token # Nobody
  /\ req[r].pc = "answered" /\ req[r].in.route \in ApiRoutes /\ req[r].in.token = Nobody
     => req[r].status = IF req[r].in.skewed THEN 409 ELSE 401

\* While the pool is being closed, nobody who is still there is served.
Served(r) == proc = "closing" => req[r].pc = "idle" \/ req[r].gone

\* No two transactions share a connection.
Apart ==
  \A q, r \in Slots : req[q].conn # NoConn /\ req[q].conn = req[r].conn => q = r

\* A connection in the pool has no user.
PoolIsClean == \A c \in Conns : user[c] # Nobody => Busy(c)

\* The queue holds requests that wait, each of them once.
QueueWaits ==
  /\ \A i \in 1..Len(queue) : req[queue[i]].pc = "queued"
  /\ \A i, j \in 1..Len(queue) : queue[i] = queue[j] => i = j

IInv ==
  /\ TypeOK /\ Apart /\ PoolIsClean /\ QueueWaits
  /\ \A r \in Slots : Placed(r) /\ Guarded(r) /\ Served(r)

-----------------------------------------------------------------------------
(* The sets the invariant speaks of.                                       *)
LEMMA Kinds ==
  /\ NoConn \notin Conns /\ NoRequest \in RequestState /\ Nobody \notin Users
  /\ \A in \in Inputs \cup {NoInput} : in.token \in Users \cup {Nobody}
BY ServerAssumption DEF NoConn, NoRequest, RequestState, NoInput, OnConnection, Input, SSE_DEMO_TICKS

(* A step that moves one request keeps the invariant when the request is   *)
(* well placed and guarded after it, on no connection but its own or one   *)
(* that was free, and the step clears the user of no other connection.     *)
LEMMA OneRequest ==
  ASSUME IInv, NEW r \in Slots, NEW new \in RequestState,
         req' = [req EXCEPT ![r] = new],
         Placed(r)', Guarded(r)', QueueWaits', queue' \in Seq(Slots),
         new.conn \in {NoConn, req[r].conn} \/ ~Busy(new.conn),
         user' \in [Conns -> Users \cup {Nobody}],
         \A c \in Conns : c # req[r].conn => user'[c] = user[c],
         new.conn # req[r].conn /\ req[r].conn # NoConn => user'[req[r].conn] = Nobody,
         proc' = proc,
         \/ proc = "up" \/ new.pc = "idle" \/ new.gone
         \/ req[r].pc # "idle" /\ new.gone = req[r].gone,
         exitCode' \in {0, 1, 137},
         row' \in [Ids -> Users \cup {Nobody}], unused' \subseteq Ids
  PROVE  IInv'
<1>1. req \in [Slots -> RequestState]
  BY DEF IInv, TypeOK, RequestState
<1>2. req' \in [Slots -> RequestState] /\ req'[r] = new /\ \A q \in Slots \ {r} : req'[q] = req[q]
  BY <1>1
<1>3. TypeOK'
  BY <1>2 DEF IInv, TypeOK, RequestState
<1>4. Apart'
  BY <1>1, <1>2 DEF IInv, Apart, Busy
<1>5. \A q \in Slots \ {r} : Guarded(q)'
  BY <1>2 DEF IInv, Guarded
<1>6. \A q \in Slots \ {r} : Placed(q)'
  <2> SUFFICES ASSUME NEW q \in Slots \ {r} PROVE Placed(q)'
    OBVIOUS
  <2>1. req'[q] = req[q] /\ Placed(q)
    BY <1>2 DEF IInv
  <2>2. CASE req[q].conn = NoConn
    BY <2>1, <2>2 DEF Placed, OnConnection
  <2>3. CASE req[q].conn # NoConn
    <3>1. req[q].conn \in Conns /\ req[q].conn # req[r].conn
      BY <1>1, <2>3 DEF IInv, Apart, RequestState
    <3>2. user'[req[q].conn] = user[req[q].conn]
      BY <3>1
    <3>3. QED
      BY <2>1, <3>2 DEF Placed
  <2>4. QED
    BY <2>2, <2>3
<1>7. PoolIsClean'
  <2> SUFFICES ASSUME NEW c \in Conns, user'[c] # Nobody PROVE Busy(c)'
    BY DEF PoolIsClean
  <2>1. CASE c = req[r].conn
    <3>1. new.conn = c
      BY <2>1, Kinds
    <3>2. QED
      BY <1>2, <3>1 DEF Busy
  <2>2. CASE c # req[r].conn
    <3>1. PICK q \in Slots : req[q].conn = c
      BY <2>2 DEF IInv, PoolIsClean, Busy
    <3>2. q # r
      BY <2>2, <3>1
    <3>3. QED
      BY <1>2, <3>1, <3>2 DEF Busy
  <2>3. QED
    BY <2>1, <2>2
<1>8. \A q \in Slots : Served(q)'
  BY <1>2 DEF IInv, Served
<1>9. QED
  BY <1>3, <1>4, <1>5, <1>6, <1>7, <1>8 DEF IInv

(* The queue is as it was when a request that does not wait moves.         *)
LEMMA QueueStays ==
  ASSUME IInv, NEW r \in Slots, req[r].pc # "queued", queue' = queue,
         NEW new \in RequestState, req' = [req EXCEPT ![r] = new]
  PROVE  QueueWaits' /\ queue' \in Seq(Slots)
<1>1. queue \in Seq(Slots) /\ req \in [Slots -> RequestState]
  BY DEF IInv, TypeOK, RequestState
<1>2. \A i \in 1..Len(queue) : queue[i] \in Slots /\ queue[i] # r
  BY <1>1 DEF IInv, QueueWaits
<1>3. QED
  BY <1>1, <1>2 DEF IInv, QueueWaits

(* The first of the queue leaves it.                                       *)
LEMMA QueueMoves ==
  ASSUME IInv, NEW r \in Slots, queue # <<>>, Head(queue) = r, queue' = Tail(queue),
         NEW new \in RequestState, req' = [req EXCEPT ![r] = new]
  PROVE  QueueWaits' /\ queue' \in Seq(Slots) /\ req[r].pc = "queued"
<1>1. queue \in Seq(Slots) /\ req \in [Slots -> RequestState]
  BY DEF IInv, TypeOK, RequestState
<1>2. /\ Tail(queue) \in Seq(Slots) /\ Len(Tail(queue)) = Len(queue) - 1 /\ Len(queue) \in Nat \ {0}
      /\ \A i \in 1..Len(queue) - 1 : Tail(queue)[i] = queue[i + 1]
      /\ queue[1] = r
  BY <1>1
<1>3. \A i \in 1..Len(queue) - 1 : queue[i + 1] # r /\ queue[i + 1] \in Slots
  BY <1>1, <1>2 DEF IInv, QueueWaits
<1>4. \A i \in 1..Len(queue') : req'[queue'[i]].pc = "queued"
  BY <1>1, <1>2, <1>3 DEF IInv, QueueWaits
<1>5. \A i, j \in 1..Len(queue') : queue'[i] = queue'[j] => i = j
  BY <1>1, <1>2 DEF IInv, QueueWaits
<1>6. req[r].pc = "queued"
  BY <1>2 DEF IInv, QueueWaits
<1>7. QED
  BY <1>2, <1>4, <1>5, <1>6 DEF QueueWaits

(* A server that has just started.                                         *)
LEMMA InitIInv == Init => IInv
<1> SUFFICES ASSUME Init PROVE IInv
  OBVIOUS
<1>1. req = [r \in Slots |-> NoRequest] /\ queue = <<>> /\ user = [c \in Conns |-> Nobody]
  BY DEF Init
<1>2. TypeOK
  BY <1>1, Kinds DEF Init, TypeOK, RequestState
<1>3. Apart /\ PoolIsClean
  BY <1>1 DEF Apart, PoolIsClean, NoRequest
<1>4. QueueWaits
  BY <1>1 DEF QueueWaits
<1>5. \A r \in Slots : Placed(r) /\ Guarded(r) /\ Served(r)
  BY <1>1 DEF Placed, Guarded, Served, NoRequest, OnConnection
<1>6. QED
  BY <1>2, <1>3, <1>4, <1>5 DEF IInv

(* A request arrives.                                                      *)
LEMMA ArriveIInv ==
  ASSUME IInv, NEW r \in Slots, NEW in \in Inputs, Arrive(r, in)
  PROVE  IInv'
<1> DEFINE status == FirstStatus(in)
           new    == [NoRequest EXCEPT !.in = in, !.status = status,
                        !.pc = IF status = 0 THEN "verifying" ELSE "answered"]
<1>1. /\ req' = [req EXCEPT ![r] = new] /\ proc = "up" /\ req[r].pc = "idle" /\ unused' \subseteq unused
      /\ UNCHANGED <<proc, exitCode, queue, user, row>>
  BY DEF Arrive
<1>2. in.route \in ApiRoutes \cup OpenRoutes /\ in.skewed \in BOOLEAN
  BY ServerAssumption DEF Input
<1>3. status \in Nat
  BY DEF FirstStatus
<1>4. new \in RequestState /\ new.conn = NoConn /\ new.in = in /\ new.status = status
      /\ new.pc = IF status = 0 THEN "verifying" ELSE "answered"
  BY <1>3, Kinds DEF RequestState, NoRequest
<1>5. in.route \in ApiRoutes => status = IF in.skewed THEN 409 ELSE 0
  BY <1>2 DEF FirstStatus, ApiRoutes, DataRoutes
<1>6. status = 0 => in.route \in ApiRoutes
  BY <1>2 DEF FirstStatus, OpenRoutes
<1>7. req'[r] = new
  BY <1>1 DEF IInv, TypeOK
<1>8. Placed(r)'
  BY <1>4, <1>7 DEF Placed, OnConnection
<1>9. Guarded(r)'
  BY <1>4, <1>5, <1>6, <1>7 DEF Guarded, OnConnection
<1>10. QueueWaits' /\ queue' \in Seq(Slots)
  BY <1>1, <1>4, QueueStays
<1>11. req[r].conn = NoConn
  BY <1>1 DEF IInv, Placed, OnConnection
<1>12. QED
  BY <1>1, <1>4, <1>8, <1>9, <1>10, <1>11, OneRequest DEF IInv, TypeOK

\* The queue goes on without the request, which was its first or not in it.
WithoutWait(r) ==
  \/ req[r].pc = "queued" /\ queue # <<>> /\ Head(queue) = r /\ queue' = Tail(queue)
  \/ req[r].pc # "queued" /\ queue' = queue

(* A request is answered, and what was its connection has no user.         *)
LEMMA AnswersIInv ==
  ASSUME IInv, NEW r \in Slots, NEW status \in Nat, Answers(r, status), req[r].pc # "idle",
         WithoutWait(r), Release(r),
         req[r].in.token = Nobody /\ req[r].in.route \in ApiRoutes
           => status = IF req[r].in.skewed THEN 409 ELSE 401,
         UNCHANGED <<proc, exitCode, unused>>, row' \in [Ids -> Users \cup {Nobody}]
  PROVE  IInv'
<1> DEFINE new == [req[r] EXCEPT !.pc = "answered", !.status = status, !.conn = NoConn,
                                 !.had = {}, !.seen = {}]
<1>1. req \in [Slots -> RequestState] /\ req[r] \in RequestState
  BY DEF IInv, TypeOK, RequestState
<1>2. new \in RequestState /\ new.conn = NoConn /\ new.in = req[r].in /\ new.status = status
      /\ new.pc = "answered" /\ new.gone = req[r].gone
  BY <1>1 DEF RequestState
<1>3. req' = [req EXCEPT ![r] = new]
  BY <1>1 DEF Answers, RequestState
<1>4. req'[r] = new
  BY <1>1, <1>3
<1>5. Placed(r)'
  BY <1>2, <1>4 DEF Placed, OnConnection
<1>6. Guarded(r)'
  BY <1>2, <1>4 DEF Guarded, OnConnection
<1>7. QueueWaits' /\ queue' \in Seq(Slots)
  BY <1>2, <1>3, QueueStays, QueueMoves DEF WithoutWait
<1>8. /\ user' \in [Conns -> Users \cup {Nobody}]
      /\ \A c \in Conns : c # req[r].conn => user'[c] = user[c]
      /\ req[r].conn # NoConn => user'[req[r].conn] = Nobody
  BY <1>1 DEF IInv, TypeOK, Release, RequestState
<1>9. proc' = proc /\ exitCode' \in {0, 1, 137} /\ unused' \subseteq Ids
  BY DEF IInv, TypeOK
<1>10. QED
  BY <1>2, <1>3, <1>5, <1>6, <1>7, <1>8, <1>9, OneRequest

(* A request moves on with the connection it has, or without one, and its  *)
(* connection's user stays.                                                *)
LEMMA CarriesOn ==
  ASSUME IInv, NEW r \in Slots, NEW new \in RequestState, req' = [req EXCEPT ![r] = new],
         req[r].pc # "queued", new.conn = req[r].conn, new.in = req[r].in, new.gone = req[r].gone,
         \/ new.pc = req[r].pc /\ new.status = req[r].status
         \/ req[r].pc \in OnConnection \ {"begun"} /\ new.pc \in OnConnection \ {"begun"}
         \/ req[r].pc = "verifying" /\ new.pc = "streaming" /\ req[r].in.token # Nobody,
         UNCHANGED <<proc, exitCode, queue, user, row, unused>>
  PROVE  IInv'
<1>1. req'[r] = new /\ Placed(r) /\ Guarded(r)
  BY DEF IInv, TypeOK
<1>2. Placed(r)'
  BY <1>1 DEF Placed, OnConnection
<1>3. Guarded(r)'
  BY <1>1 DEF Guarded, OnConnection
<1>4. QueueWaits' /\ queue' \in Seq(Slots)
  BY QueueStays
<1>5. /\ proc' = proc /\ exitCode' \in {0, 1, 137}
      /\ user' \in [Conns -> Users \cup {Nobody}] /\ row' \in [Ids -> Users \cup {Nobody}]
      /\ unused' \subseteq Ids
  BY DEF IInv, TypeOK
<1>6. new.pc = "idle" \/ req[r].pc # "idle"
  BY DEF OnConnection
<1>7. QED
  BY <1>2, <1>3, <1>4, <1>5, <1>6, OneRequest

(* verifyToken has come back.                                              *)
LEMMA VerifiedIInv ==
  ASSUME IInv, NEW r \in Slots, Verified(r)
  PROVE  IInv'
<1> DEFINE in == req[r].in
<1>1. req \in [Slots -> RequestState] /\ req[r] \in RequestState /\ req[r].pc = "verifying"
  BY DEF IInv, TypeOK, Verified, RequestState
<1>2. /\ in.route \in ApiRoutes /\ ~in.skewed /\ req[r].conn = NoConn
      /\ UNCHANGED <<proc, exitCode, user, row, unused>>
  BY <1>1 DEF IInv, Guarded, Placed, OnConnection, Verified
<1>3. Refusal(in) \in Nat /\ (in.token = Nobody => Refusal(in) = 401)
  BY DEF Refusal
<1>4. row' \in [Ids -> Users \cup {Nobody}]
  BY <1>2 DEF IInv, TypeOK
<1>5. Release(r)
  BY <1>2 DEF Release
<1>6. CASE Answers(r, IF Refusal(in) = 0 THEN 401 ELSE Refusal(in)) /\ UNCHANGED queue
  <2>1. (IF Refusal(in) = 0 THEN 401 ELSE Refusal(in)) \in Nat
    BY <1>3
  <2>2. in.token = Nobody => (IF Refusal(in) = 0 THEN 401 ELSE Refusal(in)) = 401
    BY <1>3
  <2>3. WithoutWait(r) /\ req[r].pc # "idle"
    BY <1>1, <1>6 DEF WithoutWait
  <2>4. QED
    BY <1>2, <1>4, <1>5, <1>6, <2>1, <2>2, <2>3, AnswersIInv
<1>7. CASE Refusal(in) = 0 /\ Goes(r, "streaming") /\ UNCHANGED queue
  <2> DEFINE new == [req[r] EXCEPT !.pc = "streaming"]
  <2>1. req' = [req EXCEPT ![r] = new]
    BY <1>1, <1>7 DEF Goes
  <2>2. new \in RequestState /\ new.conn = req[r].conn /\ new.in = req[r].in /\ new.pc = "streaming" /\ new.gone = req[r].gone
    BY <1>1 DEF RequestState
  <2>3. in.token # Nobody
    BY <1>3, <1>7
  <2>4. QED
    BY <1>1, <1>2, <1>7, <2>1, <2>2, <2>3, CarriesOn
<1>8. CASE /\ Refusal(in) = 0
           /\ req' = [req EXCEPT ![r] = [@ EXCEPT !.pc = "queued",
                                !.had = IF in.route = "me" THEN OwnedBy(in.token) ELSE {}]]
           /\ queue' = Append(queue, r)
  <2> DEFINE new == [req[r] EXCEPT !.pc = "queued",
                       !.had = IF in.route = "me" THEN OwnedBy(in.token) ELSE {}]
  <2>1. req' = [req EXCEPT ![r] = new]
    BY <1>1, <1>8
  <2>2. (IF in.route = "me" THEN OwnedBy(in.token) ELSE {}) \in SUBSET Ids
    BY DEF OwnedBy
  <2>3. new \in RequestState /\ new.conn = NoConn /\ new.in = in /\ new.pc = "queued" /\ new.gone = req[r].gone
    BY <1>1, <1>2, <2>2 DEF RequestState
  <2>4. req'[r] = new /\ \A q \in Slots \ {r} : req'[q] = req[q]
    BY <1>1, <2>1
  <2>5. queue \in Seq(Slots) /\ \A i \in 1..Len(queue) : queue[i] \in Slots \ {r}
    BY <1>1 DEF IInv, TypeOK, QueueWaits
  <2>6. /\ queue' \in Seq(Slots) /\ Len(queue') = Len(queue) + 1 /\ queue'[Len(queue) + 1] = r
        /\ Len(queue) \in Nat /\ \A i \in 1..Len(queue) : queue'[i] = queue[i]
    BY <1>8, <2>5
  <2>7. \A i \in 1..Len(queue') : i \in 1..Len(queue) \/ i = Len(queue) + 1
    BY <2>6
  <2>8. \A i \in 1..Len(queue') : req'[queue'[i]].pc = "queued"
    <3> SUFFICES ASSUME NEW i \in 1..Len(queue') PROVE req'[queue'[i]].pc = "queued"
      OBVIOUS
    <3>1. CASE i \in 1..Len(queue)
      BY <2>4, <2>5, <2>6, <3>1 DEF IInv, QueueWaits
    <3>2. CASE i = Len(queue) + 1
      BY <2>3, <2>4, <2>6, <3>2
    <3>3. QED
      BY <2>7, <3>1, <3>2
  <2>9. \A i, j \in 1..Len(queue') : queue'[i] = queue'[j] => i = j
    BY <2>5, <2>6, <2>7 DEF IInv, QueueWaits
  <2>10. Placed(r)' /\ Guarded(r)'
    <3>1. in.token # Nobody
      BY <1>3, <1>8
    <3>2. QED
      BY <2>3, <2>4, <3>1 DEF Placed, Guarded, OnConnection
  <2>11. /\ proc' = proc /\ exitCode' \in {0, 1, 137}
         /\ user' \in [Conns -> Users \cup {Nobody}] /\ unused' \subseteq Ids
    BY <1>2 DEF IInv, TypeOK
  <2>12. QED
    BY <1>1, <1>2, <1>4, <2>1, <2>3, <2>6, <2>8, <2>9, <2>10, <2>11, OneRequest DEF QueueWaits
<1>9. QED
  BY <1>6, <1>7, <1>8 DEF Verified

(* A connection is taken.                                                  *)
LEMMA BeginIInv ==
  ASSUME IInv, NEW r \in Slots, NEW c \in Conns, Begin(r, c)
  PROVE  IInv'
<1> DEFINE new == [req[r] EXCEPT !.pc = "begun", !.conn = c]
<1>1. req \in [Slots -> RequestState] /\ req[r] \in RequestState
  BY DEF IInv, TypeOK, RequestState
<1>2. /\ req' = [req EXCEPT ![r] = new] /\ queue # <<>> /\ Head(queue) = r /\ queue' = Tail(queue)
      /\ ~Busy(c) /\ UNCHANGED <<proc, exitCode, user, row, unused>>
  BY <1>1 DEF Begin
<1>3. new \in RequestState /\ new.conn = c /\ new.in = req[r].in /\ new.pc = "begun" /\ new.gone = req[r].gone
  BY <1>1 DEF RequestState, OnConnection
<1>4. QueueWaits' /\ queue' \in Seq(Slots) /\ req[r].pc = "queued"
  BY <1>2, <1>3, QueueMoves
<1>5. req'[r] = new /\ user[c] = Nobody /\ c # NoConn
  BY <1>1, <1>2, Kinds DEF IInv, PoolIsClean
<1>6. Placed(r)' /\ Guarded(r)'
  BY <1>2, <1>3, <1>4, <1>5 DEF IInv, Placed, Guarded, OnConnection
<1>7. req[r].conn = NoConn
  BY <1>4 DEF IInv, Placed, OnConnection
<1>8. /\ proc' = proc /\ exitCode' \in {0, 1, 137}
      /\ user' \in [Conns -> Users \cup {Nobody}] /\ row' \in [Ids -> Users \cup {Nobody}]
      /\ unused' \subseteq Ids
  BY <1>2 DEF IInv, TypeOK
<1>9. req[r].pc # "idle"
  BY <1>4
<1>10. QED
  BY <1>2, <1>3, <1>4, <1>6, <1>7, <1>8, <1>9, OneRequest

(* set_config.                                                             *)
LEMMA BindIInv ==
  ASSUME IInv, NEW r \in Slots, Bind(r)
  PROVE  IInv'
<1> DEFINE new == [req[r] EXCEPT !.pc = "bound"]
<1>1. req \in [Slots -> RequestState] /\ req[r] \in RequestState /\ req[r].pc = "begun"
  BY DEF IInv, TypeOK, RequestState, Bind
<1>2. /\ req' = [req EXCEPT ![r] = new] /\ user' = [user EXCEPT ![req[r].conn] = req[r].in.token]
      /\ UNCHANGED <<proc, exitCode, queue, row, unused>>
  BY <1>1 DEF Bind, Goes
<1>3. new \in RequestState /\ new.conn = req[r].conn /\ new.in = req[r].in /\ new.pc = "bound" /\ new.gone = req[r].gone
  BY <1>1 DEF RequestState, OnConnection
<1>4. QueueWaits' /\ queue' \in Seq(Slots)
  BY <1>1, <1>2, <1>3, QueueStays
<1>5. req'[r] = new /\ req[r].conn \in Conns /\ user \in [Conns -> Users \cup {Nobody}]
  BY <1>1, <1>2 DEF IInv, TypeOK, Placed, OnConnection, RequestState
<1>6. user' \in [Conns -> Users \cup {Nobody}]
  BY <1>1, <1>2, <1>5, Kinds DEF RequestState
<1>7. Placed(r)' /\ Guarded(r)'
  BY <1>1, <1>2, <1>3, <1>5 DEF IInv, Placed, Guarded, OnConnection
<1>8. /\ proc' = proc /\ exitCode' \in {0, 1, 137}
      /\ row' \in [Ids -> Users \cup {Nobody}] /\ unused' \subseteq Ids
  BY <1>2 DEF IInv, TypeOK
<1>9. req[r].pc # "idle"
  BY <1>1
<1>10. QED
  BY <1>2, <1>3, <1>4, <1>5, <1>6, <1>7, <1>8, <1>9, OneRequest

(* The statement of the route, at once or after a lock.                    *)
LEMMA StatementIInv ==
  ASSUME IInv, NEW r \in Slots, Run(r) \/ Unblock(r)
  PROVE  IInv'
<1>1. req \in [Slots -> RequestState] /\ req[r] \in RequestState
  BY DEF IInv, TypeOK, RequestState
<1>2. CASE Run(r)
  <2> DEFINE pc  == IF Deletes(r) /\ Found(r) \cap Locked(r) # {} THEN "blocked" ELSE "ran"
             new == [req[r] EXCEPT !.seen = Found(r), !.pc = pc]
  <2>1. req' = [req EXCEPT ![r] = new] /\ req[r].pc = "bound"
        /\ UNCHANGED <<proc, exitCode, queue, user, row, unused>>
    BY <1>1, <1>2 DEF Run
  <2>2. Found(r) \in SUBSET Ids
    BY DEF Found, Visible, OwnedBy
  <2>3. pc \in {"blocked", "ran"}
    OBVIOUS
  <2>4. new \in RequestState /\ new.conn = req[r].conn /\ new.in = req[r].in /\ new.pc = pc /\ new.gone = req[r].gone
    BY <1>1, <2>2, <2>3 DEF RequestState, OnConnection
  <2>5. QED
    BY <2>1, <2>3, <2>4, CarriesOn DEF OnConnection
<1>3. CASE Unblock(r)
  <2> DEFINE new == [req[r] EXCEPT !.pc = "ran", !.seen = req[r].seen \cap Visible(req[r].conn)]
  <2>1. req' = [req EXCEPT ![r] = new] /\ req[r].pc = "blocked"
        /\ UNCHANGED <<proc, exitCode, queue, user, row, unused>>
    BY <1>1, <1>3 DEF Unblock
  <2>2. new \in RequestState /\ new.conn = req[r].conn /\ new.in = req[r].in /\ new.pc = "ran" /\ new.gone = req[r].gone
    BY <1>1 DEF RequestState, OnConnection
  <2>3. QED
    BY <2>1, <2>2, CarriesOn DEF OnConnection
<1>4. QED
  BY <1>2, <1>3

(* The end of a transaction, however it ends, and a refused one.           *)
LEMMA EndIInv ==
  ASSUME IInv, NEW r \in Slots, Commit(r) \/ Fail(r) \/ CommitLost(r) \/ Ended(r)
  PROVE  IInv'
<1>1. req \in [Slots -> RequestState] /\ req[r] \in RequestState
  BY DEF IInv, TypeOK, RequestState
<1>2. row \in [Ids -> Users \cup {Nobody}] /\ req[r].in.token \in Users \cup {Nobody}
  BY <1>1, Kinds DEF IInv, TypeOK, RequestState
<1>3. CASE Ended(r)
  <2>1. queue # <<>> /\ Head(queue) = r /\ queue' = Tail(queue) /\ Answers(r, 500)
        /\ UNCHANGED <<proc, exitCode, user, row, unused>>
    BY <1>3 DEF Ended
  <2>2. req[r].pc = "queued" /\ req[r].pc # "idle"
    BY <1>1, <2>1 DEF IInv, TypeOK, QueueWaits
  <2>3. req[r].conn = NoConn /\ req[r].in.token # Nobody
    BY <2>2 DEF IInv, Placed, Guarded, OnConnection
  <2>4. Release(r) /\ row' \in [Ids -> Users \cup {Nobody}]
    BY <1>2, <2>1, <2>3 DEF Release
  <2>5. Answers(r, 500) /\ UNCHANGED <<proc, exitCode, unused>> /\ 500 \in Nat
    BY <2>1
  <2>6. WithoutWait(r)
    BY <2>1, <2>2 DEF WithoutWait
  <2>7. QED
    BY <2>2, <2>3, <2>4, <2>5, <2>6, AnswersIInv
<1>4. CASE Commit(r) \/ Fail(r) \/ CommitLost(r)
  <2>1. req[r].pc \in OnConnection /\ Release(r) /\ UNCHANGED <<proc, exitCode, queue, unused>>
    BY <1>4 DEF Commit, Fail, CommitLost, OnConnection
  <2>2. row' \in [Ids -> Users \cup {Nobody}]
    BY <1>2, <1>4 DEF Commit, Fail, CommitLost, TakesEffect
  <2>3. req[r].in.token # Nobody /\ WithoutWait(r) /\ req[r].pc # "idle"
    BY <2>1 DEF IInv, Guarded, OnConnection, WithoutWait
  <2>4. PICK status \in Nat : Answers(r, status)
    <3>1. Status(r) \in Nat /\ 500 \in Nat
      BY DEF Status
    <3>2. QED
      BY <1>4, <3>1 DEF Commit, Fail, CommitLost
  <2>5. QED
    BY <2>1, <2>2, <2>3, <2>4, AnswersIInv
<1>5. QED
  BY <1>3, <1>4

(* Streams, clients that hang up, and answers that have been sent.         *)
LEMMA ClientIInv ==
  ASSUME IInv, NEW r \in Slots, Tick(r) \/ HangUp(r) \/ Sent(r)
  PROVE  IInv'
<1>1. req \in [Slots -> RequestState] /\ req[r] \in RequestState
  BY DEF IInv, TypeOK, RequestState
<1>2. UNCHANGED <<proc, exitCode, queue, user, row, unused>>
  BY DEF Tick, HangUp, Sent
<1>3. CASE Tick(r) /\ Answers(r, 200)
  <2>1. req[r].pc = "streaming"
    BY <1>3 DEF Tick
  <2>2. req[r].conn = NoConn /\ req[r].in.token # Nobody /\ WithoutWait(r) /\ req[r].pc # "idle"
    BY <1>2, <2>1 DEF IInv, Placed, Guarded, OnConnection, WithoutWait
  <2>3. Release(r) /\ row' \in [Ids -> Users \cup {Nobody}]
    BY <1>2, <2>2 DEF Release, IInv, TypeOK
  <2>4. QED
    BY <1>2, <1>3, <2>1, <2>2, <2>3, AnswersIInv
<1>4. CASE /\ req[r].pc = "streaming" /\ req[r].ticks < SSE_DEMO_TICKS
           /\ req' = [req EXCEPT ![r].ticks = @ + 1]
  <2> DEFINE new == [req[r] EXCEPT !.ticks = @ + 1]
  <2>1. req' = [req EXCEPT ![r] = new]
    BY <1>1, <1>4
  <2>2. new \in RequestState /\ new.conn = req[r].conn /\ new.in = req[r].in /\ new.pc = req[r].pc
        /\ new.status = req[r].status /\ new.gone = req[r].gone
    BY <1>1, <1>4 DEF RequestState, SSE_DEMO_TICKS
  <2>3. QED
    BY <1>2, <1>4, <2>1, <2>2, CarriesOn
<1>5. CASE HangUp(r)
  <2> DEFINE new == [req[r] EXCEPT !.gone = TRUE]
  <2>1. req' = [req EXCEPT ![r] = new]
    BY <1>1, <1>5 DEF HangUp
  <2>2. new \in RequestState /\ new.conn = req[r].conn /\ new.in = req[r].in /\ new.pc = req[r].pc
        /\ new.gone
    BY <1>1 DEF RequestState
  <2>3. req' = [req EXCEPT ![r] = new] /\ req'[r] = new /\ \A q \in Slots \ {r} : req'[q] = req[q]
    BY <1>1, <2>1
  <2>4. QueueWaits' /\ queue' \in Seq(Slots)
    <3>1. queue \in Seq(Slots)
      BY DEF IInv, TypeOK
    <3>2. \A q \in Slots : req'[q].pc = req[q].pc
      BY <2>2, <2>3
    <3>3. QED
      BY <1>2, <3>1, <3>2 DEF IInv, QueueWaits
  <2>5. Placed(r)' /\ Guarded(r)'
    BY <1>2, <2>2, <2>3 DEF IInv, Placed, Guarded
  <2>6. /\ proc' = proc /\ exitCode' \in {0, 1, 137}
        /\ user' \in [Conns -> Users \cup {Nobody}] /\ row' \in [Ids -> Users \cup {Nobody}]
        /\ unused' \subseteq Ids
    BY <1>2 DEF IInv, TypeOK
  <2>7. QED
    BY <1>2, <2>2, <2>3, <2>4, <2>5, <2>6, OneRequest
<1>6. CASE Sent(r)
  <2>1. req' = [req EXCEPT ![r] = NoRequest] /\ req[r].pc = "answered"
    BY <1>6 DEF Sent
  <2>2. req'[r] = NoRequest /\ NoRequest \in RequestState
    BY <1>1, <2>1, Kinds
  <2>3. Placed(r)' /\ Guarded(r)' /\ NoRequest.conn = NoConn /\ NoRequest.pc = "idle"
    BY <2>2 DEF Placed, Guarded, NoRequest, OnConnection
  <2>4. QueueWaits' /\ queue' \in Seq(Slots)
    BY <1>2, <2>1, <2>2, QueueStays
  <2>5. req[r].conn = NoConn
    BY <2>1 DEF IInv, Placed, OnConnection
  <2>6. /\ proc' = proc /\ exitCode' \in {0, 1, 137}
        /\ user' \in [Conns -> Users \cup {Nobody}] /\ row' \in [Ids -> Users \cup {Nobody}]
        /\ unused' \subseteq Ids
    BY <1>2 DEF IInv, TypeOK
  <2>7. QED
    BY <1>2, <2>1, <2>2, <2>3, <2>4, <2>5, <2>6, OneRequest
<1>7. QED
  BY <1>3, <1>4, <1>5, <1>6 DEF Tick

(* The process: what dies with it takes every request along.               *)
LEMMA ProcessIInv ==
  ASSUME IInv, Shutdown \/ ServerClosed \/ Exit0 \/ Exit1 \/ Killed \/ Start
  PROVE  IInv'
<1>1. CASE Shutdown \/ ServerClosed \/ Start
  <2>1. UNCHANGED <<req, queue, user, row, unused>>
        /\ proc' \in {"up", "draining", "closing", "down"} /\ exitCode' \in {0, 1, 137}
    BY <1>1 DEF Shutdown, ServerClosed, Start, IInv, TypeOK
  <2>2. TypeOK'
    BY <2>1 DEF IInv, TypeOK
  <2>3. Apart' /\ PoolIsClean' /\ QueueWaits'
    BY <2>1 DEF IInv, Apart, PoolIsClean, QueueWaits, Busy
  <2>4. \A r \in Slots : Placed(r)' /\ Guarded(r)'
    BY <2>1 DEF IInv, Placed, Guarded
  <2>5. \A r \in Slots : Served(r)'
    BY <1>1, <2>1 DEF Shutdown, ServerClosed, Start, Served
  <2>6. QED
    BY <2>2, <2>3, <2>4, <2>5 DEF IInv
<1>2. CASE Exit0 \/ Exit1 \/ Killed
  <2>1. PICK code \in {0, 1, 137} : Dies(code)
    BY <1>2 DEF Exit0, Exit1, Killed
  <2>2. req' = [r \in Slots |-> NoRequest] /\ queue' = <<>> /\ user' = [c \in Conns |-> Nobody]
    BY <2>1 DEF Dies
  <2>3. TypeOK'
    BY <2>1, <2>2, Kinds DEF IInv, TypeOK, RequestState, Dies
  <2>4. Apart' /\ PoolIsClean' /\ QueueWaits'
    BY <2>2 DEF Apart, PoolIsClean, QueueWaits, NoRequest
  <2>5. \A r \in Slots : Placed(r)' /\ Guarded(r)' /\ Served(r)'
    BY <2>2 DEF Placed, Guarded, Served, NoRequest, OnConnection
  <2>6. QED
    BY <2>3, <2>4, <2>5 DEF IInv
<1>3. QED
  BY <1>1, <1>2

-----------------------------------------------------------------------------
(* Every step keeps the invariant.                                         *)
LEMMA NextIInv == IInv /\ [Next]_vars => IInv'
<1> SUFFICES ASSUME IInv, [Next]_vars PROVE IInv'
  OBVIOUS
<1>1. CASE Request
  BY <1>1, ArriveIInv DEF Request
<1>2. CASE \E r \in Slots : Handling(r) \/ Unblock(r) \/ HangUp(r)
  <2>1. PICK r \in Slots : Handling(r) \/ Unblock(r) \/ HangUp(r)
    BY <1>2
  <2>2. CASE \E c \in Conns : Begin(r, c)
    BY <2>2, BeginIInv
  <2>3. CASE Verified(r) \/ Bind(r)
    BY <2>3, VerifiedIInv, BindIInv
  <2>4. CASE Run(r) \/ Unblock(r)
    BY <2>4, StatementIInv
  <2>5. CASE Commit(r) \/ Fail(r) \/ CommitLost(r) \/ Ended(r)
    BY <2>5, EndIInv
  <2>6. CASE Tick(r) \/ HangUp(r) \/ Sent(r)
    BY <2>6, ClientIInv
  <2>7. QED
    BY <2>1, <2>2, <2>3, <2>4, <2>5, <2>6 DEF Handling, Transaction
<1>3. CASE Shutdown \/ ServerClosed \/ Exit0 \/ Exit1 \/ Killed \/ Start
  BY <1>3, ProcessIInv
<1>4. CASE UNCHANGED vars
  <2>1. TypeOK' /\ Apart' /\ PoolIsClean' /\ QueueWaits'
    BY <1>4 DEF vars, IInv, TypeOK, Apart, PoolIsClean, QueueWaits, Busy
  <2>2. \A r \in Slots : Placed(r)' /\ Guarded(r)' /\ Served(r)'
    BY <1>4 DEF vars, IInv, Placed, Guarded, Served
  <2>3. QED
    BY <2>1, <2>2 DEF IInv
<1>5. QED
  BY <1>1, <1>2, <1>3, <1>4 DEF Next

(* Every variable of the server holds a value of its kind, always.         *)
THEOREM TypeCorrect == Spec => []TypeOK
<1>1. IInv => TypeOK
  BY DEF IInv
<1>2. QED
  BY <1>1, InitIInv, NextIInv, PTL DEF Spec

(* context.ts: a statement runs under the user whose token was verified,   *)
(* and a connection goes back to the pool without one, for any number of   *)
(* requests and connections, however transactions end.                     *)
THEOREM Scoped == Spec => []IdentityIsScoped
<1>1. IInv => IdentityIsScoped
  BY DEF IInv, IdentityIsScoped, PoolIsClean, Placed
<1>2. QED
  BY <1>1, InitIInv, NextIInv, PTL DEF Spec

(* app.ts: the guards tell a stranger nothing, whatever it sends.          *)
THEOREM Guards == Spec => []StrangersLearnNothing
<1>1. IInv => StrangersLearnNothing
  BY DEF IInv, StrangersLearnNothing, Guarded
<1>2. QED
  BY <1>1, InitIInv, NextIInv, PTL DEF Spec

(* index.ts: a process that exits with 0 has answered whoever stayed.      *)
(* While it closes the pool, nobody who is still there is being served.    *)
THEOREM CleanExit == Spec => CleanExitAnswers
<1>1. IInv /\ [Next]_vars => [Exit0 => \A r \in Slots : req[r].pc = "idle" \/ req[r].gone]_vars
  BY DEF IInv, Served, Exit0
<1>2. QED
  BY <1>1, InitIInv, NextIInv, PTL DEF Spec, CleanExitAnswers

-----------------------------------------------------------------------------
(***************************************************************************)
(* Server implements UserStore, for every set of people, requests,         *)
(* connections, notes and inputs.                                          *)
(***************************************************************************)
-----------------------------------------------------------------------------
(***************************************************************************)
(* What the refinement needs besides IInv.                                 *)
(***************************************************************************)
Mine(r) == OwnedBy(req[r].in.token)

\* How far a request is agrees with what it found.  Rows a deletion is about
\* to take are still there; a blocked one has found all it has to take.
Asked(r) ==
  /\ req[r].pc \in OnConnection \cup {"queued"} => req[r].in.route \in DataRoutes
  /\ req[r].pc = "streaming" => req[r].in.route = "events"
  /\ req[r].pc \in OnConnection \cup {"verifying", "queued", "streaming"} => req[r].status = 0
  /\ req[r].pc = "blocked" =>
       /\ Deletes(r)
       /\ req[r].in.route = "delete" => req[r].seen = {req[r].in.id}
       /\ req[r].in.route = "me" => req[r].had \cap Mine(r) \subseteq req[r].seen
  /\ req[r].pc = "ran" /\ Deletes(r) => req[r].seen \subseteq Mine(r)

\* A deletion that has found its rows holds their locks alone.
LocksApart ==
  \A q, r \in Slots :
    q # r /\ req[q].pc = "ran" /\ Deletes(q) /\ req[r].pc = "ran" /\ Deletes(r)
    => req[q].seen \cap req[r].seen = {}

\* The id of a note that is being created has never been anybody's.
NeverUsed(n) == row[n] = Nobody /\ \A q \in Slots : n \notin req[q].had
Creating(r)  == req[r].pc \in OnConnection \cup {"verifying", "queued"} /\ req[r].in.route = "create"
NewIds ==
  /\ \A n \in unused : NeverUsed(n)
  /\ \A r \in Slots : Creating(r) => NeverUsed(req[r].in.id) /\ req[r].in.id \notin unused
  /\ \A q, r \in Slots : Creating(q) /\ Creating(r) /\ req[q].in.id = req[r].in.id => q = r

JInv == LocksApart /\ NewIds /\ \A r \in Slots : Asked(r)

-----------------------------------------------------------------------------
(* A step that moves one request and no row keeps JInv when the request    *)
(* agrees with itself after it, takes no locked row and no used id.        *)
LEMMA OneAsked ==
  ASSUME IInv, JInv, NEW r \in Slots, NEW new \in RequestState,
         req' = [req EXCEPT ![r] = new], row' = row, unused' \subseteq unused, Asked(r)',
         \A n \in new.had : row[n] # Nobody \/ n \in req[r].had,
         new.pc = "ran" /\ Deletes(r)' =>
           \/ new.seen \cap Locked(r) = {}
           \/ req[r].pc = "ran" /\ Deletes(r) /\ new.seen = req[r].seen,
         Creating(r)' => \/ Creating(r) /\ new.in = req[r].in
                         \/ new.in.id \in unused \ unused'
  PROVE  JInv'
<1>1. req \in [Slots -> RequestState]
  BY DEF IInv, TypeOK, RequestState
<1>2. req'[r] = new /\ \A q \in Slots \ {r} : req'[q] = req[q]
  BY <1>1
<1>3. \A q \in Slots \ {r} : /\ Deletes(q)' = Deletes(q) /\ Mine(q)' = Mine(q)
                             /\ Creating(q)' = Creating(q)
  BY <1>2 DEF Deletes, Mine, OwnedBy, Creating
<1>4. \A q \in Slots : Asked(q)'
  BY <1>2, <1>3 DEF JInv, Asked
<1>5. LocksApart'
  <2>1. \A q \in Slots \ {r} : req[q].pc = "ran" /\ Deletes(q) => req[q].seen \subseteq Locked(r)
    BY DEF Locked
  <2>2. \A q \in Slots \ {r} : req'[q].pc = "ran" /\ Deletes(q)' /\ req'[r].pc = "ran" /\ Deletes(r)'
                              => req'[q].seen \cap req'[r].seen = {}
    BY <1>2, <1>3, <2>1 DEF JInv, LocksApart
  <2>3. \A q, p \in Slots \ {r} :
          q # p /\ req'[q].pc = "ran" /\ Deletes(q)' /\ req'[p].pc = "ran" /\ Deletes(p)'
          => req'[q].seen \cap req'[p].seen = {}
    BY <1>2, <1>3 DEF JInv, LocksApart
  <2>4. QED
    BY <2>2, <2>3 DEF LocksApart
<1>6. \A n : NeverUsed(n) => NeverUsed(n)'
  BY <1>2 DEF NeverUsed
<1>7. NewIds'
  <2>1. \A n \in unused' : NeverUsed(n)'
    BY <1>6 DEF JInv, NewIds
  <2>2. \A q \in Slots \ {r} : Creating(q)' => NeverUsed(req[q].in.id)' /\ req'[q].in.id \notin unused
    BY <1>2, <1>3, <1>6 DEF JInv, NewIds, NeverUsed
  <2>3. Creating(r)' => NeverUsed(req[r].in.id)' /\ req'[r].in.id \notin unused'
    BY <1>2, <1>6 DEF JInv, NewIds, NeverUsed
  <2>4. \A q \in Slots \ {r} : Creating(q)' /\ Creating(r)' => req'[q].in.id # req'[r].in.id
    BY <1>2, <1>3 DEF JInv, NewIds
  <2>5. \A q, p \in Slots \ {r} : Creating(q)' /\ Creating(p)' /\ req'[q].in.id = req'[p].in.id => q = p
    BY <1>2, <1>3 DEF JInv, NewIds
  <2>6. \A q \in Slots : Creating(q)' => NeverUsed(req[q].in.id)' /\ req'[q].in.id \notin unused'
    BY <2>2, <2>3
  <2>7. \A q, p \in Slots : Creating(q)' /\ Creating(p)' /\ req'[q].in.id = req'[p].in.id => q = p
    BY <2>4, <2>5
  <2>8. QED
    BY <2>1, <2>6, <2>7 DEF NewIds
<1>8. QED
  BY <1>4, <1>5, <1>7 DEF JInv

-----------------------------------------------------------------------------
(* What UserStore sees of a request, by how far it is.                     *)
CallAt(pc, q, seen, answer) ==
  [pc |-> pc, user |-> q.in.token, op |-> q.in.route, id |-> q.in.id, had |-> q.had,
   seen |-> seen, answer |-> answer]

(* What the promise sees of a request, by how far it is.                   *)
LEMMA CallSeen ==
  ASSUME NEW q
  PROVE  /\ q.pc \in {"queued", "begun", "bound", "blocked"} /\ q.status = 0
            => AbstractCall(q) = CallAt("open", q, {}, "none")
         /\ q.pc = "ran" /\ q.status = 0 => AbstractCall(q) = CallAt("looked", q, q.seen, "none")
         /\ q.pc = "answered" /\ q.in.route \in DataRoutes /\ q.status \in {200, 201, 204, 404, 500}
            => AbstractCall(q) = CallAt("answered", q, {}, AbstractAnswer(q.status))
         /\ q.pc \in {"idle", "verifying", "streaming"} => AbstractCall(q) = Promise!NoCall
         /\ q.pc = "answered" /\ ~(q.in.route \in DataRoutes /\ q.status \in {200, 201, 204, 404, 500})
            => AbstractCall(q) = Promise!NoCall
<1>1. /\ AbstractPc("answered") = "answered" /\ AbstractPc("ran") = "looked"
      /\ \A pc \in {"queued", "begun", "bound", "blocked"} : AbstractPc(pc) = "open"
      /\ AbstractAnswer(0) = "none"
  BY DEF AbstractPc, AbstractAnswer
<1>2. Admitted(q) => AbstractCall(q) = CallAt(AbstractPc(q.pc), q, IF q.pc = "ran" THEN q.seen ELSE {},
                                              AbstractAnswer(q.status))
  BY DEF AbstractCall, CallAt
<1>3. ~Admitted(q) => AbstractCall(q) = Promise!NoCall
  BY DEF AbstractCall, Promise!NoCall, Promise!Nobody, Promise!NoId, Nobody, NoId
<1>4. QED
  BY <1>1, <1>2, <1>3 DEF Admitted, OnConnection

Calls == [r \in Slots |-> AbstractCall(req[r])]
Stores == [u \in Users |-> OwnedBy(u)]

(* When one request moves, UserStore sees one call move.                   *)
LEMMA OneCall ==
  ASSUME IInv, NEW r \in Slots, NEW new \in RequestState, req' = [req EXCEPT ![r] = new]
  PROVE  Calls' = [Calls EXCEPT ![r] = AbstractCall(new)]
BY DEF IInv, TypeOK, Calls

(* ... or none.                                                            *)
LEMMA Unseen ==
  ASSUME IInv, NEW r \in Slots, NEW new \in RequestState, req' = [req EXCEPT ![r] = new],
         AbstractCall(new) = AbstractCall(req[r]), row' = row
  PROVE  UNCHANGED Promise!vars
<1>1. Calls' = Calls
  BY OneCall DEF Calls
<1>2. Stores' = Stores
  BY DEF Stores, OwnedBy
<1>3. QED
  BY <1>1, <1>2 DEF Promise!vars, Calls, Stores

(* A call that looks, and one that is answered.                            *)
LEMMA CallLooks ==
  ASSUME NEW q, NEW seen
  PROVE  CallAt("looked", q, seen, "none")
           = [CallAt("open", q, {}, "none") EXCEPT !.pc = "looked", !.seen = seen]
<1> DEFINE c == CallAt("open", q, {}, "none")
           d == [c EXCEPT !.pc = "looked"]
<1>1. d = CallAt("looked", q, {}, "none")
  BY DEF CallAt
<1>2. [c EXCEPT !.pc = "looked", !.seen = seen] = [d EXCEPT !.seen = seen]
  OBVIOUS
<1> HIDE DEF d
<1>3. [d EXCEPT !.seen = seen] = CallAt("looked", q, seen, "none")
  BY <1>1 DEF CallAt
<1>4. QED
  BY <1>2, <1>3

Answered(c, answer) ==
  [c EXCEPT !.pc = "answered", !.answer = answer, !.had = {}, !.seen = {}]

(* An answer ends a call as the promise has it.                            *)
LEMMA CallAnswers ==
  ASSUME NEW pc, NEW p, NEW q, NEW seen, NEW answer, p.in = q.in, p.had = {}
  PROVE  CallAt("answered", p, {}, answer)
           = Answered(CallAt(pc, q, seen, "none"), answer)
<1> DEFINE c == CallAt(pc, q, seen, "none")
           d == [c EXCEPT !.pc = "answered"]
           e == [d EXCEPT !.answer = answer]
           f == [e EXCEPT !.had = {}]
<1>1. d = CallAt("answered", q, seen, "none")
  BY DEF CallAt
<1>2. [c EXCEPT !.pc = "answered", !.answer = answer, !.had = {}, !.seen = {}]
        = [f EXCEPT !.seen = {}]
  OBVIOUS
<1> HIDE DEF c, d
<1>3. e = CallAt("answered", q, seen, answer)
  BY <1>1 DEF CallAt
<1> HIDE DEF e
<1>4. f = CallAt("answered", p, seen, answer)
  BY <1>3 DEF CallAt
<1> HIDE DEF f
<1>5. [f EXCEPT !.seen = {}] = CallAt("answered", p, {}, answer)
  BY <1>4 DEF CallAt
<1>6. QED
  BY <1>2, <1>5 DEF c, Answered

(***************************************************************************)
(* The steps: each keeps JInv, and is a step of UserStore or none.         *)
(***************************************************************************)
Step == JInv' /\ [Promise!Next]_Promise!vars

(* A request arrives.                                                      *)
LEMMA ArriveStep ==
  ASSUME IInv, JInv, Request
  PROVE  Step
<1>1. PICK r \in Slots, in \in Inputs :
        /\ in.id # NoId => IF in.route = "create" THEN in.id \in unused /\ \A n \in unused : in.id <= n
                           ELSE in.id \notin unused
        /\ Arrive(r, in)
  BY DEF Request
<1> DEFINE status == FirstStatus(in)
           new    == [NoRequest EXCEPT !.in = in, !.status = status,
                        !.pc = IF status = 0 THEN "verifying" ELSE "answered"]
<1>2. /\ req' = [req EXCEPT ![r] = new] /\ req[r].pc = "idle" /\ row' = row
      /\ unused' = unused \ (IF in.route = "create" THEN {in.id} ELSE {})
  BY <1>1 DEF Arrive
<1>3. in.route \in ApiRoutes \cup OpenRoutes /\ in.skewed \in BOOLEAN
      /\ (in.route = "create" => in.id # NoId)
  BY ServerAssumption DEF Input
<1>4. /\ status \in Nat /\ ~(in.route \in DataRoutes /\ status \in {200, 201, 204, 404, 500})
      /\ status = 0 => in.route \in ApiRoutes
  BY <1>3 DEF FirstStatus, DataRoutes, OpenRoutes
<1>5. /\ new \in RequestState /\ new.in = in /\ new.status = status
      /\ new.pc = IF status = 0 THEN "verifying" ELSE "answered"
      /\ \A n \in new.had : FALSE
  <2>1. status \in Nat
    BY <1>4
  <2>2. new \in RequestState
    BY <2>1, Kinds DEF RequestState, NoRequest
  <2>3. QED
    BY <2>2 DEF NoRequest
<1>6. req'[r] = new
  BY <1>2 DEF IInv, TypeOK
<1> HIDE DEF status, new
<1>7. Asked(r)'
  BY <1>5, <1>6 DEF Asked, OnConnection
<1>8. Creating(r)' => new.in.id \in unused \ unused'
  BY <1>1, <1>2, <1>3, <1>5, <1>6 DEF Creating
<1>9. JInv'
  BY <1>2, <1>5, <1>7, <1>8, OneAsked
<1>10. AbstractCall(new) = Promise!NoCall
  BY <1>4, <1>5, CallSeen
<1>11. AbstractCall(req[r]) = Promise!NoCall
  BY <1>2, CallSeen
<1>12. QED
  BY <1>2, <1>5, <1>9, <1>10, <1>11, Unseen DEF Step

(* verifyToken has come back: the call is asked, or is none of UserStore's. *)
LEMMA VerifiedStep ==
  ASSUME IInv, JInv, NEW r \in Slots, Verified(r)
  PROVE  Step
<1> DEFINE in == req[r].in
<1>1. req \in [Slots -> RequestState] /\ req[r] \in RequestState /\ req[r].pc = "verifying"
  BY DEF IInv, TypeOK, Verified, RequestState
<1>2. UNCHANGED <<row, unused>> /\ req[r].status = 0 /\ unused' \subseteq unused
  BY <1>1 DEF Verified, JInv, Asked
<1>3. AbstractCall(req[r]) = Promise!NoCall
  BY <1>1, CallSeen
<1>4. Refusal(in) \in {0, 400, 401, 404, 413} /\ (in.route \in DataRoutes => Refusal(in) # 404)
      /\ (in.token = Nobody => Refusal(in) # 0)
  BY DEF Refusal, DataRoutes
<1>5. CASE Answers(r, IF Refusal(in) = 0 THEN 401 ELSE Refusal(in))
  <2> DEFINE status == IF Refusal(in) = 0 THEN 401 ELSE Refusal(in)
             new    == [req[r] EXCEPT !.pc = "answered", !.status = status, !.conn = NoConn,
                                      !.had = {}, !.seen = {}]
  <2>1. status \in Nat /\ ~(in.route \in DataRoutes /\ status \in {200, 201, 204, 404, 500})
    BY <1>4
  <2>2. req' = [req EXCEPT ![r] = new]
    BY <1>1, <1>5 DEF Answers
  <2>3. new \in RequestState /\ new.in = in /\ new.status = status /\ new.pc = "answered"
        /\ \A n \in new.had : FALSE
    <3>1. status \in Nat
      BY <2>1
    <3> HIDE DEF status
    <3>2. QED
      BY <1>1, <3>1 DEF RequestState
  <2>4. req'[r] = new
    BY <1>1, <2>2
  <2> HIDE DEF status, new
  <2>5. Asked(r)' /\ ~Creating(r)'
    BY <2>3, <2>4 DEF Asked, Creating, OnConnection
  <2>6. JInv'
    BY <1>2, <2>2, <2>3, <2>5, OneAsked
  <2>7. AbstractCall(new) = Promise!NoCall
    BY <2>1, <2>3, CallSeen
  <2>8. QED
    BY <1>2, <1>3, <2>2, <2>3, <2>6, <2>7, Unseen DEF Step
<1>6. CASE in.route = "events" /\ Goes(r, "streaming")
  <2> DEFINE new == [req[r] EXCEPT !.pc = "streaming"]
  <2>1. req' = [req EXCEPT ![r] = new]
    BY <1>1, <1>6 DEF Goes
  <2>2. new \in RequestState /\ new.in = in /\ new.pc = "streaming" /\ new.had = req[r].had
        /\ new.status = 0
    BY <1>1, <1>2 DEF RequestState
  <2>3. req'[r] = new
    BY <1>1, <2>1
  <2>4. Asked(r)' /\ ~Creating(r)'
    BY <1>6, <2>2, <2>3 DEF Asked, Creating, OnConnection
  <2>5. JInv'
    BY <1>2, <2>1, <2>2, <2>4, OneAsked
  <2>6. AbstractCall(new) = Promise!NoCall
    BY <2>2, CallSeen
  <2>7. QED
    BY <1>2, <1>3, <2>1, <2>2, <2>5, <2>6, Unseen DEF Step
<1>7. CASE /\ Refusal(in) = 0 /\ in.route \in DataRoutes
           /\ req' = [req EXCEPT ![r] = [@ EXCEPT !.pc = "queued",
                                !.had = IF in.route = "me" THEN OwnedBy(in.token) ELSE {}]]
  <2> DEFINE had == IF in.route = "me" THEN OwnedBy(in.token) ELSE {}
             new == [req[r] EXCEPT !.pc = "queued", !.had = had]
  <2>1. req' = [req EXCEPT ![r] = new]
    BY <1>1, <1>7
  <2>2. had \in SUBSET Ids /\ in.token \in Users /\ (\A n \in had : row[n] = in.token)
    BY <1>1, <1>4, <1>7, Kinds DEF OwnedBy, RequestState
  <2>3. new \in RequestState /\ new.in = in /\ new.pc = "queued" /\ new.had = had
        /\ new.status = 0
    BY <1>1, <1>2, <2>2 DEF RequestState
  <2>4. req'[r] = new
    BY <1>1, <2>1
  <2> HIDE DEF new
  <2>5. Asked(r)'
    BY <1>7, <2>3, <2>4 DEF Asked, OnConnection
  <2>6. Creating(r)' => Creating(r) /\ new.in = req[r].in
    BY <1>1, <2>3, <2>4 DEF Creating
  <2>7. \A n \in new.had : row[n] # Nobody
    BY <2>2, <2>3, Kinds
  <2>8. JInv'
    BY <1>2, <2>1, <2>3, <2>5, <2>6, <2>7, OneAsked
  <2>9. AbstractCall(new) = CallAt("open", new, {}, "none")
    BY <2>3, CallSeen
  <2>10. in.id \in Ids \cup {NoId}
    BY <1>1, <1>7, ServerAssumption DEF RequestState, NoInput, DataRoutes, Input
  <2>11. Calls' = [Calls EXCEPT ![r] = CallAt("open", new, {}, "none")] /\ Calls[r] = Promise!NoCall
    BY <1>3, <2>1, <2>3, <2>9, OneCall DEF Calls
  <2>12. Stores' = Stores /\ Stores[in.token] = OwnedBy(in.token)
    BY <1>2, <2>2 DEF Stores, OwnedBy
  <2>13. had = IF in.route = "me" THEN Stores[in.token] ELSE {}
    BY <2>12 DEF had
  <2>14. CallAt("open", new, {}, "none")
           = [pc |-> "open", user |-> in.token, op |-> in.route, id |-> in.id, had |-> had,
              seen |-> {}, answer |-> "none"]
    BY <2>3 DEF CallAt
  <2> HIDE DEF had
  <2>15. Promise!Ask(r, in.token, in.route, in.id)
    BY <2>11, <2>12, <2>13, <2>14 DEF Promise!Ask, Calls, Stores
  <2>16. Promise!Next
    BY <1>7, <2>2, <2>10, <2>15 DEF Promise!Next, Promise!Ops, Promise!NoId, NoId, DataRoutes
  <2>17. QED
    BY <2>8, <2>16 DEF Step
<1>8. QED
  BY <1>5, <1>6, <1>7 DEF Verified

(* What UserStore does not see: a connection, set_config, a turn of a      *)
(* stream, a client that hangs up.                                         *)
LEMMA QuietStep ==
  ASSUME IInv, JInv, NEW r \in Slots,
         (\E c \in Conns : Begin(r, c)) \/ Bind(r) \/ HangUp(r)
           \/ (Tick(r) /\ req' = [req EXCEPT ![r].ticks = @ + 1] /\ req[r].ticks < SSE_DEMO_TICKS)
  PROVE  Step
<1>1. req \in [Slots -> RequestState] /\ req[r] \in RequestState
  BY DEF IInv, TypeOK, RequestState
<1>2. PICK new \in RequestState :
        /\ req' = [req EXCEPT ![r] = new]
        /\ new.in = req[r].in /\ new.status = req[r].status /\ new.had = req[r].had
        /\ new.seen = req[r].seen
        /\ \/ new.pc = req[r].pc
           \/ req[r].pc \in {"queued", "begun"} /\ new.pc \in {"begun", "bound"}
  <2>1. CASE \E c \in Conns : Begin(r, c)
    <3>1. PICK c \in Conns : Begin(r, c)
      BY <2>1
    <3> DEFINE new == [req[r] EXCEPT !.pc = "begun", !.conn = c]
    <3>2. req' = [req EXCEPT ![r] = new]
      BY <1>1, <3>1 DEF Begin
    <3>3. req[r].pc = "queued"
      <4>1. queue \in Seq(Slots) /\ queue # <<>> /\ Head(queue) = r
        BY <3>1 DEF Begin, IInv, TypeOK
      <4>2. 1 \in 1..Len(queue) /\ queue[1] = r
        BY <4>1
      <4>3. QED
        BY <4>2 DEF IInv, QueueWaits
    <3>4. /\ new \in RequestState /\ new.in = req[r].in /\ new.status = req[r].status
          /\ new.had = req[r].had /\ new.seen = req[r].seen /\ new.pc = "begun"
      BY <1>1 DEF RequestState, OnConnection
    <3> HIDE DEF new
    <3>5. QED
      BY <3>2, <3>3, <3>4
  <2>2. CASE Bind(r)
    <3> DEFINE new == [req[r] EXCEPT !.pc = "bound"]
    <3>1. req' = [req EXCEPT ![r] = new] /\ req[r].pc = "begun"
      BY <1>1, <2>2 DEF Bind, Goes
    <3>2. /\ new \in RequestState /\ new.in = req[r].in /\ new.status = req[r].status
          /\ new.had = req[r].had /\ new.seen = req[r].seen /\ new.pc = "bound"
      BY <1>1 DEF RequestState, OnConnection
    <3> HIDE DEF new
    <3>3. QED
      BY <3>1, <3>2
  <2>3. CASE HangUp(r)
    <3> DEFINE new == [req[r] EXCEPT !.gone = TRUE]
    <3>1. req' = [req EXCEPT ![r] = new]
      BY <1>1, <2>3 DEF HangUp
    <3>2. /\ new \in RequestState /\ new.in = req[r].in /\ new.status = req[r].status
          /\ new.had = req[r].had /\ new.seen = req[r].seen /\ new.pc = req[r].pc
      BY <1>1 DEF RequestState
    <3> HIDE DEF new
    <3>3. QED
      BY <3>1, <3>2
  <2>4. CASE Tick(r) /\ req' = [req EXCEPT ![r].ticks = @ + 1] /\ req[r].ticks < SSE_DEMO_TICKS
    <3> DEFINE new == [req[r] EXCEPT !.ticks = @ + 1]
    <3>1. req' = [req EXCEPT ![r] = new]
      BY <1>1, <2>4
    <3>2. /\ new \in RequestState /\ new.in = req[r].in /\ new.status = req[r].status
          /\ new.had = req[r].had /\ new.seen = req[r].seen /\ new.pc = req[r].pc
      BY <1>1, <2>4 DEF RequestState, SSE_DEMO_TICKS
    <3> HIDE DEF new
    <3>3. QED
      BY <3>1, <3>2
  <2>5. QED
    BY <2>1, <2>2, <2>3, <2>4
<1>3. row' = row /\ unused' \subseteq unused
  BY DEF Begin, Bind, HangUp, Tick
<1>4. req'[r] = new
  BY <1>1, <1>2
<1>5. Asked(r)'
  <2>1. Asked(r)
    BY DEF JInv
  <2>2. Deletes(r)' = Deletes(r) /\ Mine(r)' = Mine(r)
    BY <1>2, <1>3, <1>4 DEF Deletes, Mine, OwnedBy
  <2>3. QED
    BY <1>2, <1>4, <2>1, <2>2 DEF Asked, OnConnection
<1>6. Creating(r)' => Creating(r) /\ new.in = req[r].in
  BY <1>2, <1>4 DEF Creating, OnConnection
<1>7. new.pc = "ran" /\ Deletes(r)' => req[r].pc = "ran" /\ Deletes(r) /\ new.seen = req[r].seen
  BY <1>2, <1>4 DEF Deletes
<1>8. JInv'
  BY <1>2, <1>3, <1>5, <1>6, <1>7, OneAsked
<1>9. AbstractCall(new) = AbstractCall(req[r])
  <2>1. CASE new.pc = req[r].pc
    BY <1>2, <2>1 DEF AbstractCall, Admitted
  <2>2. CASE req[r].pc \in {"queued", "begun"} /\ new.pc \in {"begun", "bound"}
    <3>1. req[r].status = 0
      BY <2>2 DEF JInv, Asked, OnConnection
    <3>2. AbstractCall(new) = CallAt("open", new, {}, "none")
      BY <1>2, <2>2, <3>1, CallSeen
    <3>3. AbstractCall(req[r]) = CallAt("open", req[r], {}, "none")
      BY <2>2, <3>1, CallSeen
    <3>4. QED
      BY <1>2, <3>2, <3>3 DEF CallAt
  <2>3. QED
    BY <1>2, <2>1, <2>2
<1>10. QED
  BY <1>2, <1>3, <1>8, <1>9, Unseen DEF Step

(* The statement of the route: at once, after a lock, or not yet.          *)
LEMMA StatementStep ==
  ASSUME IInv, JInv, NEW r \in Slots, Run(r) \/ Unblock(r)
  PROVE  Step
<1> DEFINE in == req[r].in
<1>1. req \in [Slots -> RequestState] /\ req[r] \in RequestState /\ req[r].pc \in {"bound", "blocked"}
      /\ row' = row /\ unused' \subseteq unused
  BY DEF IInv, TypeOK, RequestState, Run, Unblock
<1>2. in.route \in DataRoutes /\ req[r].status = 0 /\ in.token # Nobody
  BY <1>1 DEF IInv, Guarded, JInv, Asked, OnConnection
<1>3. in.token \in Users /\ Visible(req[r].conn) = Mine(r) /\ Mine(r) \subseteq Ids
  <2>1. user[req[r].conn] = in.token
    BY <1>1 DEF IInv, Placed, OnConnection
  <2>2. QED
    BY <1>1, <1>2, <2>1, Kinds DEF Visible, Mine, OwnedBy, RequestState
<1>4. AbstractCall(req[r]) = CallAt("open", req[r], {}, "none")
  BY <1>1, <1>2, CallSeen
<1>5. CASE Run(r) /\ Deletes(r) /\ Found(r) \cap Locked(r) # {}
  <2> DEFINE new == [req[r] EXCEPT !.seen = Found(r), !.pc = "blocked"]
  <2>1. req' = [req EXCEPT ![r] = new]
    BY <1>1, <1>5 DEF Run
  <2>2. Found(r) \in SUBSET Ids
    BY <1>3 DEF Found
  <2>3. new \in RequestState /\ new.in = in /\ new.pc = "blocked" /\ new.had = req[r].had
        /\ new.seen = Found(r) /\ new.status = 0
    BY <1>1, <1>2, <2>2 DEF RequestState, OnConnection
  <2>4. req'[r] = new
    BY <1>1, <2>1
  <2> HIDE DEF new
  <2>5. Deletes(r)' /\ Mine(r)' = Mine(r)
    BY <1>1, <1>5, <2>3, <2>4 DEF Deletes, Mine, OwnedBy
  <2>6. in.route = "me" => Found(r) = Mine(r)
    BY <1>3 DEF Found
  <2>7. in.route = "delete" => Found(r) = {in.id}
    BY <1>3, <1>5 DEF Found
  <2>8. Asked(r)' /\ ~Creating(r)'
    BY <1>2, <2>3, <2>4, <2>5, <2>6, <2>7 DEF Asked, Creating, Deletes, OnConnection
  <2>9. JInv'
    BY <1>1, <2>1, <2>3, <2>8, OneAsked
  <2>10. AbstractCall(new) = CallAt("open", new, {}, "none")
    BY <2>3, CallSeen
  <2>11. AbstractCall(new) = AbstractCall(req[r])
    BY <1>4, <2>3, <2>10 DEF CallAt
  <2>12. QED
    BY <1>1, <2>1, <2>3, <2>9, <2>11, Unseen DEF Step
<1>6. CASE \/ Run(r) /\ ~(Deletes(r) /\ Found(r) \cap Locked(r) # {})
           \/ Unblock(r)
  <2> DEFINE seen == IF Run(r) THEN Found(r) ELSE req[r].seen \cap Visible(req[r].conn)
  <2>1. seen \in SUBSET Ids /\ (seen \subseteq Mine(r))
        /\ (in.route \in {"list", "me"} /\ Run(r) => seen = Mine(r))
        /\ (in.route \in {"get", "delete"} => seen = Mine(r) \cap {in.id})
        /\ (in.route = "create" => seen = {})
        /\ (in.route = "me" => req[r].had \cap Mine(r) \subseteq seen)
        /\ (Deletes(r) => seen \cap Locked(r) = {})
        /\ (Unblock(r) /\ ~Run(r) => Deletes(r))
    <3>1. CASE Run(r)
      <4>1. seen = Found(r)
        BY <3>1
      <4>2. Deletes(r) => seen \cap Locked(r) = {}
        BY <1>6, <3>1 DEF Unblock, Run
      <4>3. QED
        BY <1>3, <3>1, <4>1, <4>2 DEF Found
    <3>2. CASE ~Run(r)
      <4>1. Unblock(r) /\ req[r].pc = "blocked"
        BY <1>6, <3>2 DEF Unblock
      <4>2. Deletes(r) /\ (in.route = "delete" => req[r].seen = {in.id})
            /\ (in.route = "me" => req[r].had \cap Mine(r) \subseteq req[r].seen)
        BY <4>1 DEF JInv, Asked
      <4>3. seen = req[r].seen \cap Mine(r) /\ req[r].seen \cap Locked(r) = {}
        BY <1>3, <3>2, <4>1 DEF Unblock
      <4>4. QED
        BY <1>3, <3>2, <4>2, <4>3 DEF Deletes
    <3>3. QED
      BY <3>1, <3>2
  <2> DEFINE new == [req[r] EXCEPT !.pc = "ran", !.seen = seen]
  <2>2. req' = [req EXCEPT ![r] = new]
    BY <1>1, <1>6 DEF Run, Unblock
  <2>3. new \in RequestState /\ new.in = in /\ new.pc = "ran" /\ new.had = req[r].had
        /\ new.seen = seen /\ new.status = 0
    BY <1>1, <1>2, <2>1 DEF RequestState, OnConnection
  <2>4. req'[r] = new
    BY <1>1, <2>2
  <2> HIDE DEF new, seen
  <2>5. Deletes(r)' = Deletes(r) /\ Mine(r)' = Mine(r)
    BY <1>1, <2>3, <2>4 DEF Deletes, Mine, OwnedBy
  <2>6. Asked(r)'
    BY <1>2, <2>1, <2>3, <2>4, <2>5 DEF Asked, OnConnection
  <2>7. Creating(r)' => Creating(r) /\ new.in = req[r].in
    BY <1>1, <2>3, <2>4 DEF Creating, OnConnection
  <2>8. JInv'
    BY <1>1, <2>1, <2>2, <2>3, <2>5, <2>6, <2>7, OneAsked
  <2>9. AbstractCall(new) = CallAt("looked", new, seen, "none")
    BY <2>3, CallSeen
  <2>10. Calls' = [Calls EXCEPT ![r] = CallAt("looked", new, seen, "none")]
         /\ Calls[r] = CallAt("open", req[r], {}, "none")
    BY <1>4, <2>2, <2>3, <2>9, OneCall DEF Calls
  <2>11. Stores' = Stores /\ Stores[in.token] = Mine(r)
    BY <1>1, <1>3 DEF Stores, OwnedBy, Mine
  <2>12. CallAt("looked", new, seen, "none")
           = [CallAt("open", req[r], {}, "none") EXCEPT !.pc = "looked", !.seen = seen]
    <3>1. CallAt("looked", new, seen, "none") = CallAt("looked", req[r], seen, "none")
      BY <2>3 DEF CallAt
    <3>2. QED
      BY <3>1, CallLooks
  <2>13. Calls[r].pc = "open" /\ Calls[r].user = in.token /\ Calls[r].op = in.route
         /\ Calls[r].id = in.id /\ Calls[r].had = req[r].had
    BY <2>10 DEF CallAt
  <2>14. seen \in Promise!Finds(r)
    <3>1. CASE in.route = "list"
      <4>1. Run(r)
        BY <1>6, <2>1, <3>1 DEF Deletes
      <4>2. QED
        BY <2>1, <2>11, <2>13, <3>1, <4>1 DEF Promise!Finds, Calls, Stores
    <3>2. CASE in.route \in {"get", "delete"}
      BY <2>1, <2>11, <2>13, <3>2 DEF Promise!Finds, Calls, Stores
    <3>3. CASE in.route = "create"
      BY <2>1, <2>11, <2>13, <3>3 DEF Promise!Finds, Calls, Stores
    <3>4. CASE in.route = "me"
      BY <2>1, <2>11, <2>13, <3>4 DEF Promise!Finds, Calls, Stores
    <3>5. QED
      BY <1>2, <3>1, <3>2, <3>3, <3>4 DEF DataRoutes
  <2>15. Promise!Look(r)
    BY <2>10, <2>11, <2>12, <2>13, <2>14 DEF Promise!Look, Calls, Stores
  <2>16. QED
    BY <2>8, <2>15 DEF Step, Promise!Next
<1>7. QED
  BY <1>5, <1>6

(* What a commit does to the table: one person's store changes, by the id  *)
(* of a new note or by rows a deletion has locked.                         *)
LEMMA Effects ==
  ASSUME IInv, JInv, NEW r \in Slots, req[r].pc = "ran", TakesEffect(r)
  PROVE  /\ req[r].in.token \in Users /\ req[r].in.route \in DataRoutes /\ req[r].status = 0
         /\ req[r].in.route = "create" => req[r].in.id \in Ids /\ NeverUsed(req[r].in.id)
         /\ \A v \in Users :
              OwnedBy(v)' = IF v # req[r].in.token THEN OwnedBy(v)
                            ELSE IF req[r].in.route = "create" THEN OwnedBy(v) \cup {req[r].in.id}
                            ELSE IF Deletes(r) THEN OwnedBy(v) \ req[r].seen
                            ELSE OwnedBy(v)
         /\ \A n \in Ids : row[n] = Nobody /\ ~(req[r].in.route = "create" /\ n = req[r].in.id)
                           => row'[n] = Nobody
<1> DEFINE in == req[r].in
<1>1. req[r] \in RequestState /\ row \in [Ids -> Users \cup {Nobody}]
  BY DEF IInv, TypeOK, RequestState
<1>2. in.route \in DataRoutes /\ req[r].status = 0 /\ in.token # Nobody
  BY DEF IInv, Guarded, JInv, Asked, OnConnection
<1>3. in.token \in Users
  BY <1>1, <1>2, Kinds DEF RequestState
<1>4. in.route = "create" => in.id \in Ids /\ NeverUsed(in.id)
  <2>1. in.route = "create" => NeverUsed(in.id)
    BY DEF JInv, NewIds, Creating, OnConnection
  <2>2. in.route = "create" => in.id \in Ids
    BY <1>1, ServerAssumption DEF RequestState, NoInput, Input
  <2>3. QED
    BY <2>1, <2>2
<1>5. row' = [n \in Ids |-> IF in.route = "create" /\ n = in.id THEN in.token
                            ELSE IF Deletes(r) /\ n \in req[r].seen THEN Nobody
                            ELSE row[n]]
  BY DEF TakesEffect
<1>6. Deletes(r) => in.route # "create" /\ \A n \in req[r].seen : n \in Ids /\ row[n] = in.token
  BY DEF JInv, Asked, Deletes, Mine, OwnedBy
<1>7. in.route = "create" => row[in.id] = Nobody /\ ~Deletes(r)
  BY <1>4 DEF NeverUsed, Deletes
<1> HIDE DEF in
<1>8. ASSUME NEW v \in Users
      PROVE  OwnedBy(v)' = IF v # in.token THEN OwnedBy(v)
                           ELSE IF in.route = "create" THEN OwnedBy(v) \cup {in.id}
                           ELSE IF Deletes(r) THEN OwnedBy(v) \ req[r].seen
                           ELSE OwnedBy(v)
  <2>1. v # Nobody
    BY Kinds
  <2>2. CASE in.route = "create"
    <3>1. \A n \in Ids : row'[n] = IF n = in.id THEN in.token ELSE row[n]
      BY <1>5, <1>7, <2>2
    <3>2. QED
      BY <1>4, <1>7, <2>1, <2>2, <3>1 DEF OwnedBy
  <2>3. CASE in.route # "create"
    <3>1. \A n \in Ids : row'[n] = IF Deletes(r) /\ n \in req[r].seen THEN Nobody ELSE row[n]
      BY <1>5, <2>3
    <3>2. QED
      BY <1>6, <2>1, <2>3, <3>1 DEF OwnedBy
  <2>4. QED
    BY <2>2, <2>3
<1>9. \A n \in Ids : row[n] = Nobody /\ ~(in.route = "create" /\ n = in.id) => row'[n] = Nobody
  BY <1>5
<1>10. QED
  BY <1>2, <1>3, <1>4, <1>8, <1>9 DEF in

(* A transaction ends with its effect: COMMIT, heard or not.               *)
LEMMA CommitStep ==
  ASSUME IInv, JInv, NEW r \in Slots, Commit(r) \/ CommitLost(r)
  PROVE  Step
<1> DEFINE in     == req[r].in
           status == IF Commit(r) THEN Status(r) ELSE 500
           new    == [req[r] EXCEPT !.pc = "answered", !.status = status, !.conn = NoConn,
                                    !.had = {}, !.seen = {}]
<1>1. req \in [Slots -> RequestState] /\ req[r] \in RequestState /\ req[r].pc = "ran"
      /\ TakesEffect(r) /\ unused' = unused
  BY DEF IInv, TypeOK, RequestState, Commit, CommitLost
<1>2. /\ in.token \in Users /\ in.route \in DataRoutes /\ req[r].status = 0
      /\ in.route = "create" => in.id \in Ids /\ NeverUsed(in.id)
      /\ \A v \in Users :
           OwnedBy(v)' = IF v # in.token THEN OwnedBy(v)
                         ELSE IF in.route = "create" THEN OwnedBy(v) \cup {in.id}
                         ELSE IF Deletes(r) THEN OwnedBy(v) \ req[r].seen
                         ELSE OwnedBy(v)
      /\ \A n \in Ids : row[n] = Nobody /\ ~(in.route = "create" /\ n = in.id) => row'[n] = Nobody
  BY <1>1, Effects
<1>3. status \in Nat /\ status \in {200, 201, 204, 404, 500}
      /\ AbstractAnswer(status) = IF Commit(r)
                                  THEN IF in.route \in {"get", "delete"} /\ req[r].seen = {}
                                       THEN "absent" ELSE "ok"
                                  ELSE "error"
  BY DEF Status, AbstractAnswer
<1>4. req' = [req EXCEPT ![r] = new]
  BY <1>1 DEF Commit, CommitLost, Answers
<1> HIDE DEF status
<1>5. /\ new \in RequestState /\ new.in = in /\ new.status = status /\ new.pc = "answered"
      /\ \A n \in new.had : FALSE
  BY <1>1, <1>3 DEF RequestState
<1>6. req'[r] = new /\ \A q \in Slots \ {r} : req'[q] = req[q]
  BY <1>1, <1>4
<1>7. new.had = {}
  OBVIOUS
<1> HIDE DEF new
<1>8. \A q \in Slots \ {r} : Asked(q)'
  <2> SUFFICES ASSUME NEW q \in Slots \ {r} PROVE Asked(q)'
    OBVIOUS
  <2>1. Asked(q) /\ req'[q] = req[q] /\ Deletes(q)' = Deletes(q)
    BY <1>6 DEF JInv, Deletes
  <2>2. req[q].pc \in {"blocked", "ran"} => req[q].in.token \in Users
    BY <1>1, Kinds DEF IInv, TypeOK, Guarded, OnConnection
  <2>3. req[q].pc = "blocked" => req[q].had \cap Mine(q)' \subseteq Mine(q)
    BY <1>2, <2>1, <2>2 DEF Mine, NeverUsed
  <2>4. req[q].pc = "ran" /\ Deletes(q) => req[q].seen \subseteq Mine(q)'
    <3>1. req[q].pc = "ran" /\ Deletes(q) /\ Deletes(r) => req[q].seen \cap req[r].seen = {}
      BY <1>1 DEF JInv, LocksApart
    <3>2. Deletes(r) => in.route # "create"
      BY DEF Deletes
    <3>3. req[q].pc = "ran" /\ Deletes(q) => req[q].seen \subseteq Mine(q)
      BY <2>1 DEF Asked
    <3>4. QED
      BY <1>2, <2>1, <2>2, <3>1, <3>2, <3>3 DEF Mine
  <2>5. QED
    BY <2>1, <2>3, <2>4 DEF Asked
<1>9. Asked(r)' /\ ~Creating(r)'
  BY <1>5, <1>6 DEF Asked, Creating, OnConnection
<1>10. LocksApart'
  BY <1>5, <1>6 DEF JInv, LocksApart, Deletes
<1>11. NewIds'
  <2>1. \A n \in Ids : NeverUsed(n) /\ ~(in.route = "create" /\ n = in.id) => NeverUsed(n)'
    BY <1>2, <1>5, <1>6 DEF NeverUsed
  <2>2. Creating(r) <=> in.route = "create"
    BY <1>1 DEF Creating, OnConnection
  <2>3. \A q \in Slots \ {r} : /\ Creating(q)' <=> Creating(q)
                               /\ Creating(q) => req[q].in.id \in Ids
    <3>1. \A q \in Slots : req[q].in \in Inputs \cup {NoInput}
      BY <1>1 DEF RequestState
    <3>2. QED
      BY <1>6, <3>1, ServerAssumption DEF Creating, Input, NoInput
  <2>4. \A n \in unused : NeverUsed(n)'
    BY <1>1, <2>1, <2>2 DEF IInv, TypeOK, JInv, NewIds
  <2>5. \A q \in Slots \ {r} : Creating(q)' => NeverUsed(req[q].in.id)' /\ req[q].in.id \notin unused
    BY <1>6, <2>1, <2>2, <2>3 DEF JInv, NewIds, NeverUsed
  <2>6. \A q, p \in Slots : Creating(q)' /\ Creating(p)' /\ req'[q].in.id = req'[p].in.id => q = p
    BY <1>6, <1>9, <2>3 DEF JInv, NewIds
  <2>7. \A q \in Slots : Creating(q)' => NeverUsed(req[q].in.id)' /\ req'[q].in.id \notin unused'
    BY <1>1, <1>6, <1>9, <2>5
  <2>8. QED
    BY <1>1, <2>4, <2>6, <2>7 DEF NewIds
<1>12. JInv'
  BY <1>8, <1>9, <1>10, <1>11 DEF JInv
<1>13. Calls[r] = CallAt("looked", req[r], req[r].seen, "none")
  BY <1>1, <1>2, CallSeen DEF Calls
<1>14. Calls[r].pc = "looked" /\ Calls[r].user = in.token /\ Calls[r].op = in.route
       /\ Calls[r].id = in.id /\ Calls[r].seen = req[r].seen
  BY <1>13 DEF CallAt
<1>15. Calls' = [Calls EXCEPT ![r] =
                   [@ EXCEPT !.pc = "answered", !.answer = AbstractAnswer(status), !.had = {}, !.seen = {}]]
  <2>1. AbstractCall(new) = CallAt("answered", new, {}, AbstractAnswer(status))
    BY <1>2, <1>3, <1>5, CallSeen
  <2>2. CallAt("answered", new, {}, AbstractAnswer(status))
          = Answered(CallAt("looked", req[r], req[r].seen, "none"), AbstractAnswer(status))
    BY <1>5, <1>7, CallAnswers
  <2>3. Calls' = [Calls EXCEPT ![r] = AbstractCall(new)]
    BY <1>4, <1>5, OneCall
  <2>4. QED
    BY <1>13, <2>1, <2>2, <2>3 DEF Answered
<1>16. Promise!Answers(r, AbstractAnswer(status))
  BY <1>15 DEF Promise!Answers, Calls
<1>17. Promise!Effect(r)
  <2>1. Stores' = [Stores EXCEPT ![in.token] =
                     IF in.route = "create" THEN @ \cup {in.id}
                     ELSE IF Deletes(r) THEN @ \ req[r].seen
                     ELSE @]
    BY <1>2 DEF Stores
  <2>2. Deletes(r) <=> Promise!Deletes(r)
    BY <1>14 DEF Deletes, Promise!Deletes, Calls
  <2>3. Deletes(r) => req[r].seen \subseteq Stores[in.token]
    BY <1>1, <1>2 DEF JInv, Asked, Mine, Stores
  <2>4. QED
    BY <1>14, <2>1, <2>2, <2>3 DEF Promise!Effect, Calls, Stores
<1>18. CASE Commit(r)
  <2>1. Promise!Outcome(r) = AbstractAnswer(status)
    BY <1>3, <1>14, <1>18 DEF Promise!Outcome, Calls
  <2>2. Promise!Finish(r)
    BY <1>16, <1>17, <2>1 DEF Promise!Finish
  <2>3. QED
    BY <1>12, <2>2 DEF Step, Promise!Next
<1>19. CASE ~Commit(r)
  <2>1. Promise!Fail(r)
    BY <1>3, <1>14, <1>16, <1>17, <1>19 DEF Promise!Fail, Calls
  <2>2. QED
    BY <1>12, <2>1 DEF Step, Promise!Next
<1>20. QED
  BY <1>18, <1>19

(* A request is answered without an effect.                                *)
LEMMA RefusedStep ==
  ASSUME IInv, JInv, NEW r \in Slots, NEW status \in Nat, Answers(r, status), row' = row,
         unused' = unused,
         \/ status = 500 /\ req[r].pc \in OnConnection \cup {"queued"}
         \/ status = 200 /\ req[r].pc = "streaming"
  PROVE  Step
<1> DEFINE in  == req[r].in
           new == [req[r] EXCEPT !.pc = "answered", !.status = status, !.conn = NoConn,
                                 !.had = {}, !.seen = {}]
<1>1. req \in [Slots -> RequestState] /\ req[r] \in RequestState /\ status \in Nat
  BY DEF IInv, TypeOK, RequestState
<1>2. req' = [req EXCEPT ![r] = new]
  BY <1>1 DEF Answers
<1>3. /\ new \in RequestState /\ new.in = in /\ new.status = status /\ new.pc = "answered"
      /\ \A n \in new.had : FALSE
  BY <1>1 DEF RequestState
<1>4. new.had = {}
  OBVIOUS
<1> HIDE DEF new
<1>5. req'[r] = new /\ new \in RequestState
  BY <1>1, <1>2, <1>3
<1>6. Asked(r)' /\ ~Creating(r)'
  BY <1>3, <1>5 DEF Asked, Creating, OnConnection
<1>7. JInv'
  BY <1>2, <1>3, <1>6, OneAsked
<1>8. CASE status = 200 /\ req[r].pc = "streaming"
  <2>1. in.route \notin DataRoutes
    BY <1>8 DEF JInv, Asked, DataRoutes
  <2>2. AbstractCall(new) = Promise!NoCall
    BY <1>3, <2>1, CallSeen
  <2>3. AbstractCall(req[r]) = Promise!NoCall
    BY <1>8, CallSeen
  <2>4. AbstractCall(new) = AbstractCall(req[r])
    BY <2>2, <2>3
  <2>5. UNCHANGED Promise!vars
    BY <1>2, <1>5, <2>4, Unseen
  <2>6. QED
    BY <1>7, <2>5 DEF Step
<1>9. CASE status = 500 /\ req[r].pc \in OnConnection \cup {"queued"}
  <2>1. in.route \in DataRoutes /\ req[r].status = 0
    BY <1>9 DEF JInv, Asked
  <2>2. PICK pc \in {"open", "looked"}, seen \in {{}, req[r].seen} :
          AbstractCall(req[r]) = CallAt(pc, req[r], seen, "none")
    BY <1>9, <2>1, CallSeen DEF OnConnection
  <2>3. AbstractAnswer(500) = "error"
    BY DEF AbstractAnswer
  <2>4. AbstractCall(new) = CallAt("answered", new, {}, "error")
    BY <1>3, <1>9, <2>1, <2>3, CallSeen
  <2>5. CallAt("answered", new, {}, "error") = Answered(CallAt(pc, req[r], seen, "none"), "error")
    BY <1>3, <1>4, CallAnswers
  <2>6. Calls[r] = CallAt(pc, req[r], seen, "none")
    BY <2>2 DEF Calls
  <2>7. Calls' = [Calls EXCEPT ![r] = AbstractCall(new)]
    BY <1>2, <1>5, OneCall
  <2>8. Calls' = [Calls EXCEPT ![r] = [@ EXCEPT !.pc = "answered", !.answer = "error",
                                                !.had = {}, !.seen = {}]]
    BY <2>4, <2>5, <2>6, <2>7 DEF Answered
  <2>9. Calls[r].pc \in {"open", "looked"}
    BY <2>6 DEF CallAt
  <2>10. Stores' = Stores
    BY DEF Stores, OwnedBy
  <2>11. Promise!Fail(r)
    BY <2>8, <2>9, <2>10 DEF Promise!Fail, Promise!Answers, Calls, Stores
  <2>12. QED
    BY <1>7, <2>11 DEF Step, Promise!Next
<1>10. QED
  BY <1>8, <1>9

(* The client has its answer.                                              *)
LEMMA SentStep ==
  ASSUME IInv, JInv, NEW r \in Slots, Sent(r)
  PROVE  Step
<1>1. req \in [Slots -> RequestState] /\ req[r].pc = "answered" /\ NoRequest \in RequestState
      /\ req' = [req EXCEPT ![r] = NoRequest] /\ UNCHANGED <<row, unused>>
  BY Kinds DEF IInv, TypeOK, RequestState, Sent
<1>2. req'[r] = NoRequest /\ NoRequest.pc = "idle" /\ \A n \in NoRequest.had : FALSE
  BY <1>1 DEF NoRequest
<1>3. Asked(r)' /\ ~Creating(r)'
  BY <1>2 DEF Asked, Creating, OnConnection
<1>4. JInv'
  BY <1>1, <1>2, <1>3, OneAsked
<1>5. AbstractCall(NoRequest) = Promise!NoCall
  BY <1>2, CallSeen
<1>6. CASE AbstractCall(req[r]) = Promise!NoCall
  BY <1>1, <1>4, <1>5, <1>6, Unseen DEF Step
<1>7. CASE AbstractCall(req[r]) = CallAt("answered", req[r], {}, AbstractAnswer(req[r].status))
  <2>1. Calls' = [Calls EXCEPT ![r] = Promise!NoCall]
    BY <1>1, <1>5, OneCall
  <2>2. Calls[r].pc = "answered"
    BY <1>7 DEF Calls, CallAt
  <2>3. Stores' = Stores
    BY <1>1 DEF Stores, OwnedBy
  <2>4. Promise!Done(r)
    BY <2>1, <2>2, <2>3 DEF Promise!Done, Calls, Stores
  <2>5. QED
    BY <1>4, <2>4 DEF Step, Promise!Next
<1>8. QED
  BY <1>1, <1>6, <1>7, CallSeen

(* A signal, and the end of the process.                                   *)
LEMMA ProcessStep ==
  ASSUME IInv, JInv, Shutdown \/ ServerClosed \/ Exit0 \/ Exit1 \/ Killed \/ Start
  PROVE  Step
<1>1. row' = row /\ unused' = unused
  BY DEF Shutdown, ServerClosed, Exit0, Exit1, Killed, Start, Dies
<1>2. Stores' = Stores
  BY <1>1 DEF Stores, OwnedBy
<1>3. CASE Shutdown \/ ServerClosed \/ Start
  <2>1. req' = req
    BY <1>3 DEF Shutdown, ServerClosed, Start
  <2>2. JInv'
    BY <1>1, <2>1 DEF JInv, LocksApart, NewIds, NeverUsed, Creating, Asked, Mine, OwnedBy, Deletes
  <2>3. Calls' = Calls
    BY <2>1 DEF Calls
  <2>4. QED
    BY <1>2, <2>2, <2>3 DEF Step, Promise!vars, Calls, Stores
<1>4. CASE Exit0 \/ Exit1 \/ Killed
  <2>1. req' = [r \in Slots |-> NoRequest]
    BY <1>4 DEF Exit0, Exit1, Killed, Dies
  <2>2. \A r \in Slots : req'[r].pc = "idle" /\ \A n : n \notin req'[r].had
    BY <2>1 DEF NoRequest
  <2>3. LocksApart' /\ \A r \in Slots : Asked(r)' /\ ~Creating(r)'
    BY <2>2 DEF LocksApart, Asked, Creating, OnConnection
  <2>4. \A n \in unused' : NeverUsed(n)'
    BY <1>1, <2>2 DEF JInv, NewIds, NeverUsed
  <2>5. JInv'
    BY <2>3, <2>4 DEF JInv, NewIds
  <2>6. Calls' = [r \in Slots |-> Promise!NoCall]
    <3>1. AbstractCall(NoRequest) = Promise!NoCall
      BY CallSeen DEF NoRequest
    <3>2. QED
      BY <2>1, <3>1 DEF Calls
  <2>7. Promise!Stop
    BY <1>2, <2>6 DEF Promise!Stop, Calls, Stores
  <2>8. QED
    BY <2>5, <2>7 DEF Step, Promise!Next
<1>5. QED
  BY <1>3, <1>4

-----------------------------------------------------------------------------
(* The initial states agree, and every step is a step of UserStore or none. *)
LEMMA InitStep == Init => JInv /\ Promise!Init
<1> SUFFICES ASSUME Init PROVE JInv /\ Promise!Init
  OBVIOUS
<1>1. req = [r \in Slots |-> NoRequest] /\ row = [n \in Ids |-> Nobody] /\ unused = Ids
  BY DEF Init
<1>2. \A r \in Slots : req[r].pc = "idle" /\ \A n : n \notin req[r].had
  BY <1>1 DEF NoRequest
<1>3. LocksApart /\ \A r \in Slots : Asked(r) /\ ~Creating(r)
  BY <1>2 DEF LocksApart, Asked, Creating, OnConnection
<1>4. JInv
  BY <1>1, <1>2, <1>3 DEF JInv, NewIds, NeverUsed
<1>5. \A u \in Users : OwnedBy(u) = {}
  BY <1>1, Kinds DEF OwnedBy
<1>6. AbstractCall(NoRequest) = Promise!NoCall
  BY CallSeen DEF NoRequest
<1>7. QED
  BY <1>1, <1>4, <1>5, <1>6 DEF Promise!Init

(* Each step of the server is a step of the promise or none.               *)
LEMMA NextStep == IInv /\ JInv /\ [Next]_vars => Step
<1> SUFFICES ASSUME IInv, JInv, [Next]_vars PROVE Step
  OBVIOUS
<1>1. CASE Request
  BY <1>1, ArriveStep
<1>2. CASE \E r \in Slots : Handling(r) \/ Unblock(r) \/ HangUp(r)
  <2>1. PICK r \in Slots : Handling(r) \/ Unblock(r) \/ HangUp(r)
    BY <1>2
  <2>2. CASE (\E c \in Conns : Begin(r, c)) \/ Bind(r) \/ HangUp(r)
    BY <2>2, QuietStep
  <2>3. CASE Verified(r)
    BY <2>3, VerifiedStep
  <2>4. CASE Run(r) \/ Unblock(r)
    BY <2>4, StatementStep
  <2>5. CASE Commit(r) \/ CommitLost(r)
    BY <2>5, CommitStep
  <2>6. CASE Fail(r)
    BY <2>6, RefusedStep DEF Fail
  <2>7. CASE Ended(r)
    <3>1. queue \in Seq(Slots) /\ queue # <<>> /\ Head(queue) = r
      BY <2>7 DEF Ended, IInv, TypeOK
    <3>2. 1 \in 1..Len(queue) /\ queue[1] = r
      BY <3>1
    <3>3. req[r].pc = "queued"
      BY <3>2 DEF IInv, QueueWaits
    <3>4. QED
      BY <2>7, <3>3, RefusedStep DEF Ended
  <2>8. CASE Tick(r)
    BY <2>8, QuietStep, RefusedStep DEF Tick
  <2>9. CASE Sent(r)
    BY <2>9, SentStep
  <2>10. QED
    BY <2>1, <2>2, <2>3, <2>4, <2>5, <2>6, <2>7, <2>8, <2>9 DEF Handling, Transaction
<1>3. CASE Shutdown \/ ServerClosed \/ Exit0 \/ Exit1 \/ Killed \/ Start
  BY <1>3, ProcessStep
<1>4. CASE UNCHANGED vars
  <2>1. JInv'
    BY <1>4 DEF vars, JInv, LocksApart, NewIds, NeverUsed, Creating, Asked, Mine, OwnedBy, Deletes
  <2>2. Calls' = Calls /\ Stores' = Stores
    BY <1>4 DEF vars, Calls, Stores, OwnedBy
  <2>3. QED
    BY <2>1, <2>2 DEF Step, Promise!vars, Calls, Stores
<1>5. QED
  BY <1>1, <1>2, <1>3, <1>4 DEF Next

(* dal/, db/context.ts, drizzle/: with one table, a shared pool and row    *)
(* level security the server keeps each person's store apart, whatever     *)
(* fails, waits or is killed, and answers for that person's store alone.   *)
THEOREM Refines == Spec => ImplementsUserStore
<1>1. IInv /\ JInv /\ [Next]_vars => JInv' /\ [Promise!Next]_Promise!vars
  BY NextStep DEF Step
<1>2. QED
  BY <1>1, InitIInv, NextIInv, InitStep, PTL DEF Spec, ImplementsUserStore, Promise!Spec
=============================================================================
