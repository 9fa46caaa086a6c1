-------------------------------- MODULE Server --------------------------------
(***************************************************************************)
(* The API server: the guards every request passes (app.ts, middleware/,   *)
(* auth/verify.ts), the transaction each data route runs in (db/context.ts, *)
(* dal/), the table with its row level security (drizzle/), the pool of    *)
(* connections the transactions share, and the shutdown of the process     *)
(* (index.ts).                                                             *)
(*                                                                         *)
(* A step is what runs between two awaits.  Postgres and its driver are    *)
(* external: READ COMMITTED, a row lock held by a deletion until it        *)
(* commits, a first-in first-out queue for connections.  No statement      *)
(* names an owner: what a transaction sees follows from app.user_id.       *)
(***************************************************************************)
EXTENDS Naturals, Sequences

CONSTANTS
  Users,   \* people whose tokens verify
  Slots,   \* bound: requests being handled at a time
  Conns,   \* the connections of the pool, numbered
  Ids,     \* bound: notes ever created
  Inputs   \* the requests clients make

Nobody == "nobody"
NoId   == 0
NoConn == 0
DataRoutes == {"list", "create", "get", "delete", "me"}
ApiRoutes  == DataRoutes \cup {"events", "unknown"}
OpenRoutes == {"preflight", "healthz", "elsewhere"}

\* A request, as far as the guards look at it.  Nobody's token is missing or
\* does not verify; id is a note named in the path.
Input == [route : ApiRoutes \cup OpenRoutes, token : Users \cup {Nobody},
          skewed : BOOLEAN, fits : BOOLEAN, valid : BOOLEAN, id : Ids \cup {NoId}]

ASSUME ServerAssumption ==
  /\ Nobody \notin Users
  /\ Conns \subseteq Nat \ {0} /\ Ids \subseteq Nat \ {0}
  /\ Inputs \subseteq Input /\ \A in \in Inputs : in.route = "create" => in.id # NoId

VARIABLES
  proc,      \* the process: "up", "draining", "closing" or "down"
  exitCode,  \* of the process that is down
  req,       \* Slots -> the request being handled
  queue,     \* slots waiting for a connection
  user,      \* Conns -> app.user_id of the open transaction; '' is Nobody
  row,       \* Ids -> the owner of the committed row, or Nobody
  unused     \* ids gen_random_uuid has not given out

vars == <<proc, exitCode, req, queue, user, row, unused>>

NoInput == [route |-> "none", token |-> Nobody, skewed |-> FALSE, fits |-> TRUE,
            valid |-> TRUE, id |-> NoId]
NoRequest == [pc |-> "idle", in |-> NoInput, conn |-> NoConn, seen |-> {}, had |-> {},
              ticks |-> 0, status |-> 0, gone |-> FALSE]

OnConnection == {"begun", "bound", "blocked", "ran"}

Init ==
  /\ proc = "up" /\ exitCode = 0
  /\ req = [r \in Slots |-> NoRequest] /\ queue = <<>>
  /\ user = [c \in Conns |-> Nobody]
  /\ row = [n \in Ids |-> Nobody] /\ unused = Ids

-----------------------------------------------------------------------------
(***************************************************************************)
(* The guards.                                                             *)
(***************************************************************************)
Goes(r, pc) == req' = [req EXCEPT ![r].pc = pc]
\* apiError, c.json and c.body: every answer.
Answers(r, status) ==
  req' = [req EXCEPT ![r] = [@ EXCEPT !.pc = "answered", !.status = status, !.conn = NoConn,
                                      !.had = {}, !.seen = {}]]

OwnedBy(u) == {n \in Ids : row[n] = u}

\* What is answered before the first await: a preflight before any guard, a
\* route outside /api/* past them, and a skewed client before its token is
\* looked at.
FirstStatus(in) ==
  CASE in.route = "preflight" -> 204
    [] in.route = "healthz"   -> 200
    [] in.route = "elsewhere" -> 404
    [] OTHER                  -> IF in.skewed THEN 409 ELSE 0

Arrive(r, in) ==
  /\ proc = "up" /\ req[r].pc = "idle"
  /\ LET status == FirstStatus(in)
     IN req' = [req EXCEPT ![r] =
                  [NoRequest EXCEPT !.in = in, !.status = status,
                     !.pc = IF status = 0 THEN "verifying" ELSE "answered"]]
  /\ unused' = unused \ (IF in.route = "create" THEN {in.id} ELSE {})
  /\ UNCHANGED <<proc, exitCode, queue, user, row>>

\* A create's id is the next new one; any other is of a note there once was.
Request ==
  \E r \in Slots, in \in Inputs :
    /\ in.id # NoId => IF in.route = "create" THEN in.id \in unused /\ \A n \in unused : in.id <= n
                       ELSE in.id \notin unused
    /\ Arrive(r, in)

\* Wrong: the body is validated before the token.
WrongRefusal(in) ==
  IF ~in.valid THEN 400
  ELSE IF in.token = Nobody THEN 401
  ELSE IF ~in.fits THEN 413
  ELSE IF in.route = "unknown" THEN 404
  ELSE 0

\* The guards after the first await, in their order; 0 lets the request in.
Refusal(in) ==
  IF in.token = Nobody THEN 401
  ELSE IF ~in.fits THEN 413
  ELSE IF in.route = "unknown" THEN 404
  ELSE IF ~in.valid THEN 400
  ELSE 0

\* verifyToken has come back.  A key set that cannot be fetched is a 401 too.
Verified(r) ==
  /\ req[r].pc = "verifying"
  /\ LET in == req[r].in
     IN \/ /\ Answers(r, IF Refusal(in) = 0 THEN 401 ELSE Refusal(in))
           /\ UNCHANGED queue
        \/ /\ Refusal(in) = 0 /\ in.route = "events"
           /\ Goes(r, "streaming") /\ UNCHANGED queue
        \/ /\ Refusal(in) = 0 /\ in.route \in DataRoutes
           /\ req' = [req EXCEPT ![r] = [@ EXCEPT !.pc = "queued",
                                !.had = IF in.route = "me" THEN OwnedBy(in.token) ELSE {}]]
           /\ queue' = Append(queue, r)
  /\ UNCHANGED <<proc, exitCode, user, row, unused>>

-----------------------------------------------------------------------------
(***************************************************************************)
(* One transaction per data route.                                         *)
(***************************************************************************)
Busy(c) == \E r \in Slots : req[r].conn = c

\* BEGIN, on a free connection: they are all alike, so the first will do.  A
\* client being closed takes no more.
Begin(r, c) ==
  /\ proc # "closing"
  /\ queue # <<>> /\ Head(queue) = r
  /\ ~Busy(c) /\ \A d \in Conns : d < c => Busy(d)
  /\ queue' = Tail(queue)
  /\ req' = [req EXCEPT ![r] = [@ EXCEPT !.pc = "begun", !.conn = c]]
  /\ UNCHANGED <<proc, exitCode, user, row, unused>>

\* set_config('app.user_id', ..., true).
Bind(r) ==
  /\ req[r].pc = "begun"
  /\ Goes(r, "bound")
  /\ user' = [user EXCEPT ![req[r].conn] = req[r].in.token]
  /\ UNCHANGED <<proc, exitCode, queue, row, unused>>

\* Wrong: the policies are missing, and no statement names the owner.
WrongVisible(c) == {n \in Ids : row[n] # Nobody}
\* The policies: the rows of app.user_id, and none at all when it is not set.
Visible(c) == IF user[c] = Nobody THEN {} ELSE OwnedBy(user[c])

Deletes(r) == req[r].in.route \in {"delete", "me"}
\* Rows another transaction has deleted and not committed.
Locked(r) == UNION {req[q].seen : q \in {q \in Slots \ {r} : req[q].pc = "ran" /\ Deletes(q)}}

Found(r) ==
  LET visible == Visible(req[r].conn)
  IN CASE req[r].in.route \in {"list", "me"}    -> visible
       [] req[r].in.route \in {"get", "delete"} -> visible \cap {req[r].in.id}
       [] OTHER                                 -> {}

\* The statement of the route.  A deletion waits for rows that are locked.
Run(r) ==
  /\ req[r].pc = "bound"
  /\ req' = [req EXCEPT ![r] = [@ EXCEPT !.seen = Found(r),
                !.pc = IF Deletes(r) /\ Found(r) \cap Locked(r) # {} THEN "blocked" ELSE "ran"]]
  /\ UNCHANGED <<proc, exitCode, queue, user, row, unused>>

\* The lock is free: rows that are gone by now are passed over.
Unblock(r) ==
  /\ req[r].pc = "blocked" /\ req[r].seen \cap Locked(r) = {}
  /\ req' = [req EXCEPT ![r] = [@ EXCEPT !.pc = "ran", !.seen = req[r].seen \cap Visible(req[r].conn)]]
  /\ UNCHANGED <<proc, exitCode, queue, user, row, unused>>

TakesEffect(r) ==
  row' = [n \in Ids |->
            IF req[r].in.route = "create" /\ n = req[r].in.id THEN req[r].in.token
            ELSE IF Deletes(r) /\ n \in req[r].seen THEN Nobody
            ELSE row[n]]

\* Wrong: app.user_id is set for the session, not for the transaction.
WrongRelease(r) == UNCHANGED user
\* The end of the transaction takes the local setting with it.
Release(r) ==
  user' = IF req[r].conn = NoConn THEN user ELSE [user EXCEPT ![req[r].conn] = Nobody]

Status(r) ==
  IF req[r].in.route \in {"get", "delete"} /\ req[r].seen = {} THEN 404
  ELSE IF req[r].in.route = "create" THEN 201
  ELSE IF Deletes(r) THEN 204
  ELSE 200

Commit(r) ==
  /\ req[r].pc = "ran"
  /\ TakesEffect(r) /\ Release(r)
  /\ Answers(r, Status(r))
  /\ UNCHANGED <<proc, exitCode, queue, unused>>

\* An error at any await: rolled back, and onErrorHandler answers 500.
Fail(r) ==
  /\ req[r].pc \in OnConnection
  /\ Release(r)
  /\ Answers(r, 500)
  /\ UNCHANGED <<proc, exitCode, queue, row, unused>>

\* The connection is lost with the COMMIT under way.
CommitLost(r) ==
  /\ req[r].pc = "ran"
  /\ TakesEffect(r) /\ Release(r)
  /\ Answers(r, 500)
  /\ UNCHANGED <<proc, exitCode, queue, unused>>

\* CONNECTION_ENDED: the driver refuses what it has not begun.
Ended(r) ==
  /\ proc = "closing" /\ queue # <<>> /\ Head(queue) = r
  /\ queue' = Tail(queue) /\ Answers(r, 500)
  /\ UNCHANGED <<proc, exitCode, user, row, unused>>

-----------------------------------------------------------------------------
(***************************************************************************)
(* Streams and answers.                                                    *)
(***************************************************************************)
SSE_DEMO_TICKS == 3

\* Wrong: the loop ends with the client only.
WrongTick(r) ==
  /\ req[r].pc = "streaming" /\ req[r].gone
  /\ Answers(r, 200)
  /\ UNCHANGED <<proc, exitCode, queue, user, row, unused>>

\* One turn of the loop.
Tick(r) ==
  /\ req[r].pc = "streaming"
  /\ IF req[r].ticks < SSE_DEMO_TICKS /\ ~req[r].gone
     THEN req' = [req EXCEPT ![r].ticks = @ + 1]
     ELSE Answers(r, 200)
  /\ UNCHANGED <<proc, exitCode, queue, user, row, unused>>

\* The client hangs up.  Only a stream and server.close look at that, so it
\* happens no earlier than they may.
HangUp(r) ==
  /\ ~req[r].gone
  /\ req[r].pc = "streaming" \/ (proc = "draining" /\ req[r].pc # "idle")
  /\ req' = [req EXCEPT ![r].gone = TRUE]
  /\ UNCHANGED <<proc, exitCode, queue, user, row, unused>>

Sent(r) ==
  /\ req[r].pc = "answered"
  /\ req' = [req EXCEPT ![r] = NoRequest]
  /\ UNCHANGED <<proc, exitCode, queue, user, row, unused>>

-----------------------------------------------------------------------------
(***************************************************************************)
(* The process.                                                            *)
(***************************************************************************)
\* SIGTERM or SIGINT; a second one changes nothing.
Shutdown ==
  /\ proc = "up" /\ proc' = "draining"
  /\ UNCHANGED <<exitCode, req, queue, user, row, unused>>

\* Wrong: the pool is closed and the process left without waiting for the server.
WrongServerClosed ==
  /\ proc = "draining" /\ proc' = "closing"
  /\ UNCHANGED <<exitCode, req, queue, user, row, unused>>

\* server.close calls back when no connection is left; closeDb follows.
ServerClosed ==
  /\ proc = "draining"
  /\ \A r \in Slots : req[r].pc = "idle" \/ req[r].gone
  /\ proc' = "closing"
  /\ UNCHANGED <<exitCode, req, queue, user, row, unused>>

\* What dies with the process.  Postgres rolls back what is open.
Dies(code) ==
  /\ proc' = "down" /\ exitCode' = code
  /\ req' = [r \in Slots |-> NoRequest] /\ queue' = <<>>
  /\ user' = [c \in Conns |-> Nobody]
  /\ UNCHANGED <<row, unused>>

\* closeDb ends: everything is finished, or its five seconds are over.
Exit0 == proc = "closing" /\ Dies(0)
\* The ten seconds are over.
Exit1 == proc \in {"draining", "closing"} /\ Dies(1)
Killed == proc # "down" /\ Dies(137)

Start ==
  /\ proc = "down" /\ proc' = "up" /\ exitCode' = 0
  /\ UNCHANGED <<req, queue, user, row, unused>>

-----------------------------------------------------------------------------
Transaction(r) ==
  (\E c \in Conns : Begin(r, c)) \/ Bind(r) \/ Run(r) \/ Commit(r) \/ Fail(r) \/ CommitLost(r)
Handling(r) == Verified(r) \/ Transaction(r) \/ Ended(r) \/ Tick(r) \/ Sent(r)

Next ==
  \/ Request
  \/ \E r \in Slots : Handling(r) \/ Unblock(r) \/ HangUp(r)
  \/ Shutdown \/ ServerClosed \/ Exit0 \/ Exit1 \/ Killed \/ Start

\* Every await of a handler comes back, a lock is given to whoever waits
\* longest, and the timer of a shutdown fires.
Fairness ==
  /\ \A r \in Slots : WF_vars(Handling(r)) /\ SF_vars(Unblock(r))
  /\ WF_vars(Exit1)

Spec == Init /\ [][Next]_vars /\ Fairness

-----------------------------------------------------------------------------
(***************************************************************************)
(* Properties.                                                             *)
(***************************************************************************)
\* Every variable holds a value of its kind.
TypeOK ==
  /\ proc \in {"up", "draining", "closing", "down"} /\ exitCode \in {0, 1, 137}
  /\ req \in [Slots -> [pc : {"idle", "verifying", "queued", "streaming", "answered"} \cup OnConnection,
                        in : Inputs \cup {NoInput}, conn : Conns \cup {NoConn},
                        seen : SUBSET Ids, had : SUBSET Ids, ticks : 0..SSE_DEMO_TICKS,
                        status : Nat, gone : BOOLEAN]]
  /\ queue \in Seq(Slots)
  /\ user \in [Conns -> Users \cup {Nobody}] /\ row \in [Ids -> Users \cup {Nobody}]
  /\ unused \subseteq Ids

\* context.ts: app.user_id belongs to one transaction.  A connection in the
\* pool has none, and a statement runs under the user whose token verified,
\* whoever used the connection before.
IdentityIsScoped ==
  /\ \A c \in Conns : user[c] # Nobody => Busy(c)
  /\ \A r \in Slots : req[r].pc \in OnConnection \ {"begun"} => user[req[r].conn] = req[r].in.token

\* app.ts:289-310: whoever has no verifiable token learns of an /api route
\* that the version is wrong or that a token is missing, and nothing about
\* the route, the body or a note.
StrangersLearnNothing ==
  \A r \in Slots :
    req[r].pc = "answered" /\ req[r].in.route \in ApiRoutes /\ req[r].in.token = Nobody
    => req[r].status = IF req[r].in.skewed THEN 409 ELSE 401

\* index.ts:33: a process that exits with 0 has answered everyone who was
\* still there for an answer.
CleanExitAnswers ==
  [][Exit0 => \A r \in Slots : req[r].pc = "idle" \/ req[r].gone]_vars

\* Every request comes to an end, also behind a full pool, a locked row or a
\* stream nobody reads.
RequestsEnd ==
  \A r \in Slots : req[r].pc # "idle" ~> req[r].pc = "idle"

\* A request the guards have let in.
Admitted(q) ==
  \/ q.pc \in OnConnection \cup {"queued"}
  \/ /\ q.pc = "answered" /\ q.in.route \in DataRoutes
     /\ q.status \in {200, 201, 204, 404, 500}

AbstractPc(pc) ==
  IF pc = "ran" THEN "looked" ELSE IF pc = "answered" THEN "answered" ELSE "open"
AbstractAnswer(status) ==
  CASE status = 0 -> "none" [] status = 404 -> "absent" [] status = 500 -> "error" [] OTHER -> "ok"

\* The call UserStore sees in a request: none before the guards let it in.
AbstractCall(q) ==
  IF Admitted(q)
  THEN [pc |-> AbstractPc(q.pc), user |-> q.in.token, op |-> q.in.route, id |-> q.in.id,
        had |-> q.had, seen |-> IF q.pc = "ran" THEN q.seen ELSE {},
        answer |-> AbstractAnswer(q.status)]
  ELSE [pc |-> "none", user |-> Nobody, op |-> "none", id |-> NoId, had |-> {},
        seen |-> {}, answer |-> "none"]

Promise == INSTANCE UserStore WITH
  Calls <- Slots,
  store <- [u \in Users |-> OwnedBy(u)],
  call  <- [r \in Slots |-> AbstractCall(req[r])]

\* The table, the pool and the policies keep each user's store apart: every
\* step is a step of UserStore, or none.
ImplementsUserStore == Promise!Spec
=============================================================================
