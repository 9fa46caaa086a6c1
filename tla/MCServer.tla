------------------------------ MODULE MCServer ------------------------------
(* Two people and the requests that tell the guards and the routes apart.    *)
EXTENDS Server

Good(route, u, id) ==
  [route |-> route, token |-> u, skewed |-> FALSE, fits |-> TRUE, valid |-> TRUE, id |-> id]

\* The data routes for both, and one request per guard.
Requests ==
  {Good("list", u, NoId) : u \in Users}
  \cup {Good(route, u, n) : route \in {"create", "delete"}, u \in Users, n \in Ids}
  \cup {Good("me", "ann", NoId), Good("get", "bo", 1)}
  \cup {Good(route, "ann", NoId) : route \in OpenRoutes \cup {"events", "unknown"}}
  \cup {[Good("list", Nobody, NoId) EXCEPT !.valid = FALSE, !.skewed = skewed] : skewed \in BOOLEAN}
  \cup {[Good("list", "ann", NoId) EXCEPT !.valid = FALSE],
        [Good("list", "ann", NoId) EXCEPT !.fits = FALSE]}

\* The second request at a time is one that changes a store.
\* A third comes when the pool is full and one of its transactions waits for
\* the other's lock, and stays for its answer; no other then until it is over.
PoolIsStuck == (\A c \in Conns : Busy(c)) /\ \E r \in Slots : req[r].pc = "blocked"
Arrivals ==
  /\ ~req'["r3"].gone
  /\ \A r \in Slots : req[r] = NoRequest /\ req'[r] # NoRequest =>
       LET in == req'[r].in
       IN CASE r = "r1" -> req["r3"] = NoRequest
            [] r = "r2" -> req["r3"] = NoRequest /\ in.route \in {"create", "delete", "me"}
            [] r = "r3" -> PoolIsStuck /\ in = Good("list", "bo", NoId)

ServerSpec == Init /\ [][Next /\ Arrivals]_vars /\ Fairness
=============================================================================
