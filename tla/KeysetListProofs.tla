--------------------------- MODULE KeysetListProofs ---------------------------
(***************************************************************************)
(* Proofs about the two long reads of the app: KeysetList, for every       *)
(* number of notes, size of page, number of reloads and of requests in     *)
(* flight; and Sse, for every text over every alphabet, however it is cut. *)
(***************************************************************************)
EXTENDS KeysetList, Sse, ListingProofs

-----------------------------------------------------------------------------
(***************************************************************************)
(* The page the server reads.                                              *)
(***************************************************************************)
InOrder(s) == \A j, k \in DOMAIN s : j < k => s[j] > s[k]

(* A set of numbers that has a member has a greatest one.                  *)
LEMMA Greatest ==
  ASSUME NEW S \in SUBSET Int, IsFiniteSet(S), S # {}
  PROVE  \E x \in S : \A y \in S : y <= x
<1> DEFINE n == Cardinality(S)
           d == Descending(S)
<1>1. /\ n \in Nat /\ d \in [1..n -> S]
      /\ \A i, j \in 1..n : i < j => d[i] > d[j]
      /\ \A x \in S : \E j \in 1..n : d[j] = x
  BY DescendingIs
<1>2. n # 0
  BY FS_EmptySet
<1> HIDE DEF d, n
<1>3. 1 \in 1..n /\ d[1] \in S /\ d[1] \in Int
  <2>1. 1 \in 1..n
    BY <1>1, <1>2
  <2>2. d[1] \in S /\ \A x \in S : x \in Int
    BY <1>1, <2>1
  <2>3. QED
    BY <2>1, <2>2
<1>4. ASSUME NEW y \in S PROVE y <= d[1]
  <2>1. PICK j \in 1..n : d[j] = y
    BY <1>1
  <2>2. CASE j = 1
    BY <1>3, <2>1, <2>2
  <2>3. CASE j # 1
    <3>1. d[1] > d[j]
      BY <1>1, <1>3, <2>3
    <3>2. QED
      BY <1>3, <2>1, <3>1
  <2>4. QED
    BY <2>2, <2>3
<1>5. QED
  BY <1>3, <1>4

(* The newest members of a set: all of them, or those from one of them on. *)
LEMMA NewestIs ==
  ASSUME NEW S \in SUBSET Int, IsFiniteSet(S), NEW n \in Nat \ {0}
  PROVE  /\ Newest(S, n) \subseteq S /\ IsFiniteSet(Newest(S, n))
         /\ \A k \in Newest(S, n), j \in S : k <= j => j \in Newest(S, n)
         /\ Cardinality(S) <= n => Newest(S, n) = S
         /\ S # {} => Newest(S, n) # {}
<1> DEFINE Above(k) == {j \in S : j > k}
<1>0. \A k \in S : IsFiniteSet(Above(k)) /\ Cardinality(Above(k)) \in Nat
  BY FS_Subset, FS_CardinalityType
<1>1. Newest(S, n) \subseteq S /\ IsFiniteSet(Newest(S, n))
  BY FS_Subset DEF Newest
<1>2. ASSUME NEW k \in Newest(S, n), NEW j \in S, k <= j
      PROVE  j \in Newest(S, n)
  <2>1. k \in S /\ Cardinality(Above(k)) < n
    BY DEF Newest
  <2>2. Above(j) \subseteq Above(k)
    <3>1. \A x \in S : x \in Int
      OBVIOUS
    <3>2. \A x \in S : x > j => x > k
      BY <1>2, <2>1, <3>1
    <3>3. QED
      BY <3>2
  <2>3. Cardinality(Above(j)) <= Cardinality(Above(k))
    BY <1>0, <2>1, <2>2, FS_Subset
  <2>4. Cardinality(Above(j)) < n
    BY <1>0, <2>1, <2>3
  <2>5. QED
    BY <2>4 DEF Newest
<1>3. ASSUME Cardinality(S) <= n, NEW k \in S
      PROVE  k \in Newest(S, n)
  <2>1. Above(k) \subseteq S /\ k \notin Above(k)
    OBVIOUS
  <2>2. Cardinality(Above(k)) <= Cardinality(S) /\ (Cardinality(Above(k)) = Cardinality(S) => Above(k) = S)
    BY <2>1, FS_Subset
  <2>3. Cardinality(Above(k)) # Cardinality(S) /\ Cardinality(S) \in Nat
    BY <2>1, <2>2, FS_CardinalityType
  <2>4. Cardinality(Above(k)) < n
    BY <1>0, <1>3, <2>2, <2>3
  <2>5. QED
    BY <2>4 DEF Newest
<1>4. ASSUME S # {} PROVE Newest(S, n) # {}
  <2>1. PICK x \in S : \A y \in S : y <= x
    BY <1>4, Greatest
  <2>2. Above(x) = {}
    <3>1. \A y \in S : y \in Int
      OBVIOUS
    <3>2. \A y \in S : ~(y > x)
      BY <2>1, <3>1
    <3>3. QED
      BY <3>2
  <2>3. Cardinality(Above(x)) = 0
    BY <2>2, FS_EmptySet
  <2>4. x \in Newest(S, n)
    BY <2>3 DEF Newest
  <2>5. QED
    BY <2>4
<1>5. QED
  BY <1>1, <1>2, <1>3, <1>4

(* A page is in order and has every note from its next cursor to its own.  *)
LEMMA PageIs ==
  ASSUME KeysetAssumption, table \in SUBSET Notes, NEW cursor \in 0..MaxNotes,
         NEW p, p = Page(cursor)
  PROVE  /\ p.items \in Seq(Notes) /\ p.next \in 0..MaxNotes
         /\ InOrder(p.items)
         /\ \A j \in DOMAIN p.items : p.next <= p.items[j]
         /\ cursor # End =>
              p.next < cursor /\ \A j \in DOMAIN p.items : p.items[j] < cursor
         /\ \A n \in table :
              p.next <= n /\ (cursor = End \/ n < cursor) => n \in Elements(p.items)
<1> DEFINE after == IF cursor = End THEN table ELSE {n \in table : n < cursor}
           items == Newest(after, Limit)
           d     == Descending(items)
<1>0. MaxNotes \in Nat /\ Limit \in Nat \ {0}
  BY DEF KeysetAssumption
<1>1. after \in SUBSET Notes /\ after \subseteq table
  OBVIOUS
<1>2. after \in SUBSET Int /\ IsFiniteSet(after)
  <2>1. IsFiniteSet(Notes) /\ Notes \in SUBSET Int
    BY <1>0, FS_Interval DEF Notes
  <2>2. QED
    BY <1>1, <2>1, FS_Subset
<1>3. \A n \in after : n \in table /\ (cursor # End => n < cursor)
  OBVIOUS
<1>4. \A n \in table : cursor = End \/ n < cursor => n \in after
  OBVIOUS
<1>5. p = [items |-> d, next |-> IF Cardinality(after) > Limit THEN Min(items) ELSE End]
  BY DEF Page
<1> HIDE DEF after
<1>6. /\ items \subseteq after /\ IsFiniteSet(items)
      /\ \A k \in items, j \in after : k <= j => j \in items
      /\ Cardinality(after) <= Limit => items = after
      /\ after # {} => items # {}
  BY <1>0, <1>2, NewestIs
<1> HIDE DEF items
<1>7. items \in SUBSET Notes /\ items \in SUBSET Int /\ \A x \in Notes : x \in 1..MaxNotes
  BY <1>1, <1>2, <1>6 DEF Notes
<1>8. /\ Cardinality(items) \in Nat /\ d \in [1..Cardinality(items) -> items]
      /\ \A i, j \in 1..Cardinality(items) : i < j => d[i] > d[j]
      /\ \A x \in items : \E j \in 1..Cardinality(items) : d[j] = x
  BY <1>6, <1>7, DescendingIs
<1>9. p.items = d
  BY <1>5
<1> HIDE DEF d
<1>10. d \in Seq(Notes) /\ DOMAIN d = 1..Cardinality(items) /\ InOrder(d)
  <2>1. d \in [1..Cardinality(items) -> Notes]
    BY <1>7, <1>8
  <2>2. QED
    BY <1>8, <2>1 DEF InOrder
<1>11. \A j \in DOMAIN d : d[j] \in items /\ d[j] \in after
  BY <1>6, <1>8, <1>10
<1>12. \A x \in items : x \in Elements(d)
  BY <1>8, <1>10 DEF Elements
<1>13. CASE Cardinality(after) > Limit
  <2>1. p.next = Min(items)
    BY <1>5, <1>13
  <2>2. items # {}
    <3>1. after # {}
      BY <1>0, <1>13, FS_EmptySet
    <3>2. QED
      BY <1>6, <3>1
  <2>3. Min(items) \in items /\ \A x \in items : Min(items) <= x
    <3>1. items \in SUBSET Nat
      BY <1>0, <1>7 DEF Notes
    <3>2. PICK m \in items : \A x \in items : m <= x
      BY <2>2, <3>1, Least
    <3>3. QED
      BY <3>2 DEF Min
  <2>4. \A n \in after : p.next <= n => n \in items
    BY <1>6, <2>1, <2>3
  <2>5. p.next \in after /\ p.next \in 0..MaxNotes
    <3>1. p.next \in items /\ p.next \in 1..MaxNotes
      BY <1>7, <2>1, <2>3
    <3>2. QED
      BY <1>0, <1>6, <3>1
  <2>6. QED
    BY <1>3, <1>4, <1>9, <1>10, <1>11, <1>12, <2>1, <2>3, <2>4, <2>5
<1>14. CASE ~(Cardinality(after) > Limit)
  <2>1. p.next = 0 /\ items = after
    <3>1. Cardinality(after) \in Nat
      BY <1>2, FS_CardinalityType
    <3>2. Cardinality(after) <= Limit
      BY <1>0, <1>14, <3>1
    <3>3. QED
      BY <1>5, <1>6, <1>14, <3>2 DEF End
  <2>2. \A j \in DOMAIN d : 0 <= d[j]
    <3>1. \A j \in DOMAIN d : d[j] \in 1..MaxNotes
      BY <1>7, <1>11
    <3>2. QED
      BY <1>0, <3>1
  <2>3. cursor # End => 0 < cursor
    BY <1>0 DEF End
  <2>4. QED
    BY <1>0, <1>3, <1>4, <1>9, <1>10, <1>11, <1>12, <2>1, <2>2, <2>3
<1>15. QED
  BY <1>13, <1>14

-----------------------------------------------------------------------------
(***************************************************************************)
(* The invariant.                                                          *)
(***************************************************************************)
States ==
  [status : {"loading", "empty", "error", "ready"}, rows : Seq(Notes), cursor : 0..MaxNotes,
   loadingMore : BOOLEAN, loadMoreFailed : BOOLEAN]
Requests ==
  [pc : {"free", "sent", "answered", "failed"}, cursor : 0..MaxNotes, items : Seq(Notes),
   next : 0..MaxNotes]

\* A key given out is under way or was listed, and not both: a note that was
\* on the first page and is removed never comes back.
Types ==
  /\ created \in 0..MaxNotes
  /\ table \subseteq 1..created /\ open \subseteq 1..created /\ base \subseteq 1..created
  /\ open \cap (table \cup base) = {}
  /\ state \in States /\ shown \in States
  /\ token \in Nat /\ effect \in 0..token
  /\ first \in Requests /\ more \in [Slots -> Requests]
  /\ latest \in Slots \cup {0} /\ raced \in BOOLEAN

\* From a reload to its answer the skeleton is shown.
Stage ==
  /\ effect # token => first.pc = "free" /\ state.status = "loading"
  /\ first.pc # "free" => state.status = "loading" /\ shown.status = "loading"

FirstPage ==
  /\ first.pc = "sent" => first.cursor = End
  /\ first.pc = "answered" =>
       /\ InOrder(first.items) /\ \A j \in DOMAIN first.items : first.next <= first.items[j]
       /\ \A n \in base \cap table : first.next <= n => n \in Elements(first.items)

\* The page a loadMore brings takes up where the rows end.
Follows(r) ==
  /\ InOrder(r.items)
  /\ \A j \in DOMAIN r.items : r.next <= r.items[j] /\ r.items[j] < state.cursor
  /\ r.next < state.cursor
  /\ \A n \in base \cap table : r.next <= n /\ n < state.cursor => n \in Elements(r.items)

\* Unless one raced, there is one loadMore in flight, of the rows as they are.
Flight ==
  ~raced /\ effect = token =>
    \A s \in Slots : more[s].pc # "free" =>
      /\ state.status = "ready" /\ state.loadingMore /\ state.cursor # End
      /\ \A q \in Slots : more[q].pc # "free" => q = s
      /\ more[s].pc = "sent" => more[s].cursor = state.cursor
      /\ more[s].pc = "answered" => Follows(more[s])

Whole ==
  /\ InOrder(state.rows) /\ \A j \in DOMAIN state.rows : state.cursor <= state.rows[j]
  /\ \A n \in base \cap table : state.cursor <= n => n \in Elements(state.rows)

Ready ==
  /\ ~raced /\ state.status = "ready" => Whole
  /\ ~raced /\ shown.status = "ready" => InOrder(shown.rows)

Inv == Types /\ Stage /\ FirstPage /\ Flight /\ Ready

(* The numbers.                                                            *)
LEMMA Numbers ==
  ASSUME Inv
  PROVE  /\ MaxNotes \in Nat
         /\ \A s \in Slots : s # 0
         /\ table \in SUBSET Notes /\ base \in SUBSET Notes /\ created \in Nat
         /\ \A n \in table \cup base \cup open : n \in Int /\ n \in 1..created
         /\ state.cursor \in 0..MaxNotes /\ state.cursor \in Int
         /\ \A s \in Slots : more[s] \in Requests /\ more[s].next \in Int
         /\ state.rows \in Seq(Notes) /\ \A n \in Notes : n \in Int
<1>1. MaxNotes \in Nat /\ \A s \in Slots : s # 0
  BY KeysetAssumption
<1>2. created \in 0..MaxNotes /\ \A n \in table \cup base \cup open : n \in 1..created
  BY DEF Inv, Types
<1>3. \A n \in 1..created : n \in Int /\ n \in 1..MaxNotes
  BY <1>1, <1>2
<1>4. table \in SUBSET Notes /\ base \in SUBSET Notes
  BY <1>2, <1>3 DEF Notes
<1>5. state.cursor \in 0..MaxNotes /\ state.rows \in Seq(Notes)
  BY DEF Inv, Types, States
<1>6. \A s \in Slots : more[s] \in Requests /\ more[s].next \in 0..MaxNotes
  BY DEF Inv, Types, Requests
<1>7. \A n \in 0..MaxNotes : n \in Int
  BY <1>1
<1>8. \A n \in Notes : n \in Int
  BY <1>1 DEF Notes
<1>9. QED
  BY <1>1, <1>2, <1>3, <1>4, <1>5, <1>6, <1>7, <1>8

(* A request not made yet, and a hook that starts over.                    *)
LEMMA FreshTypes ==
  /\ Free \in Requests /\ [Free EXCEPT !.pc = "sent"] \in Requests
  /\ [Free EXCEPT !.pc = "failed"] \in Requests
  /\ INITIAL \in States /\ Free.pc = "free" /\ INITIAL.status = "loading"
<1>1. MaxNotes \in Nat
  BY KeysetAssumption
<1>2. 0 \in 0..MaxNotes /\ <<>> \in Seq(Notes)
  BY <1>1
<1>3. QED
  BY <1>2 DEF Free, Requests, INITIAL, States, End

(* An empty sequence is in order.                                          *)
LEMMA InOrderEmpty == InOrder(<<>>)
BY DEF InOrder

-----------------------------------------------------------------------------
(***************************************************************************)
(* The steps.                                                              *)
(***************************************************************************)
(* Of the notes the list began with, none comes back.                      *)
LEMMA WorldKeeps ==
  ASSUME Inv, Types', UNCHANGED <<hook, first, more, raced, base>>,
         base \cap table' \subseteq base \cap table
  PROVE  Inv'
<1>1. Stage' /\ FirstPage'
  BY DEF Inv, Stage, FirstPage, hook
<1>2. Whole => Whole'
  BY DEF Whole, hook
<1>3. Ready'
  BY <1>2 DEF Inv, Ready, hook
<1>4. \A s \in Slots : Follows(more[s]) => Follows(more[s])'
  BY DEF Follows, hook
<1>5. Flight'
  BY <1>4 DEF Inv, Flight, hook
<1>6. QED
  BY <1>1, <1>3, <1>5 DEF Inv

(* Writers add and take notes, and move no page.                           *)
LEMMA WritersKeep ==
  ASSUME Inv, Writers
  PROVE  Inv'
<1>0. MaxNotes \in Nat /\ created \in 0..MaxNotes
  BY Numbers DEF Inv, Types
<1>1. CASE BeginCreate
  <2>1. /\ created' = created + 1 /\ open' = open \cup {created + 1} /\ created < MaxNotes
        /\ UNCHANGED <<table, hook, first, more, latest, base, raced>>
    BY <1>1 DEF BeginCreate
  <2>2. created' \in 0..MaxNotes /\ created + 1 \notin 1..created /\ created + 1 \in 1..created'
    BY <1>0, <2>1
  <2>3. \A n \in 1..created : n \in 1..created'
    BY <1>0, <2>1
  <2>4. Types'
    BY <2>1, <2>2, <2>3 DEF Inv, Types, hook
  <2>5. QED
    BY <2>1, <2>4, WorldKeeps
<1>2. ASSUME NEW n \in Notes, CommitCreate(n) \/ RemoveNote(n)
      PROVE  Inv'
  <2>1. /\ UNCHANGED <<created, hook, first, more, latest, base, raced>>
        /\ \/ n \in open /\ open' = open \ {n} /\ table' = table \cup {n}
           \/ n \in table /\ open' = open /\ table' = table \ {n}
    BY <1>2 DEF CommitCreate, RemoveNote
  <2>2. Types' /\ base \cap table' \subseteq base \cap table
    BY <2>1 DEF Inv, Types, hook
  <2>3. QED
    BY <2>1, <2>2, WorldKeeps
<1>3. QED
  BY <1>1, <1>2 DEF Writers

(* The first page is the head of the table.                                *)
LEMMA ServeFirstKeeps ==
  ASSUME Inv, ServeFirst
  PROVE  Inv'
<1> DEFINE p == Page(first.cursor)
<1>0. /\ first.pc = "sent" /\ UNCHANGED <<server, hook, more, latest, raced>>
      /\ first' \in Answered(first)
      /\ base' = IF first'.pc = "answered" THEN table ELSE base
  BY DEF ServeFirst
<1>1. first.cursor \in 0..MaxNotes /\ KeysetAssumption /\ table \in SUBSET Notes
  BY Numbers, KeysetAssumption DEF Inv, Types, Requests
<1>2. /\ p.items \in Seq(Notes) /\ p.next \in 0..MaxNotes
      /\ InOrder(p.items) /\ \A j \in DOMAIN p.items : p.next <= p.items[j]
      /\ \A n \in table : p.next <= n /\ (first.cursor = End \/ n < first.cursor) => n \in Elements(p.items)
  BY <1>1, PageIs
<1> HIDE DEF p
<1>3. first' \in {[Free EXCEPT !.pc = "answered", !.items = p.items, !.next = p.next],
                  [Free EXCEPT !.pc = "failed"]}
  BY <1>0 DEF Answered, p
<1>4. \/ first' = [Free EXCEPT !.pc = "failed"]
      \/ first'.pc = "answered" /\ first'.items = p.items /\ first'.next = p.next
  BY <1>3 DEF Free
<1>5. first' \in Requests /\ first'.pc \in {"answered", "failed"}
  <2>1. [Free EXCEPT !.pc = "answered", !.items = p.items, !.next = p.next] \in Requests
    BY <1>2, FreshTypes DEF Free, Requests
  <2>2. QED
    BY <1>3, <2>1, FreshTypes DEF Free
<1>6. state.status = "loading" /\ shown.status = "loading" /\ effect = token
  BY <1>0 DEF Inv, Stage
<1>7. Types'
  BY <1>0, <1>5 DEF Inv, Types, server, hook
<1>8. Stage' /\ Flight' /\ Ready'
  BY <1>0, <1>6 DEF Inv, Stage, Flight, Ready, server, hook
<1>9. FirstPage'
  <2>1. first.cursor = End
    BY <1>0 DEF Inv, FirstPage
  <2>2. QED
    BY <1>0, <1>2, <1>4, <1>5, <2>1 DEF FirstPage, Free, server
<1>10. QED
  BY <1>7, <1>8, <1>9 DEF Inv

(* A further page takes up where the rows end.                             *)
LEMMA ServeMoreKeeps ==
  ASSUME Inv, NEW s \in Slots, ServeMore(s)
  PROVE  Inv'
<1> DEFINE p == Page(more[s].cursor)
<1>0. PICK r \in Answered(more[s]) :
        /\ more[s].pc = "sent" /\ more' = [more EXCEPT ![s] = r]
        /\ UNCHANGED <<server, hook, first, latest, base, raced>>
  BY DEF ServeMore
<1>1. more[s].cursor \in 0..MaxNotes /\ KeysetAssumption /\ table \in SUBSET Notes
  BY Numbers, KeysetAssumption DEF Requests
<1>2. /\ p.items \in Seq(Notes) /\ p.next \in 0..MaxNotes
      /\ InOrder(p.items) /\ \A j \in DOMAIN p.items : p.next <= p.items[j]
      /\ more[s].cursor # End =>
           p.next < more[s].cursor /\ \A j \in DOMAIN p.items : p.items[j] < more[s].cursor
      /\ \A n \in table : p.next <= n /\ (more[s].cursor = End \/ n < more[s].cursor) => n \in Elements(p.items)
  BY <1>1, PageIs
<1> HIDE DEF p
<1>3. r \in {[Free EXCEPT !.pc = "answered", !.items = p.items, !.next = p.next],
             [Free EXCEPT !.pc = "failed"]}
  BY <1>0 DEF Answered, p
<1>4. \/ r.pc = "failed"
      \/ r.pc = "answered" /\ r.items = p.items /\ r.next = p.next
  BY <1>3 DEF Free
<1>5. r \in Requests
  <2>1. [Free EXCEPT !.pc = "answered", !.items = p.items, !.next = p.next] \in Requests
    BY <1>2, FreshTypes DEF Free, Requests
  <2>2. QED
    BY <1>3, <2>1, FreshTypes
<1>6. more'[s] = r /\ \A q \in Slots \ {s} : more'[q] = more[q]
  BY <1>0 DEF Inv, Types
<1>7. Types'
  BY <1>0, <1>5 DEF Inv, Types, server, hook
<1>8. Stage' /\ FirstPage' /\ Ready'
  BY <1>0 DEF Inv, Stage, FirstPage, Ready, Whole, server, hook
<1>9. ASSUME ~raced, effect = token, NEW k \in Slots, more'[k].pc # "free"
      PROVE  /\ state.status = "ready" /\ state.loadingMore /\ state.cursor # End
             /\ \A q \in Slots : more'[q].pc # "free" => q = k
             /\ more'[k].pc = "sent" => more'[k].cursor = state.cursor
             /\ more'[k].pc = "answered" => Follows(more'[k])
  <2>1. /\ state.status = "ready" /\ state.loadingMore /\ state.cursor # End
        /\ \A q \in Slots : more[q].pc # "free" => q = s
        /\ more[s].cursor = state.cursor
    BY <1>0, <1>9 DEF Inv, Flight
  <2>2. k = s
    BY <1>6, <1>9, <2>1
  <2>3. r.pc = "answered" => Follows(r)
    BY <1>1, <1>2, <1>4, <2>1 DEF Follows
  <2>4. QED
    BY <1>4, <1>6, <2>1, <2>2, <2>3
<1>10. \A q : Follows(q)' <=> Follows(q)
  BY <1>0 DEF Follows, server, hook
<1>11. Flight'
  BY <1>0, <1>9, <1>10 DEF Flight, server, hook
<1>12. QED
  BY <1>7, <1>8, <1>11 DEF Inv

(* A render shows the state as it is.                                      *)
LEMMA RenderKeeps ==
  ASSUME Inv, Render
  PROVE  Inv'
<1>0. shown' = state /\ UNCHANGED <<server, state, token, effect, first, more, latest, base, raced>>
  BY DEF Render
<1>1. Types' /\ Stage' /\ FirstPage' /\ Flight'
  BY <1>0 DEF Inv, Types, Stage, FirstPage, Flight, Follows, server
<1>2. Ready'
  BY <1>0 DEF Inv, Ready, Whole, server
<1>3. QED
  BY <1>1, <1>2 DEF Inv

(* The effect of a reload sends the first load.                            *)
LEMMA EffectKeeps ==
  ASSUME Inv, Effect
  PROVE  Inv'
<1>0. /\ effect # token /\ shown = state /\ effect' = token
      /\ more' = [s \in Slots |-> IF s = latest THEN Free ELSE more[s]]
      /\ first' = [Free EXCEPT !.pc = "sent"]
      /\ raced' = \E s \in Slots \ {latest} : more[s].pc # "free"
      /\ UNCHANGED <<server, state, shown, token, latest, base>>
  BY DEF Effect, Cleanup
<1>1. state.status = "loading" /\ shown.status = "loading"
  BY <1>0 DEF Inv, Stage
<1>2. first'.pc = "sent" /\ first'.cursor = End
  BY <1>0 DEF Free
<1>3. Types'
  <2>1. more' \in [Slots -> Requests] /\ first' \in Requests
    BY <1>0, FreshTypes DEF Inv, Types
  <2>2. effect' \in 0..token' /\ raced' \in BOOLEAN
    BY <1>0 DEF Inv, Types
  <2>3. QED
    BY <1>0, <2>1, <2>2 DEF Inv, Types, server
<1>4. Stage' /\ FirstPage' /\ Ready'
  BY <1>0, <1>1, <1>2 DEF Stage, FirstPage, Ready
<1>5. ~raced' => \A s \in Slots : more'[s].pc = "free"
  BY <1>0, FreshTypes
<1>6. Flight'
  BY <1>5 DEF Flight
<1>7. QED
  BY <1>3, <1>4, <1>6 DEF Inv

(* The first page becomes the rows.                                        *)
LEMMA FirstArrivesKeeps ==
  ASSUME Inv, FirstArrives
  PROVE  Inv'
<1>0. /\ first.pc = "answered" /\ first' = Free
      /\ state' = [INITIAL EXCEPT !.status = IF first.items = <<>> THEN "empty" ELSE "ready",
                                  !.rows = first.items, !.cursor = first.next]
      /\ UNCHANGED <<server, shown, token, effect, more, latest, base, raced>>
  BY DEF FirstArrives
<1>1. /\ state'.status \in {"empty", "ready"} /\ state'.rows = first.items
      /\ state'.cursor = first.next
  BY <1>0 DEF INITIAL
<1>2. state.status = "loading" /\ shown.status = "loading" /\ effect = token
  BY <1>0 DEF Inv, Stage
<1>3. Types'
  <2>1. state' \in States
    BY <1>0, FreshTypes DEF Inv, Types, INITIAL, States, Requests
  <2>2. QED
    BY <1>0, <2>1, FreshTypes DEF Inv, Types, server
<1>4. Stage' /\ FirstPage'
  BY <1>0, <1>2, FreshTypes DEF Stage, FirstPage
<1>5. Ready'
  BY <1>0, <1>1, <1>2 DEF Inv, FirstPage, Ready, Whole, server
<1>6. ~raced => \A s \in Slots : more[s].pc = "free"
  BY <1>2 DEF Inv, Flight
<1>7. Flight'
  BY <1>0, <1>6 DEF Flight
<1>8. QED
  BY <1>3, <1>4, <1>5, <1>7 DEF Inv

(* A first load that fails is shown as an error.                           *)
LEMMA FirstFailsKeeps ==
  ASSUME Inv, FirstFails
  PROVE  Inv'
<1>0. /\ first.pc = "failed" /\ first' = Free
      /\ state' = [INITIAL EXCEPT !.status = "error"]
      /\ UNCHANGED <<server, shown, token, effect, more, latest, base, raced>>
  BY DEF FirstFails
<1>1. state'.status = "error" /\ state' \in States
  BY <1>0, FreshTypes DEF INITIAL, States
<1>2. state.status = "loading" /\ shown.status = "loading" /\ effect = token
  BY <1>0 DEF Inv, Stage
<1>3. Types'
  BY <1>0, <1>1, FreshTypes DEF Inv, Types, server
<1>4. Stage' /\ FirstPage' /\ Ready'
  BY <1>0, <1>1, <1>2, FreshTypes DEF Stage, FirstPage, Ready
<1>5. ~raced => \A s \in Slots : more[s].pc = "free"
  BY <1>2 DEF Inv, Flight
<1>6. Flight'
  BY <1>0, <1>5 DEF Flight
<1>7. QED
  BY <1>3, <1>4, <1>6 DEF Inv

(* A reload starts over.                                                   *)
LEMMA ReloadKeeps ==
  ASSUME Inv, Reload
  PROVE  Inv'
<1>0. /\ shown.status # "loading" /\ state' = INITIAL /\ token' = token + 1
      /\ UNCHANGED <<server, shown, effect, first, more, latest, base, raced>>
  BY DEF Reload
<1>1. first.pc = "free"
  BY <1>0 DEF Inv, Stage
<1>2. token' \in Nat /\ effect' \in 0..token' /\ effect' # token'
  BY <1>0 DEF Inv, Types
<1>3. Types'
  BY <1>0, <1>2, FreshTypes DEF Inv, Types, server
<1>4. Stage' /\ FirstPage' /\ Flight'
  BY <1>0, <1>1, <1>2, FreshTypes DEF Stage, FirstPage, Flight
<1>5. Ready'
  BY <1>0, FreshTypes DEF Inv, Ready
<1>6. QED
  BY <1>3, <1>4, <1>5 DEF Inv

(* A loadMore asks from where the rows end, or has raced.                  *)
LEMMA LoadMoreKeeps ==
  ASSUME Inv, NEW s \in Slots, LoadMore(s)
  PROVE  Inv'
<1>0. /\ shown.status = "ready" /\ shown.cursor # End /\ ~shown.loadingMore
      /\ more[s].pc = "free"
      /\ state' = [state EXCEPT !.loadingMore = TRUE, !.loadMoreFailed = FALSE]
      /\ more' = [more EXCEPT ![s] = [Free EXCEPT !.pc = "sent", !.cursor = shown.cursor]]
      /\ latest' = s /\ raced' = (raced \/ state # shown)
      /\ UNCHANGED <<server, shown, token, effect, first, base>>
  BY DEF LoadMore, MayLoadMore
<1>1. /\ state'.status = state.status /\ state'.rows = state.rows /\ state'.cursor = state.cursor
      /\ state'.loadingMore = TRUE /\ state' \in States
  BY <1>0 DEF Inv, Types, States
<1>2. [Free EXCEPT !.pc = "sent", !.cursor = shown.cursor] \in Requests
  BY FreshTypes DEF Inv, Types, States, Requests, Free
<1>3. /\ more'[s].pc = "sent" /\ more'[s].cursor = shown.cursor
      /\ \A q \in Slots \ {s} : more'[q] = more[q]
  BY <1>0 DEF Inv, Types, Free
<1>4. Types'
  BY <1>0, <1>1, <1>2 DEF Inv, Types, server
<1>5. Stage' /\ FirstPage'
  BY <1>0, <1>1 DEF Inv, Stage, FirstPage, server
<1>6. Ready'
  BY <1>0, <1>1 DEF Inv, Ready, Whole, server
<1>7. Flight'
  <2> SUFFICES ASSUME ~raced', effect = token
               PROVE  /\ state.status = "ready" /\ state.cursor # End /\ state.cursor = shown.cursor
                      /\ \A q \in Slots : more'[q].pc # "free" => q = s
    BY <1>0, <1>1, <1>3 DEF Flight
  <2>1. ~raced /\ state = shown
    BY <1>0
  <2>2. \A q \in Slots : more[q].pc = "free"
    BY <1>0, <2>1 DEF Inv, Flight
  <2>3. QED
    BY <1>0, <1>3, <2>1, <2>2
<1>8. QED
  BY <1>4, <1>5, <1>6, <1>7 DEF Inv

(* The rows and the page behind them.                                      *)
LEMMA Appended ==
  ASSUME Inv, NEW r \in Requests, Whole, Follows(r), NEW rows, rows = state.rows \o r.items
  PROVE  /\ InOrder(rows) /\ \A j \in DOMAIN rows : r.next <= rows[j]
         /\ \A n \in base \cap table : r.next <= n => n \in Elements(rows)
<1>0. /\ state.rows \in Seq(Notes) /\ r.items \in Seq(Notes)
      /\ state.cursor \in Int /\ r.next \in Int /\ \A n \in Notes : n \in Int
  <2>1. r.items \in Seq(Notes) /\ r.next \in 0..MaxNotes
    BY DEF Requests
  <2>2. QED
    BY <2>1, Numbers
<1> DEFINE a == state.rows
           b == r.items
<1>1. /\ \A j \in DOMAIN a : j \in DOMAIN rows /\ rows[j] = a[j]
      /\ \A j \in DOMAIN rows : j \notin DOMAIN a => j - Len(a) \in DOMAIN b /\ rows[j] = b[j - Len(a)]
      /\ \A j \in DOMAIN b : Len(a) + j \in DOMAIN rows /\ rows[Len(a) + j] = b[j]
      /\ DOMAIN a = 1..Len(a) /\ Len(a) \in Nat /\ Len(b) \in Nat /\ DOMAIN rows = 1..(Len(a) + Len(b))
  <2>1. a \in Seq(Notes) /\ b \in Seq(Notes) /\ rows = a \o b
    BY <1>0
  <2> HIDE DEF a, b
  <2>2. /\ \A j \in DOMAIN a : j \in DOMAIN (a \o b) /\ (a \o b)[j] = a[j]
        /\ \A j \in DOMAIN (a \o b) :
             j \notin DOMAIN a => j - Len(a) \in DOMAIN b /\ (a \o b)[j] = b[j - Len(a)]
        /\ \A j \in DOMAIN b : Len(a) + j \in DOMAIN (a \o b) /\ (a \o b)[Len(a) + j] = b[j]
    BY <2>1, JoinIs
  <2>3. /\ DOMAIN a = 1..Len(a) /\ Len(a) \in Nat /\ Len(b) \in Nat
        /\ DOMAIN (a \o b) = 1..(Len(a) + Len(b))
    BY <2>1, JoinIs
  <2>4. QED
    BY <2>1, <2>2, <2>3
<1>2. /\ \A j \in DOMAIN a : a[j] \in Int /\ state.cursor <= a[j]
      /\ \A j \in DOMAIN b : b[j] \in Int /\ r.next <= b[j] /\ b[j] < state.cursor
      /\ r.next < state.cursor /\ InOrder(a) /\ InOrder(b)
  BY <1>0 DEF Whole, Follows
<1>3. \A n \in base \cap table :
        /\ n \in Int
        /\ state.cursor <= n => n \in Elements(a)
        /\ r.next <= n /\ n < state.cursor => n \in Elements(b)
  BY Numbers DEF Whole, Follows
<1> HIDE DEF a, b
<1>4. InOrder(rows)
  <2> SUFFICES ASSUME NEW j \in DOMAIN rows, NEW k \in DOMAIN rows, j < k
               PROVE  rows[j] > rows[k]
    BY DEF InOrder
  <2>1. CASE k \in DOMAIN a
    <3>1. j \in DOMAIN a
      BY <1>1, <2>1
    <3>2. QED
      BY <1>1, <1>2, <2>1, <3>1 DEF InOrder
  <2>2. CASE j \notin DOMAIN a
    <3>1. k \notin DOMAIN a
      BY <1>1, <2>2
    <3>2. j - Len(a) < k - Len(a)
      BY <1>1
    <3>3. QED
      BY <1>1, <1>2, <2>2, <3>1, <3>2 DEF InOrder
  <2>3. CASE j \in DOMAIN a /\ k \notin DOMAIN a
    <3>1. /\ rows[j] \in Int /\ state.cursor <= rows[j]
          /\ rows[k] \in Int /\ rows[k] < state.cursor
      BY <1>1, <1>2, <2>3
    <3>2. QED
      BY <1>0, <3>1
  <2>4. QED
    BY <2>1, <2>2, <2>3
<1>5. ASSUME NEW j \in DOMAIN rows PROVE r.next <= rows[j]
  <2>1. CASE j \in DOMAIN a
    <3>1. rows[j] \in Int /\ state.cursor <= rows[j]
      BY <1>1, <1>2, <2>1
    <3>2. QED
      BY <1>0, <1>2, <3>1
  <2>2. CASE j \notin DOMAIN a
    BY <1>1, <1>2, <2>2
  <2>3. QED
    BY <2>1, <2>2
<1>6. ASSUME NEW n \in base \cap table, r.next <= n
      PROVE  n \in Elements(rows)
  <2>1. n \in Elements(a) \/ n \in Elements(b)
    BY <1>0, <1>3, <1>6
  <2>2. QED
    <3>1. \A j \in DOMAIN a : a[j] \in Elements(rows)
      BY <1>1 DEF Elements
    <3>2. \A j \in DOMAIN b : b[j] \in Elements(rows)
      BY <1>1 DEF Elements
    <3>3. QED
      BY <2>1, <3>1, <3>2 DEF Elements
<1>7. QED
  BY <1>4, <1>5, <1>6

(* A further page is appended to the rows, or does not come.               *)
LEMMA MoreEndsKeeps ==
  ASSUME Inv, NEW s \in Slots, MoreArrives(s) \/ MoreFails(s)
  PROVE  Inv'
<1>0. /\ more[s].pc # "free" /\ more' = [more EXCEPT ![s] = Free]
      /\ UNCHANGED <<server, shown, token, effect, first, latest, base, raced>>
  BY DEF MoreArrives, MoreFails
<1>1. state'.status = state.status /\ state' \in States
  <2>1. CASE MoreArrives(s)
    <3>1. state' = [state EXCEPT !.rows = state.rows \o more[s].items, !.cursor = more[s].next,
                                 !.loadingMore = FALSE]
      BY <2>1 DEF MoreArrives
    <3>2. state.rows \o more[s].items \in Seq(Notes) /\ more[s].next \in 0..MaxNotes
      BY Numbers DEF Requests
    <3>3. QED
      BY <3>1, <3>2 DEF Inv, Types, States
  <2>2. CASE MoreFails(s)
    BY <2>2 DEF MoreFails, Inv, Types, States
  <2>3. QED
    BY <2>1, <2>2
<1>2. Types'
  BY <1>0, <1>1, FreshTypes DEF Inv, Types, server
<1>3. Stage' /\ FirstPage'
  BY <1>0, <1>1 DEF Inv, Stage, FirstPage, server
<1>4. ASSUME ~raced, effect = token
      PROVE  /\ state.status = "ready" /\ \A q \in Slots : more'[q].pc = "free"
             /\ more[s].pc = "answered" => Follows(more[s])
  BY <1>0, <1>4, FreshTypes DEF Inv, Flight, Types
<1>5. Flight'
  BY <1>0, <1>4 DEF Flight
<1>6. Ready'
  <2>1. ASSUME ~raced, state.status = "ready" PROVE Whole'
    <3>1. effect = token /\ Whole
      BY <2>1 DEF Inv, Stage, Ready
    <3>2. CASE MoreArrives(s)
      <4>1. /\ state'.rows = state.rows \o more[s].items /\ state'.cursor = more[s].next
            /\ more[s].pc = "answered"
        BY <3>2 DEF MoreArrives, Inv, Types, States
      <4>2. Follows(more[s]) /\ more[s] \in Requests
        BY <1>4, <2>1, <3>1, <4>1, Numbers
      <4>3. QED
        BY <1>0, <3>1, <4>1, <4>2, Appended DEF Whole, server
    <3>3. CASE MoreFails(s)
      <4>1. state'.rows = state.rows /\ state'.cursor = state.cursor
        BY <3>3 DEF MoreFails, Inv, Types, States
      <4>2. QED
        BY <1>0, <3>1, <4>1 DEF Whole, server
    <3>4. QED
      BY <3>2, <3>3
  <2>2. QED
    BY <1>0, <1>1, <2>1 DEF Inv, Ready
<1>7. QED
  BY <1>2, <1>3, <1>5, <1>6 DEF Inv

-----------------------------------------------------------------------------
(***************************************************************************)
(* The theorems.                                                           *)
(***************************************************************************)
(* The inductive invariant, for every number of notes, reloads and         *)
(* requests and every size of page: the first page has every note down to  *)
(* its cursor, and each loadMore that did not race takes up there.         *)
THEOREM KeysetInvariant == Spec => []Inv
<1>1. Init => Inv
  <2> SUFFICES ASSUME Init PROVE Inv
    OBVIOUS
  <2>1. MaxNotes \in Nat
    BY KeysetAssumption
  <2>2. created \in 0..MaxNotes /\ table = 1..created /\ open = {} /\ base = {}
    BY DEF Init
  <2>3. more \in [Slots -> Requests] /\ \A s \in Slots : more[s].pc = "free"
    BY FreshTypes DEF Init
  <2>4. Types
    <3>1. token \in Nat /\ effect \in 0..token
      BY DEF Init
    <3>2. open \cap (table \cup base) = {} /\ base \subseteq 1..created
      BY <2>2
    <3>3. QED
      BY <2>2, <2>3, <3>1, <3>2, FreshTypes DEF Init, Types
  <2>5. Stage /\ FirstPage /\ Flight /\ Ready
    BY <2>3, FreshTypes DEF Init, Stage, FirstPage, Flight, Ready
  <2>6. QED
    BY <2>4, <2>5 DEF Inv
<1>2. Inv /\ [Next]_vars => Inv'
  <2> SUFFICES ASSUME Inv, [Next]_vars PROVE Inv'
    OBVIOUS
  <2>1. CASE Writers
    BY <2>1, WritersKeep
  <2>2. CASE React
    BY <2>2, RenderKeeps, EffectKeeps DEF React
  <2>3. CASE Person
    BY <2>3, ReloadKeeps, LoadMoreKeeps DEF Person
  <2>4. CASE LoadFirst
    BY <2>4, ServeFirstKeeps, FirstArrivesKeeps, FirstFailsKeeps DEF LoadFirst
  <2>5. ASSUME NEW s \in Slots, LoadNext(s) PROVE Inv'
    BY <2>5, ServeMoreKeeps, MoreEndsKeeps DEF LoadNext
  <2>6. CASE UNCHANGED vars
    <3>1. Types' /\ base \cap table' \subseteq base \cap table
      BY <2>6 DEF Inv, Types, vars, server, hook
    <3>2. QED
      BY <2>6, <3>1, WorldKeeps DEF vars, hook
  <2>7. QED
    BY <2>1, <2>2, <2>3, <2>4, <2>5, <2>6 DEF Next
<1>3. QED
  BY <1>1, <1>2, PTL DEF Spec

(* Every variable holds a value of its kind.                               *)
THEOREM TypeCorrect == Spec => []TypeOK
<1>1. Inv => TypeOK
  <2> SUFFICES ASSUME Inv PROVE TypeOK
    OBVIOUS
  <2>1. table \subseteq Notes /\ base \subseteq Notes /\ open \subseteq Notes
    <3>1. \A n \in open : n \in 1..created /\ n \in Int /\ created \in 0..MaxNotes /\ MaxNotes \in Nat
      BY Numbers DEF Inv, Types
    <3>2. open \subseteq Notes
      BY <3>1 DEF Notes
    <3>3. QED
      BY <3>2, Numbers
  <2>2. \A s \in Seq(Notes) : Elements(s) \subseteq Notes
    BY DEF Elements
  <2>3. \A s \in {state, shown} : s \in States
    BY DEF Inv, Types
  <2>4. \A r \in {first} \cup {more[s] : s \in Slots} : r \in Requests
    BY DEF Inv, Types
  <2>5. QED
    BY <2>1, <2>2, <2>3, <2>4 DEF Inv, Types, TypeOK, States, Requests
<1>2. QED
  BY <1>1, KeysetInvariant, PTL

(* However notes are created, committed late and removed between two       *)
(* pages: rows are newest first, no note is there twice, and no page skips *)
(* a note.                                                                 *)
THEOREM ListIsWholeHolds == Spec => []ListIsWhole
<1>1. Inv => ListIsWhole
  <2> SUFFICES ASSUME Inv, ~raced, shown.status = "ready"
               PROVE  RowsInOrder /\ (shown = state => NothingSkipped)
    BY DEF ListIsWhole
  <2>1. RowsInOrder
    BY DEF Inv, Ready, InOrder, RowsInOrder
  <2>2. ASSUME shown = state PROVE NothingSkipped
    <3>1. Whole
      BY <2>2 DEF Inv, Ready
    <3>2. \A n \in base \cap table : n >= state.cursor => state.cursor <= n
      BY Numbers
    <3>3. QED
      BY <2>2, <3>1, <3>2 DEF Whole, NothingSkipped
  <2>3. QED
    BY <2>1, <2>2
<1>2. QED
  BY <1>1, KeysetInvariant, PTL

-----------------------------------------------------------------------------
(***************************************************************************)
(* The lines of a stream (Sse), and what one more line says.               *)
(***************************************************************************)
Text == Seq(Atoms)

(* The greatest member of a set of numbers.                                *)
LEMMA MaxIs ==
  ASSUME NEW S \in SUBSET Int, IsFiniteSet(S), NEW x \in S, \A y \in S : y <= x
  PROVE  Max(S) = x
<1> DEFINE m == Max(S)
<1>1. \A y \in S : x >= y
  OBVIOUS
<1>2. m \in S /\ \A y \in S : m >= y
  BY <1>1, Zenon DEF Max
<1> HIDE DEF m
<1>3. m >= x /\ m <= x /\ m \in Int /\ x \in Int
  BY <1>2
<1>4. QED
  BY <1>3 DEF m

(* The lines before k since the last blank one.                            *)
LEMMA SinceIs ==
  ASSUME NEW L \in Seq(Text), NEW k \in 1..(Len(L) + 1)
  PROVE  Since(L, k) \in 1..k /\ \A j \in Since(L, k)..(k - 1) : L[j] # <<>>
<1> DEFINE B == {0} \cup {j \in 1..k-1 : L[j] = <<>>}
<1>1. k \in Nat /\ k >= 1 /\ B \subseteq 0..(k - 1) /\ 0 \in B /\ B \in SUBSET Int
  OBVIOUS
<1>2. IsFiniteSet(B)
  <2>1. IsFiniteSet(0..(k - 1))
    BY <1>1, FS_Interval
  <2>2. QED
    BY <1>1, <2>1, FS_Subset
<1>3. \A j \in 1..(k - 1) : L[j] = <<>> => j \in B
  OBVIOUS
<1>4. Since(L, k) = 1 + Max(B)
  BY DEF Since
<1> HIDE DEF B
<1>5. PICK x \in B : \A y \in B : y <= x
  BY <1>1, <1>2, Greatest
<1>6. Max(B) = x
  BY <1>1, <1>2, <1>5, MaxIs
<1>7. x \in 0..(k - 1)
  BY <1>1
<1>8. QED
  BY <1>1, <1>3, <1>4, <1>5, <1>6, <1>7

(* What the lines before k say does not change with one more line.         *)
LEMMA NamedStays ==
  ASSUME NEW L \in Seq(Text), NEW l \in Text, NEW k \in 1..(Len(L) + 1)
  PROVE  /\ Since(Append(L, l), k) = Since(L, k)
         /\ \A field : Named(Append(L, l), field, k) = Named(L, field, k)
         /\ IdLines(Append(L, l), k) = IdLines(L, k)
         /\ RetryLines(Append(L, l), k) = RetryLines(L, k)
<1> DEFINE M == Append(L, l)
<1>1. /\ \A j \in 1..(k - 1) : M[j] = L[j]
      /\ k \in Nat
  OBVIOUS
<1> HIDE DEF M
<1>2. {j \in 1..k-1 : M[j] = <<>>} = {j \in 1..k-1 : L[j] = <<>>}
  BY <1>1
<1>3. Since(M, k) = Since(L, k)
  BY <1>2 DEF Since
<1>4. Since(L, k) \in 1..k
  BY SinceIs
<1>5. ASSUME NEW field PROVE Named(M, field, k) = Named(L, field, k)
  <2>1. \A j \in Since(L, k)..(k - 1) : M[j] = L[j]
    BY <1>1, <1>4
  <2>2. QED
    BY <1>3, <2>1 DEF Named
<1>6. IdLines(M, k) = IdLines(L, k) /\ RetryLines(M, k) = RetryLines(L, k)
  BY <1>1 DEF IdLines, RetryLines
<1>7. QED
  BY <1>3, <1>5, <1>6 DEF M

(* The values of some lines.                                               *)
LEMMA ValueIs ==
  ASSUME NEW l \in Text, l # <<>>
  PROVE  ValueOf(l) \in Text
<1>1. Tail(l) \in Text
  BY DEF Text
<1>2. Tail(l) # <<>> => Tail(Tail(l)) \in Text
  BY <1>1 DEF Text
<1>3. QED
  BY <1>1, <1>2 DEF ValueOf

(* With one more line, the lines that count are those that did, and the    *)
(* new one if it does; unless it is blank, which starts over.              *)
LEMMA NamedGrows ==
  ASSUME NEW L \in Seq(Text), NEW l \in Text
  PROVE  LET n == Len(L)
             M == Append(L, l)
             New(K, P) == IF P THEN K \cup {n + 1} ELSE K
         IN /\ M \in Seq(Text) /\ Len(M) = n + 1 /\ M[n + 1] = l
            /\ \A field : Named(M, field, n + 2) =
                 IF l = <<>> THEN {} ELSE New(Named(L, field, n + 1), Head(l) = field)
            /\ IdLines(M, n + 2) =
                 New(IdLines(L, n + 1), GivesId(l))
            /\ RetryLines(M, n + 2) =
                 New(RetryLines(L, n + 1), GivesRetry(l))
<1> DEFINE n == Len(L)
           M == Append(L, l)
<1>1. /\ n \in Nat /\ M \in Seq(Text) /\ Len(M) = n + 1 /\ M[n + 1] = l
      /\ \A j \in 1..n : M[j] = L[j]
      /\ n + 1 \in 1..(n + 1) /\ n + 2 \in 1..(Len(M) + 1)
  OBVIOUS
<1>2. Since(L, n + 1) \in 1..(n + 1)
  BY <1>1, SinceIs
<1> HIDE DEF n, M
<1>3. l = <<>> => Since(M, n + 2) = n + 2
  <2> SUFFICES ASSUME l = <<>> PROVE Since(M, n + 2) = n + 2
    OBVIOUS
  <2>1. Since(M, n + 2) \in 1..(n + 2) /\ \A j \in Since(M, n + 2)..(n + 1) : M[j] # <<>>
    <3>1. (n + 2) - 1 = n + 1
      BY <1>1
    <3>2. QED
      BY <1>1, <3>1, SinceIs
  <2>2. ~(n + 1 \in Since(M, n + 2)..(n + 1))
    BY <1>1, <2>1
  <2>3. QED
    BY <1>1, <2>1, <2>2
<1>4. l # <<>> => Since(M, n + 2) = Since(L, n + 1)
  <2> SUFFICES ASSUME l # <<>> PROVE Since(M, n + 2) = Since(L, n + 1)
    OBVIOUS
  <2>1. {j \in 1..((n + 2) - 1) : M[j] = <<>>} = {j \in 1..((n + 1) - 1) : L[j] = <<>>}
    BY <1>1
  <2>2. QED
    BY <2>1 DEF Since
<1>5. ASSUME NEW field
      PROVE  Named(M, field, n + 2) =
               IF l = <<>> THEN {}
               ELSE IF Head(l) = field THEN Named(L, field, n + 1) \cup {n + 1}
               ELSE Named(L, field, n + 1)
  <2>1. CASE l = <<>>
    <3>1. (n + 2)..((n + 2) - 1) = {}
      BY <1>1
    <3>2. QED
      BY <1>3, <2>1, <3>1 DEF Named
  <2>2. CASE l # <<>>
    <3> DEFINE a == Since(L, n + 1)
    <3>1. /\ Named(M, field, n + 2) = {j \in a..((n + 2) - 1) : Gives(M[j], field)}
          /\ Named(L, field, n + 1) = {j \in a..((n + 1) - 1) : Gives(L[j], field)}
      BY <1>4, <2>2 DEF Named
    <3>2. a \in Int /\ a <= n + 1 /\ a >= 1
      BY <1>1, <1>2
    <3> HIDE DEF a
    <3>3. a..((n + 2) - 1) = a..n \cup {n + 1} /\ a..((n + 1) - 1) = a..n /\ n + 1 \notin a..n
      BY <1>1, <3>2
    <3>4. \A j \in a..n : M[j] = L[j]
      BY <1>1, <3>2
    <3>5. Gives(M[n + 1], field) <=> Head(l) = field
      BY <1>1, <2>2 DEF Gives
    <3>6. QED
      BY <2>2, <3>1, <3>3, <3>4, <3>5
  <2>3. QED
    BY <2>1, <2>2
<1>6. /\ 1..((n + 2) - 1) = 1..n \cup {n + 1} /\ 1..((n + 1) - 1) = 1..n
      /\ n + 1 \notin 1..n /\ \A j \in 1..n : M[j] = L[j] /\ M[n + 1] = l
  BY <1>1
<1>7. IdLines(M, n + 2) =
        IF GivesId(l)
        THEN IdLines(L, n + 1) \cup {n + 1} ELSE IdLines(L, n + 1)
  <2>1. IdLines(L, n + 1) = {j \in 1..n : GivesId(L[j])}
    BY <1>6, Zenon DEF IdLines
  <2>2. IdLines(M, n + 2) = {j \in 1..n \cup {n + 1} : GivesId(M[j])}
    BY <1>6, Zenon DEF IdLines
  <2>3. \A j \in 1..n : GivesId(M[j]) <=> GivesId(L[j])
    BY <1>6, Zenon
  <2>4. GivesId(M[n + 1]) <=> GivesId(l)
    BY <1>1
  <2>5. QED
    BY <2>1, <2>2, <2>3, <2>4
<1>8. RetryLines(M, n + 2) =
        IF GivesRetry(l)
        THEN RetryLines(L, n + 1) \cup {n + 1} ELSE RetryLines(L, n + 1)
  <2>1. RetryLines(L, n + 1) = {j \in 1..n : GivesRetry(L[j])}
    BY <1>6, Zenon DEF RetryLines
  <2>2. RetryLines(M, n + 2) = {j \in 1..n \cup {n + 1} : GivesRetry(M[j])}
    BY <1>6, Zenon DEF RetryLines
  <2>3. \A j \in 1..n : GivesRetry(M[j]) <=> GivesRetry(L[j])
    BY <1>6, Zenon
  <2>4. GivesRetry(M[n + 1]) <=> GivesRetry(l)
    BY <1>1
  <2>5. QED
    BY <2>1, <2>2, <2>3, <2>4
<1>9. QED
  BY <1>1, <1>5, <1>7, <1>8, Zenon DEF n, M

(* The values of lines that were there, before and after the new line.     *)
LEMMA ValuesStay ==
  ASSUME NEW L \in Seq(Text), NEW l \in Text, NEW K \in SUBSET (1..Len(L))
  PROVE  /\ IsFiniteSet(K) /\ K \in SUBSET Int
         /\ ValuesOf(Append(L, l), K) = ValuesOf(L, K)
         /\ LastValue(Append(L, l), K) = LastValue(L, K)
<1> DEFINE M == Append(L, l)
<1>1. \A j \in K : M[j] = L[j]
  OBVIOUS
<1> HIDE DEF M
<1>2. IsFiniteSet(K) /\ K \in SUBSET Int
  <2>1. Len(L) \in Nat
    OBVIOUS
  <2>2. IsFiniteSet(1..Len(L))
    BY <2>1, FS_Interval
  <2>3. IsFiniteSet(K)
    BY <2>2, FS_Subset
  <2>4. K \in SUBSET Int
    BY <2>1
  <2>5. QED
    BY <2>3, <2>4
<1>3. \A j \in 1..Cardinality(K) : Ascending(K)[j] \in K
  BY <1>2, AscendingIs
<1>4. ValuesOf(M, K) = ValuesOf(L, K)
  BY <1>1, <1>3 DEF ValuesOf
<1>5. K # {} => Max(K) \in K
  <2> SUFFICES ASSUME K # {} PROVE Max(K) \in K
    OBVIOUS
  <2>1. PICK x \in K : \A y \in K : y <= x
    BY <1>2, Greatest
  <2>2. QED
    BY <1>2, <2>1, MaxIs
<1>6. LastValue(M, K) = LastValue(L, K)
  BY <1>1, <1>5 DEF LastValue
<1>7. QED
  BY <1>2, <1>4, <1>6 DEF M

(* The values when the new line counts.                                    *)
LEMMA ValuesGrow ==
  ASSUME NEW L \in Seq(Text), NEW l \in Text, NEW K \in SUBSET (1..Len(L))
  PROVE  LET M == Append(L, l)
             N == K \cup {Len(L) + 1}
         IN /\ ValuesOf(M, N) = Append(ValuesOf(L, K), ValueOf(l))
            /\ LastValue(M, N) = ValueOf(l)
<1> DEFINE M == Append(L, l)
           n == Len(L)
           N == K \cup {n + 1}
           c == Cardinality(K)
<1>1. n \in Nat /\ M[n + 1] = l /\ (\A y \in K : y < n + 1 /\ M[y] = L[y])
  OBVIOUS
<1>2. IsFiniteSet(K) /\ K \in SUBSET Int
  BY ValuesStay
<1> HIDE DEF M, n
<1>3. /\ IsFiniteSet(N) /\ c \in Nat /\ Cardinality(N) = c + 1
      /\ Ascending(N)[c + 1] = n + 1
      /\ \A j \in 1..c : Ascending(K)[j] \in K /\ Ascending(N)[j] = Ascending(K)[j]
  <2>1. n + 1 \in Int /\ \A y \in K : y < n + 1
    BY <1>1
  <2> DEFINE x == n + 1
  <2> HIDE DEF x
  <2>2. x \in Int /\ \A y \in K : y < x
    BY <2>1 DEF x
  <2>3. /\ IsFiniteSet(K \cup {x}) /\ Cardinality(K) \in Nat
        /\ Cardinality(K \cup {x}) = Cardinality(K) + 1
        /\ Ascending(K \cup {x})[Cardinality(K) + 1] = x
        /\ \A j \in 1..Cardinality(K) :
              Ascending(K)[j] \in K /\ Ascending(K \cup {x})[j] = Ascending(K)[j]
    BY <1>2, <2>2, AscendingAppend
  <2>4. QED
    BY <2>3, Zenon DEF x
<1>4. ValuesOf(M, N) = Append(ValuesOf(L, K), ValueOf(l))
  <2> DEFINE s == ValuesOf(L, K)
             t == ValuesOf(M, N)
  <2>1. s = [j \in 1..c |-> ValueOf(L[Ascending(K)[j]])]
    BY DEF ValuesOf
  <2>2. t = [j \in 1..(c + 1) |-> ValueOf(M[Ascending(N)[j]])]
    BY <1>3 DEF ValuesOf
  <2> HIDE DEF s, t, c, N
  <2>3. t[c + 1] = ValueOf(l)
    BY <1>1, <1>3, <2>2
  <2>0. c \in Nat /\ \A j \in 1..c : j \in 1..(c + 1)
    BY <1>3
  <2>4. \A j \in 1..c : t[j] = s[j]
    <3> SUFFICES ASSUME NEW j \in 1..c PROVE t[j] = s[j]
      OBVIOUS
    <3>1. Ascending(N)[j] = Ascending(K)[j] /\ M[Ascending(K)[j]] = L[Ascending(K)[j]]
      BY <1>1, <1>3
    <3>2. t[j] = ValueOf(M[Ascending(N)[j]]) /\ s[j] = ValueOf(L[Ascending(K)[j]])
      BY <2>0, <2>1, <2>2
    <3>3. QED
      BY <3>1, <3>2
  <2> DEFINE X == {s[j] : j \in 1..c} \cup {t[j] : j \in 1..(c + 1)}
  <2>5. s \in [1..c -> X]
    BY <2>1
  <2>6. t \in [1..(c + 1) -> X]
    BY <2>2
  <2> HIDE DEF X
  <2>7. t = Append(s, ValueOf(l))
    BY <2>0, <2>3, <2>4, <2>5, <2>6, AppendIs
  <2>8. QED
    BY <2>7 DEF s, t
<1>5. LastValue(M, N) = ValueOf(l)
  <2>1. Max(N) = n + 1
    <3>1. N \in SUBSET Int /\ n + 1 \in N /\ \A y \in N : y <= n + 1
      BY <1>1, <1>2
    <3> HIDE DEF N
    <3>2. QED
      BY <1>3, <3>1, MaxIs
  <2>2. QED
    BY <1>1, <2>1 DEF LastValue
<1>6. QED
  BY <1>4, <1>5 DEF M, n

(* The lines that say something are lines.                                 *)
LEMMA NamedAre ==
  ASSUME NEW L \in Seq(Text), NEW k \in 1..(Len(L) + 1)
  PROVE  /\ \A field : Named(L, field, k) \in SUBSET (1..(k - 1))
         /\ IdLines(L, k) \in SUBSET (1..(k - 1))
         /\ RetryLines(L, k) \in SUBSET (1..(k - 1))
         /\ 1..(k - 1) \subseteq 1..Len(L)
<1>1. Since(L, k) \in 1..k
  BY SinceIs
<1>2. \A j \in Since(L, k)..(k - 1) : j \in 1..(k - 1)
  BY <1>1
<1>3. \A field : Named(L, field, k) \in SUBSET (1..(k - 1))
  BY <1>2 DEF Named
<1>4. IdLines(L, k) \in SUBSET (1..(k - 1)) /\ RetryLines(L, k) \in SUBSET (1..(k - 1))
  BY DEF IdLines, RetryLines
<1>5. QED
  BY <1>3, <1>4

(* The event a line ends does not change with one more line.               *)
LEMMA EventStays ==
  ASSUME NEW L \in Seq(Text), NEW l \in Text, NEW k \in 1..(Len(L) + 1)
  PROVE  EventAt(Append(L, l), k) = EventAt(L, k)
<1> DEFINE M == Append(L, l)
<1>1. \A K \in SUBSET (1..Len(L)) :
        ValuesOf(M, K) = ValuesOf(L, K) /\ LastValue(M, K) = LastValue(L, K)
  BY ValuesStay
<1>2. /\ \A field : Named(L, field, k) \in SUBSET (1..Len(L))
      /\ IdLines(L, k) \in SUBSET (1..Len(L))
  BY NamedAre
<1>3. (\A field : Named(M, field, k) = Named(L, field, k)) /\ IdLines(M, k) = IdLines(L, k)
  BY NamedStays
<1> HIDE DEF M
<1>4. EventAt(M, k) = EventAt(L, k)
  BY <1>1, <1>2, <1>3 DEF EventAt
<1>5. QED
  BY <1>4 DEF M

(* The events of the lines, with one line more.                            *)
LEMMA EventsGrow ==
  ASSUME NEW L \in Seq(Text), NEW l \in Text
  PROVE  EventsOf(Append(L, l)) =
           IF l = <<>> /\ Named(L, "data", Len(L) + 1) # {}
           THEN Append(EventsOf(L), EventAt(L, Len(L) + 1)) ELSE EventsOf(L)
<1> DEFINE n == Len(L)
           M == Append(L, l)
           P == l = <<>> /\ Named(L, "data", n + 1) # {}
           c == Cardinality(Ending(L))
<1>1. /\ n \in Nat /\ Len(M) = n + 1 /\ M[n + 1] = l /\ DOMAIN L = 1..n
      /\ DOMAIN M = 1..n \cup {n + 1} /\ n + 1 \notin 1..n
      /\ \A j \in 1..n : M[j] = L[j] /\ j \in 1..(n + 1) /\ j < n + 1
      /\ n + 1 \in 1..(n + 1)
  OBVIOUS
<1>2. \A k \in 1..(n + 1) : /\ Named(M, "data", k) = Named(L, "data", k)
                            /\ EventAt(M, k) = EventAt(L, k)
  BY NamedStays, EventStays
<1> HIDE DEF n, M
<1>3. Ending(M) = IF P THEN Ending(L) \cup {n + 1} ELSE Ending(L)
  <2>1. \A k \in 1..n : k \in Ending(M) <=> k \in Ending(L)
    BY <1>1, <1>2 DEF Ending
  <2>2. n + 1 \in Ending(M) <=> P
    BY <1>1, <1>2 DEF Ending
  <2>3. Ending(L) \subseteq 1..n /\ Ending(M) \subseteq 1..n \cup {n + 1}
    BY <1>1 DEF Ending
  <2> DEFINE D == 1..n
             x == n + 1
  <2>4. x \notin D
    BY <1>1
  <2> DEFINE A == Ending(L)
             B == Ending(M)
  <2>5. /\ A \subseteq D /\ B \subseteq D \cup {x} /\ (x \in B <=> P)
        /\ \A k \in D : k \in B <=> k \in A
    BY <2>1, <2>2, <2>3
  <2> HIDE DEF P, D, x, A, B
  <2>6. P => B = A \cup {x}
    BY <2>5
  <2>7. ~P => B = A
    BY <2>4, <2>5
  <2>8. Ending(M) = IF P THEN Ending(L) \cup {x} ELSE Ending(L)
    BY <2>6, <2>7 DEF A, B
  <2>9. QED
    BY <2>8, Zenon DEF x
<1>4. IsFiniteSet(Ending(L)) /\ Ending(L) \in SUBSET Int /\ Ending(L) \subseteq 1..n
  <2>1. Ending(L) \subseteq 1..n
    BY <1>1 DEF Ending
  <2>2. IsFiniteSet(1..n)
    BY <1>1, FS_Interval
  <2>3. IsFiniteSet(Ending(L))
    BY <2>1, <2>2, FS_Subset
  <2>4. QED
    BY <1>1, <2>1, <2>3
<1>5. \A j \in 1..c : Ascending(Ending(L))[j] \in Ending(L)
  BY <1>4, AscendingIs
<1>6. c \in Nat
  BY <1>4, FS_CardinalityType
<1> DEFINE s == EventsOf(L)
           t == EventsOf(M)
<1>7. s = [j \in 1..c |-> EventAt(L, Ascending(Ending(L))[j])]
  BY DEF EventsOf
<1>8. CASE ~P
  <2>1. \A j \in 1..c : EventAt(M, Ascending(Ending(L))[j]) = EventAt(L, Ascending(Ending(L))[j])
    BY <1>1, <1>2, <1>4, <1>5
  <2>2. t = [j \in 1..c |-> EventAt(M, Ascending(Ending(L))[j])]
    BY <1>3, <1>8 DEF EventsOf
  <2> HIDE DEF s, t, c
  <2>3. t = s
    BY <1>7, <2>1, <2>2
  <2>4. QED
    BY <1>8, <2>3 DEF s, t, M, n
<1>9. CASE P
  <2> DEFINE x == n + 1
             N == Ending(L) \cup {x}
             e == EventAt(L, x)
  <2> HIDE DEF x
  <2>1. x \in Int /\ \A y \in Ending(L) : y < x
    BY <1>1, <1>4 DEF x
  <2>2. /\ Cardinality(N) = c + 1 /\ Ascending(N)[c + 1] = x
        /\ \A j \in 1..c : Ascending(N)[j] = Ascending(Ending(L))[j]
    BY <1>4, <2>1, AscendingAppend
  <2>3. Ending(M) = N
    BY <1>3, <1>9 DEF x
  <2>4. t = [j \in 1..(c + 1) |-> EventAt(M, Ascending(N)[j])]
    BY <2>2, <2>3 DEF EventsOf
  <2>5. x \in 1..(n + 1) /\ EventAt(M, x) = e
    BY <1>1, <1>2 DEF x
  <2> HIDE DEF s, t, c, N, e
  <2>6. c + 1 \in 1..(c + 1) /\ \A j \in 1..c : j \in 1..(c + 1)
    BY <1>6
  <2>7. t[c + 1] = e
    BY <2>2, <2>4, <2>5, <2>6
  <2>8. \A j \in 1..c : t[j] = s[j]
    <3> SUFFICES ASSUME NEW j \in 1..c PROVE t[j] = s[j]
      OBVIOUS
    <3> DEFINE k == Ascending(Ending(L))[j]
    <3>1. t[j] = EventAt(M, Ascending(N)[j]) /\ s[j] = EventAt(L, k) /\ Ascending(N)[j] = k
      BY <1>7, <2>2, <2>4, <2>6
    <3>2. k \in 1..(n + 1)
      BY <1>1, <1>4, <1>5
    <3>3. EventAt(M, k) = EventAt(L, k)
      BY <1>2, <3>2
    <3> HIDE DEF k
    <3>4. QED
      BY <3>1, <3>3
  <2> DEFINE X == {s[j] : j \in 1..c} \cup {t[j] : j \in 1..(c + 1)}
  <2>9. s \in [1..c -> X]
    BY <1>7
  <2>10. t \in [1..(c + 1) -> X]
    BY <2>4
  <2> HIDE DEF X
  <2>11. t = Append(s, e)
    BY <1>6, <2>7, <2>8, <2>9, <2>10, AppendIs
  <2>12. QED
    BY <1>9, <2>11 DEF s, t, e, M, n, x
<1>10. QED
  BY <1>8, <1>9

-----------------------------------------------------------------------------
(***************************************************************************)
(* The parser after some lines, and after one more.                        *)
(***************************************************************************)
(* The state of the parser after the lines L, with the buffer b.           *)
State(b, bs, L) ==
  [buffer |-> b, bomStripped |-> bs,
   dataLines   |-> ValuesOf(L, Named(L, "data", Len(L) + 1)),
   eventType   |-> LastValue(L, Named(L, "event", Len(L) + 1)),
   lastEventId |-> LastValue(L, IdLines(L, Len(L) + 1)),
   retryMs     |-> LastValue(L, RetryLines(L, Len(L) + 1)),
   events      |-> EventsOf(L)]

(* No values, of no lines.                                                 *)
LEMMA NoValues ==
  ASSUME NEW L, NEW K, IsFiniteSet(K)
  PROVE  /\ ValuesOf(L, K) = <<>> <=> K = {}
         /\ LastValue(L, {}) = <<>>
<1>1. Cardinality(K) \in Nat /\ (Cardinality(K) = 0 <=> K = {})
  BY FS_CardinalityType, FS_EmptySet
<1>2. ValuesOf(L, K) = <<>> <=> Cardinality(K) = 0
  <2> DEFINE c == Cardinality(K)
             s == ValuesOf(L, K)
             X == {s[j] : j \in 1..c}
  <2>1. s = [j \in 1..c |-> ValueOf(L[Ascending(K)[j]])]
    BY DEF ValuesOf
  <2> HIDE DEF s
  <2>2. s \in [1..c -> X]
    BY <2>1
  <2> HIDE DEF c, X
  <2>3. s \in Seq(X) /\ Len(s) = c
    BY <1>1, <2>2 DEF c
  <2>4. s = <<>> <=> c = 0
    BY <2>3
  <2>5. QED
    BY <2>4 DEF s, c
<1>3. QED
  BY <1>1, <1>2 DEF LastValue

(* The parser of which the fields of the event under construction are      *)
(* reset.                                                                  *)
LEMMA ResetIs ==
  ASSUME NEW a, NEW b, NEW c, NEW d, NEW e, NEW f, NEW g, NEW z, NEW S,
         S = [buffer |-> a, bomStripped |-> b, dataLines |-> c, eventType |-> d,
              lastEventId |-> e, retryMs |-> f, events |-> g]
  PROVE  [S EXCEPT !.eventType = <<>>, !.dataLines = <<>>, !.events = z] =
           [buffer |-> a, bomStripped |-> b, dataLines |-> <<>>, eventType |-> <<>>,
            lastEventId |-> e, retryMs |-> f, events |-> z]
<1> DEFINE T == [S EXCEPT !.eventType = <<>>]
           U == [T EXCEPT !.dataLines = <<>>]
<1>1. T = [buffer |-> a, bomStripped |-> b, dataLines |-> c, eventType |-> <<>>,
           lastEventId |-> e, retryMs |-> f, events |-> g]
  OBVIOUS
<1> HIDE DEF T
<1>2. U = [buffer |-> a, bomStripped |-> b, dataLines |-> <<>>, eventType |-> <<>>,
           lastEventId |-> e, retryMs |-> f, events |-> g]
  BY <1>1
<1>3. [U EXCEPT !.events = z] =
        [S EXCEPT !.eventType = <<>>, !.dataLines = <<>>, !.events = z]
  BY DEF T
<1> HIDE DEF U
<1>4. QED
  BY <1>2, <1>3

(* The parser given one more line is the parser after one more line.       *)
LEMMA StateGrows ==
  ASSUME NEW b, NEW bs, NEW L \in Seq(Text), NEW l \in Text
  PROVE  applyLine(State(b, bs, L), l) = State(b, bs, Append(L, l))
<1> DEFINE n == Len(L)
           M == Append(L, l)
           S == State(b, bs, L)
           T == State(b, bs, M)
           data == Named(L, "data", n + 1)
<1>1. n \in Nat /\ n + 1 \in 1..(n + 1) /\ Len(M) = n + 1 /\ (n + 1) + 1 = n + 2
  OBVIOUS
<1>2. /\ \A field : Named(M, field, n + 2) =
           IF l = <<>> THEN {}
           ELSE IF Head(l) = field THEN Named(L, field, n + 1) \cup {n + 1}
           ELSE Named(L, field, n + 1)
      /\ IdLines(M, n + 2) =
           IF GivesId(l) THEN IdLines(L, n + 1) \cup {n + 1} ELSE IdLines(L, n + 1)
      /\ RetryLines(M, n + 2) =
           IF GivesRetry(l) THEN RetryLines(L, n + 1) \cup {n + 1} ELSE RetryLines(L, n + 1)
  BY NamedGrows, Zenon
<1>3. /\ \A field : Named(L, field, n + 1) \in SUBSET (1..n)
      /\ IdLines(L, n + 1) \in SUBSET (1..n)
      /\ RetryLines(L, n + 1) \in SUBSET (1..n)
  <2>1. (n + 1) - 1 = n
    BY <1>1
  <2> HIDE DEF n
  <2>2. QED
    BY <1>1, <2>1, NamedAre DEF n
<1>4. \A K \in SUBSET (1..n) :
        /\ IsFiniteSet(K)
        /\ ValuesOf(M, K) = ValuesOf(L, K) /\ LastValue(M, K) = LastValue(L, K)
        /\ ValuesOf(M, K \cup {n + 1}) = Append(ValuesOf(L, K), ValueOf(l))
        /\ LastValue(M, K \cup {n + 1}) = ValueOf(l)
  BY ValuesStay, ValuesGrow, Zenon
<1>5. /\ ValuesOf(M, {}) = <<>> /\ LastValue(M, {}) = <<>>
      /\ ValuesOf(L, data) = <<>> <=> data = {}
  BY <1>3, <1>4, NoValues, FS_EmptySet
<1>6. EventsOf(M) = IF l = <<>> /\ data # {}
                    THEN Append(EventsOf(L), EventAt(L, n + 1)) ELSE EventsOf(L)
  BY EventsGrow, Zenon
<1>7. EventAt(L, n + 1) = [event |-> S.eventType, data |-> S.dataLines, id |-> S.lastEventId]
  BY DEF EventAt, State
<1>8. S = [buffer |-> b, bomStripped |-> bs,
           dataLines   |-> ValuesOf(L, data),
           eventType   |-> LastValue(L, Named(L, "event", n + 1)),
           lastEventId |-> LastValue(L, IdLines(L, n + 1)),
           retryMs     |-> LastValue(L, RetryLines(L, n + 1)),
           events      |-> EventsOf(L)]
  BY DEF State
<1>9. T = [buffer |-> b, bomStripped |-> bs,
           dataLines   |-> ValuesOf(M, Named(M, "data", n + 2)),
           eventType   |-> LastValue(M, Named(M, "event", n + 2)),
           lastEventId |-> LastValue(M, IdLines(M, n + 2)),
           retryMs     |-> LastValue(M, RetryLines(M, n + 2)),
           events      |-> EventsOf(M)]
  BY <1>1 DEF State
<1> HIDE DEF n, M, S, T, data
<1>10. /\ LastValue(M, IdLines(M, n + 2)) =
            IF GivesId(l) THEN ValueOf(l) ELSE LastValue(L, IdLines(L, n + 1))
       /\ LastValue(M, RetryLines(M, n + 2)) =
            IF GivesRetry(l) THEN ValueOf(l) ELSE LastValue(L, RetryLines(L, n + 1))
  BY <1>2, <1>3, <1>4, Zenon
<1>11. CASE l = <<>>
  <2>1. ~GivesId(l) /\ ~GivesRetry(l)
    BY <1>11 DEF GivesId, GivesRetry, Gives
  <2>2. T = [buffer |-> b, bomStripped |-> bs, dataLines |-> <<>>, eventType |-> <<>>,
             lastEventId |-> LastValue(L, IdLines(L, n + 1)),
             retryMs |-> LastValue(L, RetryLines(L, n + 1)),
             events |-> IF data = {} THEN EventsOf(L) ELSE Append(EventsOf(L), EventAt(L, n + 1))]
    <3>1. Named(M, "data", n + 2) = {} /\ Named(M, "event", n + 2) = {}
      BY <1>2, <1>11
    <3>2. EventsOf(M) = IF data = {} THEN EventsOf(L)
                        ELSE Append(EventsOf(L), EventAt(L, n + 1))
      BY <1>6, <1>11
    <3>3. QED
      BY <1>5, <1>9, <1>10, <2>1, <3>1, <3>2
  <2>3. S.dataLines = <<>> <=> data = {}
    BY <1>5, <1>8
  <2>4. applyLine(S, l) = Dispatch(S)
    BY <1>11 DEF applyLine
  <2> DEFINE z == IF S.dataLines = <<>> THEN S.events
                  ELSE Append(S.events, EventAt(L, n + 1))
  <2>6. Dispatch(S) = [S EXCEPT !.eventType = <<>>, !.dataLines = <<>>, !.events = z]
    BY <1>7 DEF Dispatch
  <2>7. z = IF data = {} THEN EventsOf(L) ELSE Append(EventsOf(L), EventAt(L, n + 1))
    BY <1>8, <2>3
  <2> HIDE DEF z
  <2>8. applyLine(S, l) = T
    BY <1>8, <2>2, <2>4, <2>6, <2>7, ResetIs, Zenon
  <2>5. QED
    BY <2>8 DEF S, T, M
<1>12. CASE l # <<>>
  <2> DEFINE v == ValueOf(l)
  <2>1. \A field :
          /\ ValuesOf(M, Named(M, field, n + 2)) =
               IF Head(l) = field THEN Append(ValuesOf(L, Named(L, field, n + 1)), v)
               ELSE ValuesOf(L, Named(L, field, n + 1))
          /\ LastValue(M, Named(M, field, n + 2)) =
               IF Head(l) = field THEN v ELSE LastValue(L, Named(L, field, n + 1))
    BY <1>2, <1>3, <1>4, <1>12, Zenon
  <2>2. EventsOf(M) = EventsOf(L)
    BY <1>6, <1>12
  <2>3. /\ GivesId(l) <=> Head(l) = "id" /\ "nul" \notin Range(v)
        /\ GivesRetry(l) <=> Head(l) = "retry" /\ IsRetry(v)
    BY <1>12 DEF GivesId, GivesRetry, Gives
  <2> HIDE DEF v
  <2>4. applyLine(S, l) =
          CASE Head(l) = "data"  -> [S EXCEPT !.dataLines = Append(@, v)]
            [] Head(l) = "event" -> [S EXCEPT !.eventType = v]
            [] Head(l) = "id" /\ "nul" \notin Range(v) -> [S EXCEPT !.lastEventId = v]
            [] Head(l) = "retry" /\ IsRetry(v) -> [S EXCEPT !.retryMs = v]
            [] OTHER -> S
    BY <1>12 DEF applyLine, v
  <2>5. T = [buffer |-> b, bomStripped |-> bs,
             dataLines |-> IF Head(l) = "data" THEN Append(ValuesOf(L, data), v) ELSE ValuesOf(L, data),
             eventType |-> IF Head(l) = "event" THEN v ELSE LastValue(L, Named(L, "event", n + 1)),
             lastEventId |-> IF GivesId(l) THEN v ELSE LastValue(L, IdLines(L, n + 1)),
             retryMs |-> IF GivesRetry(l) THEN v ELSE LastValue(L, RetryLines(L, n + 1)),
             events |-> EventsOf(L)]
    BY <1>9, <1>10, <2>1, <2>2 DEF data, v
  <2>6. applyLine(S, l) = T
    <3> HIDE DEF State
    <3>1. CASE Head(l) = "data"
      BY <1>8, <2>3, <2>4, <2>5, <3>1
    <3>2. CASE Head(l) = "event"
      BY <1>8, <2>3, <2>4, <2>5, <3>2
    <3>3. CASE Head(l) = "id"
      BY <1>8, <2>3, <2>4, <2>5, <3>3
    <3>4. CASE Head(l) = "retry"
      BY <1>8, <2>3, <2>4, <2>5, <3>4
    <3>5. CASE Head(l) \notin {"data", "event", "id", "retry"}
      BY <1>8, <2>3, <2>4, <2>5, <3>5
    <3>6. QED
      BY <3>1, <3>2, <3>3, <3>4, <3>5
  <2>7. QED
    BY <2>6 DEF S, T, M
<1>13. QED
  BY <1>11, <1>12

-----------------------------------------------------------------------------
(***************************************************************************)
(* The lines of a text, and what more text adds to them.                   *)
(***************************************************************************)
(* The beginning of a text.                                                *)
LEMMA PrefixIs ==
  ASSUME NEW T \in Text, NEW a \in 0..Len(T)
  PROVE  /\ SubSeq(T, 1, a) \in Text /\ Len(SubSeq(T, 1, a)) = a
         /\ DOMAIN SubSeq(T, 1, a) = 1..a /\ a \in Nat /\ Len(T) \in Nat
         /\ \A i \in 1..a : SubSeq(T, 1, a)[i] = T[i] /\ i \in DOMAIN T /\ T[i] \in Atoms
BY DEF Text

(* The ends of lines are places of the text.                               *)
LEMMA EndsAre ==
  ASSUME NEW T \in Text
  PROVE  /\ LineEnds(T) \subseteq 1..Len(T) /\ LineEnds(T) \in SUBSET Int
         /\ IsFiniteSet(LineEnds(T)) /\ Len(T) \in Nat
<1>1. Len(T) \in Nat /\ DOMAIN T = 1..Len(T)
  BY DEF Text
<1>2. LineEnds(T) \subseteq 1..Len(T)
  BY <1>1 DEF LineEnds
<1>3. IsFiniteSet(1..Len(T))
  BY <1>1, FS_Interval
<1>4. IsFiniteSet(LineEnds(T))
  BY <1>2, <1>3, FS_Subset
<1>5. \A i \in 1..Len(T) : i \in Int
  BY <1>1
<1>6. QED
  BY <1>1, <1>2, <1>4, <1>5

(* A beginning of a text has the ends the text has there.                  *)
LEMMA PrefixEnds ==
  ASSUME NEW X \in Text, NEW Y \in Text, Len(X) <= Len(Y), \A i \in 1..Len(X) : X[i] = Y[i]
  PROVE  LineEnds(X) = {i \in LineEnds(Y) : i <= Len(X)}
<1>1. /\ Len(X) \in Nat /\ DOMAIN X = 1..Len(X)
      /\ Len(Y) \in Nat /\ DOMAIN Y = 1..Len(Y)
  BY DEF Text
<1>2. \A i \in 1..Len(X) : /\ i \in 1..Len(Y)
                          /\ i <= Len(X)
                          /\ i # 1 => i - 1 \in 1..Len(X) /\ X[i - 1] = Y[i - 1]
  BY <1>1
<1>3. \A i \in 1..Len(Y) : i <= Len(X) => i \in 1..Len(X)
  BY <1>1
<1>4. QED
  BY <1>1, <1>2, <1>3 DEF LineEnds

(* A line is a text.                                                       *)
LEMMA LineIs ==
  ASSUME NEW T \in Text, NEW e
  PROVE  LineAt(T, e) \in Text
<1> DEFINE K == {i \in DOMAIN T : /\ T[i] \notin Terminators /\ i < e
                                  /\ \A d \in LineEnds(T) : d < e => d < i}
<1>1. K \in SUBSET DOMAIN T
  OBVIOUS
<1>2. LineAt(T, e) = Keep(T, K)
  BY DEF LineAt
<1> HIDE DEF K
<1>3. T \in Seq(Atoms)
  BY DEF Text
<1>4. Keep(T, K) \in Seq(Atoms)
  BY <1>1, <1>3, KeepIs
<1>5. QED
  BY <1>2, <1>4 DEF Text

(* The lines of a text are texts.                                          *)
LEMMA LinesAre ==
  ASSUME NEW T \in Text
  PROVE  LinesOf(T) \in Seq(Text) /\ Len(LinesOf(T)) = Cardinality(LineEnds(T))
<1> DEFINE n == Cardinality(LineEnds(T))
<1>1. n \in Nat
  BY EndsAre, FS_CardinalityType
<1>2. LinesOf(T) = [k \in 1..n |-> LineAt(T, Ascending(LineEnds(T))[k])]
  BY DEF LinesOf
<1> HIDE DEF n
<1>3. LinesOf(T) \in [1..n -> Text]
  BY <1>2, LineIs
<1>4. QED
  BY <1>1, <1>3 DEF n

(* A line that has ended does not change with what comes next.             *)
LEMMA LineStays ==
  ASSUME NEW X \in Text, NEW Y \in Text, Len(X) <= Len(Y), \A i \in 1..Len(X) : X[i] = Y[i],
         NEW e \in LineEnds(X)
  PROVE  LineAt(Y, e) = LineAt(X, e)
<1> DEFINE K(T) == {i \in DOMAIN T : /\ T[i] \notin Terminators /\ i < e
                                     /\ \A d \in LineEnds(T) : d < e => d < i}
<1>1. /\ Len(X) \in Nat /\ DOMAIN X = 1..Len(X) /\ e \in 1..Len(X)
      /\ Len(Y) \in Nat /\ DOMAIN Y = 1..Len(Y)
  BY EndsAre DEF Text
<1>2. \A d \in Int : d < e => (d \in LineEnds(X) <=> d \in LineEnds(Y))
  <2>1. LineEnds(X) = {i \in LineEnds(Y) : i <= Len(X)}
    BY PrefixEnds
  <2>2. \A d \in Int : d < e => d <= Len(X)
    BY <1>1
  <2>3. QED
    BY <2>1, <2>2
<1>3. LineEnds(X) \subseteq Int /\ LineEnds(Y) \subseteq Int
  BY EndsAre
<1>4. ASSUME NEW i \in Int PROVE i \in K(X) <=> i \in K(Y)
  <2>1. (\A d \in LineEnds(X) : d < e => d < i) <=> (\A d \in LineEnds(Y) : d < e => d < i)
    BY <1>2, <1>3
  <2>2. i < e => (i \in DOMAIN X <=> i \in DOMAIN Y)
    BY <1>1
  <2>3. i \in DOMAIN X => X[i] = Y[i]
    BY <1>1
  <2>4. QED
    BY <2>1, <2>2, <2>3
<1>5. K(X) \subseteq Int /\ K(Y) \subseteq Int
  BY <1>1
<1>6. K(X) = K(Y)
  BY <1>4, <1>5
<1>7. IsFiniteSet(K(X)) /\ \A i \in K(X) : X[i] = Y[i]
  <2>1. IsFiniteSet(1..Len(X))
    BY <1>1, FS_Interval
  <2>2. K(X) \subseteq 1..Len(X)
    BY <1>1
  <2>3. IsFiniteSet(K(X))
    BY <2>1, <2>2, FS_Subset
  <2>4. QED
    BY <2>2, <2>3
<1>8. LineAt(X, e) = Keep(X, K(X)) /\ LineAt(Y, e) = Keep(Y, K(Y))
  BY DEF LineAt
<1> HIDE DEF K
<1>9. Keep(X, K(X)) = Keep(Y, K(X))
  BY <1>5, <1>7, KeepAgrees
<1>10. QED
  BY <1>6, <1>8, <1>9

(* A text without a new end has no new line.                               *)
LEMMA LinesStay ==
  ASSUME NEW X \in Text, NEW Y \in Text, Len(X) <= Len(Y), \A i \in 1..Len(X) : X[i] = Y[i],
         LineEnds(Y) = LineEnds(X)
  PROVE  LinesOf(Y) = LinesOf(X)
<1> DEFINE E == LineEnds(X)
<1>1. E \in SUBSET Int /\ IsFiniteSet(E)
  BY EndsAre
<1>2. \A k \in 1..Cardinality(E) : Ascending(E)[k] \in E
  BY <1>1, AscendingIs
<1>3. \A e \in E : LineAt(Y, e) = LineAt(X, e)
  BY LineStays
<1>4. QED
  BY <1>2, <1>3 DEF LinesOf

(* A text with one new end has one new line.                               *)
LEMMA LinesGrow ==
  ASSUME NEW X \in Text, NEW Y \in Text, Len(X) <= Len(Y), \A i \in 1..Len(X) : X[i] = Y[i],
         NEW e \in Int, e > Len(X), LineEnds(Y) = LineEnds(X) \cup {e}
  PROVE  LinesOf(Y) = Append(LinesOf(X), LineAt(Y, e))
<1> DEFINE E == LineEnds(X)
           N == E \cup {e}
           c == Cardinality(E)
           s == LinesOf(X)
           t == LinesOf(Y)
<1>1. E \in SUBSET Int /\ IsFiniteSet(E) /\ \A d \in E : d < e
  BY EndsAre
<1>2. /\ c \in Nat /\ Cardinality(N) = c + 1 /\ Ascending(N)[c + 1] = e
      /\ \A j \in 1..c : Ascending(E)[j] \in E /\ Ascending(N)[j] = Ascending(E)[j]
  BY <1>1, AscendingAppend
<1>3. \A d \in E : LineAt(Y, d) = LineAt(X, d)
  BY LineStays
<1>4. s = [k \in 1..c |-> LineAt(X, Ascending(E)[k])]
  BY DEF LinesOf
<1>5. t = [k \in 1..(c + 1) |-> LineAt(Y, Ascending(N)[k])]
  BY <1>2 DEF LinesOf
<1>6. \A d \in Int : LineAt(X, d) \in Text /\ LineAt(Y, d) \in Text
  BY LineIs
<1> HIDE DEF E, N, c, s, t
<1>7. c + 1 \in 1..(c + 1) /\ \A j \in 1..c : j \in 1..(c + 1)
  BY <1>2
<1>8. t[c + 1] = LineAt(Y, e)
  BY <1>2, <1>5, <1>7
<1>9. \A j \in 1..c : t[j] = s[j]
  BY <1>2, <1>3, <1>4, <1>5, <1>7
<1>10. s \in [1..c -> Text] /\ t \in [1..(c + 1) -> Text]
  BY <1>4, <1>5, LineIs
<1>11. t = Append(s, t[c + 1])
  BY <1>2, <1>9, <1>10, AppendIs
<1>12. QED
  BY <1>8, <1>11 DEF s, t

-----------------------------------------------------------------------------
(***************************************************************************)
(* The text cut between two lines.                                         *)
(***************************************************************************)
(* The places at which the text can be cut between two lines: past a whole *)
(* terminator, of which the second half has come if it has one.            *)
Cut(T, s) ==
  /\ s \in 1..(Len(T) + 1)
  /\ s > 1 => /\ T[s - 1] \in Terminators
              /\ T[s - 1] = "cr" => s <= Len(T) /\ T[s] # "lf"

(* Every atom before a cut has an end of a line after it.                  *)
LEMMA CutEnds ==
  ASSUME NEW T \in Text, NEW s, Cut(T, s), NEW i \in 1..(s - 1), T[i] \notin Terminators
  PROVE  \E d \in LineEnds(T) : i < d /\ d < s
<1>1. /\ Len(T) \in Nat /\ DOMAIN T = 1..Len(T) /\ s \in 1..(Len(T) + 1) /\ s > 1
      /\ s \in Int /\ i \in Int
      /\ T[s - 1] \in Terminators /\ s - 1 \in DOMAIN T /\ s - 1 < s /\ i < s - 1
  BY DEF Cut, Text
<1>2. CASE s - 1 \in LineEnds(T)
  BY <1>1, <1>2
<1>3. CASE s - 1 \notin LineEnds(T)
  <2>1. s - 1 # 1 /\ T[s - 2] = "cr"
    BY <1>1, <1>3 DEF LineEnds, Terminators
  <2>2. s - 2 \in DOMAIN T /\ s - 2 < s /\ i <= s - 2
    BY <1>1, <2>1
  <2>3. s - 2 \in LineEnds(T) /\ i # s - 2
    BY <2>1, <2>2 DEF LineEnds, Terminators
  <2>4. i < s - 2
    BY <1>1, <2>2, <2>3
  <2>5. QED
    BY <2>2, <2>3, <2>4
<1>4. QED
  BY <1>2, <1>3

(* A text does not gain a line where it has no terminator.                 *)
LEMMA SameLines ==
  ASSUME NEW T \in Text, NEW a \in 0..Len(T), NEW b \in a..Len(T),
         \A i \in (a + 1)..b : T[i] \notin Terminators
  PROVE  LinesOf(SubSeq(T, 1, b)) = LinesOf(SubSeq(T, 1, a))
<1> DEFINE X == SubSeq(T, 1, a)
           Y == SubSeq(T, 1, b)
<1>1. b \in 0..Len(T) /\ a <= b /\ a \in Nat /\ b \in Nat
  BY DEF Text
<1>2. /\ X \in Text /\ Len(X) = a /\ \A i \in 1..a : X[i] = T[i]
      /\ Y \in Text /\ Len(Y) = b /\ \A i \in 1..b : Y[i] = T[i]
  BY <1>1, PrefixIs
<1> HIDE DEF X, Y
<1>3. Len(X) <= Len(Y) /\ \A i \in 1..Len(X) : X[i] = Y[i]
  BY <1>1, <1>2
<1>4. LineEnds(X) = {i \in LineEnds(Y) : i <= a}
  BY <1>2, <1>3, PrefixEnds
<1>5. \A i \in LineEnds(Y) : i <= a
  <2> SUFFICES ASSUME NEW i \in LineEnds(Y) PROVE i <= a
    OBVIOUS
  <2>1. i \in 1..b /\ Y[i] \in Terminators
    BY <1>2, EndsAre DEF LineEnds, Terminators
  <2>2. i \in Int /\ (i > a => i \in (a + 1)..b)
    BY <1>1, <2>1
  <2>3. QED
    BY <1>1, <1>2, <2>1, <2>2
<1>6. LineEnds(X) = LineEnds(Y)
  BY <1>4, <1>5
<1>7. LinesOf(Y) = LinesOf(X)
  BY <1>2, <1>3, <1>6, LinesStay
<1>8. QED
  BY <1>7 DEF X, Y

(* Past the first terminator e after a cut there is one line more, the     *)
(* atoms between them; b is e, or the LF of a CRLF.                        *)
LEMMA NextLine ==
  ASSUME NEW T \in Text, NEW s, Cut(T, s), NEW e \in s..Len(T), T[e] \in Terminators,
         \A i \in s..(e - 1) : T[i] \notin Terminators,
         NEW b \in e..Len(T), b = e \/ (b = e + 1 /\ T[e] = "cr" /\ T[b] = "lf")
  PROVE  LinesOf(SubSeq(T, 1, b)) = Append(LinesOf(SubSeq(T, 1, s - 1)), SubSeq(T, s, e - 1))
<1> DEFINE X == SubSeq(T, 1, s - 1)
           Y == SubSeq(T, 1, b)
<1>1. /\ Len(T) \in Nat /\ s \in 1..(Len(T) + 1) /\ s \in Int /\ s >= 1 /\ s - 1 \in 0..Len(T)
      /\ b \in 0..Len(T) /\ b \in Nat /\ e \in Int /\ s <= e /\ e <= b /\ e \in 1..b /\ b <= Len(T)
  BY DEF Text, Cut
<1>2. /\ X \in Text /\ Len(X) = s - 1 /\ \A i \in 1..(s - 1) : X[i] = T[i]
      /\ Y \in Text /\ Len(Y) = b /\ DOMAIN Y = 1..b /\ \A i \in 1..b : Y[i] = T[i]
  BY <1>1, PrefixIs
<1> HIDE DEF X, Y
<1>3. Len(X) <= Len(Y) /\ \A i \in 1..Len(X) : X[i] = Y[i]
  BY <1>1, <1>2
<1>4. LineEnds(X) = {i \in LineEnds(Y) : i <= s - 1}
  BY <1>2, <1>3, PrefixEnds
<1>5. e \in LineEnds(Y)
  <2>1. CASE T[e] = "cr"
    BY <1>1, <1>2, <2>1 DEF LineEnds
  <2>2. CASE T[e] = "lf" /\ e # 1
    <3>1. e - 1 \in 1..b /\ e - 1 \in Int
      BY <1>1, <2>2
    <3>2. T[e - 1] # "cr"
      <4>1. CASE e = s
        BY <1>1, <2>2, <4>1 DEF Cut
      <4>2. CASE e # s
        <5>1. e - 1 \in s..(e - 1)
          BY <1>1, <4>2
        <5>2. QED
          BY <5>1 DEF Terminators
      <4>3. QED
        BY <4>1, <4>2
    <3>3. QED
      BY <1>1, <1>2, <2>2, <3>1, <3>2 DEF LineEnds
  <2>3. CASE T[e] = "lf" /\ e = 1
    BY <1>1, <1>2, <2>3 DEF LineEnds
  <2>4. QED
    BY <2>1, <2>2, <2>3 DEF Terminators
<1>6. \A i \in LineEnds(Y) : i <= s - 1 \/ i = e
  <2> SUFFICES ASSUME NEW i \in LineEnds(Y), i > s - 1, i # e PROVE FALSE
    BY <1>1, <1>2, EndsAre
  <2>1. i \in 1..b /\ i \in Int /\ T[i] \in Terminators
    BY <1>2, EndsAre DEF LineEnds, Terminators
  <2>2. ~(i \in s..(e - 1))
    BY <2>1
  <2>3. i = e + 1 /\ b = e + 1
    BY <1>1, <2>1, <2>2
  <2>4. T[i] = "lf" /\ T[i - 1] = "cr" /\ i # 1 /\ i - 1 \in 1..b /\ b # e
    BY <1>1, <2>3
  <2>5. Y[i] = "lf" /\ Y[i - 1] = "cr"
    BY <1>2, <2>1, <2>4
  <2>6. QED
    BY <2>4, <2>5 DEF LineEnds
<1>7. LineEnds(Y) = LineEnds(X) \cup {e} /\ e > Len(X)
  <2>1. \A i \in LineEnds(Y) : i \in LineEnds(X) \/ i = e
    BY <1>4, <1>6
  <2>2. LineEnds(X) \subseteq LineEnds(Y)
    BY <1>4
  <2>3. e > s - 1
    BY <1>1
  <2>4. QED
    BY <1>2, <1>5, <2>1, <2>2, <2>3
<1>8. LinesOf(Y) = Append(LinesOf(X), LineAt(Y, e))
  BY <1>1, <1>2, <1>3, <1>7, LinesGrow
<1>9. LineAt(Y, e) = SubSeq(T, s, e - 1)
  <2> DEFINE K == {i \in DOMAIN Y : /\ Y[i] \notin Terminators /\ i < e
                                    /\ \A d \in LineEnds(Y) : d < e => d < i}
  <2>1. LineAt(Y, e) = Keep(Y, K)
    BY DEF LineAt
  <2>2. \A d \in LineEnds(Y) : d < e => d <= s - 1
    <3>1. LineEnds(Y) \in SUBSET Int
      BY <1>2, EndsAre
    <3>2. QED
      BY <1>1, <1>6, <3>1
  <2>3. \A i \in s..(e - 1) : i \in K
    <3> SUFFICES ASSUME NEW i \in s..(e - 1) PROVE i \in K
      OBVIOUS
    <3>1. i \in Int /\ i \in 1..b /\ i < e /\ s <= i
      BY <1>1
    <3>2. \A d \in LineEnds(Y) : d < e => d < i
      <4>1. LineEnds(Y) \in SUBSET Int
        BY <1>2, EndsAre
      <4>2. QED
        BY <1>1, <2>2, <3>1, <4>1
    <3>3. Y[i] \notin Terminators
      BY <1>2, <3>1
    <3>4. QED
      BY <1>2, <3>1, <3>2, <3>3
  <2>4. \A i \in K : i \in s..(e - 1)
    <3> SUFFICES ASSUME NEW i \in K PROVE i \in s..(e - 1)
      OBVIOUS
    <3>1. i \in 1..b /\ i \in Int /\ i < e /\ T[i] \notin Terminators
      BY <1>2
    <3>2. ASSUME i < s PROVE FALSE
      <4>1. i \in 1..(s - 1)
        BY <1>1, <3>1, <3>2
      <4>2. PICK d \in LineEnds(T) : i < d /\ d < s
        BY <3>1, <4>1, CutEnds
      <4>3. d \in 1..Len(T) /\ d \in Int /\ d <= b /\ d < e
        BY <1>1, <4>2, EndsAre
      <4>4. d \in LineEnds(Y)
        <5>1. Len(Y) <= Len(T) /\ \A j \in 1..Len(Y) : Y[j] = T[j]
          BY <1>1, <1>2
        <5>2. LineEnds(Y) = {j \in LineEnds(T) : j <= Len(Y)}
          BY <1>2, <5>1, PrefixEnds
        <5>3. QED
          BY <1>2, <4>3, <5>2
      <4>5. d < i
        BY <4>3, <4>4
      <4>6. QED
        BY <3>1, <4>2, <4>3, <4>5
    <3>3. QED
      BY <1>1, <3>1, <3>2
  <2>5. K = s..(e - 1)
    <3> HIDE DEF K
    <3>1. QED
      BY <2>3, <2>4
  <2>6. Keep(Y, s..(e - 1)) = Keep(T, s..(e - 1))
    <3>1. IsFiniteSet(s..(e - 1)) /\ s..(e - 1) \in SUBSET Int
      BY <1>1, FS_Interval
    <3>2. \A i \in s..(e - 1) : Y[i] = T[i]
      BY <1>1, <1>2
    <3>3. QED
      BY <3>1, <3>2, KeepAgrees
  <2>7. Keep(T, s..(e - 1)) = SubSeq(T, s, e - 1)
    <3>1. s \in 1..(Len(T) + 1) /\ e - 1 \in 0..Len(T) /\ s <= (e - 1) + 1
      BY <1>1
    <3>2. QED
      BY <3>1, KeepInterval DEF Text
  <2> HIDE DEF K
  <2>8. QED
    BY <2>1, <2>5, <2>6, <2>7
<1>10. QED
  BY <1>8, <1>9 DEF X, Y

-----------------------------------------------------------------------------
(***************************************************************************)
(* The walk of feedSse over a text.                                        *)
(***************************************************************************)
(* The walk goes as far as one asks.                                       *)
LEMMA WalkExists ==
  ASSUME NEW text, NEW from, NEW N \in Nat
  PROVE  \E w : w = [i \in 0..N |-> IF i = 0 THEN from ELSE Walk(text, w[i - 1], i)]
<1> DEFINE T == {i \in Nat :
                   \E w : w = [k \in 0..i |-> IF k = 0 THEN from ELSE Walk(text, w[k - 1], k)]}
<1>1. 0 \in T
  <2> DEFINE f == [k \in 0..0 |-> from]
  <2>1. f = [k \in 0..0 |-> IF k = 0 THEN from ELSE Walk(text, f[k - 1], k)]
    OBVIOUS
  <2>2. QED
    BY <2>1
<1>2. ASSUME NEW i \in T \cap Nat PROVE i + 1 \in T
  <2>1. PICK f : f = [k \in 0..i |-> IF k = 0 THEN from ELSE Walk(text, f[k - 1], k)]
    OBVIOUS
  <2> DEFINE g == [k \in 0..(i+1) |-> IF k <= i THEN f[k] ELSE Walk(text, f[i], i + 1)]
  <2>2. \A k \in 0..i : f[k] = IF k = 0 THEN from ELSE Walk(text, f[k - 1], k)
    BY <2>1
  <2> HIDE DEF T
  <2>3. ASSUME NEW k \in 0..(i+1)
        PROVE  g[k] = IF k = 0 THEN from ELSE Walk(text, g[k - 1], k)
    <3>1. CASE k <= i
      <4>1. k \in 0..i /\ (k # 0 => k - 1 \in 0..(i+1) /\ k - 1 <= i)
        BY <3>1
      <4>2. QED
        BY <2>2, <3>1, <4>1
    <3>2. CASE k = i + 1
      <4>1. k # 0 /\ k - 1 = i /\ i \in 0..(i+1) /\ ~(k <= i)
        BY <3>2
      <4>2. QED
        BY <3>2, <4>1
    <3>3. QED
      BY <3>1, <3>2
  <2>4. g = [k \in 0..(i+1) |-> g[k]]
    OBVIOUS
  <2> HIDE DEF g
  <2>5. g = [k \in 0..(i+1) |-> IF k = 0 THEN from ELSE Walk(text, g[k - 1], k)]
    BY <2>3, <2>4
  <2>6. QED
    BY <2>5 DEF T
<1> HIDE DEF T
<1>3. Nat \subseteq T
  BY <1>1, <1>2, Induct
<1>4. QED
  BY <1>3 DEF T

(* w is a walk of feedSse over a text.                                     *)
Walks(w, text, p) ==
  /\ w[0] = [p |-> p, start |-> 1]
  /\ \A i \in 1..Len(text) : w[i] = Walk(text, w[i - 1], i)

(* A feed of a chunk to the parser p is a walk over the text.              *)
Fed(p, chunk, text) ==
  \E w : /\ Walks(w, text, [p EXCEPT !.bomStripped = @ \/ p.buffer \o chunk # <<>>])
         /\ feedSse(p, chunk) = [w[Len(text)].p EXCEPT
              !.buffer = SubSeq(text, w[Len(text)].start, Len(text))]

(* It is one over what is in the buffer and the chunk.                     *)
LEMMA FeedWalks ==
  ASSUME NEW p, NEW chunk,
         NEW text \in Text, text = StripBom(p, p.buffer \o chunk)
  PROVE  Fed(p, chunk, text)
<1> DEFINE n    == Len(text)
           from == [p |-> [p EXCEPT !.bomStripped = @ \/ p.buffer \o chunk # <<>>], start |-> 1]
           w    == CHOOSE w : w = [i \in 0..n |-> IF i = 0 THEN from ELSE Walk(text, w[i - 1], i)]
<1>1. feedSse(p, chunk) = [w[n].p EXCEPT !.buffer = SubSeq(text, w[n].start, n)]
  BY Zenon DEF feedSse
<1>2. n \in Nat
  BY DEF Text
<1>3. w = [i \in 0..n |-> IF i = 0 THEN from ELSE Walk(text, w[i - 1], i)]
  <2>1. w = CHOOSE f : f = [i \in 0..n |-> IF i = 0 THEN from ELSE Walk(text, f[i - 1], i)]
    OBVIOUS
  <2> HIDE DEF from, n, w
  <2>2. QED
    BY <1>2, <2>1, WalkExists
<1> HIDE DEF w
<1>4. w[0] = from /\ \A i \in 1..n : w[i] = Walk(text, w[i - 1], i)
  <2>1. 0 \in 0..n /\ \A i \in 1..n : i \in 0..n /\ i # 0
    BY <1>2
  <2> HIDE DEF from, n
  <2>2. QED
    BY <1>3, <2>1
<1>5. QED
  BY <1>1, <1>4 DEF Walks, Fed

(* The walk from the cut s of T has come to the cut r: with the lines      *)
(* before it applied, and nothing after it that ends a line yet but a CR   *)
(* at the end.                                                             *)
Reaches(T, s, b, bs, acc) ==
  \E r \in s..(Len(T) + 1) :
    /\ Cut(T, r)
    /\ acc = [p |-> State(b, bs, LinesOf(SubSeq(T, 1, r - 1))), start |-> r - s + 1]
    /\ \A j \in r..Len(T) : T[j] \in Terminators => j = Len(T) /\ T[j] = "cr"

(* A walk over what comes after a cut of T reaches one.                    *)
LEMMA WalkIs ==
  ASSUME NEW T \in Text, NEW s, Cut(T, s), NEW b, NEW bs, NEW w,
         Walks(w, SubSeq(T, s, Len(T)), State(b, bs, LinesOf(SubSeq(T, 1, s - 1))))
  PROVE  Reaches(T, s, b, bs, w[Len(T) - s + 1])
<1> DEFINE n == Len(T)
           text == SubSeq(T, s, n)
           N == n - s + 1
           After(r) == State(b, bs, LinesOf(SubSeq(T, 1, r - 1)))
           Open(r, m) == \A j \in r..m : T[j] \in Terminators => j = n /\ T[j] = "cr"
           At(i) == \E r \in s..(n + 1) :
                      /\ Cut(T, r) /\ w[i] = [p |-> After(r), start |-> r - s + 1]
                      /\ Open(r, s + i - 1)
           I == {i \in Nat : i <= N => At(i)}
<1>1. /\ n \in Nat /\ s \in 1..(n + 1) /\ s \in Int /\ s >= 1 /\ s <= n + 1 /\ N \in Nat
      /\ T \in Seq(Atoms)
  BY DEF Cut, Text
<1>2. /\ text \in Seq(Atoms) /\ Len(text) = N /\ \A i \in 1..N : text[i] = T[s + i - 1]
  BY <1>1
<1>3. w[0] = [p |-> After(s), start |-> 1] /\ \A i \in 1..N : w[i] = Walk(text, w[i - 1], i)
  BY <1>2 DEF Walks
<1> HIDE DEF After, n, N, text
<1>4. 0 \in I
  <2>1. s \in s..(n + 1) /\ s - s + 1 = 1 /\ s..(s + 0 - 1) = {}
    BY <1>1
  <2>2. At(0)
    BY <1>3, <2>1 DEF At
  <2>3. QED
    BY <2>2
<1> HIDE DEF At
<1>5. ASSUME NEW i \in I \cap Nat PROVE i + 1 \in I
  <2> SUFFICES ASSUME i + 1 <= N PROVE At(i + 1)
    OBVIOUS
  <2> DEFINE m == s + i
  <2>0. i \in Nat /\ (i <= N => At(i))
    OBVIOUS
  <2>1. /\ i \in Nat /\ At(i) /\ i + 1 \in 1..N /\ (i + 1) - 1 = i
        /\ m \in s..n /\ m \in Int /\ s + (i + 1) - 1 = m /\ s + i - 1 = m - 1
    BY <1>1, <2>0 DEF N
  <2>2. PICK r \in s..(n + 1) :
          /\ Cut(T, r) /\ w[i] = [p |-> After(r), start |-> r - s + 1] /\ Open(r, m - 1)
    BY <2>1 DEF At
  <2>3. w[i + 1] = Walk(text, w[i], i + 1)
    BY <1>3, <2>1
  <2>4. text[i + 1] = T[m]
    BY <1>2, <2>1
  <2>5. r \in Int /\ r >= s /\ r <= n + 1 /\ (i + 1 < r - s + 1 <=> m < r)
    BY <1>1, <2>1
  <2>6. i + 1 = N <=> m = n
    BY <1>1, <2>1 DEF N
  <2>7. Deferred(text, i + 1) <=> T[m] = "cr" /\ m = n
    BY <1>2, <2>4, <2>6 DEF Deferred
  <2>8. w[i].start = r - s + 1 /\ w[i].p = After(r)
    BY <2>2
  <2> HIDE DEF m
  <2>9. CASE m < r \/ T[m] \notin Terminators \/ (T[m] = "cr" /\ m = n)
    <3>1. w[i + 1] = w[i]
      BY <2>3, <2>4, <2>5, <2>7, <2>8, <2>9 DEF Walk
    <3>2. Open(r, m)
      BY <2>1, <2>2, <2>5, <2>9
    <3>3. QED
      BY <2>1, <2>2, <3>1, <3>2 DEF At
  <2>10. CASE ~(m < r) /\ T[m] \in Terminators /\ ~(T[m] = "cr" /\ m = n)
    <3> DEFINE lf == T[m] = "cr" /\ m < n /\ T[m + 1] = "lf"
               e == IF lf THEN m + 1 ELSE m
               line == SubSeq(T, r, m - 1)
    <3>1. m \in r..n /\ \A j \in r..(m - 1) : T[j] \notin Terminators
      <4>1. m \in r..n
        BY <2>1, <2>5, <2>10
      <4>2. \A j \in r..(m - 1) : j # n
        BY <1>1, <2>1, <2>5
      <4>3. QED
        BY <2>2, <4>1, <4>2
    <3>2. e \in m..n /\ (e = m \/ (e = m + 1 /\ T[m] = "cr" /\ T[e] = "lf"))
      BY <1>1, <2>1
    <3>3. LinesOf(SubSeq(T, 1, e)) = Append(LinesOf(SubSeq(T, 1, r - 1)), line)
      <4> HIDE DEF e, line
      <4>1. QED
        BY <2>2, <2>10, <3>1, <3>2, NextLine DEF n, line
    <3>4. line \in Text
      BY <1>1, <2>1, <2>5, <3>1 DEF Text, n
    <3>5. LinesOf(SubSeq(T, 1, r - 1)) \in Seq(Text)
      <4>1. r - 1 \in 0..n
        BY <1>1, <2>5
      <4>2. QED
        BY <4>1, PrefixIs, LinesAre DEF n
    <3>6. applyLine(After(r), line) = After(e + 1)
      <4>1. (e + 1) - 1 = e
        BY <2>1, <3>2
      <4> HIDE DEF e, line
      <4>2. applyLine(After(r), line) = State(b, bs, Append(LinesOf(SubSeq(T, 1, r - 1)), line))
        BY <3>4, <3>5, StateGrows DEF After
      <4>3. QED
        BY <3>3, <4>1, <4>2 DEF After
    <3>7. SubSeq(text, r - s + 1, (i + 1) - 1) = line
      <4>1. /\ r - s + 1 \in 1..(n - s + 2) /\ i \in ((r - s + 1) - 1)..(n - s + 1)
            /\ s + (r - s + 1) - 1 = r /\ s + i - 1 = m - 1
        BY <1>1, <2>1, <2>5, <3>1 DEF N, m
      <4>2. SubSeq(SubSeq(T, s, n), r - s + 1, i) = SubSeq(T, s + (r - s + 1) - 1, s + i - 1)
        BY <1>1, <4>1, PartOfPart DEF n
      <4>3. QED
        BY <2>1, <4>1, <4>2 DEF text
    <3>8. (IF text[i + 1] = "cr" /\ i + 1 < N /\ text[i + 2] = "lf" THEN i + 1 + 2 ELSE i + 1 + 1)
            = (e + 1) - s + 1
      <4>1. i + 1 < N <=> m < n
        BY <1>1, <2>1 DEF N, m
      <4>2. i + 1 < N => text[i + 2] = T[m + 1]
        <5> SUFFICES ASSUME i + 1 < N PROVE text[i + 2] = T[m + 1]
          OBVIOUS
        <5>1. i + 2 \in 1..N /\ s + (i + 2) - 1 = m + 1
          BY <1>1, <2>1 DEF m
        <5>2. QED
          BY <1>2, <5>1
      <4>3. i + 1 + 2 = (m + 1 + 1) - s + 1 /\ i + 1 + 1 = (m + 1) - s + 1
        BY <1>1, <2>1 DEF m
      <4>4. QED
        BY <2>4, <4>1, <4>2, <4>3
    <3>9. w[i + 1] = [p |-> After(e + 1), start |-> (e + 1) - s + 1]
      <4>1. ~(i + 1 < w[i].start \/ text[i + 1] \notin Terminators \/ Deferred(text, i + 1))
        BY <2>4, <2>5, <2>7, <2>8, <2>10
      <4>2. i + 1 + 1 = i + 2
        BY <2>1
      <4>3. Walk(text, w[i], i + 1) =
              [p     |-> applyLine(w[i].p, SubSeq(text, w[i].start, (i + 1) - 1)),
               start |-> IF text[i + 1] = "cr" /\ i + 1 < N /\ text[i + 2] = "lf"
                         THEN i + 1 + 2 ELSE i + 1 + 1]
        BY <1>2, <4>1, <4>2 DEF Walk
      <4>4. QED
        BY <2>3, <2>8, <3>6, <3>7, <3>8, <4>3
    <3>10. Cut(T, e + 1) /\ e + 1 \in s..(n + 1)
      <4>1. e + 1 \in 1..(n + 1) /\ e + 1 \in s..(n + 1) /\ (e + 1) - 1 = e
        BY <1>1, <2>1, <2>5, <3>1, <3>2
      <4>2. T[e] \in Terminators
        BY <2>10, <3>2 DEF Terminators
      <4>3. T[e] = "cr" => e + 1 <= n /\ T[e + 1] # "lf"
        <5> SUFFICES ASSUME T[e] = "cr" PROVE e + 1 <= n /\ T[e + 1] # "lf"
          OBVIOUS
        <5>1. e = m /\ ~lf /\ m # n
          BY <2>1, <2>10, <3>2
        <5>2. m < n
          BY <1>1, <2>1, <5>1
        <5>3. QED
          BY <1>1, <2>1, <5>1, <5>2
      <4> HIDE DEF e
      <4>4. QED
        BY <4>1, <4>2, <4>3 DEF Cut, n
    <3>11. Open(e + 1, m)
      <4>1. (e + 1)..m = {}
        BY <2>1, <3>2
      <4>2. QED
        BY <4>1
    <3> HIDE DEF e
    <3>12. QED
      BY <2>1, <3>9, <3>10, <3>11 DEF At
  <2>11. QED
    BY <2>9, <2>10
<1> HIDE DEF I
<1>6. N \in I
  BY <1>1, <1>4, <1>5, Induct
<1>7. At(N) /\ s + N - 1 = n
  BY <1>1, <1>6 DEF I, N
<1>8. QED
  BY <1>7 DEF At, After, N, n, Reaches

-----------------------------------------------------------------------------
(***************************************************************************)
(* A chunk given to a parser that has read the text before it.             *)
(***************************************************************************)
(* The text without its BOM.                                               *)
Stripped(text) == StripBom(SSE_INITIAL_STATE, text)

(* The parser p has read the lines of T before a cut, its buffer holds the *)
(* rest, and nothing of it ends a line yet but a CR at the end.            *)
Parsed(T, bs, p) ==
  \E s \in 1..(Len(T) + 1) :
    /\ Cut(T, s)
    /\ p = State(SubSeq(T, s, Len(T)), bs, LinesOf(SubSeq(T, 1, s - 1)))
    /\ \A j \in s..Len(T) : T[j] \in Terminators => j = Len(T) /\ T[j] = "cr"

(* A text without its BOM is one.                                          *)
LEMMA StrippedIs ==
  ASSUME NEW t \in Text
  PROVE  /\ Stripped(t) \in Text
         /\ Stripped(t) = IF t # <<>> /\ t[1] = "bom" THEN Tail(t) ELSE t
         /\ Stripped(<<>>) = <<>>
<1>1. ~SSE_INITIAL_STATE.bomStripped
  BY DEF SSE_INITIAL_STATE
<1>2. t # <<>> => Tail(t) \in Text /\ Head(t) = t[1]
  BY DEF Text
<1>3. QED
  BY <1>1, <1>2 DEF Stripped, StripBom

(* What comes later is not stripped.                                       *)
LEMMA StrippedGrows ==
  ASSUME NEW t \in Text, NEW c \in Text
  PROVE  /\ t \o c \in Text
         /\ t # <<>> => Stripped(t \o c) = Stripped(t) \o c /\ t \o c # <<>>
         /\ t = <<>> => t \o c = c
<1>1. /\ t \o c \in Text /\ (t = <<>> => t \o c = c)
      /\ t # <<>> => /\ t \o c # <<>> /\ (t \o c)[1] = t[1]
                     /\ Tail(t \o c) = Tail(t) \o c
  <2>1. t \in Seq(Atoms) /\ c \in Seq(Atoms)
    BY DEF Text
  <2>2. t \o c \in Seq(Atoms) /\ (t = <<>> => t \o c = c)
    BY <2>1
  <2>3. ASSUME t # <<>>
        PROVE  t \o c # <<>> /\ (t \o c)[1] = t[1] /\ Tail(t \o c) = Tail(t) \o c
    <3>1. /\ Len(t) \in Nat /\ Len(t) >= 1 /\ Len(c) \in Nat
          /\ Len(t \o c) = Len(t) + Len(c)
          /\ \A i \in 1..(Len(t) + Len(c)) :
               (t \o c)[i] = IF i <= Len(t) THEN t[i] ELSE c[i - Len(t)]
      BY <2>1, <2>3
    <3>2. t \o c # <<>> /\ (t \o c)[1] = t[1]
      BY <3>1
    <3>3. /\ Tail(t) = SubSeq(t, 2, Len(t))
          /\ Tail(t \o c) = SubSeq(t \o c, 2, Len(t \o c))
      BY <2>1, <2>2, <2>3, <3>2
    <3>4. 2 \in 1..(Len(t) + 1)
      BY <3>1
    <3>5. QED
      BY <2>1, <3>2, <3>3, <3>4, PartOfJoin
  <2>4. QED
    BY <2>2, <2>3 DEF Text
<1>2. QED
  BY <1>1, StrippedIs

(* A state with another buffer, or of which the BOM is settled.            *)
LEMMA StateWith ==
  ASSUME NEW b, NEW bs, NEW L, NEW x
  PROVE  /\ [State(b, bs, L) EXCEPT !.buffer = x] = State(x, bs, L)
         /\ [State(b, bs, L) EXCEPT !.bomStripped = x] = State(b, x, L)
         /\ State(b, bs, L).buffer = b /\ State(b, bs, L).bomStripped = bs
BY DEF State

(* A feed leaves the parser at a cut of the longer text, if it was at one. *)
LEMMA FeedParses ==
  ASSUME NEW t \in Text, NEW c \in Text, NEW p, Parsed(Stripped(t), t # <<>>, p)
  PROVE  Parsed(Stripped(t \o c), t \o c # <<>>, feedSse(p, c))
<1> DEFINE S == Stripped(t)
           T == Stripped(t \o c)
           bs == t \o c # <<>>
           bt == t # <<>>
<1>1. PICK s \in 1..(Len(S) + 1) :
        /\ Cut(S, s)
        /\ p = State(SubSeq(S, s, Len(S)), bt, LinesOf(SubSeq(S, 1, s - 1)))
  BY DEF Parsed
<1> DEFINE b == SubSeq(S, s, Len(S))
           L == LinesOf(SubSeq(S, 1, s - 1))
           text == SubSeq(T, s, Len(T))
<1>2. S \in Text /\ T \in Text /\ t \o c \in Text
  BY StrippedIs, StrippedGrows
<1>3. t = <<>> => S = <<>> /\ s = 1 /\ b = <<>> /\ T = Stripped(c) /\ t \o c = c
  <2> SUFFICES ASSUME t = <<>>
               PROVE  S = <<>> /\ s = 1 /\ b = <<>> /\ T = Stripped(c) /\ t \o c = c
    OBVIOUS
  <2>1. S = <<>> /\ t \o c = c
    BY StrippedIs, StrippedGrows
  <2>2. s = 1
    BY <2>1
  <2>3. b = <<>>
    BY <2>1, <2>2
  <2>4. QED
    BY <2>1, <2>2, <2>3
<1>4. t # <<>> => T = S \o c
  BY StrippedGrows
<1>5. /\ Len(S) \in Nat /\ Len(T) \in Nat /\ Len(S) <= Len(T) /\ s \in Int /\ s >= 1
      /\ \A i \in 1..Len(S) : T[i] = S[i]
  <2>1. Len(S) \in Nat /\ Len(T) \in Nat /\ Len(c) \in Nat
    BY <1>2 DEF Text
  <2>2. CASE t = <<>>
    <3>1. Len(S) = 0
      BY <1>3, <2>2
    <3> HIDE DEF S, T
    <3>2. QED
      BY <2>1, <3>1
  <2>3. CASE t # <<>>
    <3> HIDE DEF S, T
    <3>1. QED
      BY <1>2, <1>4, <2>1, <2>3 DEF Text
  <2>4. QED
    BY <2>1, <2>2, <2>3
<1>6. Cut(T, s) /\ SubSeq(T, 1, s - 1) = SubSeq(S, 1, s - 1)
  <2> HIDE DEF S, T
  <2>1. s \in 1..(Len(T) + 1) /\ \A i \in 1..(s - 1) : T[i] = S[i]
    BY <1>5
  <2>2. s > 1 => s - 1 \in 1..Len(S)
    BY <1>5
  <2>3. s <= Len(S) => s <= Len(T) /\ T[s] = S[s]
    BY <1>5
  <2>4. Cut(T, s)
    BY <1>1, <1>5, <2>1, <2>2, <2>3 DEF Cut
  <2>5. SubSeq(T, 1, s - 1) = SubSeq(S, 1, s - 1)
    <3>1. /\ SubSeq(T, 1, s - 1) = [i \in 1..(s - 1) |-> T[i]]
          /\ SubSeq(S, 1, s - 1) = [i \in 1..(s - 1) |-> S[i]]
      BY <1>5
    <3>2. QED
      BY <2>1, <3>1
  <2>6. QED
    BY <2>4, <2>5
<1>7. text = StripBom(p, p.buffer \o c)
  <2>1. p.buffer = b /\ p.bomStripped = bt
    <3> HIDE DEF bt
    <3>1. QED
      BY <1>1 DEF State
  <2>2. CASE t = <<>>
    <3>1. p.buffer \o c = c
      BY <1>3, <2>1, <2>2, StrippedGrows
    <3>2. StripBom(p, c) = Stripped(c)
      BY <2>1, <2>2 DEF Stripped, StripBom, SSE_INITIAL_STATE
    <3>3. text = T
      <4> HIDE DEF T
      <4>1. QED
        BY <1>2, <1>3, <2>2 DEF Text
    <3>4. QED
      BY <1>3, <2>2, <3>1, <3>2, <3>3
  <2>3. CASE t # <<>>
    <3>1. StripBom(p, p.buffer \o c) = b \o c
      BY <2>1, <2>3 DEF StripBom
    <3>2. SubSeq(S \o c, s, Len(S \o c)) = SubSeq(S, s, Len(S)) \o c
      <4> HIDE DEF S, T, b, text
      <4>1. S \in Seq(Atoms) /\ c \in Seq(Atoms) /\ s \in 1..(Len(S) + 1)
        BY <1>2 DEF Text
      <4>2. QED
        BY <4>1, PartOfJoin
    <3>3. QED
      BY <1>4, <2>3, <3>1, <3>2
  <2>4. QED
    BY <2>2, <2>3
<1>8. (t # <<>> \/ p.buffer \o c # <<>>) = bs
  <2>1. p.buffer = b
    <3> HIDE DEF bt
    <3>1. QED
      BY <1>1 DEF State
  <2>2. t = <<>> => p.buffer \o c = c /\ t \o c = c
    BY <1>3, <2>1, StrippedGrows
  <2>3. t # <<>> => t \o c # <<>>
    BY StrippedGrows
  <2>4. QED
    BY <2>2, <2>3
<1>9. [p EXCEPT !.bomStripped = @ \/ p.buffer \o c # <<>>] = State(b, bs, L)
  <2>1. p.bomStripped = bt
    <3> HIDE DEF bt
    <3>1. QED
      BY <1>1 DEF State
  <2>2. [p EXCEPT !.bomStripped = @ \/ p.buffer \o c # <<>>] = [p EXCEPT !.bomStripped = bs]
    BY <1>8, <2>1, Zenon
  <2> HIDE DEF bs, bt
  <2>3. QED
    BY <1>1, <2>2, StateWith
<1>10. text \in Text
  <2> HIDE DEF T
  <2>1. QED
    BY <1>2, <1>5 DEF Text
<1> DEFINE N == Len(text)
<1>11. PICK w : /\ Walks(w, text, State(b, bs, L))
                /\ feedSse(p, c) = [w[N].p EXCEPT !.buffer = SubSeq(text, w[N].start, N)]
  <2> HIDE DEF text, b, bs, L
  <2>1. QED
    BY <1>7, <1>9, <1>10, FeedWalks DEF Fed
<1>12. N = Len(T) - s + 1
  <2> HIDE DEF T
  <2>1. s \in 1..(Len(T) + 1)
    BY <1>5
  <2>2. QED
    BY <1>2, <1>5, <2>1 DEF Text
<1>13. PICK r \in s..(Len(T) + 1) :
         /\ Cut(T, r)
         /\ w[N] = [p |-> State(b, bs, LinesOf(SubSeq(T, 1, r - 1))), start |-> r - s + 1]
         /\ \A j \in r..Len(T) : T[j] \in Terminators => j = Len(T) /\ T[j] = "cr"
  <2> HIDE DEF S, T, b, bs, N
  <2>1. L = LinesOf(SubSeq(T, 1, s - 1))
    BY <1>6
  <2> HIDE DEF L
  <2>2. Walks(w, SubSeq(T, s, Len(T)), State(b, bs, LinesOf(SubSeq(T, 1, s - 1))))
    BY <1>11, <2>1
  <2>3. Reaches(T, s, b, bs, w[Len(T) - s + 1])
    BY <1>2, <1>6, <2>2, WalkIs
  <2>4. Reaches(T, s, b, bs, w[N])
    BY <1>12, <2>3
  <2>5. QED
    BY <2>4 DEF Reaches
<1>14. SubSeq(text, r - s + 1, N) = SubSeq(T, r, Len(T))
  <2> HIDE DEF T
  <2>1. /\ r \in Int /\ r >= s /\ r <= Len(T) + 1
        /\ s \in 1..(Len(T) + 1) /\ r - s + 1 \in 1..(Len(T) - s + 2)
        /\ N \in ((r - s + 1) - 1)..(Len(T) - s + 1)
        /\ s + (r - s + 1) - 1 = r /\ s + N - 1 = Len(T)
    <3> HIDE DEF N
    <3>1. QED
      BY <1>5, <1>12
  <2> HIDE DEF N
  <2>2. SubSeq(text, r - s + 1, N) = SubSeq(T, s + (r - s + 1) - 1, s + N - 1)
    BY <1>2, <2>1, PartOfPart DEF Text
  <2>3. QED
    BY <2>1, <2>2
<1>15. feedSse(p, c) = State(SubSeq(T, r, Len(T)), bs, LinesOf(SubSeq(T, 1, r - 1)))
  <2> HIDE DEF text, T, b, bs, N
  <2>1. feedSse(p, c) = [State(b, bs, LinesOf(SubSeq(T, 1, r - 1))) EXCEPT
                           !.buffer = SubSeq(T, r, Len(T))]
    <3>1. /\ w[N].p = State(b, bs, LinesOf(SubSeq(T, 1, r - 1)))
          /\ w[N].start = r - s + 1
      BY <1>13
    <3>2. QED
      BY <1>11, <1>14, <3>1, Zenon
  <2> DEFINE M == LinesOf(SubSeq(T, 1, r - 1))
             x == SubSeq(T, r, Len(T))
  <2> HIDE DEF M, x
  <2>2. feedSse(p, c) = [State(b, bs, M) EXCEPT !.buffer = x]
    BY <2>1 DEF M, x
  <2>3. feedSse(p, c) = State(x, bs, M)
    BY <2>2, StateWith
  <2>4. QED
    BY <2>3 DEF M, x
<1>16. r \in 1..(Len(T) + 1)
  <2> HIDE DEF T
  <2>1. QED
    BY <1>5
<1> HIDE DEF T, bs
<1>17. Parsed(T, bs, feedSse(p, c))
  BY <1>13, <1>15, <1>16 DEF Parsed
<1>18. QED
  BY <1>17 DEF T, bs

-----------------------------------------------------------------------------
(***************************************************************************)
(* The end of a stream.                                                    *)
(***************************************************************************)
(* The whole of a text is its beginning.                                   *)
LEMMA WholeIs ==
  ASSUME NEW T \in Text
  PROVE  SubSeq(T, 1, Len(T)) = T /\ Len(T) \in Nat /\ DOMAIN T = 1..Len(T)
BY DEF Text

(* A walk passes what does not end a line.                                 *)
LEMMA WalkPasses ==
  ASSUME NEW text \in Text, NEW p, NEW w, Walks(w, text, p), NEW m \in 0..Len(text),
         \A i \in 1..m : text[i] \notin Terminators
  PROVE  w[m] = [p |-> p, start |-> 1]
<1> DEFINE I == {i \in Nat : i <= m => w[i] = [p |-> p, start |-> 1]}
<1>1. Len(text) \in Nat /\ m \in Nat /\ m <= Len(text)
  BY DEF Text
<1>2. 0 \in I
  BY DEF Walks
<1>3. ASSUME NEW i \in I \cap Nat PROVE i + 1 \in I
  <2> SUFFICES ASSUME i + 1 <= m PROVE w[i + 1] = [p |-> p, start |-> 1]
    OBVIOUS
  <2>1. i <= m /\ i + 1 \in 1..Len(text) /\ i + 1 \in 1..m /\ (i + 1) - 1 = i
    BY <1>1
  <2>2. w[i + 1] = Walk(text, w[i], i + 1) /\ text[i + 1] \notin Terminators
    BY <2>1 DEF Walks
  <2>3. w[i] = [p |-> p, start |-> 1]
    BY <2>1
  <2>4. QED
    BY <2>2, <2>3 DEF Walk
<1> HIDE DEF I
<1>4. m \in I
  BY <1>1, <1>2, <1>3, Induct
<1>5. QED
  BY <1>1, <1>4 DEF I

(* At the end of the stream every line that has ended is applied.          *)
LEMMA EndParses ==
  ASSUME NEW T \in Text, NEW bs, NEW p, Parsed(T, bs, p), T # <<>> => bs = TRUE
  PROVE  \E b \in Text : endSse(p) = State(b, bs, LinesOf(T))
<1> DEFINE n == Len(T)
<1>1. PICK s \in 1..(n + 1) :
        /\ Cut(T, s)
        /\ p = State(SubSeq(T, s, n), bs, LinesOf(SubSeq(T, 1, s - 1)))
        /\ \A j \in s..n : T[j] \in Terminators => j = n /\ T[j] = "cr"
  BY DEF Parsed
<1> DEFINE b == SubSeq(T, s, n)
           L == LinesOf(SubSeq(T, 1, s - 1))
<1>2. /\ n \in Nat /\ s \in Int /\ s >= 1 /\ s <= n + 1 /\ s - 1 \in 0..n
      /\ T \in Seq(Atoms) /\ SubSeq(T, 1, n) = T
  BY WholeIs DEF Text
<1>3. b \in Text /\ Len(b) = n - s + 1 /\ \A i \in 1..(n - s + 1) : b[i] = T[s + i - 1]
  <2> HIDE DEF n
  <2>1. n = Len(T)
    BY DEF n
  <2>2. QED
    BY <1>2, <2>1 DEF Text
<1>4. p.buffer = b /\ p.bomStripped = bs
  BY <1>1 DEF State
<1>5. (b # <<>> /\ Last(b) = "cr") <=> (s <= n /\ T[n] = "cr")
  <2>1. b # <<>> <=> s <= n
    <3> HIDE DEF b, n
    <3>1. QED
      BY <1>2, <1>3 DEF Text
  <2>2. s <= n => Last(b) = T[n]
    <3>1. s <= n => n - s + 1 \in 1..(n - s + 1) /\ s + (n - s + 1) - 1 = n
      BY <1>2
    <3> HIDE DEF b, n
    <3>2. QED
      BY <1>3, <3>1 DEF Last
  <2> HIDE DEF b
  <2>3. QED
    BY <2>1, <2>2
<1> HIDE DEF b, L, n
<1>6. CASE ~(s <= n /\ T[n] = "cr")
  <2>1. endSse(p) = p
    BY <1>4, <1>5, <1>6 DEF endSse
  <2>2. \A i \in ((s - 1) + 1)..n : T[i] \notin Terminators
    <3>1. (s - 1) + 1 = s
      BY <1>2
    <3>2. \A i \in s..n : i = n => s <= n
      BY <1>2
    <3>3. QED
      BY <1>1, <1>6, <3>1, <3>2
  <2>3. n \in (s - 1)..n
    BY <1>2
  <2>4. LinesOf(SubSeq(T, 1, n)) = LinesOf(SubSeq(T, 1, s - 1))
    BY <1>2, <2>2, <2>3, SameLines DEF n
  <2>5. p = State(b, bs, LinesOf(T))
    BY <1>1, <1>2, <2>4 DEF b
  <2>6. QED
    BY <1>3, <2>1, <2>5
<1>7. CASE s <= n /\ T[n] = "cr"
  <2> DEFINE front == SubSeq(T, s, n - 1)
             q == State(front, bs, L)
             text == front \o <<"lf">>
             N == n - s + 1
  <2>1. bs = TRUE
    <3>1. T # <<>>
      BY <1>2, <1>7 DEF n
    <3>2. QED
      BY <3>1
  <2>2. Front(b) = front
    <3>1. Front(b) = SubSeq(b, 1, (n - s + 1) - 1)
      BY <1>3 DEF Front
    <3>2. /\ 1 \in 1..(n - s + 2) /\ (n - s + 1) - 1 \in (1 - 1)..(n - s + 1)
          /\ s + 1 - 1 = s /\ s + ((n - s + 1) - 1) - 1 = n - 1
      BY <1>2, <1>7
    <3>3. SubSeq(SubSeq(T, s, n), 1, (n - s + 1) - 1) =
            SubSeq(T, s + 1 - 1, s + ((n - s + 1) - 1) - 1)
      BY <1>1, <1>2, <3>2, PartOfPart DEF n
    <3>4. QED
      BY <3>1, <3>2, <3>3 DEF b
  <2>3. endSse(p) = feedSse(q, <<"lf">>)
    <3>1. p = State(b, bs, L)
      BY <1>1 DEF b, L
    <3>2. [p EXCEPT !.buffer = Front(@)] = [p EXCEPT !.buffer = front]
      BY <1>4, <2>2
    <3> HIDE DEF front
    <3>3. [p EXCEPT !.buffer = front] = q
      BY <3>1 DEF State
    <3> HIDE DEF q
    <3>4. QED
      BY <1>4, <1>5, <1>7, <3>2, <3>3 DEF endSse
  <2>4. /\ front \in Seq(Atoms) /\ Len(front) = N - 1 /\ N \in Nat /\ N >= 1
        /\ \A i \in 1..(N - 1) : front[i] = T[s + i - 1] /\ front[i] \notin Terminators
    <3>1. N \in Nat /\ N >= 1 /\ n - 1 <= n /\ n = Len(T)
      BY <1>2, <1>7 DEF n
    <3>2. front \in Seq(Atoms) /\ Len(front) = N - 1
      BY <1>2, <1>7, <3>1
    <3>3. \A i \in 1..(N - 1) : front[i] = T[s + i - 1]
      BY <1>2, <1>7, <3>1
    <3>4. \A i \in 1..(N - 1) : s + i - 1 \in s..n /\ s + i - 1 # n
      BY <1>2, <1>7
    <3> HIDE DEF front, N
    <3>5. QED
      BY <1>1, <3>1, <3>2, <3>3, <3>4
  <2> HIDE DEF front, N
  <2>5. /\ text \in Text /\ Len(text) = N /\ text[N] = "lf"
        /\ \A i \in 1..(N - 1) : text[i] = front[i]
    <3>1. <<"lf">> \in Seq(Atoms) /\ Len(<<"lf">>) = 1 /\ <<"lf">>[1] = "lf"
      BY DEF Atoms, Terminators
    <3> DEFINE x == <<"lf">>
    <3> HIDE DEF x
    <3>2. x \in Seq(Atoms) /\ Len(x) = 1 /\ x[1] = "lf"
      BY <3>1 DEF x
    <3>3. /\ front \o x \in Seq(Atoms) /\ Len(front \o x) = Len(front) + Len(x)
          /\ \A i \in 1..(Len(front) + Len(x)) :
               (front \o x)[i] = IF i <= Len(front) THEN front[i] ELSE x[i - Len(front)]
      BY <2>4, <3>2, JoinAt
    <3>4. /\ Len(front) + Len(x) = N /\ N \in 1..N /\ ~(N <= N - 1) /\ N - (N - 1) = 1
          /\ \A i \in 1..(N - 1) : i \in 1..N /\ i <= N - 1
      BY <2>4, <3>2
    <3>5. QED
      BY <2>4, <3>2, <3>3, <3>4 DEF Text, x
  <2>6. q.buffer = front /\ q.bomStripped = TRUE
    BY <2>1 DEF State
  <2>7. text = StripBom(q, q.buffer \o <<"lf">>)
    BY <2>6 DEF StripBom
  <2>8. [q EXCEPT !.bomStripped = @ \/ q.buffer \o <<"lf">> # <<>>] = q
    <3>1. (q.bomStripped \/ q.buffer \o <<"lf">> # <<>>) = bs
      BY <2>1, <2>6
    <3>2. [q EXCEPT !.bomStripped = @ \/ q.buffer \o <<"lf">> # <<>>] =
            [q EXCEPT !.bomStripped = bs]
      BY <3>1, Zenon
    <3>3. [q EXCEPT !.bomStripped = bs] = q
      BY DEF State
    <3>4. QED
      BY <3>2, <3>3
  <2> HIDE DEF q, text
  <2>9. PICK w : /\ Walks(w, text, q)
                 /\ feedSse(q, <<"lf">>) = [w[N].p EXCEPT !.buffer = SubSeq(text, w[N].start, N)]
    <3> DEFINE x == <<"lf">>
    <3> HIDE DEF x
    <3>1. text = StripBom(q, q.buffer \o x)
      BY <2>7 DEF x
    <3>2. [q EXCEPT !.bomStripped = @ \/ q.buffer \o x # <<>>] = q
      BY <2>8 DEF x
    <3>3. \E w : /\ Walks(w, text, [q EXCEPT !.bomStripped = @ \/ q.buffer \o x # <<>>])
                 /\ feedSse(q, x) = [w[Len(text)].p EXCEPT
                      !.buffer = SubSeq(text, w[Len(text)].start, Len(text))]
      <4>1. Fed(q, x, text)
        BY <2>5, <3>1, FeedWalks
      <4>2. QED
        BY <4>1 DEF Fed
    <3>4. \E w : /\ Walks(w, text, q)
                 /\ feedSse(q, x) = [w[N].p EXCEPT !.buffer = SubSeq(text, w[N].start, N)]
      BY <2>5, <3>2, <3>3
    <3>5. QED
      BY <3>4 DEF x
  <2>10. w[N - 1] = [p |-> q, start |-> 1]
    <3>1. N - 1 \in 0..Len(text) /\ \A i \in 1..(N - 1) : text[i] \notin Terminators
      BY <2>4, <2>5
    <3>2. QED
      BY <2>5, <2>9, <3>1, WalkPasses
  <2>11. SubSeq(text, 1, N - 1) = front
    <3>1. /\ SubSeq(text, 1, N - 1) \in Seq(Atoms) /\ Len(SubSeq(text, 1, N - 1)) = N - 1
          /\ \A i \in 1..(N - 1) : SubSeq(text, 1, N - 1)[i] = text[i]
      BY <2>4, <2>5 DEF Text
    <3>2. QED
      BY <2>4, <2>5, <3>1, SameSeq
  <2>12. w[N] = [p |-> applyLine(q, front), start |-> N + 1]
    <3>1. w[N] = Walk(text, w[N - 1], N) /\ ~(N < 1)
      BY <2>4, <2>5, <2>9 DEF Walks
    <3>2. ~Deferred(text, N) /\ text[N] \in Terminators /\ text[N] # "cr"
      BY <2>5 DEF Deferred, Terminators
    <3>3. QED
      <4>1. Walk(text, w[N - 1], N) =
              [p     |-> applyLine(w[N - 1].p, SubSeq(text, w[N - 1].start, N - 1)),
               start |-> N + 1]
        BY <2>10, <3>1, <3>2 DEF Walk
      <4>2. QED
        <5>1. w[N - 1].p = q /\ w[N - 1].start = 1
          BY <2>10
        <5>2. QED
          BY <2>11, <3>1, <4>1, <5>1, Zenon
  <2>13. applyLine(q, front) = State(front, bs, LinesOf(T))
    <3>1. front \in Text /\ L \in Seq(Text)
      BY <1>2, <2>4, PrefixIs, LinesAre DEF L, Text, n
    <3>2. applyLine(q, front) = State(front, bs, Append(L, front))
      BY <3>1, StateGrows DEF q
    <3>3. LinesOf(SubSeq(T, 1, n)) = Append(LinesOf(SubSeq(T, 1, s - 1)), SubSeq(T, s, n - 1))
      <4>1. n \in s..Len(T) /\ n \in n..Len(T) /\ T[n] \in Terminators
        BY <1>2, <1>7 DEF Terminators, n
      <4>2. \A i \in s..(n - 1) : T[i] \notin Terminators
        <5>1. \A i \in s..(n - 1) : i \in s..n /\ i # n
          BY <1>2
        <5>2. QED
          BY <1>1, <5>1
      <4>3. QED
        BY <1>1, <4>1, <4>2, NextLine
    <3>4. QED
      BY <1>2, <3>2, <3>3 DEF L, front
  <2>14. endSse(p) = State(SubSeq(text, N + 1, N), bs, LinesOf(T))
    <3>1. w[N].p = State(front, bs, LinesOf(T)) /\ w[N].start = N + 1
      BY <2>12, <2>13
    <3>2. endSse(p) = [State(front, bs, LinesOf(T)) EXCEPT !.buffer = SubSeq(text, N + 1, N)]
      BY <2>3, <2>9, <3>1, Zenon
    <3>3. QED
      BY <3>2 DEF State
  <2>15. SubSeq(text, N + 1, N) \in Text
    BY <2>4, <2>5 DEF Text
  <2>16. QED
    BY <2>14, <2>15
<1>8. QED
  BY <1>6, <1>7

-----------------------------------------------------------------------------
(***************************************************************************)
(* The inductive invariant of a stream.                                    *)
(***************************************************************************)
(* Before any text, the parser is the one of no lines.                     *)
LEMMA InitParses == Parsed(Stripped(<<>>), <<>> # <<>>, SSE_INITIAL_STATE)
<1> DEFINE e == <<>>
           bs == <<>> # <<>>
<1>1. e \in Text /\ e \in Seq(Text) /\ Len(e) = 0 /\ Stripped(e) = e /\ DOMAIN e = {}
  <2>1. e \in Text /\ e \in Seq(Text) /\ Len(e) = 0
    BY DEF Text
  <2>2. DOMAIN e = 1..0 /\ 1..0 = {}
    BY <2>1 DEF Text
  <2>3. Stripped(e) = e
    BY DEF Stripped, StripBom
  <2>4. QED
    BY <2>1, <2>2, <2>3
<1>2. SubSeq(e, 1, 1 - 1) = e /\ SubSeq(e, 1, Len(e)) = e
  BY <1>1, WholeIs
<1>3. LinesOf(e) = e
  <2>1. LineEnds(e) = {}
    BY <1>1 DEF LineEnds
  <2>2. Cardinality(LineEnds(e)) = 0
    BY <2>1, FS_EmptySet
  <2>3. LinesOf(e) \in Seq(Text) /\ Len(LinesOf(e)) = 0
    BY <1>1, <2>2, LinesAre
  <2>4. QED
    BY <1>1, <2>3, SameSeq
<1>4. /\ \A field : Named(e, field, 0 + 1) = {}
      /\ IdLines(e, 0 + 1) = {} /\ RetryLines(e, 0 + 1) = {}
  <2>1. 0 + 1 \in 1..(Len(e) + 1) /\ 1..((0 + 1) - 1) = {}
    BY <1>1
  <2>2. /\ \A field : Named(e, field, 0 + 1) \in SUBSET (1..((0 + 1) - 1))
        /\ IdLines(e, 0 + 1) \in SUBSET (1..((0 + 1) - 1))
        /\ RetryLines(e, 0 + 1) \in SUBSET (1..((0 + 1) - 1))
    BY <1>1, <2>1, NamedAre
  <2>3. QED
    BY <2>1, <2>2
<1>5. ValuesOf(e, {}) = <<>> /\ LastValue(e, {}) = <<>>
  BY NoValues, FS_EmptySet
<1>6. EventsOf(e) = <<>>
  <2>1. Ending(e) = {}
    BY <1>1 DEF Ending
  <2>2. Cardinality(Ending(e)) = 0 /\ 1..0 = {}
    BY <2>1, FS_EmptySet
  <2>3. EventsOf(e) = [j \in 1..0 |-> EventAt(e, Ascending(Ending(e))[j])]
    BY <2>2 DEF EventsOf
  <2>4. EventsOf(e) \in [1..0 -> {}]
    BY <2>2, <2>3
  <2>5. EventsOf(e) \in Seq({}) /\ Len(EventsOf(e)) = 0 /\ <<>> \in Seq({}) /\ Len(<<>>) = 0
    BY <2>4
  <2>6. QED
    BY <2>5
<1>7. SSE_INITIAL_STATE = State(e, bs, e)
  BY <1>1, <1>4, <1>5, <1>6 DEF SSE_INITIAL_STATE, State
<1>8. Cut(e, 1) /\ 1 \in 1..(Len(e) + 1) /\ 1..Len(e) = {}
  BY <1>1 DEF Cut
<1>9. Parsed(e, bs, SSE_INITIAL_STATE)
  <2> HIDE DEF e, bs
  <2>1. SSE_INITIAL_STATE = State(SubSeq(e, 1, Len(e)), bs, LinesOf(SubSeq(e, 1, 1 - 1)))
    BY <1>2, <1>3, <1>7
  <2>2. QED
    BY <1>8, <2>1 DEF Parsed
<1>10. QED
  BY <1>1, <1>9

(* The inductive invariant of a stream: until it closes the parser is at a *)
(* cut of the text; once it has, it has read every line of it.             *)
StreamInv ==
  LET T == Stripped(received)
  IN /\ alphabet \in SUBSET Atoms
     /\ phase \in {"opening", "reading", "closed", "failed", "aborted"}
     /\ received \in Text /\ Len(received) <= MaxText
     /\ phase # "closed" => Parsed(T, received # <<>>, parser)
     /\ phase = "closed" => \E b \in Text : parser = State(b, received # <<>>, LinesOf(T))

(* The invariant holds at first.                                           *)
LEMMA StreamInvInit == StreamInit => StreamInv
<1> SUFFICES ASSUME StreamInit PROVE StreamInv
  OBVIOUS
<1>1. alphabet \in SUBSET Atoms /\ MaxText \in Nat
  BY SseAssumption DEF StreamInit
<1>2. received \in Text /\ Len(received) = 0
  BY DEF StreamInit, Text
<1>3. Parsed(Stripped(received), received # <<>>, parser)
  BY InitParses, Zenon DEF StreamInit
<1>4. phase = "opening"
  BY DEF StreamInit
<1>5. QED
  BY <1>1, <1>2, <1>3, <1>4 DEF StreamInv

(* Every step keeps it.                                                    *)
LEMMA StreamInvNext == StreamInv /\ [StreamNext]_streamVars => StreamInv'
<1> SUFFICES ASSUME StreamInv, [StreamNext]_streamVars PROVE StreamInv'
  OBVIOUS
<1> DEFINE T == Stripped(received)
<1>1. /\ alphabet \in SUBSET Atoms /\ received \in Text /\ Len(received) <= MaxText
      /\ phase \in {"opening", "reading", "closed", "failed", "aborted"}
      /\ phase # "closed" => Parsed(T, received # <<>>, parser)
      /\ phase = "closed" => \E b \in Text : parser = State(b, received # <<>>, LinesOf(T))
  BY DEF StreamInv
<1>2. ASSUME phase' \in {"opening", "reading", "failed", "aborted"}, phase # "closed",
             UNCHANGED <<alphabet, received, parser>>
      PROVE  StreamInv'
  BY <1>1, <1>2 DEF StreamInv
<1>3. CASE Opened
  BY <1>2, <1>3 DEF Opened
<1>4. CASE StreamFails
  BY <1>2, <1>4 DEF StreamFails
<1>5. CASE StreamAborted
  BY <1>2, <1>5 DEF StreamAborted
<1>6. CASE UNCHANGED streamVars
  BY <1>1, <1>6 DEF StreamInv, streamVars
<1>7. ASSUME NEW n \in 0..MaxChunk, NEW chunk \in [1..n -> alphabet], ChunkArrives(chunk)
      PROVE  StreamInv'
  <2>1. n \in Nat /\ chunk \in Text
    <3>1. n \in Nat
      BY SseAssumption
    <3>2. chunk \in [1..n -> Atoms]
      BY <1>1
    <3>3. QED
      BY <3>1, <3>2 DEF Text
  <2>2. /\ phase = "reading" /\ phase' = phase /\ alphabet' = alphabet
        /\ Len(received) + Len(chunk) <= MaxText
        /\ received' = received \o chunk /\ parser' = feedSse(parser, chunk)
    BY <1>7 DEF ChunkArrives
  <2>3. received' \in Text /\ Len(received') <= MaxText
    BY <1>1, <2>1, <2>2 DEF Text
  <2>4. Parsed(Stripped(received \o chunk), received \o chunk # <<>>, feedSse(parser, chunk))
    BY <1>1, <2>1, <2>2, FeedParses
  <2>5. Parsed(Stripped(received'), received' # <<>>, parser')
    BY <2>2, <2>4
  <2>6. QED
    BY <1>1, <2>2, <2>3, <2>5 DEF StreamInv
<1>8. CASE StreamEnds
  <2>1. /\ phase = "reading" /\ phase' = "closed" /\ alphabet' = alphabet
        /\ received' = received /\ parser' = endSse(feedSse(parser, <<>>))
    BY <1>8 DEF StreamEnds
  <2> DEFINE none == <<>>
             bs == received # <<>>
  <2>2. none \in Text /\ received \o none = received
    BY <1>1 DEF Text
  <2>3. Parsed(Stripped(received \o none), received \o none # <<>>, feedSse(parser, none))
    <3> HIDE DEF none
    <3>1. QED
      BY <1>1, <2>1, <2>2, FeedParses
  <2>4. Parsed(T, bs, feedSse(parser, none))
    BY <2>2, <2>3
  <2>5. T \in Text /\ (T # <<>> => bs = TRUE)
    BY <1>1, StrippedIs
  <2> HIDE DEF T, bs, none
  <2>6. \E b \in Text : endSse(feedSse(parser, none)) = State(b, bs, LinesOf(T))
    BY <2>4, <2>5, EndParses
  <2>7. \E b \in Text : parser' = State(b, bs, LinesOf(T))
    BY <2>1, <2>6 DEF none
  <2>8. \E b \in Text : parser' = State(b, received' # <<>>, LinesOf(Stripped(received')))
    BY <2>1, <2>7 DEF T, bs
  <2>9. received' \in Text /\ Len(received') <= MaxText
    BY <1>1, <2>1
  <2>10. QED
    BY <1>1, <2>1, <2>8, <2>9 DEF StreamInv
<1>9. QED
  BY <1>3, <1>4, <1>5, <1>6, <1>7, <1>8 DEF StreamNext

(* The invariant of a stream, whatever its alphabet and however it is cut. *)
THEOREM StreamInvariant == StreamSpec => []StreamInv
<1>1. StreamInit => StreamInv
  BY StreamInvInit
<1>2. StreamInv /\ [StreamNext]_streamVars => StreamInv'
  BY StreamInvNext
<1>3. QED
  BY <1>1, <1>2, PTL DEF StreamSpec

-----------------------------------------------------------------------------
(***************************************************************************)
(* What follows from it.                                                   *)
(***************************************************************************)
(* In a state of the invariant the parser has the lines that are decided.  *)
LEMMA ParserIs ==
  ASSUME StreamInv
  PROVE  /\ \E b \in Text : parser = State(b, received # <<>>, LinesOf(Decided))
         /\ Decided \in Text
<1> DEFINE T == Stripped(received)
           n == Len(T)
<1>1. received \in Text /\ T \in Text /\ n \in Nat /\ SubSeq(T, 1, n) = T
  BY StrippedIs, WholeIs DEF StreamInv
<1>2. Decided = IF phase # "closed" /\ T # <<>> /\ Last(T) = "cr" THEN Front(T) ELSE T
  BY DEF Decided, Stripped
<1>3. CASE phase = "closed"
  BY <1>1, <1>2, <1>3 DEF StreamInv
<1>4. CASE phase # "closed"
  <2>1. PICK s \in 1..(n + 1) :
          /\ Cut(T, s)
          /\ parser = State(SubSeq(T, s, n), received # <<>>, LinesOf(SubSeq(T, 1, s - 1)))
          /\ \A j \in s..n : T[j] \in Terminators => j = n /\ T[j] = "cr"
    BY <1>4 DEF StreamInv, Parsed
  <2> DEFINE d == Len(Decided)
             bs == received # <<>>
  <2>2. Decided = SubSeq(T, 1, d) /\ d = IF n > 0 /\ T[n] = "cr" THEN n - 1 ELSE n
    <3>1. T # <<>> <=> n > 0
      BY <1>1 DEF Text
    <3>2. Last(T) = T[n]
      BY DEF Last
    <3>3. Decided = IF n > 0 /\ T[n] = "cr" THEN SubSeq(T, 1, n - 1) ELSE SubSeq(T, 1, n)
      BY <1>1, <1>2, <1>4, <3>1, <3>2 DEF Front
    <3>4. n > 0 => Len(SubSeq(T, 1, n - 1)) = n - 1
      BY <1>1 DEF Text
    <3>5. Len(SubSeq(T, 1, n)) = n
      BY <1>1
    <3> HIDE DEF T, n
    <3>6. QED
      BY <3>3, <3>4, <3>5
  <2> HIDE DEF T, d, n, bs
  <2>3. /\ s - 1 \in 0..n /\ d \in (s - 1)..n /\ d \in 0..n
        /\ \A i \in ((s - 1) + 1)..d : T[i] \notin Terminators
    <3>1. s \in Int /\ s >= 1 /\ s <= n + 1
      BY <1>1
    <3>2. n > 0 /\ T[n] = "cr" => s <= n
      <4>1. s = n + 1 => s - 1 = n /\ ~(s <= n)
        BY <1>1
      <4>2. s > 1 => (T[s - 1] = "cr" => s <= n)
        BY <2>1 DEF Cut, n
      <4>4. s = n + 1 /\ n > 0 => s > 1
        BY <1>1
      <4>5. s = n + 1 /\ n > 0 => T[n] # "cr"
        BY <4>1, <4>2, <4>4
      <4>3. QED
        BY <1>1, <3>1, <4>5
    <3>3. s - 1 \in 0..n /\ d \in (s - 1)..n /\ d \in 0..n
      BY <1>1, <2>2, <3>1, <3>2
    <3>4. \A i \in ((s - 1) + 1)..d : T[i] \notin Terminators
      <4> SUFFICES ASSUME NEW i \in ((s - 1) + 1)..d, T[i] \in Terminators PROVE FALSE
        OBVIOUS
      <4>1. i \in s..n /\ i <= d
        BY <1>1, <3>1, <3>3
      <4>2. i = n /\ T[n] = "cr" /\ n > 0
        BY <2>1, <3>1, <4>1
      <4>3. QED
        BY <1>1, <2>2, <4>1, <4>2
    <3>5. QED
      BY <3>3, <3>4
  <2>4. LinesOf(SubSeq(T, 1, d)) = LinesOf(SubSeq(T, 1, s - 1))
    BY <1>1, <2>3, SameLines DEF n
  <2>5. Decided \in Text
    BY <1>1, <2>2, <2>3, PrefixIs DEF n
  <2>6. parser = State(SubSeq(T, s, n), bs, LinesOf(Decided)) /\ SubSeq(T, s, n) \in Text
    <3>1. parser = State(SubSeq(T, s, n), bs, LinesOf(SubSeq(T, 1, s - 1)))
      BY <2>1 DEF bs
    <3>2. SubSeq(T, s, n) \in Text
      BY <1>1, <2>3 DEF Text, n
    <3>3. QED
      BY <2>2, <2>4, <3>1, <3>2
  <2>7. QED
    BY <2>5, <2>6 DEF bs
<1>5. QED
  BY <1>3, <1>4

(* sse.ts:124-126 and :168-172: for every text over every alphabet, however *)
(* it is cut into chunks and however the stream ends, the events the app    *)
(* has heard and the delay it was given are those of the lines received.    *)
THEOREM EventsSurviveChunksHolds == StreamSpec => []EventsSurviveChunks
<1>1. StreamInv => EventsSurviveChunks
  <2> SUFFICES ASSUME StreamInv PROVE EventsSurviveChunks
    OBVIOUS
  <2> DEFINE bs == received # <<>>
  <2>1. PICK b \in Text : parser = State(b, bs, LinesOf(Decided))
    BY ParserIs
  <2> HIDE DEF bs
  <2>2. QED
    BY <2>1 DEF EventsSurviveChunks, State
<1>2. QED
  BY <1>1, StreamInvariant, PTL

(* The ids and the delays a line can give, and the events of a stream.     *)
Ids    == {v \in Text : "nul" \notin Range(v)}
Delays == {v \in Text : IsRetry(v)}
Events == [event : Text, data : Seq(Text) \ {<<>>}, id : Ids]

(* The values of some lines are texts; the last is the value of one.       *)
LEMMA ValuesAre ==
  ASSUME NEW L \in Seq(Text), NEW K \in SUBSET (1..Len(L)), \A j \in K : L[j] # <<>>
  PROVE  /\ ValuesOf(L, K) \in Seq(Text)
         /\ ValuesOf(L, K) = <<>> <=> K = {}
         /\ IF K = {} THEN LastValue(L, K) = <<>>
            ELSE \E j \in K : LastValue(L, K) = ValueOf(L[j])
         /\ LastValue(L, K) \in Text
<1>1. \A j \in K : L[j] \in Text /\ ValueOf(L[j]) \in Text
  BY ValueIs
<1>2. IsFiniteSet(K) /\ K \in SUBSET Int
  <2>1. Len(L) \in Nat
    OBVIOUS
  <2>2. IsFiniteSet(1..Len(L))
    BY <2>1, FS_Interval
  <2>3. IsFiniteSet(K)
    BY <2>2, FS_Subset
  <2>4. K \in SUBSET Int
    BY <2>1
  <2>5. QED
    BY <2>3, <2>4
<1>3. ValuesOf(L, K) \in Seq(Text)
  <2> DEFINE c == Cardinality(K)
  <2>1. c \in Nat /\ \A i \in 1..c : Ascending(K)[i] \in K
    BY <1>2, AscendingIs, FS_CardinalityType
  <2>2. ValuesOf(L, K) = [i \in 1..c |-> ValueOf(L[Ascending(K)[i]])]
    BY DEF ValuesOf
  <2> HIDE DEF c
  <2>3. ValuesOf(L, K) \in [1..c -> Text]
    BY <1>1, <2>1, <2>2
  <2>4. QED
    BY <2>1, <2>3
<1>4. K # {} => \E j \in K : LastValue(L, K) = ValueOf(L[j])
  <2> SUFFICES ASSUME K # {} PROVE \E j \in K : LastValue(L, K) = ValueOf(L[j])
    OBVIOUS
  <2>1. PICK x \in K : \A y \in K : y <= x
    BY <1>2, Greatest
  <2>2. Max(K) = x
    BY <1>2, <2>1, MaxIs
  <2>3. QED
    BY <2>2 DEF LastValue
<1>5. ValuesOf(L, K) = <<>> <=> K = {}
  BY <1>2, NoValues
<1>6. K = {} => LastValue(L, K) = <<>>
  BY DEF LastValue
<1>7. <<>> \in Text
  BY DEF Text
<1>8. QED
  BY <1>1, <1>3, <1>4, <1>5, <1>6, <1>7

(* What the lines before k have given so far.                              *)
LEMMA GivenIs ==
  ASSUME NEW L \in Seq(Text), NEW k \in 1..(Len(L) + 1)
  PROVE  /\ \A field : /\ ValuesOf(L, Named(L, field, k)) \in Seq(Text)
                       /\ LastValue(L, Named(L, field, k)) \in Text
                       /\ ValuesOf(L, Named(L, field, k)) = <<>> <=> Named(L, field, k) = {}
         /\ LastValue(L, IdLines(L, k)) \in Ids
         /\ LastValue(L, RetryLines(L, k)) \in Delays \cup {<<>>}
<1>1. /\ \A field : Named(L, field, k) \in SUBSET (1..Len(L))
      /\ IdLines(L, k) \in SUBSET (1..Len(L)) /\ RetryLines(L, k) \in SUBSET (1..Len(L))
  BY NamedAre
<1>2. /\ \A field : \A j \in Named(L, field, k) : L[j] # <<>>
      /\ \A j \in IdLines(L, k) : L[j] # <<>> /\ "nul" \notin Range(ValueOf(L[j]))
      /\ \A j \in RetryLines(L, k) : L[j] # <<>> /\ IsRetry(ValueOf(L[j]))
  BY DEF Named, IdLines, RetryLines, GivesId, GivesRetry, Gives
<1>3. /\ \A field : /\ ValuesOf(L, Named(L, field, k)) \in Seq(Text)
                    /\ LastValue(L, Named(L, field, k)) \in Text
                    /\ ValuesOf(L, Named(L, field, k)) = <<>> <=> Named(L, field, k) = {}
  BY <1>1, <1>2, ValuesAre
<1>4. LastValue(L, IdLines(L, k)) \in Ids
  <2>1. "nul" \notin Range(<<>>)
    BY DEF Range
  <2> DEFINE K == IdLines(L, k)
             v == LastValue(L, K)
  <2>2. /\ v \in Text
        /\ IF K = {} THEN v = <<>> ELSE \E j \in K : v = ValueOf(L[j])
    BY <1>1, <1>2, ValuesAre
  <2>3. \A j \in K : "nul" \notin Range(ValueOf(L[j]))
    BY <1>2
  <2> HIDE DEF K, v
  <2>4. v \in Ids
    BY <2>1, <2>2, <2>3 DEF Ids
  <2>5. QED
    BY <2>4 DEF v, K
<1>5. LastValue(L, RetryLines(L, k)) \in Delays \cup {<<>>}
  <2> DEFINE K == RetryLines(L, k)
             v == LastValue(L, K)
  <2>2. /\ v \in Text
        /\ IF K = {} THEN v = <<>> ELSE \E j \in K : v = ValueOf(L[j])
    BY <1>1, <1>2, ValuesAre
  <2>3. \A j \in K : IsRetry(ValueOf(L[j]))
    BY <1>2
  <2> HIDE DEF K, v
  <2>4. v \in Delays \cup {<<>>}
    BY <2>2, <2>3 DEF Delays
  <2>5. QED
    BY <2>4 DEF v, K
<1>6. QED
  BY <1>3, <1>4, <1>5

(* The events of some lines have data, and an id without a NUL.            *)
LEMMA EventsAre ==
  ASSUME NEW L \in Seq(Text)
  PROVE  EventsOf(L) \in Seq(Events)
<1> DEFINE c == Cardinality(Ending(L))
<1>1. Len(L) \in Nat /\ DOMAIN L = 1..Len(L)
  OBVIOUS
<1>2. IsFiniteSet(Ending(L)) /\ Ending(L) \in SUBSET Int
  <2>1. Ending(L) \subseteq 1..Len(L)
    BY <1>1 DEF Ending
  <2>2. IsFiniteSet(1..Len(L))
    BY <1>1, FS_Interval
  <2>3. QED
    BY <1>1, <2>1, <2>2, FS_Subset
<1>3. c \in Nat /\ \A i \in 1..c : Ascending(Ending(L))[i] \in Ending(L)
  BY <1>2, AscendingIs, FS_CardinalityType
<1>4. ASSUME NEW k \in Ending(L) PROVE EventAt(L, k) \in Events
  <2>1. k \in 1..(Len(L) + 1) /\ Named(L, "data", k) # {}
    BY <1>1 DEF Ending
  <2>2. /\ ValuesOf(L, Named(L, "data", k)) \in Seq(Text) \ {<<>>}
        /\ LastValue(L, Named(L, "event", k)) \in Text
        /\ LastValue(L, IdLines(L, k)) \in Ids
    BY <2>1, GivenIs
  <2>3. QED
    BY <2>2 DEF EventAt, Events
<1>5. EventsOf(L) = [j \in 1..c |-> EventAt(L, Ascending(Ending(L))[j])]
  BY DEF EventsOf
<1> HIDE DEF c
<1>6. EventsOf(L) \in [1..c -> Events]
  BY <1>3, <1>4, <1>5
<1>7. QED
  BY <1>3, <1>6

(* sse.ts:66-78, :100-121: an event the app hears has data, the id it is   *)
(* told has no NUL, and the delay is digits or was never given.            *)
StreamTypeOK ==
  /\ alphabet \in SUBSET Atoms
  /\ phase \in {"opening", "reading", "closed", "failed", "aborted"}
  /\ received \in Text /\ Len(received) <= MaxText
  /\ parser \in [buffer : Text, bomStripped : BOOLEAN, dataLines : Seq(Text), eventType : Text,
                 lastEventId : Ids, retryMs : Delays \cup {<<>>}, events : Seq(Events)]

(* The types of a stream, for every text and every way it is cut.          *)
THEOREM StreamTypeCorrect == StreamSpec => []StreamTypeOK
<1>1. StreamInv => StreamTypeOK
  <2> SUFFICES ASSUME StreamInv PROVE StreamTypeOK
    OBVIOUS
  <2> DEFINE bs == received # <<>>
             L == LinesOf(Decided)
             k == Len(L) + 1
  <2>1. PICK b \in Text : parser = State(b, bs, L)
    BY ParserIs
  <2>2. L \in Seq(Text) /\ bs \in BOOLEAN
    BY ParserIs, LinesAre
  <2> HIDE DEF bs, L
  <2>3. k \in 1..(Len(L) + 1)
    BY <2>2
  <2>4. /\ ValuesOf(L, Named(L, "data", k)) \in Seq(Text)
        /\ LastValue(L, Named(L, "event", k)) \in Text
        /\ LastValue(L, IdLines(L, k)) \in Ids
        /\ LastValue(L, RetryLines(L, k)) \in Delays \cup {<<>>}
    BY <2>2, <2>3, GivenIs
  <2>5. EventsOf(L) \in Seq(Events)
    BY <2>2, EventsAre
  <2> DEFINE E == Seq(Events)
             D == Delays \cup {<<>>}
             V == Seq(Text)
  <2>6. parser = [buffer |-> b, bomStripped |-> bs,
                  dataLines   |-> ValuesOf(L, Named(L, "data", k)),
                  eventType   |-> LastValue(L, Named(L, "event", k)),
                  lastEventId |-> LastValue(L, IdLines(L, k)),
                  retryMs     |-> LastValue(L, RetryLines(L, k)),
                  events      |-> EventsOf(L)]
    BY <2>1 DEF State
  <2> HIDE DEF k
  <2>7. parser \in [buffer : Text, bomStripped : BOOLEAN, dataLines : Seq(Text), eventType : Text,
                    lastEventId : Ids, retryMs : Delays \cup {<<>>}, events : Seq(Events)]
    <3>0. /\ ValuesOf(L, Named(L, "data", k)) \in V /\ EventsOf(L) \in E
          /\ LastValue(L, RetryLines(L, k)) \in D
      BY <2>4, <2>5
    <3> HIDE DEF E, D, V
    <3>1. parser \in [buffer : Text, bomStripped : BOOLEAN, dataLines : V, eventType : Text,
                      lastEventId : Ids, retryMs : D, events : E]
      BY <2>2, <2>4, <2>6, <3>0
    <3>2. QED
      BY <3>1 DEF V, D, E
  <2>8. QED
    BY <2>7 DEF StreamInv, StreamTypeOK
<1>2. QED
  BY <1>1, StreamInvariant, PTL

=============================================================================
