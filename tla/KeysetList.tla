----------------------------- MODULE KeysetList -----------------------------
(***************************************************************************)
(* The paged list of notes: keyset pages as the server reads them          *)
(* (dal/notes.ts), and the hook behind the matrix screen that appends them *)
(* (useKeysetQuery.ts).                                                    *)
(*                                                                         *)
(* A note is the rank of its key (created_at, id).  created_at is the time *)
(* the inserting transaction began, so notes may become visible out of     *)
(* order.  React is external: a setState is queued, the closures on screen *)
(* see the state of the last render, and an effect runs after its render.  *)
(***************************************************************************)
EXTENDS Integers, Sequences, FiniteSets, FiniteSetsExt, Listing

CONSTANTS
  MaxNotes,    \* bound: notes ever created
  Limit,       \* PAGE_LIMIT
  MaxReloads,  \* bound: how often the list is reloaded
  Slots        \* bound: loadMore requests in flight at a time

ASSUME KeysetAssumption ==
  /\ MaxNotes \in Nat /\ MaxReloads \in Nat
  /\ Limit \in Nat \ {0}
  /\ Slots # {} /\ 0 \notin Slots

Notes == 1..MaxNotes
End   == 0    \* the cursor null

VARIABLES
  table,    \* the notes of this user the server would list
  created,  \* keys given out
  open,     \* transactions that have begun an insert
  state,    \* the hook's state, with every queued update applied
  shown,    \* the state of the last render, which the closures on screen see
  token,    \* reloadToken
  effect,   \* the token the effect last ran for; 0 before the first
  first,    \* the request of the initial load
  more,     \* Slots -> a request of loadMore
  latest,   \* moreController: the slot last used, or 0
  base,     \* history: the notes listed when the first page was read
  raced     \* history: loadMore ran in a closure older than the state

server == <<table, created, open>>
hook   == <<state, shown, token, effect>>
vars   == <<table, created, open, state, shown, token, effect, first, more, latest,
            base, raced>>

Free == [pc |-> "free", cursor |-> End, items |-> <<>>, next |-> End]
INITIAL == [status |-> "loading", rows |-> <<>>, cursor |-> End,
            loadingMore |-> FALSE, loadMoreFailed |-> FALSE]

Init ==
  /\ \E n \in 0..MaxNotes : created = n /\ table = 1..n
  /\ open = {}
  /\ state = INITIAL /\ shown = INITIAL
  /\ token = 1 /\ effect = 0
  /\ first = Free /\ more = [s \in Slots |-> Free] /\ latest = 0
  /\ base = {} /\ raced = FALSE

-----------------------------------------------------------------------------
(***************************************************************************)
(* The server.                                                             *)
(***************************************************************************)
Newest(S, n) == {k \in S : Cardinality({j \in S : j > k}) < n}

\* Wrong: the cursor names the first note of the next page, not the last of this one.
WrongPage(cursor) ==
  LET after == IF cursor = End THEN table ELSE {n \in table : n < cursor}
      items == Newest(after, Limit)
  IN [items |-> Descending(items),
      next  |-> IF Cardinality(after) > Limit THEN Max(after \ items) ELSE End]

\* One page: the Limit newest after the cursor.  The sentinel row past the
\* page tells whether there is more.
Page(cursor) ==
  LET after == IF cursor = End THEN table ELSE {n \in table : n < cursor}
      items == Newest(after, Limit)
  IN [items |-> Descending(items),
      next  |-> IF Cardinality(after) > Limit THEN Min(items) ELSE End]

BeginCreate ==
  /\ created < MaxNotes
  /\ created' = created + 1 /\ open' = open \cup {created + 1}
  /\ UNCHANGED <<table, hook, first, more, latest, base, raced>>

CommitCreate(n) ==
  /\ n \in open
  /\ open' = open \ {n} /\ table' = table \cup {n}
  /\ UNCHANGED <<created, hook, first, more, latest, base, raced>>

RemoveNote(n) ==
  /\ n \in table /\ table' = table \ {n}
  /\ UNCHANGED <<created, open, hook, first, more, latest, base, raced>>

\* A request is read by the server, or comes to nothing.
Answered(r) ==
  LET page == Page(r.cursor)
  IN {[Free EXCEPT !.pc = "answered", !.items = page.items, !.next = page.next],
      [Free EXCEPT !.pc = "failed"]}

ServeFirst ==
  /\ first.pc = "sent" /\ first' \in Answered(first)
  /\ base' = IF first'.pc = "answered" THEN table ELSE base
  /\ UNCHANGED <<server, hook, more, latest, raced>>

ServeMore(s) ==
  /\ more[s].pc = "sent" /\ \E r \in Answered(more[s]) : more' = [more EXCEPT ![s] = r]
  /\ UNCHANGED <<server, hook, first, latest, base, raced>>

-----------------------------------------------------------------------------
(***************************************************************************)
(* React.                                                                  *)
(***************************************************************************)
Render ==
  /\ shown # state /\ shown' = state
  /\ UNCHANGED <<server, state, token, effect, first, more, latest, base, raced>>

\* The cleanup aborts the load it started and the latest loadMore.
Cleanup == more' = [s \in Slots |-> IF s = latest THEN Free ELSE more[s]]

\* The effect of a mount or a reload.
Effect ==
  /\ effect # token /\ shown = state
  /\ effect' = token
  /\ Cleanup
  /\ first' = [Free EXCEPT !.pc = "sent"]
  /\ raced' = \E s \in Slots \ {latest} : more[s].pc # "free"
  /\ UNCHANGED <<server, state, shown, token, latest, base>>

-----------------------------------------------------------------------------
(***************************************************************************)
(* useKeysetQuery.                                                         *)
(***************************************************************************)
FirstArrives ==
  /\ first.pc = "answered"
  /\ state' = [INITIAL EXCEPT !.status = IF first.items = <<>> THEN "empty" ELSE "ready",
                              !.rows = first.items, !.cursor = first.next]
  /\ first' = Free
  /\ UNCHANGED <<server, shown, token, effect, more, latest, base, raced>>

FirstFails ==
  /\ first.pc = "failed"
  /\ state' = [INITIAL EXCEPT !.status = "error"]
  /\ first' = Free
  /\ UNCHANGED <<server, shown, token, effect, more, latest, base, raced>>

\* The screen offers a reload whenever it does not show the skeleton.
Reload ==
  /\ shown.status # "loading" /\ token <= MaxReloads
  /\ state' = INITIAL /\ token' = token + 1
  /\ UNCHANGED <<server, shown, effect, first, more, latest, base, raced>>

MayLoadMore == shown.status = "ready" /\ shown.cursor # End /\ ~shown.loadingMore

\* The end of the list is reached, or one of two buttons pressed.  Bound: a
\* list of MaxNotes rows is complete, or holds a note twice already.
LoadMore(s) ==
  /\ MayLoadMore
  /\ Len(state.rows) < MaxNotes
  /\ more[s].pc = "free"
  /\ state' = [state EXCEPT !.loadingMore = TRUE, !.loadMoreFailed = FALSE]
  /\ more' = [more EXCEPT ![s] = [Free EXCEPT !.pc = "sent", !.cursor = shown.cursor]]
  /\ latest' = s
  /\ raced' = (raced \/ state # shown)
  /\ UNCHANGED <<server, shown, token, effect, first, base>>

MoreArrives(s) ==
  /\ more[s].pc = "answered"
  /\ state' = [state EXCEPT !.rows = @ \o more[s].items, !.cursor = more[s].next,
                            !.loadingMore = FALSE]
  /\ more' = [more EXCEPT ![s] = Free]
  /\ UNCHANGED <<server, shown, token, effect, first, latest, base, raced>>

\* Wrong: the failure leaves the spinner on.
WrongMoreFails(s) ==
  /\ more[s].pc = "failed"
  /\ state' = [state EXCEPT !.loadMoreFailed = TRUE]
  /\ more' = [more EXCEPT ![s] = Free]
  /\ UNCHANGED <<server, shown, token, effect, first, latest, base, raced>>

MoreFails(s) ==
  /\ more[s].pc = "failed"
  /\ state' = [state EXCEPT !.loadingMore = FALSE, !.loadMoreFailed = TRUE]
  /\ more' = [more EXCEPT ![s] = Free]
  /\ UNCHANGED <<server, shown, token, effect, first, latest, base, raced>>

-----------------------------------------------------------------------------
Writers == BeginCreate \/ \E n \in Notes : CommitCreate(n) \/ RemoveNote(n)
React   == Render \/ Effect
Person  == Reload \/ \E s \in Slots : LoadMore(s)
LoadFirst   == ServeFirst \/ FirstArrives \/ FirstFails
LoadNext(s) == ServeMore(s) \/ MoreArrives(s) \/ MoreFails(s)

Next == Writers \/ React \/ Person \/ LoadFirst \/ \E s \in Slots : LoadNext(s)

\* React renders what is queued, and every fetch ends.
Fairness ==
  /\ WF_vars(React) /\ WF_vars(LoadFirst)
  /\ \A s \in Slots : WF_vars(LoadNext(s))

Spec == Init /\ [][Next]_vars /\ Fairness

-----------------------------------------------------------------------------
(***************************************************************************)
(* Properties.                                                             *)
(***************************************************************************)
Elements(s) == {s[j] : j \in DOMAIN s}

\* Every variable holds a value of its kind.
TypeOK ==
  /\ table \subseteq Notes /\ open \subseteq Notes /\ created \in 0..MaxNotes
  /\ base \subseteq Notes /\ raced \in BOOLEAN
  /\ \A s \in {state, shown} :
       /\ s.status \in {"loading", "empty", "error", "ready"}
       /\ Elements(s.rows) \subseteq Notes /\ s.cursor \in 0..MaxNotes
       /\ s.loadingMore \in BOOLEAN /\ s.loadMoreFailed \in BOOLEAN
  /\ token \in Nat /\ effect \in 0..token
  /\ \A r \in {first} \cup {more[s] : s \in Slots} :
       r.pc \in {"free", "sent", "answered", "failed"} /\ Elements(r.items) \subseteq Notes
  /\ latest \in Slots \cup {0}

\* However notes are created, committed late and removed between two pages:
\* rows are newest first and no note is there twice (the list's keys), and no
\* page skips a note, so that what was listed when the list was loaded, has
\* not been removed and is not behind the cursor is in the rows.
RowsInOrder == \A j, k \in DOMAIN shown.rows : j < k => shown.rows[j] > shown.rows[k]
NothingSkipped == \A n \in base \cap table : n >= shown.cursor => n \in Elements(shown.rows)
ListIsWhole ==
  ~raced /\ shown.status = "ready" => RowsInOrder /\ (shown = state => NothingSkipped)

\* The skeleton and the spinner go: an answer, a failure or a reload ends them.
LoadsEnd ==
  /\ shown.status = "loading" ~> shown.status # "loading"
  /\ shown.loadingMore ~> ~shown.loadingMore

=============================================================================
