------------------------------ MODULE HomeScreen ------------------------------
(***************************************************************************)
(* The home screen of the mobile app: the list query (useListQuery.ts), the *)
(* optimistic create (useCreateNote.ts) with its composer                  *)
(* (NoteComposer.tsx), what the panel makes of the two (NotesPanel.tsx)    *)
(* and the toasts (Toast.tsx), which outlive the screen, against a server  *)
(* whose notes other devices create and remove too.                        *)
(*                                                                         *)
(* Server notes are numbered in the order of their creation; the temporary *)
(* id of the row of POST p is -p.                                          *)
(***************************************************************************)
EXTENDS Integers, Sequences, FiniteSets, FiniteSetsExt, Functions, Listing

CONSTANTS
  Ids,       \* bound: notes ever created, numbered from 1
  PageSize,  \* notes in the page the screen asks for
  Loads,     \* bound: loads under way at a time, numbered from 1
  Posts,     \* bound: creates under way at a time, numbered from 1
  MaxToasts  \* bound: toasts whose timer runs at a time

NoLoad == 0

ASSUME HomeScreenAssumption ==
  /\ Ids \subseteq Nat \ {0} /\ IsFiniteSet(Ids)
  /\ PageSize \in Nat \ {0} /\ MaxToasts \in Nat \ {0}
  /\ Loads \subseteq Nat \ {0} /\ Loads # {} /\ Posts \subseteq Nat \ {0}

VARIABLES
  mounted, \* is the screen?
  list,    \* the list query: status and items
  current, \* its controller: the load whose answer counts
  load,    \* Loads -> where it is, and the page it brings
  form,    \* the create's status and the composer's title
  rows,    \* the optimistic overlay, newest first
  post,    \* Posts -> where it is, what it brings, and is its hook still there?
  toasts,  \* the queue: ids, oldest first
  timers,  \* toasts whose timer runs
  notes,   \* the server's notes
  unused   \* ids the server has not given out

screen == <<mounted, list, current, load, form, rows>>
wire   == <<post, notes, unused>>
bell   == <<toasts, timers>>
vars   == <<screen, wire, bell>>

\* The empty title stands for every title the contract refuses.
Titles  == {"", "a title"}
Valid   == {"a title"}
Loading == [status |-> "loading", items |-> <<>>]
NoAnswer == [pc |-> "none", items |-> <<>>]
NoPost   == [pc |-> "none", id |-> 0, alive |-> FALSE]
NewForm  == [status |-> "idle", title |-> ""]

Row(id, pending) == [id |-> id, pending |-> pending]
IdsOf(s) == {s[i].id : i \in DOMAIN s}

Init ==
  /\ mounted = FALSE
  /\ list = Loading /\ current = NoLoad /\ load = [l \in Loads |-> NoAnswer]
  /\ form = NewForm /\ rows = <<>>
  /\ post = [p \in Posts |-> NoPost]
  /\ toasts = <<>> /\ timers = {}
  /\ notes = {} /\ unused = Ids

-----------------------------------------------------------------------------
(***************************************************************************)
(* The list query.                                                         *)
(***************************************************************************)
\* The newest notes first, a page of them.
Page == SubSeq(Descending(notes), 1, Min({PageSize, Cardinality(notes)}))

\* Wrong: the previous load is not aborted, and whoever answers last wins.
WrongCounts(l) == TRUE
\* Is the load not aborted?
Counts(l) == current = l

\* The first free one: they are all alike.
First(free) == IF free = {} THEN 0 ELSE Min(free)

\* run: a new controller takes the place of the current one, whose load, if
\* it is over, leaves nothing behind.
StartLoad(l) ==
  /\ l = First({k \in Loads : load[k].pc = "none"})
  /\ current' = l
  /\ load' = [k \in Loads |->
                IF k = l THEN [NoAnswer EXCEPT !.pc = "sent"]
                ELSE IF load[k].pc = "done" THEN NoAnswer ELSE load[k]]

Reload ==
  /\ mounted
  /\ \E l \in Loads : StartLoad(l)
  /\ list' = Loading
  /\ UNCHANGED <<mounted, form, rows, wire, bell>>

\* The server reads the page.
ServeLoad(l) ==
  /\ load[l].pc = "sent"
  /\ load' = [load EXCEPT ![l] = [pc |-> "answered", items |-> Page]]
  /\ UNCHANGED <<mounted, list, current, form, rows, wire, bell>>

\* What is left of a load that is over.
Over(l) == [load EXCEPT ![l] = IF Counts(l) THEN [load[l] EXCEPT !.pc = "done"] ELSE NoAnswer]

\* then: the answer of an aborted load is passed over.
LoadArrives(l) ==
  /\ load[l].pc = "answered"
  /\ list' = IF Counts(l)
             THEN [status |-> IF load[l].items = <<>> THEN "empty" ELSE "ready",
                   items  |-> load[l].items]
             ELSE list
  /\ load' = Over(l)
  /\ UNCHANGED <<mounted, current, form, rows, wire, bell>>

\* Wrong: a failure leaves the list as it is.
WrongLoadFails(l) ==
  /\ load[l].pc \in {"sent", "answered"}
  /\ load' = Over(l)
  /\ UNCHANGED <<mounted, list, current, form, rows, wire, bell>>

\* catch, on the way there or on the way back; of an aborted load likewise.
LoadFails(l) ==
  /\ load[l].pc \in {"sent", "answered"}
  /\ list' = IF Counts(l) THEN [status |-> "error", items |-> <<>>] ELSE list
  /\ load' = Over(l)
  /\ UNCHANGED <<mounted, current, form, rows, wire, bell>>

-----------------------------------------------------------------------------
(***************************************************************************)
(* The optimistic create.                                                  *)
(***************************************************************************)
\* The hook's ref: a create of this screen is under way.
InFlight == \E p \in Posts : post[p].pc # "none" /\ post[p].alive

\* The input is editable, and the button enabled, unless a create is pending.
Type(title) ==
  /\ mounted /\ form.status # "pending" /\ title # form.title
  /\ form' = [form EXCEPT !.title = title]
  /\ UNCHANGED <<mounted, list, current, load, rows, wire, bell>>

\* submit: the contract refuses the title, and nothing is sent.
SubmitRejected ==
  /\ mounted /\ ~InFlight /\ form.title \notin Valid
  /\ form' = [form EXCEPT !.status = "idle"]
  /\ UNCHANGED <<mounted, list, current, load, rows, wire, bell>>

\* submit: the row comes before the POST.
Submit(p) ==
  /\ mounted /\ ~InFlight /\ form.title \in Valid
  /\ p = First({q \in Posts : post[q].pc = "none"})
  /\ form' = [form EXCEPT !.status = "pending"]
  /\ rows' = <<Row(-p, TRUE)>> \o rows
  /\ post' = [post EXCEPT ![p] = [pc |-> "sent", id |-> 0, alive |-> TRUE]]
  /\ UNCHANGED <<mounted, list, current, load, notes, unused, bell>>

\* The server creates the note, or does not.
ServeCreate(p) ==
  /\ post[p].pc = "sent" /\ unused # {}
  /\ LET id == Min(unused)
     IN /\ post' = [post EXCEPT ![p].pc = "created", ![p].id = id]
        /\ notes' = notes \cup {id} /\ unused' = unused \ {id}
  /\ UNCHANGED <<screen, bell>>

\* Wrong: the overlay shows the creates since the last one settled.
WrongSettled(p) ==
  Keep(rows, {i \in DOMAIN rows : rows[i].pending /\ rows[i].id # -p})
    \o <<Row(post[p].id, FALSE)>>
\* The reducer's settle and fail: the server's row takes the place of the
\* temporary one, or the temporary one goes.
Settled(p) == [i \in DOMAIN rows |-> IF rows[i].id = -p THEN Row(post[p].id, FALSE) ELSE rows[i]]
RolledBack(p) == Keep(rows, {i \in DOMAIN rows : rows[i].id # -p})

\* The POST's 2xx arrives; the composer clears its title.
CreateSettles(p) ==
  /\ post[p].pc = "created"
  /\ post' = [post EXCEPT ![p] = NoPost]
  /\ IF post[p].alive
     THEN rows' = Settled(p) /\ form' = NewForm
     ELSE UNCHANGED <<rows, form>>
  /\ UNCHANGED <<mounted, list, current, load, notes, unused, bell>>

\* ToastProvider.show.  A new id: one with no timer will do, since a toast
\* is gone when its timer is.
Show ==
  LET id == First((1..MaxToasts) \ timers)
  IN /\ id # 0
     /\ toasts' = Append(toasts, id) /\ timers' = timers \cup {id}

\* Wrong: the row of a failed create stays.
WrongCreateFails(p) ==
  /\ post[p].pc \in {"sent", "created"}
  /\ post' = [post EXCEPT ![p] = NoPost]
  /\ form' = IF post[p].alive THEN [form EXCEPT !.status = "error"] ELSE form
  /\ Show
  /\ UNCHANGED <<mounted, list, current, load, rows, notes, unused>>

\* An error, or an answer that was lost: the note may be there all the same.
CreateFails(p) ==
  /\ post[p].pc \in {"sent", "created"}
  /\ post' = [post EXCEPT ![p] = NoPost]
  /\ IF post[p].alive
     THEN /\ rows' = RolledBack(p)
          /\ form' = [form EXCEPT !.status = "error"]
     ELSE UNCHANGED <<rows, form>>
  /\ Show
  /\ UNCHANGED <<mounted, list, current, load, notes, unused>>

-----------------------------------------------------------------------------
(***************************************************************************)
(* The toasts, which the root layout owns.                                 *)
(***************************************************************************)
Without(id) == Keep(toasts, {i \in DOMAIN toasts : toasts[i] # id})

Dismiss(id) ==
  /\ id \in Range(toasts)
  /\ toasts' = Without(id)
  /\ UNCHANGED <<screen, wire, timers>>

TimerFires(id) ==
  /\ id \in timers
  /\ timers' = timers \ {id} /\ toasts' = Without(id)
  /\ UNCHANGED <<screen, wire>>

-----------------------------------------------------------------------------
(***************************************************************************)
(* The screen comes and goes, and the world outside.                       *)
(***************************************************************************)
\* Every hook starts anew, and the query runs at once.
Mount ==
  /\ ~mounted /\ mounted' = TRUE
  /\ \E l \in Loads : StartLoad(l)
  /\ list' = Loading /\ form' = NewForm /\ rows' = <<>>
  /\ UNCHANGED <<wire, bell>>

\* The cleanups: the load is aborted; a create under way goes on
\* without its hook.
Unmount ==
  /\ mounted /\ mounted' = FALSE
  /\ current' = NoLoad
  /\ load' = [k \in Loads |-> IF load[k].pc = "done" THEN NoAnswer ELSE load[k]]
  /\ post' = [p \in Posts |-> [post[p] EXCEPT !.alive = FALSE]]
  /\ list' = Loading /\ form' = NewForm /\ rows' = <<>>
  /\ UNCHANGED <<notes, unused, bell>>

OtherCreates ==
  /\ unused # {}
  /\ LET id == Min(unused)
     IN notes' = notes \cup {id} /\ unused' = unused \ {id}
  /\ UNCHANGED <<screen, post, bell>>

OtherRemoves ==
  /\ \E id \in notes : notes' = notes \ {id}
  /\ UNCHANGED <<screen, post, unused, bell>>

LoadSteps(l) == ServeLoad(l) \/ LoadArrives(l) \/ LoadFails(l)
PostSteps(p) == ServeCreate(p) \/ CreateSettles(p) \/ CreateFails(p)

Next ==
  \/ Reload \/ \E l \in Loads : LoadSteps(l)
  \/ \E title \in Titles : Type(title)
  \/ SubmitRejected \/ \E p \in Posts : Submit(p) \/ PostSteps(p)
  \/ \E id \in 1..MaxToasts : Dismiss(id) \/ TimerFires(id)
  \/ Mount \/ Unmount \/ OtherCreates \/ OtherRemoves

\* A request comes to an end, and a timer and an interval fire.
Fairness ==
  /\ \A l \in Loads : WF_vars(LoadSteps(l))
  /\ \A p \in Posts : WF_vars(PostSteps(p))
  /\ \A id \in 1..MaxToasts : WF_vars(TimerFires(id))

Spec == Init /\ [][Next]_vars /\ Fairness

-----------------------------------------------------------------------------
(***************************************************************************)
(* What the panel shows.                                                   *)
(***************************************************************************)
ShowsRows == mounted /\ list.status \in {"empty", "ready"}

\* Wrong: the overlay and the page, one after the other.
WrongOptimistic == rows
\* A row that reappears in a page: the fetched one wins.
Optimistic == Keep(rows, {i \in DOMAIN rows : rows[i].id \notin Range(list.items)})
ShownRows == Optimistic \o [i \in DOMAIN list.items |-> Row(list.items[i], FALSE)]

(***************************************************************************)
(* Properties.                                                             *)
(***************************************************************************)
\* Every variable holds a value of its kind.
TypeOK ==
  /\ mounted \in BOOLEAN
  /\ list.status \in {"loading", "empty", "ready", "error"} /\ Range(list.items) \subseteq Ids
  /\ (list.status = "ready") = (list.items # <<>>)
  /\ current \in Loads \cup {NoLoad}
  /\ \A l \in Loads : /\ load[l].pc \in {"none", "sent", "answered", "done"}
                      /\ Range(load[l].items) \subseteq Ids
  /\ form \in [status : {"idle", "pending", "error"}, title : Titles]
  /\ \A i \in DOMAIN rows : rows[i].id \in Ids \cup {-p : p \in Posts} /\ rows[i].pending \in BOOLEAN
  /\ post \in [Posts -> [pc : {"none", "sent", "created"}, id : Ids \cup {0}, alive : BOOLEAN]]
  /\ Range(toasts) \subseteq timers /\ timers \subseteq 1..MaxToasts
  /\ notes \subseteq Ids /\ unused \subseteq Ids \ notes

\* NotesPanel.tsx:162: no note is on the screen twice, also when a created
\* row comes back in a page.
ShownOnce ==
  \A i, j \in DOMAIN ShownRows : i # j => ShownRows[i].id # ShownRows[j].id

\* useCreateNote.ts:14-15 "the optimistic row must never outlive a failed
\* write": the pending rows are those of the creates under way, and the form
\* is pending with them, so that one create at a time can be told apart.
PendingIsInFlight ==
  /\ {row \in Range(rows) : row.pending} = {Row(-p, TRUE) : p \in {q \in Posts : post[q].pc # "none" /\ post[q].alive}}
  /\ (form.status = "pending") = InFlight

\* Between two loads, what is on the screen stays there: a row goes only when
\* its create failed and a toast says so, or when its server row takes over.
NothingVanishes ==
  [][ShowsRows /\ ShowsRows' =>
       \A row \in Range(ShownRows) :
         \/ row.id \in IdsOf(ShownRows')
         \/ row.pending /\ Len(toasts') > Len(toasts)
         \/ \E p \in Posts : row.id = -p /\ post[p].id \in IdsOf(ShownRows')]_vars

\* useListQuery.ts:31-32 "a stale slow response can never overwrite a newer
\* state": the page on the screen is the one the last load brought.
NewestLoadShown ==
  mounted /\ list.status # "loading" =>
    /\ current # NoLoad /\ load[current].pc = "done"
    /\ list.status # "error" => list.items = load[current].items

\* The skeleton goes unless someone keeps reloading, and every toast goes.
NothingLingers ==
  /\ []<>(list.status # "loading" \/ ~mounted) \/ []<><<Reload>>_vars
  /\ \A id \in 1..MaxToasts : id \in Range(toasts) ~> id \notin Range(toasts)
=============================================================================
