--------------------------- MODULE HomeScreenProofs ---------------------------
(***************************************************************************)
(* Proofs about HomeScreen, for every number of notes, loads, creates and  *)
(* toasts, and for every size of page.                                     *)
(***************************************************************************)
EXTENDS HomeScreen, ListingProofs

(* A load is a place and a page, whatever the page holds.                  *)
LoadShape ==
  /\ load = [l \in Loads |-> load[l]]
  /\ \A l \in Loads : load[l] = [pc |-> load[l].pc, items |-> load[l].items]

(* A screen has a load whose answer counts.                                *)
HasLoad == mounted => current \in Loads

(* NewestLoadShown is inductive once there is always a load that counts.   *)
IInv == LoadShape /\ HasLoad /\ NewestLoadShown

(* A load that starts takes the place of the one that counted.             *)
LEMMA StartLoadShape ==
  ASSUME IInv, NEW l \in Loads, StartLoad(l)
  PROVE  LoadShape' /\ current' \in Loads
<1>1. current' = l /\ load' = [k \in Loads |-> load'[k]]
  BY DEF StartLoad
<1>2. \A k \in Loads : load'[k] \in {load[k], NoAnswer, [NoAnswer EXCEPT !.pc = "sent"]}
  BY DEF StartLoad
<1>3. \A k \in Loads : load'[k] = [pc |-> load'[k].pc, items |-> load'[k].items]
  BY <1>2 DEF IInv, LoadShape, NoAnswer
<1>4. QED
  BY <1>1, <1>3 DEF LoadShape

(* A step of a load: it is sent, it is answered, or it is over.            *)
LEMMA LoadKeepsNewest ==
  ASSUME IInv, NEW l \in Loads, LoadSteps(l)
  PROVE  IInv'
<1>0. /\ load = [k \in Loads |-> load[k]]
      /\ \A k \in Loads : load[k] = [pc |-> load[k].pc, items |-> load[k].items]
      /\ UNCHANGED <<mounted, current>>
  BY DEF IInv, LoadShape, LoadSteps, ServeLoad, LoadArrives, LoadFails
<1>1. CASE ServeLoad(l)
  <2>1. /\ LoadShape' /\ list' = list /\ load[l].pc = "sent"
        /\ \A k \in Loads \ {l} : load'[k] = load[k]
    BY <1>0, <1>1 DEF ServeLoad, LoadShape
  <2>2. QED
    BY <2>1, <1>0 DEF IInv, HasLoad, NewestLoadShown
<1>2. CASE LoadArrives(l) \/ LoadFails(l)
  <2>1. CASE current = l
    <3>1. /\ LoadShape' /\ load'[l].pc = "done" /\ load'[l].items = load[l].items
          /\ list'.status # "error" => list'.items = load[l].items
      BY <1>0, <1>2, <2>1 DEF LoadArrives, LoadFails, Over, Counts, LoadShape
    <3>2. QED
      BY <1>0, <2>1, <3>1, HomeScreenAssumption DEF IInv, HasLoad, NewestLoadShown, NoLoad
  <2>2. CASE current # l
    <3>1. /\ LoadShape' /\ list' = list
          /\ \A k \in Loads \ {l} : load'[k] = load[k]
      BY <1>0, <1>2, <2>2 DEF LoadArrives, LoadFails, Over, Counts, LoadShape, NoAnswer
    <3>2. QED
      BY <1>0, <2>2, <3>1 DEF IInv, HasLoad, NewestLoadShown
  <2>3. QED
    BY <2>1, <2>2
<1>3. QED
  BY <1>1, <1>2 DEF LoadSteps

(* Every step keeps the newest load the current one.                       *)
LEMMA NewestStep == IInv /\ [Next]_vars => IInv'
<1> SUFFICES ASSUME IInv, [Next]_vars PROVE IInv'
  OBVIOUS
<1>1. CASE Reload \/ Mount
  <2>1. PICK l \in Loads : StartLoad(l)
    BY <1>1 DEF Reload, Mount
  <2>2. list'.status = "loading"
    BY <1>1 DEF Reload, Mount, Loading
  <2>3. QED
    BY <2>1, <2>2, StartLoadShape DEF IInv, HasLoad, NewestLoadShown
<1>2. ASSUME NEW l \in Loads, LoadSteps(l) PROVE IInv'
  BY <1>2, LoadKeepsNewest
<1>3. CASE Unmount
  <2>1. LoadShape' /\ ~mounted'
    BY <1>3 DEF Unmount, IInv, LoadShape, NoAnswer
  <2>2. QED
    BY <2>1 DEF IInv, HasLoad, NewestLoadShown
<1>4. CASE UNCHANGED <<mounted, list, current, load>>
  BY <1>4 DEF IInv, LoadShape, HasLoad, NewestLoadShown
<1>5. ASSUME NEW p \in Posts, Submit(p) \/ PostSteps(p) PROVE UNCHANGED <<mounted, list, current, load>>
  BY <1>5 DEF Submit, PostSteps, ServeCreate, CreateSettles, CreateFails, screen
<1>6. ASSUME NEW id, Dismiss(id) \/ TimerFires(id) PROVE UNCHANGED <<mounted, list, current, load>>
  BY <1>6 DEF Dismiss, TimerFires, screen
<1>7. ASSUME NEW title, Type(title) PROVE UNCHANGED <<mounted, list, current, load>>
  BY <1>7 DEF Type
<1>8. CASE SubmitRejected \/ OtherCreates \/ OtherRemoves \/ UNCHANGED vars
  BY <1>8, <1>4 DEF SubmitRejected, OtherCreates, OtherRemoves, screen, vars
<1>9. QED
  BY <1>1, <1>2, <1>3, <1>4, <1>5, <1>6, <1>7, <1>8 DEF Next

(* useListQuery.ts:31-32, for every number of loads under way: the page on *)
(* the screen is the one the last load brought, however late the answers   *)
(* of earlier loads come.                                                  *)
THEOREM NewestShown == Spec => []NewestLoadShown
<1>1. Init => IInv
  BY DEF Init, IInv, LoadShape, HasLoad, NewestLoadShown, NoAnswer
<1>2. IInv => NewestLoadShown
  BY DEF IInv
<1>3. QED
  BY <1>1, <1>2, NewestStep, PTL DEF Spec

-----------------------------------------------------------------------------
(***************************************************************************)
(* Type correctness.                                                       *)
(***************************************************************************)
Statuses  == {"loading", "empty", "ready", "error"}
LoadPlaces == {"none", "sent", "answered", "done"}
Lists   == [status : Statuses, items : Seq(Ids)]
Answers == [pc : LoadPlaces, items : Seq(Ids)]
Forms   == [status : {"idle", "pending", "error"}, title : Titles]
Creates == [pc : {"none", "sent", "created"}, id : Ids \cup {0}, alive : BOOLEAN]
AnyRow  == [id : Int, pending : BOOLEAN]

Types ==
  /\ mounted \in BOOLEAN
  /\ list \in Lists
  /\ (list.status = "ready") = (list.items # <<>>)
  /\ current \in Loads \cup {NoLoad}
  /\ load \in [Loads -> Answers]
  /\ form \in Forms
  /\ rows \in Seq(AnyRow)
  /\ post \in [Posts -> Creates]
  /\ timers \subseteq 1..MaxToasts /\ toasts \in Seq(timers)
  /\ notes \subseteq Ids /\ unused \subseteq Ids \ notes

(* The least member of a set of numbers.                                   *)
LEMMA MinIs ==
  ASSUME NEW S \in SUBSET Nat, S # {}
  PROVE  Min(S) \in S /\ \A x \in S : Min(S) <= x
BY Least DEF Min

(* The first free one is free, unless there is none.                       *)
LEMMA FirstIs ==
  ASSUME NEW S \in SUBSET (Nat \ {0})
  PROVE  First(S) \in S \cup {0}
BY MinIs DEF First

\* No member of the sequence is there twice.
Once(s) == \A i, j \in DOMAIN s : i # j => s[i] # s[j]

(* A page is a sequence of notes, no note twice.                           *)
LEMMA PageIs ==
  ASSUME Types
  PROVE  Page \in Seq(Ids) /\ Once(Page)
<1> DEFINE d == Descending(notes)
           m == Min({PageSize, Cardinality(notes)})
<1>1. notes \in SUBSET Int /\ IsFiniteSet(notes) /\ notes \subseteq Ids
  <2>1. notes \in SUBSET Ids /\ IsFiniteSet(Ids)
    BY HomeScreenAssumption DEF Types
  <2>2. notes \in SUBSET Int
    BY <2>1, HomeScreenAssumption
  <2>3. QED
    BY <2>1, <2>2, FS_Subset
<1>2. /\ Cardinality(notes) \in Nat /\ d \in [1..Cardinality(notes) -> notes]
      /\ \A i, j \in 1..Cardinality(notes) : i < j => d[i] > d[j]
  BY <1>1, DescendingIs
<1>3. m \in Nat /\ m <= Cardinality(notes)
  BY <1>2, HomeScreenAssumption, MinIs
<1>4. Page = SubSeq(d, 1, m)
  BY DEF Page
<1>5. \A i, j \in 1..Cardinality(notes) : i # j => d[i] # d[j]
  <2>1. \A i \in 1..Cardinality(notes) : d[i] \in Int
    BY <1>1, <1>2
  <2> HIDE DEF d
  <2>2. QED
    BY <1>2, <2>1
<1> HIDE DEF d, m
<1>6. d \in Seq(Ids) /\ Len(d) = Cardinality(notes)
  <2>1. d \in [1..Cardinality(notes) -> Ids]
    BY <1>1, <1>2
  <2>2. QED
    BY <1>2, <2>1
<1>7. /\ SubSeq(d, 1, m) \in Seq(Ids) /\ DOMAIN SubSeq(d, 1, m) = 1..m
      /\ \A j \in 1..m : SubSeq(d, 1, m)[j] = d[j]
  BY <1>2, <1>3, <1>6
<1>8. \A j \in 1..m : j \in 1..Cardinality(notes)
  BY <1>2, <1>3
<1>9. QED
  BY <1>4, <1>5, <1>7, <1>8 DEF Once

(* What every screen starts with.                                          *)
LEMMA FreshTypes ==
  /\ <<>> \in Seq(Ids) /\ <<>> \in Seq(AnyRow) /\ <<>> \in Seq({})
  /\ Loading \in Lists /\ (Loading.status = "ready") = (Loading.items # <<>>)
  /\ NoAnswer \in Answers /\ [NoAnswer EXCEPT !.pc = "sent"] \in Answers
  /\ NewForm \in Forms /\ NoPost \in Creates
<1>1. <<>> \in Seq(Ids) /\ <<>> \in Seq(AnyRow) /\ <<>> \in Seq({})
  OBVIOUS
<1>2. Loading \in Lists /\ Loading.status = "loading" /\ Loading.items = <<>>
  BY <1>1 DEF Loading, Lists, Statuses
<1>3. NoAnswer \in Answers /\ [NoAnswer EXCEPT !.pc = "sent"] = [pc |-> "sent", items |-> <<>>]
  BY <1>1 DEF NoAnswer, Answers, LoadPlaces
<1>4. [pc |-> "sent", items |-> <<>>] \in Answers
  BY <1>1 DEF Answers, LoadPlaces
<1>5. NewForm \in Forms /\ NoPost \in Creates
  BY DEF NewForm, Forms, Titles, NoPost, Creates
<1>6. QED
  BY <1>1, <1>2, <1>3, <1>4, <1>5

(* The first screen is well typed.                                         *)
LEMMA InitTypes == Init => Types
BY FreshTypes DEF Init, Types

(* A load that starts.                                                     *)
LEMMA StartLoadTypes ==
  ASSUME Types, NEW l \in Loads, StartLoad(l)
  PROVE  /\ current' \in Loads
         /\ load' \in [Loads -> Answers]
<1>1. \A k \in Loads : load'[k] \in {load[k], NoAnswer, [NoAnswer EXCEPT !.pc = "sent"]}
  BY DEF StartLoad
<1>3. load' = [k \in Loads |-> load'[k]] /\ current' = l
  BY DEF StartLoad
<1>4. \A k \in Loads : load'[k] \in Answers
  BY <1>1, FreshTypes DEF Types
<1>5. QED
  BY <1>3, <1>4

(* The steps of a load.                                                    *)
LEMMA LoadTypes ==
  ASSUME Types, NEW l \in Loads, LoadSteps(l)
  PROVE  Types'
<1>0. load[l] \in Answers
  BY DEF Types
<1>1. CASE ServeLoad(l)
  <2>1. [pc |-> "answered", items |-> Page] \in Answers
    BY PageIs DEF Answers, LoadPlaces
  <2>2. load' \in [Loads -> Answers]
    BY <1>1, <2>1 DEF ServeLoad, Types
  <2>3. QED
    BY <1>1, <2>2 DEF ServeLoad, Types, wire, bell
<1>2. CASE LoadArrives(l) \/ LoadFails(l)
  <2>1. Over(l) \in [Loads -> Answers]
    <3>1. [load[l] EXCEPT !.pc = "done"] \in Answers
      BY <1>0 DEF Answers, LoadPlaces
    <3>2. QED
      BY <3>1, FreshTypes DEF Over, Types
  <2>2. /\ list' \in Lists
        /\ (list'.status = "ready") = (list'.items # <<>>)
    <3>1. CASE LoadArrives(l)
      <4>1. CASE Counts(l) /\ load[l].items = <<>>
        <5>1. list' = [status |-> "empty", items |-> <<>>]
          BY <3>1, <4>1 DEF LoadArrives
        <5>2. QED
          BY <5>1, FreshTypes DEF Lists, Statuses
      <4>2. CASE Counts(l) /\ load[l].items # <<>>
        <5>1. list' = [status |-> "ready", items |-> load[l].items]
          BY <3>1, <4>2 DEF LoadArrives
        <5>2. QED
          BY <1>0, <4>2, <5>1 DEF Lists, Answers, Statuses
      <4>3. CASE ~Counts(l)
        BY <3>1, <4>3 DEF LoadArrives, Types
      <4>4. QED
        BY <4>1, <4>2, <4>3
    <3>2. CASE LoadFails(l)
      <4>1. CASE Counts(l)
        BY <3>2, <4>1, FreshTypes DEF LoadFails, Lists, Statuses
      <4>2. CASE ~Counts(l)
        BY <3>2, <4>2 DEF LoadFails, Types
      <4>3. QED
        BY <4>1, <4>2
    <3>3. QED
      BY <1>2, <3>1, <3>2
  <2>3. QED
    BY <1>2, <2>1, <2>2 DEF LoadArrives, LoadFails, Types, wire, bell
<1>3. QED
  BY <1>1, <1>2 DEF LoadSteps

(* A toast that goes leaves the others.                                    *)
LEMMA WithoutTypes ==
  ASSUME Types, NEW id
  PROVE  Without(id) \in Seq(timers) /\ Without(id) \in Seq(timers \ {id})
<1> DEFINE K == {i \in DOMAIN toasts : toasts[i] # id}
<1>1. toasts \in Seq(timers) /\ K \in SUBSET DOMAIN toasts
  BY DEF Types
<1>2. /\ Keep(toasts, K) \in Seq(timers) /\ DOMAIN Keep(toasts, K) = 1..Cardinality(K)
      /\ Cardinality(K) \in Nat
      /\ \A j \in 1..Cardinality(K) :
           Ascending(K)[j] \in K /\ Keep(toasts, K)[j] = toasts[Ascending(K)[j]]
  BY <1>1, KeepIs
<1>3. \A j \in 1..Cardinality(K) : Keep(toasts, K)[j] \in timers \ {id}
  BY <1>1, <1>2
<1>4. Keep(toasts, K) \in [1..Cardinality(K) -> timers \ {id}]
  BY <1>2, <1>3 DEF Keep
<1>5. QED
  BY <1>2, <1>4 DEF Without

(* A new toast, with a timer no other toast has.                           *)
LEMMA ShowTypes ==
  ASSUME Types, Show
  PROVE  /\ timers' \subseteq 1..MaxToasts /\ toasts' \in Seq(timers')
         /\ Len(toasts') > Len(toasts)
<1> DEFINE id == First((1..MaxToasts) \ timers)
<1>1. id \in 1..MaxToasts
  <2>1. (1..MaxToasts) \ timers \in SUBSET (Nat \ {0})
    BY HomeScreenAssumption
  <2>2. QED
    BY <2>1, FirstIs DEF Show
<1>2. toasts' = Append(toasts, id) /\ timers' = timers \cup {id}
  BY DEF Show
<1> HIDE DEF id
<1>3. toasts \in Seq(timers \cup {id})
  BY DEF Types
<1>4. QED
  BY <1>1, <1>2, <1>3 DEF Types

(* The rows of the optimistic create.                                      *)
LEMMA SettledTypes ==
  ASSUME Types, NEW p \in Posts
  PROVE  /\ Settled(p) \in Seq(AnyRow)
         /\ RolledBack(p) \in Seq(AnyRow)
<1>1. rows \in Seq(AnyRow)
  BY DEF Types
<1>2. Row(post[p].id, FALSE) \in AnyRow
  <2>1. post[p].id \in Ids \cup {0} /\ \A x \in Ids : x \in Int
    BY HomeScreenAssumption DEF Types, Creates
  <2>2. post[p].id \in Int
    BY <2>1
  <2>3. QED
    BY <2>2 DEF Row, AnyRow
<1>3. Settled(p) \in Seq(AnyRow)
  <2>1. Len(rows) \in Nat /\ DOMAIN rows = 1..Len(rows) /\ \A i \in 1..Len(rows) : rows[i] \in AnyRow
    BY <1>1
  <2>2. Settled(p) \in [1..Len(rows) -> AnyRow]
    BY <2>1, <1>2 DEF Settled
  <2>3. QED
    BY <2>1, <2>2
<1>4. RolledBack(p) \in Seq(AnyRow)
  <2>1. {i \in DOMAIN rows : rows[i].id # -p} \in SUBSET DOMAIN rows
    OBVIOUS
  <2>2. QED
    BY <1>1, <2>1, KeepIs DEF RolledBack
<1>5. QED
  BY <1>3, <1>4

(* The server gives out an id.                                             *)
LEMMA GivenOut ==
  ASSUME Types, unused # {}
  PROVE  Min(unused) \in unused
BY MinIs, HomeScreenAssumption DEF Types

(* A create keeps the types, from the form to its answer.                  *)
LEMMA CreateTypes ==
  ASSUME Types, NEW p \in Posts, Submit(p) \/ PostSteps(p)
  PROVE  Types'
<1>0. post[p] \in Creates
  BY DEF Types
<1>1. CASE Submit(p)
  <2>1. Row(-p, TRUE) \in AnyRow
    BY HomeScreenAssumption DEF Row, AnyRow
  <2>2. rows' \in Seq(AnyRow)
    <3>1. <<Row(-p, TRUE)>> \in Seq(AnyRow)
      BY <2>1, SingleIs
    <3>2. QED
      BY <1>1, <3>1, JoinIs DEF Submit, Types
  <2>3. post' \in [Posts -> Creates]
    BY <1>1 DEF Submit, Types, Creates
  <2>4. form' \in Forms
    BY <1>1 DEF Submit, Types, Forms
  <2>5. QED
    BY <1>1, <2>2, <2>3, <2>4 DEF Submit, Types, bell
<1>2. CASE ServeCreate(p)
  <2>1. PICK id \in unused :
          /\ post' = [post EXCEPT ![p].pc = "created", ![p].id = id]
          /\ notes' = notes \cup {id} /\ unused' = unused \ {id}
    BY <1>2, GivenOut DEF ServeCreate
  <2>2. post' \in [Posts -> Creates]
    BY <2>1 DEF Types, Creates
  <2>3. QED
    BY <1>2, <2>1, <2>2 DEF ServeCreate, Types, screen, bell
<1>3. CASE CreateSettles(p)
  <2>1. post' \in [Posts -> Creates]
    BY <1>3, FreshTypes DEF CreateSettles, Types
  <2>2. rows' \in Seq(AnyRow)
    BY <1>3, SettledTypes DEF CreateSettles, Types
  <2>3. form' \in Forms
    BY <1>3, FreshTypes DEF CreateSettles, Types
  <2>4. QED
    BY <1>3, <2>1, <2>2, <2>3 DEF CreateSettles, Types, bell
<1>4. CASE CreateFails(p)
  <2>1. post' \in [Posts -> Creates]
    BY <1>4, FreshTypes DEF CreateFails, Types
  <2>2. rows' \in Seq(AnyRow)
    BY <1>4, SettledTypes DEF CreateFails, Types
  <2>3. form' \in Forms
    BY <1>4 DEF CreateFails, Types, Forms
  <2>4. timers' \subseteq 1..MaxToasts /\ toasts' \in Seq(timers')
    BY <1>4, ShowTypes DEF CreateFails
  <2>5. QED
    BY <1>4, <2>1, <2>2, <2>3, <2>4 DEF CreateFails, Types
<1>5. QED
  BY <1>1, <1>2, <1>3, <1>4 DEF PostSteps

(* Every step keeps the types.                                             *)
LEMMA TypesStep == Types /\ [Next]_vars => Types'
<1> SUFFICES ASSUME Types, [Next]_vars PROVE Types'
  OBVIOUS
<1>1. CASE Reload \/ Mount
  <2>1. PICK l \in Loads : StartLoad(l)
    BY <1>1 DEF Reload, Mount
  <2>2. /\ mounted' \in BOOLEAN /\ list' = Loading /\ UNCHANGED <<wire, bell>>
        /\ form' = form \/ form' = NewForm
        /\ rows' = rows \/ rows' = <<>>
    BY <1>1 DEF Reload, Mount, Types
  <2>3. QED
    BY <2>1, <2>2, StartLoadTypes, FreshTypes DEF Types, wire, bell
<1>2. ASSUME NEW l \in Loads, LoadSteps(l) PROVE Types'
  BY <1>2, LoadTypes
<1>3. CASE SubmitRejected \/ \E title \in Titles : Type(title)
  BY <1>3 DEF SubmitRejected, Type, Types, Forms, wire, bell
<1>4. ASSUME NEW p \in Posts, Submit(p) \/ PostSteps(p) PROVE Types'
  BY <1>4, CreateTypes
<1>5. ASSUME NEW id \in 1..MaxToasts, Dismiss(id) \/ TimerFires(id) PROVE Types'
  BY <1>5, WithoutTypes DEF Dismiss, TimerFires, screen, wire, Types
<1>6. CASE Unmount
  <2>1. load' \in [Loads -> Answers]
    BY <1>6, FreshTypes DEF Unmount, Types
  <2>2. post' \in [Posts -> Creates]
    BY <1>6 DEF Unmount, Types, Creates
  <2>3. QED
    BY <1>6, <2>1, <2>2, FreshTypes DEF Unmount, Types, bell
<1>7. CASE OtherCreates \/ OtherRemoves
  <2>1. notes' \subseteq Ids /\ unused' \subseteq Ids \ notes'
    BY <1>7, GivenOut DEF OtherCreates, OtherRemoves, Types
  <2>2. QED
    BY <1>7, <2>1 DEF OtherCreates, OtherRemoves, Types, screen, bell
<1>8. CASE UNCHANGED vars
  BY <1>8 DEF vars, screen, wire, bell, Types
<1>9. QED
  BY <1>1, <1>2, <1>3, <1>4, <1>5, <1>6, <1>7, <1>8 DEF Next

-----------------------------------------------------------------------------
(***************************************************************************)
(* The optimistic rows: one for every create under way, the server's for   *)
(* every one that settled, no note twice.                                  *)
(***************************************************************************)
\* The create is under way, and its hook is still there.
Alive(p) == post[p].pc # "none" /\ post[p].alive

OneRowEach == \A i, j \in DOMAIN rows : i # j => rows[i].id # rows[j].id

RowsStand ==
  \A i \in DOMAIN rows :
    IF rows[i].pending THEN \E p \in Posts : Alive(p) /\ rows[i].id = -p
                       ELSE rows[i].id \in Ids \ unused

AliveStand ==
  \A p \in Posts : Alive(p) =>
    /\ \E i \in DOMAIN rows : rows[i] = Row(-p, TRUE)
    /\ \A q \in Posts : Alive(q) => p = q
    /\ post[p].pc = "created" =>
         /\ post[p].id \in Ids \ unused
         /\ \A i \in DOMAIN rows : rows[i].id # post[p].id

FormStands == (form.status = "pending") = InFlight /\ (~mounted => ~InFlight)

RowsInv == OneRowEach /\ RowsStand /\ AliveStand /\ FormStands

(* The ids the server gives out are above 0, the temporary ones below.     *)
LEMMA IdsApart ==
  ASSUME Types, RowsInv
  PROVE  /\ \A x \in Ids : x \in Int /\ x > 0
         /\ \A p \in Posts : p \in Int /\ p > 0 /\ -p \in Int /\ -p < 0 /\ -p \notin Ids
         /\ \A p \in Posts : post[p] \in Creates
         /\ DOMAIN rows = 1..Len(rows) /\ Len(rows) \in Nat
         /\ \A i \in DOMAIN rows : rows[i] \in AnyRow /\ rows[i] = Row(rows[i].id, rows[i].pending)
         /\ \A i \in DOMAIN rows : \A p \in Posts :
              rows[i].id = -p => rows[i].pending /\ Alive(p)
<1>1. \A x \in Ids : x \in Int /\ x > 0
  BY HomeScreenAssumption
<1>2. \A p \in Posts : p \in Int /\ p > 0 /\ -p \in Int /\ -p < 0
  BY HomeScreenAssumption
<1>3. \A p \in Posts : -p \notin Ids
  BY <1>1, <1>2
<1>4. rows \in Seq(AnyRow)
  BY DEF Types
<1>5. DOMAIN rows = 1..Len(rows) /\ Len(rows) \in Nat /\ \A i \in DOMAIN rows : rows[i] \in AnyRow
  BY <1>4
<1>6. \A i \in DOMAIN rows : rows[i] = Row(rows[i].id, rows[i].pending)
  BY <1>5 DEF AnyRow, Row
<1>7. ASSUME NEW i \in DOMAIN rows, NEW p \in Posts, rows[i].id = -p
      PROVE  rows[i].pending /\ Alive(p)
  <2>1. rows[i].pending
    BY <1>3, <1>7 DEF RowsInv, RowsStand
  <2>2. PICK q \in Posts : Alive(q) /\ rows[i].id = -q
    BY <2>1 DEF RowsInv, RowsStand
  <2>3. q = p
    BY <1>2, <1>7, <2>2
  <2>4. QED
    BY <2>1, <2>2, <2>3
<1>8. \A p \in Posts : post[p] \in Creates
  BY DEF Types
<1>9. QED
  BY <1>1, <1>2, <1>3, <1>5, <1>6, <1>7, <1>8

(* No create under way begins or ends.                                     *)
LEMMA RowsKept ==
  ASSUME RowsInv,
         rows' = rows, mounted' = mounted, unused' \subseteq unused,
         (form'.status = "pending") = (form.status = "pending"),
         \A p \in Posts : (Alive(p)' <=> Alive(p)) /\ (Alive(p) => post'[p] = post[p])
  PROVE  RowsInv'
<1>1. OneRowEach'
  BY DEF RowsInv, OneRowEach
<1>2. RowsStand'
  BY DEF RowsInv, RowsStand
<1>3. AliveStand'
  BY DEF RowsInv, AliveStand
<1>4. InFlight' <=> InFlight
  BY DEF InFlight, Alive
<1>5. FormStands'
  BY <1>4 DEF RowsInv, FormStands
<1>6. QED
  BY <1>1, <1>2, <1>3, <1>5 DEF RowsInv

(* No create is under way, and no row is shown.                            *)
LEMMA RowsCleared ==
  ASSUME rows' = <<>>, form'.status # "pending", \A p \in Posts : ~Alive(p)'
  PROVE  RowsInv'
<1>1. ~InFlight'
  BY DEF InFlight, Alive
<1>2. DOMAIN rows' = {}
  OBVIOUS
<1>3. OneRowEach' /\ RowsStand' /\ AliveStand'
  BY <1>2 DEF OneRowEach, RowsStand, AliveStand
<1>4. FormStands'
  BY <1>1 DEF FormStands, InFlight
<1>5. QED
  BY <1>3, <1>4 DEF RowsInv

(* A create begins: its row comes before the others.                       *)
LEMMA SubmitRows ==
  ASSUME Types, RowsInv, NEW p \in Posts, Submit(p)
  PROVE  RowsInv'
<1>1. post[p].pc = "none"
  <2>1. {q \in Posts : post[q].pc = "none"} \in SUBSET (Nat \ {0})
    BY HomeScreenAssumption
  <2>2. p \in {q \in Posts : post[q].pc = "none"} \cup {0}
    BY <2>1, FirstIs DEF Submit
  <2>3. QED
    BY <2>2, IdsApart
<1>2. /\ \A q \in Posts : Alive(q)' <=> q = p
      /\ post'[p].pc = "sent" /\ form'.status = "pending" /\ mounted' /\ unused' = unused
  BY DEF Submit, InFlight, Alive, Types, Forms
<1>3. /\ DOMAIN rows' = 1..(Len(rows) + 1) /\ rows'[1] = Row(-p, TRUE)
      /\ \A i \in DOMAIN rows' : i # 1 => i - 1 \in DOMAIN rows /\ rows'[i] = rows[i - 1]
  <2>1. <<Row(-p, TRUE)>> \in Seq(AnyRow)
    <3>1. Row(-p, TRUE) \in AnyRow
      BY IdsApart DEF Row, AnyRow
    <3>2. QED
      BY <3>1, SingleIs
  <2>2. rows' = <<Row(-p, TRUE)>> \o rows /\ rows \in Seq(AnyRow)
    BY DEF Submit, Types
  <2>3. Len(<<Row(-p, TRUE)>>) = 1 /\ <<Row(-p, TRUE)>>[1] = Row(-p, TRUE)
    OBVIOUS
  <2>4. QED
    BY <2>1, <2>2, <2>3, JoinIs
<1>4. \A i \in DOMAIN rows : ~rows[i].pending /\ rows[i].id \in Ids \ unused
  BY DEF Submit, InFlight, Alive, RowsInv, RowsStand
<1>5. Row(-p, TRUE).id = -p /\ Row(-p, TRUE).pending = TRUE
  BY DEF Row
<1>6. OneRowEach'
  <2> SUFFICES ASSUME NEW i \in DOMAIN rows', NEW j \in DOMAIN rows', i # j
               PROVE  rows'[i].id # rows'[j].id
    BY DEF OneRowEach
  <2>1. CASE i # 1 /\ j # 1
    <3>1. i - 1 # j - 1
      BY <1>3, IdsApart
    <3>2. QED
      BY <1>3, <2>1, <3>1 DEF RowsInv, OneRowEach
  <2>2. CASE i = 1 \/ j = 1
    <3>1. \A k \in DOMAIN rows : rows[k].id # -p
      BY <1>4, IdsApart
    <3>2. QED
      BY <1>3, <1>5, <2>2, <3>1
  <2>3. QED
    BY <2>1, <2>2
<1>7. RowsStand'
  BY <1>2, <1>3, <1>4, <1>5 DEF RowsStand
<1>8. AliveStand'
  <2>1. 1 \in DOMAIN rows'
    BY <1>3, IdsApart
  <2>2. QED
    BY <1>2, <1>3, <2>1 DEF AliveStand
<1>9. FormStands'
  BY <1>2 DEF FormStands, InFlight, Alive
<1>10. QED
  BY <1>6, <1>7, <1>8, <1>9 DEF RowsInv

(* The server gives the note an id no row has.                             *)
LEMMA ServeCreateRows ==
  ASSUME Types, RowsInv, NEW p \in Posts, ServeCreate(p)
  PROVE  RowsInv'
<1>1. PICK id \in unused :
        /\ post' = [post EXCEPT ![p].pc = "created", ![p].id = id]
        /\ unused' = unused \ {id}
  BY GivenOut DEF ServeCreate
<1>2. id \in Ids
  BY DEF Types
<1>3. rows' = rows /\ form' = form /\ mounted' = mounted /\ post[p].pc = "sent"
  BY DEF ServeCreate, screen
<1>4. /\ \A q \in Posts : Alive(q)' <=> Alive(q)
      /\ post'[p].id = id /\ \A q \in Posts \ {p} : post'[q] = post[q]
  BY <1>1, <1>3 DEF Alive, Types, Creates
<1>5. \A i \in DOMAIN rows : rows[i].id # id
  <2> SUFFICES ASSUME NEW i \in DOMAIN rows PROVE rows[i].id # id
    OBVIOUS
  <2>1. CASE rows[i].pending
    BY <2>1, <1>2, IdsApart DEF RowsInv, RowsStand
  <2>2. CASE ~rows[i].pending
    BY <2>2 DEF RowsInv, RowsStand
  <2>3. QED
    BY <2>1, <2>2
<1>6. OneRowEach' /\ RowsStand'
  BY <1>1, <1>3, <1>4 DEF RowsInv, OneRowEach, RowsStand
<1>7. AliveStand'
  <2> SUFFICES ASSUME NEW q \in Posts, Alive(q)
               PROVE  /\ \E i \in DOMAIN rows : rows[i] = Row(-q, TRUE)
                      /\ \A r \in Posts : Alive(r) => q = r
                      /\ post'[q].pc = "created" =>
                           /\ post'[q].id \in Ids \ unused'
                           /\ \A i \in DOMAIN rows : rows[i].id # post'[q].id
    BY <1>3, <1>4 DEF AliveStand
  <2>0. /\ \E i \in DOMAIN rows : rows[i] = Row(-q, TRUE)
        /\ \A r \in Posts : Alive(r) => q = r
        /\ post[q].pc = "created" =>
             post[q].id \in Ids \ unused /\ \A i \in DOMAIN rows : rows[i].id # post[q].id
    BY DEF RowsInv, AliveStand
  <2>1. CASE q = p
    <3>1. post'[q].id \in Ids \ unused'
      BY <1>1, <1>2, <1>4, <2>1
    <3>2. QED
      BY <1>4, <1>5, <2>0, <2>1, <3>1
  <2>2. CASE q # p
    <3>1. post'[q] = post[q] /\ unused' \subseteq unused
      BY <1>1, <1>4, <2>2
    <3>2. QED
      BY <2>0, <3>1
  <2>3. QED
    BY <2>1, <2>2
<1>8. FormStands'
  BY <1>3, <1>4 DEF RowsInv, FormStands, InFlight, Alive
<1>9. QED
  BY <1>6, <1>7, <1>8 DEF RowsInv

(* The create settles: the server's row takes the place of the temporary   *)
(* one; or its hook is gone, and nothing is left to change.                *)
LEMMA SettleRows ==
  ASSUME Types, RowsInv, NEW p \in Posts, CreateSettles(p)
  PROVE  RowsInv'
<1>1. /\ post[p].pc = "created" /\ post' = [post EXCEPT ![p] = NoPost]
      /\ unused' = unused /\ mounted' = mounted
  BY DEF CreateSettles
<1>2. \A q \in Posts : (Alive(q)' <=> Alive(q) /\ q # p) /\ (q # p => post'[q] = post[q])
  BY <1>1 DEF Alive, NoPost, Types
<1>3. CASE post[p].alive
  <2>1. rows' = Settled(p) /\ form'.status = "idle" /\ Alive(p)
    <3>1. rows' = Settled(p) /\ form' = NewForm
      BY <1>3 DEF CreateSettles
    <3>2. QED
      BY <1>1, <1>3, <3>1 DEF NewForm, Alive
  <2>2. /\ DOMAIN rows' = DOMAIN rows
        /\ \A i \in DOMAIN rows :
             rows'[i] = IF rows[i].id = -p THEN Row(post[p].id, FALSE) ELSE rows[i]
    BY <2>1 DEF Settled
  <2>3. \A q \in Posts : ~Alive(q)'
    BY <1>2, <2>1 DEF RowsInv, AliveStand
  <2>4. /\ post[p].id \in Ids \ unused
        /\ \A i \in DOMAIN rows : rows[i].id # post[p].id
    BY <1>1, <2>1 DEF RowsInv, AliveStand
  <2>5. Row(post[p].id, FALSE).id = post[p].id /\ Row(post[p].id, FALSE).pending = FALSE
    BY DEF Row
  <2>6. OneRowEach'
    BY <2>2, <2>4, <2>5 DEF RowsInv, OneRowEach
  <2>7. RowsStand'
    <3> SUFFICES ASSUME NEW i \in DOMAIN rows
                 PROVE  ~rows'[i].pending /\ rows'[i].id \in Ids \ unused
      BY <1>1, <2>2 DEF RowsStand
    <3>1. CASE rows[i].id = -p
      BY <2>2, <2>4, <2>5, <3>1
    <3>2. CASE rows[i].id # -p
      BY <2>1, <2>2, <3>2 DEF RowsInv, RowsStand, AliveStand
    <3>3. QED
      BY <3>1, <3>2
  <2>8. AliveStand' /\ FormStands'
    BY <2>1, <2>3 DEF AliveStand, FormStands, InFlight, Alive
  <2>9. QED
    BY <2>6, <2>7, <2>8 DEF RowsInv
<1>4. CASE ~post[p].alive
  <2>1. rows' = rows /\ form' = form
    BY <1>4 DEF CreateSettles
  <2>2. \A q \in Posts : (Alive(q)' <=> Alive(q)) /\ (Alive(q) => q # p)
    BY <1>2, <1>4 DEF Alive
  <2>3. QED
    BY <1>1, <1>2, <2>1, <2>2, RowsKept
<1>5. QED
  BY <1>3, <1>4

(* The create fails: its row goes, and no other.                           *)
LEMMA FailRows ==
  ASSUME Types, RowsInv, NEW p \in Posts, CreateFails(p)
  PROVE  RowsInv'
<1>1. /\ post[p].pc # "none" /\ post' = [post EXCEPT ![p] = NoPost]
      /\ unused' = unused /\ mounted' = mounted
  BY DEF CreateFails
<1>2. \A q \in Posts : (Alive(q)' <=> Alive(q) /\ q # p) /\ (q # p => post'[q] = post[q])
  BY <1>1 DEF Alive, NoPost, Types
<1>3. CASE post[p].alive
  <2> DEFINE K == {i \in DOMAIN rows : rows[i].id # -p}
  <2>1. rows' = Keep(rows, K) /\ form'.status = "error" /\ Alive(p)
    BY <1>1, <1>3 DEF CreateFails, RolledBack, Alive, Types, Forms
  <2>2. /\ DOMAIN rows' = 1..Cardinality(K) /\ Cardinality(K) \in Nat
        /\ \A j \in 1..Cardinality(K) : Ascending(K)[j] \in K /\ rows'[j] = rows[Ascending(K)[j]]
        /\ \A i, j \in 1..Cardinality(K) : i < j => Ascending(K)[i] < Ascending(K)[j]
    <3>1. rows \in Seq(AnyRow) /\ K \in SUBSET DOMAIN rows
      BY DEF Types
    <3> HIDE DEF K
    <3>2. QED
      BY <2>1, <3>1, KeepIs
  <2>3. \A q \in Posts : ~Alive(q)'
    BY <1>2, <2>1 DEF RowsInv, AliveStand
  <2>4. \A i \in K : ~rows[i].pending /\ rows[i].id \in Ids \ unused /\ i \in DOMAIN rows
    BY <2>1 DEF RowsInv, RowsStand, AliveStand
  <2>5. \A i, j \in 1..Cardinality(K) : i # j => Ascending(K)[i] # Ascending(K)[j]
    <3>1. \A i \in 1..Cardinality(K) : Ascending(K)[i] \in Int
      BY <2>2, <2>4, IdsApart
    <3> HIDE DEF K
    <3>2. QED
      BY <2>2, <3>1
  <2> HIDE DEF K
  <2>6. OneRowEach'
    BY <2>2, <2>4, <2>5 DEF RowsInv, OneRowEach
  <2>7. RowsStand'
    BY <1>1, <2>2, <2>4 DEF RowsStand
  <2>8. AliveStand' /\ FormStands'
    BY <2>1, <2>3 DEF AliveStand, FormStands, InFlight, Alive
  <2>9. QED
    BY <2>6, <2>7, <2>8 DEF RowsInv
<1>4. CASE ~post[p].alive
  <2>1. rows' = rows /\ form' = form
    BY <1>4 DEF CreateFails
  <2>2. \A q \in Posts : (Alive(q)' <=> Alive(q)) /\ (Alive(q) => q # p)
    BY <1>2, <1>4 DEF Alive
  <2>3. QED
    BY <1>1, <1>2, <2>1, <2>2, RowsKept
<1>5. QED
  BY <1>3, <1>4

(* Every step keeps the overlay.                                           *)
LEMMA RowsStep == Types /\ RowsInv /\ [Next]_vars => RowsInv'
<1> SUFFICES ASSUME Types, RowsInv, [Next]_vars PROVE RowsInv'
  OBVIOUS
<1>1. CASE Mount
  <2>1. rows' = <<>> /\ form'.status = "idle" /\ UNCHANGED <<post, unused>>
    BY <1>1 DEF Mount, NewForm, wire
  <2>2. \A p \in Posts : ~Alive(p)'
    BY <1>1, <2>1 DEF Mount, RowsInv, FormStands, InFlight, Alive
  <2>3. QED
    BY <2>1, <2>2, RowsCleared
<1>2. CASE Unmount
  <2>1. rows' = <<>> /\ form'.status = "idle"
    BY <1>2 DEF Unmount, NewForm
  <2>2. \A p \in Posts : ~Alive(p)'
    BY <1>2 DEF Unmount, Alive, Types, Creates
  <2>3. QED
    BY <2>1, <2>2, RowsCleared
<1>3. CASE SubmitRejected \/ \E title \in Titles : Type(title)
  <2>1. UNCHANGED <<mounted, rows, post, unused>>
    BY <1>3 DEF SubmitRejected, Type, wire
  <2>2. form'.status = "pending" <=> form.status = "pending"
    BY <1>3 DEF SubmitRejected, Type, RowsInv, FormStands, Types, Forms
  <2>3. QED
    BY <2>1, <2>2, RowsKept DEF Alive
<1>4. ASSUME NEW p \in Posts, Submit(p) \/ PostSteps(p) PROVE RowsInv'
  BY <1>4, SubmitRows, ServeCreateRows, SettleRows, FailRows DEF PostSteps
<1>5. CASE UNCHANGED <<mounted, form, rows, post>> /\ unused' \subseteq unused
  BY <1>5, RowsKept DEF Alive
<1>6. ASSUME NEW id \in 1..MaxToasts, Dismiss(id) \/ TimerFires(id) PROVE RowsInv'
  BY <1>5, <1>6 DEF Dismiss, TimerFires, screen, wire
<1>7. ASSUME NEW l \in Loads, LoadSteps(l) PROVE RowsInv'
  BY <1>5, <1>7 DEF LoadSteps, ServeLoad, LoadArrives, LoadFails, wire
<1>8. CASE Reload \/ OtherCreates \/ OtherRemoves \/ UNCHANGED vars
  BY <1>5, <1>8 DEF Reload, OtherCreates, OtherRemoves, screen, wire, vars
<1>9. QED
  BY <1>1, <1>2, <1>3, <1>4, <1>6, <1>7, <1>8 DEF Next

-----------------------------------------------------------------------------
(***************************************************************************)
(* The pages, and what the panel makes of the rows and the page.           *)
(***************************************************************************)
\* No page has a note twice.
PagesOnce == Once(list.items) /\ \A l \in Loads : Once(load[l].items)

(* An empty page has nothing twice.                                        *)
LEMMA OnceEmpty == Once(<<>>)
BY DEF Once

(* Every step keeps the pages.                                             *)
LEMMA PagesStep == Types /\ PagesOnce /\ [Next]_vars => PagesOnce'
<1> SUFFICES ASSUME Types, PagesOnce, [Next]_vars PROVE PagesOnce'
  OBVIOUS
<1>1. CASE Reload \/ Mount
  <2>1. PICK l \in Loads : StartLoad(l)
    BY <1>1 DEF Reload, Mount
  <2>2. \A k \in Loads : load'[k] \in {load[k], NoAnswer, [NoAnswer EXCEPT !.pc = "sent"]}
    BY <2>1 DEF StartLoad
  <2>3. NoAnswer.items = <<>> /\ [NoAnswer EXCEPT !.pc = "sent"].items = <<>> /\ Loading.items = <<>>
    BY DEF NoAnswer, Loading
  <2>4. \A k \in Loads : load'[k].items = load[k].items \/ load'[k].items = <<>>
    BY <2>2, <2>3
  <2>5. list'.items = <<>>
    BY <1>1, <2>3 DEF Reload, Mount
  <2>6. QED
    BY <2>4, <2>5, OnceEmpty DEF PagesOnce
<1>2. ASSUME NEW l \in Loads, LoadSteps(l) PROVE PagesOnce'
  <2>1. CASE ServeLoad(l)
    <3>1. list' = list /\ \A k \in Loads : load'[k].items = IF k = l THEN Page ELSE load[k].items
      BY <2>1 DEF ServeLoad, Types
    <3>2. QED
      BY <3>1, PageIs DEF PagesOnce
  <2>2. CASE LoadArrives(l) \/ LoadFails(l)
    <3>1. load' = Over(l)
      BY <2>2 DEF LoadArrives, LoadFails
    <3>2. Over(l)[l] \in {[load[l] EXCEPT !.pc = "done"], NoAnswer} /\ \A k \in Loads \ {l} : Over(l)[k] = load[k]
      BY DEF Over, Types
    <3>3. [load[l] EXCEPT !.pc = "done"].items = load[l].items /\ NoAnswer.items = <<>>
      BY DEF Types, Answers, NoAnswer
    <3>4. \A k \in Loads : load'[k].items = load[k].items \/ load'[k].items = <<>>
      BY <3>1, <3>2, <3>3
    <3>5. list'.items \in {list.items, load[l].items, <<>>}
      BY <2>2 DEF LoadArrives, LoadFails
    <3>6. QED
      BY <3>4, <3>5, OnceEmpty DEF PagesOnce
  <2>3. QED
    BY <1>2, <2>1, <2>2 DEF LoadSteps
<1>3. CASE Unmount
  <2>1. NoAnswer.items = <<>> /\ Loading.items = <<>>
    BY DEF NoAnswer, Loading
  <2>2. /\ list'.items = <<>>
        /\ \A k \in Loads : load'[k].items = load[k].items \/ load'[k].items = <<>>
    BY <1>3, <2>1 DEF Unmount
  <2>3. QED
    BY <2>2, OnceEmpty DEF PagesOnce
<1>4. CASE UNCHANGED <<list, load>>
  BY <1>4 DEF PagesOnce
<1>5. ASSUME NEW p \in Posts, Submit(p) \/ PostSteps(p) PROVE PagesOnce'
  BY <1>4, <1>5 DEF Submit, PostSteps, ServeCreate, CreateSettles, CreateFails, screen
<1>6. ASSUME NEW id \in 1..MaxToasts, Dismiss(id) \/ TimerFires(id) PROVE PagesOnce'
  BY <1>4, <1>6 DEF Dismiss, TimerFires, screen
<1>7. ASSUME NEW title, Type(title) PROVE PagesOnce'
  BY <1>4, <1>7 DEF Type
<1>8. CASE SubmitRejected \/ OtherCreates \/ OtherRemoves \/ UNCHANGED vars
  BY <1>4, <1>8 DEF SubmitRejected, OtherCreates, OtherRemoves, screen, vars
<1>9. QED
  BY <1>1, <1>2, <1>3, <1>5, <1>6, <1>7, <1>8 DEF Next

(* What the screen shows: the rows the page does not have, then the page.  *)
Fetched == [i \in DOMAIN list.items |-> Row(list.items[i], FALSE)]
Unfetched == {i \in DOMAIN rows : rows[i].id \notin Range(list.items)}

(* What is shown: the rows that are not on the page, and the page.         *)
LEMMA ShownIs ==
  ASSUME Types
  PROVE  /\ ShownRows = Optimistic \o Fetched
         /\ Optimistic \in Seq(AnyRow) /\ Fetched \in Seq(AnyRow)
         /\ DOMAIN Optimistic = 1..Cardinality(Unfetched) /\ DOMAIN Fetched = DOMAIN list.items
         /\ \A j \in DOMAIN Optimistic :
              Ascending(Unfetched)[j] \in Unfetched /\ Optimistic[j] = rows[Ascending(Unfetched)[j]]
         /\ \A i, j \in 1..Cardinality(Unfetched) : i # j => Ascending(Unfetched)[i] # Ascending(Unfetched)[j]
         /\ \A i \in Unfetched : \E j \in DOMAIN Optimistic : Optimistic[j] = rows[i]
         /\ \A j \in DOMAIN Fetched :
              list.items[j] \in Ids /\ Fetched[j].id = list.items[j] /\ Fetched[j].pending = FALSE
<1>1. rows \in Seq(AnyRow) /\ Unfetched \in SUBSET DOMAIN rows /\ list.items \in Seq(Ids)
  BY DEF Types, Lists, Unfetched
<1>2. Optimistic = Keep(rows, Unfetched)
  BY DEF Optimistic, Unfetched
<1>3. /\ Keep(rows, Unfetched) \in Seq(AnyRow) /\ DOMAIN Keep(rows, Unfetched) = 1..Cardinality(Unfetched)
      /\ \A j \in 1..Cardinality(Unfetched) :
           Ascending(Unfetched)[j] \in Unfetched /\ Keep(rows, Unfetched)[j] = rows[Ascending(Unfetched)[j]]
      /\ \A i, j \in 1..Cardinality(Unfetched) : i < j => Ascending(Unfetched)[i] < Ascending(Unfetched)[j]
      /\ \A k \in Unfetched : \E j \in 1..Cardinality(Unfetched) : Keep(rows, Unfetched)[j] = rows[k]
      /\ Cardinality(Unfetched) \in Nat
  BY <1>1, KeepIs
<1>4. \A i, j \in 1..Cardinality(Unfetched) : i # j => Ascending(Unfetched)[i] # Ascending(Unfetched)[j]
  <2>1. \A i \in 1..Cardinality(Unfetched) : Ascending(Unfetched)[i] \in Int
    BY <1>1, <1>3
  <2>2. QED
    BY <1>3, <2>1
<1>5. /\ DOMAIN list.items = 1..Len(list.items) /\ Len(list.items) \in Nat
      /\ \A j \in DOMAIN list.items : list.items[j] \in Ids /\ list.items[j] \in Int
  <2>1. /\ DOMAIN list.items = 1..Len(list.items) /\ Len(list.items) \in Nat
        /\ \A j \in DOMAIN list.items : list.items[j] \in Ids
    BY <1>1
  <2>2. \A x \in Ids : x \in Int
    BY HomeScreenAssumption
  <2>3. QED
    BY <2>1, <2>2
<1>6. Fetched \in Seq(AnyRow) /\ DOMAIN Fetched = DOMAIN list.items
  <2>1. \A j \in DOMAIN list.items : Row(list.items[j], FALSE) \in AnyRow
    BY <1>5 DEF Row, AnyRow
  <2>2. Fetched \in [1..Len(list.items) -> AnyRow]
    BY <1>5, <2>1 DEF Fetched
  <2>3. QED
    BY <1>5, <2>2
<1>7. \A j \in DOMAIN Fetched : Fetched[j].id = list.items[j] /\ Fetched[j].pending = FALSE
  BY <1>6 DEF Row, Fetched
<1>8. ShownRows = Optimistic \o Fetched
  BY DEF ShownRows, Fetched
<1>9. /\ Optimistic \in Seq(AnyRow) /\ DOMAIN Optimistic = 1..Cardinality(Unfetched)
      /\ \A j \in DOMAIN Optimistic :
           Ascending(Unfetched)[j] \in Unfetched /\ Optimistic[j] = rows[Ascending(Unfetched)[j]]
      /\ \A i \in Unfetched : \E j \in DOMAIN Optimistic : Optimistic[j] = rows[i]
  BY <1>2, <1>3
<1>10. QED
  BY <1>4, <1>5, <1>6, <1>7, <1>8, <1>9

(* Every row shown is an optimistic one or one of the page, and each of    *)
(* these is there.                                                         *)
LEMMA ShownHas ==
  ASSUME Types
  PROVE  /\ \A row \in Range(ShownRows) :
              \/ row.id \in Range(list.items) /\ ~row.pending
              \/ \E i \in DOMAIN rows : row = rows[i]
         /\ \A i \in DOMAIN rows : rows[i].id \in IdsOf(ShownRows)
         /\ Range(list.items) \subseteq IdsOf(ShownRows)
<1>1. /\ ShownRows = Optimistic \o Fetched
      /\ Optimistic \in Seq(AnyRow) /\ Fetched \in Seq(AnyRow) /\ DOMAIN Fetched = DOMAIN list.items
      /\ \A j \in DOMAIN Optimistic : \E i \in Unfetched : Optimistic[j] = rows[i]
      /\ \A i \in Unfetched : \E j \in DOMAIN Optimistic : Optimistic[j] = rows[i]
      /\ \A j \in DOMAIN Fetched : Fetched[j].id = list.items[j] /\ Fetched[j].pending = FALSE
  BY ShownIs
<1>2. \A i : i \in Unfetched <=> i \in DOMAIN rows /\ rows[i].id \notin Range(list.items)
  BY DEF Unfetched
<1>3. /\ \A j \in DOMAIN Optimistic : j \in DOMAIN ShownRows /\ ShownRows[j] = Optimistic[j]
      /\ \A j \in DOMAIN ShownRows :
           j \notin DOMAIN Optimistic =>
             j - Len(Optimistic) \in DOMAIN Fetched /\ ShownRows[j] = Fetched[j - Len(Optimistic)]
      /\ \A j \in DOMAIN Fetched :
           Len(Optimistic) + j \in DOMAIN ShownRows /\ ShownRows[Len(Optimistic) + j] = Fetched[j]
  BY <1>1, JoinIs
<1>4. ASSUME NEW row \in Range(ShownRows)
      PROVE  \/ row.id \in Range(list.items) /\ ~row.pending
             \/ \E i \in DOMAIN rows : row = rows[i]
  <2>1. PICK j \in DOMAIN ShownRows : row = ShownRows[j]
    BY DEF Range
  <2>2. CASE j \in DOMAIN Optimistic
    BY <1>1, <1>2, <1>3, <2>1, <2>2
  <2>3. CASE j \notin DOMAIN Optimistic
    <3>1. PICK k \in DOMAIN Fetched : row = Fetched[k]
      BY <1>3, <2>1, <2>3
    <3>2. QED
      BY <1>1, <3>1 DEF Range
  <2>4. QED
    BY <2>2, <2>3
<1>5. Range(list.items) \subseteq IdsOf(ShownRows)
  <2> SUFFICES ASSUME NEW k \in DOMAIN list.items PROVE list.items[k] \in IdsOf(ShownRows)
    BY DEF Range
  <2>1. /\ Len(Optimistic) + k \in DOMAIN ShownRows
        /\ ShownRows[Len(Optimistic) + k].id = list.items[k]
    BY <1>1, <1>3
  <2>2. QED
    BY <2>1 DEF IdsOf
<1>6. ASSUME NEW i \in DOMAIN rows PROVE rows[i].id \in IdsOf(ShownRows)
  <2>1. CASE i \in Unfetched
    <3>1. PICK j \in DOMAIN Optimistic : Optimistic[j] = rows[i]
      BY <1>1, <2>1
    <3>2. QED
      BY <1>3, <3>1 DEF IdsOf
  <2>2. CASE i \notin Unfetched
    BY <1>2, <1>5, <2>2
  <2>3. QED
    BY <2>1, <2>2
<1>7. QED
  BY <1>4, <1>5, <1>6

ShownIsAll ==
  /\ \A i \in DOMAIN rows : rows[i].id \in IdsOf(ShownRows)
  /\ Range(list.items) \subseteq IdsOf(ShownRows)

(* Nothing of the page or the rows is left out, in any state.              *)
LEMMA AllShown == Types => ShownIsAll
BY ShownHas DEF ShownIsAll

(* No note is on the screen twice.                                         *)
LEMMA NoneShownTwice ==
  ASSUME Types, RowsInv, PagesOnce
  PROVE  ShownOnce
<1>1. /\ ShownRows = Optimistic \o Fetched
      /\ Optimistic \in Seq(AnyRow) /\ Fetched \in Seq(AnyRow)
      /\ DOMAIN Optimistic = 1..Cardinality(Unfetched) /\ DOMAIN Fetched = DOMAIN list.items
      /\ \A j \in DOMAIN Optimistic :
           Ascending(Unfetched)[j] \in Unfetched /\ Optimistic[j] = rows[Ascending(Unfetched)[j]]
      /\ \A i, j \in 1..Cardinality(Unfetched) : i # j => Ascending(Unfetched)[i] # Ascending(Unfetched)[j]
      /\ \A j \in DOMAIN Fetched : Fetched[j].id = list.items[j]
  BY ShownIs
<1>2. \A i \in Unfetched : i \in DOMAIN rows /\ rows[i].id \notin Range(list.items)
  BY DEF Unfetched
<1>3. /\ \A j \in DOMAIN Optimistic : ShownRows[j] = Optimistic[j]
      /\ \A j \in DOMAIN ShownRows :
           j \notin DOMAIN Optimistic =>
             j - Len(Optimistic) \in DOMAIN Fetched /\ ShownRows[j] = Fetched[j - Len(Optimistic)]
      /\ DOMAIN ShownRows = 1..(Len(Optimistic) + Len(Fetched)) /\ Len(Optimistic) \in Nat
      /\ Len(Fetched) \in Nat
  <2>1. /\ ShownRows = Optimistic \o Fetched
        /\ Optimistic \in Seq(AnyRow) /\ Fetched \in Seq(AnyRow)
    BY <1>1
  <2>2. QED
    BY <2>1, JoinIs
<1> SUFFICES ASSUME NEW i \in DOMAIN ShownRows, NEW j \in DOMAIN ShownRows, i # j
             PROVE  ShownRows[i].id # ShownRows[j].id
  BY DEF ShownOnce
<1>4. \A k \in DOMAIN Optimistic : Optimistic[k].id \notin Range(list.items)
  BY <1>1, <1>2
<1>5. \A k \in DOMAIN Fetched : Fetched[k].id \in Range(list.items)
  BY <1>1 DEF Range
<1>6. CASE i \in DOMAIN Optimistic /\ j \in DOMAIN Optimistic
  BY <1>1, <1>2, <1>3, <1>6 DEF RowsInv, OneRowEach
<1>7. CASE i \notin DOMAIN Optimistic /\ j \notin DOMAIN Optimistic
  <2>1. i - Len(Optimistic) # j - Len(Optimistic)
    BY <1>3
  <2>2. QED
    BY <1>1, <1>3, <1>7, <2>1 DEF PagesOnce, Once
<1>8. CASE i \in DOMAIN Optimistic /\ j \notin DOMAIN Optimistic
  BY <1>3, <1>4, <1>5, <1>8
<1>9. CASE i \notin DOMAIN Optimistic /\ j \in DOMAIN Optimistic
  BY <1>3, <1>4, <1>5, <1>9
<1>10. QED
  BY <1>6, <1>7, <1>8, <1>9

-----------------------------------------------------------------------------
(* The whole invariant of the screen.                                      *)
ScreenInv == Types /\ RowsInv /\ PagesOnce /\ IInv

(* The overlay and the pages stand in every reachable state.               *)
THEOREM ScreenInvHolds == Spec => []ScreenInv
<1>1. Init => ScreenInv
  <2> SUFFICES ASSUME Init PROVE ScreenInv
    OBVIOUS
  <2>1. Types
    BY InitTypes
  <2>2. rows = <<>> /\ form.status # "pending" /\ \A p \in Posts : ~Alive(p)
    BY DEF Init, NewForm, NoPost, Alive
  <2>3. DOMAIN rows = {}
    BY <2>2
  <2>4. RowsInv
    BY <2>2, <2>3 DEF RowsInv, OneRowEach, RowsStand, AliveStand, FormStands, InFlight, Alive
  <2>5. PagesOnce
    BY OnceEmpty DEF Init, PagesOnce, Loading, NoAnswer
  <2>6. IInv
    BY DEF Init, IInv, LoadShape, HasLoad, NewestLoadShown, NoAnswer
  <2>7. QED
    BY <2>1, <2>4, <2>5, <2>6 DEF ScreenInv
<1>2. ScreenInv /\ [Next]_vars => ScreenInv'
  BY TypesStep, RowsStep, PagesStep, NewestStep DEF ScreenInv
<1>3. QED
  BY <1>1, <1>2, PTL DEF Spec

(* Every variable holds a value of its kind, for every number of notes,    *)
(* loads, creates and toasts.                                              *)
THEOREM TypeCorrect == Spec => []TypeOK
<1>1. ScreenInv => TypeOK
  <2> SUFFICES ASSUME ScreenInv PROVE TypeOK
    OBVIOUS
  <2>1. Types /\ RowsInv
    BY DEF ScreenInv
  <2>2. Range(list.items) \subseteq Ids /\ list.status \in Statuses
    BY <2>1 DEF Types, Lists, Range
  <2>3. \A l \in Loads : load[l].pc \in LoadPlaces /\ Range(load[l].items) \subseteq Ids
    BY <2>1 DEF Types, Answers, Range
  <2>4. \A i \in DOMAIN rows : rows[i].id \in Ids \cup {-p : p \in Posts} /\ rows[i].pending \in BOOLEAN
    <3> SUFFICES ASSUME NEW i \in DOMAIN rows
                 PROVE  rows[i].id \in Ids \cup {-p : p \in Posts} /\ rows[i].pending \in BOOLEAN
      OBVIOUS
    <3>1. rows[i].pending \in BOOLEAN
      BY <2>1, IdsApart DEF AnyRow
    <3>2. rows[i].id \in Ids \cup {-p : p \in Posts}
      BY <2>1 DEF RowsInv, RowsStand
    <3>3. QED
      BY <3>1, <3>2
  <2>5. Range(toasts) \subseteq timers
    BY <2>1 DEF Types, Range
  <2>6. QED
    BY <2>1, <2>2, <2>3, <2>4, <2>5 DEF TypeOK, Types, Statuses, LoadPlaces, Forms, Creates
<1>2. QED
  BY <1>1, ScreenInvHolds, PTL

(* NotesPanel.tsx:162, for every page and every number of rows: no note is *)
(* on the screen twice, also when a created row comes back in a page.      *)
THEOREM ShownOnceHolds == Spec => []ShownOnce
<1>1. ScreenInv => ShownOnce
  BY NoneShownTwice DEF ScreenInv
<1>2. QED
  BY <1>1, ScreenInvHolds, PTL

(* useCreateNote.ts:14-15, for every number of creates under way: the rows *)
(* marked pending are those of the creates whose hook waits for them.      *)
THEOREM PendingHolds == Spec => []PendingIsInFlight
<1>1. ScreenInv => PendingIsInFlight
  <2> SUFFICES ASSUME ScreenInv PROVE PendingIsInFlight
    OBVIOUS
  <2>1. Types /\ RowsInv
    BY DEF ScreenInv
  <2>2. \A row \in Range(rows) : row.pending => \E p \in Posts : Alive(p) /\ row = Row(-p, TRUE)
    <3> SUFFICES ASSUME NEW i \in DOMAIN rows, rows[i].pending
                 PROVE  \E p \in Posts : Alive(p) /\ rows[i] = Row(-p, TRUE)
      BY DEF Range
    <3>1. PICK p \in Posts : Alive(p) /\ rows[i].id = -p
      BY <2>1 DEF RowsInv, RowsStand
    <3>2. rows[i] = Row(rows[i].id, rows[i].pending) /\ rows[i].pending \in BOOLEAN
      BY <2>1, IdsApart DEF AnyRow
    <3>3. QED
      BY <3>1, <3>2
  <2>3. \A p \in Posts : Alive(p) => Row(-p, TRUE) \in Range(rows) /\ Row(-p, TRUE).pending
    BY <2>1 DEF RowsInv, AliveStand, Range, Row
  <2>4. {row \in Range(rows) : row.pending} = {Row(-p, TRUE) : p \in {q \in Posts : Alive(q)}}
    BY <2>2, <2>3
  <2>5. (form.status = "pending") = InFlight
    BY <2>1 DEF RowsInv, FormStands
  <2>6. QED
    BY <2>4, <2>5 DEF PendingIsInFlight, Alive
<1>2. QED
  BY <1>1, ScreenInvHolds, PTL

(* A load that counts is under way only while the skeleton is shown.       *)
LEMMA PageStays ==
  ASSUME ScreenInv, [Next]_vars, ShowsRows, ShowsRows'
  PROVE  list' = list
<1>1. mounted /\ mounted' /\ list.status # "loading" /\ list'.status # "loading"
  BY DEF ShowsRows
<1>2. current \in Loads /\ load[current].pc = "done"
  BY <1>1 DEF ScreenInv, IInv, HasLoad, NewestLoadShown
<1>3. Loading.status = "loading"
  BY DEF Loading
<1>4. CASE Reload \/ Mount \/ Unmount
  BY <1>1, <1>3, <1>4 DEF Reload, Mount, Unmount
<1>5. ASSUME NEW l \in Loads, LoadSteps(l) PROVE list' = list
  BY <1>2, <1>5 DEF LoadSteps, ServeLoad, LoadArrives, LoadFails, Counts
<1>6. ASSUME NEW p \in Posts, Submit(p) \/ PostSteps(p) PROVE list' = list
  BY <1>6 DEF Submit, PostSteps, ServeCreate, CreateSettles, CreateFails, screen
<1>7. ASSUME NEW id \in 1..MaxToasts, Dismiss(id) \/ TimerFires(id) PROVE list' = list
  BY <1>7 DEF Dismiss, TimerFires, screen
<1>8. ASSUME NEW title, Type(title) PROVE list' = list
  BY <1>8 DEF Type
<1>9. CASE SubmitRejected \/ OtherCreates \/ OtherRemoves \/ UNCHANGED vars
  BY <1>9 DEF SubmitRejected, OtherCreates, OtherRemoves, screen, vars
<1>10. QED
  BY <1>4, <1>5, <1>6, <1>7, <1>8, <1>9 DEF Next

(* A row goes only when its create fails, or when its server row comes.    *)
LEMMA RowsStay ==
  ASSUME ScreenInv, [Next]_vars, ShowsRows, ShowsRows', NEW i \in DOMAIN rows
  PROVE  \/ \E j \in DOMAIN rows' : rows'[j].id = rows[i].id
         \/ rows[i].pending /\ Len(toasts') > Len(toasts)
         \/ \E p \in Posts : /\ rows[i].id = -p
                             /\ \E j \in DOMAIN rows' : rows'[j].id = post[p].id
<1>1. mounted /\ mounted' /\ list'.status # "loading" /\ Loading.status = "loading" /\ Types /\ RowsInv
  BY DEF ShowsRows, Loading, ScreenInv
<1>2. CASE rows' = rows
  BY <1>2
<1>3. CASE Reload \/ Mount \/ Unmount
  BY <1>1, <1>3 DEF Reload, Mount, Unmount
<1>4. ASSUME NEW p \in Posts, Submit(p)
      PROVE  \E j \in DOMAIN rows' : rows'[j].id = rows[i].id
  <2>1. <<Row(-p, TRUE)>> \in Seq(AnyRow)
    <3>1. Row(-p, TRUE) \in AnyRow
      BY <1>1, IdsApart DEF Row, AnyRow
    <3>2. QED
      BY <3>1, SingleIs
  <2>2. rows' = <<Row(-p, TRUE)>> \o rows /\ rows \in Seq(AnyRow)
    BY <1>1, <1>4 DEF Submit, Types
  <2>3. QED
    <3>1. /\ Len(<<Row(-p, TRUE)>>) + i \in DOMAIN rows'
          /\ rows'[Len(<<Row(-p, TRUE)>>) + i] = rows[i]
      BY <2>1, <2>2, JoinIs
    <3>2. QED
      BY <3>1
<1>5. ASSUME NEW p \in Posts, CreateSettles(p), rows' = Settled(p)
      PROVE  \/ \E j \in DOMAIN rows' : rows'[j].id = rows[i].id
             \/ rows[i].id = -p /\ \E j \in DOMAIN rows' : rows'[j].id = post[p].id
  <2>1. /\ i \in DOMAIN rows'
        /\ rows'[i] = IF rows[i].id = -p THEN Row(post[p].id, FALSE) ELSE rows[i]
    BY <1>5 DEF Settled
  <2>2. QED
    BY <2>1 DEF Row
<1>6. ASSUME NEW p \in Posts, CreateFails(p), rows' = RolledBack(p)
      PROVE  \/ \E j \in DOMAIN rows' : rows'[j].id = rows[i].id
             \/ rows[i].pending /\ Len(toasts') > Len(toasts)
  <2>1. CASE rows[i].id = -p
    <3>1. rows[i].pending
      BY <1>1, <2>1, IdsApart
    <3>2. Len(toasts') > Len(toasts)
      BY <1>1, <1>6, ShowTypes DEF CreateFails
    <3>3. QED
      BY <3>1, <3>2
  <2>2. CASE rows[i].id # -p
    <3> DEFINE K == {k \in DOMAIN rows : rows[k].id # -p}
    <3>1. rows \in Seq(AnyRow) /\ K \in SUBSET DOMAIN rows /\ i \in K /\ rows' = Keep(rows, K)
      BY <1>1, <1>6, <2>2 DEF Types, RolledBack
    <3> HIDE DEF K
    <3>2. QED
      BY <3>1, KeepIs
  <2>3. QED
    BY <2>1, <2>2
<1>7. ASSUME NEW p \in Posts, PostSteps(p)
      PROVE  \/ rows' = rows
             \/ CreateSettles(p) /\ rows' = Settled(p)
             \/ CreateFails(p) /\ rows' = RolledBack(p)
  BY <1>7 DEF PostSteps, ServeCreate, CreateSettles, CreateFails, screen
<1>8. ASSUME NEW l \in Loads, LoadSteps(l) PROVE rows' = rows
  BY <1>8 DEF LoadSteps, ServeLoad, LoadArrives, LoadFails
<1>9. ASSUME NEW id \in 1..MaxToasts, Dismiss(id) \/ TimerFires(id) PROVE rows' = rows
  BY <1>9 DEF Dismiss, TimerFires, screen
<1>10. ASSUME NEW title, Type(title) PROVE rows' = rows
  BY <1>10 DEF Type
<1>11. CASE SubmitRejected \/ OtherCreates \/ OtherRemoves \/ UNCHANGED vars
  BY <1>2, <1>11 DEF SubmitRejected, OtherCreates, OtherRemoves, screen, vars
<1>12. QED
  BY <1>2, <1>3, <1>4, <1>5, <1>6, <1>7, <1>8, <1>9, <1>10, <1>11 DEF Next

(* Between two loads what is on the screen stays there: a row goes only    *)
(* when its create failed and a toast says so, or when its server row      *)
(* takes over.                                                             *)
THEOREM NothingVanishesHolds == Spec => NothingVanishes
<1> DEFINE Stays ==
      ShowsRows /\ ShowsRows' =>
        \A row \in Range(ShownRows) :
          \/ row.id \in IdsOf(ShownRows')
          \/ row.pending /\ Len(toasts') > Len(toasts)
          \/ \E p \in Posts : row.id = -p /\ post[p].id \in IdsOf(ShownRows')
<1>0. ScreenInv => ShownIsAll
  BY AllShown DEF ScreenInv
<1>1. ScreenInv /\ ShownIsAll' /\ [Next]_vars => Stays
  <2> SUFFICES ASSUME ScreenInv, ShownIsAll', [Next]_vars, ShowsRows, ShowsRows',
                      NEW row \in Range(ShownRows)
               PROVE  \/ row.id \in IdsOf(ShownRows')
                      \/ row.pending /\ Len(toasts') > Len(toasts)
                      \/ \E p \in Posts : row.id = -p /\ post[p].id \in IdsOf(ShownRows')
    OBVIOUS
  <2>1. /\ \A i \in DOMAIN rows' : rows'[i].id \in IdsOf(ShownRows')
        /\ Range(list'.items) \subseteq IdsOf(ShownRows')
    BY DEF ShownIsAll
  <2>2. list' = list
    BY PageStays
  <2>3. CASE row.id \in Range(list.items)
    BY <2>1, <2>2, <2>3
  <2>4. ASSUME NEW i \in DOMAIN rows, row = rows[i]
        PROVE  \/ row.id \in IdsOf(ShownRows')
               \/ row.pending /\ Len(toasts') > Len(toasts)
               \/ \E p \in Posts : row.id = -p /\ post[p].id \in IdsOf(ShownRows')
    BY <2>1, <2>4, RowsStay
  <2>5. QED
    BY <2>3, <2>4, ShownHas DEF ScreenInv
<1>2. QED
  BY <1>0, <1>1, ScreenInvHolds, PTL DEF Spec, NothingVanishes

=============================================================================
