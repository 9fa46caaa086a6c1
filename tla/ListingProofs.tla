---------------------------- MODULE ListingProofs -----------------------------
(***************************************************************************)
(* Lemmas about Listing, and the least number principle the proofs of      *)
(* other modules use where they would use induction.                       *)
(***************************************************************************)
EXTENDS Listing, Sequences, FiniteSetTheorems, TLAPS

-----------------------------------------------------------------------------
(* A set of numbers that has a member has a least one.                     *)
LEMMA Least ==
  ASSUME NEW T \in SUBSET Nat, T # {}
  PROVE  \E x \in T : \A y \in T : x <= y
<1>1. \A x, y \in Nat : x < y => <<x, y>> \in OpToRel(<, Nat)
  BY DEF OpToRel
<1>2. PICK x \in T : \A y \in T : ~(<<y, x>> \in OpToRel(<, Nat))
  BY NatLessThanWellFounded, WFMin, Zenon
<1>3. \A y \in T : ~(y < x)
  BY <1>1, <1>2, Zenon
<1>4. QED
  BY <1>3

(* Induction, for a predicate given as the set of the numbers it holds of. *)
LEMMA Induct ==
  ASSUME NEW T, 0 \in T, \A n \in T \cap Nat : n + 1 \in T
  PROVE  Nat \subseteq T
<1> SUFFICES ASSUME Nat \ T # {} PROVE FALSE
  OBVIOUS
<1>1. PICK x \in Nat \ T : \A y \in Nat \ T : x <= y
  BY Least
<1>2. x # 0 /\ x - 1 \in Nat /\ x - 1 \in T
  BY <1>1
<1>3. (x - 1) + 1 \in T
  BY <1>2
<1>4. QED
  BY <1>1, <1>3

-----------------------------------------------------------------------------
(* An interval without members.                                            *)
LEMMA EmptyInterval ==
  ASSUME NEW a \in Int, NEW b \in Int, a..b = {}
  PROVE  a > b
<1>1. a <= b => a \in a..b
  OBVIOUS
<1>2. QED
  BY <1>1

(* A sequence of one.                                                      *)
LEMMA SingleIs ==
  ASSUME NEW X, NEW e \in X
  PROVE  <<e>> \in Seq(X)
OBVIOUS

(* Two sequences one after the other.                                      *)
LEMMA JoinIs ==
  ASSUME NEW X, NEW s \in Seq(X), NEW t \in Seq(X)
  PROVE  /\ s \o t \in Seq(X)
         /\ Len(s \o t) = Len(s) + Len(t) /\ Len(s) \in Nat /\ Len(t) \in Nat
         /\ DOMAIN s = 1..Len(s) /\ DOMAIN (s \o t) = 1..(Len(s) + Len(t))
         /\ \A j \in DOMAIN s : j \in DOMAIN (s \o t) /\ (s \o t)[j] = s[j]
         /\ \A j \in DOMAIN (s \o t) :
              j \notin DOMAIN s => j - Len(s) \in DOMAIN t /\ (s \o t)[j] = t[j - Len(s)]
         /\ \A j \in DOMAIN t :
              Len(s) + j \in DOMAIN (s \o t) /\ (s \o t)[Len(s) + j] = t[j]
<1>1. /\ s \o t \in Seq(X) /\ Len(s \o t) = Len(s) + Len(t) /\ Len(s) \in Nat /\ Len(t) \in Nat
      /\ DOMAIN s = 1..Len(s) /\ DOMAIN t = 1..Len(t) /\ DOMAIN (s \o t) = 1..(Len(s) + Len(t))
  OBVIOUS
<1>2. \A j \in 1..Len(s) : (s \o t)[j] = s[j] /\ j \in DOMAIN (s \o t)
  OBVIOUS
<1>3. \A j \in 1..(Len(s) + Len(t)) :
        j \notin 1..Len(s) => j - Len(s) \in 1..Len(t) /\ (s \o t)[j] = t[j - Len(s)]
  OBVIOUS
<1>4. \A j \in 1..Len(t) : Len(s) + j \in 1..(Len(s) + Len(t)) /\ (s \o t)[Len(s) + j] = t[j]
  OBVIOUS
<1>5. QED
  BY <1>1, <1>2, <1>3, <1>4, Zenon

-----------------------------------------------------------------------------
(* A member with more members below it is greater.                         *)
LEMMA BelowGrows ==
  ASSUME NEW S \in SUBSET Int, IsFiniteSet(S), NEW x \in S, NEW y \in S, x < y
  PROVE  Cardinality(Below(S, x)) < Cardinality(Below(S, y))
<1>1. IsFiniteSet(Below(S, x)) /\ IsFiniteSet(Below(S, y))
  BY FS_Subset DEF Below
<1>2. Below(S, x) \cup {x} \subseteq Below(S, y) /\ x \notin Below(S, x)
  <2>1. \A z \in S : z < x => z < y
    OBVIOUS
  <2>2. ~(x < x)
    OBVIOUS
  <2>3. QED
    BY <2>1, <2>2, Zenon DEF Below
<1>3. Cardinality(Below(S, x) \cup {x}) = Cardinality(Below(S, x)) + 1
  BY <1>1, <1>2, FS_AddElement
<1>4. Cardinality(Below(S, x) \cup {x}) <= Cardinality(Below(S, y))
  BY <1>1, <1>2, FS_Subset
<1>5. Cardinality(Below(S, x)) \in Nat /\ Cardinality(Below(S, y)) \in Nat
  BY <1>1, FS_CardinalityType
<1>6. QED
  BY <1>3, <1>4, <1>5

(* Every number of members below is that of a member.                      *)
LEMMA BelowIsOnto ==
  ASSUME NEW S \in SUBSET Int, IsFiniteSet(S)
  PROVE  /\ \A x \in S : Cardinality(Below(S, x)) \in 0..(Cardinality(S) - 1)
         /\ \A j \in 1..Cardinality(S) : \E x \in S : Cardinality(Below(S, x)) = j - 1
<1> DEFINE rank == [x \in S |-> Cardinality(Below(S, x))]
           T    == 0..(Cardinality(S) - 1)
<1>0. Cardinality(S) \in Nat
  BY FS_CardinalityType
<1>1. ASSUME NEW x \in S PROVE Cardinality(Below(S, x)) \in T
  <2>1. IsFiniteSet(Below(S, x)) /\ Below(S, x) \cup {x} \subseteq S /\ x \notin Below(S, x)
    BY FS_Subset DEF Below
  <2>2. Cardinality(Below(S, x) \cup {x}) = Cardinality(Below(S, x)) + 1
    BY <2>1, FS_AddElement
  <2>3. Cardinality(Below(S, x) \cup {x}) <= Cardinality(S)
    BY <2>1, FS_Subset
  <2>4. Cardinality(Below(S, x)) \in Nat
    BY <2>1, FS_CardinalityType
  <2>5. QED
    BY <1>0, <2>2, <2>3, <2>4
<1>2. rank \in [S -> T]
  BY <1>1
<1>3. \A x, y \in S : rank[x] = rank[y] => x = y
  <2>1. \A x, y \in S : x < y => rank[x] < rank[y]
    BY BelowGrows
  <2>2. \A x \in S : rank[x] \in Int
    BY <1>2, <1>0
  <2> HIDE DEF rank
  <2>3. QED
    BY <2>1, <2>2
<1>4. rank \in Injection(S, T)
  BY <1>2, <1>3 DEF Injection, IsInjective
<1>5. IsFiniteSet(T) /\ Cardinality(T) = Cardinality(S)
  BY <1>0, FS_Interval
<1>6. rank \in Surjection(S, T)
  BY <1>4, <1>5, FS_Injection
<1>7. \A t \in T : \E x \in S : rank[x] = t
  BY <1>6 DEF Surjection
<1>8. \A j \in 1..Cardinality(S) : j - 1 \in T
  BY <1>0
<1>9. QED
  BY <1>1, <1>7, <1>8

(* Ascending(S) is a sequence of the members of S, each of them once and   *)
(* in their order.                                                         *)
LEMMA AscendingIs ==
  ASSUME NEW S \in SUBSET Int, IsFiniteSet(S)
  PROVE  /\ Cardinality(S) \in Nat
         /\ Ascending(S) \in [1..Cardinality(S) -> S]
         /\ \A i, j \in 1..Cardinality(S) : i < j => Ascending(S)[i] < Ascending(S)[j]
         /\ \A x \in S : \E j \in 1..Cardinality(S) : Ascending(S)[j] = x
<1> DEFINE o == Ascending(S)
<1>0. Cardinality(S) \in Nat
  BY FS_CardinalityType
<1>1. ASSUME NEW j \in 1..Cardinality(S)
      PROVE  o[j] \in S /\ Cardinality(Below(S, o[j])) = j - 1
  <2>1. \E x \in S : Cardinality(Below(S, x)) = j - 1
    BY BelowIsOnto
  <2>2. o[j] = CHOOSE x \in S : Cardinality(Below(S, x)) = j - 1
    BY DEF Ascending
  <2>3. QED
    BY <2>1, <2>2
<1>2. o \in [1..Cardinality(S) -> S]
  BY <1>1 DEF Ascending
<1>3. ASSUME NEW x \in S, NEW y \in S, Cardinality(Below(S, x)) < Cardinality(Below(S, y))
      PROVE  x < y
  <2>1. y < x => Cardinality(Below(S, y)) < Cardinality(Below(S, x))
    BY BelowGrows
  <2>2. Cardinality(Below(S, x)) \in Int /\ Cardinality(Below(S, y)) \in Int
    BY BelowIsOnto, <1>0
  <2>3. QED
    BY <1>3, <2>1, <2>2
<1>4. \A i, j \in 1..Cardinality(S) : i < j => o[i] < o[j]
  <2> SUFFICES ASSUME NEW i \in 1..Cardinality(S), NEW j \in 1..Cardinality(S), i < j
               PROVE  o[i] < o[j]
    OBVIOUS
  <2>1. /\ o[i] \in S /\ Cardinality(Below(S, o[i])) = i - 1
        /\ o[j] \in S /\ Cardinality(Below(S, o[j])) = j - 1
    BY <1>1
  <2> HIDE DEF o
  <2>2. Cardinality(Below(S, o[i])) < Cardinality(Below(S, o[j]))
    BY <2>1, <1>0
  <2>3. QED
    BY <2>1, <2>2, <1>3
<1>5. ASSUME NEW x \in S PROVE \E j \in 1..Cardinality(S) : o[j] = x
  <2>1. PICK i \in 1..Cardinality(S) : i - 1 = Cardinality(Below(S, x))
    <3>1. Cardinality(Below(S, x)) + 1 \in 1..Cardinality(S)
      BY BelowIsOnto, <1>0
    <3>2. Cardinality(Below(S, x)) \in Int
      BY BelowIsOnto, <1>0
    <3>3. QED
      BY <3>1, <3>2
  <2>2. o[i] \in S /\ Cardinality(Below(S, o[i])) = i - 1 /\ i - 1 \in Int
    BY <1>1
  <2> HIDE DEF o
  <2>3. \A y \in S : y < x \/ x < y => Cardinality(Below(S, y)) # i - 1
    <3> SUFFICES ASSUME NEW y \in S, y < x \/ x < y PROVE Cardinality(Below(S, y)) # i - 1
      OBVIOUS
    <3>1. \/ Cardinality(Below(S, y)) < Cardinality(Below(S, x))
          \/ Cardinality(Below(S, x)) < Cardinality(Below(S, y))
      BY BelowGrows
    <3>2. Cardinality(Below(S, y)) \in Int
      BY BelowIsOnto, <1>0
    <3>3. QED
      BY <3>1, <3>2, <2>1
  <2>4. ~(o[i] < x) /\ ~(x < o[i])
    BY <2>2, <2>3, Zenon
  <2>5. o[i] = x
    <3>1. o[i] \in Int /\ x \in Int
      BY <2>2
    <3>2. QED
      BY <2>4, <3>1
  <2>6. QED
    BY <2>5
<1>6. QED
  BY <1>0, <1>2, <1>4, <1>5

(* Descending(S) likewise, the other way round.                            *)
LEMMA DescendingIs ==
  ASSUME NEW S \in SUBSET Int, IsFiniteSet(S)
  PROVE  /\ Cardinality(S) \in Nat
         /\ Descending(S) \in [1..Cardinality(S) -> S]
         /\ \A i, j \in 1..Cardinality(S) : i < j => Descending(S)[i] > Descending(S)[j]
         /\ \A x \in S : \E j \in 1..Cardinality(S) : Descending(S)[j] = x
<1> DEFINE n == Cardinality(S)
<1>1. /\ n \in Nat /\ Ascending(S) \in [1..n -> S]
      /\ \A i, j \in 1..n : i < j => Ascending(S)[i] < Ascending(S)[j]
      /\ \A x \in S : \E j \in 1..n : Ascending(S)[j] = x
  BY AscendingIs
<1>2. Descending(S) = [j \in 1..n |-> Ascending(S)[n + 1 - j]]
  BY DEF Descending
<1> HIDE DEF n
<1>3. \A j \in 1..n : n + 1 - j \in 1..n /\ n + 1 - (n + 1 - j) = j
  BY <1>1
<1>4. Descending(S) \in [1..n -> S]
  BY <1>1, <1>2, <1>3
<1>5. \A i, j \in 1..n : i < j => Descending(S)[i] > Descending(S)[j]
  <2> SUFFICES ASSUME NEW i \in 1..n, NEW j \in 1..n, i < j
               PROVE  Descending(S)[i] > Descending(S)[j]
    OBVIOUS
  <2>1. Ascending(S)[n + 1 - j] < Ascending(S)[n + 1 - i]
    BY <1>1, <1>3
  <2>2. QED
    BY <2>1, <1>1, <1>2, <1>3
<1>6. \A x \in S : \E j \in 1..n : Descending(S)[j] = x
  BY <1>1, <1>2, <1>3
<1>7. QED
  BY <1>1, <1>4, <1>5, <1>6 DEF n

(* The members of an interval are its numbers one after the other.         *)
LEMMA AscendingInterval ==
  ASSUME NEW a \in Int, NEW b \in Int, NEW j \in 1..Cardinality(a..b)
  PROVE  Ascending(a..b)[j] = a + j - 1
<1>1. IsFiniteSet(a..b)
  BY FS_Interval
<1>2. PICK x \in a..b : Ascending(a..b)[j] = x /\ Cardinality(Below(a..b, x)) = j - 1
  BY <1>1, BelowIsOnto DEF Ascending
<1>3. Below(a..b, x) = a..(x - 1)
  BY DEF Below
<1>4. Cardinality(a..(x - 1)) = x - a
  <2>1. x \in Int /\ x - 1 \in Int /\ a <= x
    OBVIOUS
  <2>2. Cardinality(a..(x - 1)) = IF a > x - 1 THEN 0 ELSE (x - 1) - a + 1
    BY <2>1, FS_Interval, Zenon
  <2>3. QED
    BY <2>1, <2>2
<1>5. j \in Int
  BY <1>1, FS_CardinalityType
<1>6. QED
  BY <1>2, <1>3, <1>4, <1>5

-----------------------------------------------------------------------------
(* What is kept of a sequence is a sequence of its members at the places   *)
(* asked for, each place once and in the order of the whole.               *)
LEMMA KeepIs ==
  ASSUME NEW X, NEW s \in Seq(X), NEW K \in SUBSET DOMAIN s
  PROVE  /\ Keep(s, K) \in Seq(X)
         /\ Len(Keep(s, K)) = Cardinality(K) /\ Cardinality(K) \in Nat
         /\ DOMAIN Keep(s, K) = 1..Cardinality(K)
         /\ \A j \in 1..Cardinality(K) :
              Ascending(K)[j] \in K /\ Keep(s, K)[j] = s[Ascending(K)[j]]
         /\ \A i, j \in 1..Cardinality(K) : i < j => Ascending(K)[i] < Ascending(K)[j]
         /\ \A k \in K : \E j \in 1..Cardinality(K) : Keep(s, K)[j] = s[k]
<1>1. IsFiniteSet(K) /\ K \in SUBSET Int
  <2>1. DOMAIN s = 1..Len(s) /\ Len(s) \in Nat
    OBVIOUS
  <2>2. IsFiniteSet(DOMAIN s)
    BY <2>1, FS_Interval
  <2>3. QED
    BY <2>1, <2>2, FS_Subset
<1>2. /\ Cardinality(K) \in Nat /\ Ascending(K) \in [1..Cardinality(K) -> K]
      /\ \A i, j \in 1..Cardinality(K) : i < j => Ascending(K)[i] < Ascending(K)[j]
      /\ \A x \in K : \E j \in 1..Cardinality(K) : Ascending(K)[j] = x
  BY <1>1, AscendingIs
<1>3. \A j \in 1..Cardinality(K) :
        Ascending(K)[j] \in K /\ Keep(s, K)[j] = s[Ascending(K)[j]] /\ Keep(s, K)[j] \in X
  BY <1>2 DEF Keep
<1>4. Keep(s, K) \in [1..Cardinality(K) -> X] /\ DOMAIN Keep(s, K) = 1..Cardinality(K)
  BY <1>3 DEF Keep
<1>5. Keep(s, K) \in Seq(X) /\ Len(Keep(s, K)) = Cardinality(K)
  BY <1>2, <1>4
<1>6. \A k \in K : \E j \in 1..Cardinality(K) : Keep(s, K)[j] = s[k]
  BY <1>2, <1>3
<1>7. QED
  BY <1>2, <1>3, <1>4, <1>5, <1>6

(* A function of finitely many arguments has finitely many values.         *)
LEMMA ValuesFinite ==
  ASSUME NEW f, IsFiniteSet(DOMAIN f)
  PROVE  IsFiniteSet({f[x] : x \in DOMAIN f})
<1> DEFINE S == DOMAIN f
           T == {f[x] : x \in S}
           g == [x \in S |-> f[x]]
<1>1. g \in Surjection(S, T)
  BY DEF Surjection
<1> HIDE DEF g, S, T
<1>2. IsFiniteSet(S)
  BY DEF S
<1>3. IsFiniteSet(T)
  BY <1>1, <1>2, FS_Surjection, Zenon
<1>4. QED
  BY <1>3 DEF S, T

(* Of three samples two of which are b, the median is b.                   *)
LEMMA MedianIs ==
  ASSUME NEW b \in Int, NEW s \in [1..3 -> Int], NEW x \in 1..3,
         \A k \in 1..3 : k # x => s[k] = b
  PROVE  Median(s) = b
<1> DEFINE Lower(m)  == {k \in 1..3 : s[k] < m}
           Higher(m) == {k \in 1..3 : s[k] > m}
           Is(m)    == Cardinality(Lower(m)) <= 1 /\ Cardinality(Higher(m)) <= 1
<1>0. IsFiniteSet(1..3) /\ Cardinality(1..3) \div 2 = 1
  <2>1. 1 \in Int /\ 3 \in Int
    OBVIOUS
  <2>2. IsFiniteSet(1..3) /\ Cardinality(1..3) = IF 1 > 3 THEN 0 ELSE 3 - 1 + 1
    BY <2>1, FS_Interval, Zenon
  <2>3. QED
    BY <2>2
<1>1. PICK y \in 1..3, z \in 1..3 : y # x /\ z # x /\ y # z
  <2>1. x = 1 \/ x = 2 \/ x = 3
    OBVIOUS
  <2>2. QED
    BY <2>1
<1>2. s[y] = b /\ s[z] = b
  BY <1>1
<1>3. ASSUME NEW T \in SUBSET {x} PROVE Cardinality(T) <= 1
  <2>1. IsFiniteSet({x}) /\ Cardinality({x}) = 1
    BY FS_Singleton
  <2>2. QED
    BY <2>1, FS_Subset
<1>4. ASSUME NEW T \in SUBSET (1..3), y \in T, z \in T PROVE ~(Cardinality(T) <= 1)
  <2>1. IsFiniteSet(T)
    BY <1>0, FS_Subset
  <2>2. IsFiniteSet({y}) /\ Cardinality({y}) = 1 /\ z \notin {y}
    BY <1>1, FS_Singleton
  <2>3. IsFiniteSet({y} \cup {z}) /\ Cardinality({y} \cup {z}) = 2
    <3>1. IsFiniteSet({y} \cup {z}) /\ Cardinality({y} \cup {z}) = Cardinality({y}) + 1
      BY <2>2, FS_AddElement, Zenon
    <3>2. QED
      BY <2>2, <3>1
  <2>4. {y} \cup {z} \subseteq T
    BY <1>4
  <2>5. Cardinality({y} \cup {z}) <= Cardinality(T) /\ Cardinality(T) \in Nat
    BY <2>1, <2>4, FS_Subset, FS_CardinalityType
  <2>6. QED
    BY <2>3, <2>5
<1>5. Lower(b) \subseteq {x} /\ Higher(b) \subseteq {x}
  <2>1. ~(b < b) /\ ~(b > b)
    OBVIOUS
  <2>2. QED
    BY <2>1
<1>6. Is(b)
  BY <1>3, <1>5
<1>7. b \in {s[k] : k \in 1..3}
  BY <1>1, <1>2
<1>8. ASSUME NEW m \in {s[k] : k \in 1..3}, Is(m) PROVE m = b
  <2>1. m \in Int
    OBVIOUS
  <2>2. CASE b < m
    <3>1. y \in Lower(m) /\ z \in Lower(m)
      BY <1>1, <1>2, <2>2
    <3>2. QED
      BY <1>4, <1>8, <3>1
  <2>3. CASE b > m
    <3>1. y \in Higher(m) /\ z \in Higher(m)
      BY <1>1, <1>2, <2>3
    <3>2. QED
      BY <1>4, <1>8, <3>1
  <2>4. QED
    BY <2>1, <2>2, <2>3
<1>9. Median(s) = CHOOSE m \in {s[k] : k \in 1..3} : Is(m)
  <2>1. DOMAIN s = 1..3
    OBVIOUS
  <2>2. QED
    BY <1>0, <2>1, Zenon DEF Median
<1> HIDE DEF Is
<1>10. QED
  BY <1>6, <1>7, <1>8, <1>9, Zenon

-----------------------------------------------------------------------------
(***************************************************************************)
(* Sets with one member more, and parts of sequences.                      *)
(***************************************************************************)
(* A member with j - 1 members below it is the one in the place j.         *)
LEMMA AscendingAt ==
  ASSUME NEW S \in SUBSET Int, IsFiniteSet(S), NEW x \in S, NEW j \in 1..Cardinality(S),
         Cardinality(Below(S, x)) = j - 1
  PROVE  Ascending(S)[j] = x
<1>1. PICK y \in S : Ascending(S)[j] = y /\ Cardinality(Below(S, y)) = j - 1
  BY BelowIsOnto DEF Ascending
<1>2. x < y => Cardinality(Below(S, x)) < Cardinality(Below(S, y))
  BY BelowGrows
<1>3. y < x => Cardinality(Below(S, y)) < Cardinality(Below(S, x))
  BY BelowGrows
<1>4. Cardinality(S) \in Nat /\ j - 1 \in Int
  BY FS_CardinalityType
<1>5. QED
  BY <1>1, <1>2, <1>3, <1>4

(* A new greatest member comes last, and the others stay where they are.   *)
LEMMA AscendingAppend ==
  ASSUME NEW S \in SUBSET Int, IsFiniteSet(S), NEW x \in Int, \A y \in S : y < x
  PROVE  /\ IsFiniteSet(S \cup {x}) /\ Cardinality(S) \in Nat
         /\ Cardinality(S \cup {x}) = Cardinality(S) + 1
         /\ Ascending(S \cup {x})[Cardinality(S) + 1] = x
         /\ \A j \in 1..Cardinality(S) :
              Ascending(S)[j] \in S /\ Ascending(S \cup {x})[j] = Ascending(S)[j]
<1> DEFINE U == S \cup {x}
           n == Cardinality(S)
<1>1. x \notin S
  <2>1. ~(x < x)
    OBVIOUS
  <2>2. QED
    BY <2>1
<1>2. IsFiniteSet(U) /\ Cardinality(U) = n + 1 /\ n \in Nat /\ U \in SUBSET Int
  BY <1>1, FS_AddElement, FS_CardinalityType
<1>3. Below(U, x) = S
  <2>1. \A y \in U : y < x <=> y \in S
    BY <1>1
  <2>2. QED
    BY <2>1 DEF Below
<1>4. \A y \in S : Below(U, y) = Below(S, y)
  <2> SUFFICES ASSUME NEW y \in S PROVE Below(U, y) = Below(S, y)
    OBVIOUS
  <2>1. ~(x < y)
    OBVIOUS
  <2>2. QED
    BY <2>1 DEF Below
<1>5. \A j \in 1..n : j \in 1..Cardinality(U)
  BY <1>2
<1>6. n + 1 \in 1..Cardinality(U) /\ (n + 1) - 1 = n
  BY <1>2
<1>7. Ascending(U)[n + 1] = x
  <2>1. x \in U /\ Cardinality(Below(U, x)) = (n + 1) - 1
    BY <1>3, <1>6
  <2> HIDE DEF U, n
  <2>2. QED
    BY <1>2, <1>6, <2>1, AscendingAt
<1>8. ASSUME NEW j \in 1..n
      PROVE  Ascending(S)[j] \in S /\ Ascending(U)[j] = Ascending(S)[j]
  <2>1. PICK y \in S : Ascending(S)[j] = y /\ Cardinality(Below(S, y)) = j - 1
    BY BelowIsOnto DEF Ascending
  <2>2. y \in U /\ Cardinality(Below(U, y)) = j - 1 /\ j \in 1..Cardinality(U)
    BY <1>4, <1>5, <2>1
  <2> HIDE DEF U
  <2>3. Ascending(U)[j] = y
    BY <1>2, <2>2, AscendingAt
  <2>4. QED
    BY <2>1, <2>3
<1>9. QED
  BY <1>2, <1>7, <1>8

(* What is kept of two sequences that agree at the places asked for.       *)
LEMMA KeepAgrees ==
  ASSUME NEW s, NEW t, NEW K \in SUBSET Int, IsFiniteSet(K), \A k \in K : s[k] = t[k]
  PROVE  Keep(s, K) = Keep(t, K)
<1>1. \A j \in 1..Cardinality(K) : Ascending(K)[j] \in K
  BY AscendingIs
<1>2. QED
  BY <1>1 DEF Keep

(* What is kept of an interval is that part of the sequence.               *)
LEMMA KeepInterval ==
  ASSUME NEW X, NEW s \in Seq(X), NEW a \in 1..(Len(s) + 1), NEW b \in 0..Len(s), a <= b + 1
  PROVE  Keep(s, a..b) = SubSeq(s, a, b)
<1>1. Len(s) \in Nat /\ a \in Int /\ b \in Int
  OBVIOUS
<1>2. Cardinality(a..b) = b - a + 1
  <2>1. Cardinality(a..b) = IF a > b THEN 0 ELSE b - a + 1
    BY <1>1, FS_Interval, Zenon
  <2>2. QED
    BY <1>1, <2>1
<1>3. \A j \in 1..(b - a + 1) : Ascending(a..b)[j] = a + j - 1
  BY <1>1, <1>2, AscendingInterval
<1>4. Keep(s, a..b) = [j \in 1..(b - a + 1) |-> s[a + j - 1]]
  BY <1>2, <1>3 DEF Keep
<1>5. SubSeq(s, a, b) = [j \in 1..(b - a + 1) |-> s[a + j - 1]]
  BY <1>1
<1>6. QED
  BY <1>4, <1>5

(* A sequence given by its members, and one member more.                   *)
LEMMA AppendIs ==
  ASSUME NEW X, NEW c \in Nat, NEW s \in [1..c -> X], NEW t \in [1..(c + 1) -> X],
         \A j \in 1..c : t[j] = s[j]
  PROVE  t = Append(s, t[c + 1])
<1>1. s \in Seq(X) /\ Len(s) = c
  OBVIOUS
<1>2. c + 1 \in 1..(c + 1) /\ \A j \in 1..(c + 1) : j # c + 1 => j \in 1..c
  OBVIOUS
<1>3. Append(s, t[c + 1]) = [j \in 1..(c + 1) |-> IF j = c + 1 THEN t[c + 1] ELSE s[j]]
  BY <1>1, <1>2
<1>4. \A j \in 1..(c + 1) : t[j] = IF j = c + 1 THEN t[c + 1] ELSE s[j]
  BY <1>2
<1>5. t = [j \in 1..(c + 1) |-> t[j]]
  OBVIOUS
<1>6. QED
  BY <1>3, <1>4, <1>5

(* A part of a part of a sequence.                                         *)
LEMMA PartOfPart ==
  ASSUME NEW X, NEW t \in Seq(X), NEW s \in 1..(Len(t) + 1),
         NEW a \in 1..(Len(t) - s + 2), NEW b \in (a - 1)..(Len(t) - s + 1)
  PROVE  SubSeq(SubSeq(t, s, Len(t)), a, b) = SubSeq(t, s + a - 1, s + b - 1)
<1> DEFINE u == SubSeq(t, s, Len(t))
<1>1. /\ Len(t) \in Nat /\ s \in Int /\ a \in Int /\ b \in Int /\ a >= 1
      /\ a - 1 <= b /\ b <= Len(t) - s + 1 /\ s >= 1 /\ s <= Len(t) + 1
  OBVIOUS
<1>2. u \in Seq(X) /\ Len(u) = Len(t) - s + 1 /\ \A i \in 1..Len(u) : u[i] = t[s + i - 1]
  BY <1>1
<1> HIDE DEF u
<1>3. SubSeq(u, a, b) = [i \in 1..(b - a + 1) |-> u[a + i - 1]]
  BY <1>1, <1>2
<1>4. SubSeq(t, s + a - 1, s + b - 1) = [i \in 1..(b - a + 1) |-> t[s + a - 1 + i - 1]]
  <2>1. (s + b - 1) - (s + a - 1) + 1 = b - a + 1
    BY <1>1
  <2>2. QED
    BY <1>1, <2>1
<1>5. \A i \in 1..(b - a + 1) : u[a + i - 1] = t[s + a - 1 + i - 1]
  <2> SUFFICES ASSUME NEW i \in 1..(b - a + 1) PROVE u[a + i - 1] = t[s + a - 1 + i - 1]
    OBVIOUS
  <2>1. a + i - 1 \in 1..Len(u) /\ s + (a + i - 1) - 1 = s + a - 1 + i - 1
    BY <1>1, <1>2
  <2>2. QED
    BY <1>2, <2>1
<1>6. QED
  BY <1>3, <1>4, <1>5 DEF u

(* Two sequences that agree everywhere.                                    *)
LEMMA SameSeq ==
  ASSUME NEW X, NEW s \in Seq(X), NEW t \in Seq(X), Len(s) = Len(t),
         \A i \in 1..Len(s) : s[i] = t[i]
  PROVE  s = t
OBVIOUS

(* The members of two sequences one after the other.                       *)
LEMMA JoinAt ==
  ASSUME NEW X, NEW s \in Seq(X), NEW t \in Seq(X)
  PROVE  /\ s \o t \in Seq(X) /\ Len(s \o t) = Len(s) + Len(t)
         /\ \A i \in 1..(Len(s) + Len(t)) :
              (s \o t)[i] = IF i <= Len(s) THEN s[i] ELSE t[i - Len(s)]
OBVIOUS

(* The end of two sequences one after the other.                           *)
LEMMA PartOfJoin ==
  ASSUME NEW X, NEW t \in Seq(X), NEW c \in Seq(X), NEW s \in 1..(Len(t) + 1)
  PROVE  SubSeq(t \o c, s, Len(t \o c)) = SubSeq(t, s, Len(t)) \o c
<1> DEFINE j == t \o c
           u == SubSeq(t, s, Len(t))
           n == Len(t)
           k == Len(c)
           A == SubSeq(j, s, Len(j))
           B == u \o c
<1>1. n \in Nat /\ k \in Nat /\ s \in Int /\ s >= 1 /\ s <= n + 1
  OBVIOUS
<1>2. /\ j \in Seq(X) /\ Len(j) = n + k
      /\ \A i \in 1..(n + k) : j[i] = IF i <= n THEN t[i] ELSE c[i - n]
  OBVIOUS
<1>3. u \in Seq(X) /\ Len(u) = n - s + 1 /\ \A i \in 1..(n - s + 1) : u[i] = t[s + i - 1]
  BY <1>1
<1>4. /\ A \in Seq(X) /\ Len(A) = n + k - s + 1
      /\ \A i \in 1..(n + k - s + 1) : A[i] = j[s + i - 1]
  <2> HIDE DEF j, n, k
  <2>1. QED
    BY <1>1, <1>2
<1>5. /\ B \in Seq(X) /\ Len(B) = (n - s + 1) + k
      /\ \A i \in 1..((n - s + 1) + k) :
           B[i] = IF i <= n - s + 1 THEN u[i] ELSE c[i - (n - s + 1)]
  <2> HIDE DEF u
  <2>1. u \in Seq(X) /\ c \in Seq(X) /\ Len(u) = n - s + 1 /\ Len(c) = k
    BY <1>3
  <2> HIDE DEF n, k
  <2>2. /\ B \in Seq(X) /\ Len(B) = Len(u) + Len(c)
        /\ \A i \in 1..(Len(u) + Len(c)) : B[i] = IF i <= Len(u) THEN u[i] ELSE c[i - Len(u)]
    BY <2>1, JoinAt
  <2> HIDE DEF B
  <2>3. QED
    BY <2>1, <2>2
<1> HIDE DEF j, u, n, k, A, B
<1>6. \A i \in 1..Len(A) : A[i] = B[i]
  <2> SUFFICES ASSUME NEW i \in 1..Len(A) PROVE A[i] = B[i]
    OBVIOUS
  <2>1. i \in 1..(n + k - s + 1) /\ i \in 1..((n - s + 1) + k)
    BY <1>1, <1>4
  <2>2. s + i - 1 \in 1..(n + k) /\ (s + i - 1 <= n <=> i <= n - s + 1)
    BY <1>1, <2>1
  <2>3. (s + i - 1) - n = i - (n - s + 1) /\ (i <= n - s + 1 => i \in 1..(n - s + 1))
    BY <1>1, <2>1
  <2>4. QED
    BY <1>2, <1>3, <1>4, <1>5, <2>1, <2>2, <2>3
<1>7. Len(A) = Len(B)
  BY <1>1, <1>4, <1>5
<1>8. A = B
  BY <1>4, <1>5, <1>6, <1>7, SameSeq
<1>9. QED
  BY <1>8 DEF A, B, j, u, n

=============================================================================
