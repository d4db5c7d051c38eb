------------------------ MODULE UserListing_proofs -------------------------
(***************************************************************************)
(* Proofs about UserListing, for any users with any stamps, any requests   *)
(* for pages and any bound on their size.                                  *)
(***************************************************************************)
EXTENDS UserListing, FiniteSetTheorems, SequenceTheorems, TLAPS

(* The users of a set who are listed before u: of the table, all whom a    *)
(* page with u on it may have to skip; of the table, those who were there  *)
(* when the walk began, and those who came since.                          *)
Ahead(S, u) == {v \in S : Precedes(v, u)}

Rank(u) == Cardinality(Ahead(Rows, u))
Old(u) == Cardinality(Ahead(present, u))
New(u) == Cardinality(Ahead(Rows \ present, u))

Shown(u) == Contains(page.items, u)

(* The page has its items.                                                 *)
Fetched == pc = "answered" \/ (pc = "running" /\ todo = Tail(Statements))

Asked == pc \in {"asking", "running", "answered"}

(* What TypeOK leaves open of the page and of the request.                 *)
RequestInv ==
    /\ page \in [items : Seq(Users), total : Nat]
    /\ pc = "idle" => ~walking /\ \A u \in Users : seen[u] = 0
    /\ pc = "running" => todo \in {Statements, Tail(Statements)}
    /\ pc \in {"running", "answered"} => offset >= 0 /\ limit \in 1..MaxPageSize
    /\ Fetched => Len(page.items) <= limit

(* Who has not been shown is not behind the client; if he is not on its    *)
(* page either he is past the page, and there is a next one.               *)
MissInv(u) ==
    walking /\ u \in present /\ seen[u] = 0 =>
        /\ pc # "over"
        /\ Asked => offset <= Rank(u)
        /\ Fetched /\ ~Shown(u) => offset + limit <= Rank(u)
        /\ pc = "answered" /\ ~Shown(u) => HasNext

(* The client goes past u each time it is shown him, and he can come up    *)
(* again only as newcomers push him on.                                    *)
RepeatInv(u) ==
    /\ seen[u] <= 1 + New(u)
    /\ seen[u] > 0 /\ Asked => Old(u) + seen[u] <= offset
    /\ Fetched /\ Shown(u) => /\ seen[u] <= New(u)
                              /\ Old(u) + seen[u] < offset + Len(page.items)

(* While nobody registers, the client is within the list.                  *)
PageInv ==
    Rows = present =>
        /\ Asked /\ walking /\ offset > 0 => offset < Cardinality(present)
        /\ Fetched => Len(page.items) = limit
                        \/ Cardinality(present) <= offset + Len(page.items)
        /\ pc = "answered" => page.total = Cardinality(present)

IInv == /\ TypeOK
        /\ RequestInv
        /\ \A u \in Users : MissInv(u) /\ RepeatInv(u)
        /\ PageInv
-----------------------------------------------------------------------------
(* ORDER BY registered_at DESC, id is a strict total order.                *)
LEMMA TotalOrder ==
    ASSUME NEW u \in Users, NEW v \in Users, u # v
    PROVE  Precedes(u, v) <=> ~Precedes(v, u)
  BY UsersAssumption, StampAssumption DEF Precedes

LEMMA Irreflexive ==
    ASSUME NEW u \in Users
    PROVE  ~Precedes(u, u)
  BY UsersAssumption, StampAssumption DEF Precedes

LEMMA AheadFinite ==
    ASSUME NEW S \in SUBSET Users, NEW u \in Users
    PROVE  /\ IsFiniteSet(S) /\ Cardinality(S) \in Nat
           /\ IsFiniteSet(Ahead(S, u)) /\ Cardinality(Ahead(S, u)) \in Nat
           /\ Cardinality(Ahead(S, u)) <= Cardinality(S)
           /\ u \in S => Cardinality(Ahead(S, u)) < Cardinality(S)
  <1>1. IsFiniteSet(S) /\ Cardinality(S) \in Nat
    BY FS_Subset, FS_CardinalityType, UsersAssumption
  <1>2. Ahead(S, u) \in SUBSET S
    BY DEF Ahead
  <1>3. IsFiniteSet(Ahead(S, u)) /\ Cardinality(Ahead(S, u)) <= Cardinality(S)
    BY <1>1, <1>2, FS_Subset
  <1>4. Cardinality(Ahead(S, u)) \in Nat
    BY <1>3, FS_CardinalityType
  <1>5. ASSUME u \in S PROVE Cardinality(Ahead(S, u)) # Cardinality(S)
    <2>1. u \notin Ahead(S, u)
      BY Irreflexive DEF Ahead
    <2> QED BY <1>1, <1>2, <1>5, <2>1, FS_Subset
  <1> QED BY <1>1, <1>3, <1>4, <1>5

(* Who comes may be put before u, and nobody leaves.                       *)
LEMMA AheadGrows ==
    ASSUME NEW T \in SUBSET Users, NEW S \in SUBSET T, NEW u \in Users
    PROVE  Cardinality(Ahead(S, u)) <= Cardinality(Ahead(T, u))
  <1>1. Ahead(S, u) \in SUBSET Ahead(T, u)
    BY DEF Ahead
  <1> QED BY <1>1, AheadFinite, FS_Subset

LEMMA AheadSplits ==
    ASSUME NEW T \in SUBSET Users, NEW S \in SUBSET T, NEW u \in Users
    PROVE  Cardinality(Ahead(T, u)) = Cardinality(Ahead(S, u)) + Cardinality(Ahead(T \ S, u))
  <1> DEFINE A == Ahead(S, u)
  <1> DEFINE B == Ahead(T \ S, u)
  <1>1. /\ IsFiniteSet(A) /\ Cardinality(A) \in Nat
        /\ IsFiniteSet(B) /\ Cardinality(B) \in Nat
    BY AheadFinite
  <1>2. A \cap B = {} /\ A \cup B = Ahead(T, u)
    BY DEF Ahead
  <1>3. Cardinality(A \cup B) = Cardinality(A) + Cardinality(B) - Cardinality(A \cap B)
    BY <1>1, FS_Union
  <1>4. Cardinality(A \cap B) = 0
    BY <1>2, FS_EmptySet
  <1> HIDE DEF A, B
  <1>5. Cardinality(A \cup B) = Cardinality(A) + Cardinality(B)
    BY <1>1, <1>3, <1>4
  <1> QED BY <1>2, <1>5 DEF A, B

(* SetToSeqs gives the orders of a set in which everybody comes once.      *)
LEMMA Permutation ==
    ASSUME NEW S \in SUBSET Users, NEW s \in SetToSeqs(S)
    PROVE  /\ s \in Seq(S) /\ Len(s) = Cardinality(S) /\ Len(s) \in Nat
           /\ DOMAIN s = 1..Len(s)
           /\ \A i, j \in 1..Len(s) : s[i] = s[j] => i = j
           /\ \A u \in S : \E i \in 1..Len(s) : s[i] = u
  <1> DEFINE n == Cardinality(S)
  <1>1. IsFiniteSet(S) /\ n \in Nat
    BY FS_Subset, FS_CardinalityType, UsersAssumption
  <1>2. s \in [1..n -> S] /\ \A i, j \in 1..n : i # j => s[i] # s[j]
    BY DEF SetToSeqs
  <1> HIDE DEF n
  <1>3. s \in Injection(1..n, S)
    BY <1>2 DEF Injection, IsInjective
  <1>4. Cardinality(1..n) = n
    BY <1>1, FS_Interval
  <1>5. s \in Surjection(1..n, S)
    BY <1>1, <1>3, <1>4, FS_Injection DEF n
  <1>6. \A u \in S : \E i \in 1..n : s[i] = u
    BY <1>5 DEF Surjection
  <1>7. s \in Seq(S) /\ Len(s) = n
    BY <1>1, <1>2
  <1> QED BY <1>1, <1>2, <1>6, <1>7 DEF n

(* In an order that ORDER BY allows, everybody comes after just those who  *)
(* precede him.                                                            *)
LEMMA Place ==
    ASSUME NEW S \in SUBSET Users, NEW s \in SetToSeqs(S),
           \A i, j \in DOMAIN s : i < j => ~Precedes(s[j], s[i]),
           NEW k \in 1..Len(s)
    PROVE  Cardinality(Ahead(S, s[k])) = k - 1
  <1> DEFINE A == Ahead(S, s[k])
  <1> DEFINE f == [i \in 1..(k - 1) |-> s[i]]
  <1>1. /\ s \in Seq(S) /\ Len(s) \in Nat /\ DOMAIN s = 1..Len(s)
        /\ \A i, j \in 1..Len(s) : s[i] = s[j] => i = j
        /\ \A u \in S : \E i \in 1..Len(s) : s[i] = u
    BY Permutation
  <1>2. \A i \in 1..Len(s) : s[i] \in Users
    BY <1>1
  <1>3. \A i \in 1..Len(s) : i < k <=> Precedes(s[i], s[k])
    <2> SUFFICES ASSUME NEW i \in 1..Len(s) PROVE i < k <=> Precedes(s[i], s[k])
      OBVIOUS
    <2>1. CASE i < k
      <3>1. s[i] # s[k] /\ ~Precedes(s[k], s[i])
        BY <1>1, <2>1
      <3> QED BY <1>2, <2>1, <3>1, TotalOrder
    <2>2. CASE i = k
      BY <1>2, <2>2, Irreflexive
    <2>3. CASE k < i
      BY <1>1, <2>3
    <2> QED BY <1>1, <2>1, <2>2, <2>3
  <1>4. \A i \in 1..(k - 1) : i \in 1..Len(s) /\ i < k
    BY <1>1
  <1>5. f \in [1..(k - 1) -> A]
    BY <1>1, <1>3, <1>4 DEF Ahead
  <1>6. f \in Injection(1..(k - 1), A)
    BY <1>1, <1>4, <1>5 DEF Injection, IsInjective
  <1>7. \A u \in A : \E i \in 1..(k - 1) : f[i] = u
    <2> SUFFICES ASSUME NEW u \in A PROVE \E i \in 1..(k - 1) : f[i] = u
      OBVIOUS
    <2>1. PICK i \in 1..Len(s) : s[i] = u
      BY <1>1 DEF Ahead
    <2>2. i < k
      BY <1>3, <2>1 DEF Ahead
    <2> QED BY <1>1, <2>1, <2>2
  <1>8. f \in Surjection(1..(k - 1), A)
    BY <1>5, <1>7 DEF Surjection
  <1>9. IsFiniteSet(1..(k - 1)) /\ Cardinality(1..(k - 1)) = k - 1
    <2>1. 1 \in Int /\ k - 1 \in Int /\ k - 1 >= 0
      BY <1>1
    <2> QED BY <2>1, FS_Interval
  <1>10. Cardinality(A) = Cardinality(1..(k - 1))
    BY <1>6, <1>8, <1>9, FS_Surjection
  <1> QED BY <1>9, <1>10

LEMMA Least ==
    ASSUME NEW a \in Int, NEW b \in Int
    PROVE  /\ Min({a, b}) \in {a, b}
           /\ Min({a, b}) <= a /\ Min({a, b}) <= b
  <1>1. \E x \in {a, b} : \A y \in {a, b} : x <= y
    <2>1. CASE a <= b
      BY <2>1
    <2>2. CASE b <= a
      BY <2>2
    <2> QED BY <2>1, <2>2
  <1>2. Min({a, b}) \in {a, b} /\ \A y \in {a, b} : Min({a, b}) <= y
    BY <1>1 DEF Min
  <1> QED BY <1>2

(* An order of S, of length n, with everybody in his place.                *)
InOrder(S, s, n) ==
    /\ \A k \in 1..n : s[k] \in S /\ Cardinality(Ahead(S, s[k])) = k - 1
    /\ \A u \in S : \E k \in 1..n : s[k] = u

(* Its positions o + 1 to m.                                               *)
IsSlice(t, s, o, m) ==
    /\ Len(t) = IF o < m THEN m - o ELSE 0
    /\ \A i \in 1..Len(t) : t[i] = s[o + i]

(* What OFFSET o LIMIT l may return of a table S of n rows: those who come *)
(* after o others and before o + l, fewer than l only at the end.          *)
IsPage(t, S, n, o, l) ==
    /\ Len(t) \in 0..l
    /\ Len(t) = l \/ n <= o + Len(t)
    /\ \A u \in Users : Contains(t, u) =>
         /\ u \in S
         /\ o <= Cardinality(Ahead(S, u))
         /\ Cardinality(Ahead(S, u)) < o + Len(t)
    /\ \A u \in S : ~Contains(t, u) =>
         \/ Cardinality(Ahead(S, u)) < o
         \/ o + l <= Cardinality(Ahead(S, u))

LEMMA Window ==
    ASSUME NEW S \in SUBSET Users, NEW s, NEW n \in Nat, InOrder(S, s, n),
           NEW o \in Nat, NEW l \in Nat, l > 0,
           NEW m \in {o + l, n}, m <= o + l, m <= n,
           NEW t \in Seq(S), IsSlice(t, s, o, m)
    PROVE  IsPage(t, S, n, o, l)
  <1> USE DEF InOrder, IsSlice
  <1>1. Len(t) \in 0..l /\ (Len(t) = l \/ n <= o + Len(t))
    OBVIOUS
  <1>2. \A i \in 1..Len(t) : o + i \in 1..n
    OBVIOUS
  <1>3. ASSUME NEW u \in Users, Contains(t, u)
        PROVE  u \in S /\ o <= Cardinality(Ahead(S, u)) /\ Cardinality(Ahead(S, u)) < o + Len(t)
    <2>1. PICK i \in 1..Len(t) : t[i] = u
      BY <1>3 DEF Contains
    <2>2. o + i \in 1..n /\ s[o + i] = u
      BY <1>2, <2>1
    <2>3. u \in S /\ Cardinality(Ahead(S, u)) = o + i - 1
      BY <2>2
    <2>4. o <= o + i - 1 /\ o + i - 1 < o + Len(t)
      BY <1>1
    <2> QED BY <2>3, <2>4
  <1>4. ASSUME NEW u \in S, ~Contains(t, u), ~(Cardinality(Ahead(S, u)) < o)
        PROVE  o + l <= Cardinality(Ahead(S, u))
    <2>1. PICK k \in 1..n : s[k] = u
      OBVIOUS
    <2>2. Cardinality(Ahead(S, u)) = k - 1
      BY <2>1
    <2>3. o < k
      BY <1>4, <2>2
    <2>4. ASSUME k <= m PROVE FALSE
      <3>1. k - o \in 1..Len(t) /\ o + (k - o) = k
        BY <2>3, <2>4
      <3>2. t[k - o] = s[k]
        BY <3>1
      <3> QED BY <1>4, <2>1, <3>1, <3>2 DEF Contains
    <2> QED BY <2>2, <2>4
  <1> QED BY <1>1, <1>3, <1>4 DEF IsPage

LEMMA Places ==
    ASSUME NEW S \in SUBSET Users, NEW s \in SetToSeqs(S),
           \A i, j \in DOMAIN s : i < j => ~Precedes(s[j], s[i])
    PROVE  \A k \in 1..Len(s) : s[k] \in S /\ Cardinality(Ahead(S, s[k])) = k - 1
  <1>1. TAKE k \in 1..Len(s)
  <1>2. s[k] \in S
    BY Permutation
  <1>3. Cardinality(Ahead(S, s[k])) = k - 1
    BY Place
  <1> QED BY <1>2, <1>3

LEMMA Windowed ==
    ASSUME NEW S, NEW s \in Seq(S), NEW o \in Nat, NEW m \in Int, m <= Len(s)
    PROVE  SubSeq(s, o + 1, m) \in Seq(S) /\ IsSlice(SubSeq(s, o + 1, m), s, o, m)
  <1>1. o + 1 \in Int /\ \A i \in (o + 1)..m : s[i] \in S
    OBVIOUS
  <1>2. /\ SubSeq(s, o + 1, m) \in Seq(S)
        /\ Len(SubSeq(s, o + 1, m)) = IF o + 1 <= m THEN m - (o + 1) + 1 ELSE 0
        /\ \A i \in 1..(m - (o + 1) + 1) : SubSeq(s, o + 1, m)[i] = s[(o + 1) + i - 1]
    BY <1>1, SubSeqProperties
  <1> QED BY <1>2 DEF IsSlice

LEMMA Cut ==
    ASSUME NEW S \in SUBSET Users, NEW s \in SetToSeqs(S),
           \A i, j \in DOMAIN s : i < j => ~Precedes(s[j], s[i]),
           NEW o \in Nat, NEW l \in Nat, l > 0
    PROVE  LET t == SubSeq(s, o + 1, Min({o + l, Len(s)}))
           IN  t \in Seq(S) /\ IsPage(t, S, Cardinality(S), o, l)
  <1>1. s \in Seq(S) /\ Len(s) = Cardinality(S) /\ Len(s) \in Nat
    BY Permutation
  <1>2. InOrder(S, s, Len(s))
    BY Places, Permutation DEF InOrder
  <1>3. PICK n \in Nat : n = Len(s)
    BY <1>1
  <1>4. o + l \in Int /\ n \in Int
    OBVIOUS
  <1>5. /\ Min({o + l, n}) \in {o + l, n}
        /\ Min({o + l, n}) <= o + l /\ Min({o + l, n}) <= n
    BY <1>4, Least
  <1>6. PICK m \in {o + l, n} : m = Min({o + l, n}) /\ m <= o + l /\ m <= n
    BY <1>5
  <1>7. PICK t : t = SubSeq(s, o + 1, m)
    OBVIOUS
  <1>8. t \in Seq(S) /\ IsSlice(t, s, o, m)
    <2>1. m \in Int /\ m <= Len(s)
      BY <1>3, <1>4, <1>6
    <2> QED BY <1>1, <1>7, <2>1, Windowed
  <1>9. IsPage(t, S, n, o, l)
    BY <1>2, <1>3, <1>6, <1>8, Window
  <1>10. t = SubSeq(s, o + 1, Min({o + l, Len(s)})) /\ n = Cardinality(S)
    BY <1>1, <1>3, <1>6, <1>7
  <1> QED BY <1>8, <1>9, <1>10
-----------------------------------------------------------------------------
LEMMA Counts ==
    ASSUME TypeOK
    PROVE  /\ Rows \in SUBSET Users /\ present \in SUBSET Rows /\ IsFiniteSet(Rows)
           /\ Cardinality(Rows) \in Nat
           /\ \A u \in Users :
                /\ Rank(u) \in Nat /\ Old(u) \in Nat /\ New(u) \in Nat
                /\ Rank(u) = Old(u) + New(u)
                /\ u \in Rows => Rank(u) < Cardinality(Rows)
  <1>1. Rows \in SUBSET Users /\ present \in SUBSET Rows
    BY DEF TypeOK, Rows
  <1>2. IsFiniteSet(Rows) /\ Cardinality(Rows) \in Nat
    BY <1>1, FS_Subset, FS_CardinalityType, UsersAssumption
  <1>3. ASSUME NEW u \in Users
        PROVE  /\ Rank(u) \in Nat /\ Old(u) \in Nat /\ New(u) \in Nat
               /\ Rank(u) = Old(u) + New(u)
               /\ u \in Rows => Rank(u) < Cardinality(Rows)
    <2>1. present \in SUBSET Users /\ Rows \ present \in SUBSET Users
      BY <1>1
    <2>2. Rank(u) = Old(u) + New(u)
      BY <1>1, AheadSplits DEF Rank, Old, New
    <2>3. Rank(u) \in Nat /\ (u \in Rows => Rank(u) < Cardinality(Rows))
      BY <1>1, AheadFinite DEF Rank
    <2>4. Old(u) \in Nat /\ New(u) \in Nat
      BY <2>1, AheadFinite DEF Old, New
    <2> QED BY <2>2, <2>3, <2>4
  <1> QED BY <1>1, <1>2, <1>3

LEMMA Queries ==
    /\ Statements # <<>> /\ Statements # Tail(Statements) /\ Tail(Statements) # <<>>
    /\ Head(Statements) = "items" /\ Head(Tail(Statements)) = "count"
    /\ Tail(Tail(Statements)) = <<>>
    /\ Len(Statements) = 2 /\ Len(Tail(Statements)) = 1
  BY DEF Statements

(* While the table stays, everybody stays where he is.                     *)
LEMMA TableStays ==
    ASSUME Rows' = Rows
    PROVE  /\ \A u : Rank(u)' = Rank(u)
           /\ present' = present => \A u : Old(u)' = Old(u) /\ New(u)' = New(u)
  BY DEF Rank, Old, New
-----------------------------------------------------------------------------
LEMMA InitInv == Init => IInv
  <1> SUFFICES ASSUME Init PROVE IInv
    OBVIOUS
  <1> USE DEF Init
  <1>1. Rows \in SUBSET Users /\ Cardinality(Rows) \in Nat
    <2>1. Rows \in SUBSET Users
      BY DEF Rows
    <2> QED BY <2>1, FS_Subset, FS_CardinalityType, UsersAssumption
  <1>2. TypeOK
    <2>1. page.items = <<>> /\ page.total = 0
      BY DEF NoPage
    <2>2. page.items \in Seq(Rows) /\ page.total \in 0..Cardinality(Rows)
      BY <1>1, <2>1
    <2>3. 0 \in 0..MaxFaults
      BY LimitsAssumption
    <2>4. active \subseteq Users /\ deactivated \subseteq Users \ active /\ present \subseteq Rows
      OBVIOUS
    <2>5. offset \in Int /\ limit \in Int /\ seen \in [Users -> Nat]
      OBVIOUS
    <2> QED BY <2>2, <2>3, <2>4, <2>5 DEF TypeOK
  <1>3. RequestInv
    BY DEF RequestInv, NoPage, Fetched
  <1>4. \A u \in Users : MissInv(u) /\ RepeatInv(u)
    BY <1>2, Counts DEF MissInv, RepeatInv, Asked, Fetched
  <1>5. PageInv
    BY DEF PageInv, Asked, Fetched
  <1> QED BY <1>2, <1>3, <1>4, <1>5 DEF IInv

LEMMA RegisterInv ==
    ASSUME IInv, NEW x \in Users, Register(x)
    PROVE  IInv'
  <1> USE DEF Register, table, walk
  <1>1. TypeOK /\ RequestInv /\ PageInv /\ \A u \in Users : MissInv(u) /\ RepeatInv(u)
    BY DEF IInv
  <1>2. /\ Rows \in SUBSET Users /\ present \in SUBSET Rows /\ IsFiniteSet(Rows)
        /\ Cardinality(Rows) \in Nat
        /\ \A u \in Users : Rank(u) \in Nat /\ Old(u) \in Nat /\ New(u) \in Nat
    BY <1>1, Counts
  <1>3. Rows' = Rows \cup {x} /\ x \notin Rows /\ Rows' \in SUBSET Users
    BY <1>2 DEF Rows
  <1>4. Cardinality(Rows') = Cardinality(Rows) + 1
    BY <1>2, <1>3, FS_AddElement
  <1>5. \A u \in Users : Rank(u) <= Rank(u)' /\ Rank(u)' \in Nat
    BY <1>2, <1>3, AheadGrows, AheadFinite DEF Rank
  <1>6. \A u \in Users : New(u) <= New(u)' /\ New(u)' \in Nat
    <2>1. Rows \ present \in SUBSET (Rows' \ present) /\ Rows' \ present \in SUBSET Users
      BY <1>3
    <2> QED BY <2>1, AheadGrows, AheadFinite DEF New
  <1>7. \A u \in Users : Old(u)' = Old(u) /\ Shown(u)' = Shown(u)
    BY DEF Old, Shown
  <1>8. Fetched' = Fetched /\ Asked' = Asked /\ HasNext' = HasNext
    BY DEF Fetched, Asked, HasNext
  <1>9. TypeOK'
    <2>1. page.items \in Seq(Rows')
      BY <1>1, <1>3 DEF TypeOK
    <2>2. page.total \in 0..Cardinality(Rows')
      BY <1>1, <1>2, <1>4 DEF TypeOK
    <2>3. active' \subseteq Users /\ deactivated' \subseteq Users \ active'
      BY <1>1 DEF TypeOK, Rows
    <2>4. present' \subseteq Rows'
      BY <1>2, <1>3
    <2> QED BY <1>1, <2>1, <2>2, <2>3, <2>4 DEF TypeOK
  <1>10. RequestInv'
    BY <1>1, <1>8 DEF RequestInv
  <1>11. ASSUME NEW u \in Users PROVE MissInv(u)'
    <2>1. MissInv(u) /\ offset \in Int /\ limit \in Int
      BY <1>1 DEF TypeOK
    <2> QED BY <1>2, <1>5, <1>7, <1>8, <2>1 DEF MissInv
  <1>12. ASSUME NEW u \in Users PROVE RepeatInv(u)'
    <2>1. RepeatInv(u) /\ seen[u] \in Nat
      BY <1>1 DEF TypeOK
    <2> QED BY <1>2, <1>6, <1>7, <1>8, <2>1 DEF RepeatInv
  <1>13. PageInv'
    <2>1. Rows' # present'
      BY <1>2, <1>3
    <2> QED BY <2>1 DEF PageInv
  <1> QED BY <1>9, <1>10, <1>11, <1>12, <1>13 DEF IInv

LEMMA DeactivateInv ==
    ASSUME IInv, NEW x \in Users, Deactivate(x)
    PROVE  IInv'
  <1> USE DEF Deactivate, table, walk
  <1>1. TypeOK /\ RequestInv /\ PageInv /\ \A u \in Users : MissInv(u) /\ RepeatInv(u)
    BY DEF IInv
  <1>2. Rows' = Rows
    BY <1>1 DEF Rows
  <1>3. \A u \in Users : /\ Rank(u)' = Rank(u) /\ Old(u)' = Old(u) /\ New(u)' = New(u)
                         /\ Shown(u)' = Shown(u)
    BY <1>2, TableStays DEF Shown
  <1>4. Fetched' = Fetched /\ Asked' = Asked /\ HasNext' = HasNext
    BY DEF Fetched, Asked, HasNext
  <1>5. TypeOK'
    BY <1>1, <1>2 DEF TypeOK
  <1>6. RequestInv'
    BY <1>1, <1>4 DEF RequestInv
  <1>7. \A u \in Users : MissInv(u)' /\ RepeatInv(u)'
    BY <1>1, <1>3, <1>4 DEF MissInv, RepeatInv
  <1>8. PageInv'
    BY <1>1, <1>2, <1>4 DEF PageInv
  <1> QED BY <1>5, <1>6, <1>7, <1>8 DEF IInv

LEMMA AskInv ==
    ASSUME IInv, NEW o \in Offsets, NEW l \in Limits, NEW walks \in BOOLEAN, Ask(o, l, walks)
    PROVE  IInv'
  <1> USE DEF Ask, table
  <1>1. TypeOK /\ RequestInv
    BY DEF IInv
  <1>2. /\ Rows \in SUBSET Users /\ IsFiniteSet(Rows) /\ Cardinality(Rows) \in Nat
        /\ \A u \in Users : Rank(u) \in Nat
    BY <1>1, Counts
  <1>3. Rows' = Rows
    BY DEF Rows
  <1>4. TypeOK'
    BY <1>1, <1>3, LimitsAssumption DEF TypeOK
  <1>5. \A u \in Users : /\ Rank(u)' \in Nat /\ Old(u)' \in Nat /\ New(u)' \in Nat
                         /\ seen'[u] = 0
    <2>1. /\ Rows' \in SUBSET Users /\ present' \in SUBSET Users
          /\ Rows' \ present' \in SUBSET Users
      BY <1>2, <1>3
    <2> QED BY <1>1, <2>1, AheadFinite DEF Rank, Old, New, RequestInv
  <1>6. ~Fetched' /\ (walking' => offset' = 0)
    BY DEF Fetched
  <1>7. RequestInv'
    BY <1>1, <1>6 DEF RequestInv
  <1>8. ASSUME NEW u \in Users PROVE MissInv(u)' /\ RepeatInv(u)'
    BY <1>5, <1>6 DEF MissInv, RepeatInv, Asked
  <1>9. PageInv'
    BY <1>6 DEF PageInv
  <1> QED BY <1>4, <1>7, <1>8, <1>9 DEF IInv

LEMMA RejectInv ==
    ASSUME IInv, Reject
    PROVE  IInv'
  <1> USE DEF Reject, table, walk
  <1>1. TypeOK /\ RequestInv /\ \A u \in Users : MissInv(u) /\ RepeatInv(u)
    BY DEF IInv
  <1>2. Rows' = Rows
    BY DEF Rows
  <1>3. \A u \in Users : New(u)' = New(u)
    BY <1>2, TableStays
  <1>4. ~Fetched' /\ ~Asked'
    BY DEF Fetched, Asked
  <1>5. TypeOK'
    BY <1>1, <1>2 DEF TypeOK
  <1>6. RequestInv'
    BY <1>1, <1>4 DEF RequestInv
  <1>7. \A u \in Users : MissInv(u)' /\ RepeatInv(u)'
    BY <1>1, <1>3, <1>4 DEF MissInv, RepeatInv
  <1>8. PageInv'
    BY <1>4 DEF PageInv
  <1> QED BY <1>5, <1>6, <1>7, <1>8 DEF IInv

LEMMA AdmitInv ==
    ASSUME IInv, Admit
    PROVE  IInv'
  <1> USE DEF Admit, table, walk
  <1>1. TypeOK /\ RequestInv /\ PageInv /\ \A u \in Users : MissInv(u) /\ RepeatInv(u)
    BY DEF IInv
  <1>2. Rows' = Rows /\ Cardinality(Rows) \in Nat
    BY <1>1, Counts DEF Rows
  <1>3. \A u \in Users : Rank(u)' = Rank(u) /\ Old(u)' = Old(u) /\ New(u)' = New(u)
    BY <1>2, TableStays
  <1>4. ~Fetched' /\ Asked' /\ Asked
    BY Queries DEF Fetched, Asked
  <1>5. page' = [items |-> <<>>, total |-> 0]
    BY DEF NoPage
  <1>6. offset \in Int /\ limit \in Int
    BY <1>1 DEF TypeOK
  <1>7. offset >= 0 /\ limit \in 1..MaxPageSize
    BY <1>6 DEF FailsSchema, FailsValidation
  <1>8. TypeOK'
    <2>1. page'.items \in Seq(Rows') /\ page'.total \in 0..Cardinality(Rows')
      BY <1>2, <1>5
    <2> QED BY <1>1, <1>2, <1>7, <2>1 DEF TypeOK
  <1>9. RequestInv'
    BY <1>1, <1>4, <1>5, <1>7 DEF RequestInv
  <1>10. \A u \in Users : MissInv(u)' /\ RepeatInv(u)'
    BY <1>1, <1>3, <1>4 DEF MissInv, RepeatInv
  <1>11. PageInv'
    BY <1>1, <1>2, <1>4 DEF PageInv
  <1> QED BY <1>8, <1>9, <1>10, <1>11 DEF IInv

LEMMA FailInv ==
    ASSUME IInv, Fail
    PROVE  IInv'
  <1> USE DEF Fail, table, walk
  <1>1. TypeOK /\ RequestInv /\ PageInv /\ \A u \in Users : MissInv(u) /\ RepeatInv(u)
    BY DEF IInv
  <1>2. Rows' = Rows
    BY DEF Rows
  <1>3. \A u \in Users : Rank(u)' = Rank(u) /\ Old(u)' = Old(u) /\ New(u)' = New(u)
    BY <1>2, TableStays
  <1>4. ~Fetched' /\ Asked' /\ Asked
    BY DEF Fetched, Asked
  <1>5. TypeOK'
    <2>1. faults' \in 0..MaxFaults
      BY <1>1, LimitsAssumption DEF TypeOK
    <2> QED BY <1>1, <1>2, <2>1 DEF TypeOK
  <1>6. RequestInv'
    BY <1>1, <1>4 DEF RequestInv
  <1>7. \A u \in Users : MissInv(u)' /\ RepeatInv(u)'
    BY <1>1, <1>3, <1>4 DEF MissInv, RepeatInv
  <1>8. PageInv'
    BY <1>1, <1>2, <1>4 DEF PageInv
  <1> QED BY <1>5, <1>6, <1>7, <1>8 DEF IInv

(* The items: everybody on the page had the client's offset before him or  *)
(* more, and fewer than the client will have skipped.                      *)
LEMMA SelectItemsInv ==
    ASSUME IInv, Execute, Head(todo) = "items"
    PROVE  IInv'
  <1> USE DEF Execute, table, walk
  <1>1. TypeOK /\ RequestInv /\ PageInv /\ \A u \in Users : MissInv(u) /\ RepeatInv(u)
    BY DEF IInv
  <1>2. /\ Rows \in SUBSET Users /\ present \in SUBSET Rows /\ Cardinality(Rows) \in Nat
        /\ \A u \in Users :
             /\ Rank(u) \in Nat /\ Old(u) \in Nat /\ New(u) \in Nat
             /\ Rank(u) = Old(u) + New(u)
    BY <1>1, Counts
  <1>3. Rows' = Rows
    BY DEF Rows
  <1>4. \A u \in Users : Rank(u)' = Rank(u) /\ Old(u)' = Old(u) /\ New(u)' = New(u)
    BY <1>3, TableStays
  <1>5. todo = Statements /\ todo' = Tail(Statements) /\ pc' = "running"
    BY <1>1, Queries DEF RequestInv
  <1>6. Fetched' /\ Asked' /\ Asked
    BY <1>5 DEF Fetched, Asked
  <1>7. offset \in Nat /\ limit \in Nat /\ limit > 0
    BY <1>1 DEF RequestInv, TypeOK
  <1>8. PICK s \in SetToSeqs(Rows) :
          /\ \A i, j \in DOMAIN s : i < j => ~Precedes(s[j], s[i])
          /\ page' = [page EXCEPT !.items = Slice(s)]
    BY DEF SelectItems, Orders, Listed
  <1>9. PICK t : t = Slice(s)
    OBVIOUS
  <1>10. t \in Seq(Rows) /\ IsPage(t, Rows, Cardinality(Rows), offset, limit)
    BY <1>2, <1>7, <1>8, <1>9, Cut DEF Slice
  <1>11. t \in Seq(Users)
    BY <1>2, <1>10
  <1>12. /\ page' \in [items : Seq(Users), total : Nat]
         /\ page'.items = t /\ page'.total = page.total
    BY <1>1, <1>8, <1>9, <1>11 DEF RequestInv
  <1>13. /\ Len(t) \in 0..limit
         /\ Len(t) = limit \/ Cardinality(Rows) <= offset + Len(t)
         /\ \A u \in Users : Shown(u)' => offset <= Rank(u) /\ Rank(u) < offset + Len(t)
         /\ \A u \in Rows : ~Shown(u)' => Rank(u) < offset \/ offset + limit <= Rank(u)
    BY <1>10, <1>12 DEF IsPage, Shown, Rank
  <1>14. TypeOK'
    BY <1>1, <1>3, <1>5, <1>10, <1>12 DEF TypeOK
  <1>15. RequestInv'
    BY <1>1, <1>5, <1>7, <1>12, <1>13 DEF RequestInv, TypeOK
  <1>16. ASSUME NEW u \in Users PROVE MissInv(u)'
    <2>1. MissInv(u) /\ (u \in present => u \in Rows)
      BY <1>1, <1>2
    <2> QED BY <1>2, <1>4, <1>5, <1>6, <1>7, <1>13, <2>1 DEF MissInv
  <1>17. ASSUME NEW u \in Users PROVE RepeatInv(u)'
    <2>1. RepeatInv(u) /\ seen[u] \in Nat /\ seen' = seen /\ offset' = offset
      BY <1>1 DEF TypeOK
    <2>2. Shown(u)' => seen[u] <= New(u) /\ Old(u) + seen[u] < offset + Len(t)
      BY <1>2, <1>6, <1>7, <1>13, <2>1 DEF RepeatInv
    <2> QED BY <1>4, <1>6, <1>12, <2>1, <2>2 DEF RepeatInv
  <1>18. PageInv'
    BY <1>1, <1>3, <1>5, <1>6, <1>12, <1>13 DEF PageInv
  <1> QED BY <1>14, <1>15, <1>16, <1>17, <1>18 DEF IInv

(* The count comes after the items: whoever is past the page is counted.   *)
LEMMA SelectCountInv ==
    ASSUME IInv, Execute, Head(todo) # "items"
    PROVE  IInv'
  <1> USE DEF Execute, table, walk
  <1>1. TypeOK /\ RequestInv /\ PageInv /\ \A u \in Users : MissInv(u) /\ RepeatInv(u)
    BY DEF IInv
  <1>2. /\ Rows \in SUBSET Users /\ present \in SUBSET Rows /\ Cardinality(Rows) \in Nat
        /\ \A u \in Users : Rank(u) \in Nat /\ (u \in Rows => Rank(u) < Cardinality(Rows))
    BY <1>1, Counts
  <1>3. Rows' = Rows
    BY DEF Rows
  <1>4. \A u \in Users : Rank(u)' = Rank(u) /\ Old(u)' = Old(u) /\ New(u)' = New(u)
    BY <1>3, TableStays
  <1>5. todo = Tail(Statements) /\ todo' = <<>> /\ pc' = "answered"
    BY <1>1, Queries DEF RequestInv
  <1>6. Fetched /\ Fetched' /\ Asked' /\ Asked
    BY <1>5 DEF Fetched, Asked
  <1>7. offset \in Nat /\ limit \in Nat /\ limit > 0 /\ Len(page.items) \in Nat
        /\ Len(page.items) <= limit
    BY <1>1, <1>6 DEF RequestInv, TypeOK
  <1>8. /\ page' \in [items : Seq(Users), total : Nat]
        /\ page'.items = page.items /\ page'.total = Cardinality(Rows)
    BY <1>1, <1>2 DEF SelectCount, Listed, RequestInv
  <1>9. \A u \in Users : Shown(u)' = Shown(u)
    BY <1>8 DEF Shown
  <1>10. TypeOK'
    <2>1. page'.total \in 0..Cardinality(Rows')
      BY <1>2, <1>3, <1>8
    <2> QED BY <1>1, <1>3, <1>5, <1>7, <1>8, <2>1 DEF TypeOK
  <1>11. RequestInv'
    BY <1>1, <1>5, <1>7, <1>8 DEF RequestInv, TypeOK
  <1>12. ASSUME NEW u \in Users PROVE MissInv(u)'
    <2>1. MissInv(u) /\ (u \in present => u \in Rows)
      BY <1>1, <1>2
    <2>2. CASE walking /\ u \in present /\ seen[u] = 0 /\ ~Shown(u)
      <3>1. offset + limit <= Rank(u) /\ Rank(u) < Cardinality(Rows) /\ offset <= Rank(u)
        BY <1>2, <1>6, <2>1, <2>2 DEF MissInv
      <3>2. HasNext'
        BY <1>2, <1>7, <1>8, <3>1 DEF HasNext
      <3> QED BY <1>4, <1>5, <3>1, <3>2 DEF MissInv
    <2>3. CASE ~(walking /\ u \in present /\ seen[u] = 0 /\ ~Shown(u))
      BY <1>4, <1>5, <1>6, <1>9, <2>1, <2>3 DEF MissInv
    <2> QED BY <2>2, <2>3
  <1>13. ASSUME NEW u \in Users PROVE RepeatInv(u)'
    BY <1>1, <1>4, <1>6, <1>8, <1>9 DEF RepeatInv
  <1>14. PageInv'
    BY <1>1, <1>3, <1>5, <1>6, <1>8 DEF PageInv
  <1> QED BY <1>10, <1>11, <1>12, <1>13, <1>14 DEF IInv

(* The client takes the items of its page, and goes on by as many or by    *)
(* the limit.                                                              *)
LEMMA LookCounts ==
    ASSUME TypeOK, Look
    PROVE  /\ seen' \in [Users -> Nat]
           /\ \A u \in Users : seen'[u] = IF Shown(u) THEN seen[u] + 1 ELSE seen[u]
  BY DEF TypeOK, Look, Shown

LEMMA ContinueInv ==
    ASSUME IInv, NEW step, step \in {limit, Len(page.items)}, Continue(step)
    PROVE  IInv'
  <1> USE DEF Continue, table, walk
  <1>1. TypeOK /\ RequestInv /\ PageInv /\ \A u \in Users : MissInv(u) /\ RepeatInv(u)
    BY DEF IInv
  <1>2. /\ present \in SUBSET Rows /\ Cardinality(Rows) \in Nat
        /\ \A u \in Users : Rank(u) \in Nat /\ Old(u) \in Nat /\ New(u) \in Nat
    BY <1>1, Counts
  <1>3. Rows' = Rows
    BY DEF Rows
  <1>4. \A u \in Users : Rank(u)' = Rank(u) /\ Old(u)' = Old(u) /\ New(u)' = New(u)
    BY <1>3, TableStays
  <1>5. Fetched /\ Asked /\ ~Fetched' /\ Asked'
    BY DEF Fetched, Asked
  <1>6. offset \in Nat /\ limit \in Nat /\ limit > 0 /\ Len(page.items) \in Nat
        /\ Len(page.items) <= limit
    BY <1>1, <1>5 DEF RequestInv, TypeOK
  <1>7. step \in Nat /\ step <= limit /\ Len(page.items) <= step
    BY <1>6
  <1>8. /\ seen' \in [Users -> Nat]
        /\ \A u \in Users : seen'[u] = IF Shown(u) THEN seen[u] + 1 ELSE seen[u]
    BY <1>1, LookCounts
  <1>9. TypeOK'
    BY <1>1, <1>3, <1>6, <1>7, <1>8 DEF TypeOK
  <1>10. RequestInv'
    BY <1>1, <1>5 DEF RequestInv
  <1>11. ASSUME NEW u \in Users PROVE MissInv(u)'
    <2>1. MissInv(u) /\ seen[u] \in Nat
      BY <1>1 DEF TypeOK
    <2>2. CASE walking /\ u \in present /\ seen'[u] = 0
      <3>1. seen[u] = 0 /\ ~Shown(u)
        BY <1>8, <2>1, <2>2
      <3>2. offset + limit <= Rank(u)
        BY <1>5, <2>1, <2>2, <3>1 DEF MissInv
      <3> QED BY <1>2, <1>4, <1>5, <1>6, <1>7, <3>2 DEF MissInv
    <2>3. CASE ~(walking /\ u \in present /\ seen'[u] = 0)
      BY <2>3 DEF MissInv
    <2> QED BY <2>2, <2>3
  <1>12. ASSUME NEW u \in Users PROVE RepeatInv(u)'
    <2>1. RepeatInv(u) /\ seen[u] \in Nat /\ Old(u) \in Nat /\ New(u) \in Nat
      BY <1>1, <1>2 DEF TypeOK
    <2>2. CASE Shown(u)
      <3>1. seen'[u] = seen[u] + 1 /\ seen[u] <= New(u)
            /\ Old(u) + seen[u] < offset + Len(page.items)
        BY <1>5, <1>8, <2>1, <2>2 DEF RepeatInv
      <3>2. Old(u) + seen'[u] <= offset' /\ seen'[u] <= 1 + New(u)
        BY <1>6, <1>7, <2>1, <3>1
      <3> QED BY <1>4, <1>5, <3>2 DEF RepeatInv
    <2>3. CASE ~Shown(u)
      <3>1. seen'[u] = seen[u] /\ seen[u] <= 1 + New(u)
            /\ (seen[u] > 0 => Old(u) + seen[u] <= offset)
        BY <1>5, <1>8, <2>1, <2>3 DEF RepeatInv
      <3>2. seen'[u] > 0 => Old(u) + seen'[u] <= offset'
        BY <1>6, <1>7, <2>1, <3>1
      <3> QED BY <1>4, <1>5, <3>1, <3>2 DEF RepeatInv
    <2> QED BY <2>2, <2>3
  <1>13. PageInv'
    <2>1. ASSUME Rows = present PROVE offset' < Cardinality(present)
      <3>1. offset + Len(page.items) < Cardinality(present)
        BY <1>1, <2>1 DEF PageInv, HasNext
      <3>2. Len(page.items) = limit
        BY <1>1, <1>2, <1>5, <1>6, <2>1, <3>1 DEF PageInv
      <3> QED BY <1>6, <3>1, <3>2
    <2> QED BY <1>3, <1>5, <2>1 DEF PageInv
  <1> QED BY <1>9, <1>10, <1>11, <1>12, <1>13 DEF IInv

LEMMA FinishInv ==
    ASSUME IInv, Finish
    PROVE  IInv'
  <1> USE DEF Finish, table, walk
  <1>1. TypeOK /\ RequestInv /\ \A u \in Users : MissInv(u) /\ RepeatInv(u)
    BY DEF IInv
  <1>2. \A u \in Users : New(u) \in Nat
    BY <1>1, Counts
  <1>3. Rows' = Rows
    BY DEF Rows
  <1>4. \A u \in Users : New(u)' = New(u)
    BY <1>3, TableStays
  <1>5. Fetched /\ ~Fetched' /\ ~Asked'
    BY DEF Fetched, Asked
  <1>6. /\ seen' \in [Users -> Nat]
        /\ \A u \in Users : seen'[u] = IF Shown(u) THEN seen[u] + 1 ELSE seen[u]
    BY <1>1, LookCounts
  <1>7. TypeOK'
    BY <1>1, <1>3, <1>6 DEF TypeOK
  <1>8. RequestInv'
    BY <1>1, <1>5 DEF RequestInv
  <1>9. ASSUME NEW u \in Users, walking, u \in present PROVE seen'[u] # 0
    <2>1. MissInv(u) /\ seen[u] \in Nat /\ ~HasNext
      BY <1>1, <1>9 DEF TypeOK
    <2> QED BY <1>5, <1>6, <1>9, <2>1 DEF MissInv
  <1>10. \A u \in Users : MissInv(u)'
    BY <1>9 DEF MissInv
  <1>11. ASSUME NEW u \in Users PROVE RepeatInv(u)'
    <2>1. RepeatInv(u) /\ seen[u] \in Nat /\ New(u) \in Nat
      BY <1>1, <1>2 DEF TypeOK
    <2>2. seen'[u] <= 1 + New(u)
      BY <1>5, <1>6, <2>1 DEF RepeatInv
    <2> QED BY <1>4, <1>5, <2>2 DEF RepeatInv
  <1>12. PageInv'
    BY <1>5 DEF PageInv
  <1> QED BY <1>7, <1>8, <1>10, <1>11, <1>12 DEF IInv

LEMMA NextInv == IInv /\ [Next]_vars => IInv'
  <1> SUFFICES ASSUME IInv, [Next]_vars PROVE IInv'
    OBVIOUS
  <1>1. CASE Step
    <2>1. CASE Execute
      BY <2>1, SelectItemsInv, SelectCountInv
    <2>2. CASE Continue(limit)
      BY <2>2, ContinueInv
    <2>3. CASE Continue(Len(page.items))
      BY <2>3, ContinueInv
    <2> QED BY <1>1, <2>1, <2>2, <2>3, RejectInv, AdmitInv, FinishInv DEF Step
  <1>2. CASE UNCHANGED vars
    <2>1. Rows' = Rows /\ present' = present
      BY <1>2 DEF vars, Rows
    <2>2. \A u \in Users : Rank(u)' = Rank(u) /\ Old(u)' = Old(u) /\ New(u)' = New(u)
      BY <2>1, TableStays
    <2> QED
      BY <1>2, <2>1, <2>2 DEF vars, IInv, TypeOK, RequestInv, MissInv, RepeatInv, PageInv,
         Shown, Fetched, Asked, HasNext
  <1> QED BY <1>1, <1>2, RegisterInv, DeactivateInv, AskInv, FailInv DEF Next, Over

THEOREM Inductive == Spec => []IInv
  <1> QED BY InitInv, NextInv, PTL DEF Spec
-----------------------------------------------------------------------------
(* The variables keep their domains; a request that reaches the database   *)
(* is within its bounds, and no page is longer than its limit.             *)
THEOREM TypeCorrect == Spec => []TypeOK
  <1>1. IInv => TypeOK
    BY DEF IInv
  <1> QED BY Inductive, <1>1, PTL

(* Whoever was in the table when the walk began has been shown when it     *)
(* ends, although each page takes two statements and the offset counts     *)
(* users who were not there before.                                        *)
THEOREM NobodyIsMissed == Spec => []WalkMissesNobody
  <1>1. IInv => WalkMissesNobody
    <2> SUFFICES ASSUME IInv, walking, pc = "over", NEW u \in present PROVE seen[u] > 0
      BY DEF WalkMissesNobody
    <2>1. u \in Users /\ seen[u] \in Nat
      BY Counts DEF IInv, TypeOK
    <2> QED BY <2>1 DEF IInv, MissInv
  <1> QED BY Inductive, <1>1, PTL

(* A user comes up again at most once for each newcomer who entered the    *)
(* list before him.                                                        *)
THEOREM RepeatsAreExplained == Spec => []RepeatsNeedNewcomers
  <1>1. IInv => RepeatsNeedNewcomers
    BY DEF IInv, RepeatInv, RepeatsNeedNewcomers, New, Ahead
  <1> QED BY Inductive, <1>1, PTL

(* While nobody registers, total is the number of users, and a next page   *)
(* that was announced has somebody on it.                                  *)
THEOREM AnnouncedPagesExist == Spec => []AnnouncedPageExists
  <1>1. IInv => AnnouncedPageExists
    <2> SUFFICES ASSUME IInv, Rows = present, pc = "answered"
                 PROVE  /\ page.total = Cardinality(present)
                        /\ walking /\ offset > 0 => page.items # <<>>
      BY DEF AnnouncedPageExists
    <2>1. TypeOK /\ RequestInv /\ PageInv /\ Fetched /\ Asked
      BY DEF IInv, Fetched, Asked
    <2>2. offset \in Nat /\ limit \in Nat /\ limit > 0 /\ Cardinality(present) \in Nat
      BY <2>1, Counts DEF RequestInv, TypeOK
    <2>3. ASSUME walking, offset > 0, page.items = <<>> PROVE FALSE
      <3>1. Len(page.items) = 0 /\ offset < Cardinality(present)
        BY <2>1, <2>3 DEF PageInv
      <3> QED BY <2>1, <2>2, <3>1 DEF PageInv
    <2> QED BY <2>1, <2>3 DEF PageInv
  <1> QED BY Inductive, <1>1, PTL
=============================================================================
