-------------------------- MODULE JsonObject_proofs --------------------------
(***************************************************************************)
(* Theorems about LinkHash and JsonObject: for any names and values, any   *)
(* hash function, and tables of any size, the fields of an object are an   *)
(* ordered map, every count is the number of owners, and a loop over the   *)
(* fields comes to every one of them.                                      *)
(***************************************************************************)
EXTENDS JsonObject, FiniteSetTheorems, SequenceTheorems, TLAPS

-----------------------------------------------------------------------------
(* Numbers, sequences and counting.                                        *)

\* A set of natural numbers that is not empty has a least member.
LEMMA LeastIs ==
    ASSUME NEW S, S \subseteq Nat, S # {}
    PROVE  Min(S) \in S /\ \A y \in S : Min(S) <= y
  <1>1. PICK x \in S : \A y \in S : ~ (<<y, x>> \in OpToRel(<,Nat))
    BY NatLessThanWellFounded, WFMin
  <1>2. \A y \in S : ~(y < x)
    BY <1>1 DEF OpToRel
  <1>3. \A y \in S : x <= y
    BY <1>2
  <1>4. Min(S) = CHOOSE m \in S : \A y \in S : m <= y
    BY DEF Min
  <1> QED BY <1>3, <1>4, Zenon

\* What the removal of a member leaves of a sequence.
LEMMA RemoveAtIs ==
    ASSUME NEW S, NEW s \in Seq(S), NEW i \in 1..Len(s)
    PROVE  /\ RemoveAt(s, i) \in Seq(S) /\ Len(RemoveAt(s, i)) = Len(s) - 1
           /\ RemoveAt(s, i) =
                [j \in 1..(Len(s) - 1) |-> IF j < i THEN s[j] ELSE s[j + 1]]
  <1> DEFINE a == SubSeq(s, 1, i - 1)
             b == SubSeq(s, i + 1, Len(s))
  <1>0. Len(s) \in Nat /\ i \in Nat /\ i >= 1 /\ i <= Len(s)
        /\ \A j \in 1..Len(s) : s[j] \in S
    OBVIOUS
  <1>1. a \in Seq(S) /\ Len(a) = i - 1 /\ \A j \in 1..(i - 1) : a[j] = s[j]
    BY <1>0
  <1>2. b \in Seq(S) /\ Len(b) = Len(s) - i /\ \A j \in 1..(Len(s) - i) : b[j] = s[i + j]
    <2>1. \A j \in (i + 1)..Len(s) : s[j] \in S
      BY <1>0
    <2>2. /\ b \in Seq(S) /\ Len(b) = IF i + 1 <= Len(s) THEN Len(s) - (i + 1) + 1 ELSE 0
          /\ \A j \in 1..(Len(s) - (i + 1) + 1) : b[j] = s[i + 1 + j - 1]
      BY <1>0, <2>1, SubSeqProperties
    <2> HIDE DEF b
    <2> QED BY <1>0, <2>2
  <1> HIDE DEF a, b
  <1>3. /\ a \o b \in Seq(S) /\ Len(a \o b) = Len(a) + Len(b)
        /\ \A j \in 1..(Len(a) + Len(b)) :
              (a \o b)[j] = IF j <= Len(a) THEN a[j] ELSE b[j - Len(a)]
    BY <1>1, <1>2, ConcatProperties
  <1>4. ASSUME NEW j \in 1..(Len(s) - 1)
        PROVE  (a \o b)[j] = IF j < i THEN s[j] ELSE s[j + 1]
    <2>1. CASE j < i
      BY <1>0, <1>1, <1>2, <1>3, <2>1
    <2>2. CASE j >= i
      <3>1. PICK n \in Nat : n = Len(s)
        BY <1>0
      <3>2. j \in Nat /\ j >= 1 /\ j <= n - 1
        BY <3>1
      <3>3. j - (i - 1) \in 1..(n - i) /\ i + (j - (i - 1)) = j + 1
        BY <1>0, <2>2, <3>1, <3>2
      <3>4. b[j - (i - 1)] = s[j + 1]
        BY <1>2, <3>1, <3>3
      <3>5. (a \o b)[j] = b[j - (i - 1)]
        <4>1. j \in 1..(Len(a) + Len(b)) /\ ~(j <= Len(a))
          BY <1>0, <1>1, <1>2, <2>2, <3>1, <3>2
        <4> QED BY <1>1, <1>3, <4>1
      <3>6. ~(j < i)
        BY <1>0, <2>2, <3>2
      <3> QED BY <3>4, <3>5, <3>6
    <2>3. j < i \/ j >= i
      <3>1. j \in Nat /\ i \in Nat
        BY <1>0
      <3> QED BY <3>1
    <2> QED BY <2>1, <2>2, <2>3
  <1>5. RemoveAt(s, i) = a \o b
    BY DEF RemoveAt, a, b
  <1>6. Len(a \o b) = Len(s) - 1 /\ DOMAIN (a \o b) = 1..(Len(s) - 1)
    BY <1>0, <1>1, <1>2, <1>3
  <1>7. a \o b = [j \in DOMAIN (a \o b) |-> (a \o b)[j]]
    <2>1. ASSUME NEW w \in Seq(S) PROVE w = [j \in DOMAIN w |-> w[j]]
      <3>1. w \in [1..Len(w) -> S]
        BY LenProperties
      <3>2. \A X, Y : \A g \in [X -> Y] : g = [j \in DOMAIN g |-> g[j]]
        OBVIOUS
      <3> QED BY <3>1, <3>2
    <2> QED BY <1>3, <2>1
  <1>8. a \o b = [j \in 1..(Len(s) - 1) |-> IF j < i THEN s[j] ELSE s[j + 1]]
    BY <1>4, <1>6, <1>7, Zenon
  <1> QED BY <1>3, <1>5, <1>6, <1>8

\* How often v is in c.
Count(c, v) == Cardinality({i \in DOMAIN c : c[i] = v})

LEMMA CountIsNat ==
    ASSUME NEW n \in Nat, NEW c, DOMAIN c = 1..n, NEW v
    PROVE  IsFiniteSet({i \in DOMAIN c : c[i] = v}) /\ Count(c, v) \in Nat
  <1>1. IsFiniteSet(1..n)
    BY FS_Interval
  <1>2. IsFiniteSet({i \in DOMAIN c : c[i] = v})
    BY <1>1, FS_Subset
  <1> QED BY <1>2, FS_CardinalityType DEF Count

LEMMA CountAppend ==
    ASSUME NEW n \in Nat, NEW c, DOMAIN c = 1..n, NEW d, DOMAIN d = 1..(n + 1),
           \A i \in 1..n : d[i] = c[i], NEW v
    PROVE  Count(d, v) = Count(c, v) + (IF d[n + 1] = v THEN 1 ELSE 0)
  <1> DEFINE C == {i \in DOMAIN c : c[i] = v}
             D == {i \in DOMAIN d : d[i] = v}
  <1>1. IsFiniteSet(C) /\ Count(c, v) = Cardinality(C) /\ Count(d, v) = Cardinality(D)
        /\ Count(c, v) \in Nat
    BY CountIsNat DEF Count
  <1>2. CASE d[n + 1] = v
    <2>1. D = C \cup {n + 1} /\ n + 1 \notin C
      <3>1. \A i : i \in D <=> i \in C \/ i = n + 1
        BY <1>2
      <3>2. n + 1 \notin C
        OBVIOUS
      <3> HIDE DEF C, D
      <3> QED BY <3>1, <3>2
    <2> HIDE DEF C, D
    <2>2. IsFiniteSet(C) /\ Cardinality(C) \in Nat
      BY <1>1
    <2>3. Cardinality(C \cup {n + 1}) = Cardinality(C) + 1
      BY <2>1, <2>2, FS_AddElement
    <2> QED BY <1>1, <1>2, <2>1, <2>3
  <1>3. CASE d[n + 1] # v
    <2>1. D = C
      <3>1. \A i : i \in D <=> i \in C
        BY <1>3
      <3> HIDE DEF C, D
      <3> QED BY <3>1
    <2> HIDE DEF C, D
    <2> QED BY <1>1, <1>3, <2>1
  <1> QED BY <1>2, <1>3

LEMMA CountReplace ==
    ASSUME NEW n \in Nat, NEW c, DOMAIN c = 1..n, NEW d, DOMAIN d = 1..n,
           NEW j \in 1..n, \A i \in 1..n : i # j => d[i] = c[i], NEW v
    PROVE  Count(d, v) = Count(c, v) - (IF c[j] = v THEN 1 ELSE 0)
                                     + (IF d[j] = v THEN 1 ELSE 0)
  <1> DEFINE C == {i \in DOMAIN c : c[i] = v}
             D == {i \in DOMAIN d : d[i] = v}
  <1>1. IsFiniteSet(C) /\ Count(c, v) = Cardinality(C) /\ Count(d, v) = Cardinality(D)
        /\ Count(c, v) \in Nat
    BY CountIsNat DEF Count
  <1>2. IsFiniteSet(C \ {j})
        /\ Cardinality(C \ {j}) = Cardinality(C) - (IF c[j] = v THEN 1 ELSE 0)
    <2>1. j \in C <=> c[j] = v
      OBVIOUS
    <2>2. Cardinality(C) \in Nat
      BY <1>1
    <2> HIDE DEF C
    <2>3. /\ IsFiniteSet(C \ {j})
          /\ Cardinality(C \ {j}) = IF j \in C THEN Cardinality(C) - 1 ELSE Cardinality(C)
      BY <1>1, FS_RemoveElement
    <2> QED BY <2>1, <2>2, <2>3
  <1>3. D = IF d[j] = v THEN (C \ {j}) \cup {j} ELSE C \ {j}
    <2>1. \A i \in 1..n : i # j => (i \in D <=> i \in C)
      OBVIOUS
    <2>2. j \in D <=> d[j] = v
      OBVIOUS
    <2>3. C \subseteq 1..n /\ D \subseteq 1..n
      OBVIOUS
    <2> HIDE DEF C, D
    <2> QED BY <2>1, <2>2, <2>3
  <1>4. Cardinality((C \ {j}) \cup {j}) = Cardinality(C \ {j}) + 1
    BY <1>2, FS_AddElement
  <1>5. Cardinality(C) \in Nat /\ Cardinality(C \ {j}) \in Nat
    BY <1>1, <1>2, FS_CardinalityType
  <1> HIDE DEF C, D
  <1> QED BY <1>1, <1>2, <1>3, <1>4, <1>5

LEMMA CountRemove ==
    ASSUME NEW n \in Nat, NEW c, DOMAIN c = 1..n, NEW j \in 1..n,
           NEW d, d = [i \in 1..(n - 1) |-> IF i < j THEN c[i] ELSE c[i + 1]], NEW v
    PROVE  Count(d, v) = Count(c, v) - (IF c[j] = v THEN 1 ELSE 0)
  <1> DEFINE C == {i \in DOMAIN c : c[i] = v}
             D == {i \in DOMAIN d : d[i] = v}
             f == [i \in C \ {j} |-> IF i < j THEN i ELSE i - 1]
  <1>1. IsFiniteSet(C) /\ Count(c, v) = Cardinality(C) /\ Count(d, v) = Cardinality(D)
        /\ Count(c, v) \in Nat
    BY CountIsNat DEF Count
  <1>2. IsFiniteSet(C \ {j})
        /\ Cardinality(C \ {j}) = Cardinality(C) - (IF c[j] = v THEN 1 ELSE 0)
    <2>1. j \in C <=> c[j] = v
      OBVIOUS
    <2>2. Cardinality(C) \in Nat
      BY <1>1
    <2> HIDE DEF C, D, f
    <2>3. /\ IsFiniteSet(C \ {j})
          /\ Cardinality(C \ {j}) = IF j \in C THEN Cardinality(C) - 1 ELSE Cardinality(C)
      BY <1>1, FS_RemoveElement
    <2> QED BY <2>1, <2>2, <2>3
  <1>3. f \in [C \ {j} -> D]
    <2>1. ASSUME NEW i \in C \ {j} PROVE (IF i < j THEN i ELSE i - 1) \in D
      OBVIOUS
    <2> QED BY <2>1
  <1>4. \A a, b \in C \ {j} : f[a] = f[b] => a = b
    OBVIOUS
  <1>5. ASSUME NEW y \in D PROVE \E x \in C \ {j} : f[x] = y
    <2>1. CASE y < j
      <3>1. y \in C \ {j} /\ f[y] = y
        BY <2>1
      <3> QED BY <3>1
    <2>2. CASE y >= j
      <3>0. y \in 1..(n - 1) /\ d[y] = v
        <4>1. DOMAIN d = 1..(n - 1)
          OBVIOUS
        <4> QED BY <4>1
      <3>1. d[y] = c[y + 1] /\ y + 1 \in 1..n /\ y + 1 # j /\ d[y] = v
        BY <2>2, <3>0
      <3>2. y + 1 \in C \ {j}
        BY <3>1
      <3>3. f[y + 1] = IF y + 1 < j THEN y + 1 ELSE y + 1 - 1
        BY <3>2
      <3>4. y + 1 \in C \ {j} /\ f[y + 1] = y
        BY <2>2, <3>0, <3>2, <3>3
      <3> QED BY <3>4
    <2> QED BY <2>1, <2>2
  <1> HIDE DEF C, D, f
  <1>6. f \in Bijection(C \ {j}, D)
    BY <1>3, <1>4, <1>5 DEF Bijection, Injection, Surjection, IsInjective
  <1>7. Cardinality(D) = Cardinality(C \ {j})
    BY <1>2, <1>6, FS_Bijection DEF ExistsBijection
  <1> QED BY <1>1, <1>2, <1>7

-----------------------------------------------------------------------------
(* Tables.                                                                 *)

Slots(u) == 0..(u.size - 1)
Slot == [k : Keys \cup {EMPTY, FREED}, v : Value, next : Int, prev : Int]

IsTable(u) ==
    /\ u \in [size : Nat \ {0}, count : Nat, head : Int, tail : Int,
              hash_fn : [Keys -> Nat], table : {u.table}]
    /\ u.table \in [Slots(u) -> Slot]
    /\ u.count <= u.size

\* s has the entries of the table in the order of the list through them.
Chain(u, s) ==
    /\ s \in [1..u.count -> Slots(u)]
    /\ u.head = IF u.count = 0 THEN NULL ELSE s[1]
    /\ u.tail = IF u.count = 0 THEN NULL ELSE s[u.count]
    /\ \A i \in 1..u.count :
          /\ u.table[s[i]].next = IF i = u.count THEN NULL ELSE s[i + 1]
          /\ u.table[s[i]].prev = IF i = 1 THEN NULL ELSE s[i - 1]

\* They are the slots in use, and no two of them have the same name.
InUse(u, s) ==
    /\ \A i \in 1..u.count : u.table[s[i]].k \in Keys
    /\ \A i, j \in 1..u.count : u.table[s[i]].k = u.table[s[j]].k => i = j
    /\ \A n \in Slots(u) : u.table[n].k \in Keys => \E i \in 1..u.count : s[i] = n

\* A search for the name in the slot n gets there without meeting an empty slot.
Reached(u, n) ==
    \E d \in Slots(u) :
        /\ Probe(u, u.table[n].k, d) = n
        /\ \A j \in 0..(d - 1) : u.table[Probe(u, u.table[n].k, j)].k # EMPTY

Linked(u, s) ==
    /\ IsTable(u) /\ Chain(u, s) /\ InUse(u, s)
    /\ \A n \in Slots(u) : u.table[n].k \in Keys => Reached(u, n)

LEMMA TableIs ==
    ASSUME NEW u, IsTable(u)
    PROVE  /\ u.size \in Nat /\ u.size > 0 /\ u.count \in Nat /\ u.count <= u.size
           /\ u.head \in Int /\ u.tail \in Int /\ u.hash_fn \in [Keys -> Nat]
           /\ u.table \in [Slots(u) -> Slot] /\ DOMAIN u.table = Slots(u)
           /\ \A n \in Slots(u) : n \in Nat /\ n < u.size /\ n # NULL
           /\ \A n \in Slots(u) :
                 /\ u.table[n].k \in Keys \cup {EMPTY, FREED} /\ u.table[n].v \in Value
                 /\ u.table[n].next \in Int /\ u.table[n].prev \in Int
  <1>1. u.size \in Nat /\ u.size > 0 /\ u.count \in Nat /\ u.count <= u.size
        /\ u.head \in Int /\ u.tail \in Int /\ u.hash_fn \in [Keys -> Nat]
    BY DEF IsTable
  <1>2. u.table \in [Slots(u) -> Slot]
    BY DEF IsTable
  <1>3. \A n \in Slots(u) : n \in Nat /\ n < u.size /\ n # NULL
    BY <1>1 DEF Slots, NULL
  <1>4. \A n \in Slots(u) : u.table[n] \in Slot
    BY <1>2
  <1>5. \A e \in Slot : e.k \in Keys \cup {EMPTY, FREED} /\ e.v \in Value
                        /\ e.next \in Int /\ e.prev \in Int
    BY DEF Slot
  <1> QED BY <1>1, <1>2, <1>3, <1>4, <1>5

\* The names of fields are none of the marks of a slot.
LEMMA NotAMark == \A k \in Keys : k # EMPTY /\ k # FREED
  BY NameAssumption

\* The search for a name looks at slots only, and once around at all of them.
LEMMA ProbeIs ==
    ASSUME NEW u, IsTable(u), NEW k \in Keys
    PROVE  /\ \A d \in Slots(u) : Probe(u, k, d) \in Slots(u)
           /\ \A n \in Slots(u) : \E d \in Slots(u) : Probe(u, k, d) = n
  <1> DEFINE h == u.hash_fn[k] % u.size
  <1>1. u.size \in Nat /\ u.size > 0 /\ u.hash_fn[k] \in Nat
    BY TableIs
  <1>2. h \in 0..(u.size - 1)
    BY <1>1
  <1>3. \A d \in Int : Probe(u, k, d) = IF h + d < u.size THEN h + d ELSE h + d - u.size
    BY <1>1, <1>2 DEF Probe
  <1> HIDE DEF h
  <1>4. ASSUME NEW d \in Slots(u) PROVE Probe(u, k, d) \in Slots(u)
    BY <1>1, <1>2, <1>3 DEF Slots
  <1>5. ASSUME NEW n \in Slots(u) PROVE \E d \in Slots(u) : Probe(u, k, d) = n
    <2>1. CASE n >= h
      <3>1. n - h \in Slots(u) /\ Probe(u, k, n - h) = n
        BY <1>1, <1>2, <1>3, <2>1 DEF Slots
      <3> QED BY <3>1
    <2>2. CASE n < h
      <3>1. n - h + u.size \in Slots(u) /\ Probe(u, k, n - h + u.size) = n
        BY <1>1, <1>2, <1>3, <2>2 DEF Slots
      <3> QED BY <3>1
    <2>3. n \in Int /\ h \in Int
      BY <1>1, <1>2 DEF Slots
    <2> QED BY <2>1, <2>2, <2>3
  <1> QED BY <1>4, <1>5

\* The list through the table is the one the macros walk.
LEMMA EntriesAre ==
    ASSUME NEW u, NEW s, IsTable(u), Chain(u, s)
    PROVE  Entries(u) = s
  <1> DEFINE Walk(f) == [i \in 1..u.size |->
                            IF i = 1 THEN u.head
                            ELSE LET e == f[i - 1] IN IF e = NULL THEN NULL ELSE u.table[e].next]
             g == [i \in 1..u.size |-> IF i <= u.count THEN s[i] ELSE NULL]
  <1>1. /\ u.size \in Nat /\ u.count \in Nat /\ u.count <= u.size /\ u.size > 0
        /\ \A i \in 1..u.count : s[i] \in Slots(u) /\ s[i] # NULL
        /\ s = [i \in 1..u.count |-> s[i]]
    BY TableIs DEF Chain
  <1>2. ASSUME NEW i \in 1..u.size PROVE g[i] = Walk(g)[i]
    <2>1. CASE i = 1
      <3>1. 1 \in 1..u.size /\ (1 <= u.count <=> u.count # 0)
        BY <1>1
      <3>2. g[1] = (IF 1 <= u.count THEN s[1] ELSE NULL) /\ Walk(g)[1] = u.head
        BY <3>1, Zenon
      <3>3. u.head = IF u.count = 0 THEN NULL ELSE s[1]
        BY Zenon DEF Chain
      <3> QED BY <2>1, <3>1, <3>2, <3>3, Zenon
    <2>2. CASE i # 1 /\ i - 1 <= u.count
      <3>0. i - 1 \in 1..u.count /\ i - 1 \in 1..u.size /\ i - 1 <= u.count /\ (i - 1) + 1 = i
        BY <1>1, <2>2
      <3>1. i - 1 \in 1..u.count /\ g[i - 1] = s[i - 1] /\ g[i - 1] # NULL /\ (i - 1) + 1 = i
        BY <1>1, <3>0
      <3>2. u.table[s[i - 1]].next = IF i - 1 = u.count THEN NULL ELSE s[i]
        BY <3>1 DEF Chain
      <3>3. g[i] = IF i - 1 = u.count THEN NULL ELSE s[i]
        BY <1>1, <2>2, <3>1
      <3> QED BY <2>2, <3>1, <3>2, <3>3
    <2>3. CASE i # 1 /\ i - 1 > u.count
      <3>1. g[i - 1] = NULL /\ g[i] = NULL
        BY <1>1, <2>3
      <3> QED BY <2>3, <3>1
    <2>4. i \in Nat /\ i - 1 \in Int
      BY <1>1
    <2>5. i = 1 \/ (i # 1 /\ i - 1 <= u.count) \/ (i # 1 /\ i - 1 > u.count)
      BY <1>1, <2>4
    <2> QED BY <2>1, <2>2, <2>3, <2>5
  <1>3. g = Walk(g)
    BY <1>2
  <1>4. ASSUME NEW f, f = Walk(f) PROVE f = g
    <2> DEFINE Bad == {i \in 1..u.size : f[i] # g[i]}
    <2>1. ASSUME Bad # {} PROVE FALSE
      <3> DEFINE m == Min(Bad)
      <3>1. Bad \subseteq Nat
        BY <1>1
      <3>2. m \in Bad /\ \A y \in Bad : m <= y
        BY <2>1, <3>1, LeastIs
      <3> HIDE DEF m
      <3>3. m \in 1..u.size /\ m \in Nat
        BY <1>1, <3>2
      <3>4. m # 1 => f[m - 1] = g[m - 1]
        <4>1. SUFFICES ASSUME m # 1 PROVE f[m - 1] = g[m - 1]
          OBVIOUS
        <4>2. m - 1 \in 1..u.size /\ ~(m <= m - 1)
          BY <1>1, <3>3, <4>1
        <4>3. m - 1 \notin Bad
          BY <3>2, <4>2
        <4> QED BY <4>2, <4>3
      <3>5. f[m] = Walk(f)[m] /\ g[m] = Walk(g)[m]
        BY <1>2, <1>4, <3>3
      <3> HIDE DEF g
      <3>6. f[m] = g[m]
        BY <3>3, <3>4, <3>5
      <3> QED BY <3>2, <3>6
    <2>2. f = [i \in 1..u.size |-> f[i]]
      BY <1>4
    <2>3. \A i \in 1..u.size : f[i] = g[i]
      BY <2>1
    <2>4. g = [i \in 1..u.size |-> g[i]]
      OBVIOUS
    <2> HIDE DEF g, Bad
    <2> QED BY <2>2, <2>3, <2>4
  <1> DEFINE at == CHOOSE f : f = Walk(f)
  <1> HIDE DEF g
  <1>5. at = g
    BY <1>3, <1>4
  <1>6. Entries(u) = [i \in {j \in 1..u.size : at[j] # NULL} |-> at[i]]
    BY DEF Entries
  <1> HIDE DEF at
  <1>7. {j \in 1..u.size : g[j] # NULL} = 1..u.count
    <2>1. \A j \in 1..u.size : g[j] # NULL <=> j <= u.count
      BY <1>1, SMTT(30) DEF g
    <2>2. \A j : j \in 1..u.count <=> j \in 1..u.size /\ j <= u.count
      BY <1>1
    <2> QED BY <2>1, <2>2
  <1>8. \A i \in 1..u.count : g[i] = s[i]
    BY <1>1 DEF g
  <1>9. Entries(u) = [i \in 1..u.count |-> g[i]]
    BY <1>5, <1>6, <1>7
  <1> QED BY <1>1, <1>8, <1>9

\* A lookup finds the entry of the name, if there is one.
LEMMA LookupIs ==
    ASSUME NEW u, NEW s, Linked(u, s), NEW k \in Keys
    PROVE  \/ \E i \in 1..u.count : u.table[s[i]].k = k /\ LookupEntry(u, k) = s[i]
           \/ LookupEntry(u, k) = NULL /\ \A i \in 1..u.count : u.table[s[i]].k # k
  <1> DEFINE found == {i \in Slots(u) :
                          /\ u.table[Probe(u, k, i)].k = k
                          /\ \A j \in 0..(i - 1) : u.table[Probe(u, k, j)].k # EMPTY}
  <1>1. LookupEntry(u, k) = IF found = {} THEN NULL ELSE Probe(u, k, Min(found))
    BY Zenon DEF LookupEntry, Slots
  <1>2. IsTable(u)
    BY DEF Linked
  <1>3. CASE found # {}
    <2>1. Min(found) \in found
      <3>1. found \subseteq Nat
        BY <1>2, TableIs
      <3> HIDE DEF found
      <3> QED BY <1>3, <3>1, LeastIs
    <2> DEFINE n == Probe(u, k, Min(found))
    <2>2. n \in Slots(u) /\ u.table[n].k = k
      BY <1>2, <2>1, ProbeIs
    <2>3. PICK i \in 1..u.count : s[i] = n
      BY <2>2 DEF Linked, InUse
    <2> QED BY <1>1, <1>3, <2>2, <2>3
  <1>4. CASE found = {}
    <2>1. ASSUME NEW i \in 1..u.count, u.table[s[i]].k = k PROVE FALSE
      <3>1. s[i] \in Slots(u)
        BY DEF Linked, Chain
      <3>2. Reached(u, s[i])
        BY <2>1, <3>1 DEF Linked
      <3>3. PICK d \in Slots(u) :
               /\ Probe(u, k, d) = s[i]
               /\ \A j \in 0..(d - 1) : u.table[Probe(u, k, j)].k # EMPTY
        BY <2>1, <3>2 DEF Reached
      <3>4. d \in found
        BY <2>1, <3>3
      <3> QED BY <1>4, <3>4
    <2> QED BY <1>1, <1>4, <2>1
  <1> QED BY <1>3, <1>4

\* A table that is not full has a slot that is not in use.
LEMMA FreeSlot ==
    ASSUME NEW u, NEW s, Linked(u, s), u.count < u.size
    PROVE  \E n \in Slots(u) : u.table[n].k \in {EMPTY, FREED}
  <1>1. IsTable(u) /\ s \in [1..u.count -> Slots(u)]
    BY DEF Linked, Chain
  <1>2. u.size \in Nat /\ u.count \in Nat
    BY <1>1, TableIs
  <1>3. ASSUME \A n \in Slots(u) : u.table[n].k \in Keys PROVE FALSE
    <2>1. \A n \in Slots(u) : \E i \in 1..u.count : s[i] = n
      BY <1>3 DEF Linked, InUse
    <2>2. s \in Surjection(1..u.count, Slots(u))
      BY <1>1, <2>1 DEF Surjection
    <2>3. IsFiniteSet(1..u.count) /\ Cardinality(1..u.count) = u.count
      BY <1>2, FS_Interval
    <2>4. Cardinality(Slots(u)) = u.size
      BY <1>2, FS_Interval, SMTT(30) DEF Slots
    <2>5. Cardinality(Slots(u)) <= Cardinality(1..u.count)
      BY <2>2, <2>3, FS_Surjection
    <2> QED BY <1>2, <2>3, <2>4, <2>5
  <1> QED BY <1>1, <1>3, TableIs

\* A table whose slots and list are assigned, and its fields.
WithList(u, T, c, h, l) == [u EXCEPT !.table = T, !.count = c, !.head = h, !.tail = l]

LEMMA TableExcept ==
    ASSUME NEW u, IsTable(u), NEW T \in [Slots(u) -> Slot], NEW c \in Nat, c <= u.size,
           NEW h \in Int, NEW l \in Int, NEW w, w = WithList(u, T, c, h, l)
    PROVE  /\ IsTable(w) /\ w.table = T /\ w.count = c /\ w.head = h /\ w.tail = l
           /\ w.size = u.size /\ w.hash_fn = u.hash_fn
  <1>1. u \in [size : Nat \ {0}, count : Nat, head : Int, tail : Int,
               hash_fn : [Keys -> Nat], table : {u.table}]
    BY DEF IsTable
  <1>2. /\ w \in [size : Nat \ {0}, count : Nat, head : Int, tail : Int,
                  hash_fn : [Keys -> Nat], table : {T}]
        /\ w.table = T /\ w.count = c /\ w.head = h /\ w.tail = l
        /\ w.size = u.size /\ w.hash_fn = u.hash_fn
    BY <1>1 DEF WithList
  <1>3. Slots(w) = Slots(u)
    BY <1>2, Zenon DEF Slots
  <1> QED BY <1>2, <1>3, Zenon DEF IsTable

\* What lh_table_insert does without a resize: n is the first slot on the way that is not
\* in use.
LEMMA StoreIs ==
    ASSUME NEW u, NEW s, Linked(u, s), u.count < u.size, NEW k \in Keys, NEW v
    PROVE  \E d \in Slots(u), n \in Slots(u) :
              /\ n = Probe(u, k, d) /\ u.table[n].k \in {EMPTY, FREED}
              /\ \A j \in 0..(d - 1) : u.table[Probe(u, k, j)].k # EMPTY
              /\ Store(u, k, v) =
                   LET e == [k |-> k, v |-> v, next |-> NULL, prev |-> u.tail] IN
                   IF u.head = NULL
                   THEN WithList(u, [u.table EXCEPT ![n] = [e EXCEPT !.prev = NULL]],
                                 u.count + 1, n, n)
                   ELSE WithList(u, [u.table EXCEPT ![u.tail].next = n, ![n] = e],
                                 u.count + 1, u.head, n)
  <1> DEFINE free == {i \in Slots(u) : u.table[Probe(u, k, i)].k \in {EMPTY, FREED}}
             d == Min(free)
             n == Probe(u, k, d)
  <1>1. IsTable(u)
    BY DEF Linked
  <1>2. free # {} /\ free \subseteq Nat
    <2>1. PICK m \in Slots(u) : u.table[m].k \in {EMPTY, FREED}
      BY FreeSlot
    <2>2. PICK i \in Slots(u) : Probe(u, k, i) = m
      BY <1>1, ProbeIs
    <2>3. i \in free
      BY <2>1, <2>2
    <2>4. free \subseteq Nat
      BY <1>1, TableIs
    <2> QED BY <2>3, <2>4
  <1>3. d \in free /\ \A y \in free : d <= y
    <2> HIDE DEF free
    <2> QED BY <1>2, LeastIs
  <1>4. d \in Slots(u) /\ n \in Slots(u) /\ u.table[n].k \in {EMPTY, FREED}
    BY <1>1, <1>3, ProbeIs
  <1>5. ASSUME NEW j \in 0..(d - 1) PROVE u.table[Probe(u, k, j)].k # EMPTY
    <2>1. d \in Nat /\ d < u.size /\ u.size \in Nat
      BY <1>1, <1>4, TableIs
    <2>2. j \in Slots(u) /\ ~(d <= j)
      <3> HIDE DEF d
      <3> QED BY <2>1 DEF Slots
    <2>3. j \notin free
      BY <1>3, <2>2
    <2> QED BY <2>2, <2>3
  <1> DEFINE e == [k |-> k, v |-> v, next |-> NULL, prev |-> u.tail]
             T0 == [u.table EXCEPT ![n] = [e EXCEPT !.prev = NULL]]
             T1 == [u.table EXCEPT ![u.tail].next = n, ![n] = e]
  <1>6. u \in [size : Nat \ {0}, count : Nat, head : Int, tail : Int,
               hash_fn : [Keys -> Nat], table : {u.table}]
    BY <1>1 DEF IsTable
  <1>7. ASSUME u.head = NULL PROVE Store(u, k, v) = WithList(u, T0, u.count + 1, n, n)
    <2>1. Store(u, k, v) =
            [u EXCEPT !.table[n] = [e EXCEPT !.prev = NULL], !.count = @ + 1,
                      !.head = n, !.tail = n]
      BY <1>7, Zenon DEF Store, Slots
    <2> HIDE DEF n, e
    <2> QED BY <1>6, <2>1 DEF WithList
  <1>8. ASSUME u.head # NULL PROVE Store(u, k, v) = WithList(u, T1, u.count + 1, u.head, n)
    <2>1. Store(u, k, v) =
            [u EXCEPT !.table = [@ EXCEPT ![u.tail].next = n, ![n] = e],
                      !.count = @ + 1, !.tail = n]
      BY <1>8, Zenon DEF Store, Slots
    <2> HIDE DEF n, e
    <2> QED BY <1>6, <2>1 DEF WithList
  <1> HIDE DEF d, n
  <1> QED BY <1>4, <1>5, <1>7, <1>8 DEF n

\* What is left alone by a table operation that keeps the size and the hash function.
LEMMA SameProbe ==
    ASSUME NEW u, NEW w, w.size = u.size, w.hash_fn = u.hash_fn
    PROVE  Slots(w) = Slots(u) /\ \A k, d : Probe(w, k, d) = Probe(u, k, d)
  BY Zenon DEF Slots, Probe

\* The table after a store that found the slot n after d others, in this slot and in the
\* other ones.
Stored(u, k, v, d, n, w) ==
    /\ n = Probe(u, k, d) /\ u.table[n].k \in {EMPTY, FREED}
    /\ \A j \in 0..(d - 1) : u.table[Probe(u, k, j)].k # EMPTY
    /\ IsTable(w)
    /\ w.size = u.size /\ w.count = u.count + 1 /\ w.hash_fn = u.hash_fn
    /\ w.head = (IF u.count = 0 THEN n ELSE u.head) /\ w.tail = n
    /\ w.table[n] = [k |-> k, v |-> v, next |-> NULL, prev |-> u.tail]
    /\ \A m \in Slots(u) : m # n =>
          /\ w.table[m].k = u.table[m].k /\ w.table[m].v = u.table[m].v
          /\ w.table[m].prev = u.table[m].prev
          /\ w.table[m].next = IF u.count # 0 /\ m = u.tail THEN n ELSE u.table[m].next

LEMMA StoreFields ==
    ASSUME NEW u, NEW s, Linked(u, s), u.count < u.size, NEW k \in Keys, NEW v \in Value
    PROVE  \E d \in Slots(u), n \in Slots(u) : Stored(u, k, v, d, n, Store(u, k, v))
  <1>1. PICK d \in Slots(u), n \in Slots(u) :
           /\ n = Probe(u, k, d) /\ u.table[n].k \in {EMPTY, FREED}
           /\ \A j \in 0..(d - 1) : u.table[Probe(u, k, j)].k # EMPTY
           /\ Store(u, k, v) =
                LET e == [k |-> k, v |-> v, next |-> NULL, prev |-> u.tail] IN
                IF u.head = NULL
                THEN WithList(u, [u.table EXCEPT ![n] = [e EXCEPT !.prev = NULL]],
                              u.count + 1, n, n)
                ELSE WithList(u, [u.table EXCEPT ![u.tail].next = n, ![n] = e],
                              u.count + 1, u.head, n)
    BY StoreIs, Zenon
  <1> DEFINE w == Store(u, k, v)
             e == [k |-> k, v |-> v, next |-> NULL, prev |-> u.tail]
  <1>2. IsTable(u) /\ Chain(u, s)
    BY DEF Linked
  <1>3. /\ u.size \in Nat /\ u.size > 0 /\ u.count \in Nat /\ u.table \in [Slots(u) -> Slot]
        /\ u.head \in Int /\ u.tail \in Int /\ n \in Int /\ n # NULL
        /\ u.hash_fn \in [Keys -> Nat]
    BY <1>1, <1>2, TableIs
  <1>4. u \in [size : Nat \ {0}, count : Nat, head : Int, tail : Int,
               hash_fn : [Keys -> Nat], table : {u.table}]
    BY <1>2 DEF IsTable
  <1>5. e \in Slot
    BY <1>3 DEF Slot, NULL
  <1> HIDE DEF e
  <1> DEFINE T == [u.table EXCEPT ![n] = e]
             tt == [u.table EXCEPT ![u.tail].next = n]
             tT == [tt EXCEPT ![n] = e]
  <1> DEFINE Good ==
        /\ IsTable(w)
        /\ w.size = u.size /\ w.count = u.count + 1 /\ w.hash_fn = u.hash_fn
        /\ w.head = (IF u.count = 0 THEN n ELSE u.head) /\ w.tail = n /\ w.table[n] = e
        /\ \A m \in Slots(u) : m # n =>
              /\ w.table[m].k = u.table[m].k /\ w.table[m].v = u.table[m].v
              /\ w.table[m].prev = u.table[m].prev
              /\ w.table[m].next =
                    IF u.count # 0 /\ m = u.tail THEN n ELSE u.table[m].next
  <1>c. u.count + 1 \in Nat /\ u.count + 1 <= u.size
    BY <1>3
  <1>6. ASSUME u.count = 0 PROVE Good
    <2>1. u.head = NULL /\ u.tail = NULL
      BY <1>2, <1>6 DEF Chain
    <2>2. w = WithList(u, T, u.count + 1, n, n)
      BY <1>1, <2>1 DEF e
    <2>3. T \in [Slots(u) -> Slot] /\ T[n] = e /\ \A m \in Slots(u) : m # n => T[m] = u.table[m]
      BY <1>3, <1>5
    <2> HIDE DEF w, T
    <2>4. /\ IsTable(w) /\ w.table = T /\ w.count = u.count + 1 /\ w.head = n /\ w.tail = n
          /\ w.size = u.size /\ w.hash_fn = u.hash_fn
      BY <1>2, <1>3, <1>c, <2>2, <2>3, TableExcept
    <2> QED BY <1>6, <2>3, <2>4
  <1>7. ASSUME u.count # 0 PROVE Good
    <2>1. u.head \in Slots(u) /\ u.tail \in Slots(u) /\ u.head # NULL
      <3>1. 1 \in 1..u.count /\ u.count \in 1..u.count
        BY <1>3, <1>7
      <3>2. u.head = s[1] /\ u.tail = s[u.count]
        BY <1>2, <1>7, Zenon DEF Chain
      <3>3. s[1] \in Slots(u) /\ s[u.count] \in Slots(u)
        BY <1>2, <3>1, Zenon DEF Chain
      <3>4. s[1] # NULL
        BY <1>2, <3>3, TableIs, Zenon
      <3> QED BY <3>2, <3>3, <3>4, Zenon
    <2>2. w = WithList(u, tT, u.count + 1, u.head, n)
      BY <1>1, <2>1 DEF e
    <2>3. /\ tt \in [Slots(u) -> Slot]
          /\ \A m \in Slots(u) :
                /\ tt[m].k = u.table[m].k /\ tt[m].v = u.table[m].v
                /\ tt[m].prev = u.table[m].prev
                /\ tt[m].next = IF m = u.tail THEN n ELSE u.table[m].next
      BY <1>3, <2>1 DEF Slot
    <2> HIDE DEF tt
    <2>4. tT \in [Slots(u) -> Slot] /\ tT[n] = e /\ \A m \in Slots(u) : m # n => tT[m] = tt[m]
      BY <1>5, <2>3
    <2> HIDE DEF w, tT
    <2>5. /\ IsTable(w) /\ w.table = tT /\ w.count = u.count + 1 /\ w.head = u.head
          /\ w.tail = n /\ w.size = u.size /\ w.hash_fn = u.hash_fn
      BY <1>2, <1>3, <1>c, <2>2, <2>4, TableExcept
    <2> QED BY <1>7, <2>3, <2>4, <2>5
  <1>8. Good
    BY <1>6, <1>7
  <1>9. /\ n = Probe(u, k, d) /\ u.table[n].k \in {EMPTY, FREED}
        /\ \A j \in 0..(d - 1) : u.table[Probe(u, k, j)].k # EMPTY
    BY <1>1
  <1>10. Stored(u, k, v, d, n, w)
    BY <1>8, <1>9, Zenon DEF Stored, e
  <1> QED BY <1>10, Zenon

\* A store of a new name puts its entry at the end of the list.
LEMMA StoreLinked ==
    ASSUME NEW u, NEW s, Linked(u, s), u.count < u.size, NEW k \in Keys, NEW v \in Value,
           \A i \in 1..u.count : u.table[s[i]].k # k
    PROVE  \E w, r :
              /\ w = Store(u, k, v) /\ Linked(w, r)
              /\ w.size = u.size /\ w.count = u.count + 1 /\ w.hash_fn = u.hash_fn
              /\ \A i \in 1..u.count : /\ w.table[r[i]].k = u.table[s[i]].k
                                       /\ w.table[r[i]].v = u.table[s[i]].v
              /\ w.table[r[u.count + 1]].k = k /\ w.table[r[u.count + 1]].v = v
  <1> DEFINE w == Store(u, k, v)
  <1>0. PICK d \in Slots(u), n \in Slots(u) : Stored(u, k, v, d, n, w)
    BY StoreFields, Zenon
  <1> HIDE DEF w
  <1>1. /\ n = Probe(u, k, d) /\ u.table[n].k \in {EMPTY, FREED}
        /\ \A j \in 0..(d - 1) : u.table[Probe(u, k, j)].k # EMPTY
        /\ IsTable(w)
        /\ w.size = u.size /\ w.count = u.count + 1 /\ w.hash_fn = u.hash_fn
        /\ w.head = (IF u.count = 0 THEN n ELSE u.head) /\ w.tail = n
        /\ w.table[n] = [k |-> k, v |-> v, next |-> NULL, prev |-> u.tail]
        /\ \A m \in Slots(u) : m # n =>
              /\ w.table[m].k = u.table[m].k /\ w.table[m].v = u.table[m].v
              /\ w.table[m].prev = u.table[m].prev
              /\ w.table[m].next =
                    IF u.count # 0 /\ m = u.tail THEN n ELSE u.table[m].next
    BY <1>0, Zenon DEF Stored
  <1> DEFINE r == [i \in 1..(u.count + 1) |-> IF i <= u.count THEN s[i] ELSE n]
  <1>2. IsTable(u) /\ Chain(u, s) /\ InUse(u, s)
    BY DEF Linked
  <1>3. u.size \in Nat /\ u.count \in Nat /\ \A i \in 1..u.count : s[i] \in Slots(u)
    BY <1>2, TableIs DEF Chain
  <1>4. /\ \A i \in 1..u.count : r[i] = s[i] /\ i \in 1..(u.count + 1) /\ i # u.count + 1
        /\ r[u.count + 1] = n /\ u.count + 1 \in 1..(u.count + 1)
        /\ \A i \in 1..(u.count + 1) : i \in 1..u.count \/ i = u.count + 1
        /\ r \in [1..(u.count + 1) -> Slots(u)]
    BY <1>3
  <1>5. \A i \in 1..u.count : s[i] # n
    BY <1>1, <1>2, NotAMark DEF InUse
  <1>6. w.table[n].k = k /\ w.table[n].v = v /\ w.table[n].next = NULL
        /\ w.table[n].prev = u.tail
    BY <1>1
  <1>7. Slots(w) = Slots(u) /\ \A a, b : Probe(w, a, b) = Probe(u, a, b)
    BY <1>1, SameProbe
  <1> HIDE DEF r
  <1>8. Chain(w, r)
    <2>1. r \in [1..w.count -> Slots(w)]
      BY <1>1, <1>4, <1>7
    <2>2. w.head = r[1] /\ w.tail = r[w.count] /\ w.count # 0
      <3>1. CASE u.count = 0
        BY <1>1, <1>4, <3>1
      <3>2. CASE u.count # 0
        <4>1. 1 \in 1..u.count
          BY <1>3, <3>2
        <4> QED BY <1>1, <1>2, <1>3, <1>4, <3>2, <4>1 DEF Chain
      <3> QED BY <3>1, <3>2
    <2>3. ASSUME NEW i \in 1..u.count
          PROVE  /\ w.table[r[i]].next = r[i + 1]
                 /\ w.table[r[i]].prev = IF i = 1 THEN NULL ELSE r[i - 1]
      <3>1. r[i] = s[i] /\ s[i] \in Slots(u) /\ s[i] # n
        BY <1>3, <1>4, <1>5
      <3>2. w.table[s[i]].prev = IF i = 1 THEN NULL ELSE r[i - 1]
        <4>1. w.table[s[i]].prev = IF i = 1 THEN NULL ELSE s[i - 1]
          BY <1>1, <1>2, <3>1 DEF Chain
        <4>2. i # 1 => i - 1 \in 1..u.count
          BY <1>3
        <4> QED BY <1>4, <4>1, <4>2
      <3>3. CASE i = u.count
        <4>1. u.tail = s[i] /\ u.count # 0
          BY <1>2, <1>3, <3>3 DEF Chain
        <4> QED BY <1>1, <1>4, <3>1, <3>2, <3>3, <4>1
      <3>4. CASE i # u.count
        <4>1. u.tail # s[i]
          <5>1. u.count \in 1..u.count
            BY <1>3
          <5>2. u.tail = s[u.count]
            BY <1>2, <1>3, <5>1 DEF Chain
          <5> QED BY <1>2, <3>4, <5>1, <5>2 DEF InUse
        <4>2. i + 1 \in 1..u.count
          BY <1>3, <3>4
        <4>3. u.table[s[i]].next = s[i + 1]
          BY <1>2, <3>4 DEF Chain
        <4> QED BY <1>1, <1>4, <3>1, <3>2, <4>1, <4>2, <4>3
      <3> QED BY <3>3, <3>4
    <2>4. /\ w.table[n].next = NULL
          /\ w.table[n].prev = IF u.count + 1 = 1 THEN NULL ELSE r[u.count + 1 - 1]
      <3>1. CASE u.count = 0
        BY <1>2, <1>6, <3>1 DEF Chain
      <3>2. CASE u.count # 0
        <4>1. u.count \in 1..u.count /\ u.count + 1 # 1 /\ u.count + 1 - 1 = u.count
          BY <1>3, <3>2
        <4>2. u.tail = s[u.count]
          BY <1>2, <3>2 DEF Chain
        <4> QED BY <1>4, <1>6, <4>1, <4>2
      <3> QED BY <3>1, <3>2
    <2>5. ASSUME NEW i \in 1..w.count
          PROVE  /\ w.table[r[i]].next = IF i = w.count THEN NULL ELSE r[i + 1]
                 /\ w.table[r[i]].prev = IF i = 1 THEN NULL ELSE r[i - 1]
      <3>0. w.count = u.count + 1 /\ (i \in 1..u.count \/ i = u.count + 1)
        BY <1>1, <1>4
      <3>1. CASE i \in 1..u.count
        <4>1. i # w.count
          BY <1>4, <3>0, <3>1
        <4> QED BY <2>3, <3>1, <4>1, Zenon
      <3>2. CASE i = u.count + 1
        <4>1. w.count = i /\ r[i] = n
          BY <1>4, <3>0, <3>2
        <4>2. w.table[n].next = NULL
              /\ w.table[n].prev = IF i = 1 THEN NULL ELSE r[i - 1]
          BY <1>3, <2>4, <3>2
        <4> QED BY <4>1, <4>2, Zenon
      <3> QED BY <3>0, <3>1, <3>2
    <2> QED BY <2>1, <2>2, <2>5 DEF Chain
  <1>9. InUse(w, r)
    <2>1. \A i \in 1..u.count : w.table[r[i]].k = u.table[s[i]].k /\ u.table[s[i]].k \in Keys
      BY <1>1, <1>2, <1>3, <1>4, <1>5 DEF InUse
    <2>2. w.table[r[u.count + 1]].k = k
      BY <1>4, <1>6
    <2>3. \A i \in 1..w.count : i \in 1..u.count \/ i = u.count + 1
      BY <1>1, <1>4
    <2>4. \A i \in 1..w.count : w.table[r[i]].k \in Keys
      BY <2>1, <2>2, <2>3
    <2>5. \A i, j \in 1..w.count : w.table[r[i]].k = w.table[r[j]].k => i = j
      BY <1>2, <2>1, <2>2, <2>3 DEF InUse
    <2>6. ASSUME NEW m \in Slots(u), w.table[m].k \in Keys
          PROVE  \E i \in 1..w.count : r[i] = m
      <3>1. CASE m = n
        BY <1>1, <1>4, <3>1
      <3>2. CASE m # n
        <4>1. u.table[m].k \in Keys
          BY <1>1, <2>6, <3>2
        <4>2. PICK i \in 1..u.count : s[i] = m
          BY <1>2, <4>1 DEF InUse
        <4> QED BY <1>1, <1>4, <4>2
      <3> QED BY <3>1, <3>2
    <2> QED BY <1>7, <2>4, <2>5, <2>6 DEF InUse
  <1>10. ASSUME NEW m \in Slots(w), w.table[m].k \in Keys PROVE Reached(w, m)
    <2>1. \A x \in Slots(u) : u.table[x].k # EMPTY => w.table[x].k # EMPTY
      BY <1>1, <1>6, NotAMark
    <2>2. \A a \in Keys, y \in Slots(u) : Probe(u, a, y) \in Slots(u)
      BY <1>2, ProbeIs
    <2>3. \A y \in Slots(u) : y \in Nat /\ y < u.size /\ \A j \in 0..(y - 1) : j \in Slots(u)
      BY <1>3 DEF Slots
    <2>4. CASE m = n
      <3>1. \A j \in 0..(d - 1) : w.table[Probe(w, k, j)].k # EMPTY
        BY <1>1, <1>7, <2>1, <2>2, <2>3
      <3>2. d \in Slots(w) /\ Probe(w, k, d) = n
        BY <1>1, <1>7
      <3> QED BY <1>6, <2>4, <3>1, <3>2 DEF Reached
    <2>5. CASE m # n
      <3>1. w.table[m].k = u.table[m].k /\ m \in Slots(u)
        BY <1>1, <1>7, <2>5
      <3>2. Reached(u, m)
        BY <1>10, <3>1 DEF Linked
      <3>3. PICK y \in Slots(u) :
               /\ Probe(u, u.table[m].k, y) = m
               /\ \A j \in 0..(y - 1) : u.table[Probe(u, u.table[m].k, j)].k # EMPTY
        BY <3>2 DEF Reached
      <3>4. \A j \in 0..(y - 1) : w.table[Probe(w, w.table[m].k, j)].k # EMPTY
        BY <1>7, <1>10, <2>1, <2>2, <2>3, <3>1, <3>3
      <3> QED BY <1>7, <3>1, <3>3, <3>4 DEF Reached
    <2> QED BY <2>4, <2>5
  <1>11. Linked(w, r)
    BY <1>1, <1>8, <1>9, <1>10 DEF Linked
  <1>12. \A i \in 1..u.count : /\ w.table[r[i]].k = u.table[s[i]].k
                               /\ w.table[r[i]].v = u.table[s[i]].v
    BY <1>1, <1>3, <1>4, <1>5
  <1> QED BY <1>1, <1>4, <1>6, <1>11, <1>12 DEF w

\* A new table is empty.
LEMMA NewLinked ==
    ASSUME NEW m \in Nat \ {0}, NEW h \in [Keys -> Nat]
    PROVE  /\ Linked(NewTable(m, h), <<>>)
           /\ NewTable(m, h).size = m /\ NewTable(m, h).count = 0
           /\ NewTable(m, h).hash_fn = h
  <1> DEFINE w == NewTable(m, h)
             T == [n \in 0..(m - 1) |-> EmptySlot]
  <1>1. /\ w = [size |-> m, count |-> 0, head |-> NULL, tail |-> NULL, hash_fn |-> h, table |-> T]
    BY Zenon DEF NewTable
  <1> HIDE DEF w, T
  <1>2. /\ w.size = m /\ w.count = 0 /\ w.head = NULL /\ w.tail = NULL /\ w.hash_fn = h
        /\ w.table = T
    BY <1>1
  <1>3. EmptySlot \in Slot /\ EmptySlot.k = EMPTY
    BY DEF EmptySlot, Slot, NULL, Value
  <1>4. Slots(w) = 0..(m - 1)
    BY <1>2 DEF Slots
  <1>5. T \in [Slots(w) -> Slot] /\ \A n \in Slots(w) : T[n].k = EMPTY
    BY <1>3, <1>4 DEF T
  <1>6. w \in [size : Nat \ {0}, count : Nat, head : Int, tail : Int,
               hash_fn : [Keys -> Nat], table : {w.table}]
    BY <1>1, <1>2 DEF NULL
  <1>7. IsTable(w)
    BY <1>2, <1>5, <1>6 DEF IsTable
  <1>8. 1..w.count = {} /\ <<>> \in [1..w.count -> Slots(w)]
    BY <1>2
  <1>9. Chain(w, <<>>)
    BY <1>2, <1>8 DEF Chain
  <1>10. \A n \in Slots(w) : w.table[n].k \notin Keys
    BY <1>2, <1>5, NotAMark
  <1>11. InUse(w, <<>>)
    BY <1>8, <1>10 DEF InUse
  <1>12. Linked(w, <<>>)
    BY <1>7, <1>9, <1>10, <1>11 DEF Linked
  <1> QED BY <1>2, <1>12 DEF w

\* There are as many entries as the table counts.
LEMMA ChainLength ==
    ASSUME NEW u, NEW s, IsTable(u), Chain(u, s)
    PROVE  /\ Len(s) = u.count /\ s \in Seq(Slots(u)) /\ DOMAIN s = 1..u.count
           /\ \A i \in 1..u.count : s[i] \in Slots(u)
  <1>1. u.count \in Nat /\ s \in [1..u.count -> Slots(u)]
    BY TableIs DEF Chain
  <1>2. s \in Seq(Slots(u))
    BY <1>1, SeqDef
  <1> QED BY <1>1, <1>2

\* The tables that the entries of u are inserted into one by one.
Tables(u, s, m, n, f) ==
    f = [i \in 0..n |-> IF i = 0 THEN NewTable(m, u.hash_fn)
                        ELSE Store(f[i - 1], u.table[s[i]].k, u.table[s[i]].v)]

\* They exist.
LEMMA TablesExist ==
    ASSUME NEW u, NEW s, NEW m, NEW N \in Nat
    PROVE  \E f : Tables(u, s, m, N, f)
  <1> DEFINE Bad == {n \in Nat : ~ \E f : Tables(u, s, m, n, f)}
  <1>1. SUFFICES ASSUME Bad # {} PROVE FALSE
    OBVIOUS
  <1> DEFINE n == Min(Bad)
  <1>2. n \in Bad /\ \A y \in Bad : n <= y
    <2>1. Bad \subseteq Nat
      OBVIOUS
    <2> HIDE DEF Bad
    <2> QED BY <1>1, <2>1, LeastIs
  <1> HIDE DEF n
  <1>3. n \in Nat /\ ~ \E f : Tables(u, s, m, n, f)
    BY <1>2
  <1>4. CASE n = 0
    <2> DEFINE g == [i \in 0..0 |-> NewTable(m, u.hash_fn)]
    <2>1. g = [i \in 0..0 |-> IF i = 0 THEN NewTable(m, u.hash_fn)
                              ELSE Store(g[i - 1], u.table[s[i]].k, u.table[s[i]].v)]
      OBVIOUS
    <2>2. Tables(u, s, m, 0, g)
      BY <2>1, Zenon DEF Tables
    <2> QED BY <1>3, <1>4, <2>2, Zenon
  <1>5. CASE n # 0
    <2>1. n - 1 \in Nat /\ n - 1 \notin Bad
      <3>1. n - 1 \in Nat /\ ~(n <= n - 1)
        BY <1>3, <1>5
      <3> HIDE DEF Bad
      <3> QED BY <1>2, <3>1
    <2>2. PICK f : Tables(u, s, m, n - 1, f)
      BY <2>1
    <2> DEFINE g == [i \in 0..n |-> IF i < n THEN f[i]
                                    ELSE Store(f[i - 1], u.table[s[i]].k, u.table[s[i]].v)]
               e(i) == IF i = 0 THEN NewTable(m, u.hash_fn)
                       ELSE Store(f[i - 1], u.table[s[i]].k, u.table[s[i]].v)
               d(i) == IF i = 0 THEN NewTable(m, u.hash_fn)
                       ELSE Store(g[i - 1], u.table[s[i]].k, u.table[s[i]].v)
    <2>3. ASSUME NEW i \in 0..n PROVE g[i] = e(i)
      <3>1. CASE i < n
        <4>1. i \in 0..(n - 1)
          BY <1>3, <3>1
        <4>2. f = [j \in 0..(n - 1) |-> e(j)]
          BY <2>2, Zenon DEF Tables
        <4>3. f[i] = e(i)
          <5> HIDE DEF e
          <5> QED BY <4>1, <4>2, Zenon
        <4> HIDE DEF e
        <4> QED BY <3>1, <4>3
      <3>2. CASE ~(i < n)
        <4>1. i # 0
          BY <1>3, <1>5, <3>2
        <4> QED BY <3>2, <4>1
      <3> QED BY <3>1, <3>2
    <2>4. ASSUME NEW i \in 0..n PROVE e(i) = d(i)
      <3>1. CASE i = 0
        BY <3>1
      <3>2. CASE i # 0
        <4>1. i - 1 \in 0..n /\ i - 1 < n
          BY <1>3, <3>2
        <4>2. g[i - 1] = f[i - 1]
          BY <4>1
        <4> QED BY <3>2, <4>2, Zenon
      <3> QED BY <3>1, <3>2
    <2>5. g = [i \in 0..n |-> g[i]]
      OBVIOUS
    <2>6. g = [i \in 0..n |-> d(i)]
      <3> HIDE DEF g, d, e
      <3> QED BY <2>3, <2>4, <2>5, Zenon
    <2>7. Tables(u, s, m, n, g)
      <3> HIDE DEF g
      <3> QED BY <2>6, Zenon DEF Tables
    <2> QED BY <1>3, <2>7, Zenon
  <1> QED BY <1>4, <1>5

\* The table that has grown has the same entries in the same order.
LEMMA ResizeLinked ==
    ASSUME NEW u, NEW s, Linked(u, s), NEW m \in Nat, u.count < m
    PROVE  \E r : LET w == Resize(u, m) IN
              /\ Linked(w, r) /\ w.size = m /\ w.count = u.count /\ w.hash_fn = u.hash_fn
              /\ \A i \in 1..u.count : /\ w.table[r[i]].k = u.table[s[i]].k
                                       /\ w.table[r[i]].v = u.table[s[i]].v
  <1> DEFINE N == u.count
             w == Resize(u, m)
             F == CHOOSE f : Tables(u, s, m, N, f)
  <1>1. IsTable(u) /\ Chain(u, s) /\ InUse(u, s)
    BY DEF Linked
  <1>2. N \in Nat /\ u.hash_fn \in [Keys -> Nat] /\ m \in Nat \ {0}
    BY <1>1, TableIs
  <1>3. Entries(u) = s /\ Len(s) = N /\ \A i \in 1..N : s[i] \in Slots(u)
    BY <1>1, EntriesAre, ChainLength
  <1>4. Tables(u, s, m, N, F)
    BY <1>2, TablesExist
  <1>5. w = F[N]
    <2>1. w = (CHOOSE f : f = [i \in 0..Len(s) |->
                  IF i = 0 THEN NewTable(m, u.hash_fn)
                  ELSE Store(f[i - 1], u.table[s[i]].k, u.table[s[i]].v)])[Len(s)]
      BY <1>3, Zenon DEF Resize
    <2> QED BY <1>3, <2>1, Zenon DEF Tables
  <1> HIDE DEF F, w
  <1>6. \A i \in 0..N : F[i] = IF i = 0 THEN NewTable(m, u.hash_fn)
                               ELSE Store(F[i - 1], u.table[s[i]].k, u.table[s[i]].v)
    BY <1>4, Zenon DEF Tables
  <1> DEFINE Holds(i, r) ==
                /\ Linked(F[i], r) /\ F[i].size = m /\ F[i].count = i
                /\ F[i].hash_fn = u.hash_fn
                /\ \A j \in 1..i : /\ F[i].table[r[j]].k = u.table[s[j]].k
                                   /\ F[i].table[r[j]].v = u.table[s[j]].v
             Bad == {i \in 0..N : ~ \E r : Holds(i, r)}
  <1>7. ASSUME Bad # {} PROVE FALSE
    <2> DEFINE n == Min(Bad)
    <2>1. n \in Bad /\ \A y \in Bad : n <= y
      <3>1. Bad \subseteq Nat
        BY <1>2
      <3> HIDE DEF Bad
      <3> QED BY <1>7, <3>1, LeastIs
    <2> HIDE DEF n
    <2>2. n \in 0..N /\ n \in Nat /\ ~ \E r : Holds(n, r)
      <3>1. n \in 0..N /\ ~ \E r : Holds(n, r)
        BY <2>1, Zenon
      <3> HIDE DEF Holds
      <3>2. n \in Nat
        BY <1>2, <3>1
      <3> QED BY <3>1, <3>2, Zenon
    <2>3. CASE n = 0
      <3>1. F[0] = NewTable(m, u.hash_fn)
        BY <1>6, <2>2, <2>3
      <3>2. Holds(0, <<>>)
        BY <1>2, <3>1, NewLinked
      <3> QED BY <2>2, <2>3, <3>2, Zenon
    <2>4. CASE n # 0
      <3>1. n - 1 \in 0..N /\ n - 1 \in Nat /\ ~(n <= n - 1) /\ n \in 1..N /\ n - 1 < m
            /\ (n - 1) + 1 = n
        BY <1>2, <2>2, <2>4
      <3>2. n - 1 \notin Bad
        <4> HIDE DEF Bad
        <4> QED BY <2>1, <3>1
      <3>3. PICK r : Holds(n - 1, r)
        BY <3>1, <3>2
      <3> DEFINE k == u.table[s[n]].k
                 v == u.table[s[n]].v
                 x == F[n - 1]
      <3>4. k \in Keys /\ v \in Value
        BY <1>1, <1>3, <3>1, TableIs DEF InUse
      <3>5. F[n] = Store(x, k, v)
        BY <1>6, <2>2, <2>4, Zenon
      <3>6. /\ Linked(x, r) /\ x.size = m /\ x.count = n - 1 /\ x.hash_fn = u.hash_fn
            /\ \A j \in 1..(n - 1) : /\ x.table[r[j]].k = u.table[s[j]].k
                                     /\ x.table[r[j]].v = u.table[s[j]].v
        BY <3>3
      <3>7. \A j \in 1..(n - 1) : j \in 1..N /\ j # n
        BY <1>2, <3>1
      <3>8. \A j \in 1..x.count : x.table[r[j]].k # k
        BY <1>1, <3>1, <3>6, <3>7 DEF InUse
      <3> HIDE DEF k, v, x
      <3>9. x.count < x.size
        BY <3>1, <3>6
      <3>10. PICK y, q :
               /\ y = Store(x, k, v) /\ Linked(y, q)
               /\ y.size = x.size /\ y.count = x.count + 1 /\ y.hash_fn = x.hash_fn
               /\ \A i \in 1..x.count : /\ y.table[q[i]].k = x.table[r[i]].k
                                        /\ y.table[q[i]].v = x.table[r[i]].v
               /\ y.table[q[x.count + 1]].k = k /\ y.table[q[x.count + 1]].v = v
        BY <3>4, <3>6, <3>8, <3>9, StoreLinked
      <3>11. \A j \in 1..n : j \in 1..(n - 1) \/ j = n
        BY <3>1
      <3>12. \A j \in 1..n : /\ y.table[q[j]].k = u.table[s[j]].k
                             /\ y.table[q[j]].v = u.table[s[j]].v
        BY <3>1, <3>6, <3>10, <3>11, ZenonT(30) DEF k, v
      <3>13. Holds(n, q)
        BY <3>1, <3>5, <3>6, <3>10, <3>12
      <3> QED BY <2>2, <3>13
    <2> QED BY <2>3, <2>4
  <1>8. \E r : Holds(N, r)
    <2>1. N \in 0..N
      BY <1>2
    <2> QED BY <1>7, <2>1
  <1> QED BY <1>5, <1>8 DEF w

\* The assignment of a pointer of an entry.
SetNext(T, p, x) == [T EXCEPT ![p].next = x]
SetPrev(T, p, x) == [T EXCEPT ![p].prev = x]

LEMMA SetPointer ==
    ASSUME NEW S, NEW T \in [S -> Slot], NEW p \in S, NEW x \in Int
    PROVE  /\ SetNext(T, p, x) \in [S -> Slot] /\ SetPrev(T, p, x) \in [S -> Slot]
           /\ \A m \in S : /\ SetNext(T, p, x)[m].k = T[m].k /\ SetNext(T, p, x)[m].v = T[m].v
                           /\ SetNext(T, p, x)[m].prev = T[m].prev
                           /\ SetNext(T, p, x)[m].next = IF m = p THEN x ELSE T[m].next
           /\ \A m \in S : /\ SetPrev(T, p, x)[m].k = T[m].k /\ SetPrev(T, p, x)[m].v = T[m].v
                           /\ SetPrev(T, p, x)[m].next = T[m].next
                           /\ SetPrev(T, p, x)[m].prev = IF m = p THEN x ELSE T[m].prev
  BY DEF Slot, SetNext, SetPrev

\* The table after the deletion of the j-th entry.
Deleted(u, s, j, w) ==
    /\ IsTable(w) /\ w.size = u.size /\ w.count = u.count - 1 /\ w.hash_fn = u.hash_fn
    /\ w.head = (IF j = 1 THEN u.table[s[j]].next ELSE u.head)
    /\ w.tail = (IF j = u.count THEN u.table[s[j]].prev ELSE u.tail)
    /\ w.table[s[j]].k = FREED /\ w.table[s[j]].next = NULL
    /\ \A m \in Slots(u) : m # s[j] =>
          /\ w.table[m].k = u.table[m].k /\ w.table[m].v = u.table[m].v
          /\ w.table[m].next = IF j # 1 /\ m = s[j - 1]
                               THEN u.table[s[j]].next ELSE u.table[m].next
          /\ w.table[m].prev = IF j # u.count /\ m = s[j + 1]
                               THEN u.table[s[j]].prev ELSE u.table[m].prev

LEMMA DeleteFields ==
    ASSUME NEW u, NEW s, Linked(u, s), NEW j \in 1..u.count
    PROVE  Deleted(u, s, j, DeleteEntry(u, s[j]))
  <1> DEFINE n == s[j]
             e == u.table[n]
             w == DeleteEntry(u, n)
             gone == [EmptySlot EXCEPT !.k = FREED]
             T == [u.table EXCEPT ![n] = gone]
             freed == [u EXCEPT !.table[n] = gone, !.count = @ - 1]
  <1>1. IsTable(u) /\ Chain(u, s) /\ InUse(u, s)
    BY DEF Linked
  <1>2. /\ u.size \in Nat /\ u.count \in Nat /\ u.table \in [Slots(u) -> Slot]
        /\ u.head \in Int /\ u.tail \in Int /\ u.count - 1 \in Nat /\ u.count - 1 <= u.size
        /\ j \in Nat /\ j >= 1 /\ j <= u.count
    BY <1>1, TableIs
  <1>3. \A i \in 1..u.count : s[i] \in Slots(u) /\ s[i] # NULL /\ s[i] \in Int
    BY <1>1, TableIs DEF Chain
  <1>4. \A i \in 1..u.count : s[i] = n => i = j
    BY <1>1 DEF InUse
  <1>5. /\ 1 \in 1..u.count /\ u.count \in 1..u.count
        /\ u.head = s[1] /\ u.tail = s[u.count]
    BY <1>1, <1>2 DEF Chain
  <1>6. (u.head = n <=> j = 1) /\ (u.tail = n <=> j = u.count)
    BY <1>4, <1>5
  <1>7. /\ e.next = IF j = u.count THEN NULL ELSE s[j + 1]
        /\ e.prev = IF j = 1 THEN NULL ELSE s[j - 1]
        /\ e.next \in Int /\ e.prev \in Int /\ n \in Slots(u)
    BY <1>1, <1>3, TableIs DEF Chain
  <1>8. /\ j # 1 => j - 1 \in 1..u.count /\ j - 1 # j
        /\ j # u.count => j + 1 \in 1..u.count /\ j + 1 # j
    BY <1>2
  <1>9. /\ j # 1 => e.prev \in Slots(u) /\ e.prev # n
        /\ j # u.count => e.next \in Slots(u) /\ e.next # n
    BY <1>3, <1>4, <1>7, <1>8
  <1>10. gone \in Slot /\ gone.k = FREED /\ gone.next = NULL
    BY DEF EmptySlot, Slot, NULL, Value
  <1> HIDE DEF n, gone
  <1>11. /\ T \in [Slots(u) -> Slot] /\ T[n].k = FREED /\ T[n].next = NULL
         /\ \A m \in Slots(u) : m # n => T[m] = u.table[m]
    BY <1>2, <1>7, <1>10
  <1> HIDE DEF T, e
  <1>12. /\ IsTable(freed) /\ freed.table = T /\ freed.count = u.count - 1
         /\ freed.head = u.head /\ freed.tail = u.tail
         /\ freed.size = u.size /\ freed.hash_fn = u.hash_fn /\ Slots(freed) = Slots(u)
    <2>1. u \in [size : Nat \ {0}, count : Nat, head : Int, tail : Int,
                 hash_fn : [Keys -> Nat], table : {u.table}]
      BY <1>1 DEF IsTable
    <2>2. freed = WithList(u, T, u.count - 1, u.head, u.tail)
      BY <2>1 DEF WithList, T
    <2> HIDE DEF freed
    <2>3. /\ IsTable(freed) /\ freed.table = T /\ freed.count = u.count - 1
          /\ freed.head = u.head /\ freed.tail = u.tail
          /\ freed.size = u.size /\ freed.hash_fn = u.hash_fn
      BY <1>1, <1>2, <1>11, <2>2, TableExcept
    <2> QED BY <2>3, SameProbe
  <1>13. w = CASE u.head = n /\ u.tail = n -> [freed EXCEPT !.head = NULL, !.tail = NULL]
              [] u.head = n /\ u.tail # n -> [freed EXCEPT !.head = e.next,
                                                           !.table[e.next].prev = NULL]
              [] u.head # n /\ u.tail = n -> [freed EXCEPT !.tail = e.prev,
                                                           !.table[e.prev].next = NULL]
              [] OTHER -> [freed EXCEPT !.table = [@ EXCEPT ![e.prev].next = e.next,
                                                            ![e.next].prev = e.prev]]
    BY Zenon DEF DeleteEntry, e, gone
  <1>14. freed \in [size : Nat \ {0}, count : Nat, head : Int, tail : Int,
                    hash_fn : [Keys -> Nat], table : {freed.table}]
    BY <1>12 DEF IsTable
  <1> HIDE DEF w, freed
  <1> DEFINE Good ==
                /\ IsTable(w) /\ w.size = u.size /\ w.count = u.count - 1
                /\ w.hash_fn = u.hash_fn
                /\ w.head = (IF j = 1 THEN e.next ELSE u.head)
                /\ w.tail = (IF j = u.count THEN e.prev ELSE u.tail)
                /\ w.table[n].k = FREED /\ w.table[n].next = NULL
                /\ \A m \in Slots(u) : m # n =>
                      /\ w.table[m].k = u.table[m].k /\ w.table[m].v = u.table[m].v
                      /\ w.table[m].next = IF j # 1 /\ m = s[j - 1] THEN e.next
                                           ELSE u.table[m].next
                      /\ w.table[m].prev = IF j # u.count /\ m = s[j + 1] THEN e.prev
                                           ELSE u.table[m].prev
             nx == SetNext(T, e.prev, e.next)
             pv == SetPrev(T, e.next, e.prev)
             np == SetPrev(nx, e.next, e.prev)
  <1>15. NULL \in Int
    BY DEF NULL
  <1>16. ASSUME NEW TT \in [Slots(u) -> Slot], NEW h \in Int, NEW l \in Int,
                w = WithList(freed, TT, u.count - 1, h, l)
         PROVE  /\ IsTable(w) /\ w.table = TT /\ w.count = u.count - 1
                /\ w.head = h /\ w.tail = l /\ w.size = u.size /\ w.hash_fn = u.hash_fn
    BY <1>2, <1>12, <1>16, TableExcept
  <1>17. ASSUME j = 1 /\ j = u.count PROVE Good
    <2>1. w = [freed EXCEPT !.head = NULL, !.tail = NULL]
      BY <1>6, <1>13, <1>17
    <2>2. w = WithList(freed, T, u.count - 1, NULL, NULL)
      BY <1>12, <1>14, <2>1 DEF WithList, SetNext, SetPrev
    <2>3. /\ IsTable(w) /\ w.table = T /\ w.count = u.count - 1
          /\ w.head = NULL /\ w.tail = NULL /\ w.size = u.size /\ w.hash_fn = u.hash_fn
      BY <1>11, <1>15, <1>16, <2>2
    <2> QED BY <1>7, <1>11, <1>17, <2>3
  <1>18. ASSUME j = 1 /\ j # u.count PROVE Good
    <2>1. w = [freed EXCEPT !.head = e.next, !.table[e.next].prev = NULL]
      BY <1>6, <1>13, <1>18
    <2>2. w = WithList(freed, pv, u.count - 1, e.next, u.tail) /\ e.prev = NULL
      BY <1>7, <1>12, <1>14, <1>18, <2>1 DEF WithList, SetNext, SetPrev
    <2>3. /\ pv \in [Slots(u) -> Slot]
          /\ \A m \in Slots(u) : /\ pv[m].k = T[m].k /\ pv[m].v = T[m].v
                                 /\ pv[m].next = T[m].next
                                 /\ pv[m].prev = IF m = e.next THEN e.prev ELSE T[m].prev
      BY <1>7, <1>9, <1>11, <1>18, SetPointer
    <2> HIDE DEF pv
    <2>4. /\ IsTable(w) /\ w.table = pv /\ w.count = u.count - 1
          /\ w.head = e.next /\ w.tail = u.tail /\ w.size = u.size /\ w.hash_fn = u.hash_fn
      BY <1>2, <1>7, <1>16, <2>2, <2>3
    <2> QED BY <1>7, <1>11, <1>18, <2>3, <2>4
  <1>19. ASSUME j # 1 /\ j = u.count PROVE Good
    <2>1. w = [freed EXCEPT !.tail = e.prev, !.table[e.prev].next = NULL]
      BY <1>6, <1>13, <1>19
    <2>2. w = WithList(freed, nx, u.count - 1, u.head, e.prev) /\ e.next = NULL
      BY <1>7, <1>12, <1>14, <1>19, <2>1 DEF WithList, SetNext, SetPrev
    <2>3. /\ nx \in [Slots(u) -> Slot]
          /\ \A m \in Slots(u) : /\ nx[m].k = T[m].k /\ nx[m].v = T[m].v
                                 /\ nx[m].prev = T[m].prev
                                 /\ nx[m].next = IF m = e.prev THEN e.next ELSE T[m].next
      BY <1>7, <1>9, <1>11, <1>19, SetPointer
    <2> HIDE DEF nx
    <2>4. /\ IsTable(w) /\ w.table = nx /\ w.count = u.count - 1
          /\ w.head = u.head /\ w.tail = e.prev /\ w.size = u.size /\ w.hash_fn = u.hash_fn
      BY <1>2, <1>7, <1>16, <2>2, <2>3
    <2> QED BY <1>7, <1>9, <1>11, <1>19, <2>3, <2>4
  <1>20. ASSUME j # 1 /\ j # u.count PROVE Good
    <2>1. w = [freed EXCEPT !.table = [@ EXCEPT ![e.prev].next = e.next,
                                                ![e.next].prev = e.prev]]
      BY <1>6, <1>13, <1>20
    <2>2. w = WithList(freed, np, u.count - 1, u.head, u.tail)
      BY <1>12, <1>14, <2>1, ZenonT(30) DEF WithList, SetNext, SetPrev
    <2>3. /\ nx \in [Slots(u) -> Slot]
          /\ \A m \in Slots(u) : /\ nx[m].k = T[m].k /\ nx[m].v = T[m].v
                                 /\ nx[m].prev = T[m].prev
                                 /\ nx[m].next = IF m = e.prev THEN e.next ELSE T[m].next
      BY <1>7, <1>9, <1>11, <1>20, SetPointer, SMTT(30)
    <2> HIDE DEF nx
    <2>4. /\ np \in [Slots(u) -> Slot]
          /\ \A m \in Slots(u) : /\ np[m].k = nx[m].k /\ np[m].v = nx[m].v
                                 /\ np[m].next = nx[m].next
                                 /\ np[m].prev = IF m = e.next THEN e.prev ELSE nx[m].prev
      <3>1. e.next \in Slots(u) /\ e.prev \in Int
        BY <1>7, <1>9, <1>20, Zenon
      <3>2. nx \in [Slots(u) -> Slot]
        BY <2>3
      <3> QED BY <3>1, <3>2, SetPointer, SMTT(30)
    <2> HIDE DEF np
    <2>5. /\ IsTable(w) /\ w.table = np /\ w.count = u.count - 1
          /\ w.head = u.head /\ w.tail = u.tail /\ w.size = u.size /\ w.hash_fn = u.hash_fn
      BY <1>2, <1>7, <1>16, <2>2, <2>4
    <2> QED BY <1>7, <1>9, <1>11, <1>20, <2>3, <2>4, <2>5
  <1>21. Good
    BY <1>17, <1>18, <1>19, <1>20
  <1> QED BY <1>21, Zenon DEF Deleted, w, n, e

\* A deletion takes its entry out of the list and leaves the others found.
LEMMA DeleteLinked ==
    ASSUME NEW u, NEW s, Linked(u, s), NEW j \in 1..u.count
    PROVE  LET w == DeleteEntry(u, s[j])
               r == [i \in 1..(u.count - 1) |-> IF i < j THEN s[i] ELSE s[i + 1]] IN
           /\ Linked(w, r) /\ w.count = u.count - 1
           /\ w.size = u.size /\ w.hash_fn = u.hash_fn
           /\ \A m \in Slots(u) : m # s[j] =>
                 /\ w.table[m].k = u.table[m].k /\ w.table[m].v = u.table[m].v
                 /\ (j # 1 /\ m = s[j - 1]) \/ w.table[m].next = u.table[m].next
  <1> DEFINE w == DeleteEntry(u, s[j])
             r == [i \in 1..(u.count - 1) |-> IF i < j THEN s[i] ELSE s[i + 1]]
             up(i) == IF i < j THEN i ELSE i + 1
  <1>0. Deleted(u, s, j, w)
    BY DeleteFields
  <1> HIDE DEF w
  <1>1. /\ IsTable(w) /\ w.size = u.size /\ w.count = u.count - 1 /\ w.hash_fn = u.hash_fn
        /\ w.head = (IF j = 1 THEN u.table[s[j]].next ELSE u.head)
        /\ w.tail = (IF j = u.count THEN u.table[s[j]].prev ELSE u.tail)
        /\ w.table[s[j]].k = FREED
        /\ \A m \in Slots(u) : m # s[j] =>
              /\ w.table[m].k = u.table[m].k /\ w.table[m].v = u.table[m].v
              /\ w.table[m].next = IF j # 1 /\ m = s[j - 1]
                                   THEN u.table[s[j]].next ELSE u.table[m].next
              /\ w.table[m].prev = IF j # u.count /\ m = s[j + 1]
                                   THEN u.table[s[j]].prev ELSE u.table[m].prev
    BY <1>0, Zenon DEF Deleted
  <1>2. IsTable(u) /\ Chain(u, s) /\ InUse(u, s)
    BY DEF Linked
  <1>3. /\ u.size \in Nat /\ u.count \in Nat /\ j \in Nat /\ j >= 1 /\ j <= u.count
        /\ \A i \in 1..u.count : s[i] \in Slots(u)
    BY <1>2, TableIs, SMTT(30) DEF Chain
  <1>4. \A a, b \in 1..u.count : s[a] = s[b] => a = b
    BY <1>2 DEF InUse
  <1>5. \A i \in 1..(u.count - 1) : up(i) \in 1..u.count /\ up(i) # j /\ r[i] = s[up(i)]
    BY <1>3
  <1>6. \A a \in 1..u.count : a # j => \E i \in 1..(u.count - 1) : up(i) = a
    <2>1. ASSUME NEW a \in 1..u.count, a < j PROVE a \in 1..(u.count - 1) /\ up(a) = a
      BY <1>3, <2>1
    <2>2. ASSUME NEW a \in 1..u.count, a > j PROVE a - 1 \in 1..(u.count - 1) /\ up(a - 1) = a
      BY <1>3, <2>2
    <2>3. \A a \in 1..u.count : a < j \/ a > j \/ a = j
      BY <1>3
    <2> HIDE DEF up
    <2> QED BY <2>1, <2>2, <2>3
  <1>7. \A i \in 1..(u.count - 1) : r[i] \in Slots(u) /\ r[i] # s[j]
    BY <1>3, <1>4, <1>5
  <1>8. Slots(w) = Slots(u) /\ \A a, b : Probe(w, a, b) = Probe(u, a, b)
    BY <1>1, SameProbe
  <1>9. r \in [1..w.count -> Slots(w)]
    <2>1. r = [i \in 1..(u.count - 1) |-> r[i]]
      OBVIOUS
    <2> HIDE DEF r
    <2> QED BY <1>1, <1>7, <1>8, <2>1
  <1>10. ASSUME NEW i \in 1..(u.count - 1)
         PROVE  /\ w.table[r[i]].next = IF i = u.count - 1 THEN NULL ELSE r[i + 1]
                /\ w.table[r[i]].prev = IF i = 1 THEN NULL ELSE r[i - 1]
    <2> DEFINE a == up(i)
    <2>0. i \in Nat /\ i >= 1 /\ i <= u.count - 1
      BY <1>3
    <2>1. a \in 1..u.count /\ a # j /\ r[i] = s[a] /\ s[a] \in Slots(u) /\ s[a] # s[j]
      BY <1>3, <1>4, <1>5
    <2>2. /\ u.table[s[a]].next = IF a = u.count THEN NULL ELSE s[a + 1]
          /\ u.table[s[a]].prev = IF a = 1 THEN NULL ELSE s[a - 1]
      BY <1>2, <2>1 DEF Chain
    <2>3. /\ u.table[s[j]].next = IF j = u.count THEN NULL ELSE s[j + 1]
          /\ u.table[s[j]].prev = IF j = 1 THEN NULL ELSE s[j - 1]
      BY <1>2 DEF Chain
    <2>4. w.table[r[i]].next = IF a = j - 1 THEN u.table[s[j]].next ELSE u.table[s[a]].next
      <3> HIDE DEF a
      <3>1. j # 1 => j - 1 \in 1..u.count
        BY <1>3
      <3>2. j # 1 => (s[a] = s[j - 1] <=> a = j - 1)
        BY <1>4, <2>1, <3>1
      <3>3. j = 1 => a # j - 1
        BY <2>1
      <3>4. w.table[s[a]].next = IF j # 1 /\ s[a] = s[j - 1]
                                 THEN u.table[s[j]].next ELSE u.table[s[a]].next
        BY <1>1, <2>1
      <3> QED BY <2>1, <3>2, <3>3, <3>4, Zenon
    <2>5. w.table[r[i]].prev = IF a = j + 1 THEN u.table[s[j]].prev ELSE u.table[s[a]].prev
      <3> HIDE DEF a
      <3>1. j # u.count => j + 1 \in 1..u.count
        BY <1>3
      <3>2. j # u.count => (s[a] = s[j + 1] <=> a = j + 1)
        BY <1>4, <2>1, <3>1
      <3>3. j = u.count => a # j + 1
        BY <1>3, <2>1
      <3>4. w.table[s[a]].prev = IF j # u.count /\ s[a] = s[j + 1]
                                 THEN u.table[s[j]].prev ELSE u.table[s[a]].prev
        BY <1>1, <2>1
      <3> QED BY <2>1, <3>2, <3>3, <3>4, Zenon
    <2>6. i < u.count - 1 => r[i + 1] = s[up(i + 1)]
      <3>1. i < u.count - 1 => i + 1 \in 1..(u.count - 1)
        BY <1>3, <2>0
      <3> HIDE DEF r, up
      <3> QED BY <1>5, <3>1
    <2>7. i # 1 => r[i - 1] = s[up(i - 1)]
      <3>1. i # 1 => i - 1 \in 1..(u.count - 1)
        BY <1>3, <2>0
      <3> HIDE DEF r, up
      <3> QED BY <1>5, <3>1
    <2> HIDE DEF r
    <2>8. w.table[r[i]].next = IF i = u.count - 1 THEN NULL ELSE r[i + 1]
      <3>1. CASE a = j - 1
        <4>1. i = j - 1 /\ j # 1
          BY <1>3, <2>0, <3>1
        <4>2. CASE j = u.count
          BY <2>3, <2>4, <3>1, <4>1, <4>2
        <4>3. CASE j # u.count
          <5>1. i < u.count - 1 /\ i # u.count - 1 /\ up(i + 1) = j + 1
            BY <1>3, <2>0, <4>1, <4>3
          <5> HIDE DEF a
          <5> QED BY <2>3, <2>4, <2>6, <3>1, <4>3, <5>1
        <4> QED BY <4>2, <4>3
      <3>2. CASE a # j - 1
        <4>1. CASE i = u.count - 1
          <5>1. a = u.count
            BY <1>3, <2>0, <3>2, <4>1
          <5> HIDE DEF a
          <5> QED BY <2>2, <2>4, <3>2, <4>1, <5>1
        <4>2. CASE i # u.count - 1
          <5>1. i < u.count - 1 /\ up(i + 1) = a + 1 /\ a # u.count
            BY <1>3, <2>0, <3>2, <4>2
          <5> HIDE DEF a, up
          <5> QED BY <2>2, <2>4, <2>6, <3>2, <4>2, <5>1
        <4> QED BY <4>1, <4>2
      <3> QED BY <3>1, <3>2
    <2>9. w.table[r[i]].prev = IF i = 1 THEN NULL ELSE r[i - 1]
      <3>1. CASE a = j + 1
        <4>1. i = j
          BY <1>3, <2>0, <3>1
        <4>2. CASE j = 1
          BY <2>3, <2>5, <3>1, <4>1, <4>2
        <4>3. CASE j # 1
          <5>1. i # 1 /\ up(i - 1) = j - 1
            BY <1>3, <2>0, <4>1, <4>3
          <5> HIDE DEF a
          <5> QED BY <2>3, <2>5, <2>7, <3>1, <4>3, <5>1
        <4> QED BY <4>2, <4>3
      <3>2. CASE a # j + 1
        <4>1. CASE i = 1
          <5>1. a = 1
            BY <1>3, <2>0, <3>2, <4>1
          <5> HIDE DEF a
          <5> QED BY <2>2, <2>5, <3>2, <4>1, <5>1
        <4>2. CASE i # 1
          <5>1. up(i - 1) = a - 1 /\ a # 1
            BY <1>3, <2>0, <3>2, <4>2
          <5> HIDE DEF a, up
          <5> QED BY <2>2, <2>5, <2>7, <3>2, <4>2, <5>1
        <4> QED BY <4>1, <4>2
      <3> QED BY <3>1, <3>2
    <2> QED BY <2>8, <2>9
  <1>11. /\ w.head = IF w.count = 0 THEN NULL ELSE r[1]
         /\ w.tail = IF w.count = 0 THEN NULL ELSE r[w.count]
    <2>1. /\ u.table[s[j]].next = IF j = u.count THEN NULL ELSE s[j + 1]
          /\ u.table[s[j]].prev = IF j = 1 THEN NULL ELSE s[j - 1]
          /\ u.head = s[1] /\ u.tail = s[u.count]
      BY <1>2, <1>3 DEF Chain
    <2>2. CASE u.count = 1
      BY <1>1, <1>3, <2>1, <2>2
    <2>3. CASE u.count # 1
      <3>1. /\ 1 \in 1..(u.count - 1) /\ u.count - 1 \in 1..(u.count - 1)
            /\ w.count # 0
        BY <1>1, <1>3, <2>3
      <3>2. r[1] = s[up(1)] /\ r[w.count] = s[up(u.count - 1)]
        BY <1>1, <1>5, <3>1
      <3>3. /\ up(1) = IF j = 1 THEN 2 ELSE 1
            /\ up(u.count - 1) = IF j = u.count THEN u.count - 1 ELSE u.count
        BY <1>3, <2>3
      <3> HIDE DEF r, up
      <3>4. w.head = r[1]
        BY <1>1, <1>3, <2>1, <2>3, <3>2, <3>3
      <3>5. w.tail = r[w.count]
        BY <1>1, <1>3, <2>1, <2>3, <3>2, <3>3
      <3> QED BY <3>1, <3>4, <3>5
    <2> QED BY <2>2, <2>3
  <1> HIDE DEF r, up
  <1>12. Chain(w, r)
    BY <1>1, <1>9, <1>10, <1>11 DEF Chain
  <1>13. InUse(w, r)
    <2>1. \A i \in 1..(u.count - 1) : w.table[r[i]].k = u.table[s[up(i)]].k
      BY <1>1, <1>5, <1>7
    <2>2. \A i \in 1..(u.count - 1) : w.table[r[i]].k \in Keys
      BY <1>2, <1>5, <2>1 DEF InUse
    <2>3. \A i, h \in 1..(u.count - 1) : w.table[r[i]].k = w.table[r[h]].k => up(i) = up(h)
      BY <1>2, <1>5, <2>1 DEF InUse
    <2>4. \A i, h \in 1..(u.count - 1) : up(i) = up(h) => i = h
      BY <1>3 DEF up
    <2>5. ASSUME NEW m \in Slots(u), w.table[m].k \in Keys
          PROVE  \E i \in 1..(u.count - 1) : r[i] = m
      <3>1. m # s[j]
        BY <1>1, <2>5, NotAMark
      <3>2. u.table[m].k \in Keys
        BY <1>1, <2>5, <3>1
      <3>3. PICK a \in 1..u.count : s[a] = m
        BY <1>2, <3>2 DEF InUse
      <3>4. PICK i \in 1..(u.count - 1) : up(i) = a
        BY <1>6, <3>1, <3>3
      <3> QED BY <1>5, <3>3, <3>4
    <2> QED BY <1>1, <1>8, <2>2, <2>3, <2>4, <2>5 DEF InUse
  <1>14. ASSUME NEW m \in Slots(w), w.table[m].k \in Keys PROVE Reached(w, m)
    <2>1. \A x \in Slots(u) : u.table[x].k # EMPTY => w.table[x].k # EMPTY
      BY <1>1 DEF EMPTY, FREED
    <2>2. \A a \in Keys, y \in Slots(u) : Probe(u, a, y) \in Slots(u)
      BY <1>2, ProbeIs
    <2>3. \A y \in Slots(u) : \A i \in 0..(y - 1) : i \in Slots(u)
      BY <1>3 DEF Slots
    <2>4. m \in Slots(u) /\ w.table[m].k = u.table[m].k
      BY <1>1, <1>8, <1>14, NotAMark
    <2>5. Reached(u, m)
      BY <1>14, <2>4 DEF Linked
    <2>6. PICK y \in Slots(u) :
             /\ Probe(u, u.table[m].k, y) = m
             /\ \A i \in 0..(y - 1) : u.table[Probe(u, u.table[m].k, i)].k # EMPTY
      BY <2>5 DEF Reached
    <2>7. \A i \in 0..(y - 1) : w.table[Probe(w, w.table[m].k, i)].k # EMPTY
      BY <1>8, <1>14, <2>1, <2>2, <2>3, <2>4, <2>6
    <2> QED BY <1>8, <2>4, <2>6, <2>7 DEF Reached
  <1>15. Linked(w, r)
    BY <1>1, <1>12, <1>13, <1>14 DEF Linked
  <1> QED BY <1>1, <1>15 DEF w, r

\* A value that is replaced changes nothing else.
WithValue(u, n, v) == [u EXCEPT !.table[n].v = v]

LEMMA ReplaceLinked ==
    ASSUME NEW u, NEW s, Linked(u, s), NEW n \in Slots(u), NEW v \in Value,
           NEW w, w = WithValue(u, n, v)
    PROVE  /\ Linked(w, s) /\ w.count = u.count /\ w.size = u.size /\ w.hash_fn = u.hash_fn
           /\ \A m \in Slots(u) : /\ w.table[m].k = u.table[m].k
                                  /\ w.table[m].next = u.table[m].next
                                  /\ w.table[m].v = IF m = n THEN v ELSE u.table[m].v
  <1> DEFINE T == [u.table EXCEPT ![n].v = v]
  <1>1. IsTable(u) /\ Chain(u, s) /\ InUse(u, s)
    BY DEF Linked
  <1>2. /\ u.size \in Nat /\ u.count \in Nat /\ u.table \in [Slots(u) -> Slot]
        /\ u.head \in Int /\ u.tail \in Int /\ u.hash_fn \in [Keys -> Nat]
        /\ u.count <= u.size
    BY <1>1, TableIs
  <1>3. /\ T \in [Slots(u) -> Slot]
        /\ \A m \in Slots(u) : /\ T[m].k = u.table[m].k /\ T[m].next = u.table[m].next
                               /\ T[m].prev = u.table[m].prev
                               /\ T[m].v = IF m = n THEN v ELSE u.table[m].v
    BY <1>2 DEF Slot
  <1>4. u \in [size : Nat \ {0}, count : Nat, head : Int, tail : Int,
               hash_fn : [Keys -> Nat], table : {u.table}]
    BY <1>1 DEF IsTable
  <1>5. w = WithList(u, T, u.count, u.head, u.tail)
    BY <1>4 DEF WithValue, WithList
  <1> HIDE DEF T
  <1>6. /\ IsTable(w) /\ w.table = T /\ w.count = u.count /\ w.head = u.head
        /\ w.tail = u.tail /\ w.size = u.size /\ w.hash_fn = u.hash_fn
    BY <1>1, <1>2, <1>3, <1>5, TableExcept
  <1>7. Slots(w) = Slots(u) /\ \A a, b : Probe(w, a, b) = Probe(u, a, b)
    BY <1>6, SameProbe
  <1>8. \A i \in 1..u.count : s[i] \in Slots(u)
    BY <1>1 DEF Chain
  <1>9. Chain(w, s)
    BY <1>1, <1>3, <1>6, <1>7, <1>8 DEF Chain
  <1>10. InUse(w, s)
    BY <1>1, <1>3, <1>6, <1>7, <1>8 DEF InUse
  <1>11. ASSUME NEW m \in Slots(w), w.table[m].k \in Keys PROVE Reached(w, m)
    <2>1. m \in Slots(u) /\ w.table[m].k = u.table[m].k
      BY <1>3, <1>6, <1>7
    <2>2. Reached(u, m)
      BY <1>11, <2>1 DEF Linked
    <2>3. PICK y \in Slots(u) :
             /\ Probe(u, u.table[m].k, y) = m
             /\ \A i \in 0..(y - 1) : u.table[Probe(u, u.table[m].k, i)].k # EMPTY
      BY <2>2 DEF Reached
    <2>4. \A a \in Keys, x \in Slots(u) : Probe(u, a, x) \in Slots(u)
      BY <1>1, ProbeIs
    <2>5. \A i \in 0..(y - 1) : i \in Slots(u)
      BY <1>2 DEF Slots
    <2>6. \A i \in 0..(y - 1) : w.table[Probe(w, w.table[m].k, i)].k # EMPTY
      BY <1>3, <1>6, <1>7, <1>11, <2>1, <2>3, <2>4, <2>5
    <2> QED BY <1>7, <2>1, <2>3, <2>6 DEF Reached
  <1>12. Linked(w, s)
    BY <1>6, <1>9, <1>10, <1>11 DEF Linked
  <1> QED BY <1>3, <1>6, <1>12

\* A new name comes to the end of the list, in the table or in one twice as large.
LEMMA InsertLinked ==
    ASSUME NEW u, NEW s, Linked(u, s), NEW k \in Keys, NEW v \in Value,
           \A i \in 1..u.count : u.table[s[i]].k # k
    PROVE  \E w, r :
              /\ w = Insert(u, k, v) /\ Linked(w, r) /\ w.count = u.count + 1
              /\ w.hash_fn = u.hash_fn
              /\ \A i \in 1..u.count : /\ w.table[r[i]].k = u.table[s[i]].k
                                       /\ w.table[r[i]].v = u.table[s[i]].v
              /\ w.table[r[u.count + 1]].k = k /\ w.table[r[u.count + 1]].v = v
  <1>1. u.size \in Nat /\ u.size > 0 /\ u.count \in Nat /\ u.count <= u.size
    BY TableIs DEF Linked
  <1>2. CASE ~Loaded(u)
    <2>1. u.count < u.size
      BY <1>1, <1>2 DEF Loaded
    <2>2. Insert(u, k, v) = Store(u, k, v)
      BY <1>2 DEF Insert
    <2> QED BY <2>1, <2>2, StoreLinked
  <1>3. CASE Loaded(u)
    <2> DEFINE x == Resize(u, 2 * u.size)
    <2>1. Insert(u, k, v) = Store(x, k, v)
      BY <1>3 DEF Insert
    <2>2. 2 * u.size \in Nat /\ u.count < 2 * u.size
      BY <1>1
    <2>3. PICK q :
            /\ Linked(x, q) /\ x.size = 2 * u.size /\ x.count = u.count
            /\ x.hash_fn = u.hash_fn
            /\ \A i \in 1..u.count : /\ x.table[q[i]].k = u.table[s[i]].k
                                     /\ x.table[q[i]].v = u.table[s[i]].v
      BY <2>2, ResizeLinked
    <2> HIDE DEF x
    <2>4. x.count < x.size /\ \A i \in 1..x.count : x.table[q[i]].k # k
      BY <2>2, <2>3
    <2>5. PICK w, r :
              /\ w = Store(x, k, v) /\ Linked(w, r)
              /\ w.size = x.size /\ w.count = x.count + 1 /\ w.hash_fn = x.hash_fn
              /\ \A i \in 1..x.count : /\ w.table[r[i]].k = x.table[q[i]].k
                                       /\ w.table[r[i]].v = x.table[q[i]].v
              /\ w.table[r[x.count + 1]].k = k /\ w.table[r[x.count + 1]].v = v
      BY <2>3, <2>4, StoreLinked
    <2> QED BY <2>1, <2>3, <2>5
  <1> QED BY <1>2, <1>3

-----------------------------------------------------------------------------
(* The fields of a table: its names and values in order.                   *)

LEMMA PairsAre ==
    ASSUME NEW u, NEW s, Linked(u, s)
    PROVE  /\ Entries(u) = s /\ u.count \in Nat
           /\ \A i \in 1..u.count : s[i] \in Slots(u) /\ s[i] # NULL
           /\ Pairs(u) = [i \in 1..u.count |-> <<u.table[s[i]].k, u.table[s[i]].v>>]
           /\ Pairs(u) \in Seq(Keys \X Value) /\ Len(Pairs(u)) = u.count
           /\ DOMAIN Pairs(u) = 1..u.count
           /\ NamesOf(u) = [i \in 1..u.count |-> u.table[s[i]].k]
           /\ NamesOf(u) \in Seq(Keys) /\ Len(NamesOf(u)) = u.count
           /\ ValuesOf(u) = [i \in 1..u.count |-> u.table[s[i]].v]
  <1>1. IsTable(u) /\ Chain(u, s) /\ InUse(u, s)
    BY DEF Linked
  <1>2. /\ Entries(u) = s /\ DOMAIN s = 1..u.count /\ u.count \in Nat
        /\ \A i \in 1..u.count : s[i] \in Slots(u) /\ s[i] # NULL
    BY <1>1, EntriesAre, ChainLength, TableIs
  <1> DEFINE p == [i \in 1..u.count |-> <<u.table[s[i]].k, u.table[s[i]].v>>]
             n == [i \in 1..u.count |-> u.table[s[i]].k]
  <1>3. Pairs(u) = p
    BY <1>2, Zenon DEF Pairs
  <1>4. \A i \in 1..u.count : u.table[s[i]].k \in Keys /\ u.table[s[i]].v \in Value
    BY <1>1, <1>2, TableIs DEF InUse
  <1>5. p \in [1..u.count -> Keys \X Value] /\ n \in [1..u.count -> Keys]
    BY <1>4
  <1>6. DOMAIN p = 1..u.count
    OBVIOUS
  <1>7. \A i \in 1..u.count : p[i][1] = u.table[s[i]].k /\ p[i][2] = u.table[s[i]].v
    OBVIOUS
  <1>8. /\ NamesOf(u) = n /\ ValuesOf(u) = [i \in 1..u.count |-> u.table[s[i]].v]
    <2> HIDE DEF p
    <2>1. NamesOf(u) = [i \in 1..u.count |-> p[i][1]]
      BY <1>3, <1>6, Zenon DEF NamesOf
    <2>2. ValuesOf(u) = [i \in 1..u.count |-> p[i][2]]
      BY <1>3, <1>6, Zenon DEF ValuesOf
    <2> QED BY <1>7, <2>1, <2>2
  <1>9. p \in Seq(Keys \X Value) /\ Len(p) = u.count /\ n \in Seq(Keys) /\ Len(n) = u.count
    <2> HIDE DEF p, n
    <2>1. p \in Seq(Keys \X Value) /\ n \in Seq(Keys)
      BY <1>2, <1>5, SeqDef, SMTT(30)
    <2>2. DOMAIN p = 1..u.count /\ DOMAIN n = 1..u.count
      BY <1>5
    <2> QED BY <1>2, <2>1, <2>2, LenProperties
  <1> HIDE DEF p, n
  <1> QED BY <1>2, <1>3, <1>6, <1>8, <1>9 DEF p, n

\* What becomes of the fields of a table, and how often a value is among them: a new one
\* comes last,
LEMMA InsertPairs ==
    ASSUME NEW u, NEW s, Linked(u, s), NEW k \in Keys, NEW v \in Value,
           \A i \in 1..u.count : u.table[s[i]].k # k
    PROVE  \E w, r : /\ w = Insert(u, k, v) /\ Linked(w, r) /\ w.hash_fn = u.hash_fn
                     /\ Pairs(w) = Append(Pairs(u), <<k, v>>)
                     /\ \A x : Count(ValuesOf(w), x) =
                                  Count(ValuesOf(u), x) + (IF v = x THEN 1 ELSE 0)
  <1>1. PICK w, r :
           /\ w = Insert(u, k, v) /\ Linked(w, r) /\ w.count = u.count + 1
           /\ w.hash_fn = u.hash_fn
           /\ \A i \in 1..u.count : /\ w.table[r[i]].k = u.table[s[i]].k
                                    /\ w.table[r[i]].v = u.table[s[i]].v
           /\ w.table[r[u.count + 1]].k = k /\ w.table[r[u.count + 1]].v = v
    BY InsertLinked
  <1>2. /\ Pairs(u) = [i \in 1..u.count |-> <<u.table[s[i]].k, u.table[s[i]].v>>]
        /\ Pairs(u) \in Seq(Keys \X Value) /\ Len(Pairs(u)) = u.count /\ u.count \in Nat
        /\ ValuesOf(u) = [i \in 1..u.count |-> u.table[s[i]].v]
    BY PairsAre
  <1>3. /\ Pairs(w) = [i \in 1..(u.count + 1) |-> <<w.table[r[i]].k, w.table[r[i]].v>>]
        /\ Pairs(w) \in Seq(Keys \X Value) /\ Len(Pairs(w)) = u.count + 1
        /\ ValuesOf(w) = [i \in 1..(u.count + 1) |-> w.table[r[i]].v]
    <2>1. /\ Pairs(w) = [i \in 1..w.count |-> <<w.table[r[i]].k, w.table[r[i]].v>>]
          /\ Pairs(w) \in Seq(Keys \X Value) /\ Len(Pairs(w)) = w.count
          /\ ValuesOf(w) = [i \in 1..w.count |-> w.table[r[i]].v]
      BY <1>1, PairsAre
    <2> QED BY <1>1, <2>1, Zenon
  <1>4. \A i \in 1..(u.count + 1) : i \in 1..u.count \/ i = u.count + 1
    BY <1>2
  <1>5. Pairs(w) = Append(Pairs(u), <<k, v>>)
    <2> DEFINE p == Pairs(u)
               q == Append(p, <<k, v>>)
    <2>1. p \in Seq(Keys \X Value) /\ <<k, v>> \in Keys \X Value /\ Len(p) = u.count
      BY <1>2
    <2> HIDE DEF p
    <2>2. /\ q \in Seq(Keys \X Value) /\ Len(q) = u.count + 1
          /\ \A i \in 1..u.count : q[i] = p[i]
          /\ q[u.count + 1] = <<k, v>>
      BY <2>1, AppendProperties
    <2>3. \A i \in 1..(u.count + 1) : Pairs(w)[i] = q[i]
      <3>1. \A i \in 1..u.count : p[i] = <<u.table[s[i]].k, u.table[s[i]].v>>
        BY <1>2 DEF p
      <3>2. \A i \in 1..(u.count + 1) : Pairs(w)[i] = <<w.table[r[i]].k, w.table[r[i]].v>>
        BY <1>3
      <3> HIDE DEF q
      <3> QED BY <1>1, <1>4, <2>2, <3>1, <3>2, ZenonT(30)
    <2> HIDE DEF q
    <2>4. DOMAIN q = 1..(u.count + 1) /\ DOMAIN Pairs(w) = 1..(u.count + 1)
          /\ Pairs(w) = [i \in DOMAIN Pairs(w) |-> Pairs(w)[i]]
      <3>1. DOMAIN q = 1..(u.count + 1)
        BY <2>2, LenProperties, Zenon
      <3> DEFINE f == [i \in 1..(u.count + 1) |-> <<w.table[r[i]].k, w.table[r[i]].v>>]
      <3>2. DOMAIN f = 1..(u.count + 1) /\ f = [i \in DOMAIN f |-> f[i]]
        OBVIOUS
      <3>3. Pairs(w) = f
        BY <1>3
      <3> HIDE DEF f
      <3> QED BY <3>1, <3>2, <3>3, Zenon
    <2>5. q = [i \in DOMAIN q |-> q[i]]
      <3>1. q \in [1..Len(q) -> Keys \X Value]
        BY <2>2, LenProperties
      <3> QED BY <3>1
    <2> QED BY <2>3, <2>4, <2>5, Zenon DEF q, p
  <1>6. ASSUME NEW x
        PROVE  Count(ValuesOf(w), x) = Count(ValuesOf(u), x) + (IF v = x THEN 1 ELSE 0)
    <2>1. \A i \in 1..u.count : ValuesOf(w)[i] = ValuesOf(u)[i]
      <3>1. \A i \in 1..u.count : i \in 1..(u.count + 1)
        BY <1>2
      <3>2. \A i \in 1..u.count : ValuesOf(w)[i] = w.table[r[i]].v
        BY <1>3, <3>1, Zenon
      <3>3. \A i \in 1..u.count : ValuesOf(u)[i] = u.table[s[i]].v
        BY <1>2, Zenon
      <3> QED BY <1>1, <3>2, <3>3, Zenon
    <2>2. ValuesOf(w)[u.count + 1] = v
      <3>1. u.count + 1 \in 1..(u.count + 1)
        BY <1>2
      <3> QED BY <1>1, <1>3, <3>1, Zenon
    <2>3. DOMAIN ValuesOf(u) = 1..u.count /\ DOMAIN ValuesOf(w) = 1..(u.count + 1)
      BY <1>2, <1>3
    <2> DEFINE c == ValuesOf(u)
               d == ValuesOf(w)
    <2> HIDE DEF c, d
    <2>4. Count(d, x) = Count(c, x) + (IF d[u.count + 1] = x THEN 1 ELSE 0)
      <3>1. PICK n \in Nat : n = u.count
        BY <1>2
      <3>2. /\ DOMAIN c = 1..n /\ DOMAIN d = 1..(n + 1)
            /\ \A i \in 1..n : d[i] = c[i]
        BY <2>1, <2>3, <3>1 DEF c, d
      <3>3. Count(d, x) = Count(c, x) + (IF d[n + 1] = x THEN 1 ELSE 0)
        BY <3>2, CountAppend
      <3> QED BY <3>1, <3>3
    <2> QED BY <2>2, <2>4 DEF c, d
  <1> QED BY <1>1, <1>5, <1>6

\* one that is replaced keeps its place,
LEMMA ReplacePairs ==
    ASSUME NEW u, NEW s, Linked(u, s), NEW j \in 1..u.count, NEW v \in Value
    PROVE  LET w == WithValue(u, s[j], v) IN
           /\ Linked(w, s) /\ w.hash_fn = u.hash_fn
           /\ u.table[s[j]].k \in {Pairs(u)[i][1] : i \in DOMAIN Pairs(u)}
           /\ LET k == u.table[s[j]].k IN
              Pairs(w) = [i \in DOMAIN Pairs(u) |->
                             IF Pairs(u)[i][1] = k THEN <<k, v>> ELSE Pairs(u)[i]]
           /\ \A x : Count(ValuesOf(w), x) = Count(ValuesOf(u), x)
                         - (IF u.table[s[j]].v = x THEN 1 ELSE 0) + (IF v = x THEN 1 ELSE 0)
  <1> DEFINE k == u.table[s[j]].k
             w == WithValue(u, s[j], v)
  <1>1. /\ Pairs(u) = [i \in 1..u.count |-> <<u.table[s[i]].k, u.table[s[i]].v>>]
        /\ DOMAIN Pairs(u) = 1..u.count
        /\ \A i \in 1..u.count : s[i] \in Slots(u)
        /\ ValuesOf(u) = [i \in 1..u.count |-> u.table[s[i]].v] /\ u.count \in Nat
    BY PairsAre
  <1>2. /\ Linked(w, s) /\ w.count = u.count /\ w.hash_fn = u.hash_fn
        /\ \A m \in Slots(u) : /\ w.table[m].k = u.table[m].k
                               /\ w.table[m].v = IF m = s[j] THEN v ELSE u.table[m].v
    BY <1>1, ReplaceLinked
  <1> HIDE DEF w
  <1>3. /\ Pairs(w) = [i \in 1..u.count |-> <<w.table[s[i]].k, w.table[s[i]].v>>]
        /\ ValuesOf(w) = [i \in 1..u.count |-> w.table[s[i]].v]
    <2>1. /\ Pairs(w) = [i \in 1..w.count |-> <<w.table[s[i]].k, w.table[s[i]].v>>]
          /\ ValuesOf(w) = [i \in 1..w.count |-> w.table[s[i]].v]
      <3>1. Linked(w, s)
        BY <1>2
      <3> QED BY <3>1, PairsAre
    <2> QED BY <1>2, <2>1, Zenon
  <1>4. \A i \in 1..u.count : Pairs(u)[i] = <<u.table[s[i]].k, u.table[s[i]].v>>
                              /\ Pairs(u)[i][1] = u.table[s[i]].k
    BY <1>1
  <1>5. \A i \in 1..u.count : (u.table[s[i]].k = k <=> i = j) /\ (s[i] = s[j] <=> i = j)
    BY DEF Linked, InUse
  <1>6. \A i \in 1..u.count : /\ w.table[s[i]].k = u.table[s[i]].k
                              /\ w.table[s[i]].v = IF i = j THEN v ELSE u.table[s[i]].v
    BY <1>1, <1>2, <1>5
  <1>7. Pairs(w) = [i \in DOMAIN Pairs(u) |->
                       IF Pairs(u)[i][1] = k THEN <<k, v>> ELSE Pairs(u)[i]]
    <2>1. \A i \in 1..u.count :
             <<w.table[s[i]].k, w.table[s[i]].v>> =
                IF Pairs(u)[i][1] = k THEN <<k, v>> ELSE Pairs(u)[i]
      <3> HIDE DEF k
      <3> QED BY <1>4, <1>5, <1>6 DEF k
    <2> HIDE DEF k
    <2> QED BY <1>1, <1>3, <2>1, Zenon
  <1>8. k \in {Pairs(u)[i][1] : i \in DOMAIN Pairs(u)}
    BY <1>1, <1>4, Zenon
  <1>9. ASSUME NEW x
        PROVE  Count(ValuesOf(w), x) = Count(ValuesOf(u), x)
                  - (IF u.table[s[j]].v = x THEN 1 ELSE 0) + (IF v = x THEN 1 ELSE 0)
    <2>1. DOMAIN ValuesOf(u) = 1..u.count /\ DOMAIN ValuesOf(w) = 1..u.count
      BY <1>1, <1>3
    <2>2. \A i \in 1..u.count : /\ ValuesOf(u)[i] = u.table[s[i]].v
                                /\ ValuesOf(w)[i] = IF i = j THEN v ELSE u.table[s[i]].v
      BY <1>1, <1>3, <1>6
    <2> DEFINE c == ValuesOf(u)
               d == ValuesOf(w)
    <2>3. /\ DOMAIN c = 1..u.count /\ DOMAIN d = 1..u.count /\ u.count \in Nat
          /\ \A i \in 1..u.count : i # j => d[i] = c[i]
      BY <1>1, <2>1, <2>2
    <2>4. c[j] = u.table[s[j]].v /\ d[j] = v
      BY <2>2
    <2> HIDE DEF c, d
    <2>5. Count(d, x) = Count(c, x) - (IF c[j] = x THEN 1 ELSE 0)
                                    + (IF d[j] = x THEN 1 ELSE 0)
      BY <2>3, CountReplace, SMTT(30)
    <2> QED BY <2>4, <2>5 DEF c, d
  <1> QED BY <1>2, <1>7, <1>8, <1>9, Zenon DEF w

\* and one that is deleted is gone.
LEMMA DeletePairs ==
    ASSUME NEW u, NEW s, Linked(u, s), NEW j \in 1..u.count
    PROVE  LET w == DeleteEntry(u, s[j]) IN
           /\ \E r : Linked(w, r)
           /\ w.hash_fn = u.hash_fn
           /\ j \in DOMAIN Pairs(u) /\ Pairs(u)[j][1] = u.table[s[j]].k
           /\ Pairs(w) = RemoveAt(Pairs(u), j)
           /\ \A x : Count(ValuesOf(w), x) = Count(ValuesOf(u), x)
                                                - (IF u.table[s[j]].v = x THEN 1 ELSE 0)
  <1> DEFINE w == DeleteEntry(u, s[j])
             r == [i \in 1..(u.count - 1) |-> IF i < j THEN s[i] ELSE s[i + 1]]
  <1>1. /\ Linked(w, r) /\ w.count = u.count - 1 /\ w.hash_fn = u.hash_fn
        /\ \A m \in Slots(u) : m # s[j] =>
              w.table[m].k = u.table[m].k /\ w.table[m].v = u.table[m].v
    BY DeleteLinked
  <1> HIDE DEF w
  <1>2. /\ Pairs(u) = [i \in 1..u.count |-> <<u.table[s[i]].k, u.table[s[i]].v>>]
        /\ DOMAIN Pairs(u) = 1..u.count /\ Pairs(u) \in Seq(Keys \X Value)
        /\ Len(Pairs(u)) = u.count
        /\ \A i \in 1..u.count : s[i] \in Slots(u)
        /\ ValuesOf(u) = [i \in 1..u.count |-> u.table[s[i]].v] /\ u.count \in Nat
    BY PairsAre
  <1>3. \A i \in 1..u.count : s[i] = s[j] <=> i = j
    BY DEF Linked, InUse
  <1>4. \A i \in 1..(u.count - 1) :
           /\ r[i] = (IF i < j THEN s[i] ELSE s[i + 1])
           /\ i < j => i \in 1..u.count /\ i # j
           /\ ~(i < j) => i + 1 \in 1..u.count /\ i + 1 # j
    BY <1>2
  <1> HIDE DEF r
  <1>5. /\ Pairs(w) = [i \in 1..(u.count - 1) |-> <<w.table[r[i]].k, w.table[r[i]].v>>]
        /\ ValuesOf(w) = [i \in 1..(u.count - 1) |-> w.table[r[i]].v]
    <2>1. /\ Pairs(w) = [i \in 1..w.count |-> <<w.table[r[i]].k, w.table[r[i]].v>>]
          /\ ValuesOf(w) = [i \in 1..w.count |-> w.table[r[i]].v]
      <3>1. Linked(w, r)
        BY <1>1
      <3> QED BY <3>1, PairsAre
    <2> QED BY <1>1, <2>1, Zenon
  <1>6. \A i \in 1..(u.count - 1) :
           /\ w.table[r[i]].k = IF i < j THEN u.table[s[i]].k ELSE u.table[s[i + 1]].k
           /\ w.table[r[i]].v = IF i < j THEN u.table[s[i]].v ELSE u.table[s[i + 1]].v
    BY <1>1, <1>2, <1>3, <1>4
  <1>7. Pairs(w) = RemoveAt(Pairs(u), j)
    <2>1. RemoveAt(Pairs(u), j) =
             [i \in 1..(u.count - 1) |-> IF i < j THEN Pairs(u)[i] ELSE Pairs(u)[i + 1]]
      <3> DEFINE p == Pairs(u)
      <3>1. p \in Seq(Keys \X Value) /\ Len(p) = u.count
        BY <1>2
      <3> HIDE DEF p
      <3>2. RemoveAt(p, j) =
               [i \in 1..(Len(p) - 1) |-> IF i < j THEN p[i] ELSE p[i + 1]]
        BY <3>1, RemoveAtIs
      <3> QED BY <3>1, <3>2 DEF p
    <2>2. \A i \in 1..u.count : Pairs(u)[i] = <<u.table[s[i]].k, u.table[s[i]].v>>
      BY <1>2
    <2>3. \A i \in 1..(u.count - 1) :
             <<w.table[r[i]].k, w.table[r[i]].v>> =
                 IF i < j THEN Pairs(u)[i] ELSE Pairs(u)[i + 1]
      BY <1>4, <1>6, <2>2
    <2> QED BY <1>5, <2>1, <2>3, Zenon
  <1>8. j \in DOMAIN Pairs(u) /\ Pairs(u)[j][1] = u.table[s[j]].k
    BY <1>2
  <1>9. ASSUME NEW x
        PROVE  Count(ValuesOf(w), x) = Count(ValuesOf(u), x)
                                          - (IF u.table[s[j]].v = x THEN 1 ELSE 0)
    <2>1. DOMAIN ValuesOf(u) = 1..u.count
      BY <1>2
    <2>2. \A i \in 1..u.count : ValuesOf(u)[i] = u.table[s[i]].v
      BY <1>2
    <2>3. \A i \in 1..(u.count - 1) :
             w.table[r[i]].v = IF i < j THEN ValuesOf(u)[i] ELSE ValuesOf(u)[i + 1]
      BY <1>4, <1>6, <2>2
    <2>4. ValuesOf(w) = [i \in 1..(u.count - 1) |->
                            IF i < j THEN ValuesOf(u)[i] ELSE ValuesOf(u)[i + 1]]
      BY <1>5, <2>3, Zenon
    <2> DEFINE c == ValuesOf(u)
               d == ValuesOf(w)
    <2>5. /\ DOMAIN c = 1..u.count /\ u.count \in Nat /\ c[j] = u.table[s[j]].v
          /\ d = [i \in 1..(u.count - 1) |-> IF i < j THEN c[i] ELSE c[i + 1]]
      BY <1>2, <2>1, <2>2, <2>4
    <2> HIDE DEF c, d
    <2>6. Count(d, x) = Count(c, x) - (IF c[j] = x THEN 1 ELSE 0)
      <3>1. PICK n \in Nat : n = u.count
        BY <2>5
      <3>2. /\ DOMAIN c = 1..n /\ j \in 1..n
            /\ d = [i \in 1..(n - 1) |-> IF i < j THEN c[i] ELSE c[i + 1]]
        BY <2>5, <3>1
      <3> QED BY <3>2, CountRemove
    <2> QED BY <2>5, <2>6 DEF c, d
  <1> QED BY <1>1, <1>7, <1>8, <1>9, Zenon DEF w

-----------------------------------------------------------------------------
(* Owners and arrays.                                                      *)

\* A value that is put, and one that is nothing.
LEMMA PutIs ==
    ASSUME NEW r \in [Leaf -> Int], NEW x \in Value
    PROVE  /\ Put(r, x) \in [Leaf -> Int]
           /\ \A v \in Leaf : Put(r, x)[v] = r[v] - (IF x = v THEN 1 ELSE 0)
  BY NameAssumption DEF Put, Value

\* What the caller gives away it has.
LEMMA GiveIs ==
    ASSUME NEW r \in [Leaf -> Nat], NEW x \in Value, x # Nothing => r[x] > 0
    PROVE  /\ Put(r, x) \in [Leaf -> Nat]
           /\ \A v \in Leaf : Put(r, x)[v] = r[v] - (IF x = v THEN 1 ELSE 0)
  BY NameAssumption DEF Put, Value

Elements(a) == [i \in 1..a.size |-> a.array[i - 1]]

\* An array has nothing behind its length.
IsArray(a) ==
    /\ a \in [size : Nat \ {0}, length : Nat, array : {a.array}]
    /\ a.array \in [0..(a.size - 1) -> Value]
    /\ a.length <= a.size
    /\ \A i \in 0..(a.size - 1) : i >= a.length => a.array[i] = Nothing

\* An array whose slots and length are assigned, and its fields.
WithArray(a, size, T, len) == [a EXCEPT !.size = size, !.array = T, !.length = len]

LEMMA ArrayExcept ==
    ASSUME NEW a, IsArray(a), NEW size \in Nat \ {0}, NEW T, NEW len \in Nat,
           NEW w, w = WithArray(a, size, T, len)
    PROVE  /\ w \in [size : Nat \ {0}, length : Nat, array : {T}]
           /\ w.size = size /\ w.array = T /\ w.length = len
  <1>1. a \in [size : Nat \ {0}, length : Nat, array : {a.array}]
    BY DEF IsArray
  <1> QED BY <1>1 DEF WithArray

\* An array that is expanded has room for the index, and the same values.
LEMMA ExpandIs ==
    ASSUME NEW a, IsArray(a), NEW n \in Nat
    PROVE  LET b == Expand(a, n + 1) IN
           /\ IsArray(b) /\ n < b.size
           /\ \A v \in Leaf : Count(Elements(b), v) = Count(Elements(a), v)
  <1> DEFINE b == Expand(a, n + 1)
             size == IF 2 * a.size < n + 1 THEN n + 1 ELSE 2 * a.size
             B == [i \in 0..(size - 1) |-> IF i < a.size THEN a.array[i] ELSE Nothing]
  <1>1. /\ a.size \in Nat /\ a.size > 0 /\ a.length \in Nat /\ a.length <= a.size
        /\ a.array \in [0..(a.size - 1) -> Value]
        /\ \A i \in 0..(a.size - 1) : i >= a.length => a.array[i] = Nothing
        /\ a \in [size : Nat \ {0}, length : Nat, array : {a.array}]
    BY DEF IsArray
  <1>2. CASE n + 1 < a.size
    <2>1. b = a
      BY <1>2 DEF Expand
    <2> QED BY <1>1, <1>2, <2>1
  <1>3. CASE ~(n + 1 < a.size)
    <2>1. b = [a EXCEPT !.size = size, !.array = B]
      BY <1>3 DEF Expand
    <2>2. size \in Nat /\ size >= n + 1 /\ size >= a.size /\ size > 0
      BY <1>1
    <2> HIDE DEF size
    <2>3. /\ B \in [0..(size - 1) -> Value]
          /\ \A i \in 0..(size - 1) : B[i] = IF i < a.size THEN a.array[i] ELSE Nothing
      <3>1. \A i \in 0..(size - 1) : (IF i < a.size THEN a.array[i] ELSE Nothing) \in Value
        BY <1>1, <2>2 DEF Value
      <3> QED BY <3>1
    <2> HIDE DEF B
    <2>4. /\ b \in [size : Nat \ {0}, length : Nat, array : {B}]
          /\ b.size = size /\ b.array = B /\ b.length = a.length
      <3>1. b = WithArray(a, size, B, a.length)
        BY <1>1, <2>1 DEF WithArray
      <3> QED BY <1>1, <2>2, <3>1, ArrayExcept
    <2> HIDE DEF b
    <2>5. \A i \in 0..(size - 1) : i >= a.length => B[i] = Nothing
      BY <1>1, <2>2, <2>3
    <2>6. IsArray(b) /\ n < b.size
      BY <1>1, <2>2, <2>3, <2>4, <2>5 DEF IsArray
    <2>7. ASSUME NEW v \in Leaf PROVE Count(Elements(b), v) = Count(Elements(a), v)
      <3> DEFINE x == Elements(a)
                 y == Elements(b)
      <3>1. x = [i \in 1..a.size |-> a.array[i - 1]] /\ y = [i \in 1..size |-> B[i - 1]]
        BY <2>4 DEF Elements
      <3>2. v # Nothing
        BY NameAssumption
      <3> HIDE DEF x, y
      <3>3. {i \in DOMAIN x : x[i] = v} = {i \in DOMAIN y : y[i] = v}
        <4>1. ASSUME NEW i \in 1..size, i <= a.size PROVE i \in 1..a.size /\ x[i] = y[i]
          BY <1>1, <2>2, <2>3, <3>1, <4>1
        <4>2. ASSUME NEW i \in 1..size, ~(i <= a.size) PROVE y[i] # v
          BY <1>1, <2>2, <2>3, <3>1, <3>2, <4>2
        <4>3. DOMAIN x = 1..a.size /\ DOMAIN y = 1..size
          BY <3>1
        <4>4. \A i \in 1..a.size : i \in 1..size /\ i <= a.size
          BY <1>1, <2>2
        <4> QED BY <4>1, <4>2, <4>3, <4>4
      <3> QED BY <3>3, Zenon DEF Count, x, y
    <2> QED BY <2>6, <2>7 DEF b
  <1> QED BY <1>2, <1>3

\* A value that is put at an index, within the length or behind it.
PutAt(b, n, x) == [b EXCEPT !.array[n] = x, !.length = IF @ <= n THEN n + 1 ELSE @]

LEMMA PutAtIs ==
    ASSUME NEW b, IsArray(b), NEW n \in Nat, n < b.size, NEW x \in Value
    PROVE  LET c == PutAt(b, n, x) IN
           /\ IsArray(c) /\ b.array[n] \in Value
           /\ \A v \in Leaf : Count(Elements(c), v) = Count(Elements(b), v)
                - (IF b.array[n] = v THEN 1 ELSE 0) + (IF x = v THEN 1 ELSE 0)
  <1> DEFINE c == PutAt(b, n, x)
             T == [b.array EXCEPT ![n] = x]
             len == IF b.length <= n THEN n + 1 ELSE b.length
  <1>1. /\ b.size \in Nat /\ b.size > 0 /\ b.length \in Nat /\ b.length <= b.size
        /\ b.array \in [0..(b.size - 1) -> Value]
        /\ \A i \in 0..(b.size - 1) : i >= b.length => b.array[i] = Nothing
        /\ b \in [size : Nat \ {0}, length : Nat, array : {b.array}]
    BY DEF IsArray
  <1>2. n \in 0..(b.size - 1)
    BY <1>1
  <1>3. c = WithArray(b, b.size, T, len)
    BY <1>1 DEF WithArray, PutAt
  <1>4. /\ T \in [0..(b.size - 1) -> Value]
        /\ \A i \in 0..(b.size - 1) : T[i] = IF i = n THEN x ELSE b.array[i]
    BY <1>1, <1>2
  <1>5. len \in Nat /\ len <= b.size /\ len > n /\ len >= b.length
    BY <1>1
  <1> HIDE DEF T, len, c
  <1>3a. /\ c \in [size : Nat \ {0}, length : Nat, array : {T}]
        /\ c.size = b.size /\ c.array = T /\ c.length = len
    BY <1>1, <1>3, <1>5, ArrayExcept
  <1>6. \A i \in 0..(b.size - 1) : i >= len => T[i] = Nothing
    BY <1>1, <1>4, <1>5
  <1>7. IsArray(c)
    BY <1>1, <1>4, <1>5, <1>6, <1>3a DEF IsArray
  <1>8. ASSUME NEW v \in Leaf
        PROVE  Count(Elements(c), v) = Count(Elements(b), v)
                  - (IF b.array[n] = v THEN 1 ELSE 0) + (IF x = v THEN 1 ELSE 0)
    <2> DEFINE y == Elements(b)
               z == Elements(c)
    <2>1. y = [i \in 1..b.size |-> b.array[i - 1]] /\ z = [i \in 1..b.size |-> T[i - 1]]
      BY <1>3a DEF Elements
    <2> HIDE DEF y, z
    <2>2. /\ DOMAIN y = 1..b.size /\ DOMAIN z = 1..b.size /\ n + 1 \in 1..b.size
          /\ y[n + 1] = b.array[n] /\ z[n + 1] = x
      BY <1>1, <1>2, <1>4, <2>1
    <2>3. \A i \in 1..b.size : i # n + 1 => z[i] = y[i]
      BY <1>1, <1>2, <1>4, <2>1
    <2>4. Count(z, v) = Count(y, v) - (IF y[n + 1] = v THEN 1 ELSE 0)
                                    + (IF z[n + 1] = v THEN 1 ELSE 0)
      <3>1. PICK m \in Nat : m = b.size
        BY <1>1
      <3>2. PICK j \in 1..m : j = n + 1
        BY <2>2, <3>1
      <3>3. /\ DOMAIN y = 1..m /\ DOMAIN z = 1..m
            /\ \A i \in 1..m : i # j => z[i] = y[i]
        BY <2>2, <2>3, <3>1, <3>2
      <3>4. Count(z, v) = Count(y, v) - (IF y[j] = v THEN 1 ELSE 0)
                                      + (IF z[j] = v THEN 1 ELSE 0)
        BY <3>3, CountReplace
      <3> QED BY <3>2, <3>4
    <2> QED BY <2>2, <2>4 DEF y, z
  <1> QED BY <1>1, <1>2, <1>7, <1>8 DEF c

\* The values up to the length are those of the array.
LEMMA LengthCounts ==
    ASSUME NEW a, IsArray(a), NEW v \in Leaf
    PROVE  Cardinality({i \in DOMAIN [j \in 1..a.length |-> a.array[j - 1]] :
                          [j \in 1..a.length |-> a.array[j - 1]][i] = v})
             = Count(Elements(a), v)
  <1> DEFINE x == [j \in 1..a.length |-> a.array[j - 1]]
             y == [i \in 1..a.size |-> a.array[i - 1]]
  <1>1. /\ a.size \in Nat /\ a.length \in Nat /\ a.length <= a.size
        /\ \A i \in 0..(a.size - 1) : i >= a.length => a.array[i] = Nothing
    BY DEF IsArray
  <1>2. v # Nothing
    BY NameAssumption
  <1>3. \A i \in 1..a.length : i \in 1..a.size /\ x[i] = y[i]
    BY <1>1
  <1>4. \A i \in 1..a.size : i \in 1..a.length \/ y[i] # v
    BY <1>1, <1>2
  <1>5. DOMAIN x = 1..a.length /\ DOMAIN y = 1..a.size
    OBVIOUS
  <1> HIDE DEF x, y
  <1>6. {i \in DOMAIN x : x[i] = v} = {i \in DOMAIN y : y[i] = v}
    BY <1>3, <1>4, <1>5
  <1> QED BY <1>6, Zenon DEF Count, Elements, x, y

-----------------------------------------------------------------------------
(* The invariant of the object, and its steps.                             *)

\* The fields are in a table, the elements in an array, and every count is that of the
\* owners, the caller among them.
ObjectInv ==
    /\ kind \in {"object", "array"}
    /\ \E s : Linked(t, s)
    /\ IsArray(arr)
    /\ refs \in [Leaf -> Int] /\ owned \in [Leaf -> Nat]
    /\ RefsExact

\* How often a value is in the fields or the elements is a number.
LEMMA ValuesCount ==
    ASSUME NEW u, \E s : Linked(u, s), NEW v
    PROVE  Count(ValuesOf(u), v) \in Nat
  <1>1. PICK s : Linked(u, s)
    OBVIOUS
  <1>2. u.count \in Nat /\ ValuesOf(u) = [i \in 1..u.count |-> u.table[s[i]].v]
    BY <1>1, PairsAre
  <1>3. DOMAIN ValuesOf(u) = 1..u.count
    BY <1>2
  <1> QED BY <1>2, <1>3, CountIsNat

LEMMA ElementsCount ==
    ASSUME NEW a, IsArray(a), NEW v
    PROVE  Count(Elements(a), v) \in Nat
  <1>1. a.size \in Nat /\ DOMAIN Elements(a) = 1..a.size
    BY DEF IsArray, Elements
  <1> QED BY <1>1, CountIsNat

\* What the container holds.
LEMMA OccursIs ==
    ASSUME \E s : Linked(t, s), IsArray(arr), NEW v
    PROVE  /\ Occurs(v) = Count(Contents, v) /\ Occurs(v) \in Nat
           /\ kind = "object" => Occurs(v) = Count(ValuesOf(t), v)
           /\ kind # "object" => Occurs(v) = Count(Elements(arr), v)
  <1>1. Occurs(v) = Count(Contents, v)
    BY Zenon DEF Occurs, Count
  <1>2. CASE kind = "object"
    <2>1. Contents = ValuesOf(t)
      BY <1>2 DEF Contents
    <2> QED BY <1>1, <1>2, <2>1, ValuesCount
  <1>3. CASE kind # "object"
    <2>1. Contents = Elements(arr)
      BY <1>3 DEF Contents, Elements
    <2> QED BY <1>1, <1>3, <2>1, ElementsCount
  <1> QED BY <1>1, <1>2, <1>3

\* json_object_object_add gives the fields one more value and takes the one that was there.
LEMMA AddStep ==
    ASSUME ObjectInv, NEW k \in Keys, NEW v \in Value, ObjectAdd(k, v)
    PROVE  /\ (\E s : Linked(t, s))'
           /\ Fields!Add(k, v)
           /\ refs' \in [Leaf -> Int]
           /\ \A x \in Leaf :
                 Count(ValuesOf(t), x)' - Count(ValuesOf(t), x)
                    = (refs'[x] - refs[x]) + (IF v = x THEN 1 ELSE 0)
  <1>1. PICK s : Linked(t, s)
    BY DEF ObjectInv
  <1>2. refs \in [Leaf -> Int]
    BY DEF ObjectInv
  <1>3. /\ DOMAIN Pairs(t) = 1..t.count /\ t.count \in Nat
        /\ \A i \in 1..t.count : s[i] \in Slots(t) /\ s[i] # NULL
        /\ Pairs(t) = [i \in 1..t.count |-> <<t.table[s[i]].k, t.table[s[i]].v>>]
        /\ ValuesOf(t) = [i \in 1..t.count |-> t.table[s[i]].v]
    BY <1>1, PairsAre
  <1>4. \A x : Count(ValuesOf(t), x) \in Nat
    BY <1>3, CountIsNat
  <1>5. \A i \in 1..t.count : Pairs(t)[i][1] = t.table[s[i]].k
    BY <1>3
  <1>6. CASE LookupEntry(t, k) = NULL
    <2>1. \A i \in 1..t.count : t.table[s[i]].k # k
      BY <1>1, <1>3, <1>6, LookupIs
    <2>2. t' = Insert(t, k, v) /\ refs' = refs
      BY <1>6 DEF ObjectAdd
    <2>3. PICK r : /\ Linked(t', r) /\ Pairs(t') = Append(Pairs(t), <<k, v>>)
                   /\ \A x : Count(ValuesOf(t'), x) =
                                Count(ValuesOf(t), x) + (IF v = x THEN 1 ELSE 0)
      BY <1>1, <2>1, <2>2, InsertPairs
    <2>4. k \notin Fields!Names
      BY <1>3, <1>5, <2>1 DEF Fields!Names
    <2>5. Fields!Add(k, v)
      BY <2>3, <2>4, Zenon DEF Fields!Add
    <2> QED BY <1>2, <1>4, <2>2, <2>3, <2>5
  <1>7. CASE LookupEntry(t, k) # NULL
    <2>1. PICK j \in 1..t.count : t.table[s[j]].k = k /\ LookupEntry(t, k) = s[j]
      BY <1>1, <1>7, LookupIs
    <2>2. t' = WithValue(t, s[j], v) /\ refs' = Put(refs, t.table[s[j]].v)
      BY <1>7, <2>1 DEF ObjectAdd, WithValue
    <2>3. /\ Linked(t', s)
          /\ k \in {Pairs(t)[i][1] : i \in DOMAIN Pairs(t)}
          /\ Pairs(t') = [i \in DOMAIN Pairs(t) |->
                             IF Pairs(t)[i][1] = k THEN <<k, v>> ELSE Pairs(t)[i]]
          /\ \A x : Count(ValuesOf(t'), x) = Count(ValuesOf(t), x)
                        - (IF t.table[s[j]].v = x THEN 1 ELSE 0) + (IF v = x THEN 1 ELSE 0)
      BY <1>1, <2>1, <2>2, ReplacePairs
    <2>4. Fields!Add(k, v)
      BY <2>3, Zenon DEF Fields!Add, Fields!Names
    <2>5. t.table[s[j]].v \in Value
      BY <1>1, <1>3, TableIs DEF Linked
    <2>6. /\ refs' \in [Leaf -> Int]
          /\ \A x \in Leaf : refs'[x] = refs[x] - (IF t.table[s[j]].v = x THEN 1 ELSE 0)
      BY <1>2, <2>2, <2>5, PutIs
    <2> QED BY <1>2, <1>4, <2>3, <2>4, <2>6
  <1> QED BY <1>6, <1>7

\* json_object_object_del takes a value from the fields.
LEMMA DelStep ==
    ASSUME ObjectInv, NEW k \in Keys, ObjectDel(k)
    PROVE  /\ (\E s : Linked(t, s))'
           /\ Fields!Delete(k)
           /\ refs' \in [Leaf -> Int]
           /\ \A x \in Leaf :
                 Count(ValuesOf(t), x)' - Count(ValuesOf(t), x) = refs'[x] - refs[x]
  <1>1. PICK s : Linked(t, s)
    BY DEF ObjectInv
  <1>2. refs \in [Leaf -> Int]
    BY DEF ObjectInv
  <1>3. /\ DOMAIN Pairs(t) = 1..t.count /\ t.count \in Nat
        /\ \A i \in 1..t.count : s[i] \in Slots(t)
        /\ ValuesOf(t) = [i \in 1..t.count |-> t.table[s[i]].v]
    BY <1>1, PairsAre
  <1>4. \A x : Count(ValuesOf(t), x) \in Nat
    BY <1>3, CountIsNat
  <1>5. PICK j \in 1..t.count : t.table[s[j]].k = k /\ LookupEntry(t, k) = s[j]
    BY <1>1, LookupIs DEF ObjectDel
  <1>6. t' = DeleteEntry(t, s[j]) /\ refs' = Put(refs, t.table[s[j]].v)
    BY <1>5 DEF ObjectDel
  <1>7. /\ \E r : Linked(t', r)
        /\ j \in DOMAIN Pairs(t) /\ Pairs(t)[j][1] = k
        /\ Pairs(t') = RemoveAt(Pairs(t), j)
        /\ \A x : Count(ValuesOf(t'), x) = Count(ValuesOf(t), x)
                                              - (IF t.table[s[j]].v = x THEN 1 ELSE 0)
    BY <1>1, <1>5, <1>6, DeletePairs
  <1>8. Fields!Delete(k)
    BY <1>7, Zenon DEF Fields!Delete, Fields!RemoveAt, RemoveAt
  <1>9. t.table[s[j]].v \in Value
    BY <1>1, <1>3, TableIs DEF Linked
  <1>10. /\ refs' \in [Leaf -> Int]
         /\ \A x \in Leaf : refs'[x] = refs[x] - (IF t.table[s[j]].v = x THEN 1 ELSE 0)
    BY <1>2, <1>6, <1>9, PutIs
  <1> QED BY <1>2, <1>4, <1>7, <1>8, <1>10

\* The container is freed: every value in it is put, and it starts again with nothing.
LEMMA FreeStep ==
    ASSUME ObjectInv, PutContainer
    PROVE  ObjectInv' /\ Fields!Free
  <1>1. PICK s : Linked(t, s)
    BY DEF ObjectInv
  <1>2. /\ kind' = kind /\ owned' = owned /\ t' = NewTable(InitSize, t.hash_fn)
        /\ arr' = NewList
        /\ refs' = PutAll(refs, IF kind = "object" THEN Contents
                                ELSE [i \in 1..arr.length |-> arr.array[i - 1]])
    BY DEF PutContainer
  <1>3. /\ kind \in {"object", "array"} /\ IsArray(arr) /\ refs \in [Leaf -> Int]
        /\ owned \in [Leaf -> Nat] /\ \A v \in Leaf : refs[v] = owned[v] + Occurs(v)
    BY DEF ObjectInv, RefsExact
  <1>4. \A v \in Leaf : Occurs(v) \in Nat
    BY <1>1, <1>3, OccursIs
  <1>5. Linked(t', <<>>) /\ t'.count = 0
    <2>1. t.hash_fn \in [Keys -> Nat]
      BY <1>1, TableIs DEF Linked
    <2> QED BY <1>2, <2>1, NewLinked, SizeAssumption
  <1>6. /\ Pairs(t') = <<>> /\ DOMAIN ValuesOf(t') = {}
    <2>1. /\ Pairs(t') \in Seq(Keys \X Value) /\ Len(Pairs(t')) = 0
          /\ ValuesOf(t') = [i \in 1..0 |-> t'.table[<<>>[i]].v]
      BY <1>5, PairsAre
    <2>2. \A S : \A p \in Seq(S) : Len(p) = 0 => p = <<>>
      BY EmptySeq
    <2>3. 1..0 = {}
      OBVIOUS
    <2> QED BY <2>1, <2>2, <2>3
  <1>7. IsArray(arr') /\ \A i \in 1..arr'.size : arr'.array[i - 1] = Nothing
    BY <1>2, SizeAssumption DEF NewList, IsArray, Value
  <1>8. \A v \in Leaf : Occurs(v)' = 0
    <2>1. ASSUME NEW v \in Leaf PROVE Occurs(v)' = Cardinality({})
      <3>1. {i \in DOMAIN Contents' : Contents'[i] = v} = {}
        <4>1. CASE kind = "object"
          <5>1. Contents' = ValuesOf(t')
            BY <1>2, <4>1 DEF Contents
          <5> QED BY <1>6, <5>1
        <4>2. CASE kind # "object"
          <5>1. Contents' = [i \in 1..arr'.size |-> arr'.array[i - 1]]
            BY <1>2, <4>2 DEF Contents
          <5>2. v # Nothing
            BY NameAssumption
          <5> QED BY <1>7, <5>1, <5>2
        <4> QED BY <4>1, <4>2
      <3> QED BY <3>1, Zenon DEF Occurs
    <2> QED BY <2>1, FS_EmptySet
  <1>9. \A v \in Leaf : refs'[v] = refs[v] - Occurs(v)
    <2>1. ASSUME NEW v \in Leaf PROVE refs'[v] = refs[v] - Occurs(v)
      <3>1. CASE kind = "object"
        <4>1. refs' = PutAll(refs, Contents)
          BY <1>2, <3>1
        <4>2. refs'[v] = refs[v] - Cardinality({i \in DOMAIN Contents : Contents[i] = v})
          BY <1>3, <4>1 DEF PutAll
        <4>3. Occurs(v) = Cardinality({i \in DOMAIN Contents : Contents[i] = v})
          BY Zenon DEF Occurs
        <4> QED BY <4>2, <4>3
      <3>2. CASE kind # "object"
        <4> DEFINE e == [i \in 1..arr.length |-> arr.array[i - 1]]
        <4>1. refs' = PutAll(refs, e)
          BY <1>2, <3>2
        <4>2. Cardinality({i \in DOMAIN e : e[i] = v}) = Occurs(v)
          BY <1>1, <1>3, <3>2, LengthCounts, OccursIs
        <4> HIDE DEF e
        <4>3. refs'[v] = refs[v] - Cardinality({i \in DOMAIN e : e[i] = v})
          BY <1>3, <4>1 DEF PutAll
        <4> QED BY <4>2, <4>3
      <3> QED BY <3>1, <3>2
    <2> QED BY <2>1
  <1>10. refs' \in [Leaf -> Int]
    <2>1. DOMAIN refs' = Leaf
      BY <1>2, <1>3 DEF PutAll
    <2>2. refs' = [v \in Leaf |-> refs'[v]]
      BY <1>2, <1>3 DEF PutAll
    <2>3. \A v \in Leaf : refs'[v] \in Int
      BY <1>3, <1>4, <1>9
    <2> QED BY <2>2, <2>3
  <1>11. \A v \in Leaf : refs'[v] = owned'[v] + Occurs(v)'
    BY <1>2, <1>3, <1>4, <1>8, <1>9
  <1>12. Fields!Free
    BY <1>6 DEF Fields!Free
  <1>13. RefsExact'
    BY <1>11 DEF RefsExact
  <1> QED BY <1>2, <1>3, <1>5, <1>7, <1>10, <1>12, <1>13 DEF ObjectInv

\* json_object_array_put_idx gives the elements one more value and takes the one that was
\* there.
LEMMA PutIdxStep ==
    ASSUME ObjectInv, NEW idx \in Nat, NEW v \in Value, ArrayPutIdx(idx, v)
    PROVE  /\ IsArray(arr)' /\ refs' \in [Leaf -> Int]
           /\ \A x \in Leaf : Count(Elements(arr), x)' - Count(Elements(arr), x)
                                 = (refs'[x] - refs[x]) + (IF v = x THEN 1 ELSE 0)
  <1> DEFINE a == Expand(arr, idx + 1)
  <1>1. IsArray(arr) /\ refs \in [Leaf -> Int]
    BY DEF ObjectInv
  <1>2. refs' = Put(refs, a.array[idx]) /\ arr' = PutAt(a, idx, v)
    BY DEF ArrayPutIdx, PutAt
  <1>3. /\ IsArray(a) /\ idx < a.size
        /\ \A x \in Leaf : Count(Elements(a), x) = Count(Elements(arr), x)
    BY <1>1, ExpandIs
  <1> HIDE DEF a
  <1>4. /\ IsArray(arr') /\ a.array[idx] \in Value
        /\ \A x \in Leaf : Count(Elements(arr'), x) = Count(Elements(a), x)
              - (IF a.array[idx] = x THEN 1 ELSE 0) + (IF v = x THEN 1 ELSE 0)
    BY <1>2, <1>3, PutAtIs
  <1>5. /\ refs' \in [Leaf -> Int]
        /\ \A x \in Leaf : refs'[x] = refs[x] - (IF a.array[idx] = x THEN 1 ELSE 0)
    BY <1>1, <1>2, <1>4, PutIs
  <1>6. \A x : Count(Elements(arr), x) \in Nat
    <2>1. arr.size \in Nat /\ DOMAIN Elements(arr) = 1..arr.size
      BY <1>1 DEF IsArray, Elements
    <2> QED BY <2>1, CountIsNat
  <1> QED BY <1>1, <1>3, <1>4, <1>5, <1>6

\* What the container holds after a step.
LEMMA OccursNext ==
    ASSUME NEW v
    PROVE  /\ kind' = "object" => Occurs(v)' = Count(ValuesOf(t'), v)
           /\ kind' # "object" => Occurs(v)' = Count(Elements(arr'), v)
  <1>1. Occurs(v)' = Count(Contents', v)
    BY Zenon DEF Occurs, Count
  <1>2. kind' = "object" => Contents' = ValuesOf(t')
    BY DEF Contents
  <1>3. kind' # "object" => Contents' = Elements(arr')
    BY DEF Contents, Elements
  <1> QED BY <1>1, <1>2, <1>3

\* Every step keeps the counts exact.
LEMMA ObjectStep == ObjectInv /\ [Next]_vars => ObjectInv'
  <1> SUFFICES ASSUME ObjectInv, [Next]_vars PROVE ObjectInv'
    OBVIOUS
  <1> USE DEF loop
  <1>1. /\ kind \in {"object", "array"} /\ IsArray(arr) /\ refs \in [Leaf -> Int]
        /\ owned \in [Leaf -> Nat] /\ \A v \in Leaf : refs[v] = owned[v] + Occurs(v)
        /\ \E s : Linked(t, s)
    BY DEF ObjectInv, RefsExact
  <1>2. \A v \in Leaf : /\ Occurs(v) \in Nat
                        /\ kind = "object" => Occurs(v) = Count(ValuesOf(t), v)
                        /\ kind # "object" => Occurs(v) = Count(Elements(arr), v)
    BY <1>1, OccursIs
  <1>3. ASSUME UNCHANGED <<kind, t, arr>>, owned' \in [Leaf -> Nat],
               refs' \in [Leaf -> Int],
               \A v \in Leaf : refs'[v] - refs[v] = owned'[v] - owned[v]
        PROVE  ObjectInv'
    <2>1. \A v \in Leaf : Occurs(v)' = Occurs(v)
      BY <1>2, <1>3, <1>1, OccursNext
    <2>2. \A v \in Leaf : refs'[v] = owned'[v] + Occurs(v)'
      <3>1. ASSUME NEW v \in Leaf PROVE refs'[v] = owned'[v] + Occurs(v)'
        <4>1. /\ refs[v] \in Int /\ refs'[v] \in Int /\ owned[v] \in Int
              /\ owned'[v] \in Int /\ Occurs(v) \in Int
          BY <1>1, <1>2, <1>3
        <4>2. /\ refs'[v] - refs[v] = owned'[v] - owned[v]
              /\ refs[v] = owned[v] + Occurs(v) /\ Occurs(v)' = Occurs(v)
          BY <1>1, <1>3, <2>1
        <4> QED BY <4>1, <4>2
      <3> QED BY <3>1
    <2> QED BY <1>1, <1>3, <2>2 DEF ObjectInv, RefsExact
  <1>4. ASSUME UNCHANGED <<kind, t, arr, refs, owned>> PROVE ObjectInv'
    BY <1>1, <1>3, <1>4
  <1>5. ASSUME NEW v \in Leaf, New(v) PROVE ObjectInv'
    <2>1. refs[v] = 0 /\ refs' = [refs EXCEPT ![v] = 1] /\ owned' = [owned EXCEPT ![v] = 1]
          /\ UNCHANGED <<kind, t, arr>>
      BY <1>5 DEF New
    <2>2. owned[v] = 0
      BY <1>1, <1>2, <2>1
    <2> QED BY <1>1, <1>3, <2>1, <2>2
  <1>6. ASSUME NEW v \in Leaf, Get(v) PROVE ObjectInv'
    <2>1. /\ refs' = [refs EXCEPT ![v] = @ + 1] /\ owned' = [owned EXCEPT ![v] = @ + 1]
          /\ UNCHANGED <<kind, t, arr>>
      BY <1>6 DEF Get
    <2> QED BY <1>1, <1>3, <2>1
  <1>7. ASSUME NEW v \in Leaf, PutLeaf(v) PROVE ObjectInv'
    <2>1. owned[v] > 0 /\ refs' = Put(refs, v) /\ owned' = Put(owned, v)
          /\ UNCHANGED <<kind, t, arr>> /\ v \in Value
      BY <1>7 DEF PutLeaf, Give, Value
    <2>2. /\ refs' \in [Leaf -> Int] /\ owned' \in [Leaf -> Nat]
          /\ \A x \in Leaf : /\ refs'[x] = refs[x] - (IF v = x THEN 1 ELSE 0)
                             /\ owned'[x] = owned[x] - (IF v = x THEN 1 ELSE 0)
      BY <1>1, <2>1, PutIs, GiveIs
    <2>3. \A x \in Leaf : refs'[x] - refs[x] = owned'[x] - owned[x]
      BY <1>1, <2>2
    <2> QED BY <1>3, <2>1, <2>2, <2>3
  <1>8. ASSUME NEW v \in Value, Mine(v), Give(v)
        PROVE  /\ owned' \in [Leaf -> Nat]
               /\ \A x \in Leaf : owned'[x] = owned[x] - (IF v = x THEN 1 ELSE 0)
    BY <1>1, <1>8, GiveIs DEF Mine, Give
  <1>9. ASSUME NEW k \in Keys, NEW v \in Value, ObjectAdd(k, v) PROVE ObjectInv'
    <2>1. /\ kind = "object" /\ UNCHANGED <<kind, arr>> /\ Mine(v) /\ Give(v)
      BY <1>9 DEF ObjectAdd, Using
    <2>2. /\ (\E s : Linked(t, s))' /\ refs' \in [Leaf -> Int]
          /\ \A x \in Leaf :
                Count(ValuesOf(t), x)' - Count(ValuesOf(t), x)
                   = (refs'[x] - refs[x]) + (IF v = x THEN 1 ELSE 0)
      BY <1>9, AddStep
    <2>3. \A x : Count(ValuesOf(t'), x) \in Nat
      BY <2>2, ValuesCount
    <2>4. \A x \in Leaf : refs'[x] = owned'[x] + Occurs(x)'
      <3>1. \A x \in Leaf : Occurs(x)' = Count(ValuesOf(t'), x)
        BY <2>1, OccursNext
      <3>2. \A x \in Leaf : Occurs(x) = Count(ValuesOf(t), x)
        BY <1>2, <2>1
      <3>3. owned' \in [Leaf -> Nat]
            /\ \A x \in Leaf : owned'[x] = owned[x] - (IF v = x THEN 1 ELSE 0)
        BY <1>8, <2>1
      <3>4. ASSUME NEW x \in Leaf PROVE refs'[x] = owned'[x] + Occurs(x)'
        <4> DEFINE c == Count(ValuesOf(t), x)
                   d == Count(ValuesOf(t'), x)
                   one == IF v = x THEN 1 ELSE 0
        <4>1. /\ refs[x] \in Int /\ refs'[x] \in Int /\ owned[x] \in Int /\ c \in Int
              /\ d \in Int /\ one \in Int /\ c = Occurs(x) /\ d = Occurs(x)'
          BY <1>1, <1>2, <2>2, <2>3, <3>1, <3>2
        <4>2. d - c = (refs'[x] - refs[x]) + one
          BY <2>2
        <4>3. refs[x] = owned[x] + c /\ owned'[x] = owned[x] - one
          BY <1>1, <3>2, <3>3
        <4> HIDE DEF c, d, one
        <4> QED BY <4>1, <4>2, <4>3
      <3> QED BY <3>4
    <2> QED BY <1>1, <1>8, <2>1, <2>2, <2>4 DEF ObjectInv, RefsExact
  <1>10. ASSUME NEW k \in Keys, ObjectDel(k) PROVE ObjectInv'
    <2>1. kind = "object" /\ UNCHANGED <<kind, arr, owned>>
      BY <1>10 DEF ObjectDel, Using
    <2>2. /\ (\E s : Linked(t, s))' /\ refs' \in [Leaf -> Int]
          /\ \A x \in Leaf :
                Count(ValuesOf(t), x)' - Count(ValuesOf(t), x) = refs'[x] - refs[x]
      BY <1>10, DelStep
    <2>3. \A x : Count(ValuesOf(t'), x) \in Nat
      BY <2>2, ValuesCount
    <2>4. \A x \in Leaf : refs'[x] = owned'[x] + Occurs(x)'
      <3>1. \A x \in Leaf : Occurs(x)' = Count(ValuesOf(t'), x)
        BY <2>1, OccursNext
      <3>2. \A x \in Leaf : Occurs(x) = Count(ValuesOf(t), x)
        BY <1>2, <2>1
      <3> QED BY <1>1, <1>2, <2>1, <2>2, <2>3, <3>1, <3>2
    <2> QED BY <1>1, <2>1, <2>2, <2>4 DEF ObjectInv, RefsExact
  <1>11. ASSUME NEW idx \in Nat, NEW v \in Value, ArrayPutIdx(idx, v) PROVE ObjectInv'
    <2>1. kind # "object" /\ UNCHANGED <<kind, t>> /\ Mine(v) /\ Give(v)
      BY <1>11 DEF ArrayPutIdx, Using
    <2>2. /\ IsArray(arr)' /\ refs' \in [Leaf -> Int]
          /\ \A x \in Leaf : Count(Elements(arr), x)' - Count(Elements(arr), x)
                                = (refs'[x] - refs[x]) + (IF v = x THEN 1 ELSE 0)
      BY <1>11, PutIdxStep
    <2>3. \A x : Count(Elements(arr'), x) \in Nat
      BY <2>2, ElementsCount
    <2>4. \A x \in Leaf : refs'[x] = owned'[x] + Occurs(x)'
      <3>1. \A x \in Leaf : Occurs(x)' = Count(Elements(arr'), x)
        BY <2>1, OccursNext
      <3>2. \A x \in Leaf : Occurs(x) = Count(Elements(arr), x)
        BY <1>2, <2>1
      <3>3. owned' \in [Leaf -> Nat]
            /\ \A x \in Leaf : owned'[x] = owned[x] - (IF v = x THEN 1 ELSE 0)
        BY <1>8, <2>1
      <3>4. ASSUME NEW x \in Leaf PROVE refs'[x] = owned'[x] + Occurs(x)'
        <4> DEFINE c == Count(Elements(arr), x)
                   d == Count(Elements(arr'), x)
                   one == IF v = x THEN 1 ELSE 0
        <4>1. /\ refs[x] \in Int /\ refs'[x] \in Int /\ owned[x] \in Int /\ c \in Int
              /\ d \in Int /\ one \in Int /\ c = Occurs(x) /\ d = Occurs(x)'
          BY <1>1, <1>2, <2>2, <2>3, <3>1, <3>2
        <4>2. d - c = (refs'[x] - refs[x]) + one
          BY <2>2
        <4>3. refs[x] = owned[x] + c /\ owned'[x] = owned[x] - one
          BY <1>1, <3>2, <3>3
        <4> HIDE DEF c, d, one
        <4> QED BY <4>1, <4>2, <4>3
      <3> QED BY <3>4
    <2> QED BY <1>1, <1>8, <2>1, <2>2, <2>4 DEF ObjectInv, RefsExact
  <1>12. ASSUME NEW v \in Value, ArrayAdd(v) PROVE ObjectInv'
    <2>1. arr.length \in Nat
      BY <1>1 DEF IsArray
    <2> QED BY <1>11, <1>12, <2>1 DEF ArrayAdd
  <1>13. CASE PutContainer
    BY <1>13, FreeStep
  <1>14. CASE NewContainer \/ Advance \/ EndLoop
    BY <1>4, <1>14 DEF NewContainer, Advance, EndLoop
  <1>15. ASSUME NEW how \in {"foreach", "iterator"}, BeginLoop(how) PROVE ObjectInv'
    BY <1>4, <1>15 DEF BeginLoop
  <1>16. CASE UNCHANGED vars
    BY <1>4, <1>16 DEF vars
  <1>17. \A idx \in 0..(MaxLength - 1) : idx \in Nat
    BY BoundAssumption
  <1> QED BY <1>5, <1>6, <1>7, <1>9, <1>10, <1>11, <1>12, <1>13, <1>14, <1>15, <1>16, <1>17
          DEF Next

LEMMA ObjectInit == Init => ObjectInv
  <1> SUFFICES ASSUME Init PROVE ObjectInv
    OBVIOUS
  <1>1. PICK h \in Hashes : t = NewTable(InitSize, h)
    BY DEF Init
  <1>2. Linked(t, <<>>) /\ t.count = 0
    BY <1>1, NewLinked, SizeAssumption, HashAssumption
  <1>3. /\ kind \in {"object", "array"} /\ refs = [v \in Leaf |-> 0]
        /\ owned = [v \in Leaf |-> 0] /\ arr = NewList
    BY DEF Init
  <1>4. IsArray(arr) /\ \A i \in 1..arr.size : arr.array[i - 1] = Nothing
    BY <1>3, SizeAssumption DEF NewList, IsArray, Value
  <1>5. DOMAIN ValuesOf(t) = {}
    <2>1. ValuesOf(t) = [i \in 1..0 |-> t.table[<<>>[i]].v] /\ 1..0 = {}
      BY <1>2, PairsAre
    <2> QED BY <2>1
  <1>6. \A v \in Leaf : Occurs(v) = 0
    <2>1. ASSUME NEW v \in Leaf PROVE Occurs(v) = Cardinality({})
      <3>1. {i \in DOMAIN Contents : Contents[i] = v} = {}
        <4>1. CASE kind = "object"
          BY <1>5, <4>1 DEF Contents
        <4>2. CASE kind # "object"
          <5>1. Contents = [i \in 1..arr.size |-> arr.array[i - 1]] /\ v # Nothing
            BY <4>2, NameAssumption DEF Contents
          <5> QED BY <1>4, <5>1
        <4> QED BY <4>1, <4>2
      <3> QED BY <3>1, Zenon DEF Occurs
    <2> QED BY <2>1, FS_EmptySet
  <1>7. RefsExact
    BY <1>3, <1>6 DEF RefsExact
  <1> QED BY <1>2, <1>3, <1>4, <1>7 DEF ObjectInv

\* The tables and arrays stay well-formed, and every count is the number of owners, for any
\* names, values, hash function and sizes.
THEOREM ObjectInductive == Spec => []ObjectInv
  BY ObjectInit, ObjectStep, PTL DEF Spec

\* _ref_count of every value is the number of its owners: json_object_get, json_object_put
\* and the functions that add, replace and delete fields and elements lose none and free
\* none too early.
THEOREM CountsAreOwners == Spec => []RefsExact
  <1>1. ObjectInv => RefsExact
    BY DEF ObjectInv
  <1> QED BY <1>1, ObjectInductive, PTL

\* Every step on the object is one of the ordered map that json_object.h promises, or none.
LEMMA FieldsStep == ObjectInv /\ [Next]_vars => [Fields!Next]_(Pairs(t))
  <1> SUFFICES ASSUME ObjectInv, [Next]_vars PROVE [Fields!Next]_(Pairs(t))
    OBVIOUS
  <1>1. ASSUME t' = t PROVE Pairs(t)' = Pairs(t)
    BY <1>1
  <1>2. ASSUME NEW k \in Keys, ObjectDel(k) PROVE Fields!Next
    BY <1>2, DelStep DEF Fields!Next
  <1>3. ASSUME NEW k \in Keys, NEW v \in Value, ObjectAdd(k, v) PROVE Fields!Next
    BY <1>3, AddStep DEF Fields!Next
  <1>4. CASE PutContainer
    BY <1>4, FreeStep DEF Fields!Next
  <1>5. \/ t' = t \/ PutContainer
        \/ \E k \in Keys : ObjectDel(k) \/ \E v \in Value : ObjectAdd(k, v)
    BY DEF Next, vars, loop, New, Get, PutLeaf, NewContainer, BeginLoop, Advance, EndLoop,
           ArrayAdd, ArrayPutIdx
  <1> QED BY <1>1, <1>2, <1>3, <1>4, <1>5

\* The fields of an object are an ordered map, whatever names collide, however often slots
\* are freed and taken again, and whenever the table grows.
THEOREM FieldsAreOrderedMap == Spec => RefinesOrderedMap
  <1>1. Init => Fields!Init
    <2> SUFFICES ASSUME Init PROVE Pairs(t) = <<>>
      BY DEF Fields!Init
    <2>1. PICK h \in Hashes : t = NewTable(InitSize, h)
      BY DEF Init
    <2>2. Linked(t, <<>>) /\ t.count = 0
      BY <2>1, NewLinked, SizeAssumption, HashAssumption
    <2>3. Pairs(t) \in Seq(Keys \X Value) /\ Len(Pairs(t)) = 0
      BY <2>2, PairsAre
    <2> QED BY <2>3, EmptySeq
  <1> QED BY <1>1, FieldsStep, ObjectInductive, PTL DEF Spec, RefinesOrderedMap, Fields!Spec

-----------------------------------------------------------------------------
(* The loops over the fields.                                              *)

\* The loop has come to the names of vis, those before the j-th entry among them, and what is
\* due is these and the names from the j-th entry on.
Met(u, s, j, vis, d) ==
    /\ j \in 1..(u.count + 1)
    /\ Len(d) = Len(vis) + u.count + 1 - j
    /\ \A i \in 1..Len(vis) : d[i] = vis[i]
    /\ \A i \in j..u.count : /\ d[Len(vis) + i - j + 1] = u.table[s[i]].k
                             /\ u.table[s[i]].k \notin Range(vis)
    /\ \A i \in 1..(j - 1) : u.table[s[i]].k \in Range(vis)

\* The loop goes on at the j-th entry: the macro has its slot, the iterator the one of the
\* entry before it.
GoesOnAt(u, s, j, it) ==
    /\ it.kind = "foreach" /\ it.entry # NULL =>
          it.next = IF j = u.count + 1 THEN NULL ELSE s[j]
    /\ it.kind = "iterator" /\ it.entry # NULL => j > 1 /\ it.entry = s[j - 1]
    /\ it.entry = NULL => j = u.count + 1

LEMMA NextIndex ==
    ASSUME NEW c \in Nat, NEW j \in 1..(c + 1), j # c + 1
    PROVE  /\ j \in 1..c /\ j + 1 \in 1..(c + 1) /\ j \in j..c /\ (j + 1) - 1 = j
           /\ j + 1 > 1 /\ (j + 1 = c + 1 <=> j = c)
           /\ \A n \in Nat : (n + 1) + c + 1 - (j + 1) = n + c + 1 - j /\ n + j - j + 1 = n + 1
           /\ \A n \in Nat, i \in (j + 1)..c :
                 i \in j..c /\ i \in 1..c /\ i # j /\ (n + 1) + i - (j + 1) + 1 = n + i - j + 1
           /\ \A i \in 1..j : i \in 1..(j - 1) \/ i = j
  OBVIOUS

\* The loop comes to the j-th entry, or to the end.
LEMMA ComeToIs ==
    ASSUME NEW u, NEW s, Linked(u, s), NEW j \in Nat, NEW vis \in Seq(Keys), NEW d \in Seq(Keys),
           Met(u, s, j, vis, d), NEW how \in {"foreach", "iterator"}
    PROVE  LET e == IF j = u.count + 1 THEN NULL ELSE s[j]
               it == [kind |-> how, entry |-> e,
                      next |-> IF how = "foreach" /\ e # NULL THEN u.table[e].next ELSE NULL]
               new == IF e = NULL THEN vis ELSE Append(vis, u.table[e].k) IN
           /\ new \in Seq(Keys)
           /\ \E m : Met(u, s, m, new, d) /\ GoesOnAt(u, s, m, it)
  <1> DEFINE n == Len(vis)
             e == IF j = u.count + 1 THEN NULL ELSE s[j]
             new == IF e = NULL THEN vis ELSE Append(vis, u.table[e].k)
             it == [kind |-> how, entry |-> e,
                    next |-> IF how = "foreach" /\ e # NULL THEN u.table[e].next ELSE NULL]
  <1>1. /\ u.count \in Nat /\ \A i \in 1..u.count : s[i] \in Slots(u) /\ s[i] # NULL
    BY PairsAre
  <1>2. /\ Chain(u, s)
        /\ \A i \in 1..u.count : u.table[s[i]].k \in Keys
        /\ \A a, b \in 1..u.count : u.table[s[a]].k = u.table[s[b]].k => a = b
    BY DEF Linked, InUse
  <1>3. /\ j \in 1..(u.count + 1) /\ n \in Nat
        /\ Len(d) = n + u.count + 1 - j
        /\ \A i \in 1..n : d[i] = vis[i]
        /\ \A i \in j..u.count : /\ d[n + i - j + 1] = u.table[s[i]].k
                                 /\ u.table[s[i]].k \notin Range(vis)
        /\ \A i \in 1..(j - 1) : u.table[s[i]].k \in Range(vis)
    BY DEF Met
  <1>9. /\ e = (IF j = u.count + 1 THEN NULL ELSE s[j])
        /\ new = (IF e = NULL THEN vis ELSE Append(vis, u.table[e].k))
        /\ it.kind = how /\ it.entry = e
        /\ it.next = IF how = "foreach" /\ e # NULL THEN u.table[e].next ELSE NULL
    OBVIOUS
  <1> SUFFICES new \in Seq(Keys) /\ \E m : Met(u, s, m, new, d) /\ GoesOnAt(u, s, m, it)
    BY Zenon
  <1> HIDE DEF n, e, new, it
  <1>4. CASE j = u.count + 1
    <2>1. e = NULL /\ new = vis /\ it.entry = NULL
      BY <1>4, <1>9
    <2>2. GoesOnAt(u, s, j, it)
      BY <1>4, <2>1 DEF GoesOnAt
    <2> QED BY <2>1, <2>2
  <1>5. CASE j # u.count + 1
    <2> DEFINE k == u.table[s[j]].k
               c == u.count
    <2> HIDE DEF k, c
    <2>0. c \in Nat /\ c = u.count /\ j \in 1..(c + 1) /\ j # c + 1 /\ n \in Nat
      BY <1>1, <1>3, <1>5 DEF c
    <2>1. /\ j \in 1..c /\ j + 1 \in 1..(c + 1) /\ j \in j..c /\ (j + 1) - 1 = j
          /\ j + 1 > 1 /\ (j + 1 = c + 1 <=> j = c)
          /\ (n + 1) + c + 1 - (j + 1) = n + c + 1 - j /\ n + j - j + 1 = n + 1
          /\ \A i \in (j + 1)..c :
                i \in j..c /\ i \in 1..c /\ i # j /\ (n + 1) + i - (j + 1) + 1 = n + i - j + 1
          /\ \A i \in 1..j : i \in 1..(j - 1) \/ i = j
      BY <2>0, NextIndex, SMTT(30)
    <2>2. e = s[j] /\ e # NULL /\ k \in Keys /\ new = Append(vis, k)
      BY <1>1, <1>2, <1>5, <1>9, <2>0, <2>1 DEF k
    <2>3. /\ new \in Seq(Keys) /\ Len(new) = n + 1
          /\ \A i \in 1..n : new[i] = vis[i]
          /\ new[n + 1] = k
      BY <2>2, AppendProperties DEF n
    <2>4. \A x : x \in Range(new) <=> x \in Range(vis) \/ x = k
      <3>1. DOMAIN new = 1..(n + 1) /\ DOMAIN vis = 1..n
        BY <1>3, <2>3 DEF n
      <3>2. \A i \in 1..(n + 1) : i \in 1..n \/ i = n + 1
        BY <1>3
      <3>3. \A i \in 1..n : i \in 1..(n + 1)
        BY <1>3
      <3>4. n + 1 \in 1..(n + 1)
        BY <1>3
      <3>5. ASSUME NEW x \in Range(new) PROVE x \in Range(vis) \/ x = k
        <4>1. PICK i \in 1..(n + 1) : new[i] = x
          BY <3>1 DEF Range
        <4>2. CASE i \in 1..n
          BY <2>3, <3>1, <4>1, <4>2 DEF Range
        <4>3. CASE i = n + 1
          BY <2>3, <4>1, <4>3
        <4> QED BY <3>2, <4>2, <4>3
      <3>6. ASSUME NEW x \in Range(vis) PROVE x \in Range(new)
        <4>1. PICK i \in 1..n : vis[i] = x
          BY <3>1 DEF Range
        <4> QED BY <2>3, <3>1, <3>3, <4>1 DEF Range
      <3>7. k \in Range(new)
        BY <2>3, <3>1, <3>4 DEF Range
      <3> QED BY <3>5, <3>6, <3>7
    <2>5. Met(u, s, j + 1, new, d)
      <3>1. Len(d) = Len(new) + u.count + 1 - (j + 1)
        <4>1. Len(d) = n + c + 1 - j
          BY <1>3, <2>0, Zenon
        <4> QED BY <2>0, <2>1, <2>3, <4>1, Zenon
      <3>2. \A i \in 1..Len(new) : d[i] = new[i]
        <4>1. d[n + 1] = k
          <5>1. d[n + j - j + 1] = u.table[s[j]].k
            BY <1>3, <2>0, <2>1, Zenon
          <5> QED BY <2>1, <5>1, Zenon DEF k
        <4>2. \A i \in 1..(n + 1) : i \in 1..n \/ i = n + 1
          BY <2>0
        <4>3. \A i \in 1..(n + 1) : d[i] = new[i]
          BY <1>3, <2>3, <4>1, <4>2, Zenon
        <4> QED BY <2>3, <4>3, Zenon
      <3>3. ASSUME NEW i \in (j + 1)..u.count
            PROVE  /\ d[Len(new) + i - (j + 1) + 1] = u.table[s[i]].k
                   /\ u.table[s[i]].k \notin Range(new)
        <4>1. i \in j..u.count /\ i \in 1..u.count /\ i # j
              /\ Len(new) + i - (j + 1) + 1 = n + i - j + 1
          BY <2>0, <2>1, <2>3, Zenon
        <4>2. u.table[s[i]].k # k
          BY <1>2, <2>0, <2>1, <4>1, Zenon DEF k
        <4>3. /\ d[n + i - j + 1] = u.table[s[i]].k /\ u.table[s[i]].k \notin Range(vis)
          BY <1>3, <4>1, Zenon
        <4> QED BY <2>4, <4>1, <4>2, <4>3, Zenon
      <3>4. ASSUME NEW i \in 1..((j + 1) - 1) PROVE u.table[s[i]].k \in Range(new)
        <4>1. i \in 1..(j - 1) \/ i = j
          BY <2>1, Zenon
        <4> QED BY <1>3, <2>4, <4>1, Zenon DEF k
      <3> QED BY <2>0, <2>1, <3>1, <3>2, <3>3, <3>4, Zenon DEF Met
    <2>6. u.table[s[j]].next = IF j = u.count THEN NULL ELSE s[j + 1]
      BY <1>2, <2>0, <2>1 DEF Chain
    <2>7. GoesOnAt(u, s, j + 1, it)
      <3>1. it.kind = "foreach" => it.next = IF j + 1 = u.count + 1 THEN NULL ELSE s[j + 1]
        BY <1>9, <2>0, <2>1, <2>2, <2>6, Zenon
      <3> QED BY <1>9, <2>1, <2>2, <3>1, Zenon DEF GoesOnAt
    <2> QED BY <2>3, <2>5, <2>7, Zenon
  <1> QED BY <1>4, <1>5, Zenon

\* The entries without the i-th: each keeps its key, and those behind it move up by a place.
MovedUp(u, s, i, w, r) ==
    /\ w = DeleteEntry(u, s[i]) /\ Linked(w, r) /\ w.count = u.count - 1
    /\ \A x \in 1..(u.count - 1) :
          /\ r[x] = IF x < i THEN s[x] ELSE s[x + 1]
          /\ w.table[r[x]].k = IF x < i THEN u.table[s[x]].k ELSE u.table[s[x + 1]].k

\* The names of the table without its i-th entry.
LEMMA DeleteNames ==
    ASSUME NEW u, NEW s, Linked(u, s), NEW i \in 1..u.count
    PROVE  \E w, r : MovedUp(u, s, i, w, r)
  <1> DEFINE w == DeleteEntry(u, s[i])
             r == [x \in 1..(u.count - 1) |-> IF x < i THEN s[x] ELSE s[x + 1]]
  <1>1. /\ Linked(w, r) /\ w.count = u.count - 1
        /\ \A m \in Slots(u) : m # s[i] => w.table[m].k = u.table[m].k
    BY DeleteLinked
  <1>2. /\ \A x \in 1..u.count : s[x] \in Slots(u)
        /\ \A x \in 1..u.count : s[x] = s[i] => x = i
        /\ u.count \in Nat
    BY PairsAre DEF Linked, InUse
  <1>3. \A x \in 1..(u.count - 1) :
           /\ r[x] = (IF x < i THEN s[x] ELSE s[x + 1])
           /\ x < i => x \in 1..u.count /\ x # i
           /\ ~(x < i) => x + 1 \in 1..u.count /\ x + 1 # i
    BY <1>2
  <1> HIDE DEF w, r
  <1>4. \A x \in 1..(u.count - 1) :
           w.table[r[x]].k = IF x < i THEN u.table[s[x]].k ELSE u.table[s[x + 1]].k
    BY <1>1, <1>2, <1>3
  <1>5. MovedUp(u, s, i, w, r)
    BY <1>1, <1>3, <1>4, Zenon DEF w, MovedUp
  <1> QED BY <1>5, Zenon

LEMMA BeforeIndex ==
    ASSUME NEW c \in Nat, NEW j \in 1..(c + 1), NEW i \in 1..c, i < j
    PROVE  /\ j - 1 \in 1..((c - 1) + 1) /\ (j - 1 = (c - 1) + 1 <=> j = c + 1)
           /\ \A n \in Nat : n + (c - 1) + 1 - (j - 1) = n + c + 1 - j
           /\ \A n \in Nat, x \in (j - 1)..(c - 1) :
                 /\ x \in 1..(c - 1) /\ ~(x < i) /\ x + 1 \in j..c
                 /\ n + x - (j - 1) + 1 = n + (x + 1) - j + 1
           /\ \A x \in 1..((j - 1) - 1) :
                 x \in 1..(c - 1) /\ x \in 1..(j - 1) /\ x + 1 \in 1..(j - 1)
           /\ j # c + 1 => j - 1 \in 1..(c - 1) /\ ~(j - 1 < i) /\ (j - 1) + 1 = j
           /\ i # j - 1 => /\ j - 1 > 1 /\ (j - 1) - 1 \in 1..(c - 1)
                           /\ ~((j - 1) - 1 < i) /\ ((j - 1) - 1) + 1 = j - 1
           /\ i \in 1..(j - 1)
  OBVIOUS

\* An entry the loop has come to is deleted: it goes on at the same entry, which is one
\* place further to the front.
LEMMA DeleteBehind ==
    ASSUME NEW u, NEW s, Linked(u, s), NEW i \in 1..u.count,
           NEW j \in Nat, NEW vis \in Seq(Keys), NEW d \in Seq(Keys), NEW it,
           Met(u, s, j, vis, d), GoesOnAt(u, s, j, it), i < j,
           it.kind = "iterator" /\ it.entry # NULL => u.table[it.entry].k # u.table[s[i]].k
    PROVE  \E r, m : LET w == DeleteEntry(u, s[i]) IN
              Linked(w, r) /\ Met(w, r, m, vis, d) /\ GoesOnAt(w, r, m, it)
  <1>0. PICK w, r : MovedUp(u, s, i, w, r)
    BY DeleteNames, Zenon
  <1>1. /\ w = DeleteEntry(u, s[i]) /\ Linked(w, r) /\ w.count = u.count - 1
        /\ \A x \in 1..(u.count - 1) :
              /\ r[x] = (IF x < i THEN s[x] ELSE s[x + 1])
              /\ w.table[r[x]].k = (IF x < i THEN u.table[s[x]].k ELSE u.table[s[x + 1]].k)
    BY <1>0, Zenon DEF MovedUp
  <1> DEFINE c == u.count
             n == Len(vis)
  <1>2. /\ j \in 1..(c + 1) /\ n \in Nat
        /\ Len(d) = n + c + 1 - j
        /\ \A x \in 1..n : d[x] = vis[x]
        /\ \A x \in j..c : /\ d[n + x - j + 1] = u.table[s[x]].k
                           /\ u.table[s[x]].k \notin Range(vis)
        /\ \A x \in 1..(j - 1) : u.table[s[x]].k \in Range(vis)
    BY SMTT(30) DEF Met
  <1>3. c \in Nat /\ i \in 1..c
    BY PairsAre
  <1> HIDE DEF c, n
  <1>4. /\ j - 1 \in 1..((c - 1) + 1) /\ (j - 1 = (c - 1) + 1 <=> j = c + 1)
        /\ n + (c - 1) + 1 - (j - 1) = n + c + 1 - j
        /\ \A x \in (j - 1)..(c - 1) :
              /\ x \in 1..(c - 1) /\ ~(x < i) /\ x + 1 \in j..c
              /\ n + x - (j - 1) + 1 = n + (x + 1) - j + 1
        /\ \A x \in 1..((j - 1) - 1) :
              x \in 1..(c - 1) /\ x \in 1..(j - 1) /\ x + 1 \in 1..(j - 1)
        /\ j # c + 1 => j - 1 \in 1..(c - 1) /\ ~(j - 1 < i) /\ (j - 1) + 1 = j
        /\ i # j - 1 => /\ j - 1 > 1 /\ (j - 1) - 1 \in 1..(c - 1)
                        /\ ~((j - 1) - 1 < i) /\ ((j - 1) - 1) + 1 = j - 1
    BY <1>2, <1>3, BeforeIndex
  <1>5. w.count = c - 1
    BY <1>1 DEF c
  <1>6. \A x \in 1..(c - 1) :
           /\ r[x] = (IF x < i THEN s[x] ELSE s[x + 1])
           /\ w.table[r[x]].k = (IF x < i THEN u.table[s[x]].k ELSE u.table[s[x + 1]].k)
    BY <1>1, Zenon DEF c
  <1>7. Met(w, r, j - 1, vis, d)
    <2>1. j - 1 \in 1..(w.count + 1)
      BY <1>4, <1>5, Zenon
    <2>2. Len(d) = Len(vis) + w.count + 1 - (j - 1)
      BY <1>2, <1>4, <1>5, Zenon DEF n
    <2>3. \A x \in 1..Len(vis) : d[x] = vis[x]
      BY <1>2, Zenon DEF n
    <2>4. ASSUME NEW x \in (j - 1)..w.count
          PROVE  /\ d[Len(vis) + x - (j - 1) + 1] = w.table[r[x]].k
                 /\ w.table[r[x]].k \notin Range(vis)
      <3>1. /\ x \in 1..(c - 1) /\ ~(x < i) /\ x + 1 \in j..c
            /\ n + x - (j - 1) + 1 = n + (x + 1) - j + 1
        BY <1>4, <1>5, Zenon
      <3>2. w.table[r[x]].k = u.table[s[x + 1]].k
        BY <1>6, <3>1, Zenon
      <3>3. /\ d[n + (x + 1) - j + 1] = u.table[s[x + 1]].k
            /\ u.table[s[x + 1]].k \notin Range(vis)
        BY <1>2, <3>1, Zenon
      <3> QED BY <3>1, <3>2, <3>3, Zenon DEF n
    <2>5. ASSUME NEW x \in 1..((j - 1) - 1) PROVE w.table[r[x]].k \in Range(vis)
      <3>1. x \in 1..(c - 1) /\ x \in 1..(j - 1) /\ x + 1 \in 1..(j - 1)
        BY <1>4, Zenon
      <3> QED BY <1>2, <1>6, <3>1, Zenon
    <2> QED BY <2>1, <2>2, <2>3, <2>4, <2>5, Zenon DEF Met
  <1>8. GoesOnAt(w, r, j - 1, it)
    <2>1. /\ it.kind = "foreach" /\ it.entry # NULL =>
                it.next = (IF j = c + 1 THEN NULL ELSE s[j])
          /\ it.kind = "iterator" /\ it.entry # NULL => j > 1 /\ it.entry = s[j - 1]
          /\ it.entry = NULL => j = c + 1
      BY Zenon DEF GoesOnAt, c
    <2>2. ASSUME it.kind = "foreach", it.entry # NULL
          PROVE  it.next = IF j - 1 = w.count + 1 THEN NULL ELSE r[j - 1]
      BY <1>4, <1>5, <1>6, <2>1, <2>2, Zenon
    <2>3. ASSUME it.kind = "iterator", it.entry # NULL
          PROVE  j - 1 > 1 /\ it.entry = r[(j - 1) - 1]
      <3>1. i # j - 1
        BY <2>1, <2>3, Zenon
      <3> QED BY <1>4, <1>6, <2>1, <2>3, <3>1, Zenon
    <2> QED BY <1>4, <1>5, <2>1, <2>2, <2>3, Zenon DEF GoesOnAt
  <1> QED BY <1>1, <1>7, <1>8, Zenon

LEMMA AheadIndex ==
    ASSUME NEW c \in Nat, NEW j \in 1..(c + 1), NEW i \in j..c, NEW n \in Nat,
           NEW len \in Nat, len = n + c + 1 - j, NEW m, m = n + i - j + 1
    PROVE  /\ j \in 1..((c - 1) + 1) /\ j # c + 1 /\ m \in 1..len
           /\ n + (c - 1) + 1 - j = len - 1
           /\ \A x \in 1..n : x < m /\ x \in 1..(len - 1) /\ x \in 1..len
           /\ \A x \in j..(c - 1) :
                 /\ x \in 1..(c - 1) /\ x \in j..c /\ x + 1 \in j..c
                 /\ n + x - j + 1 \in 1..(len - 1)
                 /\ n + x - j + 1 < m <=> x < i
                 /\ (n + x - j + 1) + 1 = n + (x + 1) - j + 1
           /\ \A x \in 1..(j - 1) : x < i /\ x \in 1..(c - 1)
           /\ j > 1 => j - 1 \in 1..(c - 1) /\ j - 1 < i
           /\ \A y \in 1..len : y \in 1..n \/ (y - n + j - 1 \in j..c /\ n + (y - n + j - 1) - j + 1 = y)
  OBVIOUS

\* An entry the loop has not come to is deleted, and is not due any more.
LEMMA DeleteDue ==
    ASSUME NEW u, NEW s, Linked(u, s), NEW i \in 1..u.count,
           NEW j \in Nat, j <= i,
           NEW vis \in Seq(Keys), NEW d \in Seq(Keys), NEW it,
           Met(u, s, j, vis, d), GoesOnAt(u, s, j, it), it.kind = "foreach" => it.next # s[i],
           NEW q \in DOMAIN d, d[q] = u.table[s[i]].k
    PROVE  /\ RemoveAt(d, q) \in Seq(Keys)
           /\ \E r : LET w == DeleteEntry(u, s[i]) IN
                 /\ Linked(w, r) /\ Met(w, r, j, vis, RemoveAt(d, q))
                 /\ GoesOnAt(w, r, j, it)
  <1>0. PICK w, r : MovedUp(u, s, i, w, r)
    BY DeleteNames, Zenon
  <1>1. /\ w = DeleteEntry(u, s[i]) /\ Linked(w, r) /\ w.count = u.count - 1
        /\ \A x \in 1..(u.count - 1) :
              /\ r[x] = (IF x < i THEN s[x] ELSE s[x + 1])
              /\ w.table[r[x]].k = (IF x < i THEN u.table[s[x]].k ELSE u.table[s[x + 1]].k)
    BY <1>0, Zenon DEF MovedUp
  <1> DEFINE c == u.count
             n == Len(vis)
             len == Len(d)
             m == n + i - j + 1
  <1>2. /\ j \in 1..(c + 1) /\ n \in Nat /\ len \in Nat
        /\ len = n + c + 1 - j
        /\ \A x \in 1..n : d[x] = vis[x]
        /\ \A x \in j..c : /\ d[n + x - j + 1] = u.table[s[x]].k
                           /\ u.table[s[x]].k \notin Range(vis)
        /\ \A x \in 1..(j - 1) : u.table[s[x]].k \in Range(vis)
    BY DEF Met
  <1>3. c \in Nat /\ i \in j..c
    BY PairsAre
  <1>4. DOMAIN d = 1..len /\ DOMAIN vis = 1..n
    OBVIOUS
  <1>5. /\ w.count = c - 1
        /\ \A x \in 1..(c - 1) :
              /\ r[x] = (IF x < i THEN s[x] ELSE s[x + 1])
              /\ w.table[r[x]].k = (IF x < i THEN u.table[s[x]].k ELSE u.table[s[x + 1]].k)
    BY <1>1, Zenon
  <1>6. m = n + i - j + 1
    OBVIOUS
  <1> HIDE DEF c, n, len, m
  <1>7. /\ j \in 1..((c - 1) + 1) /\ j # c + 1 /\ m \in 1..len
        /\ n + (c - 1) + 1 - j = len - 1
        /\ \A x \in 1..n : x < m /\ x \in 1..(len - 1) /\ x \in 1..len
        /\ \A x \in j..(c - 1) :
              /\ x \in 1..(c - 1) /\ x \in j..c /\ x + 1 \in j..c
              /\ n + x - j + 1 \in 1..(len - 1)
              /\ n + x - j + 1 < m <=> x < i
              /\ (n + x - j + 1) + 1 = n + (x + 1) - j + 1
        /\ \A x \in 1..(j - 1) : x < i /\ x \in 1..(c - 1)
        /\ j > 1 => j - 1 \in 1..(c - 1) /\ j - 1 < i
        /\ \A y \in 1..len : y \in 1..n \/ (y - n + j - 1 \in j..c /\ n + (y - n + j - 1) - j + 1 = y)
    BY <1>2, <1>3, <1>6, AheadIndex
  <1>8. \A a, b \in 1..c : u.table[s[a]].k = u.table[s[b]].k => a = b
    BY Zenon DEF Linked, InUse, c
  <1>9. q = m
    <2>1. CASE q \in 1..n
      <3>1. d[q] \in Range(vis)
        BY <1>2, <1>4, <2>1 DEF Range
      <3> QED BY <1>2, <1>3, <3>1, Zenon
    <2>2. CASE q \notin 1..n
      <3> DEFINE x == q - n + j - 1
      <3>1. x \in j..c /\ n + x - j + 1 = q
        BY <1>4, <1>7, <2>2, Zenon
      <3> HIDE DEF x
      <3>2. u.table[s[x]].k = u.table[s[i]].k
        BY <1>2, <3>1, Zenon
      <3>3. x \in 1..c /\ i \in 1..c
        BY <1>2, <1>3, <3>1
      <3>4. x = i
        BY <1>8, <3>2, <3>3, Zenon
      <3> QED BY <1>6, <3>1, <3>4, Zenon
    <2> QED BY <2>1, <2>2
  <1> DEFINE f == RemoveAt(d, q)
  <1>10. /\ f \in Seq(Keys) /\ Len(f) = len - 1
         /\ f = [x \in 1..(len - 1) |-> IF x < m THEN d[x] ELSE d[x + 1]]
    <2>1. q \in 1..Len(d)
      BY <1>4 DEF len
    <2> QED BY <1>9, <2>1, RemoveAtIs DEF len
  <1> HIDE DEF f
  <1>11. \A x \in 1..(len - 1) : f[x] = IF x < m THEN d[x] ELSE d[x + 1]
    BY <1>10, Zenon
  <1>12. Met(w, r, j, vis, f)
    <2>1. j \in 1..(w.count + 1)
      BY <1>5, <1>7, Zenon
    <2>2. Len(f) = Len(vis) + w.count + 1 - j
      BY <1>5, <1>7, <1>10, Zenon DEF n
    <2>3. \A x \in 1..Len(vis) : f[x] = vis[x]
      BY <1>2, <1>7, <1>11, Zenon DEF n
    <2>4. ASSUME NEW x \in j..w.count
          PROVE  /\ f[Len(vis) + x - j + 1] = w.table[r[x]].k
                 /\ w.table[r[x]].k \notin Range(vis)
      <3>1. /\ x \in 1..(c - 1) /\ x \in j..c /\ x + 1 \in j..c
            /\ n + x - j + 1 \in 1..(len - 1)
            /\ n + x - j + 1 < m <=> x < i
            /\ (n + x - j + 1) + 1 = n + (x + 1) - j + 1
        BY <1>5, <1>7, Zenon
      <3>2. f[n + x - j + 1] = IF x < i THEN d[n + x - j + 1] ELSE d[n + (x + 1) - j + 1]
        <4> DEFINE p == n + x - j + 1
        <4>1. p \in 1..(len - 1) /\ (p < m <=> x < i) /\ p + 1 = n + (x + 1) - j + 1
          BY <3>1, Zenon
        <4> HIDE DEF p
        <4>2. f[p] = IF x < i THEN d[p] ELSE d[n + (x + 1) - j + 1]
          BY <1>11, <4>1, Zenon
        <4> QED BY <4>2, Zenon DEF p
      <3>3. /\ d[n + x - j + 1] = u.table[s[x]].k /\ u.table[s[x]].k \notin Range(vis)
            /\ d[n + (x + 1) - j + 1] = u.table[s[x + 1]].k
            /\ u.table[s[x + 1]].k \notin Range(vis)
        BY <1>2, <3>1, Zenon
      <3> QED BY <1>5, <3>1, <3>2, <3>3, Zenon DEF n
    <2>5. ASSUME NEW x \in 1..(j - 1) PROVE w.table[r[x]].k \in Range(vis)
      BY <1>2, <1>5, <1>7, Zenon
    <2> QED BY <2>1, <2>2, <2>3, <2>4, <2>5, Zenon DEF Met
  <1>13. GoesOnAt(w, r, j, it)
    <2>1. /\ it.kind = "foreach" /\ it.entry # NULL =>
                it.next = (IF j = c + 1 THEN NULL ELSE s[j])
          /\ it.kind = "iterator" /\ it.entry # NULL => j > 1 /\ it.entry = s[j - 1]
          /\ it.entry = NULL => j = c + 1
      BY Zenon DEF GoesOnAt, c
    <2>2. it.entry # NULL
      BY <1>7, <2>1, Zenon
    <2>3. ASSUME it.kind = "foreach"
          PROVE  it.next = IF j = w.count + 1 THEN NULL ELSE r[j]
      <3>1. it.next = s[j] /\ j # i
        BY <1>7, <2>1, <2>2, <2>3, Zenon
      <3>2. j < i /\ j \in 1..(c - 1) /\ j # (c - 1) + 1
        BY <1>2, <1>3, <3>1
      <3>3. r[j] = s[j]
        BY <1>5, <3>2, Zenon
      <3> QED BY <1>5, <3>1, <3>2, <3>3, Zenon
    <2>4. ASSUME it.kind = "iterator" PROVE j > 1 /\ it.entry = r[j - 1]
      BY <1>5, <1>7, <2>1, <2>2, <2>4, Zenon
    <2> QED BY <2>2, <2>3, <2>4, Zenon DEF GoesOnAt
  <1> QED BY <1>1, <1>10, <1>12, <1>13, Zenon DEF f

\* A field that is replaced is where it was.
LEMMA ReplaceMet ==
    ASSUME NEW u, NEW s, Linked(u, s), NEW n \in Slots(u), NEW v \in Value,
           NEW j, NEW vis, NEW d, NEW it, Met(u, s, j, vis, d), GoesOnAt(u, s, j, it)
    PROVE  LET w == WithValue(u, n, v) IN
           Linked(w, s) /\ Met(w, s, j, vis, d) /\ GoesOnAt(w, s, j, it)
  <1> DEFINE w == WithValue(u, n, v)
  <1>1. /\ Linked(w, s) /\ w.count = u.count
        /\ \A m \in Slots(u) : w.table[m].k = u.table[m].k
    BY ReplaceLinked
  <1>2. /\ u.count \in Nat /\ \A i \in 1..u.count : s[i] \in Slots(u)
    BY PairsAre
  <1> HIDE DEF w
  <1>3. j \in 1..(u.count + 1)
    BY Zenon DEF Met
  <1>4. \A i \in j..u.count : i \in 1..u.count
    BY <1>2, <1>3
  <1>5. \A i \in 1..(j - 1) : i \in 1..u.count
    BY <1>2, <1>3
  <1>6. Met(w, s, j, vis, d)
    <2>1. \A i \in 1..u.count : w.table[s[i]].k = u.table[s[i]].k
      BY <1>1, <1>2, Zenon
    <2>2. /\ j \in 1..(u.count + 1) /\ Len(d) = Len(vis) + u.count + 1 - j
          /\ \A i \in 1..Len(vis) : d[i] = vis[i]
          /\ \A i \in j..u.count : /\ d[Len(vis) + i - j + 1] = u.table[s[i]].k
                                   /\ u.table[s[i]].k \notin Range(vis)
          /\ \A i \in 1..(j - 1) : u.table[s[i]].k \in Range(vis)
      BY Zenon DEF Met
    <2>3. ASSUME NEW i \in j..u.count
          PROVE  /\ d[Len(vis) + i - j + 1] = w.table[s[i]].k
                 /\ w.table[s[i]].k \notin Range(vis)
      BY <1>4, <2>1, <2>2, Zenon
    <2>4. ASSUME NEW i \in 1..(j - 1) PROVE w.table[s[i]].k \in Range(vis)
      BY <1>5, <2>1, <2>2, Zenon
    <2> QED BY <1>1, <2>2, <2>3, <2>4, Zenon DEF Met
  <1>7. GoesOnAt(w, s, j, it)
    BY <1>1, Zenon DEF GoesOnAt
  <1> QED BY <1>1, <1>6, <1>7, Zenon DEF w

\* What was deleted is a slot at which the list ends.
Ends(u, e) == e \in Slots(u) /\ u.table[e].k = FREED /\ u.table[e].next = NULL

\* The first m names of vis are the first of d.
Agree(vis, d, m) == m \in Nat /\ m <= Len(d) /\ \A i \in 1..m : d[i] = vis[i]

\* The loop goes on from a freed slot, or has come to it and goes on from nothing.
LostAt(u, it, vis, d) ==
    \E m \in Nat :
        /\ Agree(vis, d, m)
        /\ \/ /\ Len(vis) = m
              /\ it.kind = "foreach" => it.next = NULL \/ Ends(u, it.next)
              /\ it.kind = "iterator" => it.entry = NULL \/ Ends(u, it.entry)
           \/ /\ Len(vis) = m + 1 /\ vis[m + 1] = FREED
              /\ it.kind = "foreach" /\ it.next = NULL

\* What a loop has come to and what it is to come to, and where it goes on.
LoopInv ==
    /\ visited \in Seq(Keys \cup {FREED}) /\ due \in Seq(Keys) /\ lost \in BOOLEAN
    /\ iter.kind \in {"none", "foreach", "iterator"}
    /\ iter.kind = "none" => iter = NoLoop /\ visited = <<>> /\ due = <<>> /\ ~lost
    /\ iter.kind # "none" /\ ~lost =>
          /\ visited \in Seq(Keys)
          /\ \E s, j : Linked(t, s) /\ Met(t, s, j, visited, due) /\ GoesOnAt(t, s, j, iter)
    /\ lost => LostAt(t, iter, visited, due)

\* An entry ends the list once it is deleted, whatever is deleted after it.
LEMMA DeletedEnds ==
    ASSUME NEW u, NEW s, Linked(u, s), NEW j \in 1..u.count,
           NEW w, w = DeleteEntry(u, s[j])
    PROVE  Ends(w, s[j]) /\ \A e : Ends(u, e) => Ends(w, e)
  <1>1. Deleted(u, s, j, w)
    BY DeleteFields
  <1>2. /\ w.size = u.size /\ w.table[s[j]].k = FREED /\ w.table[s[j]].next = NULL
        /\ \A m \in Slots(u) : m # s[j] =>
              /\ w.table[m].k = u.table[m].k
              /\ w.table[m].next = IF j # 1 /\ m = s[j - 1]
                                   THEN u.table[s[j]].next ELSE u.table[m].next
    BY <1>1, Zenon DEF Deleted
  <1>3. Slots(w) = Slots(u) /\ s[j] \in Slots(u)
    BY <1>2, PairsAre DEF Slots
  <1>4. j # 1 => j - 1 \in 1..u.count
    BY PairsAre
  <1>5. \A i \in 1..u.count : u.table[s[i]].k # FREED
    BY NotAMark DEF Linked, InUse
  <1>6. ASSUME NEW e, Ends(u, e) PROVE Ends(w, e)
    <2>1. e \in Slots(u) /\ u.table[e].k = FREED /\ u.table[e].next = NULL
      BY <1>6 DEF Ends
    <2>2. e # s[j] /\ ~(j # 1 /\ e = s[j - 1])
      BY <1>4, <1>5, <2>1
    <2>3. w.table[e].k = FREED /\ w.table[e].next = NULL
      BY <1>2, <2>1, <2>2
    <2> QED BY <1>3, <2>1, <2>3 DEF Ends
  <1>7. Ends(w, s[j])
    BY <1>2, <1>3 DEF Ends
  <1> QED BY <1>6, <1>7

\* A name that is taken out of d and is not in vis is behind those they have in common.
LEMMA KeepsFront ==
    ASSUME NEW S, NEW vis \in Seq(S), NEW d \in Seq(Keys), NEW m, Agree(vis, d, m),
           m <= Len(vis), NEW q \in DOMAIN d, d[q] \notin Range(vis)
    PROVE  RemoveAt(d, q) \in Seq(Keys) /\ Agree(vis, RemoveAt(d, q), m)
  <1>1. /\ m \in Nat /\ m <= Len(d) /\ \A i \in 1..m : d[i] = vis[i]
    BY DEF Agree
  <1>2. q \in 1..Len(d) /\ DOMAIN vis = 1..Len(vis) /\ Len(vis) \in Nat /\ Len(d) \in Nat
    OBVIOUS
  <1>3. q \notin 1..m
    <2> SUFFICES ASSUME q \in 1..m PROVE FALSE
      OBVIOUS
    <2>1. q \in DOMAIN vis /\ d[q] = vis[q]
      BY <1>1, <1>2
    <2> QED BY <2>1 DEF Range
  <1> DEFINE f == RemoveAt(d, q)
  <1>4. /\ f \in Seq(Keys) /\ Len(f) = Len(d) - 1
        /\ f = [x \in 1..(Len(d) - 1) |-> IF x < q THEN d[x] ELSE d[x + 1]]
    BY <1>2, RemoveAtIs
  <1> HIDE DEF f
  <1>5. m <= Len(d) - 1 /\ \A x \in 1..m : x \in 1..(Len(d) - 1) /\ x < q
    BY <1>1, <1>2, <1>3
  <1>6. \A x \in 1..m : f[x] = vis[x]
    BY <1>1, <1>4, <1>5
  <1>7. Agree(vis, f, m)
    BY <1>1, <1>4, <1>5, <1>6 DEF Agree
  <1> QED BY <1>4, <1>7 DEF f

\* A loop that is lost stays lost, whatever becomes of the table but its freed slots.
LEMMA LostStays ==
    ASSUME NEW u, NEW w, NEW it, NEW vis, NEW d, NEW f, LostAt(u, it, vis, d),
           \A e : Ends(u, e) => Ends(w, e),
           \A m \in Nat : Agree(vis, d, m) /\ m <= Len(vis) => Agree(vis, f, m)
    PROVE  LostAt(w, it, vis, f)
  <1>1. PICK m \in Nat :
           /\ Agree(vis, d, m)
           /\ \/ /\ Len(vis) = m
                 /\ it.kind = "foreach" => it.next = NULL \/ Ends(u, it.next)
                 /\ it.kind = "iterator" => it.entry = NULL \/ Ends(u, it.entry)
              \/ /\ Len(vis) = m + 1 /\ vis[m + 1] = FREED
                 /\ it.kind = "foreach" /\ it.next = NULL
    BY Zenon DEF LostAt
  <1>2. m <= Len(vis)
    BY <1>1
  <1>3. Agree(vis, f, m)
    BY <1>1, <1>2, Zenon
  <1> QED BY <1>1, <1>3, Zenon DEF LostAt

\* What a deletion leaves of what is due.
LEMMA DueAfter ==
    ASSUME NEW S, NEW vis \in Seq(S), NEW d \in Seq(Keys), NEW f, NEW k,
           IF k \in Range(d) \ Range(vis)
           THEN \E q \in DOMAIN d : d[q] = k /\ f = RemoveAt(d, q)
           ELSE f = d
    PROVE  /\ f \in Seq(Keys)
           /\ \A m \in Nat : Agree(vis, d, m) /\ m <= Len(vis) => Agree(vis, f, m)
  <1>1. CASE k \in Range(d) \ Range(vis)
    <2>1. PICK q \in DOMAIN d : d[q] = k /\ f = RemoveAt(d, q)
      BY <1>1
    <2>2. q \in 1..Len(d) /\ d[q] \notin Range(vis)
      BY <1>1, <2>1
    <2>3. f \in Seq(Keys)
      BY <2>1, <2>2, RemoveAtIs
    <2>4. ASSUME NEW m \in Nat, Agree(vis, d, m), m <= Len(vis) PROVE Agree(vis, f, m)
      BY <2>1, <2>2, <2>4, KeepsFront
    <2> QED BY <2>3, <2>4
  <1>2. CASE k \notin Range(d) \ Range(vis)
    BY <1>2
  <1> QED BY <1>1, <1>2

\* A deletion in a loop.
LEMMA DelLoop ==
    ASSUME ObjectInv, LoopInv, NEW k \in Keys, ObjectDel(k)
    PROVE  LoopInv'
  <1>1. /\ LookupEntry(t, k) # NULL /\ t' = DeleteEntry(t, LookupEntry(t, k))
        /\ UNCHANGED <<iter, visited>>
        /\ lost' = (lost \/ LookupEntry(t, k) = GoesOn)
        /\ IF k \in Range(due) \ Range(visited)
           THEN \E i \in DOMAIN due : due[i] = k /\ due' = RemoveAt(due, i)
           ELSE due' = due
    BY Zenon DEF ObjectDel
  <1>2. /\ visited \in Seq(Keys \cup {FREED}) /\ due \in Seq(Keys) /\ lost \in BOOLEAN
        /\ iter.kind \in {"none", "foreach", "iterator"}
    BY DEF LoopInv
  <1>3. /\ due' \in Seq(Keys)
        /\ \A m \in Nat : Agree(visited, due, m) /\ m <= Len(visited) =>
                               Agree(visited, due', m)
    BY <1>1, <1>2, DueAfter
  <1>4. PICK s : Linked(t, s)
    BY DEF ObjectInv
  <1>5. PICK i \in 1..t.count : t.table[s[i]].k = k /\ LookupEntry(t, k) = s[i]
    BY <1>1, <1>4, LookupIs
  <1>6. t' = DeleteEntry(t, s[i])
    BY <1>1, <1>5
  <1>7. Ends(t', s[i]) /\ \A e : Ends(t, e) => Ends(t', e)
    BY <1>4, <1>6, DeletedEnds
  <1>8. CASE iter.kind = "none"
    <2>1. iter = NoLoop /\ visited = <<>> /\ due = <<>> /\ ~lost
      BY <1>8 DEF LoopInv
    <2>2. due' = due
      BY <1>1, <2>1 DEF Range
    <2>3. GoesOn = NULL
      BY <2>1 DEF GoesOn, NoLoop
    <2>4. lost' = FALSE
      BY <1>1, <2>1, <2>3
    <2> QED BY <1>1, <1>2, <1>8, <2>1, <2>2, <2>4 DEF LoopInv
  <1>9. ASSUME iter.kind # "none", lost PROVE LoopInv'
    <2>1. LostAt(t, iter, visited, due)
      BY <1>9 DEF LoopInv
    <2>2. LostAt(t', iter, visited, due')
      BY <1>3, <1>7, <2>1, LostStays
    <2>3. lost' = TRUE
      BY <1>1, <1>9
    <2> QED BY <1>1, <1>2, <1>3, <1>9, <2>2, <2>3, Zenon DEF LoopInv
  <1>10. ASSUME iter.kind # "none", ~lost PROVE LoopInv'
    <2>0. visited \in Seq(Keys)
      BY <1>10 DEF LoopInv
    <2>1. PICK r, j : Linked(t, r) /\ Met(t, r, j, visited, due) /\ GoesOnAt(t, r, j, iter)
      BY <1>10 DEF LoopInv
    <2>2. r = s
      BY <1>4, <2>1, PairsAre
    <2>3. /\ t.count \in Nat /\ j \in 1..(t.count + 1) /\ j \in Nat
          /\ Len(due) = Len(visited) + t.count + 1 - j
          /\ \A x \in 1..Len(visited) : due[x] = visited[x]
          /\ \A x \in j..t.count : /\ due[Len(visited) + x - j + 1] = t.table[s[x]].k
                                   /\ t.table[s[x]].k \notin Range(visited)
          /\ \A x \in 1..(j - 1) : t.table[s[x]].k \in Range(visited)
      BY <2>1, <2>2, PairsAre DEF Met
    <2>4. CASE s[i] = GoesOn
      <3>1. lost' = TRUE
        BY <1>1, <1>5, <2>4
      <3>2. Agree(visited, due, Len(visited))
        <4> DEFINE n == Len(visited)
                   c == t.count
        <4>1. n \in Nat /\ c \in Nat /\ j \in 1..(c + 1) /\ Len(due) = n + c + 1 - j
          BY <2>0, <2>3
        <4> HIDE DEF n, c
        <4>2. n <= Len(due)
          BY <4>1
        <4> QED BY <2>3, <4>1, <4>2, Zenon DEF Agree, n
      <3>3. Len(visited) \in Nat /\ Len(visited) <= Len(visited)
        BY <2>0
      <3>4. Agree(visited, due', Len(visited))
        BY <1>3, <3>2, <3>3, Zenon
      <3>5. /\ iter.kind = "foreach" => Ends(t', iter.next)
            /\ iter.kind = "iterator" => Ends(t', iter.entry)
        BY <1>7, <2>4 DEF GoesOn
      <3>6. LostAt(t', iter, visited, due')
        BY <3>3, <3>4, <3>5, Zenon DEF LostAt
      <3> QED BY <1>1, <1>2, <1>3, <1>10, <3>1, <3>6, Zenon DEF LoopInv
    <2>5. CASE s[i] # GoesOn
      <3>1. lost' = FALSE
        BY <1>1, <1>2, <1>5, <1>10, <2>5
      <3>2. CASE i < j
        <4>1. i \in 1..(j - 1)
          BY <2>3, <3>2
        <4>2. due' = due
          BY <1>1, <1>5, <2>3, <4>1, Zenon
        <4>3. ASSUME iter.kind = "iterator", iter.entry # NULL
              PROVE  t.table[iter.entry].k # t.table[s[i]].k
          <5>1. iter.entry = s[j - 1] /\ j > 1
            BY <2>1, <2>2, <4>3 DEF GoesOnAt
          <5>2. j - 1 \in 1..t.count
            BY <2>3, <5>1
          <5>3. s[i] # s[j - 1]
            BY <2>5, <4>3, <5>1 DEF GoesOn
          <5> QED BY <1>4, <5>1, <5>2, <5>3 DEF Linked, InUse
        <4>4. \E z, m : LET w == DeleteEntry(t, s[i]) IN
                 Linked(w, z) /\ Met(w, z, m, visited, due) /\ GoesOnAt(w, z, m, iter)
          BY <1>2, <2>0, <2>1, <2>2, <2>3, <3>2, <4>3, DeleteBehind
        <4> QED BY <1>1, <1>2, <1>6, <1>10, <2>0, <3>1, <4>2, <4>4, Zenon DEF LoopInv
      <3>3. CASE ~(i < j)
        <4>1. i \in j..t.count
          BY <2>3, <3>3
        <4>2. k \notin Range(visited)
          BY <1>5, <2>3, <4>1, Zenon
        <4>3. k \in Range(due)
          <5> DEFINE n == Len(visited)
                     len == Len(due)
                     c == t.count
          <5>1. n \in Nat /\ len = n + c + 1 - j /\ c \in Nat /\ j \in 1..(c + 1)
                /\ i \in j..c
            BY <1>2, <2>3, <4>1
          <5>2. DOMAIN due = 1..len
            BY <1>2
          <5>3. due[n + i - j + 1] = k
            BY <1>5, <2>3, <4>1, Zenon
          <5> HIDE DEF n, len, c
          <5>4. n + i - j + 1 \in 1..len
            BY <5>1
          <5> QED BY <5>2, <5>3, <5>4, Zenon DEF Range
        <4>4. PICK q \in DOMAIN due : due[q] = k /\ due' = RemoveAt(due, q)
          BY <1>1, <4>2, <4>3, Zenon
        <4>5. iter.kind = "foreach" => iter.next # s[i]
          BY <2>5 DEF GoesOn
        <4>6. /\ RemoveAt(due, q) \in Seq(Keys)
              /\ \E z : LET w == DeleteEntry(t, s[i]) IN
                    /\ Linked(w, z) /\ Met(w, z, j, visited, RemoveAt(due, q))
                    /\ GoesOnAt(w, z, j, iter)
          BY <1>2, <1>5, <2>0, <2>1, <2>2, <2>3, <4>1, <4>4, <4>5, DeleteDue
        <4> QED BY <1>1, <1>2, <1>6, <1>10, <2>0, <3>1, <4>4, <4>6, Zenon DEF LoopInv
      <3> QED BY <3>2, <3>3
    <2> QED BY <2>4, <2>5
  <1> QED BY <1>8, <1>9, <1>10

LEMMA SeqOfMore == \A q \in Seq(Keys) : q \in Seq(Keys \cup {FREED})
  OBVIOUS

\* A loop begins at the first field, and goes on at the next one.
LEMMA BeginStep ==
    ASSUME ObjectInv, LoopInv, NEW how \in {"foreach", "iterator"}, BeginLoop(how)
    PROVE  LoopInv'
  <1>1. /\ iter = NoLoop /\ t.head # NULL /\ ComeTo(how, t.head) /\ due' = NamesOf(t)
        /\ t' = t /\ lost' = FALSE
    BY DEF BeginLoop
  <1>2. PICK s : Linked(t, s)
    BY DEF ObjectInv
  <1>3. visited = <<>>
    BY <1>1 DEF LoopInv, NoLoop
  <1>4. /\ t.count \in Nat /\ NamesOf(t) = [i \in 1..t.count |-> t.table[s[i]].k]
        /\ NamesOf(t) \in Seq(Keys) /\ Len(NamesOf(t)) = t.count
    BY <1>2, PairsAre
  <1>5. t.count # 0 /\ t.head = s[1]
    BY <1>1, <1>2 DEF Linked, Chain
  <1>6. Met(t, s, 1, <<>>, due')
    <2>1. /\ Len(due') = t.count /\ \A i \in 1..t.count : due'[i] = t.table[s[i]].k
      BY <1>1, <1>4
    <2>2. 1 \in 1..(t.count + 1) /\ Len(<<>>) = 0
      BY <1>4
    <2>3. Range(<<>>) = {}
      BY DEF Range
    <2>4. \A i \in 1..t.count : 0 + i - 1 + 1 = i
      BY <1>4
    <2>5. 0 + t.count + 1 - 1 = t.count /\ 1..0 = {} /\ 1..(1 - 1) = {}
      BY <1>4
    <2>6. \A i \in 1..t.count : due'[0 + i - 1 + 1] = t.table[s[i]].k
      BY <2>1, <2>4, Zenon
    <2> QED BY <2>1, <2>2, <2>3, <2>5, <2>6 DEF Met
  <1>7. t.head = IF 1 = t.count + 1 THEN NULL ELSE s[1]
    BY <1>4, <1>5
  <1>8. due' \in Seq(Keys) /\ <<>> \in Seq(Keys) /\ 1 \in Nat
    BY <1>1, <1>4, EmptySeq
  <1>9. LET e == t.head
            it == [kind |-> how, entry |-> e,
                   next |-> IF how = "foreach" /\ e # NULL THEN t.table[e].next ELSE NULL]
            new == IF e = NULL THEN <<>> ELSE Append(<<>>, t.table[e].k) IN
        /\ new \in Seq(Keys)
        /\ \E m : Met(t, s, m, new, due') /\ GoesOnAt(t, s, m, it)
    BY <1>2, <1>6, <1>7, <1>8, ComeToIs, ZenonT(30)
  <1>10. /\ visited' \in Seq(Keys)
         /\ \E m : Met(t, s, m, visited', due') /\ GoesOnAt(t, s, m, iter')
    BY <1>1, <1>3, <1>9, Zenon DEF ComeTo
  <1>11. iter'.kind = how
    BY <1>1 DEF ComeTo
  <1>12. iter'.kind # "none" /\ iter'.kind \in {"none", "foreach", "iterator"}
    BY <1>11
  <1>13. visited' \in Seq(Keys \cup {FREED})
    BY <1>10, SeqOfMore
  <1>14. lost' \in BOOLEAN /\ ~lost'
    BY <1>1
  <1> QED BY <1>1, <1>2, <1>8, <1>10, <1>12, <1>13, <1>14, Zenon DEF LoopInv

LEMMA AdvanceStep ==
    ASSUME LoopInv, Advance, ~lost
    PROVE  LoopInv'
  <1> DEFINE e == IF iter.kind = "foreach" THEN iter.next ELSE t.table[iter.entry].next
  <1>1. /\ iter.kind # "none" /\ iter.entry # NULL /\ ComeTo(iter.kind, e)
        /\ due' = due /\ t' = t /\ lost' = lost
    <2>1. e = IF iter.kind = "foreach" THEN GoesOn ELSE t.table[GoesOn].next
      BY Zenon DEF GoesOn
    <2> HIDE DEF e
    <2> QED BY <2>1, Zenon DEF Advance
  <1>2. /\ iter.kind \in {"foreach", "iterator"} /\ visited \in Seq(Keys) /\ due \in Seq(Keys)
    BY <1>1 DEF LoopInv
  <1>3. PICK s, j : Linked(t, s) /\ Met(t, s, j, visited, due) /\ GoesOnAt(t, s, j, iter)
    BY <1>1 DEF LoopInv
  <1>4. t.count \in Nat /\ j \in 1..(t.count + 1) /\ j \in Nat
    BY <1>3, PairsAre DEF Met
  <1>5. e = IF j = t.count + 1 THEN NULL ELSE s[j]
    <2>1. CASE iter.kind = "foreach"
      BY <1>1, <1>3, <2>1, Zenon DEF GoesOnAt
    <2>2. CASE iter.kind = "iterator"
      <3>1. j > 1 /\ iter.entry = s[j - 1]
        BY <1>1, <1>3, <2>2, Zenon DEF GoesOnAt
      <3>2. j - 1 \in 1..t.count /\ (j - 1 = t.count <=> j = t.count + 1) /\ (j - 1) + 1 = j
        BY <1>4, <3>1
      <3>3. t.table[s[j - 1]].next = IF j - 1 = t.count THEN NULL ELSE s[(j - 1) + 1]
        BY <1>3, <3>2 DEF Linked, Chain
      <3>4. e = t.table[s[j - 1]].next
        BY <2>2, <3>1
      <3> HIDE DEF e
      <3> QED BY <3>2, <3>3, <3>4, Zenon
    <2> QED BY <1>2, <2>1, <2>2
  <1> HIDE DEF e
  <1>6. LET it == [kind |-> iter.kind, entry |-> e,
                   next |-> IF iter.kind = "foreach" /\ e # NULL THEN t.table[e].next ELSE NULL]
            new == IF e = NULL THEN visited ELSE Append(visited, t.table[e].k) IN
        /\ new \in Seq(Keys)
        /\ \E m : Met(t, s, m, new, due) /\ GoesOnAt(t, s, m, it)
    BY <1>2, <1>3, <1>4, <1>5, ComeToIs, ZenonT(30)
  <1>7. /\ visited' \in Seq(Keys)
        /\ \E m : Met(t, s, m, visited', due) /\ GoesOnAt(t, s, m, iter')
    BY <1>1, <1>6, Zenon DEF ComeTo
  <1>8. iter'.kind = iter.kind
    BY <1>1 DEF ComeTo
  <1>9. iter'.kind # "none" /\ iter'.kind \in {"none", "foreach", "iterator"}
    BY <1>1, <1>2, <1>8
  <1>10. visited' \in Seq(Keys \cup {FREED})
    BY <1>7, SeqOfMore
  <1>11. lost' \in BOOLEAN /\ ~lost'
    BY <1>1 DEF LoopInv
  <1> QED BY <1>1, <1>2, <1>3, <1>7, <1>9, <1>10, <1>11, Zenon DEF LoopInv

\* A loop that is lost comes to the freed slot, or to its end.
LEMMA LostAdvance ==
    ASSUME LoopInv, Advance, lost
    PROVE  LoopInv'
  <1> DEFINE e == IF iter.kind = "foreach" THEN iter.next ELSE t.table[iter.entry].next
  <1>1. /\ iter.kind # "none" /\ iter.entry # NULL /\ ComeTo(iter.kind, e)
        /\ due' = due /\ t' = t /\ lost' = lost
    <2>1. e = IF iter.kind = "foreach" THEN GoesOn ELSE t.table[GoesOn].next
      BY Zenon DEF GoesOn
    <2> HIDE DEF e
    <2> QED BY <2>1, Zenon DEF Advance
  <1>2. /\ iter.kind \in {"foreach", "iterator"} /\ visited \in Seq(Keys \cup {FREED})
        /\ due \in Seq(Keys)
    BY <1>1 DEF LoopInv
  <1>3. PICK m \in Nat :
           /\ Agree(visited, due, m)
           /\ \/ /\ Len(visited) = m
                 /\ iter.kind = "foreach" => iter.next = NULL \/ Ends(t, iter.next)
                 /\ iter.kind = "iterator" => iter.entry = NULL \/ Ends(t, iter.entry)
              \/ /\ Len(visited) = m + 1 /\ visited[m + 1] = FREED
                 /\ iter.kind = "foreach" /\ iter.next = NULL
    BY Zenon DEF LoopInv, LostAt
  <1>4. /\ iter'.kind = iter.kind /\ iter'.entry = e
        /\ iter'.next = IF iter.kind = "foreach" /\ e # NULL THEN t.table[e].next ELSE NULL
        /\ visited' = IF e = NULL THEN visited ELSE Append(visited, t.table[e].k)
    <2> HIDE DEF e
    <2> QED BY <1>1 DEF ComeTo
  <1>5. e = NULL \/ (iter.kind = "foreach" /\ Len(visited) = m /\ Ends(t, e))
    <2>1. CASE iter.kind = "foreach"
      BY <1>3, <2>1, Zenon
    <2>2. CASE iter.kind = "iterator"
      <3>1. Ends(t, iter.entry)
        BY <1>1, <1>3, <2>2
      <3>2. e = t.table[iter.entry].next
        BY <2>2
      <3> QED BY <3>1, <3>2, Zenon DEF Ends
    <2> QED BY <1>2, <2>1, <2>2
  <1> HIDE DEF e
  <1>6. visited' \in Seq(Keys \cup {FREED}) /\ LostAt(t, iter', visited', due)
    <2>1. CASE e = NULL
      <3>1. visited' = visited /\ iter'.entry = NULL /\ iter'.next = NULL
        BY <1>4, <2>1
      <3>2. LostAt(t, iter', visited, due)
        BY <1>3, <1>4, <3>1, Zenon DEF LostAt
      <3> QED BY <1>2, <3>1, <3>2
    <2>2. CASE e # NULL
      <3>1. iter.kind = "foreach" /\ Len(visited) = m /\ Ends(t, e)
        BY <1>5, <2>2
      <3>2. visited' = Append(visited, FREED) /\ iter'.next = NULL
        BY <1>4, <2>2, <3>1 DEF Ends
      <3>3. /\ visited' \in Seq(Keys \cup {FREED}) /\ Len(visited') = m + 1
            /\ visited'[m + 1] = FREED
            /\ \A i \in 1..m : visited'[i] = visited[i]
        BY <1>2, <3>1, <3>2
      <3>4. Agree(visited', due, m)
        BY <1>3, <3>3 DEF Agree
      <3>5. LostAt(t, iter', visited', due)
        BY <1>4, <3>1, <3>2, <3>3, <3>4, Zenon DEF LostAt
      <3> QED BY <3>3, <3>5
    <2> QED BY <2>1, <2>2
  <1>7. LostAt(t', iter', visited', due')
    BY <1>1, <1>6
  <1>8. /\ iter'.kind # "none" /\ iter'.kind \in {"none", "foreach", "iterator"}
        /\ lost' /\ lost' \in BOOLEAN /\ due' \in Seq(Keys)
    BY <1>1, <1>2, <1>4 DEF LoopInv
  <1> QED BY <1>6, <1>7, <1>8, Zenon DEF LoopInv

LEMMA LoopStep == ObjectInv /\ LoopInv /\ [Next]_vars => LoopInv'
  <1> SUFFICES ASSUME ObjectInv, LoopInv, [Next]_vars PROVE LoopInv'
    OBVIOUS
  <1>1. ASSUME UNCHANGED <<t, loop>> PROVE LoopInv'
    <2>1. UNCHANGED <<t, iter, visited, due, lost>>
      BY <1>1 DEF loop
    <2> QED BY <2>1 DEF LoopInv
  <1>2. ASSUME iter = NoLoop, UNCHANGED loop PROVE LoopInv'
    <2>1. UNCHANGED <<iter, visited, due, lost>> /\ iter.kind = "none"
      BY <1>2 DEF loop, NoLoop
    <2>2. ~lost
      BY <2>1 DEF LoopInv
    <2> QED BY <2>1, <2>2 DEF LoopInv
  <1>3. ASSUME NEW v \in Leaf, New(v) \/ Get(v) \/ PutLeaf(v) PROVE LoopInv'
    BY <1>1, <1>3 DEF New, Get, PutLeaf, loop
  <1>4. CASE PutContainer
    BY <1>2, <1>4 DEF PutContainer
  <1>5. CASE NewContainer
    BY <1>1, <1>5 DEF NewContainer
  <1>6. ASSUME NEW idx, NEW v \in Value, ArrayPutIdx(idx, v) PROVE LoopInv'
    BY <1>1, <1>6 DEF ArrayPutIdx
  <1>7. ASSUME NEW v \in Value, ArrayAdd(v) PROVE LoopInv'
    BY <1>6, <1>7 DEF ArrayAdd
  <1>8. ASSUME NEW k \in Keys, ObjectDel(k) PROVE LoopInv'
    BY <1>8, DelLoop
  <1>9. ASSUME NEW k \in Keys, NEW v \in Value, ObjectAdd(k, v) PROVE LoopInv'
    <2>1. UNCHANGED loop
      BY <1>9 DEF ObjectAdd
    <2>2. CASE iter = NoLoop
      BY <1>2, <2>1, <2>2
    <2>3. CASE iter # NoLoop
      <3>1. LookupEntry(t, k) # NULL /\ t' = WithValue(t, LookupEntry(t, k), v)
        BY <1>9, <2>3 DEF ObjectAdd, WithValue
      <3>2. UNCHANGED <<iter, visited, due, lost>>
        BY <2>1 DEF loop
      <3>3. iter.kind # "none"
        BY <2>3 DEF LoopInv
      <3>4. PICK s : Linked(t, s)
        BY DEF ObjectInv
      <3>5. LookupEntry(t, k) \in Slots(t)
        BY <3>1, <3>4, LookupIs, PairsAre
      <3>6. ASSUME ~lost PROVE LoopInv'
        <4>1. PICK r, j : /\ Linked(t, r) /\ Met(t, r, j, visited, due)
                          /\ GoesOnAt(t, r, j, iter)
          BY <3>3, <3>6 DEF LoopInv
        <4>2. /\ Linked(t', r) /\ Met(t', r, j, visited, due)
              /\ GoesOnAt(t', r, j, iter)
          BY <1>9, <3>1, <3>5, <4>1, ReplaceMet
        <4> QED BY <3>2, <3>3, <3>6, <4>2, Zenon DEF LoopInv
      <3>7. ASSUME lost PROVE LoopInv'
        <4>1. /\ t'.size = t.size
              /\ \A m \in Slots(t) : /\ t'.table[m].k = t.table[m].k
                                     /\ t'.table[m].next = t.table[m].next
          BY <1>9, <3>1, <3>4, <3>5, ReplaceLinked
        <4>2. \A e : Ends(t, e) => Ends(t', e)
          BY <4>1 DEF Ends, Slots
        <4>3. LostAt(t, iter, visited, due)
          BY <3>7 DEF LoopInv
        <4>4. LostAt(t', iter, visited, due)
          BY <4>2, <4>3, LostStays
        <4> QED BY <3>2, <3>3, <3>7, <4>4, Zenon DEF LoopInv
      <3> QED BY <3>6, <3>7
    <2> QED BY <2>2, <2>3
  <1>10. ASSUME NEW how \in {"foreach", "iterator"}, BeginLoop(how) PROVE LoopInv'
    BY <1>10, BeginStep
  <1>11. CASE Advance
    <2>1. CASE lost
      BY <1>11, <2>1, LostAdvance
    <2>2. CASE ~lost
      BY <1>11, <2>2, AdvanceStep
    <2> QED BY <2>1, <2>2
  <1>12. CASE EndLoop
    <2>1. iter' = NoLoop /\ visited' = <<>> /\ due' = <<>> /\ lost' = FALSE
      BY <1>12 DEF EndLoop
    <2>2. iter'.kind = "none" /\ <<>> \in Seq(Keys) /\ <<>> \in Seq(Keys \cup {FREED})
      BY <2>1, EmptySeq DEF NoLoop
    <2> QED BY <2>1, <2>2 DEF LoopInv
  <1>13. CASE UNCHANGED vars
    BY <1>1, <1>13 DEF vars, loop
  <1> QED BY <1>3, <1>4, <1>5, <1>6, <1>7, <1>8, <1>9, <1>10, <1>11, <1>12, <1>13 DEF Next

\* What the loop has come to is the beginning of what it is to come to, and at its end all,
\* unless it was lost.
LEMMA LoopIsPrefix == LoopInv => LoopVisitsAll
  <1> SUFFICES ASSUME LoopInv PROVE LoopVisitsAll
    OBVIOUS
  <1> DEFINE n == Len(visited)
  <1>1. /\ visited \in Seq(Keys \cup {FREED}) /\ due \in Seq(Keys) /\ n \in Nat
        /\ DOMAIN visited = 1..n /\ DOMAIN due = 1..Len(due) /\ Len(due) \in Nat
    BY DEF LoopInv
  <1>2. CASE iter.kind = "none"
    BY <1>2 DEF LoopInv, LoopVisitsAll
  <1>3. ASSUME lost PROVE LoopVisitsAll
    <2>1. PICK m \in Nat : /\ Agree(visited, due, m)
                           /\ n = m \/ (n = m + 1 /\ visited[m + 1] = FREED)
      BY <1>3 DEF LoopInv, LostAt
    <2>2. m <= Len(due) /\ \A i \in 1..m : due[i] = visited[i]
      BY <2>1 DEF Agree
    <2> HIDE DEF n
    <2>3. ASSUME NEW i \in 1..n
          PROVE  (i \in 1..Len(due) /\ visited[i] = due[i]) \/ (i = n /\ visited[i] = FREED)
      BY <1>1, <2>1, <2>2
    <2> QED BY <1>1, <1>3, <2>3 DEF LoopVisitsAll, n
  <1>4. ASSUME iter.kind # "none", ~lost PROVE LoopVisitsAll
    <2>1. PICK s, j : Linked(t, s) /\ Met(t, s, j, visited, due) /\ GoesOnAt(t, s, j, iter)
      BY <1>4 DEF LoopInv
    <2> DEFINE c == t.count
    <2>2. /\ c \in Nat /\ j \in 1..(c + 1) /\ Len(due) = n + c + 1 - j
          /\ \A i \in 1..n : due[i] = visited[i]
      BY <2>1, PairsAre DEF Met
    <2>3. iter.entry = NULL => j = c + 1
      BY <2>1 DEF GoesOnAt
    <2> HIDE DEF c, n
    <2>4. n <= Len(due) /\ (iter.entry = NULL => Len(due) = n)
      <3>1. c \in Nat /\ j \in 1..(c + 1) /\ Len(due) = n + c + 1 - j /\ n \in Nat
        BY <1>1, <2>2
      <3>2. n <= Len(due) /\ (j = c + 1 => Len(due) = n)
        BY ONLY <3>1
      <3> QED BY <2>3, <3>2
    <2>5. visited \in Seq(Keys)
      BY <1>4 DEF LoopInv
    <2>6. iter.entry = NULL => visited = due
      BY <1>1, <2>2, <2>4, <2>5, SeqEqual DEF n
    <2>7. \A i \in 1..n : i \in 1..Len(due)
      <3>1. n \in Nat /\ Len(due) \in Nat /\ n <= Len(due)
        BY <1>1, <2>4
      <3> QED BY ONLY <3>1
    <2> QED BY <1>1, <1>4, <2>2, <2>6, <2>7 DEF LoopVisitsAll
  <1> QED BY <1>2, <1>3, <1>4

\* A loop comes to every field that is not deleted before, once and in order, while its body
\* deletes and replaces fields; when the body deletes the entry the loop goes on from, it
\* ends there, with at most the freed slot in place of a field.
THEOREM LoopsVisitAll == Spec => []LoopVisitsAll
  <1>1. Init => LoopInv
    <2> SUFFICES ASSUME Init PROVE LoopInv
      OBVIOUS
    <2>1. /\ iter = NoLoop /\ visited = <<>> /\ due = <<>> /\ lost = FALSE
          /\ <<>> \in Seq(Keys) /\ <<>> \in Seq(Keys \cup {FREED})
      BY EmptySeq DEF Init
    <2>2. iter.kind = "none"
      BY <2>1 DEF NoLoop
    <2> QED BY <2>1, <2>2 DEF LoopInv
  <1>2. ObjectInv /\ LoopInv /\ [Next]_vars => LoopInv'
    BY LoopStep
  <1> QED BY <1>1, <1>2, ObjectInductive, LoopIsPrefix, PTL DEF Spec
=============================================================================
