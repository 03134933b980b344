----------------------------- MODULE HashProofs ------------------------------
(***************************************************************************)
(* Proofs about ConcurHash: the table owns its nodes whatever is called,   *)
(* and what test-hash.c asserts holds for any number of threads and keys,  *)
(* its deletes included, although they search for the wrong node.          *)
(***************************************************************************)
EXTENDS ConcurHash, ProofFacts

(***************************************************************************)
(* Chains: a node put in front, a node taken out.                          *)
(***************************************************************************)
LEMMA PrependFacts ==
  ASSUME NEW S, NEW s \in Seq(S), NEW e \in S, NEW r, r = <<e>> \o s
  PROVE  /\ r \in Seq(S) /\ Len(s) \in Nat /\ Len(r) = Len(s) + 1 /\ r[1] = e
         /\ \A i \in 1..Len(s) : r[i + 1] = s[i]
         /\ \A i \in 1..Len(r) : i = 1 \/ (i - 1 \in 1..Len(s) /\ r[i] = s[i - 1])
  <1>1. Len(s) \in Nat /\ <<e>> \in Seq(S) /\ Len(<<e>>) = 1 /\ <<e>>[1] = e
    OBVIOUS
  <1>2. r \in Seq(S) /\ Len(r) = Len(s) + 1
    BY <1>1
  <1>3. \A i \in 1..Len(r) : r[i] = IF i <= 1 THEN e ELSE s[i - 1]
    BY <1>1, <1>2
  <1>4. QED
    BY <1>1, <1>2, <1>3

LEMMA WithoutFacts ==
  ASSUME NEW S, NEW s \in Seq(S), NEW i \in 1..Len(s), NEW r, r = Unchained(s, i)
  PROVE  /\ r \in Seq(S) /\ Len(s) \in Nat /\ Len(r) = Len(s) - 1
         /\ \A j \in 1..(i - 1) : r[j] = s[j]
         /\ \A j \in i..Len(r) : r[j] = s[j + 1]
  <1> DEFINE a == SubSeq(s, 1, i - 1)
             b == SubSeq(s, i + 1, Len(s))
  <1>1. Len(s) \in Nat
    OBVIOUS
  <1>2. a \in Seq(S) /\ Len(a) = i - 1 /\ \A j \in 1..(i - 1) : a[j] = s[j]
    BY <1>1
  <1>3. b \in Seq(S) /\ Len(b) = Len(s) - i /\ \A j \in 1..(Len(s) - i) : b[j] = s[i + j]
    BY <1>1
  <1>4. r = a \o b
    BY DEF Unchained
  <1> HIDE DEF a, b
  <1>5. r \in Seq(S) /\ Len(r) = Len(s) - 1
    BY <1>1, <1>2, <1>3, <1>4
  <1>6. \A j \in 1..Len(r) : r[j] = IF j <= i - 1 THEN a[j] ELSE b[j - (i - 1)]
    BY <1>1, <1>2, <1>3, <1>4, <1>5
  <1>7. ASSUME NEW j \in i..Len(r) PROVE r[j] = s[j + 1]
    <2>1. j \in 1..Len(r) /\ ~(j <= i - 1) /\ j - (i - 1) \in 1..(Len(s) - i) /\ i + (j - (i - 1)) = j + 1
      BY <1>1, <1>5
    <2>2. QED
      BY <2>1, <1>3, <1>6
  <1>8. ASSUME NEW j \in 1..(i - 1) PROVE r[j] = s[j]
    BY <1>1, <1>2, <1>5, <1>6
  <1>9. QED
    BY <1>1, <1>5, <1>7, <1>8

(* Sets that a function takes to each other one to one are of the same size. *)
LEMMA SameNumber ==
  ASSUME NEW S, NEW T, IsFiniteSet(S), NEW f \in [S -> T],
         \A m, n \in S : f[m] = f[n] => m = n, \A k \in T : \E n \in S : f[n] = k
  PROVE  IsFiniteSet(T) /\ Cardinality(T) = Cardinality(S)
  <1>1. DOMAIN f = S
    OBVIOUS
  <1>2. f \in Injection(S, T)
    BY <1>1 DEF Injection, IsInjective
  <1>3. f \in Surjection(S, T)
    BY DEF Surjection
  <1>4. f \in Bijection(S, T)
    BY <1>2, <1>3 DEF Bijection
  <1>5. ExistsBijection(S, T)
    BY <1>4 DEF ExistsBijection
  <1>6. QED
    BY <1>5, FS_Bijection

(* A set of positive numbers that is not empty has a least one. *)
LEMMA LeastExists ==
  ASSUME NEW T, T \subseteq Nat, T # {}
  PROVE  \E i \in T : \A j \in T : i <= j
  <1> SUFFICES ASSUME \A i \in T : \E j \in T : ~(i <= j) PROVE FALSE
    OBVIOUS
  <1> DEFINE S == {m \in Nat : \A j \in T : m <= j}
  <1>1. 0 \in S
    OBVIOUS
  <1>2. ASSUME NEW m \in Nat, m \in S PROVE m + 1 \in S
    BY <1>2
  <1> HIDE DEF S
  <1>3. Nat \subseteq S
    BY <1>1, <1>2, NatInductionOnSet
  <1>4. PICK x \in T : TRUE
    OBVIOUS
  <1>5. x + 1 \in S /\ x \in Nat
    BY <1>3, <1>4
  <1>6. QED
    BY <1>4, <1>5 DEF S

(* The first node of its chain that has the key k, and the first that has not. *)
OwnAt(k) == First(k, TRUE)
OtherAt(k) == First(k, FALSE)

LEMMA FirstOwn ==
  ASSUME HashAssumption, TypeOK, NEW k \in Keys,
         NEW c, c = Chain(k), NEW i, i = OwnAt(k)
  PROVE  /\ c \in Seq(Nodes) /\ Len(c) \in Nat /\ i \in 0..Len(c)
         /\ i = 0 => \A j \in 1..Len(c) : key[c[j]] # k
         /\ i # 0 => key[c[i]] = k
         /\ i # 0 => \A j \in 1..(i - 1) : key[c[j]] # k
  <1> DEFINE places == {j \in 1..Len(c) : (key[c[j]] = k) = TRUE}
  <1>1. c \in Seq(Nodes) /\ Len(c) \in Nat
    BY DEF HashAssumption, TypeOK, Chain, Indices
  <1>2. i = IF places = {} THEN 0 ELSE CHOOSE j \in places : \A l \in places : j <= l
    BY DEF OwnAt, First, Matches
  <1>3. \A j \in 1..Len(c) : j \in places <=> key[c[j]] = k
    OBVIOUS
  <1>4. CASE places = {}
    <2>1. i = 0
      BY <1>2, <1>4
    <2>2. \A j \in 1..Len(c) : key[c[j]] # k
      BY <1>3, <1>4
    <2>3. QED
      BY ONLY <1>1, <2>1, <2>2
  <1>5. CASE places # {}
    <2>1. places \subseteq Nat
      BY <1>1
    <2>2. \E j \in places : \A l \in places : j <= l
      BY <2>1, <1>5, LeastExists
    <2>3. i \in places /\ \A l \in places : i <= l
      BY <2>2, <1>2, <1>5
    <2>4. i \in 1..Len(c)
      BY <2>3
    <2>5. key[c[i]] = k
      BY <1>3, <2>3, <2>4
    <2>6. ASSUME NEW j \in 1..(i - 1) PROVE key[c[j]] # k
      <3>1. j \in 1..Len(c) /\ ~(i <= j)
        BY ONLY <2>4, <1>1, j \in 1..(i - 1)
      <3>2. j \notin places
        BY <3>1, <2>3
      <3>3. QED
        BY <3>1, <3>2, <1>3
    <2>7. i # 0 /\ i \in 0..Len(c)
      BY ONLY <1>1, <2>4
    <2>8. QED
      BY ONLY <1>1, <2>5, <2>6, <2>7
  <1>6. QED
    BY <1>4, <1>5

LEMMA FirstOther ==
  ASSUME HashAssumption, TypeOK, NEW k \in Keys,
         NEW c, c = Chain(k), NEW i, i = OtherAt(k)
  PROVE  /\ c \in Seq(Nodes) /\ Len(c) \in Nat /\ i \in 0..Len(c)
         /\ i = 0 => \A j \in 1..Len(c) : key[c[j]] = k
         /\ i # 0 => key[c[i]] # k
         /\ i # 0 => \A j \in 1..(i - 1) : key[c[j]] = k
  <1> DEFINE places == {j \in 1..Len(c) : (key[c[j]] = k) = FALSE}
  <1>1. c \in Seq(Nodes) /\ Len(c) \in Nat
    BY DEF HashAssumption, TypeOK, Chain, Indices
  <1>2. i = IF places = {} THEN 0 ELSE CHOOSE j \in places : \A l \in places : j <= l
    BY DEF OtherAt, First, Matches
  <1>3. \A j \in 1..Len(c) : j \in places <=> key[c[j]] # k
    OBVIOUS
  <1>4. CASE places = {}
    <2>1. i = 0
      BY <1>2, <1>4
    <2>2. \A j \in 1..Len(c) : key[c[j]] = k
      BY <1>3, <1>4
    <2>3. QED
      BY ONLY <1>1, <2>1, <2>2
  <1>5. CASE places # {}
    <2>1. places \subseteq Nat
      BY <1>1
    <2>2. \E j \in places : \A l \in places : j <= l
      BY <2>1, <1>5, LeastExists
    <2>3. i \in places /\ \A l \in places : i <= l
      BY <2>2, <1>2, <1>5
    <2>4. i \in 1..Len(c)
      BY <2>3
    <2>5. key[c[i]] # k
      BY <1>3, <2>3, <2>4
    <2>6. ASSUME NEW j \in 1..(i - 1) PROVE key[c[j]] = k
      <3>1. j \in 1..Len(c) /\ ~(i <= j)
        BY ONLY <2>4, <1>1, j \in 1..(i - 1)
      <3>2. j \notin places
        BY <3>1, <2>3
      <3>3. QED
        BY <3>1, <3>2, <1>3
    <2>7. i # 0 /\ i \in 0..Len(c)
      BY ONLY <1>1, <2>4
    <2>8. QED
      BY ONLY <1>1, <2>5, <2>6, <2>7
  <1>6. QED
    BY <1>4, <1>5

-----------------------------------------------------------------------------
(***************************************************************************)
(* The table owns the allocated nodes, after every call of any thread.     *)
(* What the run checks needs one fact more to be inductive: only finitely  *)
(* many nodes are allocated, so that size can count them.                  *)
(***************************************************************************)
TableInv == TypeOK /\ TableOwnsHeap /\ IsFiniteSet(heap)

LEMMA OnChain ==
  \A n : n \in Chained <=> \E b \in Indices : \E i \in 1..Len(buckets[b]) : n = buckets[b][i]
  BY DEF Chained

(* What an insert does to the chains: the new node n opens the chain of k. *)
PutIn(n, k, v) ==
  /\ heap' = heap \cup {n}
  /\ key' = [key EXCEPT ![n] = k] /\ value' = [value EXCEPT ![n] = v]
  /\ key'[n] = k /\ value'[n] = v
  /\ \A m \in heap : m \in Nodes /\ key'[m] = key[m] /\ value'[m] = value[m]
  /\ buckets' \in [Indices -> Seq(Nodes)]
  /\ Bucket[k] \in Indices
  /\ \A b \in Indices \ {Bucket[k]} : buckets'[b] = buckets[b]
  /\ Len(buckets[Bucket[k]]) \in Nat
  /\ Len(buckets'[Bucket[k]]) = Len(buckets[Bucket[k]]) + 1
  /\ buckets'[Bucket[k]][1] = n
  /\ \A i \in 1..Len(buckets[Bucket[k]]) :
       buckets'[Bucket[k]][i + 1] = buckets[Bucket[k]][i]
  /\ \A i \in 1..Len(buckets'[Bucket[k]]) :
       i = 1 \/ (i - 1 \in 1..Len(buckets[Bucket[k]])
                 /\ buckets'[Bucket[k]][i] = buckets[Bucket[k]][i - 1])

LEMMA InsertFacts ==
  ASSUME HashAssumption, TableInv, NEW t \in Threads, NEW k \in Keys, NEW v \in Values,
         Insert(t, k, v)
  PROVE  \E n \in Nodes \ heap : PutIn(n, k, v)
  <1>1. PICK n \in Nodes \ heap :
          /\ heap' = heap \cup {n}
          /\ key' = [key EXCEPT ![n] = k] /\ value' = [value EXCEPT ![n] = v]
          /\ buckets' = [buckets EXCEPT ![Bucket[k]] = <<n>> \o @]
    BY DEF Insert
  <1>2. /\ buckets \in [Indices -> Seq(Nodes)] /\ key \in [Nodes -> Keys \cup {NULL}]
        /\ value \in [Nodes -> Values \cup {NULL}] /\ heap \subseteq Nodes
    BY DEF TableInv, TypeOK
  <1>3. Bucket[k] \in Indices
    BY DEF HashAssumption, Indices
  <1> DEFINE s == buckets[Bucket[k]]
             r == <<n>> \o s
  <1>4. s \in Seq(Nodes)
    BY <1>2, <1>3
  <1> HIDE DEF r
  <1>5. /\ r \in Seq(Nodes) /\ Len(s) \in Nat /\ Len(r) = Len(s) + 1 /\ r[1] = n
        /\ \A i \in 1..Len(s) : r[i + 1] = s[i]
        /\ \A i \in 1..Len(r) : i = 1 \/ (i - 1 \in 1..Len(s) /\ r[i] = s[i - 1])
    BY <1>4, PrependFacts DEF r
  <1>6. buckets' = [buckets EXCEPT ![Bucket[k]] = r]
    BY <1>1 DEF r
  <1>7. /\ buckets' \in [Indices -> Seq(Nodes)] /\ buckets'[Bucket[k]] = r
        /\ \A b \in Indices \ {Bucket[k]} : buckets'[b] = buckets[b]
    BY ONLY <1>2, <1>3, <1>5, <1>6
  <1>8. /\ key'[n] = k /\ value'[n] = v
        /\ \A m \in heap : m \in Nodes /\ key'[m] = key[m] /\ value'[m] = value[m]
    BY ONLY <1>1, <1>2
  <1>9. QED
    BY <1>1, <1>3, <1>5, <1>7, <1>8, ZenonT(30) DEF PutIn

LEMMA InsertKeepsTable ==
  ASSUME HashAssumption, TableInv, NEW t \in Threads, NEW k \in Keys, NEW v \in Values,
         Insert(t, k, v)
  PROVE  TableInv'
  <1>0. PICK n \in Nodes \ heap : PutIn(n, k, v)
    BY InsertFacts
  <1>1. (n \in Nodes \ heap) /\ PutIn(n, k, v)
    BY <1>0
  <1> USE DEF PutIn
  <1> DEFINE B == Bucket[k]
  <1>2. TypeOK'
    BY <1>1 DEF TableInv, TypeOK, Insert
  <1>3. /\ IsFiniteSet(heap') /\ Cardinality(heap') = Cardinality(heap) + 1
    <2>1. IsFiniteSet(heap \cup {n}) /\ Cardinality(heap \cup {n}) = Cardinality(heap) + 1
      BY CardFacts DEF TableInv
    <2>2. QED
      BY ONLY <2>1, <1>1
  <1>4. size' = Cardinality(heap')
    BY <1>3 DEF TableInv, TableOwnsHeap, Insert
  <1>5. ASSUME NEW b \in Indices, NEW i \in 1..Len(buckets[b])
        PROVE  /\ buckets[b][i] \in heap /\ Bucket[key[buckets[b][i]]] = b
               /\ \A j \in 1..Len(buckets[b]) : i # j => buckets[b][i] # buckets[b][j]
    BY OnChain DEF TableInv, TableOwnsHeap
  <1>6. ASSUME NEW b \in Indices, NEW i \in 1..Len(buckets'[b])
        PROVE  \/ b = B /\ i = 1 /\ buckets'[b][i] = n
               \/ b = B /\ i - 1 \in 1..Len(buckets[b]) /\ buckets'[b][i] = buckets[b][i - 1]
               \/ b # B /\ i \in 1..Len(buckets[b]) /\ buckets'[b][i] = buckets[b][i]
    BY <1>1
  <1>7. ASSUME NEW b \in Indices, NEW i \in 1..Len(buckets'[b])
        PROVE  /\ buckets'[b][i] \in heap' /\ Bucket[key'[buckets'[b][i]]] = b
               /\ \A j \in 1..Len(buckets'[b]) : i # j => buckets'[b][i] # buckets'[b][j]
    <2>1. buckets'[b][i] \in heap' /\ Bucket[key'[buckets'[b][i]]] = b
      <3>1. CASE b = B /\ buckets'[b][i] = n
        BY <3>1, <1>1
      <3>2. CASE \E j \in 1..Len(buckets[b]) : buckets'[b][i] = buckets[b][j]
        <4>1. PICK j \in 1..Len(buckets[b]) : buckets'[b][i] = buckets[b][j]
          BY <3>2
        <4>2. buckets[b][j] \in heap /\ Bucket[key[buckets[b][j]]] = b
          BY <1>5
        <4>3. QED
          BY ONLY <4>1, <4>2, <1>1
      <3>3. QED
        BY <3>1, <3>2, <1>6
    <2>2. ASSUME NEW j \in 1..Len(buckets'[b]), i # j PROVE buckets'[b][i] # buckets'[b][j]
      <3>1. CASE b # B
        BY <3>1, <2>2, <1>5, <1>6
      <3>2. CASE b = B /\ i = 1
        BY <3>2, <2>2, <1>5, <1>6
      <3>3. CASE b = B /\ j = 1
        BY <3>3, <2>2, <1>5, <1>6, SMTT(30)
      <3>4. CASE b = B /\ i # 1 /\ j # 1
        <4>1. /\ i - 1 \in 1..Len(buckets[b]) /\ buckets'[b][i] = buckets[b][i - 1]
              /\ j - 1 \in 1..Len(buckets[b]) /\ buckets'[b][j] = buckets[b][j - 1]
              /\ i - 1 # j - 1
          BY <3>4, <2>2, <1>6
        <4>2. QED
          BY ONLY <4>1, <1>5, b \in Indices
      <3>5. QED
        BY <3>1, <3>2, <3>3, <3>4
    <2>3. QED
      BY <2>1, <2>2
  <1>8. ASSUME NEW m \in heap' PROVE \E b \in Indices : \E i \in 1..Len(buckets'[b]) : m = buckets'[b][i]
    <2>1. CASE m = n
      <3>1. 1 \in 1..Len(buckets'[B]) /\ B \in Indices /\ m = buckets'[B][1]
        BY <1>1, <2>1
      <3>2. QED
        BY ONLY <3>1
    <2>2. CASE m \in heap
      <3>0. PICK b \in Indices : \E i \in 1..Len(buckets[b]) : m = buckets[b][i]
        BY <2>2, OnChain DEF TableInv, TableOwnsHeap
      <3>1. PICK i \in 1..Len(buckets[b]) : m = buckets[b][i]
        BY <3>0
      <3>2. CASE b # B
        BY <3>1, <3>2, <1>1
      <3>3. CASE b = B
        <4>1. i + 1 \in 1..Len(buckets'[B]) /\ m = buckets'[B][i + 1]
          BY <3>1, <3>3, <1>1
        <4>2. QED
          BY <4>1, <1>1
      <3>4. QED
        BY <3>2, <3>3
    <2>3. QED
      BY <2>1, <2>2, <1>1
  <1>9. Chained' = heap'
    <2>1. \A m : m \in Chained' <=> \E b \in Indices : \E i \in 1..Len(buckets'[b]) : m = buckets'[b][i]
      BY DEF Chained, Indices
    <2>3. \A m : m \in Chained' <=> m \in heap'
      BY <2>1, <1>7, <1>8
    <2>4. QED
      BY <2>3
  <1>10. TableOwnsHeap'
    BY <1>4, <1>7, <1>9 DEF TableOwnsHeap, Indices
  <1>11. QED
    BY <1>2, <1>3, <1>10 DEF TableInv

(* What a delete does to the chains: nothing if all the nodes of its chain    *)
(* have its key, else it takes the first one out that has not.                *)
TakesNone(k) == /\ buckets' = buckets /\ heap' = heap /\ size' = size
                /\ \A j \in 1..Len(buckets[Bucket[k]]) : key[buckets[Bucket[k]][j]] = k
TakesOut(k, i) ==
  LET b == Bucket[k]
      c == buckets[b]
  IN  /\ heap' = heap \ {c[i]} /\ size' = size - 1
      /\ buckets' \in [Indices -> Seq(Nodes)]
      /\ \A a \in Indices \ {b} : buckets'[a] = buckets[a]
      /\ Len(buckets'[b]) = Len(c) - 1
      /\ \A j \in 1..(i - 1) : buckets'[b][j] = c[j] /\ key[c[j]] = k
      /\ \A j \in i..Len(buckets'[b]) : buckets'[b][j] = c[j + 1]
      /\ key[c[i]] # k

LEMMA DeleteFacts ==
  ASSUME HashAssumption, TableInv, NEW t \in Threads, NEW k \in Keys, Delete(t, k)
  PROVE  /\ Bucket[k] \in Indices /\ Len(buckets[Bucket[k]]) \in Nat
         /\ key' = key /\ value' = value
         /\ TakesNone(k) \/ \E i \in 1..Len(buckets[Bucket[k]]) : TakesOut(k, i)
  <1>0. PICK b, c, i : b = Bucket[k] /\ c = Chain(k) /\ i = OtherAt(k)
    OBVIOUS
  <1>1. /\ b \in Indices /\ buckets \in [Indices -> Seq(Nodes)] /\ TypeOK
        /\ b = Bucket[k] /\ c = buckets[b]
    BY <1>0 DEF HashAssumption, Indices, TableInv, TypeOK, Chain
  <1>2. /\ c \in Seq(Nodes) /\ Len(c) \in Nat /\ i \in 0..Len(c)
        /\ i = 0 => \A j \in 1..Len(c) : key[c[j]] = k
        /\ i # 0 => key[c[i]] # k
        /\ i # 0 => \A j \in 1..(i - 1) : key[c[j]] = k
    <2>1. c = Chain(k) /\ i = OtherAt(k) /\ TypeOK /\ k \in Keys /\ HashAssumption
      BY <1>0, <1>1
    <2>2. QED
      BY ONLY <2>1, FirstOther, SMTT(30)
  <1>3. key' = key /\ value' = value
    BY DEF Delete
  <1>4. CASE i = 0
    <2>1. buckets' = buckets /\ heap' = heap /\ size' = size
      BY <1>0, <1>4 DEF Delete, OtherAt
    <2>2. \A j \in 1..Len(c) : key[c[j]] = k
      BY <1>2, <1>4
    <2>3. QED
      BY ONLY <2>1, <2>2, <1>1, <1>2, <1>3 DEF TakesNone
  <1>5. CASE i # 0
    <2>1. /\ heap' = heap \ {c[i]} /\ size' = size - 1
          /\ buckets' = [buckets EXCEPT ![b] = Unchained(@, i)]
      BY <1>0, <1>5 DEF Delete, SizeLess, OtherAt
    <2>2. i \in 1..Len(c) /\ key[c[i]] # k /\ \A j \in 1..(i - 1) : key[c[j]] = k
      BY ONLY <1>2, <1>5
    <2>3. PICK r : r = Unchained(c, i)
      OBVIOUS
    <2>4. /\ r \in Seq(Nodes) /\ Len(r) = Len(c) - 1
          /\ \A j \in 1..(i - 1) : r[j] = c[j]
          /\ \A j \in i..Len(r) : r[j] = c[j + 1]
      BY ONLY <1>2, <2>2, <2>3, WithoutFacts
    <2>5. buckets' = [buckets EXCEPT ![b] = r]
      BY ONLY <2>1, <2>3, <1>1
    <2>6. /\ buckets' \in [Indices -> Seq(Nodes)] /\ buckets'[b] = r
          /\ \A a \in Indices \ {b} : buckets'[a] = buckets[a]
      BY ONLY <1>1, <2>4, <2>5
    <2>7. /\ Len(buckets'[b]) = Len(c) - 1
          /\ \A j \in 1..(i - 1) : buckets'[b][j] = c[j] /\ key[c[j]] = k
          /\ \A j \in i..Len(buckets'[b]) : buckets'[b][j] = c[j + 1]
      BY ONLY <2>2, <2>4, <2>6
    <2>8. QED
      BY ONLY <1>1, <1>2, <1>3, <2>1, <2>2, <2>6, <2>7 DEF TakesOut
  <1>6. QED
    BY <1>4, <1>5

LEMMA DeleteKeepsTable ==
  ASSUME HashAssumption, TableInv, NEW t \in Threads, NEW k \in Keys, Delete(t, k)
  PROVE  TableInv'
  <1> DEFINE B == Bucket[k]
             c == buckets[B]
  <1>1. /\ B \in Indices /\ Len(c) \in Nat /\ key' = key /\ value' = value
        /\ \/ buckets' = buckets /\ heap' = heap /\ size' = size
           \/ \E i \in 1..Len(c) :
                /\ heap' = heap \ {c[i]} /\ size' = size - 1
                /\ buckets' \in [Indices -> Seq(Nodes)]
                /\ \A a \in Indices \ {B} : buckets'[a] = buckets[a]
                /\ Len(buckets'[B]) = Len(c) - 1
                /\ \A j \in 1..(i - 1) : buckets'[B][j] = c[j]
                /\ \A j \in i..Len(buckets'[B]) : buckets'[B][j] = c[j + 1]
    BY DeleteFacts DEF TakesNone, TakesOut
  <1>2. pc' = pc /\ p' = p /\ want' \in [Threads -> Keys \cup {NULL}]
        /\ ret' \in [Threads -> Values \cup {NULL, 0, 1}]
    BY DEF TableInv, TypeOK, Delete
  <1>3. CASE buckets' = buckets /\ heap' = heap /\ size' = size
    BY <1>1, <1>2, <1>3 DEF TableInv, TypeOK, TableOwnsHeap, Chained, Indices
  <1>4. ASSUME NEW i \in 1..Len(c),
               heap' = heap \ {c[i]}, size' = size - 1,
               buckets' \in [Indices -> Seq(Nodes)],
               \A a \in Indices \ {B} : buckets'[a] = buckets[a],
               Len(buckets'[B]) = Len(c) - 1,
               \A j \in 1..(i - 1) : buckets'[B][j] = c[j],
               \A j \in i..Len(buckets'[B]) : buckets'[B][j] = c[j + 1]
        PROVE  TableInv'
    <2>1. ASSUME NEW a \in Indices, NEW j \in 1..Len(buckets[a])
          PROVE  /\ buckets[a][j] \in heap /\ Bucket[key[buckets[a][j]]] = a
                 /\ \A l \in 1..Len(buckets[a]) : j # l => buckets[a][j] # buckets[a][l]
      BY OnChain DEF TableInv, TableOwnsHeap
    <2> DEFINE Old(j) == IF j < i THEN j ELSE j + 1
    <2>2. ASSUME NEW j \in 1..Len(buckets'[B])
          PROVE  Old(j) \in 1..Len(c) /\ Old(j) # i /\ buckets'[B][j] = c[Old(j)]
      BY <1>1, <1>4
    <2>3. ASSUME NEW j \in 1..Len(c), j # i
          PROVE  \E l \in 1..Len(buckets'[B]) : j = Old(l)
      <3>1. CASE j < i
        <4>1. j \in 1..Len(buckets'[B]) /\ j = Old(j)
          BY <3>1, <1>1, <1>4
        <4>2. QED
          BY <4>1
      <3>2. CASE j > i
        <4>1. j - 1 \in 1..Len(buckets'[B]) /\ j = Old(j - 1)
          BY <3>2, <1>1, <1>4
        <4>2. QED
          BY <4>1
      <3>3. QED
        BY <2>3, <3>1, <3>2
    <2>4. c[i] \in heap /\ IsFiniteSet(heap) /\ size = Cardinality(heap)
      BY <2>1, <1>1 DEF TableInv, TableOwnsHeap
    <2>5. /\ IsFiniteSet(heap') /\ size' = Cardinality(heap') /\ size' \in Nat
          /\ heap' \subseteq Nodes
      <3>1. /\ IsFiniteSet(heap \ {c[i]}) /\ Cardinality(heap \ {c[i]}) = size - 1
            /\ Cardinality(heap) >= 1 /\ size \in Nat
        BY <2>4, CardFacts
      <3>2. heap \subseteq Nodes
        BY DEF TableInv, TypeOK
      <3>3. QED
        BY ONLY <3>1, <3>2, <2>4, <1>4
    <2>6. TypeOK'
      BY <1>1, <1>2, <1>4, <2>5 DEF TableInv, TypeOK, Indices
    <2>7. ASSUME NEW a \in Indices, NEW j \in 1..Len(buckets'[a])
          PROVE  /\ buckets'[a][j] \in heap' /\ Bucket[key'[buckets'[a][j]]] = a
                 /\ \A l \in 1..Len(buckets'[a]) : j # l => buckets'[a][j] # buckets'[a][l]
      <3>1. CASE a = B
        <4>1. /\ Old(j) \in 1..Len(c) /\ Old(j) # i /\ buckets'[B][j] = c[Old(j)]
              /\ \A l \in 1..Len(buckets'[B]) :
                   Old(l) \in 1..Len(c) /\ buckets'[B][l] = c[Old(l)] /\ (l # j => Old(l) # Old(j))
          BY <3>1, <2>2
        <4> HIDE DEF Old
        <4>2. /\ c[Old(j)] \in heap /\ Bucket[key[c[Old(j)]]] = B /\ c[Old(j)] # c[i]
              /\ \A l \in 1..Len(c) : Old(j) # l => c[Old(j)] # c[l]
          BY <4>1, <2>1, <1>1, ZenonT(30)
        <4>3. QED
          BY ONLY <3>1, <4>1, <4>2, <1>1, <1>4, ZenonT(30)
      <3>2. CASE a # B
        <4>1. buckets'[a] = buckets[a]
          BY <3>2, <1>4
        <4>2. /\ buckets[a][j] \in heap /\ Bucket[key[buckets[a][j]]] = a
              /\ \A l \in 1..Len(buckets[a]) : j # l => buckets[a][j] # buckets[a][l]
          BY <4>1, <2>1
        <4>3. Bucket[key[c[i]]] = B
          BY <2>1, <1>1
        <4>4. QED
          BY ONLY <3>2, <4>1, <4>2, <4>3, <1>1, <1>4
      <3>3. QED
        BY <3>1, <3>2
    <2>8. ASSUME NEW m \in heap'
          PROVE  \E a \in Indices : \E j \in 1..Len(buckets'[a]) : m = buckets'[a][j]
      <3>0. PICK a \in Indices : \E j \in 1..Len(buckets[a]) : m = buckets[a][j]
        BY <1>4, OnChain DEF TableInv, TableOwnsHeap
      <3>1. PICK j \in 1..Len(buckets[a]) : m = buckets[a][j]
        BY <3>0
      <3>2. CASE a # B
        <4>1. j \in 1..Len(buckets'[a]) /\ m = buckets'[a][j]
          BY <3>1, <3>2, <1>4
        <4>2. QED
          BY <4>1
      <3>3. CASE a = B
        <4>1. j # i
          BY <3>1, <3>3, <1>4
        <4>2. PICK l \in 1..Len(buckets'[B]) : j = Old(l)
          BY <4>1, <3>3, <2>3
        <4>3. m = buckets'[B][l]
          BY <4>2, <3>1, <3>3, <2>2
        <4>4. QED
          BY <4>3, <1>1
      <3>4. QED
        BY <3>2, <3>3
    <2>9. Chained' = heap'
      <3>1. \A m : m \in Chained' <=> \E a \in Indices : \E j \in 1..Len(buckets'[a]) : m = buckets'[a][j]
        BY DEF Chained, Indices
      <3>2. \A m : m \in Chained' <=> m \in heap'
        BY <3>1, <2>7, <2>8
      <3>3. QED
        BY <3>2
    <2>10. QED
      BY <2>5, <2>6, <2>7, <2>9 DEF TableInv, TableOwnsHeap, Indices
  <1>5. QED
    BY <1>1, <1>3, <1>4

LEMMA InitTable == ASSUME HashAssumption, Init PROVE TableInv
  <1>1. TypeOK
    BY DEF Init, TypeOK, Indices
  <1>2. \A b \in Indices : Len(buckets[b]) = 0
    BY DEF Init
  <1>3. \A n : n \notin Chained
    BY <1>2, OnChain
  <1>4. Chained = heap /\ IsFiniteSet(heap) /\ size = Cardinality(heap)
    BY <1>3, FS_EmptySet DEF Init
  <1>5. QED
    BY <1>1, <1>2, <1>4 DEF TableInv, TableOwnsHeap

(* What the lookups, and the steps of main, leave alone. *)
LEMMA QuietKeepsTable ==
  ASSUME TableInv, TypeOK', UNCHANGED <<buckets, size, key, heap>>
  PROVE  TableInv'
  BY DEF TableInv, TableOwnsHeap, Chained, Indices

LEMMA FindKeepsTable ==
  ASSUME HashAssumption, TableInv, NEW t \in Threads, NEW k \in Keys, Find(t, k)
  PROVE  TableInv'
  <1>0. PICK c, i : c = Chain(k) /\ i = OwnAt(k)
    OBVIOUS
  <1>1. TypeOK
    BY DEF TableInv
  <1>2. c \in Seq(Nodes) /\ Len(c) \in Nat /\ i \in 0..Len(c)
    <2>1. c = Chain(k) /\ i = OwnAt(k) /\ TypeOK /\ k \in Keys /\ HashAssumption
      BY <1>0, <1>1
    <2>2. QED
      BY ONLY <2>1, FirstOwn, SMTT(30)
  <1>3. i # 0 => c[i] \in Nodes
    BY <1>2
  <1>4. /\ want' = [want EXCEPT ![t] = k]
        /\ \/ ret' = [ret EXCEPT ![t] = NULL] /\ pc' = pc /\ p' = p
           \/ i # 0 /\ p' = [p EXCEPT ![t] = c[i]] /\ pc' = [pc EXCEPT ![t] = "read"] /\ ret' = ret
        /\ UNCHANGED <<buckets, size, key, value, heap>>
    BY <1>0 DEF Find, OwnAt
  <1>5. TypeOK'
    BY <1>1, <1>3, <1>4 DEF TypeOK, Indices
  <1>6. QED
    BY <1>4, <1>5, QuietKeepsTable

LEMMA ReadKeepsTable ==
  ASSUME TableInv, NEW t \in Threads, Read(t)
  PROVE  TableInv'
  <1>1. TypeOK'
    BY DEF TableInv, TypeOK, Read, Indices
  <1>2. QED
    BY <1>1, QuietKeepsTable DEF Read

LEMMA NextKeepsTable ==
  ASSUME HashAssumption, TableInv, [Next]_vars
  PROVE  TableInv'
  <1>1. CASE Next
    BY <1>1, InsertKeepsTable, DeleteKeepsTable, FindKeepsTable, ReadKeepsTable DEF Next, Call
  <1>2. CASE UNCHANGED vars
    <2>1. TypeOK'
      BY <1>2 DEF TableInv, TypeOK, vars, Indices
    <2>2. QED
      BY <1>2, <2>1, QuietKeepsTable DEF vars
  <1>3. QED
    BY <1>1, <1>2

(* Whoever calls what in whatever order: every variable keeps its type, the   *)
(* nodes on the chains are the allocated ones, each once and in its key's     *)
(* chain, and size counts them.                                               *)
THEOREM OwnsHeap ==
  ASSUME HashAssumption
  PROVE  Spec => [](TypeOK /\ TableOwnsHeap)
  <1>1. Init => TableInv
    BY InitTable
  <1>2. TableInv /\ [Next]_vars => TableInv'
    BY NextKeepsTable
  <1>3. TableInv => TypeOK /\ TableOwnsHeap
    BY DEF TableInv
  <1>4. QED
    BY <1>1, <1>2, <1>3, PTL DEF Spec

-----------------------------------------------------------------------------
(***************************************************************************)
(* The test program.  Its keys are a format string put to a counter: no    *)
(* two calls of a phase have the same key.                                 *)
(***************************************************************************)
KeysApart == \A t, u \in Threads : \A i \in 1..Len(KeysOf[t]), j \in 1..Len(KeysOf[u]) :
               KeysOf[t][i] = KeysOf[u][j] => t = u /\ i = j
KeysAll == \A k \in Keys : \E t \in Threads : \E i \in 1..Len(KeysOf[t]) : KeysOf[t][i] = k
Setting == HashAssumption /\ TestAssumption /\ KeysApart /\ KeysAll

(* The keys the running threads have called with in this phase, and those of  *)
(* the nodes that are in the table.                                           *)
Called == UNION {{KeysOf[t][i] : i \in 1..done[t]} : t \in Threads}
KeysHere == {key[n] : n \in heap}

KeysOnce == \A m, n \in heap : key[m] = key[n] => m = n
ValuesOK == \A n \in heap, t \in Threads : \A i \in 1..Len(KeysOf[t]) :
              key[n] = KeysOf[t][i] => value[n] = ValueOf[t]
PhaseOK == /\ phase \in {"insert", "lookup", "delete", "end"}
           /\ done \in [Threads -> Nat]
           /\ \A t \in Threads : done[t] <= Len(KeysOf[t])
           /\ phase = "insert" => KeysHere = Called
           /\ phase = "lookup" => KeysHere = Keys
           /\ phase = "end" => \A t \in Threads : done[t] = Len(KeysOf[t])

(* A lookup under way has found its key's node, one that is over its value.   *)
ReadsOK == \A t \in Threads :
  /\ pc[t] = "read" => /\ phase = "lookup" /\ done[t] > 0
                       /\ want[t] = KeysOf[t][done[t]]
                       /\ p[t] \in heap /\ key[p[t]] = want[t]
  /\ phase = "lookup" /\ pc[t] = "idle" /\ done[t] > 0 => ret[t] = ValueOf[t]

TestInv == TableInv /\ KeysOnce /\ ValuesOK /\ PhaseOK /\ ReadsOK

(***************************************************************************)
(* The deletes.  A thread has, in each bucket it uses, two keys or more    *)
(* (with TEST_SIZE 10000 and 128 buckets it has at least seven).           *)
(***************************************************************************)
BucketsShared == \A t \in Threads : \A i \in 1..Len(KeysOf[t]) :
  \E j \in 1..Len(KeysOf[t]) \ {i} : Bucket[KeysOf[t][j]] = Bucket[KeysOf[t][i]]

(* The keys of a bucket still to be deleted, and those that their thread      *)
(* deletes before another of the same bucket.                                 *)
Due(b) == {k \in Keys \ Called : Bucket[k] = b}
Followed(k) == \E t \in Threads : \E i, j \in 1..Len(KeysOf[t]) :
                 i < j /\ KeysOf[t][i] = k /\ Bucket[KeysOf[t][j]] = Bucket[k]

(* A chain has a node for each delete that is still to come, and the last of  *)
(* these does not find its own node alone there, which it would not remove:   *)
(* the key at the chain's end was deleted before, or is not the last to be.   *)
DueOK == phase = "delete" =>
  \A b \in Indices : IsFiniteSet(Due(b)) /\ Cardinality(Due(b)) = Len(buckets[b])
EndsOK == \A b \in Indices : \A i \in 1..Len(buckets[b]) :
  i = Len(buckets[b]) => \/ Followed(key[buckets[b][i]])
                         \/ phase = "delete" /\ key[buckets[b][i]] \in Called
EndOK == phase = "end" => heap = {}

DeleteInv == DueOK /\ EndsOK /\ EndOK

-----------------------------------------------------------------------------
LEMMA CalledFacts ==
  \A k : k \in Called <=> \E t \in Threads : \E i \in 1..done[t] : k = KeysOf[t][i]
  BY DEF Called

(* The next key of a thread was not called with before, and then it is. *)
LEMMA TurnFacts ==
  ASSUME Setting, PhaseOK, NEW t \in Threads, done[t] < Len(KeysOf[t]),
         NEW k, k = KeysOf[t][done[t] + 1], done' = [done EXCEPT ![t] = @ + 1]
  PROVE  /\ done[t] \in Nat /\ Len(KeysOf[t]) \in Nat /\ done[t] + 1 \in 1..Len(KeysOf[t])
         /\ k \in Keys /\ k \notin Called /\ ValueOf[t] \in Values
         /\ done' \in [Threads -> Nat] /\ done'[t] = done[t] + 1
         /\ \A u \in Threads \ {t} : done'[u] = done[u]
         /\ \A u \in Threads : done'[u] <= Len(KeysOf[u])
         /\ \A x : x \in Called' <=> x \in Called \/ x = k
  <1>1. /\ KeysOf[t] \in Seq(Keys) /\ ValueOf[t] \in Values
        /\ \A u \in Threads : Len(KeysOf[u]) \in Nat
    BY DEF Setting, TestAssumption
  <1>2. done \in [Threads -> Nat] /\ \A u \in Threads : done[u] <= Len(KeysOf[u])
    BY DEF PhaseOK
  <1>3. /\ done[t] \in Nat /\ Len(KeysOf[t]) \in Nat /\ done[t] + 1 \in 1..Len(KeysOf[t])
    BY <1>1, <1>2
  <1>4. k \in Keys
    BY <1>1, <1>3
  <1>5. /\ done' \in [Threads -> Nat] /\ done'[t] = done[t] + 1
        /\ \A u \in Threads \ {t} : done'[u] = done[u]
    BY <1>2, <1>3
  <1>6. \A u \in Threads : done'[u] <= Len(KeysOf[u])
    BY <1>2, <1>3, <1>5
  <1>7. k \notin Called
    <2> SUFFICES ASSUME k \in Called PROVE FALSE
      OBVIOUS
    <2>1. PICK u \in Threads : \E i \in 1..done[u] : k = KeysOf[u][i]
      BY CalledFacts
    <2>2. PICK i \in 1..done[u] : k = KeysOf[u][i]
      BY <2>1
    <2>3. i \in 1..Len(KeysOf[u]) /\ done[u] \in Nat
      BY <1>1, <1>2
    <2>4. u = t /\ i = done[t] + 1
      <3>1. KeysOf[u][i] = KeysOf[t][done[t] + 1] /\ KeysApart
        BY <2>2 DEF Setting
      <3>2. QED
        BY ONLY <3>1, <2>3, <1>3, t \in Threads DEF KeysApart
    <2>5. QED
      BY <2>3, <2>4
  <1>8. ASSUME NEW x PROVE x \in Called' <=> x \in Called \/ x = k
    <2>1. x \in Called' <=> \E u \in Threads : \E i \in 1..done'[u] : x = KeysOf[u][i]
      BY DEF Called
    <2>2. ASSUME NEW u \in Threads, NEW i \in 1..done'[u], x = KeysOf[u][i]
          PROVE  x \in Called \/ x = k
      <3>1. CASE u = t /\ i = done[t] + 1
        BY <2>2, <3>1
      <3>2. CASE i \in 1..done[u]
        BY <2>2, <3>2, CalledFacts
      <3>3. QED
        BY <1>2, <1>5, <3>1, <3>2
    <2>3. ASSUME x \in Called PROVE x \in Called'
      <3>1. PICK u \in Threads : \E i \in 1..done[u] : x = KeysOf[u][i]
        BY <2>3, CalledFacts
      <3>2. PICK i \in 1..done[u] : x = KeysOf[u][i]
        BY <3>1
      <3>3. i \in 1..done'[u]
        BY <1>2, <1>5
      <3>4. QED
        BY <2>1, <3>2, <3>3
    <2>4. ASSUME x = k PROVE x \in Called'
      <3>1. done[t] + 1 \in 1..done'[t]
        BY <1>3, <1>5
      <3>2. QED
        BY <2>1, <2>4, <3>1
    <2>5. QED
      BY <2>1, <2>2, <2>3, <2>4
  <1>9. QED
    BY <1>1, <1>3, <1>4, <1>5, <1>6, <1>7, <1>8

LEMMA InsertKeepsTest ==
  ASSUME Setting, TestInv, NEW t \in Threads, done[t] < Len(KeysOf[t]), phase = "insert",
         NEW k, k = KeysOf[t][done[t] + 1], Insert(t, k, ValueOf[t]),
         done' = [done EXCEPT ![t] = @ + 1], phase' = phase
  PROVE  TestInv'
  <1>1. /\ done[t] \in Nat /\ Len(KeysOf[t]) \in Nat /\ done[t] + 1 \in 1..Len(KeysOf[t])
        /\ k \in Keys /\ k \notin Called /\ ValueOf[t] \in Values
        /\ done' \in [Threads -> Nat]
        /\ \A u \in Threads : done'[u] <= Len(KeysOf[u])
        /\ \A x : x \in Called' <=> x \in Called \/ x = k
    BY TurnFacts DEF TestInv
  <1>2. TableInv /\ HashAssumption
    BY DEF TestInv, Setting
  <1>3. TableInv'
    BY <1>1, <1>2, InsertKeepsTable
  <1>4. PICK n \in Nodes \ heap :
           /\ heap' = heap \cup {n}
           /\ key'[n] = k /\ value'[n] = ValueOf[t]
           /\ \A m \in heap : key'[m] = key[m] /\ value'[m] = value[m]
    <2>1. PICK n \in Nodes \ heap : PutIn(n, k, ValueOf[t])
      BY <1>1, <1>2, InsertFacts
    <2>2. QED
      BY <2>1 DEF PutIn
  <1>5. KeysHere = Called /\ \A m \in heap : key[m] \in Called
    BY DEF TestInv, PhaseOK, KeysHere
  <1>6. KeysOnce'
    BY <1>1, <1>4, <1>5 DEF TestInv, KeysOnce
  <1>7. ValuesOK'
    <2> SUFFICES ASSUME NEW m \in heap', NEW u \in Threads, NEW i \in 1..Len(KeysOf[u]),
                        key'[m] = KeysOf[u][i]
                 PROVE  value'[m] = ValueOf[u]
      BY DEF ValuesOK
    <2>1. CASE m = n
      <3>1. u = t
        BY <2>1, <1>1, <1>4 DEF Setting, KeysApart
      <3>2. QED
        BY <2>1, <3>1, <1>4
    <2>2. CASE m \in heap
      BY <2>2, <1>4 DEF TestInv, ValuesOK
    <2>3. QED
      BY <2>1, <2>2, <1>4
  <1>8. KeysHere' = Called'
    <2>1. \A x : x \in KeysHere' <=> x \in KeysHere \/ x = k
      <3>1. \A x : x \in KeysHere' <=> \E m \in heap' : x = key'[m]
        BY DEF KeysHere
      <3>2. \A x : x \in KeysHere <=> \E m \in heap : x = key[m]
        BY DEF KeysHere
      <3>3. QED
        BY ONLY <3>1, <3>2, <1>4
    <2>2. \A x : x \in KeysHere' <=> x \in Called'
      BY <2>1, <1>1, <1>5
    <2>3. QED
      BY <2>2 DEF KeysHere, Called
  <1>9. PhaseOK'
    BY <1>1, <1>8 DEF TestInv, PhaseOK
  <1>10. ReadsOK'
    <2>1. pc' = pc
      BY DEF Insert
    <2>2. QED
      BY <2>1 DEF TestInv, ReadsOK
  <1>11. QED
    BY <1>3, <1>6, <1>7, <1>9, <1>10 DEF TestInv

(* While every key is in the table a lookup finds its node. *)
LEMMA FindKeepsTest ==
  ASSUME Setting, TestInv, NEW t \in Threads, done[t] < Len(KeysOf[t]), phase = "lookup",
         NEW k, k = KeysOf[t][done[t] + 1], Find(t, k),
         done' = [done EXCEPT ![t] = @ + 1], phase' = phase
  PROVE  TestInv'
  <1>1. /\ done[t] \in Nat /\ k \in Keys /\ done' \in [Threads -> Nat] /\ done'[t] = done[t] + 1
        /\ \A u \in Threads \ {t} : done'[u] = done[u]
        /\ \A u \in Threads : done'[u] <= Len(KeysOf[u])
    BY TurnFacts DEF TestInv
  <1>2. TableInv /\ TypeOK /\ HashAssumption
    BY DEF TestInv, TableInv, Setting
  <1>3. TableInv'
    BY <1>1, <1>2, FindKeepsTable
  <1>4. PICK c, i : c = Chain(k) /\ i = OwnAt(k)
    OBVIOUS
  <1>5. /\ Len(c) \in Nat /\ i \in 0..Len(c)
        /\ i = 0 => \A j \in 1..Len(c) : key[c[j]] # k
        /\ i # 0 => key[c[i]] = k
    <2>1. c = Chain(k) /\ i = OwnAt(k) /\ TypeOK /\ k \in Keys /\ HashAssumption
      BY <1>1, <1>2, <1>4
    <2>2. QED
      BY ONLY <2>1, FirstOwn, SMTT(30)
  <1>6. \A b \in Indices : \A j \in 1..Len(buckets[b]) :
          buckets[b][j] \in heap /\ Bucket[key[buckets[b][j]]] = b
    BY <1>2, OnChain DEF TableInv, TableOwnsHeap
  <1>7. c = buckets[Bucket[k]] /\ Bucket[k] \in Indices
    BY <1>1, <1>2, <1>4 DEF Chain, HashAssumption, Indices
  <1>8. i # 0
    <2>1. PICK n \in heap : key[n] = k
      BY <1>1 DEF TestInv, PhaseOK, KeysHere
    <2>2. PICK b \in Indices : \E j \in 1..Len(buckets[b]) : n = buckets[b][j]
      BY <1>2, OnChain DEF TableInv, TableOwnsHeap
    <2>3. PICK j \in 1..Len(buckets[b]) : n = buckets[b][j]
      BY <2>2
    <2>4. b = Bucket[k]
      BY <2>1, <2>3, <1>6
    <2>5. j \in 1..Len(c) /\ key[c[j]] = k
      BY <2>1, <2>3, <2>4, <1>7
    <2>6. QED
      BY ONLY <2>5, <1>5
  <1>9. i \in 1..Len(c) /\ key[c[i]] = k /\ c[i] \in heap
    <2>1. i \in 1..Len(c)
      BY ONLY <1>5, <1>8
    <2>2. QED
      BY <2>1, <1>5, <1>6, <1>7
  <1>10. /\ want' = [want EXCEPT ![t] = k] /\ p' = [p EXCEPT ![t] = c[i]]
         /\ pc' = [pc EXCEPT ![t] = "read"]
         /\ UNCHANGED <<ret, key, value, heap>> /\ pc[t] = "idle"
    BY <1>4, <1>8 DEF Find, OwnAt
  <1>11. ReadsOK'
    <2> SUFFICES ASSUME NEW u \in Threads
                 PROVE  /\ pc'[u] = "read" =>
                             /\ phase' = "lookup" /\ done'[u] > 0
                             /\ want'[u] = KeysOf[u][done'[u]]
                             /\ p'[u] \in heap' /\ key'[p'[u]] = want'[u]
                        /\ phase' = "lookup" /\ pc'[u] = "idle" /\ done'[u] > 0 => ret'[u] = ValueOf[u]
      BY DEF ReadsOK
    <2>1. pc \in [Threads -> {"idle", "read"}] /\ DOMAIN want = Threads /\ DOMAIN p = Threads
      BY <1>2 DEF TypeOK
    <2>2. CASE u = t
      <3>1. pc'[t] = "read" /\ want'[t] = k /\ p'[t] = c[i]
        BY <2>1, <1>10
      <3>2. done'[t] > 0 /\ k = KeysOf[t][done'[t]]
        BY <1>1
      <3>3. QED
        BY <2>2, <3>1, <3>2, <1>9, <1>10
    <2>3. CASE u # t
      <3>1. pc'[u] = pc[u] /\ want'[u] = want[u] /\ p'[u] = p[u]
        BY <2>1, <2>3, <1>10
      <3>2. QED
        BY <2>3, <3>1, <1>1, <1>10 DEF TestInv, ReadsOK
    <2>4. QED
      BY <2>2, <2>3
  <1>12. KeysOnce' /\ ValuesOK' /\ PhaseOK'
    BY <1>1, <1>10 DEF TestInv, KeysOnce, ValuesOK, PhaseOK, KeysHere
  <1>13. QED
    BY <1>3, <1>11, <1>12 DEF TestInv

(* The node a lookup reads unlocked is allocated and has the thread's value. *)
LEMMA FinishKeepsTest ==
  ASSUME Setting, TestInv, NEW t \in Threads, Finish(t)
  PROVE  TestInv'
  <1>1. TableInv /\ TypeOK
    BY DEF TestInv, TableInv
  <1>2. TableInv'
    BY <1>1, ReadKeepsTable DEF Finish
  <1>3. /\ phase = "lookup" /\ done[t] > 0 /\ p[t] \in heap /\ key[p[t]] = KeysOf[t][done[t]]
    BY DEF TestInv, ReadsOK, Finish, Read
  <1>4. done[t] \in 1..Len(KeysOf[t])
    <2>1. done[t] \in Nat /\ done[t] <= Len(KeysOf[t]) /\ Len(KeysOf[t]) \in Nat
      BY DEF TestInv, PhaseOK, Setting, TestAssumption
    <2>2. QED
      BY ONLY <2>1, <1>3
  <1>5. value[p[t]] = ValueOf[t]
    BY <1>3, <1>4 DEF TestInv, ValuesOK
  <1>6. /\ ret' = [ret EXCEPT ![t] = ValueOf[t]] /\ pc' = [pc EXCEPT ![t] = "idle"]
        /\ p' = [p EXCEPT ![t] = NULL]
        /\ UNCHANGED <<buckets, size, key, value, heap, want, phase, done>>
    BY <1>3, <1>5 DEF Finish, Read
  <1>7. ReadsOK'
    <2> SUFFICES ASSUME NEW u \in Threads
                 PROVE  /\ pc'[u] = "read" =>
                             /\ phase' = "lookup" /\ done'[u] > 0
                             /\ want'[u] = KeysOf[u][done'[u]]
                             /\ p'[u] \in heap' /\ key'[p'[u]] = want'[u]
                        /\ phase' = "lookup" /\ pc'[u] = "idle" /\ done'[u] > 0 => ret'[u] = ValueOf[u]
      BY DEF ReadsOK
    <2>1. /\ pc \in [Threads -> {"idle", "read"}] /\ DOMAIN ret = Threads /\ DOMAIN p = Threads
      BY <1>1 DEF TypeOK
    <2>2. CASE u = t
      BY <2>1, <2>2, <1>6
    <2>3. CASE u # t
      <3>1. pc'[u] = pc[u] /\ ret'[u] = ret[u] /\ p'[u] = p[u]
        BY <2>1, <2>3, <1>6
      <3>2. QED
        BY <3>1, <1>6 DEF TestInv, ReadsOK
    <2>4. QED
      BY <2>2, <2>3
  <1>8. KeysOnce' /\ ValuesOK' /\ PhaseOK'
    <2>1. KeysOnce' /\ ValuesOK' /\ KeysHere' = KeysHere
      BY <1>6 DEF TestInv, KeysOnce, ValuesOK, KeysHere
    <2>2. PhaseOK'
      BY <2>1, <1>3, <1>6 DEF TestInv, PhaseOK
    <2>3. QED
      BY <2>1, <2>2
  <1>9. QED
    BY <1>2, <1>7, <1>8 DEF TestInv

LEMMA DeleteKeepsTest ==
  ASSUME Setting, TestInv, NEW t \in Threads, done[t] < Len(KeysOf[t]), phase = "delete",
         NEW k, k = KeysOf[t][done[t] + 1], Delete(t, k),
         done' = [done EXCEPT ![t] = @ + 1], phase' = phase
  PROVE  TestInv'
  <1>1. /\ k \in Keys /\ done' \in [Threads -> Nat]
        /\ \A u \in Threads : done'[u] <= Len(KeysOf[u])
    BY TurnFacts DEF TestInv
  <1>2. TableInv /\ HashAssumption
    BY DEF TestInv, Setting
  <1>3. TableInv'
    BY <1>1, <1>2, DeleteKeepsTable
  <1>4. key' = key /\ value' = value /\ pc' = pc /\ heap' \subseteq heap
    BY DEF Delete
  <1>5. KeysOnce' /\ ValuesOK'
    BY <1>4 DEF TestInv, KeysOnce, ValuesOK
  <1>6. PhaseOK' /\ ReadsOK'
    BY <1>1, <1>4 DEF TestInv, PhaseOK, ReadsOK
  <1>7. QED
    BY <1>3, <1>5, <1>6 DEF TestInv

(* When all the threads of a phase are over, every key was called with. *)
LEMMA JoinedFacts ==
  ASSUME Setting, Joined
  PROVE  Called = Keys
  <1>1. \A t \in Threads : KeysOf[t] \in Seq(Keys) /\ done[t] = Len(KeysOf[t])
    BY DEF Setting, TestAssumption, Joined
  <1>2. ASSUME NEW x PROVE x \in Called <=> x \in Keys
    <2>1. ASSUME x \in Called PROVE x \in Keys
      <3>1. PICK t \in Threads : \E i \in 1..done[t] : x = KeysOf[t][i]
        BY <2>1, CalledFacts
      <3>2. PICK i \in 1..Len(KeysOf[t]) : x = KeysOf[t][i]
        BY <3>1, <1>1
      <3>3. QED
        BY <3>2, <1>1
    <2>2. ASSUME x \in Keys PROVE x \in Called
      <3>1. PICK t \in Threads : \E i \in 1..Len(KeysOf[t]) : KeysOf[t][i] = x
        BY <2>2 DEF Setting, KeysAll
      <3>2. QED
        BY <3>1, <1>1, CalledFacts
    <2>3. QED
      BY <2>1, <2>2
  <1>3. QED
    BY <1>2 DEF Called

LEMMA PhaseKeepsTest ==
  ASSUME Setting, TestInv, NextPhase
  PROVE  TestInv'
  <1>1. UNCHANGED vars
    BY DEF NextPhase
  <1>2. TypeOK'
    BY <1>1 DEF TestInv, TableInv, TypeOK, vars, Indices
  <1>3. TableInv'
    BY <1>1, <1>2, QuietKeepsTable DEF TestInv, vars
  <1>4. KeysOnce' /\ ValuesOK' /\ KeysHere' = KeysHere
    BY <1>1 DEF TestInv, KeysOnce, ValuesOK, KeysHere, vars
  <1>5. /\ phase \in {"insert", "lookup", "delete"} /\ phase' = After[phase]
        /\ \A t \in Threads : done[t] = Len(KeysOf[t]) /\ pc[t] = "idle" /\ pc'[t] = "idle"
        /\ done' = [t \in Threads |-> IF phase = "delete" THEN Len(KeysOf[t]) ELSE 0]
    BY <1>1 DEF TestInv, PhaseOK, NextPhase, Joined, vars
  <1>6. /\ phase' = IF phase = "insert" THEN "lookup" ELSE IF phase = "lookup" THEN "delete" ELSE "end"
    BY <1>5 DEF After
  <1>7. \A t \in Threads : Len(KeysOf[t]) \in Nat
    BY DEF Setting, TestAssumption
  <1>8. phase = "insert" => KeysHere = Keys
    BY JoinedFacts DEF TestInv, PhaseOK, NextPhase
  <1>9. PhaseOK'
    BY <1>4, <1>5, <1>6, <1>7, <1>8 DEF PhaseOK
  <1>10. ReadsOK'
    BY <1>5, <1>6 DEF ReadsOK
  <1>11. QED
    BY <1>3, <1>4, <1>9, <1>10 DEF TestInv

LEMMA TestInitOK == ASSUME Setting, TestInit PROVE TestInv
  <1>1. TableInv
    BY InitTable DEF Setting, TestInit
  <1>2. heap = {} /\ phase = "insert" /\ done = [t \in Threads |-> 0] /\ \A t \in Threads : pc[t] = "idle"
    BY DEF TestInit, Init
  <1>3. \A x : x \notin Called
    BY <1>2, CalledFacts
  <1>4. KeysHere = Called
    BY <1>2, <1>3 DEF KeysHere
  <1>5. \A t \in Threads : Len(KeysOf[t]) \in Nat
    BY DEF Setting, TestAssumption
  <1>6. KeysOnce /\ ValuesOK /\ PhaseOK /\ ReadsOK
    BY <1>2, <1>4, <1>5 DEF KeysOnce, ValuesOK, PhaseOK, ReadsOK
  <1>7. QED
    BY <1>1, <1>6 DEF TestInv

LEMMA TestNextOK ==
  ASSUME Setting, TestInv, [TestNext]_testVars
  PROVE  TestInv'
  <1>1. ASSUME NEW t \in Threads, Work(t) PROVE TestInv'
    <2>1. PICK k : k = KeysOf[t][done[t] + 1]
      OBVIOUS
    <2>2. /\ done[t] < Len(KeysOf[t]) /\ done' = [done EXCEPT ![t] = @ + 1] /\ phase' = phase
          /\ \/ phase = "insert" /\ Insert(t, k, ValueOf[t])
             \/ phase = "lookup" /\ Find(t, k)
             \/ phase = "delete" /\ Delete(t, k)
      BY <1>1, <2>1 DEF Work
    <2>3. QED
      BY <2>1, <2>2, InsertKeepsTest, FindKeepsTest, DeleteKeepsTest
  <1>2. CASE UNCHANGED testVars
    <2>1. UNCHANGED vars /\ phase' = phase /\ done' = done
      BY <1>2 DEF testVars
    <2>2. TableInv'
      <3>1. TypeOK'
        BY <2>1 DEF TestInv, TableInv, TypeOK, vars, Indices
      <3>2. QED
        BY <2>1, <3>1, QuietKeepsTable DEF TestInv, vars
    <2>3. KeysOnce' /\ ValuesOK' /\ ReadsOK'
      BY <2>1 DEF TestInv, KeysOnce, ValuesOK, ReadsOK, vars
    <2>4. KeysHere' = KeysHere /\ Called' = Called
      BY <2>1 DEF KeysHere, Called, vars
    <2>5. PhaseOK'
      BY <2>1, <2>4 DEF TestInv, PhaseOK
    <2>6. QED
      BY <2>2, <2>3, <2>5 DEF TestInv
  <1>3. QED
    BY <1>1, <1>2, FinishKeepsTest, PhaseKeepsTest DEF TestNext

(* While the test runs the table owns its nodes, as it does for any callers. *)
THEOREM TestOwnsHeap ==
  ASSUME Setting
  PROVE  TestInit /\ [][TestNext]_testVars => [](TypeOK /\ TableOwnsHeap)
  <1>1. TestInv => TypeOK /\ TableOwnsHeap
    BY DEF TestInv, TableInv
  <1>2. QED
    BY <1>1, TestInitOK, TestNextOK, PTL

(* What a lookup of the test answers is the value its thread inserted with    *)
(* the key, read from memory that nobody has freed, though it is unlocked.    *)
THEOREM LookupsAnswer ==
  ASSUME Setting
  PROVE  TestInit /\ [][TestNext]_testVars => []LookupAnswers
  <1>1. TestInv => LookupAnswers
    BY DEF TestInv, ReadsOK, LookupAnswers
  <1>2. QED
    BY <1>1, TestInitOK, TestNextOK, PTL

(* After the inserts, and all through the lookups, size is the number of keys. *)
THEOREM SizesAgree ==
  ASSUME Setting
  PROVE  TestInit /\ [][TestNext]_testVars => []SizeAfterInserts
  <1>1. ASSUME TestInv PROVE SizeAfterInserts
    <2> SUFFICES ASSUME phase = "lookup" PROVE size = Cardinality(Keys)
      BY DEF SizeAfterInserts
    <2>1. /\ KeysHere = Keys /\ IsFiniteSet(heap) /\ size = Cardinality(heap)
          /\ \A m, n \in heap : key[m] = key[n] => m = n
      BY <1>1 DEF TestInv, PhaseOK, KeysOnce, TableInv, TableOwnsHeap
    <2> DEFINE f == [n \in heap |-> key[n]]
    <2>2. \A n \in heap : key[n] \in Keys
      BY <2>1 DEF KeysHere
    <2>3. \A k \in Keys : \E n \in heap : f[n] = k
      BY <2>1 DEF KeysHere
    <2>4. f \in [heap -> Keys] /\ \A m, n \in heap : f[m] = f[n] => m = n
      BY <2>1, <2>2
    <2> HIDE DEF f
    <2>5. Cardinality(Keys) = Cardinality(heap)
      BY <2>1, <2>3, <2>4, SameNumber
    <2>6. QED
      BY ONLY <2>1, <2>5
  <1>2. QED
    BY <1>1, TestInitOK, TestNextOK, PTL

-----------------------------------------------------------------------------
(***************************************************************************)
(* The deletes empty the table.                                            *)
(***************************************************************************)
LEMMA PlacesFacts ==
  ASSUME TableInv, NEW b \in Indices
  PROVE  /\ Len(buckets[b]) \in Nat
         /\ \A i \in 1..Len(buckets[b]) :
              /\ buckets[b][i] \in heap /\ Bucket[key[buckets[b][i]]] = b
              /\ \A j \in 1..Len(buckets[b]) : i # j => buckets[b][i] # buckets[b][j]
  BY OnChain DEF TableInv, TableOwnsHeap, TypeOK

(* A node is on the chain of its key. *)
LEMMA OnItsChain ==
  ASSUME TableInv, NEW n \in heap
  PROVE  /\ Bucket[key[n]] \in Indices
         /\ \E i \in 1..Len(buckets[Bucket[key[n]]]) : n = buckets[Bucket[key[n]]][i]
  <1>1. PICK b \in Indices : \E i \in 1..Len(buckets[b]) : n = buckets[b][i]
    BY OnChain DEF TableInv, TableOwnsHeap
  <1>2. PICK i \in 1..Len(buckets[b]) : n = buckets[b][i]
    BY <1>1
  <1>3. Bucket[key[n]] = b
    BY <1>2, PlacesFacts
  <1>4. QED
    BY <1>2, <1>3

(* An insert that opens a chain has a key that another of the thread's, still *)
(* to come, will follow: the earlier ones are in the table already.           *)
LEMMA InsertKeepsEnds ==
  ASSUME Setting, BucketsShared, TestInv, EndsOK,
         NEW t \in Threads, done[t] < Len(KeysOf[t]), phase = "insert",
         NEW k, k = KeysOf[t][done[t] + 1], Insert(t, k, ValueOf[t])
  PROVE  EndsOK'
  <1>1. TableInv /\ HashAssumption /\ KeysHere = Called
    BY DEF TestInv, PhaseOK, Setting
  <1>2. /\ done[t] \in Nat /\ Len(KeysOf[t]) \in Nat /\ done[t] + 1 \in 1..Len(KeysOf[t])
        /\ k \in Keys /\ ValueOf[t] \in Values
    <2>1. /\ KeysOf[t] \in Seq(Keys) /\ ValueOf[t] \in Values /\ done[t] \in Nat
      BY DEF Setting, TestAssumption, TestInv, PhaseOK
    <2>2. Len(KeysOf[t]) \in Nat /\ done[t] + 1 \in 1..Len(KeysOf[t])
      BY <2>1
    <2>3. QED
      BY <2>1, <2>2
  <1> DEFINE B == Bucket[k]
  <1>3. PICK n \in Nodes \ heap :
           /\ heap' = heap \cup {n} /\ key'[n] = k
           /\ \A m \in heap : key'[m] = key[m]
           /\ B \in Indices
           /\ \A b \in Indices \ {B} : buckets'[b] = buckets[b]
           /\ Len(buckets[B]) \in Nat
           /\ Len(buckets'[B]) = Len(buckets[B]) + 1
           /\ buckets'[B][1] = n
           /\ \A i \in 1..Len(buckets[B]) : buckets'[B][i + 1] = buckets[B][i]
    <2>1. PICK n \in Nodes \ heap : PutIn(n, k, ValueOf[t])
      BY <1>1, <1>2, InsertFacts
    <2>2. QED
      BY <2>1 DEF PutIn
  <1>4. Len(buckets[B]) = 0 => Followed(k)
    <2> SUFFICES ASSUME Len(buckets[B]) = 0 PROVE Followed(k)
      OBVIOUS
    <2>1. PICK j \in 1..Len(KeysOf[t]) \ {done[t] + 1} : Bucket[KeysOf[t][j]] = B
      BY <1>2 DEF BucketsShared
    <2>2. ASSUME j < done[t] + 1 PROVE FALSE
      <3>1. j \in 1..done[t]
        BY <2>2, <1>2
      <3>2. PICK m \in heap : key[m] = KeysOf[t][j]
        BY <3>1, <1>1, CalledFacts DEF KeysHere
      <3>3. \E i \in 1..Len(buckets[B]) : m = buckets[B][i]
        BY <3>2, <2>1, <1>1, OnItsChain
      <3>4. QED
        BY <3>3
    <2>3. done[t] + 1 < j
      BY <2>2, <1>2
    <2>4. QED
      BY <2>1, <2>3, <1>2 DEF Followed
  <1>5. ASSUME NEW b \in Indices, NEW i \in 1..Len(buckets'[b]), i = Len(buckets'[b])
        PROVE  Followed(key'[buckets'[b][i]])
    <2>1. \A a \in Indices : \A j \in 1..Len(buckets[a]) :
             buckets[a][j] \in heap /\ (j = Len(buckets[a]) => Followed(key[buckets[a][j]]))
      BY <1>1, PlacesFacts DEF EndsOK
    <2>2. CASE b # B
      <3>1. buckets'[b] = buckets[b]
        BY <2>2, <1>3
      <3>2. key'[buckets[b][i]] = key[buckets[b][i]]
        BY <3>1, <2>1, <1>3
      <3>3. QED
        BY <3>1, <3>2, <2>1, <1>5
    <2>3. CASE b = B /\ Len(buckets[B]) = 0
      <3>1. buckets'[b][i] = n
        BY <2>3, <1>3, <1>5
      <3>2. QED
        BY <3>1, <2>3, <1>3, <1>4
    <2>4. CASE b = B /\ Len(buckets[B]) # 0
      <3>1. i = Len(buckets[B]) + 1 /\ Len(buckets[B]) \in 1..Len(buckets[B])
        <4>1. Len(buckets[B]) \in Nat /\ Len(buckets[B]) # 0
          BY <2>4, <1>3
        <4>2. i = Len(buckets[B]) + 1
          BY ONLY <1>3, <1>5, <2>4, Zenon
        <4>3. QED
          BY ONLY <4>1, <4>2, SMTT(20)
      <3>2. buckets'[b][i] = buckets[B][Len(buckets[B])]
        BY <3>1, <2>4, <1>3
      <3>3. key'[buckets'[b][i]] = key[buckets[B][Len(buckets[B])]]
        BY <3>1, <3>2, <2>1, <1>3
      <3>4. QED
        BY <3>1, <3>3, <2>1, <1>3
    <2>5. QED
      BY <2>2, <2>3, <2>4
  <1>6. QED
    BY <1>5 DEF EndsOK, Indices, Followed

(* While deletes are due in its chain a delete finds a node to take out. *)
LEMMA DeleteFinds ==
  ASSUME Setting, TestInv, DeleteInv, NEW t \in Threads, done[t] < Len(KeysOf[t]),
         phase = "delete", NEW k, k = KeysOf[t][done[t] + 1],
         NEW c, c = buckets[Bucket[k]], \A j \in 1..Len(c) : key[c[j]] = k
  PROVE  FALSE
  <1>2. /\ KeysOf[t] \in Seq(Keys) /\ \A u \in Threads : Len(KeysOf[u]) \in Nat
        /\ done[t] \in Nat /\ \A u \in Threads : done[u] \in Nat /\ done[u] <= Len(KeysOf[u])
    BY DEF Setting, TestAssumption, TestInv, PhaseOK
  <1>3. done[t] + 1 \in 1..Len(KeysOf[t]) /\ k \in Keys
    BY <1>2
  <1> DEFINE b == Bucket[k]
  <1>4. b \in Indices
    BY <1>3 DEF Setting, HashAssumption, Indices
  (* A key that comes later in the order of its thread was not called with. *)
  <1>5. ASSUME NEW i \in 1..Len(KeysOf[t]), i > done[t] PROVE KeysOf[t][i] \notin Called
    <2> SUFFICES ASSUME KeysOf[t][i] \in Called PROVE FALSE
      OBVIOUS
    <2>1. PICK u \in Threads : \E j \in 1..done[u] : KeysOf[t][i] = KeysOf[u][j]
      BY CalledFacts
    <2>2. PICK j \in 1..done[u] : KeysOf[t][i] = KeysOf[u][j]
      BY <2>1
    <2>3. j \in 1..Len(KeysOf[u])
      BY <1>2
    <2>4. u = t /\ i = j
      <3>1. KeysApart
        BY DEF Setting
      <3>2. QED
        BY ONLY <3>1, <2>2, <2>3, i \in 1..Len(KeysOf[t]), t \in Threads, u \in Threads DEF KeysApart
    <2>5. QED
      BY <2>4, <1>2, <1>5
  <1>6. k \in Due(b) /\ k \notin Called
    <2>1. k \notin Called
      BY <1>2, <1>3, <1>5
    <2>2. QED
      BY <2>1, <1>3 DEF Due
  <1>7. /\ IsFiniteSet(Due(b)) /\ Cardinality(Due(b)) = Len(c) /\ Len(c) \in Nat
        /\ \A i \in 1..Len(c) :
             /\ c[i] \in heap /\ \A j \in 1..Len(c) : i # j => c[i] # c[j]
             /\ i = Len(c) => Followed(key[c[i]]) \/ key[c[i]] \in Called
    BY <1>4, PlacesFacts DEF TestInv, DeleteInv, DueOK, EndsOK
  <1>8. Cardinality(Due(b)) >= 1 /\ Cardinality(Due(b) \ {k}) = Cardinality(Due(b)) - 1
        /\ IsFiniteSet(Due(b) \ {k})
    BY <1>6, <1>7, CardFacts, ZenonT(30)
  <1>9. Len(c) = 1
    <2>1. Len(c) \in Nat /\ Cardinality(Due(b)) = Len(c) /\ Cardinality(Due(b)) >= 1
      BY <1>7, <1>8
    <2>2. ASSUME Len(c) >= 2 PROVE FALSE
      <3>1. 1 \in 1..Len(c) /\ 2 \in 1..Len(c)
        BY ONLY <2>1, <2>2
      <3>2. c[1] \in heap /\ c[2] \in heap /\ c[1] # c[2]
        <4>1. \A i, j \in 1..Len(c) : c[i] \in heap /\ (i # j => c[i] # c[j])
          BY ONLY <1>7, Zenon
        <4>2. 1 # 2
          OBVIOUS
        <4>3. QED
          BY ONLY <3>1, <4>1, <4>2, Zenon
      <3>3. key[c[1]] = k /\ key[c[2]] = k
        BY <3>1
      <3>4. QED
        BY <3>2, <3>3 DEF TestInv, KeysOnce
    <2>3. QED
      BY ONLY <2>1, <2>2
  <1>10. Followed(k)
    <2>1. 1 \in 1..Len(c) /\ key[c[1]] = k
      BY <1>9
    <2>2. QED
      BY <2>1, <1>6, <1>7, <1>9
  <1>11. PICK u \in Threads : \E i, j \in 1..Len(KeysOf[u]) :
            i < j /\ KeysOf[u][i] = k /\ Bucket[KeysOf[u][j]] = b
    BY <1>10 DEF Followed
  <1>12. PICK i \in 1..Len(KeysOf[u]), j \in 1..Len(KeysOf[u]) :
            i < j /\ KeysOf[u][i] = k /\ Bucket[KeysOf[u][j]] = b
    BY <1>11
  <1>13. u = t /\ i = done[t] + 1
    <2>1. KeysApart /\ KeysOf[u][i] = KeysOf[t][done[t] + 1]
      BY <1>12 DEF Setting
    <2>2. QED
      BY ONLY <2>1, <1>3, i \in 1..Len(KeysOf[u]), t \in Threads, u \in Threads DEF KeysApart
  <1>14. j > done[t] /\ j \in 1..Len(KeysOf[t]) /\ j # done[t] + 1
    BY <1>2, <1>12, <1>13
  <1>15. KeysOf[t][j] \in Due(b)
    <2>1. KeysOf[t][j] \in Keys /\ KeysOf[t][j] \notin Called
      BY <1>2, <1>5, <1>14
    <2>2. QED
      BY <2>1, <1>12, <1>13 DEF Due
  <1>16. KeysOf[t][j] # k
    BY <1>3, <1>14 DEF Setting, KeysApart
  <1>17. Cardinality(Due(b) \ {k}) = 0
    BY ONLY <1>7, <1>8, <1>9
  <1>18. Due(b) \ {k} = {}
    BY <1>8, <1>17, FS_EmptySet
  <1>19. QED
    BY <1>15, <1>16, <1>18

LEMMA DeleteKeepsDelete ==
  ASSUME Setting, TestInv, DeleteInv, NEW t \in Threads, done[t] < Len(KeysOf[t]),
         phase = "delete", NEW k, k = KeysOf[t][done[t] + 1], Delete(t, k),
         done' = [done EXCEPT ![t] = @ + 1], phase' = phase
  PROVE  DeleteInv'
  <1>1. /\ k \in Keys /\ k \notin Called /\ \A x : x \in Called' <=> x \in Called \/ x = k
    BY TurnFacts DEF TestInv
  <1> DEFINE B == Bucket[k]
  <1>2. TableInv /\ HashAssumption
    BY DEF TestInv, Setting
  <1>3. PICK c : c = buckets[B]
    OBVIOUS
  <1>4. PICK i \in 1..Len(c) :
          /\ B \in Indices /\ Len(c) \in Nat /\ key' = key
          /\ \A a \in Indices \ {B} : buckets'[a] = buckets[a]
          /\ Len(buckets'[B]) = Len(c) - 1
          /\ \A j \in 1..(i - 1) : buckets'[B][j] = c[j] /\ key[c[j]] = k
          /\ \A j \in i..Len(buckets'[B]) : buckets'[B][j] = c[j + 1]
    <2>1. ~ \A j \in 1..Len(c) : key[c[j]] = k
      BY <1>3, DeleteFinds
    <2>2. /\ B \in Indices /\ Len(c) \in Nat /\ key' = key
          /\ TakesNone(k) \/ \E i \in 1..Len(c) : TakesOut(k, i)
      BY <1>1, <1>2, <1>3, DeleteFacts
    <2>3. PICK i \in 1..Len(c) : TakesOut(k, i)
      BY <2>1, <2>2, <1>3 DEF TakesNone
    <2>4. /\ \A a \in Indices \ {B} : buckets'[a] = buckets[a]
          /\ Len(buckets'[B]) = Len(c) - 1
          /\ \A j \in 1..(i - 1) : buckets'[B][j] = c[j] /\ key[c[j]] = k
          /\ \A j \in i..Len(buckets'[B]) : buckets'[B][j] = c[j + 1]
      BY ONLY <2>3, <1>3, Zenon DEF TakesOut
    <2>5. QED
      BY ONLY <2>2, <2>4, i \in 1..Len(c), Zenon
  <1>5. ASSUME NEW b \in Indices
        PROVE  IsFiniteSet(Due(b)') /\ Cardinality(Due(b)') = Len(buckets'[b])
    <2>1. IsFiniteSet(Due(b)) /\ Cardinality(Due(b)) = Len(buckets[b])
      BY DEF DeleteInv, DueOK
    <2>2. CASE b # B
      <3>1. \A x : x \in Due(b)' <=> x \in Due(b)
        BY <2>2, <1>1 DEF Due
      <3>2. Due(b)' = Due(b)
        BY <3>1 DEF Due
      <3>3. buckets'[b] = buckets[b]
        BY <2>2, <1>4
      <3>4. QED
        BY ONLY <2>1, <3>2, <3>3
    <2>3. CASE b = B
      <3>1. \A x : x \in Due(B)' <=> x \in Due(B) \ {k}
        BY <1>1 DEF Due
      <3>2. Due(B)' = Due(B) \ {k}
        BY <3>1 DEF Due
      <3>3. k \in Due(B)
        BY <1>1 DEF Due
      <3>4. IsFiniteSet(Due(B) \ {k}) /\ Cardinality(Due(B) \ {k}) = Cardinality(Due(B)) - 1
        BY <2>1, <2>3, <3>3, CardFacts
      <3>5. IsFiniteSet(Due(B)') /\ Cardinality(Due(B)') = Len(buckets[B]) - 1
        BY ONLY <2>1, <2>3, <3>2, <3>4
      <3>6. QED
        BY <2>3, <3>5, <1>3, <1>4
    <2>4. QED
      BY <2>2, <2>3
  <1>6. ASSUME NEW b \in Indices, NEW j \in 1..Len(buckets'[b]), j = Len(buckets'[b])
        PROVE  Followed(key'[buckets'[b][j]]) \/ key'[buckets'[b][j]] \in Called'
    <2>1. \A a \in Indices : \A l \in 1..Len(buckets[a]) :
             l = Len(buckets[a]) => Followed(key[buckets[a][l]]) \/ key[buckets[a][l]] \in Called
      BY DEF DeleteInv, EndsOK
    <2>2. CASE b # B
      <3>1. buckets'[b] = buckets[b]
        BY <2>2, <1>4
      <3>2. QED
        BY <3>1, <2>1, <1>1, <1>4, <1>6
    <2>3. CASE b = B /\ i <= j
      <3>1. buckets'[B][j] = c[j + 1] /\ j + 1 = Len(c) /\ j + 1 \in 1..Len(c)
        BY <2>3, <1>4, <1>6
      <3>2. Followed(key[c[j + 1]]) \/ key[c[j + 1]] \in Called
        BY <3>1, <2>1, <1>3, <1>4
      <3>3. QED
        BY <3>1, <3>2, <2>3, <1>1, <1>4
    <2>4. CASE b = B /\ ~(i <= j)
      <3>1. j \in 1..(i - 1)
        BY <2>4, <1>4, <1>6
      <3>2. buckets'[B][j] = c[j] /\ key[c[j]] = k
        BY <3>1, <1>4
      <3>3. QED
        BY <3>2, <2>4, <1>1, <1>4
    <2>5. QED
      BY <2>2, <2>3, <2>4
  <1>7. DueOK'
    BY <1>5 DEF DueOK, Indices
  <1>8. EndsOK'
    BY <1>6 DEF EndsOK, Indices, Followed
  <1>9. QED
    BY <1>7, <1>8 DEF DeleteInv, EndOK

(* main joins the deletes' threads when nothing is due any more. *)
LEMMA PhaseKeepsDelete ==
  ASSUME Setting, TestInv, DeleteInv, NextPhase
  PROVE  DeleteInv'
  <1>1. /\ buckets' = buckets /\ key' = key /\ heap' = heap /\ TableInv /\ HashAssumption
        /\ phase \in {"insert", "lookup", "delete"} /\ phase' = After[phase]
        /\ phase = "lookup" => done' = [t \in Threads |-> 0]
    BY DEF TestInv, PhaseOK, NextPhase, vars, Setting
  <1>2. /\ phase' = IF phase = "insert" THEN "lookup" ELSE IF phase = "lookup" THEN "delete" ELSE "end"
    BY <1>1 DEF After
  <1>3. CASE phase = "insert"
    <2>1. EndsOK'
      BY <1>1, <1>3 DEF DeleteInv, EndsOK, Indices, Followed
    <2>2. QED
      BY <2>1, <1>2, <1>3 DEF DeleteInv, DueOK, EndOK
  <1>4. CASE phase = "lookup"
    <2>1. \A x : x \notin Called'
      BY <1>1, <1>4 DEF Called
    <2>2. \A x : x \in Keys <=> \E n \in heap : x = key[n]
      BY <1>4 DEF TestInv, PhaseOK, KeysHere
    <2>3. ASSUME NEW b \in Indices
          PROVE  IsFiniteSet(Due(b)') /\ Cardinality(Due(b)') = Len(buckets'[b])
      <3> DEFINE f == [i \in 1..Len(buckets[b]) |-> key[buckets[b][i]]]
      <3>1. /\ Len(buckets[b]) \in Nat /\ IsFiniteSet(1..Len(buckets[b]))
            /\ Cardinality(1..Len(buckets[b])) = Len(buckets[b])
        <4>1. Len(buckets[b]) \in Nat
          BY <1>1, PlacesFacts
        <4>2. QED
          BY <4>1, FS_Interval
      <3>2. \A k : k \in Due(b)' <=> k \in Keys /\ Bucket[k] = b
        BY <2>1 DEF Due
      <3>3. PICK D : D = Due(b)'
        OBVIOUS
      <3>4. \A i \in 1..Len(buckets[b]) :
              /\ f[i] = key[buckets[b][i]] /\ f[i] \in D /\ buckets[b][i] \in heap
              /\ \A j \in 1..Len(buckets[b]) : i # j => buckets[b][i] # buckets[b][j]
        BY <1>1, <2>2, <3>2, <3>3, PlacesFacts
      <3>5. f \in [1..Len(buckets[b]) -> D]
        BY <3>4
      <3>6. \A i, j \in 1..Len(buckets[b]) : f[i] = f[j] => i = j
        BY <3>4 DEF TestInv, KeysOnce
      <3>7. ASSUME NEW k \in D PROVE \E i \in 1..Len(buckets[b]) : f[i] = k
        <4>1. k \in Keys /\ Bucket[k] = b
          BY <3>2, <3>3
        <4>2. PICK n \in heap : k = key[n]
          BY <2>2, <4>1
        <4>3. \E i \in 1..Len(buckets[b]) : n = buckets[b][i]
          BY <4>1, <4>2, <1>1, OnItsChain
        <4>4. QED
          BY <4>2, <4>3
      <3> HIDE DEF f
      <3>8. IsFiniteSet(D) /\ Cardinality(D) = Cardinality(1..Len(buckets[b]))
        BY ONLY <3>1, <3>5, <3>6, <3>7, SameNumber, ZenonT(30)
      <3>9. QED
        BY ONLY <3>1, <3>3, <3>8, <1>1
    <2>4. DueOK'
      BY <2>3 DEF DueOK, Indices
    <2>5. EndsOK'
      BY <1>1, <1>4 DEF DeleteInv, EndsOK, Indices, Followed
    <2>6. QED
      BY <2>4, <2>5, <1>2, <1>4 DEF DeleteInv, EndOK
  <1>5. CASE phase = "delete"
    <2>1. Called = Keys
      BY JoinedFacts DEF NextPhase
    <2>2. ASSUME NEW b \in Indices PROVE Len(buckets[b]) = 0
      <3>1. Due(b) = {}
        BY <2>1 DEF Due
      <3>2. Cardinality(Due(b)) = 0
        BY <3>1, FS_EmptySet
      <3>3. QED
        BY <3>2, <1>5 DEF DeleteInv, DueOK
    <2>3. \A n : n \notin Chained
      BY <2>2, OnChain
    <2>4. heap = {}
      BY <2>3, <1>1 DEF TableInv, TableOwnsHeap
    <2>5. EndsOK'
      BY <2>2, <1>1 DEF EndsOK, Indices
    <2>6. QED
      BY <2>4, <2>5, <1>1, <1>2, <1>5 DEF DeleteInv, DueOK, EndOK
  <1>6. QED
    BY <1>1, <1>3, <1>4, <1>5

LEMMA QuietKeepsDelete ==
  ASSUME DeleteInv, UNCHANGED <<buckets, key, heap, phase>>, phase = "delete" => done' = done
  PROVE  DeleteInv'
  <1>1. phase = "delete" => Called' = Called
    BY DEF Called
  <1>2. phase = "delete" => \A b \in Indices : Due(b)' = Due(b)
    BY <1>1 DEF Due
  <1>3. DueOK'
    BY <1>2 DEF DeleteInv, DueOK, Indices
  <1>4. EndsOK'
    BY <1>1 DEF DeleteInv, EndsOK, Indices, Followed
  <1>5. QED
    BY <1>3, <1>4 DEF DeleteInv, EndOK

LEMMA DeleteInitOK == ASSUME TestInit PROVE DeleteInv
  <1>1. \A b \in Indices : Len(buckets[b]) = 0
    BY DEF TestInit, Init
  <1>2. phase = "insert"
    BY DEF TestInit
  <1>3. QED
    BY <1>1, <1>2 DEF DeleteInv, DueOK, EndsOK, EndOK

LEMMA DeleteNextOK ==
  ASSUME Setting, BucketsShared, TestInv, DeleteInv, [TestNext]_testVars
  PROVE  DeleteInv'
  <1>1. ASSUME NEW t \in Threads, Work(t) PROVE DeleteInv'
    <2>1. PICK k : k = KeysOf[t][done[t] + 1]
      OBVIOUS
    <2>2. done[t] < Len(KeysOf[t]) /\ done' = [done EXCEPT ![t] = @ + 1] /\ phase' = phase
      BY <1>1 DEF Work
    <2>3. CASE phase = "insert" /\ Insert(t, k, ValueOf[t])
      <3>1. EndsOK'
        BY <2>1, <2>2, <2>3, InsertKeepsEnds DEF DeleteInv
      <3>2. QED
        BY <3>1, <2>2, <2>3 DEF DeleteInv, DueOK, EndOK
    <2>4. CASE phase = "lookup" /\ Find(t, k)
      BY <2>2, <2>4, QuietKeepsDelete DEF Find
    <2>5. CASE phase = "delete" /\ Delete(t, k)
      BY <2>1, <2>2, <2>5, DeleteKeepsDelete
    <2>6. QED
      BY <1>1, <2>1, <2>3, <2>4, <2>5 DEF Work
  <1>2. ASSUME NEW t \in Threads, Finish(t) PROVE DeleteInv'
    BY <1>2, QuietKeepsDelete DEF Finish, Read
  <1>3. CASE UNCHANGED testVars
    BY <1>3, QuietKeepsDelete DEF testVars, vars
  <1>4. QED
    BY <1>1, <1>2, <1>3, PhaseKeepsDelete DEF TestNext

(* When main has joined the deletes' threads the table is empty, in whatever  *)
(* order they went, though each delete frees the node of another key: this    *)
(* needs that each thread has several keys in every bucket that it uses.      *)
THEOREM DeletesEmpty ==
  ASSUME Setting, BucketsShared
  PROVE  TestInit /\ [][TestNext]_testVars => []SizeAfterDeletes
  <1>1. TestInv /\ DeleteInv => SizeAfterDeletes
    BY FS_EmptySet DEF TestInv, TableInv, TableOwnsHeap, DeleteInv, EndOK, SizeAfterDeletes
  <1>2. QED
    BY <1>1, TestInitOK, TestNextOK, DeleteInitOK, DeleteNextOK, PTL
==============================================================================
