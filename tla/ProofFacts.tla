---------------------------- MODULE ProofFacts ------------------------------
(***************************************************************************)
(* What several proofs need of finite sets and of sequences: induction     *)
(* over a set, sums over a set, adding an element at the end of a sequence *)
(* and taking one off at either end, and the sequence of the images of a   *)
(* sequence's elements.                                                    *)
(***************************************************************************)
EXTENDS Integers, Sequences, SequenceTheorems, FiniteSetTheorems,
        WellFoundedInduction, TLAPS

(* Induction over a finite set and over the naturals, for membership in a set: *)
(* the provers cannot instantiate the library's induction theorems, which take *)
(* a predicate, but they can instantiate WFMin, which takes a set.             *)
LEMMA SetInduction ==
  ASSUME NEW S, IsFiniteSet(S), NEW F, {} \in F,
         \A T \in SUBSET S : \A x \in S \ T : T \in F => T \cup {x} \in F
  PROVE  S \in F
  <1> SUFFICES ASSUME S \notin F PROVE FALSE
    OBVIOUS
  <1> DEFINE B == {T \in FiniteSubsetsOf(S) : T \notin F}
             R == StrictSubsetOrdering(S)
  <1>1. S \in B
    BY DEF FiniteSubsetsOf
  <1>2. IsWellFoundedOn(R, FiniteSubsetsOf(S))
    BY FS_StrictSubsetOrderingWellFounded
  <1>3. B \subseteq FiniteSubsetsOf(S) /\ B # {}
    BY <1>1
  <1>4. PICK T \in B : \A U \in B : ~(<<U, T>> \in R)
    <2> HIDE DEF B, R
    <2>1. QED
      BY <1>2, <1>3, WFMin
  <1>5. T \subseteq S /\ IsFiniteSet(T) /\ T \notin F
    BY DEF FiniteSubsetsOf
  <1>6. PICK x \in T : TRUE
    BY <1>5
  <1>7. T \ {x} \in FiniteSubsetsOf(S)
    BY <1>5, FS_RemoveElement DEF FiniteSubsetsOf
  <1>8. <<T \ {x}, T>> \in R
    BY <1>5 DEF StrictSubsetOrdering
  <1>9. T \ {x} \in F
    BY <1>4, <1>7, <1>8
  <1>10. (T \ {x}) \cup {x} = T /\ x \in S \ (T \ {x}) /\ T \ {x} \in SUBSET S
    BY <1>5
  <1>11. QED
    BY <1>5, <1>9, <1>10

LEMMA NatInductionOnSet ==
  ASSUME NEW S, 0 \in S, \A n \in Nat : n \in S => n + 1 \in S
  PROVE  Nat \subseteq S
  <1> SUFFICES ASSUME NEW m \in Nat PROVE m \in S
    OBVIOUS
  <1> DEFINE R == OpToRel(<, Nat)
             B == Nat \ S
  <1>1. IsWellFoundedOn(R, Nat)
    BY NatLessThanWellFounded
  <1>2. \A i, j \in Nat : i < j => <<i, j>> \in R
    BY DEF OpToRel
  <1> HIDE DEF R
  <1>3. CASE B # {}
    <2>1. PICK i \in B : \A j \in B : ~(<<j, i>> \in R)
      BY <1>1, <1>3, WFMin
    <2>2. i # 0 /\ i - 1 \in Nat /\ i - 1 < i
      BY <2>1
    <2>3. i - 1 \in S
      BY <1>2, <2>1, <2>2
    <2>4. i - 1 + 1 \in S
      BY <2>2, <2>3
    <2>5. QED
      BY <2>1, <2>2, <2>4
  <1>4. QED
    BY <1>3
-----------------------------------------------------------------------------
(* Putting an element into a finite set and taking one out. *)
LEMMA CardFacts ==
  ASSUME NEW S, IsFiniteSet(S), NEW x
  PROVE  /\ Cardinality(S) \in Nat /\ IsFiniteSet(S \cup {x}) /\ IsFiniteSet(S \ {x})
         /\ x \in S => Cardinality(S) >= 1 /\ Cardinality(S \ {x}) = Cardinality(S) - 1
         /\ x \notin S => Cardinality(S \cup {x}) = Cardinality(S) + 1
  <1>1. Cardinality(S) \in Nat
    BY FS_CardinalityType
  <1>2. x \in S => Cardinality(S) # 0
    BY FS_EmptySet
  <1>3. /\ IsFiniteSet(S \ {x})
        /\ Cardinality(S \ {x}) = IF x \in S THEN Cardinality(S) - 1 ELSE Cardinality(S)
    BY FS_RemoveElement
  <1>4. /\ IsFiniteSet(S \cup {x})
        /\ Cardinality(S \cup {x}) = IF x \in S THEN Cardinality(S) ELSE Cardinality(S) + 1
    BY FS_AddElement
  <1>5. QED
    BY <1>1, <1>2, <1>3, <1>4

(* Two numbers less than n apart have different remainders. *)
LEMMA DivFacts ==
  ASSUME NEW n \in Nat \ {0}, NEW a \in Nat
  PROVE  a = n * (a \div n) + (a % n) /\ a \div n \in Nat /\ a % n \in 0..(n - 1)
  <1>1. a = n * (a \div n) + (a % n)
    OBVIOUS
  <1>2. a \div n \in Nat
    OBVIOUS
  <1>3. a % n \in 0..(n - 1)
    OBVIOUS
  <1>4. QED
    BY <1>1, <1>2, <1>3

LEMMA SmallMultiple ==
  ASSUME NEW n \in Nat \ {0}, NEW k \in Int, n * k < n, n * k > -n
  PROVE  k = 0
  <1>1. CASE k >= 1
    <2>1. n * k >= n * 1
      BY <1>1
    <2>2. QED
      BY <2>1
  <1>2. CASE k <= -1
    <2>1. n * k <= n * (-1)
      BY <1>2
    <2>2. QED
      BY <2>1
  <1>3. QED
    BY <1>1, <1>2

LEMMA ModDistinct ==
  ASSUME NEW n \in Nat \ {0}, NEW a \in Nat, NEW b \in Nat, a < b, b - a < n
  PROVE  a % n # b % n
  <1> SUFFICES ASSUME a % n = b % n PROVE FALSE
    OBVIOUS
  <1> DEFINE k == (b \div n) - (a \div n)
  <1>1. k \in Int /\ n * k = b - a
    BY DivFacts
  <1>2. n * k < n /\ n * k > -n
    BY <1>1
  <1> HIDE DEF k
  <1>3. k = 0
    BY <1>1, <1>2, SmallMultiple
  <1>4. QED
    BY <1>1, <1>3

LEMMA ModShift ==
  ASSUME NEW n \in Nat \ {0}, NEW a \in Nat
  PROVE  (a + n) % n = a % n
  <1> DEFINE k == (a + n) \div n - a \div n - 1
  <1>1. /\ a = n * (a \div n) + (a % n) /\ a \div n \in Nat /\ a % n \in 0..(n - 1)
        /\ a + n = n * ((a + n) \div n) + ((a + n) % n)
        /\ (a + n) \div n \in Nat /\ (a + n) % n \in 0..(n - 1)
    <2>1. a + n \in Nat
      OBVIOUS
    <2>2. /\ a + n = n * ((a + n) \div n) + ((a + n) % n)
          /\ (a + n) \div n \in Nat /\ (a + n) % n \in 0..(n - 1)
      BY ONLY <2>1, n \in Nat \ {0}, DivFacts
    <2>3. QED
      BY <2>2, DivFacts
  <1>2. k \in Int /\ n * k = (a % n) - ((a + n) % n)
    BY <1>1
  <1>3. n * k < n /\ n * k > -n
    BY <1>1, <1>2
  <1> HIDE DEF k
  <1>4. k = 0
    BY <1>2, <1>3, SmallMultiple
  <1>5. QED
    BY <1>1, <1>2, <1>4

-----------------------------------------------------------------------------
(* Sums over the threads of a program: Units(S, n, f) has f[s] members for    *)
(* each s of S, if those numbers are in 0..n.                                 *)
Units(S, n, f) == {d \in S \X (1..n) : d[2] <= f[d[1]]}

LEMMA UnitsFacts ==
  ASSUME NEW S, IsFiniteSet(S), NEW n \in Nat, NEW f
  PROVE  /\ IsFiniteSet(Units(S, n, f)) /\ Cardinality(Units(S, n, f)) \in Nat
         /\ Cardinality(S) \in Nat /\ Cardinality(Units(S, n, f)) <= Cardinality(S) * n
         /\ (\A s \in S : f[s] = 0) => Cardinality(Units(S, n, f)) = 0
         /\ (\A s \in S : f[s] = n) => Cardinality(Units(S, n, f)) = Cardinality(S) * n
         /\ \A s \in S : f[s] \in 1..n => Cardinality(Units(S, n, f)) >= 1
  <1> DEFINE P == S \X (1..n)
             U == Units(S, n, f)
  <1>1. IsFiniteSet(1..n) /\ Cardinality(1..n) = n
    BY FS_Interval
  <1>2. IsFiniteSet(P) /\ Cardinality(P) = Cardinality(S) * n /\ Cardinality(S) \in Nat
    BY <1>1, FS_Product, FS_CardinalityType
  <1>3. U \subseteq P
    BY DEF Units
  <1>4. IsFiniteSet(U) /\ Cardinality(U) <= Cardinality(P) /\ Cardinality(U) \in Nat
    BY <1>2, <1>3, FS_Subset, FS_CardinalityType
  <1>5. ASSUME \A s \in S : f[s] = 0 PROVE Cardinality(U) = 0
    <2>1. U = {}
      BY <1>5 DEF Units
    <2>2. QED
      BY <2>1, FS_EmptySet
  <1>6. ASSUME \A s \in S : f[s] = n PROVE U = P
    BY <1>6 DEF Units
  <1>7. ASSUME NEW s \in S, f[s] \in 1..n PROVE Cardinality(U) >= 1
    <2>1. <<s, 1>> \in U
      BY <1>7 DEF Units
    <2>2. Cardinality(U) # 0
      BY <1>4, <2>1, FS_EmptySet
    <2>3. QED
      BY <1>4, <2>2
  <1> HIDE DEF P, U
  <1>8. QED
    BY <1>2, <1>4, <1>5, <1>6, <1>7 DEF U

LEMMA UnitsSame ==
  ASSUME NEW S, NEW n, NEW f, NEW g, \A s \in S : g[s] = f[s]
  PROVE  Units(S, n, g) = Units(S, n, f)
  BY DEF Units

(* One of the numbers grows by one. *)
LEMMA UnitsOneMore ==
  ASSUME NEW S, IsFiniteSet(S), NEW n \in Nat, NEW f, NEW g, \A u \in S : f[u] \in Int,
         NEW s \in S, f[s] \in 0..(n - 1), g[s] = f[s] + 1, \A u \in S \ {s} : g[u] = f[u]
  PROVE  Cardinality(Units(S, n, g)) = Cardinality(Units(S, n, f)) + 1
  <1> DEFINE e == <<s, g[s]>>
  <1>1. e \in S \X (1..n) /\ e \notin Units(S, n, f)
    BY DEF Units
  <1>2. ASSUME NEW u \in S, NEW i \in 1..n
        PROVE  i <= g[u] <=> i <= f[u] \/ <<u, i>> = e
    <2>1. CASE u = s
      BY <2>1
    <2>2. CASE u # s
      BY <2>2
    <2>3. QED
      BY <2>1, <2>2
  <1>3. \A d \in S \X (1..n) : d[1] \in S /\ d[2] \in 1..n /\ d = <<d[1], d[2]>>
    OBVIOUS
  <1> HIDE DEF e
  <1>4. \A d \in S \X (1..n) : d[2] <= g[d[1]] <=> d[2] <= f[d[1]] \/ d = e
    BY <1>2, <1>3
  <1>5. Units(S, n, g) = Units(S, n, f) \cup {e}
    BY <1>1, <1>4 DEF Units
  <1>6. QED
    BY <1>1, <1>5, UnitsFacts, CardFacts

-----------------------------------------------------------------------------
(* Removing the last element of a sequence. *)
LEMMA DropLastFacts ==
  ASSUME NEW S, NEW s \in Seq(S), s # <<>>
  PROVE  /\ SubSeq(s, 1, Len(s) - 1) \in Seq(S)
         /\ Len(s) \in Nat \ {0}
         /\ Len(SubSeq(s, 1, Len(s) - 1)) = Len(s) - 1
         /\ \A i \in 1..(Len(s) - 1) : SubSeq(s, 1, Len(s) - 1)[i] = s[i]
  <1> DEFINE n == Len(s) - 1
  <1>1. Len(s) \in Nat \ {0} /\ \A i \in 1..n : s[i] \in S
    BY EmptySeq
  <1>2. n \in Nat
    BY <1>1
  <1> HIDE DEF n
  <1>3. /\ SubSeq(s, 1, n) \in Seq(S)
        /\ Len(SubSeq(s, 1, n)) = IF 1 <= n THEN n - 1 + 1 ELSE 0
        /\ \A i \in 1..(n - 1 + 1) : SubSeq(s, 1, n)[i] = s[1 + i - 1]
    BY <1>1, <1>2, SubSeqProperties
  <1>4. Len(SubSeq(s, 1, n)) = n
    BY <1>2, <1>3
  <1>5. \A i \in 1..n : SubSeq(s, 1, n)[i] = s[i]
    BY <1>2, <1>3
  <1>6. QED
    BY <1>1, <1>3, <1>4, <1>5 DEF n

(* What a sequence holds after its last element is removed, or one is added. *)
LEMMA DropLastRange ==
  ASSUME NEW S, NEW s \in Seq(S), s # <<>>,
         \A i, j \in 1..Len(s) : i # j => s[i] # s[j],
         NEW r, r = SubSeq(s, 1, Len(s) - 1)
  PROVE  {r[i] : i \in 1..Len(r)} = {s[i] : i \in 1..Len(s)} \ {s[Len(s)]}
  <1>1. /\ Len(s) \in Nat \ {0} /\ Len(r) = Len(s) - 1
        /\ \A i \in 1..(Len(s) - 1) : r[i] = s[i]
    BY DropLastFacts
  <1> DEFINE n == Len(s)
  <1>2. n \in Nat \ {0} /\ Len(r) = n - 1 /\ (\A i \in 1..(n - 1) : r[i] = s[i])
    BY <1>1
  <1>3. \A i, j \in 1..n : i # j => s[i] # s[j]
    OBVIOUS
  <1> HIDE DEF n
  <1>4. ASSUME NEW i \in 1..(n - 1) PROVE r[i] = s[i] /\ i \in 1..n /\ s[i] # s[n]
    <2>1. i \in 1..n /\ n \in 1..n /\ i # n
      BY <1>2
    <2>2. QED
      BY <1>2, <1>3, <2>1
  <1>5. ASSUME NEW i \in 1..n, s[i] # s[n] PROVE i \in 1..(n - 1)
    BY <1>2, <1>5
  <1>6. {r[i] : i \in 1..(n - 1)} = {s[i] : i \in 1..n} \ {s[n]}
    BY <1>4, <1>5
  <1>7. QED
    BY <1>2, <1>6 DEF n

(* Adding an element at the end of a sequence. *)
LEMMA AppendFacts ==
  ASSUME NEW S, NEW s \in Seq(S), NEW e \in S, NEW r, r = Append(s, e)
  PROVE  /\ Len(s) \in Nat /\ r # <<>> /\ Len(r) = Len(s) + 1
         /\ \A i \in 1..Len(s) : r[i] = s[i]
         /\ r[Len(s) + 1] = e
         /\ {r[i] : i \in 1..Len(r)} = {s[i] : i \in 1..Len(s)} \cup {e}
  <1> DEFINE n == Len(s)
  <1>1. n \in Nat
    OBVIOUS
  <1>2. /\ r # <<>> /\ Len(r) = n + 1
        /\ \A i \in 1..n : r[i] = s[i]
        /\ r[n + 1] = e
    BY AppendProperties
  <1> HIDE DEF n
  <1>3. 1..(n + 1) = (1..n) \cup {n + 1}
    BY <1>1
  <1>4. {r[i] : i \in 1..(n + 1)} = {s[i] : i \in 1..n} \cup {e}
    BY <1>2, <1>3
  <1>5. QED
    BY <1>1, <1>2, <1>4 DEF n

(* Taking off the first element of a sequence without repetitions. *)
LEMMA TailFacts ==
  ASSUME NEW S, NEW s \in Seq(S), s # <<>>,
         \A i, j \in 1..Len(s) : i # j => s[i] # s[j],
         NEW r, r = Tail(s)
  PROVE  /\ r \in Seq(S) /\ Len(s) \in Nat \ {0} /\ Len(r) = Len(s) - 1
         /\ \A i \in 1..Len(r) : i + 1 \in 1..Len(s) /\ r[i] = s[i + 1]
         /\ {r[i] : i \in 1..Len(r)} = {s[i] : i \in 1..Len(s)} \ {s[1]}
  <1> DEFINE n == Len(s)
  <1>1. n \in Nat \ {0}
    BY EmptySeq
  <1>2. r \in Seq(S) /\ Len(r) = n - 1 /\ \A i \in 1..(n - 1) : r[i] = s[i + 1]
    BY HeadTailProperties
  <1>3. \A i, j \in 1..n : i # j => s[i] # s[j]
    OBVIOUS
  <1> HIDE DEF n
  <1>4. ASSUME NEW i \in 1..(n - 1) PROVE i + 1 \in 1..n /\ r[i] = s[i + 1] /\ s[i + 1] # s[1]
    <2>1. i + 1 \in 1..n /\ 1 \in 1..n /\ i + 1 # 1
      BY <1>1
    <2>2. QED
      BY <1>2, <1>3, <2>1
  <1>5. ASSUME NEW i \in 1..n, s[i] # s[1] PROVE i - 1 \in 1..(n - 1) /\ r[i - 1] = s[i]
    <2>1. i - 1 \in 1..(n - 1) /\ (i - 1) + 1 = i
      BY <1>1, <1>5
    <2>2. QED
      BY <1>2, <2>1
  <1>6. {r[i] : i \in 1..(n - 1)} = {s[i] : i \in 1..n} \ {s[1]}
    <2>1. ASSUME NEW x \in {r[i] : i \in 1..(n - 1)} PROVE x \in {s[i] : i \in 1..n} \ {s[1]}
      <3>1. PICK i \in 1..(n - 1) : x = r[i]
        OBVIOUS
      <3>2. i + 1 \in 1..n /\ x = s[i + 1] /\ s[i + 1] # s[1]
        BY <1>4, <3>1
      <3>3. QED
        BY <3>2
    <2>2. ASSUME NEW x \in {s[i] : i \in 1..n} \ {s[1]} PROVE x \in {r[i] : i \in 1..(n - 1)}
      <3>1. PICK i \in 1..n : x = s[i]
        OBVIOUS
      <3>2. i - 1 \in 1..(n - 1) /\ r[i - 1] = x
        BY <1>5, <3>1
      <3>3. QED
        BY <3>2
    <2>3. QED
      BY <2>1, <2>2
  <1>7. QED
    BY <1>1, <1>2, <1>4, <1>6 DEF n

-----------------------------------------------------------------------------
(* The elements of a sequence, each replaced by its image. *)
Images(s, f) == [i \in 1..Len(s) |-> f[s[i]]]

(* A function on 1..n is a sequence. *)
LEMMA FunctionIsSeq ==
  ASSUME NEW T, NEW n \in Nat, NEW m \in [1..n -> T]
  PROVE  m \in Seq(T) /\ Len(m) = n
  <1>1. m \in Seq(T)
    BY SeqDef
  <1>2. Len(m) \in Nat /\ DOMAIN m = 1..Len(m)
    BY <1>1, LenProperties
  <1>3. DOMAIN m = 1..n
    OBVIOUS
  <1>4. QED
    BY <1>1, <1>2, <1>3

(* The images of a sequence with an element added at the end. *)
LEMMA ImagesOfAppend ==
  ASSUME NEW S, NEW s \in Seq(S), NEW e \in S, NEW f, DOMAIN f = S
  PROVE  Images(Append(s, e), f) = Append(Images(s, f), f[e])
  <1> SUFFICES ASSUME NEW r, r = Append(s, e),
                      NEW m, m = Images(s, f), NEW a, a = Images(r, f)
               PROVE  a = Append(m, f[e])
    OBVIOUS
  <1> DEFINE T == {f[x] : x \in S}
  <1>1. /\ r \in Seq(S) /\ Len(s) \in Nat /\ Len(r) = Len(s) + 1
        /\ \A i \in 1..Len(s) : r[i] = s[i]
        /\ r[Len(s) + 1] = e
    BY AppendProperties
  <1>2. a \in Seq(T) /\ Len(a) = Len(r) /\ \A i \in 1..Len(r) : a[i] = f[r[i]]
    <2>1. Len(r) \in Nat /\ \A i \in 1..Len(r) : r[i] \in S
      BY <1>1
    <2>2. a \in [1..Len(r) -> T] /\ \A i \in 1..Len(r) : a[i] = f[r[i]]
      BY <2>1 DEF Images
    <2>3. QED
      BY ONLY <2>1, <2>2, FunctionIsSeq
  <1>3. m \in Seq(T) /\ Len(m) = Len(s) /\ \A i \in 1..Len(s) : m[i] = f[s[i]]
    <2>1. \A i \in 1..Len(s) : s[i] \in S
      OBVIOUS
    <2>2. m \in [1..Len(s) -> T] /\ \A i \in 1..Len(s) : m[i] = f[s[i]]
      BY <2>1 DEF Images
    <2>3. QED
      BY <1>1, <2>2, FunctionIsSeq
  <1> DEFINE b == Append(m, f[e])
  <1>4. /\ b \in Seq(T) /\ Len(b) = Len(s) + 1
        /\ \A i \in 1..Len(s) : b[i] = f[s[i]]
        /\ b[Len(s) + 1] = f[e]
    BY <1>3, AppendProperties
  <1> HIDE DEF b
  <1>5. \A i \in 1..(Len(s) + 1) : a[i] = b[i]
    BY <1>1, <1>2, <1>4
  <1>6. a = b
    BY <1>1, <1>2, <1>4, <1>5, SeqEqual
  <1>7. QED
    BY <1>6 DEF b

(* The images of a sequence without its last element. *)
LEMMA ImagesOfDropLast ==
  ASSUME NEW S, NEW s \in Seq(S), s # <<>>, NEW f, DOMAIN f = S
  PROVE  /\ Images(s, f) # <<>>
         /\ Images(s, f)[Len(Images(s, f))] = f[s[Len(s)]]
         /\ Images(SubSeq(s, 1, Len(s) - 1), f)
              = SubSeq(Images(s, f), 1, Len(Images(s, f)) - 1)
  <1> SUFFICES ASSUME NEW r, r = SubSeq(s, 1, Len(s) - 1),
                      NEW m, m = Images(s, f), NEW a, a = Images(r, f)
               PROVE  /\ m # <<>> /\ m[Len(m)] = f[s[Len(s)]]
                      /\ a = SubSeq(m, 1, Len(m) - 1)
    OBVIOUS
  <1> DEFINE T == {f[x] : x \in S}
  <1>1. /\ r \in Seq(S) /\ Len(s) \in Nat \ {0} /\ Len(r) = Len(s) - 1
        /\ \A i \in 1..(Len(s) - 1) : r[i] = s[i]
    BY DropLastFacts
  <1>2. a \in Seq(T) /\ Len(a) = Len(r) /\ \A i \in 1..Len(r) : a[i] = f[r[i]]
    <2>1. Len(r) \in Nat /\ \A i \in 1..Len(r) : r[i] \in S
      BY <1>1
    <2>2. a \in [1..Len(r) -> T] /\ \A i \in 1..Len(r) : a[i] = f[r[i]]
      BY <2>1 DEF Images
    <2>3. QED
      BY ONLY <2>1, <2>2, FunctionIsSeq
  <1>3. m \in Seq(T) /\ Len(m) = Len(s) /\ \A i \in 1..Len(s) : m[i] = f[s[i]]
    <2>1. \A i \in 1..Len(s) : s[i] \in S
      OBVIOUS
    <2>2. m \in [1..Len(s) -> T] /\ \A i \in 1..Len(s) : m[i] = f[s[i]]
      BY <2>1 DEF Images
    <2>3. QED
      BY <1>1, <2>2, FunctionIsSeq
  <1>4. m # <<>>
    BY <1>1, <1>3, EmptySeq
  <1> DEFINE b == SubSeq(m, 1, Len(m) - 1)
  <1>5. /\ b \in Seq(T) /\ Len(b) = Len(s) - 1
        /\ \A i \in 1..(Len(s) - 1) : b[i] = m[i]
    BY ONLY <1>3, <1>4, DropLastFacts
  <1> HIDE DEF b
  <1>6. \A i \in 1..(Len(s) - 1) : a[i] = b[i]
    BY <1>1, <1>2, <1>3, <1>5
  <1>7. a = b
    <2>1. a \in Seq(T) /\ b \in Seq(T) /\ Len(a) = Len(b)
      BY ONLY <1>1, <1>2, <1>5
    <2>2. \A i \in 1..Len(a) : a[i] = b[i]
      BY ONLY <1>1, <1>2, <1>6
    <2> HIDE DEF T
    <2>3. QED
      BY ONLY <2>1, <2>2, SeqEqual
  <1>8. m[Len(m)] = f[s[Len(s)]]
    BY <1>1, <1>3
  <1>9. QED
    BY <1>4, <1>7, <1>8 DEF b

(* The images of a sequence without its first element. *)
LEMMA ImagesOfTail ==
  ASSUME NEW S, NEW s \in Seq(S), s # <<>>, NEW f, DOMAIN f = S
  PROVE  /\ Images(s, f) # <<>>
         /\ Len(Images(s, f)) = Len(s)
         /\ Images(s, f)[1] = f[s[1]]
         /\ Images(Tail(s), f) = Tail(Images(s, f))
  <1> DEFINE r == Tail(s)
             m == Images(s, f)
             a == Images(r, f)
  <1> DEFINE T == {f[x] : x \in S}
  <1> HIDE DEF r, m, a
  <1>1. /\ r \in Seq(S) /\ Len(s) \in Nat \ {0} /\ Len(r) = Len(s) - 1
        /\ \A i \in 1..(Len(s) - 1) : r[i] = s[i + 1]
    BY HeadTailProperties, EmptySeq DEF r
  <1>2. a \in Seq(T) /\ Len(a) = Len(r) /\ \A i \in 1..Len(r) : a[i] = f[r[i]]
    <2>1. Len(r) \in Nat /\ \A i \in 1..Len(r) : r[i] \in S
      BY <1>1
    <2>2. a \in [1..Len(r) -> T] /\ \A i \in 1..Len(r) : a[i] = f[r[i]]
      BY <2>1 DEF a, Images
    <2>3. QED
      BY ONLY <2>1, <2>2, FunctionIsSeq
  <1>3. m \in Seq(T) /\ Len(m) = Len(s) /\ \A i \in 1..Len(s) : m[i] = f[s[i]]
    <2>1. \A i \in 1..Len(s) : s[i] \in S
      OBVIOUS
    <2>2. m \in [1..Len(s) -> T] /\ \A i \in 1..Len(s) : m[i] = f[s[i]]
      BY <2>1 DEF m, Images
    <2>3. QED
      BY <1>1, <2>2, FunctionIsSeq
  <1>4. m # <<>>
    BY <1>1, <1>3, EmptySeq
  <1> DEFINE b == Tail(m)
  <1>5. /\ b \in Seq(T) /\ Len(b) = Len(s) - 1
        /\ \A i \in 1..(Len(s) - 1) : b[i] = m[i + 1]
    BY ONLY <1>3, <1>4, HeadTailProperties
  <1> HIDE DEF b
  <1>6. \A i \in 1..(Len(s) - 1) : a[i] = b[i]
    <2>1. ASSUME NEW i \in 1..(Len(s) - 1) PROVE a[i] = b[i]
      <3>1. i + 1 \in 1..Len(s) /\ i \in 1..Len(r)
        BY <1>1
      <3>2. r[i] = s[i + 1] /\ b[i] = m[i + 1]
        BY <1>1, <1>5
      <3>3. a[i] = f[r[i]] /\ m[i + 1] = f[s[i + 1]]
        BY <3>1, <1>2, <1>3
      <3>4. QED
        BY ONLY <3>2, <3>3
    <2>2. QED
      BY <2>1
  <1>7. a = b
    <2>1. a \in Seq(T) /\ b \in Seq(T) /\ Len(a) = Len(b)
      BY ONLY <1>1, <1>2, <1>5
    <2>2. \A i \in 1..Len(a) : a[i] = b[i]
      BY ONLY <1>1, <1>2, <1>6
    <2> HIDE DEF T
    <2>3. QED
      BY ONLY <2>1, <2>2, SeqEqual
  <1>8. m[1] = f[s[1]]
    BY <1>1, <1>3
  <1>9. QED
    BY <1>3, <1>4, <1>7, <1>8 DEF b, a, m, r
=============================================================================
