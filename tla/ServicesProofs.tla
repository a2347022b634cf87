---------------------------- MODULE ServicesProofs ----------------------------
(***************************************************************************)
(* What is proved of the parts that work on their own: for each, that its  *)
(* properties hold in every state of Spec, for all values of the constants *)
(* that the assumptions of Services allow. A section for each part states  *)
(* its inductive invariant and shows step by step that it is kept.         *)
(***************************************************************************)
EXTENDS Services, FiniteSetTheorems, SequenceTheorems, WellFoundedInduction, TLAPS

\* A step of Spec is a step, or a stutter, of the part that moves.
LEMMA PartSteps ==
    ASSUME [Next]_vars
    PROVE  /\ part' = part
           /\ part = "cache" => [Cache!Next]_caching
           /\ part # "cache" => UNCHANGED caching
           /\ part = "merge" => [Merging!Exchange]_merging
           /\ part = "watch" => [Watchers!Next]_watching
           /\ part = "search" => [Searches!Next]_searching
           /\ part = "backup" => [Backups!Next]_backingUp
           /\ part # "backup" => UNCHANGED backingUp
           /\ part = "fields" => [Fields!Next]_choosing
           /\ part = "form" => [Form!Next]_filling
           /\ part = "labels" => [Labels!Next]_labelling
           /\ part = "files" => [Remote!Next]_serving
           /\ part = "encryption" => [Encryption!Next]_encrypting
<1>1. CASE Next
  BY <1>1 DEF Next
<1>2. CASE UNCHANGED vars
  BY <1>2 DEF vars, caching, watching, searching, backingUp, merging, choosing, filling,
              labelling, serving, encrypting
<1>3. QED
  BY <1>1, <1>2

-----------------------------------------------------------------------------
(* Numbers, computations and sequences *)
\* The order of the numbers, as a relation.
Before == {p \in Nat \X Nat : p[1] < p[2]}

\* A set of numbers that is not empty has a least one.
LEMMA Least ==
    ASSUME NEW T \in SUBSET Nat, T # {}
    PROVE  \E x \in T : \A y \in T : x <= y
<1>1. IsWellFoundedOn(OpToRel(<, Nat), Nat)
  BY NatLessThanWellFounded
<1>2. OpToRel(<, Nat) = Before
  BY DEF OpToRel, Before
<1>3. PICK x \in T : \A y \in T : ~(<<y, x>> \in Before)
  BY <1>1, <1>2, WFMin
<1>4. ASSUME NEW y \in T PROVE x <= y
  <2>1. x \in Nat /\ y \in Nat
    OBVIOUS
  <2>2. ~(y < x)
    BY <1>3, <2>1 DEF Before
  <2>3. QED
    BY <2>1, <2>2
<1>5. QED
  BY <1>4

\* What holds of 0, and with a number of the next one, holds of all.
LEMMA Induction ==
    ASSUME NEW G, 0 \in G, \A m \in Nat : m \in G => m + 1 \in G
    PROVE  \A m \in Nat : m \in G
<1> DEFINE bad == Nat \ G
<1>1. SUFFICES ASSUME bad # {} PROVE FALSE
  OBVIOUS
<1>2. PICK x \in bad : \A y \in bad : x <= y
  <2>1. bad \in SUBSET Nat
    OBVIOUS
  <2> HIDE DEF bad
  <2>2. QED
    BY <1>1, <2>1, Least
<1>3. x # 0 /\ x \in Nat
  BY <1>2
<1>4. x - 1 \in Nat /\ x - 1 \in G
  BY <1>2, <1>3
<1>5. QED
  BY <1>2, <1>3, <1>4

\* What is computed from one number to the next exists, as far as it is needed.
LEMMA Iteration ==
    ASSUME NEW S, NEW a \in S, NEW n \in Nat, NEW step \in [1 .. n -> [S -> S]]
    PROVE  \E f \in [0 .. n -> S] :
              f[0] = a /\ \A m \in 1 .. n : f[m] = step[m][f[m - 1]]
<1> DEFINE Computed(f, k) ==
             /\ f \in [0 .. k -> S] /\ f[0] = a
             /\ \A m \in 1 .. k : f[m] = step[m][f[m - 1]]
           G == {k \in Nat : k <= n => \E f : Computed(f, k)}
<1>1. \E f : Computed(f, 0)
  <2>1. Computed([m \in 0 .. 0 |-> a], 0)
    OBVIOUS
  <2>2. QED
    BY <2>1
<1>2. ASSUME NEW k \in Nat, k + 1 <= n, NEW f, Computed(f, k)
      PROVE  \E g : Computed(g, k + 1)
  <2> DEFINE g == [m \in 0 .. k + 1 |-> IF m = k + 1 THEN step[k + 1][f[k]] ELSE f[m]]
  <2>1. \A m \in 0 .. k : m \in 0 .. k + 1 /\ g[m] = f[m] /\ f[m] \in S
    BY <1>2
  <2>2. g[k + 1] = step[k + 1][f[k]] /\ f[k] \in S /\ k + 1 \in 1 .. n
    BY <1>2
  <2>3. g[k + 1] \in S
    BY <2>2
  <2>4. \A m \in 0 .. k + 1 : m = k + 1 \/ m \in 0 .. k
    OBVIOUS
  <2>5. g = [m \in 0 .. k + 1 |-> g[m]]
    OBVIOUS
  <2> HIDE DEF g
  <2>6. g \in [0 .. k + 1 -> S]
    <3>1. \A m \in 0 .. k + 1 : g[m] \in S
      BY <2>1, <2>3, <2>4
    <3>2. QED
      BY <2>5, <3>1
  <2>7. g[0] = a
    BY <1>2, <2>1
  <2>8. ASSUME NEW m \in 1 .. k + 1 PROVE g[m] = step[m][g[m - 1]]
    <3>1. CASE m = k + 1
      BY <2>1, <2>2, <3>1
    <3>2. CASE m # k + 1
      <4>1. m \in 1 .. k /\ m \in 0 .. k /\ m - 1 \in 0 .. k
        BY <3>2
      <4>2. QED
        BY <1>2, <2>1, <4>1
    <3>3. QED
      BY <3>1, <3>2
  <2>9. QED
    BY <2>6, <2>7, <2>8
<1> HIDE DEF Computed
<1>3. 0 \in G
  BY <1>1
<1>4. ASSUME NEW k \in Nat, k \in G PROVE k + 1 \in G
  <2>1. SUFFICES ASSUME k + 1 <= n PROVE \E f : Computed(f, k + 1)
    OBVIOUS
  <2>2. k <= n
    BY <2>1
  <2>3. PICK f : Computed(f, k)
    BY <1>4, <2>2
  <2>4. QED
    BY <1>2, <2>1, <2>3
<1>5. \A k \in Nat : k \in G
  <2> HIDE DEF G
  <2>1. QED
    BY <1>3, <1>4, Induction
<1>6. \E f : Computed(f, n)
  BY <1>5
<1>7. QED
  BY <1>6 DEF Computed

\* Two computations that start and go on alike are the same.
LEMMA SameRun ==
    ASSUME NEW n \in Nat, NEW f, NEW g, f[0] = g[0],
           \A m \in 1 .. n : f[m - 1] = g[m - 1] => f[m] = g[m]
    PROVE  f[n] = g[n]
<1> DEFINE G == {m \in Nat : m <= n => f[m] = g[m]}
<1>1. 0 \in G
  OBVIOUS
<1>2. ASSUME NEW m \in Nat, m \in G PROVE m + 1 \in G
  <2>1. SUFFICES ASSUME m + 1 <= n PROVE f[m + 1] = g[m + 1]
    OBVIOUS
  <2>2. m + 1 \in 1 .. n /\ m + 1 - 1 = m /\ f[m] = g[m]
    BY <1>2, <2>1
  <2>3. QED
    BY <2>2
<1>3. n \in G
  <2> HIDE DEF G
  <2>1. QED
    BY <1>1, <1>2, Induction
<1>4. QED
  BY <1>3

\* What holds of the empty sequence, and with a sequence of any that is longer by
\* one, holds of all.
LEMMA Growing ==
    ASSUME NEW S, NEW G, <<>> \in G,
           \A s \in Seq(S), e \in S : s \in G => Append(s, e) \in G
    PROVE  \A s \in Seq(S) : s \in G
<1> DEFINE H == {n \in Nat : \A s \in Seq(S) : Len(s) = n => s \in G}
<1>1. 0 \in H
  BY EmptySeq
<1>2. ASSUME NEW n \in Nat, n \in H PROVE n + 1 \in H
  <2>1. SUFFICES ASSUME NEW s \in Seq(S), Len(s) = n + 1 PROVE s \in G
    OBVIOUS
  <2> DEFINE t == SubSeq(s, 1, n)
  <2>2. t \in Seq(S) /\ Len(t) = n /\ s[n + 1] \in S /\ s = Append(t, s[n + 1])
    BY <2>1
  <2>3. t \in G
    BY <1>2, <2>2
  <2> HIDE DEF t
  <2>4. QED
    BY <2>2, <2>3
<1>3. \A n \in Nat : n \in H
  <2> HIDE DEF H
  <2>1. QED
    BY <1>1, <1>2, Induction
<1>4. QED
  BY <1>3, LenProperties

-----------------------------------------------------------------------------
(* CacheService *)
ContentEntry == [key : Cache!Key, size : Nat, expires : Nat]
Contents == Seq(ContentEntry)

\* The function Bytes computes.
Sums(f, s) == f = [n \in 0 .. Len(s) |-> IF n = 0 THEN 0 ELSE f[n - 1] + s[n].size]

\* Sums of numbers exist.
LEMMA SumExists ==
    ASSUME NEW n \in Nat, NEW w, \A m \in 1 .. n : w[m] \in Nat
    PROVE  \E f \in [0 .. n -> Nat] : f[0] = 0 /\ \A m \in 1 .. n : f[m] = f[m - 1] + w[m]
<1> DEFINE step == [m \in 1 .. n |-> [x \in Nat |-> x + w[m]]]
<1>1. step \in [1 .. n -> [Nat -> Nat]]
  OBVIOUS
<1>2. PICK f \in [0 .. n -> Nat] : f[0] = 0 /\ \A m \in 1 .. n : f[m] = step[m][f[m - 1]]
  <2> DEFINE S == Nat
             a == 0
  <2>1. a \in S /\ step \in [1 .. n -> [S -> S]]
    BY <1>1
  <2>2. SUFFICES \E f \in [0 .. n -> S] : f[0] = a /\ \A m \in 1 .. n : f[m] = step[m][f[m - 1]]
    OBVIOUS
  <2> HIDE DEF step, S, a
  <2>3. QED
    BY <2>1, Iteration
<1>3. \A m \in 1 .. n : m - 1 \in 0 .. n /\ f[m - 1] \in Nat
  OBVIOUS
<1>4. \A m \in 1 .. n : f[m] = f[m - 1] + w[m]
  BY <1>2, <1>3
<1>5. QED
  BY <1>2, <1>4

\* Bytes is the last of the sums.
LEMMA BytesIs ==
    ASSUME NEW s \in Contents
    PROVE  \E f \in [0 .. Len(s) -> Nat] :
              /\ f[0] = 0 /\ \A m \in 1 .. Len(s) : f[m] = f[m - 1] + s[m].size
              /\ Cache!Bytes(s) = f[Len(s)]
<1> DEFINE n == Len(s)
           w == [m \in 1 .. n |-> s[m].size]
           c == CHOOSE g : Sums(g, s)
<1>1. n \in Nat /\ \A m \in 1 .. n : w[m] \in Nat
  <2>1. n \in Nat /\ \A m \in 1 .. n : s[m] \in ContentEntry
    BY LenProperties, ElementOfSeq DEF Contents
  <2>2. \A m \in 1 .. n : s[m].size \in Nat
    BY <2>1 DEF ContentEntry
  <2>3. QED
    BY <2>1, <2>2
<1>2. Cache!Bytes(s) = c[n]
  BY DEF Cache!Bytes, Sums
<1> HIDE DEF n
<1>3. PICK f \in [0 .. n -> Nat] : f[0] = 0 /\ \A m \in 1 .. n : f[m] = f[m - 1] + w[m]
  <2> HIDE DEF w
  <2>1. QED
    BY <1>1, SumExists
<1>4. \A m \in 1 .. n : f[m] = f[m - 1] + s[m].size
  BY <1>3
<1>5. f = [m \in 0 .. n |-> IF m = 0 THEN 0 ELSE f[m - 1] + s[m].size]
  <2>1. f = [m \in 0 .. n |-> f[m]]
    OBVIOUS
  <2>2. \A m \in 0 .. n : f[m] = IF m = 0 THEN 0 ELSE f[m - 1] + s[m].size
    BY <1>1, <1>3, <1>4
  <2>3. QED
    BY <2>1, <2>2
<1>6. Sums(f, s)
  BY <1>5 DEF Sums, n
<1>7. Sums(c, s)
  BY <1>6
<1> HIDE DEF c
<1>8. c[0] = 0 /\ \A m \in 1 .. n : c[m] = c[m - 1] + s[m].size
  <2>1. c = [m \in 0 .. n |-> IF m = 0 THEN 0 ELSE c[m - 1] + s[m].size]
    BY <1>7 DEF Sums, n
  <2>2. QED
    BY <1>1, <2>1
<1>9. c[n] = f[n]
  <2>1. \A m \in 1 .. n : c[m - 1] = f[m - 1] => c[m] = f[m]
    BY <1>4, <1>8
  <2>2. c[0] = f[0] /\ n \in Nat
    BY <1>1, <1>3, <1>8
  <2>3. QED
    BY <2>1, <2>2, SameRun
<1>10. QED
  BY <1>2, <1>3, <1>4, <1>9 DEF n

\* The sum, entry by entry.
LEMMA BytesFacts ==
    /\ Cache!Bytes(<<>>) = 0
    /\ \A s \in Contents :
          /\ Cache!Bytes(s) \in Nat
          /\ \A e \in ContentEntry : Cache!Bytes(Append(s, e)) = Cache!Bytes(s) + e.size
<1>1. Cache!Bytes(<<>>) = 0
  <2>1. <<>> \in Contents /\ Len(<<>>) = 0
    BY EmptySeq DEF Contents
  <2>2. QED
    BY <2>1, BytesIs
<1>2. ASSUME NEW s \in Contents PROVE Cache!Bytes(s) \in Nat
  <2>1. PICK f \in [0 .. Len(s) -> Nat] : Cache!Bytes(s) = f[Len(s)]
    BY BytesIs
  <2>2. Len(s) \in 0 .. Len(s)
    BY DEF Contents
  <2>3. QED
    BY <2>1, <2>2
<1>3. ASSUME NEW s \in Contents, NEW e \in ContentEntry
      PROVE  Cache!Bytes(Append(s, e)) = Cache!Bytes(s) + e.size
  <2> DEFINE t == Append(s, e)
             n == Len(s)
  <2>1. /\ n \in Nat /\ t \in Contents /\ Len(t) = n + 1 /\ t[n + 1] = e
        /\ \A m \in 1 .. n : t[m] = s[m]
    BY DEF Contents
  <2>2. PICK f \in [0 .. n -> Nat] :
            /\ f[0] = 0 /\ \A m \in 1 .. n : f[m] = f[m - 1] + s[m].size
            /\ Cache!Bytes(s) = f[n]
    BY BytesIs
  <2> HIDE DEF t
  <2>3. PICK g \in [0 .. n + 1 -> Nat] :
            /\ g[0] = 0 /\ \A m \in 1 .. n + 1 : g[m] = g[m - 1] + t[m].size
            /\ Cache!Bytes(t) = g[n + 1]
    BY <2>1, BytesIs
  <2> HIDE DEF n
  <2>4. \A m \in 1 .. n : f[m - 1] = g[m - 1] => f[m] = g[m]
    <3>1. \A m \in 1 .. n : m \in 1 .. n + 1
      BY <2>1
    <3>2. QED
      BY <2>1, <2>2, <2>3, <3>1
  <2>5. f[n] = g[n]
    <3>1. f[0] = g[0] /\ n \in Nat
      BY <2>1, <2>2, <2>3
    <3>2. QED
      BY <2>4, <3>1, SameRun
  <2>6. n + 1 \in 1 .. n + 1 /\ n + 1 - 1 = n
    BY <2>1
  <2>7. g[n + 1] = g[n] + e.size
    BY <2>1, <2>3, <2>6
  <2>8. QED
    BY <2>2, <2>3, <2>5, <2>7 DEF t
<1>4. QED
  BY <1>1, <1>2, <1>3

\* The function Within computes.
Keeps(f, s, K) ==
    f = [n \in 0 .. Len(s) |->
           IF n = 0 THEN <<>>
           ELSE IF s[n].key \in K THEN Append(f[n - 1], s[n]) ELSE f[n - 1]]

\* One step of it.
Taken(x, e, K) == IF e.key \in K THEN Append(x, e) ELSE x

\* The sequences of what has been taken exist.
LEMMA KeptExist ==
    ASSUME NEW n \in Nat, NEW w, \A m \in 1 .. n : w[m] \in ContentEntry, NEW K
    PROVE  \E f \in [0 .. n -> Contents] :
              /\ f[0] = <<>>
              /\ \A m \in 1 .. n :
                    f[m] = Taken(f[m - 1], w[m], K)
<1> DEFINE step == [m \in 1 .. n |-> [x \in Contents |-> Taken(x, w[m], K)]]
<1>1. step \in [1 .. n -> [Contents -> Contents]] /\ <<>> \in Contents
  BY EmptySeq DEF Contents, Taken
<1>2. PICK f \in [0 .. n -> Contents] : f[0] = <<>> /\ \A m \in 1 .. n : f[m] = step[m][f[m - 1]]
  <2> DEFINE S == Contents
             a == <<>>
  <2>1. a \in S /\ step \in [1 .. n -> [S -> S]]
    BY <1>1
  <2>2. SUFFICES \E f \in [0 .. n -> S] : f[0] = a /\ \A m \in 1 .. n : f[m] = step[m][f[m - 1]]
    OBVIOUS
  <2> HIDE DEF step, S, a
  <2>3. QED
    BY <2>1, Iteration
<1>3. \A m \in 1 .. n : m - 1 \in 0 .. n /\ f[m - 1] \in Contents
  OBVIOUS
<1>4. \A m \in 1 .. n : f[m] = Taken(f[m - 1], w[m], K)
  BY <1>2, <1>3
<1>5. QED
  BY <1>2, <1>4

\* Within is the last of them.
LEMMA WithinIs ==
    ASSUME NEW s \in Contents, NEW K
    PROVE  \E f \in [0 .. Len(s) -> Contents] :
              /\ f[0] = <<>>
              /\ \A m \in 1 .. Len(s) :
                    f[m] = Taken(f[m - 1], s[m], K)
              /\ Cache!Within(s, K) = f[Len(s)]
<1> DEFINE n == Len(s)
           c == CHOOSE g : Keeps(g, s, K)
<1>1. n \in Nat /\ \A m \in 1 .. n : s[m] \in ContentEntry
  BY LenProperties, ElementOfSeq DEF Contents
<1>2. Cache!Within(s, K) = c[n]
  BY DEF Cache!Within, Keeps
<1> HIDE DEF n
<1>3. PICK f \in [0 .. n -> Contents] :
          f[0] = <<>> /\ \A m \in 1 .. n : f[m] = Taken(f[m - 1], s[m], K)
  BY <1>1, KeptExist
<1>4. f = [m \in 0 .. n |-> IF m = 0 THEN <<>> ELSE Taken(f[m - 1], s[m], K)]
  <2>1. f = [m \in 0 .. n |-> f[m]]
    OBVIOUS
  <2>2. \A m \in 0 .. n : f[m] = IF m = 0 THEN <<>> ELSE Taken(f[m - 1], s[m], K)
    <3>1. \A m \in 0 .. n : m = 0 \/ m \in 1 .. n
      BY <1>1
    <3>2. QED
      BY <1>3, <3>1
  <2>3. QED
    BY <2>1, <2>2
<1>5. Keeps(f, s, K)
  BY <1>4 DEF Keeps, n, Taken
<1>6. Keeps(c, s, K)
  BY <1>5
<1> HIDE DEF c
<1>7. c[0] = <<>> /\ \A m \in 1 .. n : c[m] = Taken(c[m - 1], s[m], K)
  <2>1. c = [m \in 0 .. n |-> IF m = 0 THEN <<>> ELSE Taken(c[m - 1], s[m], K)]
    BY <1>6 DEF Keeps, n, Taken
  <2>2. QED
    BY <1>1, <2>1
<1>8. c[n] = f[n]
  <2>1. \A m \in 1 .. n : c[m - 1] = f[m - 1] => c[m] = f[m]
    BY <1>3, <1>7
  <2>2. c[0] = f[0] /\ n \in Nat
    BY <1>1, <1>3, <1>7
  <2>3. QED
    BY <2>1, <2>2, SameRun
<1>9. QED
  BY <1>2, <1>3, <1>8 DEF n

\* The entries of the keys, entry by entry.
LEMMA WithinFacts ==
    ASSUME NEW K
    PROVE  /\ Cache!Within(<<>>, K) = <<>>
           /\ \A s \in Contents :
                 /\ Cache!Within(s, K) \in Contents
                 /\ \A e \in ContentEntry :
                       Cache!Within(Append(s, e), K) =
                         IF e.key \in K THEN Append(Cache!Within(s, K), e) ELSE Cache!Within(s, K)
<1>1. Cache!Within(<<>>, K) = <<>>
  <2>1. <<>> \in Contents /\ Len(<<>>) = 0
    BY EmptySeq DEF Contents
  <2>2. QED
    BY <2>1, WithinIs
<1>2. ASSUME NEW s \in Contents PROVE Cache!Within(s, K) \in Contents
  <2>1. PICK f \in [0 .. Len(s) -> Contents] : Cache!Within(s, K) = f[Len(s)]
    BY WithinIs
  <2>2. Len(s) \in 0 .. Len(s)
    BY LenProperties DEF Contents
  <2>3. QED
    BY <2>1, <2>2
<1>3. ASSUME NEW s \in Contents, NEW e \in ContentEntry
      PROVE  Cache!Within(Append(s, e), K) =
               IF e.key \in K THEN Append(Cache!Within(s, K), e) ELSE Cache!Within(s, K)
  <2> DEFINE t == Append(s, e)
             n == Len(s)
  <2>1. /\ n \in Nat /\ t \in Contents /\ Len(t) = n + 1 /\ t[n + 1] = e
        /\ \A m \in 1 .. n : t[m] = s[m]
    BY DEF Contents
  <2>2. PICK f \in [0 .. n -> Contents] :
            /\ f[0] = <<>> /\ \A m \in 1 .. n : f[m] = Taken(f[m - 1], s[m], K)
            /\ Cache!Within(s, K) = f[n]
    BY WithinIs
  <2> HIDE DEF t
  <2>3. PICK g \in [0 .. n + 1 -> Contents] :
            /\ g[0] = <<>> /\ \A m \in 1 .. n + 1 : g[m] = Taken(g[m - 1], t[m], K)
            /\ Cache!Within(t, K) = g[n + 1]
    <3> DEFINE k == n + 1
    <3>1. t \in Contents /\ Len(t) = k
      BY <2>1
    <3> HIDE DEF n, k
    <3>2. \E g \in [0 .. k -> Contents] :
            /\ g[0] = <<>> /\ \A m \in 1 .. k : g[m] = Taken(g[m - 1], t[m], K)
            /\ Cache!Within(t, K) = g[k]
      BY <3>1, WithinIs
    <3>3. QED
      BY <3>2 DEF k
  <2> HIDE DEF n
  <2>4. \A m \in 1 .. n : f[m - 1] = g[m - 1] => f[m] = g[m]
    <3>1. \A m \in 1 .. n : m \in 1 .. n + 1
      BY <2>1
    <3>2. QED
      BY <2>1, <2>2, <2>3, <3>1
  <2>5. f[n] = g[n]
    <3>1. f[0] = g[0] /\ n \in Nat
      BY <2>1, <2>2, <2>3
    <3>2. QED
      BY <2>4, <3>1, SameRun
  <2>6. n + 1 \in 1 .. n + 1 /\ n + 1 - 1 = n
    BY <2>1
  <2>7. g[n + 1] = Taken(g[n], e, K)
    BY <2>1, <2>3, <2>6
  <2>8. QED
    BY <2>2, <2>3, <2>5, <2>7 DEF t, Taken
<1>4. QED
  BY <1>1, <1>2, <1>3

\* What is taken and what is left add up.
LEMMA Divided ==
    ASSUME NEW K, NEW s \in Contents
    PROVE  Cache!Bytes(Cache!Within(s, K)) + Cache!Bytes(Cache!Within(s, Cache!Key \ K))
             = Cache!Bytes(s)
<1> DEFINE L == Cache!Key \ K
           Adds(x) == Cache!Bytes(Cache!Within(x, K)) + Cache!Bytes(Cache!Within(x, L))
                        = Cache!Bytes(x)
           G == {x \in Contents : Adds(x)}
<1>1. <<>> \in G
  BY BytesFacts, WithinFacts, EmptySeq DEF Contents
<1>2. ASSUME NEW x \in Contents, NEW e \in ContentEntry, Adds(x) PROVE Adds(Append(x, e))
  <2>1. e.key \in Cache!Key
    BY DEF ContentEntry
  <2>2. /\ Cache!Within(x, K) \in Contents /\ Cache!Within(x, L) \in Contents
        /\ Cache!Within(Append(x, e), K) =
             IF e.key \in K THEN Append(Cache!Within(x, K), e) ELSE Cache!Within(x, K)
        /\ Cache!Within(Append(x, e), L) =
             IF e.key \in L THEN Append(Cache!Within(x, L), e) ELSE Cache!Within(x, L)
    BY WithinFacts
  <2>3. \A y \in Contents : /\ Cache!Bytes(y) \in Nat
                            /\ Cache!Bytes(Append(y, e)) = Cache!Bytes(y) + e.size
    BY BytesFacts
  <2>4. e.size \in Nat /\ (e.key \in K <=> e.key \notin L)
    BY <2>1 DEF ContentEntry
  <2> HIDE DEF L
  <2>5. QED
    BY <1>2, <2>2, <2>3, <2>4
<1>3. \A x \in Seq(ContentEntry), e \in ContentEntry : x \in G => Append(x, e) \in G
  <2>1. \A x \in Seq(ContentEntry), e \in ContentEntry : Append(x, e) \in Seq(ContentEntry)
    BY AppendProperties
  <2> HIDE DEF Adds
  <2>2. QED
    BY <1>2, <2>1 DEF Contents
<1>4. s \in G
  <2> HIDE DEF G
  <2>1. QED
    BY <1>1, <1>3, Growing DEF Contents
<1>5. QED
  BY <1>4

\* So do the parts of a sequence.
LEMMA Joined ==
    ASSUME NEW s \in Contents, NEW t \in Contents
    PROVE  Cache!Bytes(s \o t) = Cache!Bytes(s) + Cache!Bytes(t)
<1> DEFINE Adds(x) == Cache!Bytes(s \o x) = Cache!Bytes(s) + Cache!Bytes(x)
           G == {x \in Contents : Adds(x)}
<1>1. <<>> \in G
  <2>1. <<>> \in Contents /\ s \o <<>> = s
    BY EmptySeq, ConcatEmptySeq DEF Contents
  <2>2. QED
    BY <2>1, BytesFacts
<1>2. ASSUME NEW x \in Contents, NEW e \in ContentEntry, Adds(x) PROVE Adds(Append(x, e))
  <2>1. s \o Append(x, e) = Append(s \o x, e) /\ s \o x \in Contents
    BY DEF Contents
  <2>2. \A y \in Contents : /\ Cache!Bytes(y) \in Nat
                            /\ Cache!Bytes(Append(y, e)) = Cache!Bytes(y) + e.size
    BY BytesFacts
  <2>3. e.size \in Nat
    BY DEF ContentEntry
  <2>4. QED
    BY <1>2, <2>1, <2>2, <2>3
<1>3. \A x \in Seq(ContentEntry), e \in ContentEntry : x \in G => Append(x, e) \in G
  <2>1. \A x \in Seq(ContentEntry), e \in ContentEntry : Append(x, e) \in Seq(ContentEntry)
    BY AppendProperties
  <2> HIDE DEF Adds
  <2>2. QED
    BY <1>2, <2>1 DEF Contents
<1>4. t \in G
  <2> HIDE DEF G
  <2>1. QED
    BY <1>1, <1>3, Growing DEF Contents
<1>5. QED
  BY <1>4

\* No two entries have the same key.
Distinct(s) == \A i, j \in 1 .. Len(s) : s[i].key = s[j].key => i = j

\* No entry has the key.
Without(s, k) == \A i \in 1 .. Len(s) : s[i].key # k

\* An entry may be added if its key is new.
LEMMA DistinctAppend ==
    ASSUME NEW s \in Contents, NEW e \in ContentEntry
    PROVE  /\ Distinct(Append(s, e)) <=> Distinct(s) /\ Without(s, e.key)
           /\ \A k : Without(Append(s, e), k) <=> Without(s, k) /\ e.key # k
<1> DEFINE t == Append(s, e)
           n == Len(s)
<1>1. /\ n \in Nat /\ Len(t) = n + 1 /\ t[n + 1] = e
      /\ \A m \in 1 .. n : t[m] = s[m]
  BY DEF Contents
<1> HIDE DEF t, n
<1>2. \A m \in 1 .. n + 1 : m \in 1 .. n \/ m = n + 1
  BY <1>1
<1>3. n + 1 \in 1 .. n + 1 /\ \A m \in 1 .. n : m \in 1 .. n + 1 /\ m # n + 1
  BY <1>1
<1>4. ASSUME NEW k
      PROVE  (\A i \in 1 .. n + 1 : t[i].key # k) <=> (\A i \in 1 .. n : s[i].key # k) /\ e.key # k
  BY <1>1, <1>2, <1>3
<1>5. (\A i, j \in 1 .. n + 1 : t[i].key = t[j].key => i = j) <=>
        /\ \A i, j \in 1 .. n : s[i].key = s[j].key => i = j
        /\ \A i \in 1 .. n : s[i].key # e.key
  BY <1>1, <1>2, <1>3
<1>6. QED
  BY <1>1, <1>4, <1>5 DEF t, n, Distinct, Without

\* Taking some of the entries gives no key a second one.
LEMMA DistinctWithin ==
    ASSUME NEW K, NEW s \in Contents, Distinct(s)
    PROVE  Distinct(Cache!Within(s, K))
<1> DEFINE Stays(x) == /\ \A k : Without(x, k) => Without(Cache!Within(x, K), k)
                       /\ Distinct(x) => Distinct(Cache!Within(x, K))
           G == {x \in Contents : Stays(x)}
<1>1. <<>> \in G
  <2>1. <<>> \in Contents /\ Cache!Within(<<>>, K) = <<>>
    BY EmptySeq, WithinFacts DEF Contents
  <2>2. QED
    BY <2>1
<1>2. ASSUME NEW x \in Contents, NEW e \in ContentEntry, Stays(x) PROVE Stays(Append(x, e))
  <2> DEFINE y == Cache!Within(x, K)
  <2>1. y \in Contents /\ Cache!Within(Append(x, e), K) = IF e.key \in K THEN Append(y, e) ELSE y
    BY WithinFacts
  <2>2. (\A k : Without(x, k) => Without(y, k)) /\ (Distinct(x) => Distinct(y))
    BY <1>2
  <2> HIDE DEF y
  <2>3. /\ Distinct(Append(x, e)) <=> Distinct(x) /\ Without(x, e.key)
        /\ \A k : Without(Append(x, e), k) <=> Without(x, k) /\ e.key # k
    BY DistinctAppend
  <2>4. /\ Distinct(Append(y, e)) <=> Distinct(y) /\ Without(y, e.key)
        /\ \A k : Without(Append(y, e), k) <=> Without(y, k) /\ e.key # k
    BY <2>1, DistinctAppend
  <2>5. QED
    BY <2>1, <2>2, <2>3, <2>4
<1>3. \A x \in Seq(ContentEntry), e \in ContentEntry : x \in G => Append(x, e) \in G
  <2>1. \A x \in Seq(ContentEntry), e \in ContentEntry : Append(x, e) \in Seq(ContentEntry)
    BY AppendProperties
  <2> HIDE DEF Stays
  <2>2. QED
    BY <1>2, <2>1 DEF Contents
<1>4. s \in G
  <2> HIDE DEF G
  <2>1. QED
    BY <1>1, <1>3, Growing DEF Contents
<1>5. QED
  BY <1>4

\* The entries with the one of the key replaced.
Replaced(s, e) == [i \in 1 .. Len(s) |-> IF s[i].key = e.key THEN e ELSE s[i]]

\* Entries are replaced one by one.
LEMMA ReplacedAppend ==
    ASSUME NEW s \in Contents, NEW e \in ContentEntry, NEW y \in ContentEntry
    PROVE  /\ Replaced(s, e) \in Contents
           /\ Replaced(Append(s, y), e) =
                Append(Replaced(s, e), IF y.key = e.key THEN e ELSE y)
<1> DEFINE t == Append(s, y)
           n == Len(s)
           z == IF y.key = e.key THEN e ELSE y
           r == Replaced(s, e)
<1>1. /\ n \in Nat /\ t \in Contents /\ Len(t) = n + 1 /\ t[n + 1] = y
      /\ \A m \in 1 .. n : t[m] = s[m] /\ s[m] \in ContentEntry
  BY LenProperties, ElementOfSeq, AppendProperties DEF Contents
<1>2. r \in [1 .. n -> ContentEntry]
  BY <1>1 DEF Replaced
<1>3. r \in Contents /\ Len(r) = n /\ r \in Seq(ContentEntry)
  BY <1>1, <1>2 DEF Contents
<1>4. /\ Append(r, z) \in Seq(ContentEntry) /\ Len(Append(r, z)) = n + 1
      /\ Append(r, z)[n + 1] = z /\ \A m \in 1 .. n : Append(r, z)[m] = r[m]
  BY <1>1, <1>3, AppendProperties
<1>5. \A m \in 1 .. n : r[m] = IF s[m].key = e.key THEN e ELSE s[m]
  BY <1>1 DEF Replaced
<1>6. Replaced(t, e) = [i \in 1 .. n + 1 |-> IF t[i].key = e.key THEN e ELSE t[i]]
  BY <1>1 DEF Replaced
<1> HIDE DEF r, t, n
<1>7. \A m \in 1 .. n + 1 : Replaced(t, e)[m] = Append(r, z)[m]
  <2>1. \A m \in 1 .. n + 1 : m \in 1 .. n \/ m = n + 1
    BY <1>1
  <2>2. QED
    BY <1>1, <1>4, <1>5, <1>6, <2>1
<1>8. Replaced(t, e) = Append(r, z)
  <2>1. Append(r, z) = [i \in 1 .. n + 1 |-> Append(r, z)[i]]
    BY <1>4, LenProperties
  <2> HIDE DEF z
  <2>2. QED
    BY <1>6, <1>7, <2>1
<1>9. QED
  BY <1>3, <1>8 DEF r, t

\* As one entry at most is replaced, at most the size of the new one is added.
LEMMA ReplacedBytes ==
    ASSUME NEW s \in Contents, Distinct(s), NEW e \in ContentEntry
    PROVE  Cache!Bytes(Replaced(s, e)) <= Cache!Bytes(s) + e.size
<1> DEFINE Fits(x) == /\ Without(x, e.key) => Replaced(x, e) = x
                      /\ Distinct(x) => Cache!Bytes(Replaced(x, e)) <= Cache!Bytes(x) + e.size
           G == {x \in Contents : Fits(x)}
<1>1. e.size \in Nat
  BY DEF ContentEntry
<1>2. <<>> \in G
  <2>1. <<>> \in Contents /\ Replaced(<<>>, e) = <<>>
    BY EmptySeq DEF Contents, Replaced
  <2>2. QED
    BY <1>1, <2>1, BytesFacts
<1>3. ASSUME NEW x \in Contents, NEW y \in ContentEntry, Fits(x) PROVE Fits(Append(x, y))
  <2> DEFINE r == Replaced(x, e)
             z == IF y.key = e.key THEN e ELSE y
  <2>1. r \in Contents /\ Replaced(Append(x, y), e) = Append(r, z)
    BY ReplacedAppend
  <2>2. /\ Without(x, e.key) => r = x
        /\ Distinct(x) => Cache!Bytes(r) <= Cache!Bytes(x) + e.size
    BY <1>3
  <2>3. z \in ContentEntry /\ y.size \in Nat /\ z.size \in Nat
    BY DEF ContentEntry
  <2> HIDE DEF r
  <2>4. /\ Cache!Bytes(r) \in Nat /\ Cache!Bytes(x) \in Nat
        /\ Cache!Bytes(Append(r, z)) = Cache!Bytes(r) + z.size
        /\ Cache!Bytes(Append(x, y)) = Cache!Bytes(x) + y.size
    BY <2>1, <2>3, BytesFacts
  <2>5. /\ Distinct(Append(x, y)) <=> Distinct(x) /\ Without(x, y.key)
        /\ Without(Append(x, y), e.key) <=> Without(x, e.key) /\ y.key # e.key
    BY DistinctAppend
  <2>6. CASE y.key = e.key
    BY <1>1, <2>1, <2>2, <2>3, <2>4, <2>5, <2>6
  <2>7. CASE y.key # e.key
    BY <1>1, <2>1, <2>2, <2>3, <2>4, <2>5, <2>7
  <2>8. QED
    BY <2>6, <2>7
<1>4. \A x \in Seq(ContentEntry), y \in ContentEntry : x \in G => Append(x, y) \in G
  <2>1. \A x \in Seq(ContentEntry), y \in ContentEntry : Append(x, y) \in Seq(ContentEntry)
    BY AppendProperties
  <2> HIDE DEF Fits
  <2>2. QED
    BY <1>3, <2>1 DEF Contents
<1>5. s \in G
  <2> HIDE DEF G
  <2>1. QED
    BY <1>2, <1>4, Growing DEF Contents
<1>6. QED
  BY <1>5

\* An entry that is put adds its size at most, and its key is there once.
LEMMA PutFacts ==
    ASSUME NEW s \in Contents, Distinct(s), NEW e \in ContentEntry
    PROVE  /\ Cache!Put(s, e) \in Contents /\ Distinct(Cache!Put(s, e))
           /\ Cache!Bytes(Cache!Put(s, e)) <= Cache!Bytes(s) + e.size
<1>1. Len(s) \in Nat /\ DOMAIN s = 1 .. Len(s) /\ \A i \in 1 .. Len(s) : s[i] \in ContentEntry
  BY LenProperties, ElementOfSeq DEF Contents
<1>2. CASE Without(s, e.key)
  <2>1. Cache!Put(s, e) = Append(s, e)
    BY <1>1, <1>2 DEF Cache!Put, Without
  <2>2. Append(s, e) \in Contents /\ Distinct(Append(s, e))
    BY <1>2, DistinctAppend, AppendProperties DEF Contents
  <2>3. Cache!Bytes(Append(s, e)) = Cache!Bytes(s) + e.size /\ Cache!Bytes(s) \in Nat /\ e.size \in Nat
    BY BytesFacts DEF ContentEntry
  <2>4. QED
    BY <2>1, <2>2, <2>3
<1>3. CASE ~Without(s, e.key)
  <2>1. Cache!Put(s, e) = Replaced(s, e)
    BY <1>1, <1>3 DEF Cache!Put, Without, Replaced
  <2>2. Replaced(s, e) \in Contents /\ Len(Replaced(s, e)) = Len(s)
    <3>1. Replaced(s, e) \in [1 .. Len(s) -> ContentEntry]
      BY <1>1 DEF Replaced
    <3>2. QED
      BY <1>1, <3>1 DEF Contents
  <2>3. \A i \in 1 .. Len(s) : Replaced(s, e)[i].key = s[i].key
    BY DEF Replaced
  <2>4. Distinct(Replaced(s, e))
    BY <2>2, <2>3 DEF Distinct
  <2>5. QED
    BY <2>1, <2>2, <2>4, ReplacedBytes
<1>4. QED
  BY <1>2, <1>3

\* The loop of setContent stops where the new bytes seem to fit, or at the end.
LEMMA OverflowedStops ==
    ASSUME content \in Contents, NEW n
    PROVE  LET j == Cache!Overflowed(n)
           IN  /\ j \in 0 .. Len(content)
               /\ \/ counter - Cache!Bytes(SubSeq(content, 1, j)) + n <= budget
                  \/ j = Len(content)
<1> DEFINE Fits(i) == counter - Cache!Bytes(SubSeq(content, 1, i)) + n <= budget
           Stops(j) == Fits(j) \/ j = Len(content)
           T == {j \in 0 .. Len(content) : Stops(j)}
<1>1. Len(content) \in Nat
  BY LenProperties DEF Contents
<1>2. PICK j \in T : \A i \in T : j <= i
  <2>1. Len(content) \in T /\ T \in SUBSET Nat
    BY <1>1
  <2> HIDE DEF T
  <2>2. QED
    BY <2>1, Least
<1> HIDE DEF Fits
<1>3. j \in 0 .. Len(content) /\ Stops(j) /\ \A i \in 0 .. j - 1 : ~Fits(i)
  BY <1>1, <1>2
<1>4. Cache!Overflowed(n) = CHOOSE x \in 0 .. Len(content) :
                               Stops(x) /\ \A i \in 0 .. x - 1 : ~Fits(i)
  BY DEF Cache!Overflowed, Fits
<1>5. Cache!Overflowed(n) \in 0 .. Len(content) /\ Stops(Cache!Overflowed(n))
  <2> DEFINE P(x) == Stops(x) /\ \A i \in 0 .. x - 1 : ~Fits(i)
  <2>1. j \in 0 .. Len(content) /\ P(j)
    BY <1>3
  <2> HIDE DEF Stops
  <2>2. QED
    BY <1>4, <2>1
<1>6. QED
  BY <1>5 DEF Fits

\* The counter never falls below the bytes that are there, and a key has one entry.
CacheInv ==
    /\ content \in Contents /\ Distinct(content)
    /\ counter \in Int /\ Cache!Bytes(content) <= counter
    /\ budget \in Nat /\ ttl \in [{"stat", "content"} -> Nat] /\ now \in Nat

\* An empty cache holds no bytes.
LEMMA CacheStart == Cache!Init => CacheInv
<1> SUFFICES ASSUME Cache!Init PROVE CacheInv
  OBVIOUS
<1>1. content \in Contents /\ Distinct(content)
  BY EmptySeq DEF Cache!Init, Contents, Distinct
<1>2. counter = 0 /\ Cache!Bytes(content) = 0
  BY BytesFacts DEF Cache!Init
<1>3. budget \in Nat /\ ttl \in [{"stat", "content"} -> Nat] /\ now \in Nat
  <2>1. budget \in Budget /\ ttl \in [{"stat", "content"} -> Ttl] /\ now = 0
    BY DEF Cache!Init
  <2>2. QED
    BY <2>1, CacheAssumption
<1>4. QED
  BY <1>1, <1>2, <1>3 DEF CacheInv

\* What an eviction of keys takes from the counter it takes from the content.
LEMMA EvictKeeps ==
    ASSUME CacheInv, NEW K, Cache!EvictContent(K)
    PROVE  /\ content' \in Contents /\ Distinct(content')
           /\ counter' \in Int /\ Cache!Bytes(content') <= counter'
           /\ Cache!Bytes(content') <= Cache!Bytes(content)
<1> DEFINE in == Cache!Within(content, K)
           out == Cache!Within(content, Cache!Key \ K)
<1>1. content \in Contents /\ Distinct(content) /\ counter \in Int /\ Cache!Bytes(content) <= counter
  BY DEF CacheInv
<1>2. /\ in \in Contents /\ out \in Contents /\ Distinct(out)
      /\ Cache!Bytes(in) + Cache!Bytes(out) = Cache!Bytes(content)
  BY <1>1, WithinFacts, DistinctWithin, Divided
<1>3. content' = out /\ counter' = counter - Cache!Bytes(in)
  BY DEF Cache!EvictContent, Cache!Without
<1> HIDE DEF in, out
<1>4. Cache!Bytes(in) \in Nat /\ Cache!Bytes(out) \in Nat /\ Cache!Bytes(content) \in Nat
  BY <1>1, <1>2, BytesFacts
<1>5. QED
  BY <1>1, <1>2, <1>3, <1>4

\* setContent: what it evicts it takes from the counter, and what it adds it adds.
LEMMA SetContentKeeps ==
    ASSUME CacheInv, NEW k \in Cache!Key, NEW n \in Size, Cache!SetContent(k, n)
    PROVE  /\ CacheInv'
           /\ Cache!Bytes(content') > Cache!Bytes(content) => Cache!Bytes(content') <= budget
<1> DEFINE d == Cache!Overflowed(n)
           old == SubSeq(content, 1, d)
           kept == SubSeq(content, d + 1, Len(content))
           left == counter - Cache!Bytes(old)
           e == [key |-> k, size |-> n, expires |-> now + ttl["content"]]
<1>1. /\ content \in Contents /\ Distinct(content) /\ counter \in Int
      /\ Cache!Bytes(content) <= counter
      /\ budget \in Nat /\ ttl \in [{"stat", "content"} -> Nat] /\ now \in Nat
      /\ Len(content) \in Nat
  BY LenProperties DEF CacheInv, Contents
<1>2. n \in Nat /\ e \in ContentEntry /\ e.size = n
  BY <1>1, CacheAssumption DEF ContentEntry
<1>3. d \in 0 .. Len(content) /\ (left + n <= budget \/ d = Len(content))
  BY <1>1, OverflowedStops
<1>4. /\ budget' = budget /\ ttl' = ttl /\ now' = now
      /\ n > budget => content' = kept /\ counter' = left
      /\ ~(n > budget) => content' = Cache!Put(kept, e) /\ counter' = left + n
  BY DEF Cache!SetContent
<1> HIDE DEF d, e
<1>5. /\ old \in Contents /\ kept \in Contents /\ content = old \o kept
      /\ Len(kept) = Len(content) - d /\ \A i \in 1 .. Len(kept) : kept[i] = content[i + d]
  <2> DEFINE n0 == Len(content)
  <2>1. n0 \in Nat /\ d \in Nat /\ d <= n0 /\ content \in Seq(ContentEntry)
    BY <1>1, <1>3 DEF Contents
  <2>2. /\ \A i \in 1 .. d : i \in 1 .. n0
        /\ \A i \in d + 1 .. n0 : i \in 1 .. n0
        /\ \A i \in 1 .. n0 - d : i + d \in d + 1 .. n0
    BY <2>1
  <2>3. /\ old \in Seq(ContentEntry) /\ Len(old) = d
        /\ \A i \in 1 .. d : old[i] = content[i]
    BY <2>1
  <2>4. /\ kept \in Seq(ContentEntry) /\ Len(kept) = n0 - d
        /\ \A i \in 1 .. n0 - d : kept[i] = content[d + i]
    BY <2>1
  <2> HIDE DEF old, kept
  <2>5. content = old \o kept
    <3> DEFINE both == old \o kept
    <3>1. /\ both \in Seq(ContentEntry) /\ Len(both) = n0
          /\ \A i \in 1 .. n0 : both[i] = IF i <= d THEN old[i] ELSE kept[i - d]
      BY <2>1, <2>3, <2>4, ConcatProperties
    <3>2. ASSUME NEW i \in 1 .. n0 PROVE content[i] = both[i]
      <4>1. CASE i <= d
        BY <2>1, <2>3, <3>1, <4>1
      <4>2. CASE ~(i <= d)
        <5>1. i - d \in 1 .. n0 - d /\ d + (i - d) = i
          BY <2>1, <4>2
        <5>2. kept[i - d] = content[i]
          BY <2>4, <5>1
        <5>3. QED
          BY <3>1, <4>2, <5>2
      <4>3. QED
        BY <4>1, <4>2
    <3> HIDE DEF both
    <3>3. QED
      BY <2>1, <3>1, <3>2, SeqEqual DEF both
  <2>6. QED
    BY <2>1, <2>3, <2>4, <2>5 DEF Contents
<1>6. Distinct(kept)
  <2>1. \A i \in 1 .. Len(kept) : i + d \in 1 .. Len(content)
    BY <1>1, <1>3, <1>5
  <2>2. SUFFICES ASSUME NEW i \in 1 .. Len(kept), NEW j \in 1 .. Len(kept),
                        kept[i].key = kept[j].key
                 PROVE  i = j
    BY DEF Distinct
  <2>3. i + d = j + d
    BY <1>1, <1>5, <2>1, <2>2 DEF Distinct
  <2>4. QED
    BY <1>1, <1>3, <1>5, <2>3
<1>7. d = Len(content) => kept = <<>>
  BY <1>1, <1>3, <1>5, EmptySeq DEF Contents
<1>8. Cache!Bytes(content) = Cache!Bytes(old) + Cache!Bytes(kept)
  <2> HIDE DEF old, kept
  <2>1. QED
    BY <1>5, Joined
<1> HIDE DEF kept, old
<1>9. Cache!Bytes(old) \in Nat /\ Cache!Bytes(kept) \in Nat
  BY <1>5, BytesFacts
<1>10. left \in Int /\ Cache!Bytes(kept) <= left /\ Cache!Bytes(kept) <= Cache!Bytes(content)
  BY <1>1, <1>8, <1>9
<1>11. CASE n > budget
  <2>1. content' = kept /\ counter' = left
    BY <1>4, <1>11
  <2>2. CacheInv'
    BY <1>1, <1>4, <1>5, <1>6, <1>10, <2>1 DEF CacheInv
  <2>3. ~(Cache!Bytes(content') > Cache!Bytes(content))
    BY <1>1, <1>8, <1>9, <1>10, <2>1
  <2>4. QED
    BY <2>2, <2>3
<1>12. CASE ~(n > budget)
  <2>1. content' = Cache!Put(kept, e) /\ counter' = left + n
    BY <1>4, <1>12
  <2>2. /\ content' \in Contents /\ Distinct(content')
        /\ Cache!Bytes(content') <= Cache!Bytes(kept) + n
    BY <1>2, <1>5, <1>6, <2>1, PutFacts
  <2>3. Cache!Bytes(content') \in Nat
    BY <2>2, BytesFacts
  <2>4. counter' \in Int /\ Cache!Bytes(content') <= counter'
    BY <1>2, <1>9, <1>10, <2>1, <2>2, <2>3
  <2>5. CacheInv'
    BY <1>1, <1>4, <2>2, <2>4 DEF CacheInv
  <2>6. CASE left + n <= budget
    BY <1>1, <1>2, <1>10, <2>1, <2>3, <2>4, <2>5, <2>6
  <2>7. CASE d = Len(content)
    <3>1. Cache!Bytes(kept) = 0
      BY <1>7, <2>7, BytesFacts
    <3>2. QED
      BY <1>1, <1>2, <1>12, <2>2, <2>3, <2>5, <3>1
  <2>8. QED
    BY <1>3, <2>6, <2>7
<1>13. QED
  BY <1>11, <1>12

\* No call takes the counter below the bytes, and one that adds bytes stays within
\* the budget.
LEMMA CacheKept ==
    ASSUME CacheInv, [Cache!Next]_caching
    PROVE  /\ CacheInv'
           /\ Cache!Bytes(content') > Cache!Bytes(content) => Cache!Bytes(content') <= budget
<1>1. /\ content \in Contents /\ Distinct(content) /\ counter \in Int
      /\ Cache!Bytes(content) \in Nat /\ Cache!Bytes(content) <= counter
      /\ budget \in Nat /\ ttl \in [{"stat", "content"} -> Nat] /\ now \in Nat
  BY BytesFacts DEF CacheInv
<1>2. ASSUME UNCHANGED <<content, counter>>,
             budget' \in Nat, ttl' \in [{"stat", "content"} -> Nat], now' \in Nat
      PROVE  /\ CacheInv'
             /\ ~(Cache!Bytes(content') > Cache!Bytes(content))
  BY <1>1, <1>2 DEF CacheInv
<1>3. ASSUME NEW K, Cache!EvictContent(K), UNCHANGED <<budget, ttl, now>>
      PROVE  /\ CacheInv'
             /\ ~(Cache!Bytes(content') > Cache!Bytes(content))
  <2>1. /\ content' \in Contents /\ Distinct(content')
        /\ counter' \in Int /\ Cache!Bytes(content') <= counter'
        /\ Cache!Bytes(content') <= Cache!Bytes(content)
    BY <1>3, EvictKeeps
  <2>2. Cache!Bytes(content') \in Nat
    BY <2>1, BytesFacts
  <2>3. QED
    BY <1>1, <1>3, <2>1, <2>2 DEF CacheInv
<1>4. CASE Cache!UpdateConfig
  BY <1>1, <1>2, <1>4, CacheAssumption DEF Cache!UpdateConfig
<1>5. ASSUME NEW k \in Cache!Key, NEW m, Cache!SetMeta(m, k) \/ Cache!ExpireMeta(m, k)
      PROVE  CacheInv' /\ ~(Cache!Bytes(content') > Cache!Bytes(content))
  BY <1>1, <1>2, <1>5 DEF Cache!SetMeta, Cache!ExpireMeta
<1>6. ASSUME NEW k \in Cache!Key, Cache!SetNotFound(k)
      PROVE  CacheInv' /\ ~(Cache!Bytes(content') > Cache!Bytes(content))
  BY <1>3, <1>6 DEF Cache!SetNotFound
<1>7. ASSUME NEW k \in Cache!Key, Cache!ExpireContent(k)
      PROVE  CacheInv' /\ ~(Cache!Bytes(content') > Cache!Bytes(content))
  <2> DEFINE in == Cache!Within(content, {k})
             out == Cache!Within(content, Cache!Key \ {k})
  <2>1. content' = out /\ counter' = counter /\ UNCHANGED <<budget, ttl, now>>
    BY <1>7 DEF Cache!ExpireContent, Cache!Without
  <2>2. /\ in \in Contents /\ out \in Contents /\ Distinct(out)
        /\ Cache!Bytes(in) + Cache!Bytes(out) = Cache!Bytes(content)
    BY <1>1, WithinFacts, DistinctWithin, Divided
  <2> HIDE DEF in, out
  <2>3. Cache!Bytes(in) \in Nat /\ Cache!Bytes(out) \in Nat
    BY <2>2, BytesFacts
  <2>4. Cache!Bytes(out) <= Cache!Bytes(content) /\ Cache!Bytes(out) <= counter
    BY <1>1, <2>2, <2>3
  <2>5. QED
    BY <1>1, <2>1, <2>2, <2>3, <2>4 DEF CacheInv
<1>8. ASSUME NEW c \in Conn, NEW p \in Path, Cache!InvalidatePath(c, p)
      PROVE  CacheInv' /\ ~(Cache!Bytes(content') > Cache!Bytes(content))
  BY <1>3, <1>8 DEF Cache!InvalidatePath
<1>9. ASSUME NEW c \in Conn, Cache!InvalidateConnection(c)
      PROVE  CacheInv' /\ ~(Cache!Bytes(content') > Cache!Bytes(content))
  BY <1>3, <1>9 DEF Cache!InvalidateConnection
<1>10. CASE Cache!ClearAll
  <2>1. content' = <<>> /\ counter' = 0 /\ UNCHANGED <<budget, ttl, now>>
    BY <1>10 DEF Cache!ClearAll
  <2>2. <<>> \in Contents /\ Distinct(<<>>) /\ Cache!Bytes(<<>>) = 0
    BY EmptySeq, BytesFacts DEF Contents, Distinct
  <2>3. QED
    BY <1>1, <2>1, <2>2 DEF CacheInv
<1>11. CASE Cache!Tick
  BY <1>1, <1>2, <1>11 DEF Cache!Tick
<1>12. CASE UNCHANGED caching
  BY <1>1, <1>2, <1>12 DEF caching
<1>13. QED
  BY <1>4, <1>5, <1>6, <1>7, <1>8, <1>9, <1>10, <1>11, <1>12, SetContentKeeps
     DEF Cache!Next

\* The invariant of the cache holds in every behaviour.
LEMMA CacheInvariance == Spec => [](part = "cache" => CacheInv)
<1> DEFINE Inv == part = "cache" => CacheInv
<1>1. Init => Inv
  BY CacheStart DEF Init
<1>2. Inv /\ [Next]_vars => Inv'
  BY CacheKept, PartSteps
<1> HIDE DEF Inv
<1>3. Spec => []Inv
  BY <1>1, <1>2, PTL DEF Spec
<1>4. QED
  BY <1>3 DEF Inv

\* A call that adds bytes leaves the cache within the limit of the moment: what
\* setContent evicts is counted no higher than it is, so what seems to fit does.
\* (cacheService.ts)
THEOREM CacheWithinBudgetCorrect == Spec => CacheWithinBudget
<1> DEFINE A == Cache!Bytes(content') > Cache!Bytes(content) => Cache!Bytes(content') <= budget
<1>1. (part = "cache" => CacheInv) /\ [Next]_vars => [A]_caching
  <2> SUFFICES ASSUME part = "cache" => CacheInv, [Next]_vars, ~UNCHANGED caching
               PROVE  A
    OBVIOUS
  <2>1. part = "cache" /\ [Cache!Next]_caching
    BY PartSteps
  <2>2. QED
    BY <2>1, CacheKept
<1>2. QED
  BY <1>1, CacheInvariance, PTL DEF Spec, CacheWithinBudget, Cache!WithinBudget, Cache!vars,
     caching

-----------------------------------------------------------------------------
(* WatchRegistry *)
Disposable == [on : Entry \cup {None},
               role : {"unused", "owner", "counted", "released"}]

Owns(h, e) == handle[h].role = "owner" /\ handle[h].on = e

\* The count an entry starts with is never given back but by its owner, so
\* what runs has its owner, however many share it.
OwnerInv ==
    /\ handle \in [Handle -> Disposable]
    /\ registered \in Entry \cup {None}
    /\ polling \subseteq Entry
    /\ \A e \in polling : \E h \in Handle : Owns(h, e)

\* A disposable that is no owner changes hands; the owners stay.
LEMMA OwnersStay ==
    ASSUME OwnerInv, NEW i \in Handle, handle[i].role # "owner",
           NEW d \in Disposable, handle' = [handle EXCEPT ![i] = d],
           registered' \in Entry \cup {None},
           NEW S \in SUBSET Entry,
           \A e \in S : ~(d.role = "owner" /\ d.on = e) => e \in polling,
           polling' = S
    PROVE  OwnerInv'
<1>1. handle' \in [Handle -> Disposable]
  BY DEF OwnerInv
<1>2. ASSUME NEW e \in polling' PROVE \E h \in Handle : Owns(h, e)'
  <2>1. CASE d.role = "owner" /\ d.on = e
    <3>1. Owns(i, e)'
      BY <2>1 DEF Owns, OwnerInv
    <3>2. QED
      BY <3>1
  <2>2. CASE e \in polling
    <3>1. PICK h \in Handle : Owns(h, e)
      BY <2>2 DEF OwnerInv
    <3>2. h # i /\ handle'[h] = handle[h]
      BY <3>1 DEF Owns, OwnerInv
    <3>3. QED
      BY <3>1, <3>2 DEF Owns
  <2>3. QED
    BY <1>2, <2>1, <2>2
<1>3. QED
  BY <1>1, <1>2 DEF OwnerInv

\* An entry that is stopped needs no owner.
LEMMA StopKeeps ==
    ASSUME OwnerInv, NEW e, polling' = polling \ {e},
           registered' \in Entry \cup {None},
           handle' \in [Handle -> Disposable],
           \A h \in Handle : handle[h].on # e => handle'[h] = handle[h]
    PROVE  OwnerInv'
<1>1. ASSUME NEW f \in polling' PROVE \E h \in Handle : Owns(h, f)'
  <2>1. PICK h \in Handle : Owns(h, f)
    BY <1>1 DEF OwnerInv
  <2>2. handle'[h] = handle[h]
    BY <1>1, <2>1 DEF Owns
  <2>3. QED
    BY <2>1, <2>2 DEF Owns
<1>2. QED
  BY <1>1 DEF OwnerInv

\* No watch and no disposal, in whatever order, breaks it.
LEMMA OwnerKept == OwnerInv /\ [Watchers!Next]_watching => OwnerInv'
<1> SUFFICES ASSUME OwnerInv, [Watchers!Next]_watching PROVE OwnerInv'
  OBVIOUS
<1>1. ASSUME NEW h \in Handle, Watchers!Share(h) PROVE OwnerInv'
  <2> DEFINE d == [on |-> registered, role |-> "counted"]
  <2>1. d \in Disposable
    BY DEF OwnerInv, Disposable
  <2>2. /\ handle[h].role # "owner" /\ handle' = [handle EXCEPT ![h] = d]
        /\ polling' = polling /\ registered' = registered
    BY <1>1 DEF Watchers!Share
  <2>3. QED
    BY <2>1, <2>2, OwnersStay DEF OwnerInv
<1>2. ASSUME NEW h \in Handle, NEW e \in Entry, Watchers!Start(h, e) PROVE OwnerInv'
  <2> DEFINE d == [on |-> e, role |-> "owner"]
  <2>1. d \in Disposable
    BY DEF Disposable
  <2>2. /\ handle[h].role # "owner" /\ handle' = [handle EXCEPT ![h] = d]
        /\ polling' = polling \cup {e} /\ registered' = e
    BY <1>2 DEF Watchers!Start
  <2>3. /\ polling \cup {e} \in SUBSET Entry
        /\ \A f \in polling \cup {e} :
             ~(d.role = "owner" /\ d.on = f) => f \in polling
    BY DEF OwnerInv
  <2> HIDE DEF d
  <2>4. QED
    BY <2>1, <2>2, <2>3, OwnersStay
<1>3. ASSUME NEW h \in Handle, Watchers!ReleaseOwner(h) PROVE OwnerInv'
  <2>1. handle' = [handle EXCEPT ![h].role = "released"]
    BY <1>3 DEF Watchers!ReleaseOwner
  <2>2. handle' \in [Handle -> Disposable]
    BY <2>1 DEF OwnerInv, Disposable
  <2>3. /\ polling' = polling \ {handle[h].on} /\ registered' = None
        /\ \A i \in Handle : i # h => handle'[i] = handle[i]
    BY <1>3, <2>1 DEF Watchers!ReleaseOwner, Watchers!DisposeEntry, OwnerInv
  <2>4. QED
    BY <2>2, <2>3, StopKeeps
<1>4. ASSUME NEW h \in Handle, Watchers!ReleaseCounted(h) PROVE OwnerInv'
  <2> DEFINE d == [handle[h] EXCEPT !.role = "released"]
  <2>1. d \in Disposable /\ handle' = [handle EXCEPT ![h] = d]
    BY <1>4 DEF Watchers!ReleaseCounted, OwnerInv, Disposable
  <2>2. polling' \subseteq polling /\ registered' \in {registered, None}
    BY <1>4 DEF Watchers!ReleaseCounted, Watchers!DisposeEntry
  <2>3. handle[h].role # "owner"
    BY <1>4 DEF Watchers!ReleaseCounted
  <2>4. QED
    BY <2>1, <2>2, <2>3, OwnersStay DEF OwnerInv
<1>5. CASE Watchers!DisposeConnectionWatchers
  BY <1>5, StopKeeps DEF Watchers!DisposeConnectionWatchers, Watchers!DisposeEntry, OwnerInv
<1>6. CASE UNCHANGED watching
  BY <1>6 DEF watching, OwnerInv, Owns
<1>7. QED
  BY <1>1, <1>2, <1>3, <1>4, <1>5, <1>6 DEF Watchers!Next

\* A registry with nothing registered (RemoteFileSystemProvider.watch)
\* satisfies the invariant.
LEMMA OwnerStart ==
    ASSUME Watchers!Init
    PROVE  OwnerInv
  BY DEF Watchers!Init, OwnerInv, Disposable

\* Who polls owns the watch of its URI, so a watch that somebody holds is
\* polled for him.
LEMMA OwnerPolls ==
    ASSUME OwnerInv
    PROVE  Watchers!NobodyPolls
  BY DEF OwnerInv, Owns, Watchers!NobodyPolls, Watchers!Held

\* An interval is cleared with the last of its disposables, in whatever order
\* they are disposed. (fileSystemProvider.ts, watch)
THEOREM NobodyPollsCorrect == Spec => []NobodyPolls
<1> DEFINE Inv == part = "watch" => OwnerInv
<1>1. Init => Inv
  BY OwnerStart DEF Init
<1>2. Inv /\ [Next]_vars => Inv'
  BY OwnerKept, PartSteps
<1>3. Inv => NobodyPolls
  BY OwnerPolls DEF NobodyPolls
<1> HIDE DEF Inv
<1>4. QED
  BY <1>1, <1>2, <1>3, PTL DEF Spec

-----------------------------------------------------------------------------
(* RemoteFiles *)

\* From the check of a write to its opening of the file, and that of a rename.
Checked == {"mode", "grant", "ensure", "home", "open", "move"}

Requests ==
    {"idle", "check", "mode", "grant", "ensure", "home", "open", "chmod", "send",
     "restore", "delete", "rmdir", "emptied", "free", "move", "mkdir", "make",
     "target", "cp", "copied", "read", "align", "done"}

\* At its request p the operation of c must not overwrite.
MustNot(c, p) == ~op[c].over /\ (op[c].kind \in {"create", "copy"} \/ p = "move")

\* There is no file where c writes, or it was told so.
Clear(c) == file[Remote!Target(c)] = Remote!NoFile \/ c \in misled

\* Some requests are made over one protocol only.
RemotePcInv ==
    /\ pc \in [Caller -> Requests]
    /\ Remote!Ssh => \A c \in Caller : pc[c] \notin {"ensure", "home"}
    /\ ~Remote!Ssh => \A c \in Caller : pc[c] \notin {"target", "cp", "chmod"}

\* Only the holder of the queue is away from the root, and its next request
\* takes it back there, unless the server refused the last of these.
RootInv == alive /\ ~atRoot => refused \/ \E c \in Caller : turn = c /\ pc[c] = "home"

\* What was found to be free stays so as long as the queue is held.
FreeInv ==
    alive /\ ~Remote!Ssh =>
        \A c \in Caller :
            pc[c] \in Checked /\ MustNot(c, pc[c]) => turn = c /\ Clear(c)

\* No file was overwritten that was not to be.
ClobberInv == ~Remote!Ssh => ~clobbered

\* Every caller has an operation, if only the one that does nothing.
OpInv == op = [c \in Caller |-> op[c]]

RemoteInv == RemotePcInv /\ OpInv /\ RootInv /\ FreeInv /\ ClobberInv

-----------------------------------------------------------------------------
\* What one request of c does to its place in the operation, to the working
\* directory, to the file that was checked and to the ghost.
Effect(c) ==
    /\ alive /\ (Remote!Ssh \/ turn \in {c, Free})
    /\ UNCHANGED <<protocol, alive, op>>
    /\ pc' \in [Caller -> Requests] /\ \A e \in Caller \ {c} : pc'[e] = pc[e]
    /\ Remote!Ssh /\ pc[c] \notin {"ensure", "home"} => pc'[c] \notin {"ensure", "home"}
    /\ ~Remote!Ssh /\ pc[c] \notin {"target", "cp", "chmod"} =>
          pc'[c] \notin {"target", "cp", "chmod"}
    /\ \/ (atRoot => atRoot') /\ (refused => refused') /\ pc[c] # "home"
       \/ atRoot' \/ refused'
       \/ pc[c] = "ensure" /\ pc'[c] = "home" /\ (~Remote!Ssh => turn' = c)
    /\ (/\ ~Remote!Ssh /\ pc'[c] \in Checked /\ MustNot(c, pc'[c])
        /\ pc[c] \in Checked /\ MustNot(c, pc[c]) => Clear(c))
            => turn' = c /\ Clear(c)'
    /\ clobbered' => \/ clobbered
                     \/ pc[c] \in {"open", "move"} /\ MustNot(c, pc[c]) /\ ~Clear(c)
                     \/ pc[c] = "cp"

\* Where c goes next, and that nobody else moves.
Goes(c, p) ==
    pc' \in [Caller -> Requests] /\ pc'[c] = p /\ \A e \in Caller \ {c} : pc'[e] = pc[e]

Asks(c, p) ==
    /\ alive /\ (Remote!Ssh \/ turn \in {c, Free}) /\ pc[c] = p
    /\ UNCHANGED <<protocol, alive, op>>

\* A caller that is asked of is at the stage of the request, over a live
\* connection.
LEMMA AtFacts ==
    ASSUME NEW c \in Caller, NEW p, Remote!At(c, p)
    PROVE  Asks(c, p)
  BY DEF Remote!At, Asks

\* The next request of an operation changes where that caller is, and nobody
\* else.
LEMMA GoFacts ==
    ASSUME RemotePcInv, NEW c \in Caller, NEW p \in Requests, Remote!Go(c, p)
    PROVE  Goes(c, p) /\ (~Remote!Ssh => turn' = c)
  BY DEF RemotePcInv, Remote!Go, Goes

\* An operation that returns gives the queue of the FTP adapter free
\* (_executeQueuedOperation).
LEMMA ReturnFacts ==
    ASSUME RemotePcInv, NEW c \in Caller, NEW r, NEW then \in Requests,
           Remote!Return(c, r, then)
    PROVE  /\ Goes(c, then) \/ Goes(c, "done")
           /\ r # "ok" => Goes(c, "done")
  <1>1. CASE r = "ok"
    <2>1. pc' = [pc EXCEPT ![c] = then]
          BY <1>1 DEF Remote!Return
    <2>. QED BY <1>1, <2>1 DEF RemotePcInv, Goes
  <1>2. CASE r # "ok"
    <2>1. pc' = [pc EXCEPT ![c] = "done"]
          BY <1>2 DEF Remote!Return
    <2>2. "done" \in Requests
          BY DEF Requests
    <2>. QED BY <2>1, <2>2 DEF RemotePcInv, Goes
  <1>. QED BY <1>1, <1>2

\* A request that neither leads to the opening of a file nor changes directory.
LEMMA Quiet ==
    ASSUME RemotePcInv, NEW c \in Caller, NEW p, NEW q \in Requests \ Checked, Asks(c, p),
           Goes(c, q), q \in {"target", "cp"} => p \in {"target", "cp"}, q # "chmod",
           p # "home", atRoot => atRoot', refused => refused',
           clobbered' => clobbered \/ p = "cp"
    PROVE  Effect(c)
  <1>1. q \notin {"ensure", "home"}
        BY DEF Checked
  <1>. QED BY <1>1 DEF Asks, Goes, Effect

\* The end of an operation, or the next one of its call.
LEMMA Ends ==
    ASSUME RemotePcInv, NEW c \in Caller, NEW p, Asks(c, p), p # "home",
           NEW then \in {"cp", "align", "done"}, then = "cp" => p = "target",
           NEW r, Remote!Return(c, r, then),
           atRoot => atRoot', refused => refused', clobbered' => clobbered \/ p = "cp"
    PROVE  Effect(c)
  <1>1. then \in Requests \ Checked /\ "done" \in Requests \ Checked
        BY DEF Requests, Checked
  <1>2. Goes(c, then) \/ Goes(c, "done")
        BY <1>1, ReturnFacts
  <1>. QED BY <1>1, <1>2, Quiet

\* What may not be overwritten was looked at. (ftpAdapter.ts:583-592)
LEMMA CheckEffect ==
    ASSUME RemotePcInv, NEW c \in Caller, Remote!Check(c)
    PROVE  Effect(c)
  <1>1. Asks(c, "check")
        BY AtFacts DEF Remote!Check
  <1>2. PICK there \in BOOLEAN :
            /\ Remote!Probe(c, Remote!Target(c), there)
            /\ \/ Remote!MayWrite(c, there) /\ Remote!Go(c, "mode")
               \/ Remote!Return(c, "failed", "done")
        BY DEF Remote!Check
  <1>3. /\ file' = file /\ atRoot' = atRoot /\ refused' = refused /\ clobbered' = clobbered
        /\ ~there => Clear(c)'
        BY <1>1, <1>2 DEF Remote!Probe, Remote!tree, Asks, Clear, Remote!Target,
                          Remote!Exists, Remote!NoFile
  <1>4. CASE Remote!MayWrite(c, there) /\ Remote!Go(c, "mode")
    <2>1. "mode" \in Requests /\ "mode" \notin {"ensure", "home", "target", "cp", "chmod"}
          BY DEF Requests
    <2>2. Goes(c, "mode") /\ (~Remote!Ssh => turn' = c)
          BY <1>4, <2>1, GoFacts
    <2>3. MustNot(c, "mode") => ~there
          BY <1>4 DEF MustNot, Remote!MayWrite
    <2>. QED BY <1>1, <1>3, <2>2, <2>3 DEF Asks, Goes, Effect
  <1>5. CASE Remote!Return(c, "failed", "done")
        BY <1>1, <1>3, <1>5, Ends
  <1>. QED BY <1>2, <1>4, <1>5

\* _getUnixModeRaw and getUnixMode: the mode is read before the write.
LEMMA GetModeEffect ==
    ASSUME RemotePcInv, NEW c \in Caller, Remote!GetMode(c)
    PROVE  Effect(c)
  <1>1. Asks(c, "mode")
        BY AtFacts DEF Remote!GetMode
  <1>2. /\ file' = file /\ atRoot' = atRoot /\ refused' = refused /\ clobbered' = clobbered
        /\ misled' = misled
        BY DEF Remote!GetMode, Remote!KeepTree, Remote!tree, Remote!ghost
  <1>3. PICK q \in {"grant", "open", "ensure"} : Remote!Go(c, q) /\ (Remote!Ssh => q # "ensure")
        BY DEF Remote!GetMode
  <1>4. q \in Requests
        BY DEF Requests
  <1>5. Goes(c, q) /\ (~Remote!Ssh => turn' = c)
        BY <1>3, <1>4, GoFacts
  <1>6. "mode" \in Checked /\ Clear(c)' = Clear(c) /\ (MustNot(c, q) <=> MustNot(c, "mode"))
        BY <1>1, <1>2, <1>3 DEF Checked, Clear, MustNot, Asks, Remote!Target, Remote!NoFile
  <1>. QED BY <1>1, <1>2, <1>3, <1>5, <1>6 DEF Asks, Goes, Effect

\* The file is made writable for the write (chmod of writeFile).
LEMMA GrantEffect ==
    ASSUME RemotePcInv, NEW c \in Caller, Remote!Grant(c)
    PROVE  Effect(c)
  <1>1. Asks(c, "grant")
        BY AtFacts DEF Remote!Grant
  <1>2. /\ atRoot' = atRoot /\ refused' = refused /\ clobbered' = clobbered
        /\ misled' = misled
        BY DEF Remote!Grant, Remote!KeepTree, Remote!tree, Remote!ghost
  <1>3. CASE Remote!Exists(Remote!Target(c)) /\ Remote!Go(c, IF Remote!Ssh THEN "open" ELSE "ensure")
    <2>1. PICK q \in {"open", "ensure"} : Remote!Go(c, q) /\ (Remote!Ssh => q # "ensure")
          BY <1>3
    <2>2. q \in Requests
          BY DEF Requests
    <2>3. Goes(c, q) /\ (~Remote!Ssh => turn' = c)
          BY <2>1, <2>2, GoFacts
    <2>4. "grant" \in Checked /\ (MustNot(c, q) <=> MustNot(c, "grant"))
          BY <2>1 DEF Checked, MustNot
    <2>5. Clear(c) => Clear(c)'
          BY <1>1, <1>2, <1>3 DEF Clear, Remote!Exists, Asks
    <2>. QED BY <1>1, <1>2, <2>1, <2>3, <2>4, <2>5 DEF Asks, Goes, Effect
  <1>4. CASE Remote!Return(c, "failed", "done")
        BY <1>1, <1>2, <1>4, Ends
  <1>. QED BY <1>3, <1>4 DEF Remote!Grant

\* ensureDir enters the directory of the file, so the FTP session is away from
\* the root.
LEMMA EnsureDirEffect ==
    ASSUME RemotePcInv, NEW c \in Caller, Remote!EnsureDir(c)
    PROVE  Effect(c)
  <1>1. Asks(c, "ensure")
        BY AtFacts DEF Remote!EnsureDir
  <1>2. /\ file' = file /\ misled' = misled /\ clobbered' = clobbered
        /\ Remote!Go(c, "home")
        BY DEF Remote!EnsureDir
  <1>3. "home" \in Requests /\ "ensure" \in Checked
        BY DEF Requests, Checked
  <1>4. Goes(c, "home") /\ (~Remote!Ssh => turn' = c)
        BY <1>2, <1>3, GoFacts
  <1>5. Clear(c)' = Clear(c) /\ (MustNot(c, "home") <=> MustNot(c, "ensure"))
        BY <1>1, <1>2 DEF Clear, MustNot, Asks, Remote!Target, Remote!NoFile
  <1>. QED BY <1>1, <1>2, <1>3, <1>4, <1>5 DEF Asks, Goes, Effect

\* cd('/') follows whether or not ensureDir succeeded, and succeeds itself or
\* is noted as refused. (ftpAdapter.ts:622-637)
LEMMA HomeEffect ==
    ASSUME RemotePcInv, NEW c \in Caller, Remote!Home(c)
    PROVE  Effect(c)
  <1>1. Asks(c, "home")
        BY AtFacts DEF Remote!Home
  <1>2. /\ file' = file /\ misled' = misled /\ clobbered' = clobbered
        /\ atRoot' \/ refused'
        BY DEF Remote!Home, Remote!AfterEnsure
  <1>3. "home" \in Checked /\ "open" \in Requests /\ "done" \in Requests \ Checked
        BY DEF Requests, Checked
  <1>4. CASE Remote!Go(c, "open")
    <2>1. Goes(c, "open") /\ (~Remote!Ssh => turn' = c)
          BY <1>3, <1>4, GoFacts
    <2>2. Clear(c)' = Clear(c) /\ (MustNot(c, "open") <=> MustNot(c, "home"))
          BY <1>1, <1>2 DEF Clear, MustNot, Asks, Remote!Target, Remote!NoFile
    <2>. QED BY <1>1, <1>2, <1>3, <2>1, <2>2 DEF Asks, Goes, Effect
  <1>5. CASE Remote!Return(c, "failed", "done")
    <2>1. Goes(c, "done")
          BY <1>3, <1>5, ReturnFacts
    <2>. QED BY <1>1, <1>2, <1>3, <2>1 DEF Asks, Goes, Effect
  <1>. QED BY <1>4, <1>5 DEF Remote!Home, Remote!AfterEnsure

\* The file is opened for writing; whether it may be overwritten was asked
\* before.
LEMMA OpenEffect ==
    ASSUME RemotePcInv, NEW c \in Caller, Remote!Open(c)
    PROVE  Effect(c)
  <1>1. Asks(c, "open")
        BY AtFacts DEF Remote!Open
  <1>2. atRoot' = atRoot /\ refused' = refused
        BY DEF Remote!Open
  <1>3. clobbered' => clobbered \/ (MustNot(c, "open") /\ ~Clear(c))
        BY DEF Remote!Open, Remote!MayWrite, MustNot, Clear, Remote!Exists
  <1>4. PICK q \in {"chmod", "send", "restore"} :
            Remote!Go(c, q) /\ (~Remote!Ssh => q # "chmod")
        BY DEF Remote!Open
  <1>5. q \in Requests \ Checked /\ q \notin {"ensure", "home", "target", "cp"}
        BY DEF Requests, Checked
  <1>6. Goes(c, q)
        BY <1>4, <1>5, GoFacts
  <1>. QED BY <1>1, <1>2, <1>3, <1>4, <1>5, <1>6 DEF Asks, Goes, Effect

\* The mode that createWriteStream gives the open file. (sshAdapter.ts:409)
LEMMA ChmodEffect ==
    ASSUME RemotePcInv, NEW c \in Caller, Remote!Chmod(c)
    PROVE  Effect(c)
  <1>1. Asks(c, "chmod")
        BY AtFacts DEF Remote!Chmod
  <1>2. /\ atRoot' = atRoot /\ refused' = refused /\ clobbered' = clobbered
        /\ Remote!Go(c, "send")
        BY DEF Remote!Chmod
  <1>3. "send" \in Requests \ Checked
        BY DEF Requests, Checked
  <1>. QED BY <1>1, <1>2, <1>3, GoFacts, Quiet

\* The bytes arrive, or some of them.
LEMMA SendEffect ==
    ASSUME RemotePcInv, NEW c \in Caller, Remote!Send(c)
    PROVE  Effect(c)
  <1>1. Asks(c, "send")
        BY AtFacts DEF Remote!Send
  <1>2. atRoot' = atRoot /\ refused' = refused /\ clobbered' = clobbered
        BY DEF Remote!Send, Remote!ghost
  <1>3. CASE Remote!Go(c, "restore")
    <2>1. "restore" \in Requests \ Checked
          BY DEF Requests, Checked
    <2>. QED BY <1>1, <1>2, <1>3, <2>1, GoFacts, Quiet
  <1>4. CASE \E r : Remote!Return(c, r, "done")
        BY <1>1, <1>2, <1>4, Ends
  <1>. QED BY <1>3, <1>4 DEF Remote!Send

\* The mode the file had is restored (the finally of writeFile).
LEMMA RestoreEffect ==
    ASSUME RemotePcInv, NEW c \in Caller, Remote!Restore(c)
    PROVE  Effect(c)
  <1>1. Asks(c, "restore")
        BY AtFacts DEF Remote!Restore
  <1>2. atRoot' = atRoot /\ refused' = refused /\ clobbered' = clobbered
        BY DEF Remote!Restore, Remote!Written
  <1>3. PICK then \in {"align", "done"} : \E r : Remote!Return(c, r, then)
        BY DEF Remote!Restore, Remote!Written
  <1>. QED BY <1>1, <1>2, <1>3, Ends

\* delete of a file.
LEMMA DeleteEffect ==
    ASSUME RemotePcInv, NEW c \in Caller, Remote!Delete(c)
    PROVE  Effect(c)
  <1>1. Asks(c, "delete")
        BY AtFacts DEF Remote!Delete
  <1>2. atRoot' = atRoot /\ refused' = refused /\ clobbered' = clobbered
        BY DEF Remote!Delete, Remote!Remove
  <1>3. PICK then \in {"done"} : \E r : Remote!Return(c, r, then)
        BY DEF Remote!Delete, Remote!Remove
  <1>. QED BY <1>1, <1>2, <1>3, Ends

\* delete of a directory, over FTP one entry after the other.
LEMMA RmdirEffect ==
    ASSUME RemotePcInv, NEW c \in Caller, Remote!Rmdir(c)
    PROVE  Effect(c)
  <1>1. Asks(c, "rmdir")
        BY AtFacts DEF Remote!Rmdir
  <1>2. refused' = refused /\ clobbered' = clobbered
        BY DEF Remote!Rmdir, Remote!ghost
  <1>2a. atRoot => atRoot'
    <2>1. atRoot' = atRoot \/ atRoot' = (atRoot \/ ~Remote!Ssh)
          BY DEF Remote!Rmdir, Remote!tree
    <2>. QED BY <2>1
  <1>3. CASE Remote!Go(c, "emptied")
    <2>1. "emptied" \in Requests \ Checked
          BY DEF Requests, Checked
    <2>. QED BY <1>1, <1>2, <1>3, <1>2a, <2>1, GoFacts, Quiet
  <1>4. CASE \E r : Remote!Return(c, r, "done")
        BY <1>1, <1>2, <1>4, <1>2a, Ends
  <1>. QED BY <1>3, <1>4 DEF Remote!Rmdir

\* _deleteDirectoryRaw has emptied a directory.
LEMMA EmptiedEffect ==
    ASSUME RemotePcInv, NEW c \in Caller, Remote!Emptied(c)
    PROVE  Effect(c)
  <1>1. Asks(c, "emptied")
        BY AtFacts DEF Remote!Emptied
  <1>2. atRoot' = atRoot /\ refused' = refused /\ clobbered' = clobbered
        BY DEF Remote!Emptied, Remote!ghost
  <1>3. PICK then \in {"done"} : \E r : Remote!Return(c, r, then)
        BY DEF Remote!Emptied
  <1>. QED BY <1>1, <1>2, <1>3, Ends

\* rename over FTP first looks whether the target is free.
LEMMA TargetFreeEffect ==
    ASSUME RemotePcInv, NEW c \in Caller, Remote!TargetFree(c)
    PROVE  Effect(c)
  <1>1. Asks(c, "free")
        BY AtFacts DEF Remote!TargetFree
  <1>2. PICK there \in BOOLEAN :
            /\ Remote!Probe(c, Remote!Target(c), there)
            /\ \/ ~there /\ Remote!Go(c, "move")
               \/ Remote!Return(c, "failed", "done")
        BY DEF Remote!TargetFree, Remote!Target
  <1>3. /\ file' = file /\ atRoot' = atRoot /\ refused' = refused /\ clobbered' = clobbered
        /\ ~there => Clear(c)'
        BY <1>1, <1>2 DEF Remote!Probe, Remote!tree, Asks, Clear, Remote!Target,
                          Remote!Exists, Remote!NoFile
  <1>4. CASE ~there /\ Remote!Go(c, "move")
    <2>1. "move" \in Requests /\ "move" \notin {"ensure", "home", "target", "cp", "chmod"}
          BY DEF Requests
    <2>2. Goes(c, "move") /\ (~Remote!Ssh => turn' = c)
          BY <1>4, <2>1, GoFacts
    <2>. QED BY <1>1, <1>3, <1>4, <2>2 DEF Asks, Goes, Effect
  <1>5. CASE Remote!Return(c, "failed", "done")
        BY <1>1, <1>3, <1>5, Ends
  <1>. QED BY <1>2, <1>4, <1>5

\* The rename itself.
LEMMA MoveEffect ==
    ASSUME RemotePcInv, NEW c \in Caller, Remote!Move(c)
    PROVE  Effect(c)
  <1>1. Asks(c, "move")
        BY AtFacts DEF Remote!Move
  <1>2. /\ atRoot' = atRoot /\ refused' = refused
        /\ clobbered' => clobbered \/ (MustNot(c, "move") /\ ~Clear(c))
    <2>1. \/ clobbered' = clobbered
          \/ clobbered' = (clobbered \/ (MustNot(c, "move") /\ ~Clear(c)))
          BY DEF Remote!Move, MustNot, Clear, Remote!Target, Remote!Exists
    <2>2. clobbered' => clobbered \/ (MustNot(c, "move") /\ ~Clear(c))
          BY <2>1
    <2>3. atRoot' = atRoot /\ refused' = refused
          BY DEF Remote!Move
    <2>. QED BY <2>2, <2>3
  <1>3. PICK r : Remote!Return(c, r, "done")
        BY DEF Remote!Move
  <1>4. "done" \in Requests \ Checked
        BY DEF Requests, Checked
  <1>5. Goes(c, "done")
        BY <1>3, <1>4, ReturnFacts
  <1>. QED BY <1>1, <1>2, <1>4, <1>5 DEF Asks, Goes, Effect

\* mkdir.
LEMMA MkdirEffect ==
    ASSUME RemotePcInv, NEW c \in Caller, Remote!Mkdir(c)
    PROVE  Effect(c)
  <1>1. Asks(c, "mkdir")
        BY AtFacts DEF Remote!Mkdir
  <1>2. atRoot' = atRoot /\ refused' = refused /\ clobbered' = clobbered
        BY DEF Remote!Mkdir, Remote!ghost
  <1>3. CASE Remote!Go(c, "make")
    <2>1. "make" \in Requests \ Checked
          BY DEF Requests, Checked
    <2>. QED BY <1>1, <1>2, <1>3, <2>1, GoFacts, Quiet
  <1>4. CASE \E r : Remote!Return(c, r, "done")
        BY <1>1, <1>2, <1>4, Ends
  <1>. QED BY <1>3, <1>4 DEF Remote!Mkdir

\* The directory is made.
LEMMA MakeEffect ==
    ASSUME RemotePcInv, NEW c \in Caller, Remote!Make(c)
    PROVE  Effect(c)
  <1>1. Asks(c, "make")
        BY AtFacts DEF Remote!Make
  <1>2. atRoot' = atRoot /\ refused' = refused /\ clobbered' = clobbered
        BY DEF Remote!Make, Remote!ghost
  <1>3. PICK then \in {"done"} : \E r : Remote!Return(c, r, then)
        BY DEF Remote!Make
  <1>. QED BY <1>1, <1>2, <1>3, Ends

\* copy over SSH first looks at its target.
LEMMA CopyTargetEffect ==
    ASSUME RemotePcInv, NEW c \in Caller, Remote!CopyTarget(c)
    PROVE  Effect(c)
  <1>1. Asks(c, "target")
        BY AtFacts DEF Remote!CopyTarget
  <1>2. atRoot' = atRoot /\ refused' = refused /\ clobbered' = clobbered
        BY DEF Remote!CopyTarget, Remote!Probe, Remote!tree, Remote!Remove
  <1>3. PICK then \in {"cp", "done"} : \E r : Remote!Return(c, r, then)
        BY DEF Remote!CopyTarget, Remote!Remove
  <1>. QED BY <1>1, <1>2, <1>3, Ends

\* The cp command of a copy over SSH.
LEMMA CpEffect ==
    ASSUME RemotePcInv, NEW c \in Caller, Remote!Cp(c)
    PROVE  Effect(c)
  <1>1. Asks(c, "cp") /\ atRoot' = atRoot /\ refused' = refused
        BY AtFacts DEF Remote!Cp, Remote!ghost
  <1>2. CASE Remote!Go(c, "copied")
    <2>1. "copied" \in Requests \ Checked
          BY DEF Requests, Checked
    <2>. QED BY <1>1, <1>2, <2>1, GoFacts, Quiet
  <1>3. CASE Remote!Return(c, "failed", "done")
        BY <1>1, <1>3, Ends
  <1>. QED BY <1>2, <1>3 DEF Remote!Cp

\* The cp command has ended.
LEMMA CopiedEffect ==
    ASSUME RemotePcInv, NEW c \in Caller, Remote!Copied(c)
    PROVE  Effect(c)
  <1>1. Asks(c, "copied")
        BY AtFacts DEF Remote!Copied
  <1>2. atRoot' = atRoot /\ refused' = refused /\ clobbered' = clobbered
        BY DEF Remote!Copied, Remote!ghost
  <1>3. PICK then \in {"align"} : \E r : Remote!Return(c, r, then)
        BY DEF Remote!Copied
  <1>. QED BY <1>1, <1>2, <1>3, Ends

\* copy over FTP reads the source, then writes.
LEMMA ReadEffect ==
    ASSUME RemotePcInv, NEW c \in Caller, Remote!Read(c)
    PROVE  Effect(c)
  <1>1. Asks(c, "read")
        BY AtFacts DEF Remote!Read
  <1>2. atRoot' = atRoot /\ refused' = refused /\ clobbered' = clobbered
        BY DEF Remote!Read, Remote!KeepTree, Remote!tree, Remote!ghost
  <1>3. PICK q \in {"done", "mode", "check"} :
            pc' = [pc EXCEPT ![c] = q] /\ (q = "mode" => op[c].over)
        BY DEF Remote!Read
  <1>4. q \in Requests /\ (q \in Checked => op[c].over /\ q # "move") /\ q # "chmod"
        BY <1>3 DEF Requests, Checked
  <1>5. Goes(c, q)
        BY <1>3, <1>4 DEF RemotePcInv, Goes
  <1>. QED BY <1>1, <1>2, <1>4, <1>5 DEF Asks, Goes, MustNot, Effect

\* copy gives the target the mode of its source.
LEMMA AlignEffect ==
    ASSUME RemotePcInv, NEW c \in Caller, Remote!Align(c)
    PROVE  Effect(c)
  <1>1. Asks(c, "align")
        BY AtFacts DEF Remote!Align
  <1>2. atRoot' = atRoot /\ refused' = refused /\ clobbered' = clobbered
        BY DEF Remote!Align
  <1>3. PICK then \in {"done"} : \E r : Remote!Return(c, r, then)
        BY DEF Remote!Align
  <1>. QED BY <1>1, <1>2, <1>3, Ends

\* Every request of a caller has the effect that the invariant needs.
LEMMA RequestEffect ==
    ASSUME RemotePcInv, NEW c \in Caller, Remote!Request(c)
    PROVE  Effect(c)
  BY CheckEffect, GetModeEffect, GrantEffect, EnsureDirEffect, HomeEffect,
     OpenEffect, ChmodEffect, SendEffect, RestoreEffect, DeleteEffect, RmdirEffect,
     EmptiedEffect, TargetFreeEffect, MoveEffect, MkdirEffect, MakeEffect,
     CopyTargetEffect, CpEffect, CopiedEffect, ReadEffect, AlignEffect DEF Remote!Request

-----------------------------------------------------------------------------
\* A server with nothing under way satisfies the invariant.
LEMMA RemoteInit == Remote!Init => RemoteInv
  BY DEF Remote!Init, RemoteInv, RemotePcInv, OpInv, RootInv, FreeInv, ClobberInv,
         Requests, Checked

\* A request of another caller is impossible while c holds the queue.
LEMMA RequestHolds ==
    ASSUME RemoteInv, NEW c \in Caller, Remote!Request(c)
    PROVE  RemoteInv'
  <1>1. Effect(c)
        BY RequestEffect DEF RemoteInv
  <1>2. RemotePcInv'
        BY <1>1 DEF RemoteInv, RemotePcInv, Effect, Remote!Ssh
  <1>3. OpInv'
        BY <1>1 DEF RemoteInv, OpInv, Effect
  <1>4. RootInv'
    <2>1. CASE Remote!Ssh
      <3>1. atRoot \/ refused
            BY <1>1, <2>1 DEF RemoteInv, RemotePcInv, RootInv, Effect
      <3>. QED BY <1>1, <2>1, <3>1 DEF RemoteInv, RemotePcInv, RootInv, Effect
    <2>2. CASE ~Remote!Ssh
      <3>1. atRoot \/ refused \/ pc[c] = "home"
            BY <1>1, <2>2, FreeAssumption DEF RemoteInv, RootInv, Effect
      <3>. QED BY <1>1, <2>2, <3>1 DEF RootInv, Effect
    <2>. QED BY <2>1, <2>2
  <1>5. FreeInv'
    <2>. SUFFICES ASSUME ~Remote!Ssh, NEW e \in Caller, pc'[e] \in Checked, MustNot(e, pc'[e])
                  PROVE  turn' = e /\ Clear(e)'
         BY <1>1 DEF FreeInv, Effect, Remote!Ssh, MustNot
    <2>1. CASE e = c
          BY <1>1, <2>1 DEF RemoteInv, FreeInv, Effect
    <2>2. CASE e # c
      <3>1. pc[e] \in Checked /\ MustNot(e, pc[e])
            BY <1>1, <2>2 DEF Effect
      <3>2. turn = e
            BY <1>1, <3>1 DEF RemoteInv, FreeInv, Effect
      <3>. QED BY <1>1, <2>2, <3>2, FreeAssumption DEF Effect
    <2>. QED BY <2>1, <2>2
  <1>6. ClobberInv'
    <2>1. "open" \in Checked /\ "move" \in Checked
          BY DEF Checked
    <2>. QED BY <1>1, <2>1 DEF RemoteInv, RemotePcInv, FreeInv, ClobberInv, Effect, Remote!Ssh
  <1>. QED BY <1>2, <1>3, <1>4, <1>5, <1>6 DEF RemoteInv

\* A write that may overwrite is the only call that starts past the check.
LEMMA StartHolds ==
    ASSUME RemoteInv, NEW c \in Caller, Remote!Start(c)
    PROVE  RemoteInv'
  <1>. DEFINE First(o) == CASE o.kind = "write" -> "mode"
                            [] o.kind \in {"create", "update"} -> "check"
                            [] o.kind = "copy" -> IF Remote!Ssh THEN "target" ELSE "read"
                            [] o.kind = "rename" -> IF o.over THEN "move" ELSE "free"
                            [] OTHER -> o.kind
  <1>1. PICK o \in Remote!Ops : op' = [op EXCEPT ![c] = o] /\ pc' = [pc EXCEPT ![c] = First(o)]
        BY DEF Remote!Start
  <1>2. pc[c] = "idle"
        /\ UNCHANGED <<protocol, alive, dirs, file, atRoot, turn, misled, refused, clobbered>>
        BY DEF Remote!Start, Remote!tree, Remote!ghost
  <1>3. /\ First(o) \in Requests \ {"ensure", "home", "cp", "chmod"}
        /\ First(o) = "target" => Remote!Ssh
        /\ First(o) \in Checked => o.kind = "write" \/ o.over
        /\ First(o) = "move" => o.over
    <2>1. o.kind \in {"write", "create", "update", "delete", "rmdir", "mkdir",
                      "rename", "copy"}
          BY DEF Remote!Ops, Remote!Op, Remote!Moves
    <2>. QED BY <2>1 DEF Requests, Checked
  <1>. HIDE DEF First
  <1>4. /\ pc' \in [Caller -> Requests] /\ pc'[c] = First(o)
        /\ \A e \in Caller \ {c} : pc'[e] = pc[e]
        BY <1>1, <1>3 DEF RemoteInv, RemotePcInv
  <1>5. op'[c] = o /\ \A e \in Caller \ {c} : op'[e] = op[e]
        BY <1>1 DEF RemoteInv, OpInv
  <1>6. RemotePcInv'
        BY <1>2, <1>3, <1>4 DEF RemoteInv, RemotePcInv, Remote!Ssh
  <1>7. OpInv'
        BY <1>1 DEF RemoteInv, OpInv
  <1>8. RootInv'
        BY <1>2, <1>4 DEF RemoteInv, RootInv
  <1>9. FreeInv'
    <2>. SUFFICES ASSUME alive, ~Remote!Ssh, NEW e \in Caller, pc'[e] \in Checked,
                         MustNot(e, pc[e])'
                  PROVE  turn = e /\ Clear(e)'
         BY <1>2 DEF FreeInv, Remote!Ssh
    <2>1. e # c
          BY <1>3, <1>4, <1>5 DEF MustNot
    <2>. QED BY <1>2, <1>4, <1>5, <2>1 DEF RemoteInv, FreeInv, MustNot, Clear, Remote!Target,
                  Remote!NoFile
  <1>10. ClobberInv'
        BY <1>2 DEF RemoteInv, ClobberInv, Remote!Ssh
  <1>. QED BY <1>6, <1>7, <1>8, <1>9, <1>10 DEF RemoteInv

\* Once the connection is lost a call can only end.
LEMMA LostHolds ==
    ASSUME RemoteInv, NEW c \in Caller, Remote!Lost(c)
    PROVE  RemoteInv'
  <1>1. ~alive /\ UNCHANGED <<protocol, alive, op, clobbered>>
        BY DEF Remote!Lost, Remote!ghost
  <1>2. PICK r : Remote!Return(c, r, "done")
        BY DEF Remote!Lost
  <1>3. "done" \in Requests \ {"ensure", "home", "target", "cp", "chmod"}
        BY DEF Requests
  <1>4. Goes(c, "done")
        BY <1>2, <1>3, ReturnFacts DEF RemoteInv
  <1>. QED BY <1>1, <1>3, <1>4
           DEF RemoteInv, RemotePcInv, OpInv, RootInv, FreeInv, ClobberInv, Goes, Remote!Ssh

\* Requests, new calls, lost connections and lost requests keep the invariant.
LEMMA RemoteKept ==
    ASSUME RemoteInv, [Remote!Next]_serving
    PROVE  RemoteInv'
  <1>1. CASE Remote!Drop
        BY <1>1 DEF Remote!Drop, Remote!tree, Remote!own, Remote!ghost, RemoteInv,
                    RemotePcInv, OpInv, RootInv, FreeInv,
                    ClobberInv, Remote!Ssh
  <1>2. ASSUME NEW c \in Caller, Remote!Start(c) PROVE RemoteInv'
        BY <1>2, StartHolds
  <1>3. ASSUME NEW c \in Caller, Remote!Request(c) PROVE RemoteInv'
        BY <1>3, RequestHolds
  <1>4. ASSUME NEW c \in Caller, Remote!Lost(c) PROVE RemoteInv'
        BY <1>4, LostHolds
  <1>5. CASE UNCHANGED serving
        BY <1>5 DEF serving, RemoteInv, RemotePcInv, OpInv, RootInv, FreeInv,
                    ClobberInv, Remote!Ssh, Checked, MustNot, Clear, Remote!Target,
                    Remote!NoFile
  <1>. QED BY <1>1, <1>2, <1>3, <1>4, <1>5 DEF Remote!Next

\* Over FTP who is past the check, or away from the root, holds the queue.
\* (ftpAdapter.ts:583-637)
LEMMA RemoteInvariance == Spec => [](part = "files" => RemoteInv)
<1> DEFINE Inv == part = "files" => RemoteInv
<1>1. Init => Inv
  BY RemoteInit DEF Init
<1>2. Inv /\ [Next]_vars => Inv'
  BY RemoteKept, PartSteps
<1> HIDE DEF Inv
<1>3. Spec => []Inv
  BY <1>1, <1>2, PTL DEF Spec
<1>4. QED
  BY <1>3 DEF Inv

\* Between two queued operations of a live connection the FTP working
\* directory is the root, unless the server refused the last cd('/').
\* (ftpAdapter.ts:622-637)
THEOREM BetweenOpsAtRootCorrect == Spec => []BetweenOpsAtRoot
<1>1. (part = "files" => RemoteInv) => BetweenOpsAtRoot
  BY FreeAssumption DEF RemoteInv, RootInv, BetweenOpsAtRoot, Remote!BetweenOpsAtRoot
<1>2. QED
  BY <1>1, RemoteInvariance, PTL

\* Over FTP a write or rename that must not overwrite a file never does unless
\* its own test for the file failed, however many callers the adapter has.
\* (ftpAdapter.ts:583-592, 681-700)
THEOREM NeverClobbersCorrect == Spec => []NeverClobbers
<1>1. (part = "files" => RemoteInv) => NeverClobbers
  BY DEF RemoteInv, ClobberInv, NeverClobbers, Remote!NeverClobbers, Remote!Ssh
<1>2. QED
  BY <1>1, RemoteInvariance, PTL

FileRecord == [body : Caller \cup {"none", "old", "part"}, writable : BOOLEAN]
Settled == {"none", "ok", "failed", "lost"}

FileTypes ==
    /\ file \in [Place -> FileRecord]
    /\ mode \in [Caller -> Remote!Modes] /\ raised \in [Caller -> BOOLEAN]
    /\ outcome \in [Caller -> Settled]
    /\ \A c \in Caller : pc[c] # "idle" => op[c] \in Remote!Ops

\* A file stands in its directory, and a locked one stands.
Standing ==
    /\ \A p \in Place : Remote!Exists(p) => p \in dirs
    /\ locked \subseteq Place /\ \A p \in locked : file[p].body # "none"

\* From the request that may make a file writable to the one that takes it back.
Holding == {"ensure", "home", "open", "chmod", "send", "restore"}
AfterGrant == Holding \cup {"align", "done"}

\* The write of c gave p its bit and has not set the mode back.
Holds(c, p) == pc[c] \in Holding /\ Remote!Target(c) = p /\ raised[c]

\* What a write remembers of its file.
WriteState(c) ==
    /\ raised[c] => mode[c] = "ro" /\ pc[c] \in AfterGrant
    /\ pc[c] = "grant" => mode[c] = "ro"
    /\ pc[c] = "copied" => op[c].to \notin locked
    /\ ~Remote!Ssh /\ pc[c] \in Holding =>
          turn = c /\ (mode[c] = "rw" => Remote!Target(c) \notin locked)

Held == \A p \in locked : file[p].writable => \E c \in Caller : Holds(c, p)

ModeInv ==
    alive => FileTypes /\ Standing /\ (\A c \in Caller : WriteState(c)) /\ Held

\* Before the first write no file is locked.
LEMMA ModeInit ==
    ASSUME Remote!Init
    PROVE  ModeInv
<1>1. FileTypes
  <2>1. /\ [body : {"old"}, writable : BOOLEAN] \subseteq FileRecord
        /\ Remote!NoFile \in FileRecord
    BY DEF FileRecord, Remote!NoFile
  <2>2. file \in [Place -> FileRecord]
    BY <2>1 DEF Remote!Init
  <2>3. QED
    BY <2>2 DEF Remote!Init, FileTypes, Settled, Remote!Modes
<1>2. Standing
  BY DEF Remote!Init, Standing, Remote!Exists, Remote!NoFile
<1>3. Held
  BY DEF Remote!Init, Held
<1>4. ASSUME NEW c \in Caller PROVE WriteState(c)
  <2>1. pc[c] = "idle" /\ raised[c] = FALSE
    BY DEF Remote!Init
  <2>2. QED
    BY <2>1 DEF WriteState, Holding, AfterGrant
<1>5. QED
  BY <1>1, <1>2, <1>3, <1>4 DEF ModeInv

\* What a request of c leaves to the others.
Apart(c) ==
    /\ mode' \in [Caller -> Remote!Modes] /\ raised' \in [Caller -> BOOLEAN]
    /\ outcome' \in [Caller -> Settled]
    /\ \A e \in Caller \ {c} :
          mode'[e] = mode[e] /\ raised'[e] = raised[e] /\ outcome'[e] = outcome[e]

\* The files of a request, and which of them it may leave writable.
Careful(c) ==
    /\ file' \in [Place -> FileRecord] /\ Standing' /\ locked' \subseteq locked
    /\ \A p \in locked' :
          file'[p].writable => Holds(c, p)' \/ (file[p].writable /\ ~Holds(c, p))

\* A write goes on: who held a file goes on holding it.
LEMMA WriteMoves ==
    ASSUME ModeInv, NEW c \in Caller, NEW p \in Requests \ {"idle"}, NEW q \in Requests,
           Asks(c, p), Goes(c, q), Apart(c), Careful(c), WriteState(c)'
    PROVE  ModeInv'
<1>1. /\ alive /\ FileTypes /\ Standing /\ (\A e \in Caller : WriteState(e)) /\ Held
      /\ (Remote!Ssh' <=> Remote!Ssh) /\ op' = op /\ locked' \subseteq locked
  BY DEF ModeInv, Asks, Careful, Remote!Ssh
<1>2. FileTypes'
  BY <1>1 DEF FileTypes, Apart, Careful, Asks, Goes
<1>3. ASSUME NEW e \in Caller \ {c} PROVE WriteState(e)'
  <2>1. /\ pc'[e] = pc[e] /\ mode'[e] = mode[e] /\ raised'[e] = raised[e]
        /\ outcome'[e] = outcome[e] /\ Remote!Target(e)' = Remote!Target(e)
    BY <1>1 DEF Goes, Apart, Remote!Target
  <2>2. ~Remote!Ssh => turn # e
    BY <1>3, FreeAssumption DEF Asks
  <2>3. WriteState(e)
    BY <1>1
  <2>4. QED
    BY <1>1, <2>1, <2>2, <2>3 DEF WriteState
<1>4. Held'
  <2> SUFFICES ASSUME NEW x \in locked', file'[x].writable
               PROVE  \E e \in Caller : Holds(e, x)'
    BY DEF Held
  <2>1. CASE Holds(c, x)'
    BY <2>1
  <2>2. CASE file[x].writable /\ ~Holds(c, x)
    <3>1. PICK e \in Caller : Holds(e, x)
      BY <1>1, <2>2 DEF Held
    <3>2. e # c
      BY <2>2, <3>1
    <3>3. Holds(e, x)'
      BY <1>1, <3>1, <3>2 DEF Holds, Goes, Apart, Remote!Target
    <3>4. QED
      BY <3>3
  <2>3. QED
    BY <2>1, <2>2 DEF Careful
<1>5. Standing'
  BY DEF Careful
<1>6. QED
  BY <1>2, <1>3, <1>4, <1>5 DEF ModeInv

\* A call that returns without having changed a mode.
LEMMA ApartReturn ==
    ASSUME FileTypes, NEW c \in Caller, NEW r \in Settled, NEW then, Remote!Return(c, r, then)
    PROVE  Apart(c) /\ mode' = mode /\ raised' = raised
  BY DEF FileTypes, Remote!Return, Apart

\* A call that goes on and has changed no mode.
LEMMA ApartSame ==
    ASSUME FileTypes, NEW c \in Caller, mode' = mode, raised' = raised, outcome' = outcome
    PROVE  Apart(c)
  BY DEF FileTypes, Apart

\* A request that is no part of a write under way, and starts none.
LEMMA NoWrite ==
    ASSUME ModeInv, NEW c \in Caller,
           NEW p \in Requests \ (Holding \cup {"idle"}),
           NEW q \in Requests \ (Holding \cup {"grant", "copied"}),
           p \in {"align", "done"} => q \in {"align", "done"},
           Asks(c, p), Goes(c, q), Apart(c), mode' = mode, raised' = raised,
           file' \in [Place -> FileRecord], Standing', locked' \subseteq locked,
           \A x \in locked' : file'[x] = file[x]
    PROVE  ModeInv'
<1>1. alive /\ FileTypes /\ WriteState(c)
  BY DEF ModeInv, Asks
<1>2. \A x : ~Holds(c, x)
  BY DEF Holds, Asks
<1>3. Careful(c)
  BY <1>2 DEF Careful
<1>4. WriteState(c)'
  BY <1>1 DEF WriteState, AfterGrant, Asks, Goes
<1>5. QED
  BY <1>3, <1>4, WriteMoves

\* The same for a request with which the operation settles.
LEMMA NoWriteReturns ==
    ASSUME RemotePcInv, ModeInv, NEW c \in Caller,
           NEW p \in Requests \ (Holding \cup {"idle"}),
           NEW then \in {"mode", "cp", "align", "done"},
           p \in {"align", "done"} => then \in {"align", "done"},
           NEW r \in Settled, Remote!Return(c, r, then), Asks(c, p),
           file' \in [Place -> FileRecord], Standing', locked' \subseteq locked,
           \A x \in locked' : file'[x] = file[x]
    PROVE  ModeInv'
<1>1. PICK q \in {then, "done"} : Goes(c, q)
  <2>1. then \in Requests
    BY DEF Requests
  <2>2. QED
    BY <2>1, ReturnFacts
<1>2. q \in Requests \ (Holding \cup {"grant", "copied"})
  BY DEF Requests, Holding
<1>3. FileTypes
  BY DEF ModeInv, Asks
<1>4. Apart(c) /\ mode' = mode /\ raised' = raised
  BY <1>3, ApartReturn
<1>5. QED
  BY <1>1, <1>2, <1>4, NoWrite

\* Nothing moved in the directories.
LEMMA SameTree ==
    ASSUME FileTypes, Standing, file' = file, dirs' = dirs, locked' = locked
    PROVE  /\ file' \in [Place -> FileRecord] /\ Standing' /\ locked' \subseteq locked
           /\ \A x \in locked' : file'[x] = file[x]
  BY DEF FileTypes, Standing, Remote!Exists, Remote!NoFile

\* The places an operation is about.
LEMMA Places ==
    ASSUME FileTypes, NEW c \in Caller, pc[c] # "idle"
    PROVE  op[c].from \in Place /\ op[c].to \in Place /\ Remote!Target(c) \in Place
<1>1. op[c] \in Remote!Ops
  BY DEF FileTypes
<1>2. op[c].from \in Place /\ op[c].to \in Place
  BY <1>1 DEF Remote!Ops, Remote!Op, Remote!Moves
<1>3. QED
  BY <1>2 DEF Remote!Target

\* writeFile, before it does anything, asks whether it may write.
LEMMA CheckMode ==
    ASSUME RemotePcInv, ModeInv, NEW c \in Caller, Remote!Check(c)
    PROVE  ModeInv'
<1>1. Asks(c, "check") /\ FileTypes /\ Standing
  BY AtFacts DEF Remote!Check, ModeInv, Asks
<1>2. file' = file /\ dirs' = dirs /\ locked' = locked
  BY DEF Remote!Check, Remote!Probe, Remote!tree
<1>3. CASE Remote!Go(c, "mode") /\ UNCHANGED Remote!own
  <2>1. Goes(c, "mode") /\ Apart(c) /\ mode' = mode /\ raised' = raised
    BY <1>1, <1>3, GoFacts, ApartSame DEF Remote!own, Requests
  <2>2. QED
    BY <1>1, <1>2, <2>1, NoWrite, SameTree DEF Requests, Holding
<1>4. CASE Remote!Return(c, "failed", "done")
  BY <1>1, <1>2, <1>4, NoWriteReturns, SameTree DEF Requests, Holding, Settled
<1>5. QED
  BY <1>3, <1>4 DEF Remote!Check

\* Nobody else can have made a locked file writable over FTP when its mode is
\* read: the write that did would hold the queue.
LEMMA GetModeMode ==
    ASSUME RemotePcInv, ModeInv, NEW c \in Caller, Remote!GetMode(c)
    PROVE  ModeInv'
<1> DEFINE t == Remote!Target(c)
<1>1. /\ Asks(c, "mode") /\ FileTypes /\ Standing /\ Held
      /\ \A e \in Caller : WriteState(e)
  BY AtFacts DEF Remote!GetMode, ModeInv, Asks
<1>2. /\ file' = file /\ dirs' = dirs /\ locked' = locked
      /\ raised' = raised /\ outcome' = outcome
  BY DEF Remote!GetMode, Remote!KeepTree, Remote!tree, Remote!ghost
<1>3. PICK m \in {Remote!ModeOf(t), "none"} :
          /\ mode' = [mode EXCEPT ![c] = m]
          /\ \E q \in {"grant", "open", "ensure"} :
                Remote!Go(c, q) /\ (q = "grant" => m = "ro")
  BY DEF Remote!GetMode
<1>4. PICK q \in {"grant", "open", "ensure"} : Remote!Go(c, q) /\ (q = "grant" => m = "ro")
  BY <1>3
<1>5. q \in Requests /\ Goes(c, q) /\ (~Remote!Ssh => turn' = c)
  BY <1>4, GoFacts DEF Requests
<1>6. Apart(c) /\ mode'[c] = m
  <2>1. m \in Remote!Modes
    BY <1>3 DEF Remote!ModeOf, Remote!Modes
  <2>2. QED
    BY <1>1, <1>2, <1>3, <2>1 DEF Apart, FileTypes
<1>7. ~Remote!Ssh /\ m = "rw" => t \notin locked
  <2> SUFFICES ASSUME ~Remote!Ssh, m = "rw", t \in locked PROVE FALSE
    OBVIOUS
  <2>1. file[t].writable
    BY <1>3 DEF Remote!ModeOf
  <2>2. PICK e \in Caller : Holds(e, t)
    BY <1>1, <2>1 DEF Held
  <2>3. pc[e] \in Holding /\ turn = e
    BY <1>1, <2>2 DEF Holds, WriteState
  <2>4. e = c
    BY <1>1, <2>3, FreeAssumption DEF Asks
  <2>5. QED
    BY <1>1, <2>3, <2>4 DEF Asks, Holding
<1>8. WriteState(c)'
  <2>1. ~raised[c] /\ Remote!Target(c)' = t /\ (Remote!Ssh' <=> Remote!Ssh)
    BY <1>1 DEF WriteState, AfterGrant, Holding, Asks, Remote!Target, Remote!Ssh
  <2>2. QED
    BY <1>2, <1>4, <1>5, <1>6, <1>7, <2>1 DEF WriteState, Goes
<1>9. Careful(c)
  <2>1. \A x : ~Holds(c, x)
    BY <1>1 DEF Holds, Asks, Holding
  <2>2. QED
    BY <1>1, <1>2, <2>1, SameTree DEF Careful
<1>10. QED
  BY <1>1, <1>5, <1>6, <1>8, <1>9, WriteMoves DEF Requests

\* A read-only file is made writable by the write that will restore it.
LEMMA GrantMode ==
    ASSUME RemotePcInv, ModeInv, NEW c \in Caller, Remote!Grant(c)
    PROVE  ModeInv'
<1> DEFINE t == Remote!Target(c)
<1>1. /\ Asks(c, "grant") /\ FileTypes /\ Standing /\ WriteState(c)
  BY AtFacts DEF Remote!Grant, ModeInv, Asks
<1>2. t \in Place /\ pc[c] = "grant"
  BY <1>1, Places DEF Asks
<1>3. CASE /\ Remote!Exists(t) /\ file' = [file EXCEPT ![t].writable = TRUE]
           /\ raised' = [raised EXCEPT ![c] = TRUE]
           /\ Remote!Go(c, IF Remote!Ssh THEN "open" ELSE "ensure")
           /\ UNCHANGED <<dirs, atRoot, mode, source, outcome, Remote!ghost>>
  <2>1. dirs' = dirs /\ locked' = locked /\ mode' = mode /\ outcome' = outcome
    BY <1>3 DEF Remote!ghost
  <2>2. PICK q \in {"open", "ensure"} : Remote!Go(c, q)
    BY <1>3
  <2>3. q \in Requests /\ Goes(c, q) /\ (~Remote!Ssh => turn' = c)
    BY <2>2, GoFacts DEF Requests
  <2>4. Apart(c) /\ raised'[c] = TRUE
    BY <1>1, <1>3, <2>1 DEF Apart, FileTypes
  <2>5. /\ file' \in [Place -> FileRecord] /\ file'[t].body = file[t].body
        /\ \A x \in Place \ {t} : file'[x] = file[x]
    BY <1>1, <1>2, <1>3 DEF FileTypes, FileRecord
  <2> HIDE DEF t
  <2>6. Standing'
    BY <1>1, <1>2, <1>3, <2>1, <2>5 DEF Standing, Remote!Exists, Remote!NoFile
  <2>7. /\ Remote!Target(c)' = t /\ (Remote!Ssh' <=> Remote!Ssh) /\ mode'[c] = "ro"
        /\ pc'[c] = q /\ q \in Holding /\ q # "home"
    BY <1>1, <1>2, <2>1, <2>3 DEF t, Remote!Target, Remote!Ssh, Asks, WriteState, Goes,
                                  Holding
  <2>8. WriteState(c)'
    BY <2>3, <2>4, <2>7 DEF WriteState, AfterGrant, Holding
  <2>9. Careful(c)
    <3>1. \A x : ~Holds(c, x) /\ (x = t => Holds(c, x)')
      BY <1>2, <2>4, <2>7 DEF Holds, Holding
    <3>2. QED
      BY <1>1, <2>1, <2>5, <2>6, <3>1 DEF Careful, Standing
  <2>10. QED
    BY <1>1, <2>3, <2>4, <2>8, <2>9, WriteMoves DEF Requests
<1>4. CASE Remote!Return(c, "failed", "done") /\ Remote!KeepTree
  <2>1. file' = file /\ dirs' = dirs /\ locked' = locked
    BY <1>4 DEF Remote!KeepTree, Remote!tree, Remote!ghost
  <2>2. QED
    BY <1>1, <1>4, <2>1, NoWriteReturns, SameTree DEF Requests, Holding, Settled
<1>5. QED
  BY <1>3, <1>4 DEF Remote!Grant

\* The walk to the directory of a file leaves its mode alone.
LEMMA EnsureDirMode ==
    ASSUME RemotePcInv, ModeInv, NEW c \in Caller, Remote!EnsureDir(c)
    PROVE  ModeInv'
<1> DEFINE t == Remote!Target(c)
<1>1. /\ Asks(c, "ensure") /\ FileTypes /\ Standing /\ WriteState(c)
  BY AtFacts DEF Remote!EnsureDir, ModeInv, Asks
<1>2. /\ file' = file /\ locked' = locked /\ mode' = mode /\ raised' = raised
      /\ Remote!Go(c, "home")
  BY DEF Remote!EnsureDir
<1>3. /\ \E r \in {"ok", "failed"} : outcome' = [outcome EXCEPT ![c] = r]
      /\ dirs' = dirs \/ dirs' = dirs \cup {t}
  BY DEF Remote!EnsureDir
<1>4. pc[c] = "ensure" /\ Remote!Target(c)' = t /\ (Remote!Ssh' <=> Remote!Ssh)
  BY <1>1 DEF Asks, Remote!Target, Remote!Ssh
<1>5. Goes(c, "home") /\ (~Remote!Ssh => turn' = c)
  BY <1>2, GoFacts DEF Requests
<1>6. Apart(c)
  BY <1>1, <1>2, <1>3 DEF Apart, FileTypes, Settled
<1> HIDE DEF t
<1>7. WriteState(c)'
  BY <1>1, <1>2, <1>4, <1>5 DEF WriteState, Goes, AfterGrant, Holding, t
<1>8. Standing'
  BY <1>1, <1>2, <1>3 DEF Standing, Remote!Exists, Remote!NoFile
<1>9. \A x : Holds(c, x) => Holds(c, x)'
  BY <1>2, <1>4, <1>5 DEF Holds, Goes, Holding, t
<1>10. Careful(c)
  BY <1>1, <1>2, <1>8, <1>9 DEF Careful, FileTypes
<1>11. QED
  BY <1>1, <1>5, <1>6, <1>7, <1>10, WriteMoves DEF Requests

\* The way back to the root leaves the modes alone; a write that ends there
\* gives up a file it made writable.
LEMMA HomeMode ==
    ASSUME RemotePcInv, ModeInv, NEW c \in Caller, Remote!Home(c)
    PROVE  ModeInv'
<1> DEFINE t == Remote!Target(c)
<1>1. /\ Asks(c, "home") /\ FileTypes /\ Standing /\ WriteState(c)
  BY AtFacts DEF Remote!Home, ModeInv, Asks
<1>2. file' = file /\ dirs' = dirs
  BY DEF Remote!Home, Remote!AfterEnsure
<1>3. pc[c] = "home" /\ Remote!Target(c)' = t /\ (Remote!Ssh' <=> Remote!Ssh)
  BY <1>1 DEF Asks, Remote!Target, Remote!Ssh
<1>4. ~Remote!Ssh
  BY <1>3 DEF RemotePcInv
<1>5. CASE Remote!Go(c, "open") /\ UNCHANGED <<Remote!own, locked>>
  <2>1. mode' = mode /\ raised' = raised /\ outcome' = outcome /\ locked' = locked
    BY <1>5 DEF Remote!own
  <2>2. Goes(c, "open") /\ turn' = c /\ Apart(c)
    BY <1>1, <1>4, <1>5, <2>1, GoFacts, ApartSame DEF Requests
  <2>3. WriteState(c)'
    BY <1>1, <1>2, <1>3, <2>1, <2>2 DEF WriteState, Goes, AfterGrant, Holding
  <2>4. \A x : Holds(c, x) => Holds(c, x)'
    BY <1>3, <2>1, <2>2 DEF Holds, Goes, Holding
  <2>5. Careful(c)
    BY <1>1, <1>2, <2>1, <2>4, SameTree DEF Careful
  <2>6. QED
    BY <1>1, <2>2, <2>3, <2>5, WriteMoves DEF Requests
<1>6. CASE /\ Remote!Return(c, "failed", "done")
           /\ locked' = IF raised[c] THEN locked \ {t} ELSE locked
  <2>1. Goes(c, "done")
    BY <1>6, ReturnFacts DEF Requests
  <2>2. Apart(c) /\ mode' = mode /\ raised' = raised
    BY <1>1, <1>6, ApartReturn DEF Settled
  <2>3. WriteState(c)'
    BY <1>1, <2>1, <2>2 DEF WriteState, Goes, AfterGrant, Holding
  <2>4. \A x \in locked' : ~Holds(c, x)
    BY <1>6 DEF Holds
  <2>5. Careful(c)
    BY <1>1, <1>2, <1>6, <2>4 DEF Careful, FileTypes, Standing, Remote!Exists,
                                  Remote!NoFile
  <2>6. QED
    BY <1>1, <2>1, <2>2, <2>3, <2>5, WriteMoves DEF Requests
<1>7. QED
  BY <1>5, <1>6 DEF Remote!Home, Remote!AfterEnsure, Remote!Excuse, Remote!Unlock

\* A file that is opened was writable already.
LEMMA OpenMode ==
    ASSUME RemotePcInv, ModeInv, NEW c \in Caller, Remote!Open(c)
    PROVE  ModeInv'
<1> DEFINE t == Remote!Target(c)
<1> DEFINE part1 == [body |-> "part", writable |->
                       Remote!Exists(t) \/ ~(Remote!Ssh /\ mode[c] = "ro")]
<1>1. /\ Asks(c, "open") /\ FileTypes /\ Standing /\ WriteState(c)
  BY AtFacts DEF Remote!Open, ModeInv, Asks
<1>2. /\ locked' = locked /\ dirs' = dirs /\ mode' = mode /\ raised' = raised
      /\ \E r \in {"ok", "failed"} : outcome' = [outcome EXCEPT ![c] = r]
  BY DEF Remote!Open
<1>3. /\ t \in Place /\ pc[c] = "open" /\ Remote!Target(c)' = t
      /\ (Remote!Ssh' <=> Remote!Ssh)
  BY <1>1, Places DEF Asks, Remote!Target, Remote!Ssh
<1>4. part1 \in FileRecord /\ part1.body = "part"
  BY DEF FileRecord
<1>5. \/ file' = [file EXCEPT ![t] = part1] /\ t \in dirs
         /\ (Remote!Exists(t) => file[t].writable)
      \/ file' = file
  BY DEF Remote!Open
<1>6. PICK q \in {"chmod", "send", "restore"} : Remote!Go(c, q)
  BY DEF Remote!Open
<1>7. Apart(c)
  BY <1>1, <1>2 DEF Apart, FileTypes, Settled
<1> HIDE DEF t, part1
<1>8. file' \in [Place -> FileRecord] /\ \A x \in Place \ {t} : file'[x] = file[x]
  BY <1>1, <1>3, <1>4, <1>5 DEF FileTypes
<1>9. \/ file'[t] = part1 /\ t \in dirs /\ (Remote!Exists(t) => file[t].writable)
      \/ file'[t] = file[t]
  BY <1>1, <1>3, <1>5 DEF FileTypes
<1>10. q \in Requests /\ Goes(c, q) /\ (~Remote!Ssh => turn' = c)
  BY <1>6, GoFacts DEF Requests
<1>11. Standing'
  BY <1>1, <1>2, <1>3, <1>4, <1>8, <1>9 DEF Standing, Remote!Exists, Remote!NoFile
<1>12. WriteState(c)'
  BY <1>1, <1>2, <1>3, <1>10 DEF WriteState, Goes, AfterGrant, Holding, t
<1>13. \A x : Holds(c, x) => Holds(c, x)'
  BY <1>2, <1>3, <1>10 DEF Holds, Goes, Holding, t
<1>14. ASSUME NEW x \in locked, file'[x].writable PROVE file[x].writable
  <2>1. x \in Place /\ Remote!Exists(x)
    BY <1>1 DEF Standing, Remote!Exists, Remote!NoFile
  <2>2. QED
    BY <1>8, <1>9, <1>14, <2>1
<1>15. Careful(c)
  BY <1>2, <1>8, <1>11, <1>13, <1>14 DEF Careful
<1>16. QED
  BY <1>1, <1>7, <1>10, <1>12, <1>15, WriteMoves DEF Requests

\* createWriteStream gives the file the mode that was read: the read-only one,
\* or one for which the file is given up. (sshAdapter.ts:409)
LEMMA ChmodMode ==
    ASSUME RemotePcInv, ModeInv, NEW c \in Caller, Remote!Chmod(c)
    PROVE  ModeInv'
<1> DEFINE t == Remote!Target(c)
<1>1. /\ Asks(c, "chmod") /\ FileTypes /\ Standing /\ WriteState(c)
  BY AtFacts DEF Remote!Chmod, ModeInv, Asks
<1>2. /\ dirs' = dirs /\ mode' = mode /\ raised' = raised /\ outcome' = outcome
      /\ Remote!Go(c, "send")
  BY DEF Remote!Chmod, Remote!own
<1>3. /\ t \in Place /\ pc[c] = "chmod" /\ Remote!Target(c)' = t
      /\ (Remote!Ssh' <=> Remote!Ssh)
  BY <1>1, Places DEF Asks, Remote!Target, Remote!Ssh
<1>4. /\ \/ file' = [file EXCEPT ![t].writable = mode[c] # "ro"] /\ Remote!Exists(t)
         \/ file' = file
      /\ locked' \subseteq locked
      /\ mode[c] = "ro" \/ file' = file \/ t \notin locked'
  BY DEF Remote!Chmod, Remote!Excuse, Remote!Unlock
<1>5. /\ file' \in [Place -> FileRecord] /\ \A x \in Place \ {t} : file'[x] = file[x]
      /\ file'[t].body = file[t].body
      /\ file'[t] = file[t] \/ (file'[t].writable = (mode[c] # "ro") /\ t \in dirs)
  BY <1>1, <1>3, <1>4 DEF FileTypes, FileRecord, Standing
<1> HIDE DEF t
<1>6. Goes(c, "send") /\ (~Remote!Ssh => turn' = c) /\ Apart(c)
  BY <1>1, <1>2, GoFacts, ApartSame DEF Requests
<1>7. Standing'
  BY <1>1, <1>2, <1>3, <1>4, <1>5 DEF Standing, Remote!Exists, Remote!NoFile
<1>8. WriteState(c)'
  BY <1>1, <1>2, <1>3, <1>4, <1>6 DEF WriteState, Goes, AfterGrant, Holding, t
<1>9. \A x : Holds(c, x) => Holds(c, x)'
  BY <1>2, <1>3, <1>6 DEF Holds, Goes, Holding, t
<1>10. ASSUME NEW x \in locked', file'[x].writable PROVE file[x].writable
  BY <1>1, <1>4, <1>5, <1>10 DEF Standing
<1>11. Careful(c)
  BY <1>4, <1>5, <1>7, <1>9, <1>10 DEF Careful
<1>12. QED
  BY <1>1, <1>6, <1>8, <1>11, WriteMoves DEF Requests

\* The bytes are sent: the write still has the mode to restore.
LEMMA SendMode ==
    ASSUME RemotePcInv, ModeInv, NEW c \in Caller, Remote!Send(c)
    PROVE  ModeInv'
<1> DEFINE t == Remote!Target(c)
<1>1. /\ Asks(c, "send") /\ FileTypes /\ Standing /\ WriteState(c)
  BY AtFacts DEF Remote!Send, ModeInv, Asks
<1>2. /\ locked' = locked /\ dirs' = dirs /\ mode' = mode /\ raised' = raised
      /\ outcome' = outcome \/ outcome' = [outcome EXCEPT ![c] = "failed"]
      /\ Remote!Go(c, "restore")
      /\ \/ file' = file
         \/ file[t].body = "part" /\ file' = [file EXCEPT ![t].body = c]
  BY DEF Remote!Send, Remote!ghost
<1>3. /\ t \in Place /\ pc[c] = "send" /\ Remote!Target(c)' = t
      /\ (Remote!Ssh' <=> Remote!Ssh)
  BY <1>1, Places DEF Asks, Remote!Target, Remote!Ssh
<1>4. /\ file' \in [Place -> FileRecord] /\ \A x \in Place \ {t} : file'[x] = file[x]
      /\ file'[t].writable = file[t].writable
      /\ file'[t] = file[t] \/ (file[t].body = "part" /\ file'[t].body = c)
  BY <1>1, <1>2, <1>3 DEF FileTypes, FileRecord
<1> HIDE DEF t
<1>5. Goes(c, "restore") /\ (~Remote!Ssh => turn' = c)
  BY <1>2, GoFacts DEF Requests
<1>6. Apart(c)
  BY <1>1, <1>2 DEF Apart, FileTypes, Settled
<1>7. Standing'
  BY <1>1, <1>2, <1>3, <1>4, BodyAssumption DEF Standing, Remote!Exists, Remote!NoFile
<1>8. WriteState(c)'
  BY <1>1, <1>2, <1>3, <1>5 DEF WriteState, Goes, AfterGrant, Holding, t
<1>9. \A x : Holds(c, x) => Holds(c, x)'
  BY <1>2, <1>3, <1>5 DEF Holds, Goes, Holding, t
<1>10. \A x \in locked : file'[x].writable = file[x].writable
  BY <1>1, <1>4 DEF Standing
<1>11. Careful(c)
  BY <1>2, <1>4, <1>7, <1>9, <1>10 DEF Careful
<1>12. QED
  BY <1>1, <1>5, <1>6, <1>8, <1>11, WriteMoves DEF Requests

\* The mode that is sent back to a file that was not given up is the read-only
\* one.
\* (sshAdapter.ts:385-430)
LEMMA RestoreMode ==
    ASSUME RemotePcInv, ModeInv, NEW c \in Caller, Remote!Restore(c)
    PROVE  ModeInv'
<1> DEFINE t == Remote!Target(c)
<1>1. /\ Asks(c, "restore") /\ FileTypes /\ Standing /\ WriteState(c)
  BY AtFacts DEF Remote!Restore, ModeInv, Asks
<1>2. PICK then \in {"align", "done"} : Remote!Return(c, outcome[c], then)
  BY DEF Remote!Restore, Remote!Written
<1>3. /\ dirs' = dirs
      /\ \/ Remote!Due(c) /\ Remote!SetBack(c) /\ locked' = locked
         \/ file' = file /\ locked' = locked \ {t}
         \/ ~Remote!Due(c) /\ file' = file /\ locked' = locked
         \/ /\ Remote!Exists(t) /\ file' = [file EXCEPT ![t].writable = TRUE]
            /\ locked' = locked \ {t}
  BY DEF Remote!Restore, Remote!Written, Remote!Excuse, Remote!Unlock
<1>4. t \in Place /\ pc[c] = "restore" /\ outcome[c] \in Settled
  BY <1>1, Places DEF Asks, FileTypes
<1>5. PICK q \in {"align", "done"} : Goes(c, q)
  BY <1>2, ReturnFacts DEF Requests
<1>6. Apart(c) /\ mode' = mode /\ raised' = raised
  BY <1>1, <1>2, <1>4, ApartReturn
<1>7. WriteState(c)'
  BY <1>1, <1>5, <1>6 DEF WriteState, Goes, AfterGrant, Holding
<1>8. CASE file' = file /\ locked' \subseteq locked /\ \A x \in locked' : ~Holds(c, x)
  <2>1. Careful(c)
    BY <1>1, <1>3, <1>8 DEF Careful, FileTypes, Standing, Remote!Exists, Remote!NoFile
  <2>2. QED
    BY <1>1, <1>5, <1>6, <1>7, <2>1, WriteMoves DEF Requests
<1>9. CASE /\ Remote!Exists(t) /\ locked' \subseteq locked
           /\ \/ file' = [file EXCEPT ![t].writable = TRUE] /\ t \notin locked'
              \/ /\ file' = [file EXCEPT ![t].writable = mode[c] = "rw"]
                 /\ mode[c] = "rw" => t \notin locked'
  <2>1. /\ file' \in [Place -> FileRecord] /\ \A x \in Place \ {t} : file'[x] = file[x]
        /\ file'[t].body = file[t].body
        /\ t \in locked' => ~file'[t].writable
    BY <1>1, <1>4, <1>9 DEF FileTypes, FileRecord
  <2>2. \A x : x # t => ~Holds(c, x)
    BY DEF Holds
  <2> HIDE DEF t
  <2>3. Standing'
    BY <1>1, <1>3, <1>4, <1>9, <2>1 DEF Standing, Remote!Exists, Remote!NoFile
  <2>4. Careful(c)
    BY <1>1, <1>9, <2>1, <2>2, <2>3 DEF Careful, Standing
  <2>5. QED
    BY <1>1, <1>5, <1>6, <1>7, <2>4, WriteMoves DEF Requests
<1>10. CASE Remote!Due(c) /\ Remote!SetBack(c) /\ locked' = locked
  <2>1. mode[c] = "rw" => t \notin locked
    BY <1>1, <1>4, <1>10 DEF WriteState, Remote!Due, Holding
  <2>2. CASE Remote!Exists(t)
    BY <1>9, <1>10, <2>1, <2>2 DEF Remote!SetBack
  <2>3. CASE ~Remote!Exists(t)
    <3>1. file' = file
      BY <1>10, <2>3 DEF Remote!SetBack
    <3>2. t \notin locked
      BY <1>1, <2>3 DEF Standing, Remote!Exists, Remote!NoFile
    <3>3. QED
      BY <1>8, <1>10, <3>1, <3>2 DEF Holds
  <2>4. QED
    BY <2>2, <2>3
<1>11. CASE file' = file /\ locked' = locked \ {t}
  BY <1>8, <1>11 DEF Holds
<1>12. CASE ~Remote!Due(c) /\ file' = file /\ locked' = locked
  <2>1. ~raised[c]
    BY <1>1, <1>12 DEF Remote!Due, WriteState
  <2>2. QED
    BY <1>8, <1>12, <2>1 DEF Holds
<1>13. CASE /\ Remote!Exists(t) /\ file' = [file EXCEPT ![t].writable = TRUE]
            /\ locked' = locked \ {t}
  BY <1>9, <1>13
<1>14. QED
  BY <1>3, <1>10, <1>11, <1>12, <1>13

\* One file that is not locked afterwards is made, changed or removed.
LEMMA UnlockedChanges ==
    ASSUME FileTypes, Standing, NEW x \in Place, NEW r \in FileRecord,
           r = Remote!NoFile \/ x \in dirs,
           file' = [file EXCEPT ![x] = r], dirs' = dirs,
           locked' \subseteq locked, x \notin locked'
    PROVE  /\ file' \in [Place -> FileRecord] /\ Standing' /\ locked' \subseteq locked
           /\ \A y \in locked' : file'[y] = file[y]
<1>1. file' \in [Place -> FileRecord] /\ \A y \in Place \ {x} : file'[y] = file[y]
  BY DEF FileTypes
<1>2. file'[x] = r
  BY DEF FileTypes
<1>3. Standing'
  BY <1>1, <1>2 DEF Standing, Remote!Exists, Remote!NoFile
<1>4. QED
  BY <1>1, <1>3 DEF Standing

\* What is deleted with a directory.
LEMMA RemoveTree ==
    ASSUME FileTypes, Standing, NEW c \in Caller, NEW x \in Place, NEW then,
           Remote!Remove(c, x, then)
    PROVE  /\ file' \in [Place -> FileRecord] /\ Standing' /\ locked' \subseteq locked
           /\ \A y \in locked' : file'[y] = file[y]
           /\ \E r \in Settled : Remote!Return(c, r, then)
<1>1. /\ \E r \in Settled : Remote!Return(c, r, then)
      /\ dirs' = dirs
  BY DEF Remote!Remove, Settled
<1>2. CASE Remote!Exists(x)
  <2>1. file' = [file EXCEPT ![x] = Remote!NoFile] /\ locked' = locked \ {x}
    BY <1>2 DEF Remote!Remove, Remote!Unlock
  <2>2. Remote!NoFile \in FileRecord
    BY DEF FileRecord, Remote!NoFile
  <2>3. QED
    BY <1>1, <2>1, <2>2, UnlockedChanges
<1>3. CASE ~Remote!Exists(x)
  <2>1. file' = file /\ locked' = locked
    BY <1>3 DEF Remote!Remove
  <2>2. QED
    BY <1>1, <2>1, SameTree
<1>4. QED
  BY <1>2, <1>3

\* A file that is deleted needs no mode.
LEMMA DeleteMode ==
    ASSUME RemotePcInv, ModeInv, NEW c \in Caller, Remote!Delete(c)
    PROVE  ModeInv'
<1>1. Asks(c, "delete") /\ FileTypes /\ Standing
  BY AtFacts DEF Remote!Delete, ModeInv, Asks
<1>2. op[c].from \in Place /\ Remote!Remove(c, op[c].from, "done")
  BY <1>1, Places DEF Asks, Remote!Delete, Remote!Place0
<1>3. QED
  BY <1>1, <1>2, RemoveTree, NoWriteReturns DEF Requests, Holding

\* A directory that is deleted takes its files with it.
LEMMA RmdirMode ==
    ASSUME RemotePcInv, ModeInv, NEW c \in Caller, Remote!Rmdir(c)
    PROVE  ModeInv'
<1> DEFINE x == op[c].from
<1>1. Asks(c, "rmdir") /\ FileTypes /\ Standing
  BY AtFacts DEF Remote!Rmdir, ModeInv, Asks
<1>2. x \in Place
  BY <1>1, Places DEF Asks
<1>3. CASE /\ Remote!Return(c, "failed", "done")
           /\ dirs' = dirs /\ file' = file /\ locked' = locked
  BY <1>1, <1>3, SameTree, NoWriteReturns DEF Requests, Holding, Settled
<1>4. CASE /\ file' = [file EXCEPT ![x] = Remote!NoFile] /\ locked' = locked \ {x}
           /\ dirs' = dirs /\ UNCHANGED Remote!own /\ Remote!Go(c, "emptied")
  <2>1. Goes(c, "emptied") /\ Apart(c) /\ mode' = mode /\ raised' = raised
    BY <1>1, <1>4, GoFacts, ApartSame DEF Remote!own, Requests
  <2>2. Remote!NoFile \in FileRecord
    BY DEF FileRecord, Remote!NoFile
  <2>3. /\ file' \in [Place -> FileRecord] /\ Standing' /\ locked' \subseteq locked
        /\ \A y \in locked' : file'[y] = file[y]
    BY <1>1, <1>2, <1>4, <2>2, UnlockedChanges
  <2>4. QED
    BY <1>1, <2>1, <2>3, NoWrite DEF Requests, Holding
<1>5. QED
  BY <1>3, <1>4 DEF Remote!Rmdir, Remote!Place0, Remote!Unlock, Remote!tree, Remote!ghost

\* Directories come and go, but never from under a file.
LEMMA DirsChange ==
    ASSUME FileTypes, Standing, file' = file, locked' = locked,
           \A y : Remote!Exists(y) /\ y \in dirs => y \in dirs'
    PROVE  /\ file' \in [Place -> FileRecord] /\ Standing' /\ locked' \subseteq locked
           /\ \A y \in locked' : file'[y] = file[y]
  BY DEF FileTypes, Standing, Remote!Exists, Remote!NoFile

\* The directory was emptied.
LEMMA EmptiedMode ==
    ASSUME RemotePcInv, ModeInv, NEW c \in Caller, Remote!Emptied(c)
    PROVE  ModeInv'
<1>1. Asks(c, "emptied") /\ FileTypes /\ Standing
  BY AtFacts DEF Remote!Emptied, ModeInv, Asks
<1>2. PICK r \in {"failed", "ok"} : Remote!Return(c, r, "done")
  BY DEF Remote!Emptied
<1>3. /\ file' = file /\ locked' = locked
      /\ \A y : Remote!Exists(y) /\ y \in dirs => y \in dirs'
  BY DEF Remote!Emptied, Remote!ghost
<1>4. QED
  BY <1>1, <1>2, <1>3, DirsChange, NoWriteReturns DEF Requests, Holding, Settled

\* rename looks at its target and changes nothing.
LEMMA TargetFreeMode ==
    ASSUME RemotePcInv, ModeInv, NEW c \in Caller, Remote!TargetFree(c)
    PROVE  ModeInv'
<1>1. Asks(c, "free") /\ FileTypes /\ Standing
  BY AtFacts DEF Remote!TargetFree, ModeInv, Asks
<1>2. file' = file /\ dirs' = dirs /\ locked' = locked
  BY DEF Remote!TargetFree, Remote!Probe, Remote!tree
<1>3. CASE Remote!Return(c, "failed", "done")
  BY <1>1, <1>2, <1>3, SameTree, NoWriteReturns DEF Requests, Holding, Settled
<1>4. CASE Remote!Go(c, "move") /\ UNCHANGED Remote!own
  <2>1. Goes(c, "move") /\ Apart(c) /\ mode' = mode /\ raised' = raised
    BY <1>1, <1>4, GoFacts, ApartSame DEF Remote!own, Requests
  <2>2. QED
    BY <1>1, <1>2, <2>1, NoWrite, SameTree DEF Requests, Holding
<1>5. QED
  BY <1>3, <1>4 DEF Remote!TargetFree

\* A file that moves leaves its name, and takes the lock from the one it
\* moves onto.
LEMMA MoveMode ==
    ASSUME RemotePcInv, ModeInv, NEW c \in Caller, Remote!Move(c)
    PROVE  ModeInv'
<1> DEFINE x == op[c].from
<1> DEFINE y == op[c].to
<1>1. Asks(c, "move") /\ FileTypes /\ Standing /\ dirs' = dirs
  BY AtFacts DEF Remote!Move, ModeInv, Asks
<1>2. x \in Place /\ y \in Place
  BY <1>1, Places DEF Asks
<1>3. CASE /\ y \in dirs /\ file' = [file EXCEPT ![y] = file[x], ![x] = Remote!NoFile]
           /\ locked' = locked \ {x, y} /\ Remote!Return(c, "ok", "done")
  <2> HIDE DEF x, y
  <2>1. Remote!NoFile \in FileRecord
    BY DEF FileRecord, Remote!NoFile
  <2>2. /\ file' \in [Place -> FileRecord]
        /\ \A z \in Place \ {x, y} : file'[z] = file[z]
        /\ file'[x] = Remote!NoFile
    BY <1>1, <1>2, <1>3, <2>1 DEF FileTypes
  <2>3. locked' \subseteq locked /\ \A z \in locked' : file'[z] = file[z]
    BY <1>1, <1>3, <2>2 DEF Standing
  <2>4. Standing'
    BY <1>1, <1>3, <2>2, <2>3 DEF Standing, Remote!Exists, Remote!NoFile
  <2>5. QED
    BY <1>1, <1>3, <2>2, <2>3, <2>4, NoWriteReturns DEF Requests, Holding, Settled
<1>4. CASE /\ file' = file /\ locked' = locked /\ Remote!Return(c, "failed", "done")
  BY <1>1, <1>4, SameTree, NoWriteReturns DEF Requests, Holding, Settled
<1>5. QED
  BY <1>3, <1>4 DEF Remote!Move

\* mkdir creates directories only.
LEMMA MkdirMode ==
    ASSUME RemotePcInv, ModeInv, NEW c \in Caller, Remote!Mkdir(c)
    PROVE  ModeInv'
<1>1. Asks(c, "mkdir") /\ FileTypes /\ Standing
  BY AtFacts DEF Remote!Mkdir, ModeInv, Asks
<1>2. file' = file /\ locked' = locked
  BY DEF Remote!Mkdir, Remote!ghost
<1>3. CASE Remote!Go(c, "make") /\ UNCHANGED <<dirs, Remote!own>>
  <2>1. Goes(c, "make") /\ Apart(c) /\ mode' = mode /\ raised' = raised /\ dirs' = dirs
    BY <1>1, <1>3, GoFacts, ApartSame DEF Remote!own, Requests
  <2>2. QED
    BY <1>1, <1>2, <2>1, NoWrite, SameTree DEF Requests, Holding
<1>4. CASE Remote!Return(c, "ok", "done") /\ dirs' = dirs \cup {Remote!Place0(c)}
  BY <1>1, <1>2, <1>4, DirsChange, NoWriteReturns DEF Requests, Holding, Settled
<1>5. QED
  BY <1>3, <1>4 DEF Remote!Mkdir

\* The directory is made.
LEMMA MakeMode ==
    ASSUME RemotePcInv, ModeInv, NEW c \in Caller, Remote!Make(c)
    PROVE  ModeInv'
<1>1. Asks(c, "make") /\ FileTypes /\ Standing
  BY AtFacts DEF Remote!Make, ModeInv, Asks
<1>2. file' = file /\ locked' = locked /\ dirs' = dirs \cup {Remote!Place0(c)}
  BY DEF Remote!Make, Remote!ghost
<1>3. PICK r \in {"failed", "ok"} : Remote!Return(c, r, "done")
  BY DEF Remote!Make
<1>4. QED
  BY <1>1, <1>2, <1>3, DirsChange, NoWriteReturns DEF Requests, Holding, Settled

\* copy looks at its target and changes nothing.
LEMMA CopyTargetMode ==
    ASSUME RemotePcInv, ModeInv, NEW c \in Caller, Remote!CopyTarget(c)
    PROVE  ModeInv'
<1>1. Asks(c, "target") /\ FileTypes /\ Standing
  BY AtFacts DEF Remote!CopyTarget, ModeInv, Asks
<1>2. op[c].to \in Place
  BY <1>1, Places DEF Asks
<1>3. ASSUME NEW there \in BOOLEAN, Remote!Probe(c, op[c].to, there),
             NEW r \in Settled, Remote!Return(c, r, "cp")
      PROVE  ModeInv'
  <2>1. file' = file /\ dirs' = dirs /\ locked' = locked
    BY <1>3 DEF Remote!Probe, Remote!tree
  <2>2. QED
    BY <1>1, <1>3, <2>1, SameTree, NoWriteReturns DEF Requests, Holding
<1>4. CASE Remote!Remove(c, op[c].to, "cp")
  BY <1>1, <1>2, <1>4, RemoveTree, NoWriteReturns DEF Requests, Holding
<1>5. QED
  BY <1>3, <1>4 DEF Remote!CopyTarget, Settled

\* The copy of another file takes the lock from its name.
LEMMA CpMode ==
    ASSUME RemotePcInv, ModeInv, NEW c \in Caller, Remote!Cp(c)
    PROVE  ModeInv'
<1> DEFINE y == op[c].to
<1> DEFINE r == [body |-> "part", writable |-> TRUE]
<1>1. /\ Asks(c, "cp") /\ FileTypes /\ Standing /\ WriteState(c) /\ dirs' = dirs
  BY AtFacts DEF Remote!Cp, ModeInv, Asks
<1>2. y \in Place /\ pc[c] = "cp"
  BY <1>1, Places DEF Asks
<1>3. CASE /\ Remote!Return(c, "failed", "done") /\ file' = file /\ locked' = locked
  BY <1>1, <1>3, SameTree, NoWriteReturns DEF Requests, Holding, Settled
<1>4. CASE /\ y \in dirs /\ file' = [file EXCEPT ![y] = r]
           /\ locked' = locked \ {y} /\ Remote!Go(c, "copied") /\ UNCHANGED Remote!own
  <2>1. Goes(c, "copied") /\ Apart(c) /\ mode' = mode /\ raised' = raised
    BY <1>1, <1>4, GoFacts, ApartSame DEF Remote!own, Requests
  <2>2. r \in FileRecord
    BY DEF FileRecord
  <2> HIDE DEF r
  <2>3. /\ file' \in [Place -> FileRecord] /\ Standing' /\ locked' \subseteq locked
        /\ \A x \in locked' : file'[x] = file[x]
    BY <1>1, <1>2, <1>4, <2>2, UnlockedChanges
  <2>4. WriteState(c)'
    BY <1>1, <1>2, <1>4, <2>1 DEF WriteState, Goes, Asks, AfterGrant, Holding
  <2>5. \A x : ~Holds(c, x)
    BY <1>2 DEF Holds, Holding
  <2>6. Careful(c)
    BY <2>3, <2>5 DEF Careful
  <2>7. QED
    BY <1>1, <2>1, <2>4, <2>6, WriteMoves DEF Requests
<1>5. QED
  BY <1>3, <1>4 DEF Remote!Cp, Remote!Unlock, Remote!ghost

\* The cp command has ended.
LEMMA CopiedMode ==
    ASSUME RemotePcInv, ModeInv, NEW c \in Caller, Remote!Copied(c)
    PROVE  ModeInv'
<1> DEFINE y == op[c].to
<1>1. /\ Asks(c, "copied") /\ FileTypes /\ Standing /\ WriteState(c)
      /\ dirs' = dirs /\ locked' = locked /\ Remote!Return(c, "ok", "align")
  BY AtFacts DEF Remote!Copied, ModeInv, Asks, Remote!ghost
<1>2. op[c].from \in Place /\ y \in Place /\ y \notin locked
  BY <1>1, Places DEF Asks, WriteState
<1>3. /\ file' \in [Place -> FileRecord] /\ Standing' /\ locked' \subseteq locked
      /\ \A x \in locked' : file'[x] = file[x]
  <2>1. CASE Remote!Exists(y) /\ Remote!Exists(op[c].from)
    <3>1. file' = [file EXCEPT ![y] = file[op[c].from]] /\ y \in dirs
      BY <1>1, <1>2, <2>1 DEF Remote!Copied, Standing
    <3>2. file[op[c].from] \in FileRecord
      BY <1>1, <1>2 DEF FileTypes
    <3>3. QED
      BY <1>1, <1>2, <3>1, <3>2, UnlockedChanges
  <2>2. CASE ~(Remote!Exists(y) /\ Remote!Exists(op[c].from))
    <3>1. file' = file
      BY <2>2 DEF Remote!Copied
    <3>2. QED
      BY <1>1, <3>1, SameTree
  <2>3. QED
    BY <2>1, <2>2
<1>4. QED
  BY <1>1, <1>3, NoWriteReturns DEF Requests, Holding, Settled

\* copy over FTP has read its source.
LEMMA ReadMode ==
    ASSUME RemotePcInv, ModeInv, NEW c \in Caller, Remote!Read(c)
    PROVE  ModeInv'
<1>1. Asks(c, "read") /\ FileTypes /\ Standing
  BY AtFacts DEF Remote!Read, ModeInv, Asks
<1>2. /\ file' = file /\ dirs' = dirs /\ locked' = locked /\ mode' = mode /\ raised' = raised
      /\ \E r \in {"ok", "failed"} : outcome' = [outcome EXCEPT ![c] = r]
  BY DEF Remote!Read, Remote!KeepTree, Remote!tree, Remote!ghost
<1>3. PICK q \in {"done", "mode", "check"} : pc' = [pc EXCEPT ![c] = q]
  BY DEF Remote!Read
<1>4. q \in Requests \ (Holding \cup {"grant", "copied"}) /\ Goes(c, q)
  BY <1>3 DEF Requests, Holding, RemotePcInv, Goes
<1>5. Apart(c)
  BY <1>1, <1>2 DEF Apart, FileTypes, Settled
<1>6. QED
  BY <1>1, <1>2, <1>4, <1>5, NoWrite, SameTree DEF Requests, Holding

\* copy gives the target the mode of its source.
LEMMA AlignMode ==
    ASSUME RemotePcInv, ModeInv, NEW c \in Caller, Remote!Align(c)
    PROVE  ModeInv'
<1> DEFINE y == op[c].to
<1> DEFINE m == IF Remote!Ssh THEN Remote!ModeOf(op[c].from) ELSE source[c]
<1>1. /\ Asks(c, "align") /\ FileTypes /\ Standing /\ dirs' = dirs
      /\ locked' = locked \ {y} /\ Remote!Return(c, "ok", "done")
      /\ file' = IF Remote!Exists(y) /\ m # "none"
                 THEN [file EXCEPT ![y].writable = m = "rw"] ELSE file
  BY AtFacts DEF Remote!Align, ModeInv, Asks, Remote!Unlock
<1>2. y \in Place
  BY <1>1, Places DEF Asks
<1> HIDE DEF m, y
<1>3. /\ file' \in [Place -> FileRecord] /\ \A x \in Place \ {y} : file'[x] = file[x]
      /\ ~Remote!Exists(y) => file'[y] = file[y]
  <2>1. file \in [Place -> FileRecord]
    BY <1>1 DEF FileTypes
  <2>2. CASE file' = [file EXCEPT ![y].writable = m = "rw"] /\ Remote!Exists(y)
    BY <1>2, <2>1, <2>2 DEF FileRecord
  <2>3. CASE file' = file
    BY <2>1, <2>3
  <2>4. QED
    BY <1>1, <2>2, <2>3
<1>4. locked' \subseteq locked /\ \A x \in locked' : file'[x] = file[x]
  BY <1>1, <1>3 DEF Standing
<1>5. Standing'
  BY <1>1, <1>3, <1>4 DEF Standing, Remote!Exists, Remote!NoFile
<1>6. QED
  BY <1>1, <1>3, <1>4, <1>5, NoWriteReturns DEF Requests, Holding, Settled

\* A call that starts holds nothing yet.
LEMMA StartMode ==
    ASSUME RemotePcInv, OpInv, ModeInv, NEW c \in Caller, Remote!Start(c)
    PROVE  ModeInv'
<1> DEFINE First(o) == CASE o.kind = "write" -> "mode"
                          [] o.kind \in {"create", "update"} -> "check"
                          [] o.kind = "copy" -> IF Remote!Ssh THEN "target" ELSE "read"
                          [] o.kind = "rename" -> IF o.over THEN "move" ELSE "free"
                          [] OTHER -> o.kind
<1>1. PICK o \in Remote!Ops : op' = [op EXCEPT ![c] = o] /\ pc' = [pc EXCEPT ![c] = First(o)]
  BY DEF Remote!Start
<1>2. /\ pc[c] = "idle" /\ protocol' = protocol /\ alive' = alive /\ dirs' = dirs
      /\ file' = file /\ turn' = turn /\ mode' = mode /\ raised' = raised
      /\ outcome' = outcome /\ locked' = locked
  BY DEF Remote!Start, Remote!tree, Remote!ghost, Remote!own
<1>3. First(o) \in {"mode", "check", "target", "read", "move", "free",
                   "delete", "rmdir", "mkdir"}
  BY DEF Remote!Ops, Remote!Op, Remote!Moves
<1> HIDE DEF First
<1>4. pc'[c] = First(o) /\ \A e \in Caller \ {c} : pc'[e] = pc[e]
  BY <1>1 DEF RemotePcInv
<1>5. op'[c] = o /\ \A e \in Caller \ {c} : op'[e] = op[e]
  BY <1>1 DEF OpInv
<1> SUFFICES ASSUME alive
             PROVE  FileTypes' /\ Standing' /\ (\A e \in Caller : WriteState(e)') /\ Held'
  BY <1>2 DEF ModeInv
<1>6. FileTypes /\ Standing /\ (\A e \in Caller : WriteState(e)) /\ Held
  BY DEF ModeInv
<1>7. FileTypes'
  BY <1>1, <1>2, <1>4, <1>5, <1>6 DEF FileTypes
<1>8. Standing'
  BY <1>2, <1>6, SameTree
<1>9. ASSUME NEW e \in Caller PROVE WriteState(e)'
  <2>1. WriteState(e) /\ (Remote!Ssh' <=> Remote!Ssh)
    BY <1>2, <1>6 DEF Remote!Ssh
  <2>2. CASE e = c
    BY <1>2, <1>3, <1>4, <2>1, <2>2 DEF WriteState, Holding, AfterGrant
  <2>3. CASE e # c
    BY <1>2, <1>4, <1>5, <2>1, <2>3 DEF WriteState, Remote!Target
  <2>4. QED
    BY <2>2, <2>3
<1>10. ASSUME NEW x \in locked', file'[x].writable PROVE \E e \in Caller : Holds(e, x)'
  <2>1. PICK e \in Caller : Holds(e, x)
    BY <1>2, <1>6, <1>10 DEF Held
  <2>2. e # c
    BY <1>2, <2>1 DEF Holds, Holding
  <2>3. QED
    BY <1>2, <1>4, <1>5, <2>1, <2>2 DEF Holds, Remote!Target, Remote!Ssh
<1>11. QED
  BY <1>7, <1>8, <1>9, <1>10 DEF Held

\* Every request keeps the modes.
LEMMA RequestMode ==
    ASSUME RemotePcInv, ModeInv, NEW c \in Caller, Remote!Request(c)
    PROVE  ModeInv'
  BY CheckMode, GetModeMode, GrantMode, EnsureDirMode, HomeMode, OpenMode, SendMode,
     RestoreMode, DeleteMode, RmdirMode, EmptiedMode, TargetFreeMode, MoveMode,
     MkdirMode, MakeMode, CopyTargetMode, CpMode, CopiedMode, ReadMode, AlignMode,
     ChmodMode
  DEF Remote!Request

\* Every step of the callers and of the server keeps the modes.
LEMMA ModeKept ==
    ASSUME RemoteInv, ModeInv, [Remote!Next]_serving
    PROVE  ModeInv'
<1>1. CASE Remote!Drop
  BY <1>1 DEF Remote!Drop, ModeInv
<1>2. ASSUME NEW c \in Caller, Remote!Start(c) PROVE ModeInv'
  BY <1>2, StartMode DEF RemoteInv
<1>3. ASSUME NEW c \in Caller, Remote!Request(c) PROVE ModeInv'
  BY <1>3, RequestMode DEF RemoteInv
<1>4. ASSUME NEW c \in Caller, Remote!Lost(c) PROVE ModeInv'
  BY <1>4 DEF Remote!Lost, ModeInv
<1>5. CASE UNCHANGED serving
  <2>1. /\ protocol' = protocol /\ alive' = alive /\ dirs' = dirs /\ file' = file
        /\ turn' = turn /\ op' = op /\ pc' = pc /\ mode' = mode /\ raised' = raised
        /\ outcome' = outcome /\ locked' = locked
    BY <1>5 DEF serving
  <2>2. /\ FileTypes => FileTypes'
        /\ Standing => Standing'
    BY <2>1 DEF FileTypes, Standing, Remote!Exists, Remote!NoFile
  <2>3. /\ \A c \in Caller : WriteState(c) => WriteState(c)'
        /\ \A c \in Caller, x \in locked : Holds(c, x) => Holds(c, x)'
    BY <2>1 DEF WriteState, Holds, Remote!Target, Remote!Ssh
  <2>4. Held => Held'
    BY <2>1, <2>3 DEF Held
  <2>5. QED
    BY <2>1, <2>2, <2>3, <2>4 DEF ModeInv
<1>6. QED
  BY <1>1, <1>2, <1>3, <1>4, <1>5 DEF Remote!Next

\* However many callers write, over either protocol: a read-only file that
\* nobody removed, moved or copied over is read-only again when no write is
\* under way, unless the connection was lost, the server refused the restoring
\* chmod, an FTP write ended in ensureDir, or an SSH write made another write's
\* raised mode, or one it could not read, the mode of the file.
\* (writeFile of sshAdapter.ts and ftpAdapter.ts)
THEOREM ModeComesBackCorrect == Spec => []ModeComesBack
<1> DEFINE Inv == part = "files" => RemoteInv /\ ModeInv
<1>1. Init => Inv
  BY RemoteInit, ModeInit DEF Init
<1>2. Inv /\ [Next]_vars => Inv'
  BY RemoteKept, ModeKept, PartSteps
<1>3. Inv => ModeComesBack
  <2>1. Holding \subseteq Remote!Writing
    BY DEF Holding, Remote!Writing
  <2>2. QED
    BY <2>1 DEF ModeInv, Held, Holds, ModeComesBack, Remote!ModeComesBack
<1> HIDE DEF Inv
<1>4. QED
  BY <1>1, <1>2, <1>3, PTL DEF Spec

-----------------------------------------------------------------------------
(* RemoteSearch *)
SearchRecord ==
    [pc : {"idle", "connect", "probe", "probed", "open", "stream", "fallback", "over"},
     cancelled : BOOLEAN, limited : BOOLEAN, count : 0 .. MaxResults, rest : BOOLEAN,
     found : {"unknown", "shell", "noShell"}]

\* Before the stream of a search has opened, and while it is open.
UnderWay == {"connect", "probe", "probed", "open", "stream"}

SearchTypes ==
    /\ started \in 0 .. MaxRun /\ running \in {0, started}
    /\ run \in [Searches!Run -> SearchRecord]
    /\ \A r \in Searches!Run : r > started => run[r] = Searches!NotStarted
    /\ server \in {"shell", "noShell"}

\* A search that has lost the view knows it, and so does its stream.
ToldToStop ==
    \A r \in Searches!Run :
        /\ r # running /\ run[r].pc \in UnderWay => run[r].cancelled
        /\ run[r].cancelled /\ run[r].pc = "stream" => run[r].limited

\* A stream with room left keeps a place for the line that stays behind.
RoomLeft ==
    \A r \in Searches!Run :
        run[r].rest =>
            /\ run[r].pc \in {"stream", "over"}
            /\ run[r].pc = "stream" /\ ~run[r].limited => run[r].count < MaxResults

\* What is shown is of the last search, and was counted.
ShownCounted ==
    /\ shown \in Seq([run : {started}, whole : BOOLEAN])
    /\ Len(shown) <= IF running = 0 THEN MaxResults ELSE run[running].count
    /\ painted # shown => refresh
    /\ indicator <=> running # 0

SearchInv == SearchTypes /\ ToldToStop /\ RoomLeft /\ ShownCounted

\* With no search started, registerRemoteSearch satisfies the invariant.
LEMMA SearchInit ==
    ASSUME Searches!Init
    PROVE  SearchInv
  BY SearchAssumption DEF Searches!Init, SearchInv, SearchTypes, ToldToStop, RoomLeft,
                          ShownCounted, SearchRecord,
     Searches!NotStarted, Searches!Run, UnderWay

\* run[r] alone changes, and not that of the view but by what keeps the count.
LEMMA OneSearchMoves ==
    ASSUME SearchInv, NEW r \in Searches!Run, NEW d \in SearchRecord,
           r <= started,
           run' = [run EXCEPT ![r] = d],
           d.pc \in UnderWay => run[r].pc \in UnderWay,
           run[r].cancelled => d.cancelled,
           d.cancelled /\ d.pc = "stream" => d.limited,
           d.rest => d.pc \in {"stream", "over"},
           d.rest /\ d.pc = "stream" /\ ~d.limited => d.count < MaxResults,
           started' = started, running' \in {0, started},
           running' # running => running = r /\ d.pc \notin UnderWay,
           server' = server
    PROVE  SearchTypes' /\ ToldToStop' /\ RoomLeft'
<1>1. run' \in [Searches!Run -> SearchRecord] /\ run'[r] = d
      /\ \A x \in Searches!Run \ {r} : run'[x] = run[x]
  BY DEF SearchInv, SearchTypes
<1>2. SearchTypes'
  BY <1>1, SearchAssumption DEF SearchInv, SearchTypes, Searches!Run
<1>3. ToldToStop'
  BY <1>1 DEF SearchInv, ToldToStop, SearchRecord
<1>4. RoomLeft'
  BY <1>1 DEF SearchInv, RoomLeft
<1>5. QED
  BY <1>2, <1>3, <1>4

\* The view is emptied.
LEMMA EmptiedCounted ==
    ASSUME SearchTypes', Searches!Emptied, indicator' <=> running' # 0
    PROVE  ShownCounted'
<1>1. running' # 0 => run'[running'].count \in Nat
  BY SearchAssumption DEF SearchTypes, SearchRecord, Searches!Run
<1>2. QED
  BY <1>1, SearchAssumption DEF Searches!Emptied, ShownCounted

\* Nothing is shown that was not, and what was counted stays so.
LEMMA KeptCounted ==
    ASSUME SearchInv, SearchTypes', started' = started,
           shown' = shown /\ painted' = painted /\ refresh' = refresh,
           \/ running' = running /\ indicator' = indicator
           \/ running' = 0 /\ indicator' = FALSE,
           running' # 0 => run'[running'].count = run[running].count
    PROVE  ShownCounted'
<1>1. CASE running' = running /\ indicator' = indicator
  BY <1>1 DEF SearchInv, ShownCounted
<1>2. CASE running' = 0 /\ indicator' = FALSE
  <2>1. running # 0 => run[running].count \in 0 .. MaxResults
    BY SearchAssumption DEF SearchInv, SearchTypes, SearchRecord, Searches!Run
  <2>2. QED
    BY <1>2, <2>1, SearchAssumption DEF SearchInv, ShownCounted
<1>3. QED
  BY <1>1, <1>2

\* Cancelling leaves every search as it is, but for its flag.
LEMMA CancelledRuns ==
    ASSUME SearchInv
    PROVE  /\ Searches!Cancelled \in [Searches!Run -> SearchRecord]
           /\ \A r \in Searches!Run :
                /\ r # running => Searches!Cancelled[r] = run[r]
                /\ r = running =>
                     Searches!Cancelled[r] =
                        [run[r] EXCEPT !.cancelled = TRUE,
                                       !.limited = run[r].limited \/ run[r].pc = "stream"]
  BY DEF SearchInv, SearchTypes, SearchRecord, Searches!Cancelled

\* Who was cancelled has been told (run aborts its predecessor).
LEMMA CancelledTold ==
    ASSUME SearchInv, NEW r \in Searches!Run
    PROVE  LET d == Searches!Cancelled[r]
           IN  /\ d.pc = run[r].pc /\ d.count = run[r].count /\ d.rest = run[r].rest
               /\ d.pc \in UnderWay => d.cancelled
               /\ d.cancelled /\ d.pc = "stream" => d.limited
               /\ ~d.limited => ~run[r].limited
               /\ r > started => d = Searches!NotStarted
<1>1. run[r] \in SearchRecord
  BY DEF SearchInv, SearchTypes
<1>2. CASE r = running
  <2>1. ~(r > started)
    BY <1>2, SearchAssumption DEF SearchInv, SearchTypes, Searches!Run
  <2> DEFINE d == Searches!Cancelled[r]
  <2>2. d = [run[r] EXCEPT !.cancelled = TRUE,
                           !.limited = run[r].limited \/ run[r].pc = "stream"]
    BY <1>2, CancelledRuns
  <2>3. /\ d.pc = run[r].pc /\ d.count = run[r].count /\ d.rest = run[r].rest
        /\ d.cancelled = TRUE /\ d.limited = (run[r].limited \/ run[r].pc = "stream")
    BY <1>1, <2>2 DEF SearchRecord
  <2> HIDE DEF d
  <2>4. QED
    BY <2>1, <2>3 DEF d
<1>3. CASE r # running
  BY <1>1, <1>3, CancelledRuns DEF SearchInv, SearchTypes, SearchRecord, ToldToStop
<1>4. QED
  BY <1>2, <1>3

\* A new search cancels the one before and empties the results.
LEMMA SearchKeeps ==
    ASSUME SearchInv, Searches!Search
    PROVE  SearchInv'
<1>1. PICK r \in Searches!Run :
          /\ r = started + 1 /\ started' = r /\ running' = r /\ indicator' = TRUE
          /\ run' = [Searches!Cancelled EXCEPT ![r].pc = "connect"]
          /\ Searches!Emptied /\ server' = server
  BY DEF Searches!Search
<1>2. run[r] = Searches!NotStarted /\ Searches!Cancelled[r] = Searches!NotStarted
  BY <1>1, CancelledTold DEF SearchInv, SearchTypes
<1>3. /\ run'[r] = [Searches!NotStarted EXCEPT !.pc = "connect"]
      /\ run'[r] \in SearchRecord
      /\ \A x \in Searches!Run \ {r} : run'[x] = Searches!Cancelled[x]
      /\ run' \in [Searches!Run -> SearchRecord]
  <2>1. [Searches!NotStarted EXCEPT !.pc = "connect"] \in SearchRecord
    <3>1. Searches!NotStarted \in SearchRecord
      BY SearchAssumption DEF Searches!NotStarted, SearchRecord
    <3>2. QED
      BY <3>1 DEF SearchRecord
  <2>2. run' = [Searches!Cancelled EXCEPT
                  ![r] = [Searches!Cancelled[r] EXCEPT !.pc = "connect"]]
    BY <1>1
  <2>3. QED
    BY <1>2, <2>1, <2>2, CancelledRuns
<1>4. ~run'[r].rest /\ run'[r].pc = "connect"
  BY <1>3 DEF Searches!NotStarted
<1>5. SearchTypes'
  BY <1>1, <1>3, CancelledTold, SearchAssumption DEF SearchInv, SearchTypes, Searches!Run
<1>6. ToldToStop'
  BY <1>1, <1>3, <1>4, CancelledTold DEF ToldToStop
<1>7. RoomLeft'
  BY <1>1, <1>3, <1>4, CancelledTold DEF SearchInv, RoomLeft
<1>8. ShownCounted'
  <2>1. running' # 0
    BY <1>1, SearchAssumption DEF Searches!Run
  <2>2. QED
    BY <1>1, <1>5, <2>1, EmptiedCounted
<1>9. QED
  BY <1>5, <1>6, <1>7, <1>8 DEF SearchInv

\* remoteBridge.search.cancel, and clear, which empties the results too.
LEMMA CancelKeeps ==
    ASSUME SearchInv, run' = Searches!Cancelled, UNCHANGED <<started, server>>,
           running' \in {0, running}
    PROVE  SearchTypes' /\ ToldToStop' /\ RoomLeft'
<1>1. SearchTypes'
  BY CancelledRuns, CancelledTold DEF SearchInv, SearchTypes
<1>2. ToldToStop'
  BY CancelledTold DEF ToldToStop
<1>3. RoomLeft'
  BY CancelledTold DEF SearchInv, RoomLeft
<1>4. QED
  BY <1>1, <1>2, <1>3

\* What a step of the search r sets of the tree and of the view.
LEMMA SearchEndsOrFails ==
    ASSUME SearchInv, NEW r \in Searches!Run, NEW pc1 \in {"over", "fallback"},
           Searches!Fails(r, pc1), run[r].pc \in UnderWay,
           run[r].pc = "stream" => pc1 = "over",
           UNCHANGED <<started, server>>,
           \/ pc1 = "over" /\ Searches!Over(r)
           \/ UNCHANGED <<running, indicator>>
    PROVE  SearchInv'
<1>0. run[r].pc # "idle" /\ (run[r].rest => pc1 = "over")
  BY DEF SearchInv, RoomLeft, UnderWay
<1> DEFINE d == [run[r] EXCEPT !.pc = pc1]
<1>1. d \in SearchRecord /\ run' = [run EXCEPT ![r] = d] /\ d.pc = pc1
      /\ d.count = run[r].count /\ d.cancelled = run[r].cancelled
      /\ d.rest = run[r].rest
  BY DEF Searches!Fails, SearchInv, SearchTypes, SearchRecord
<1>2. r <= started
  BY <1>0, SearchAssumption DEF SearchInv, SearchTypes, Searches!NotStarted, Searches!Run
<1>3. running' \in {0, started} /\ (running' # running => running = r)
      /\ \/ running' = running /\ indicator' = indicator
         \/ running' = 0 /\ indicator' = FALSE
  BY DEF Searches!Over, SearchInv, SearchTypes
<1> HIDE DEF d
<1>4. pc1 \notin UnderWay /\ pc1 # "stream"
  BY DEF UnderWay
<1>5. SearchTypes' /\ ToldToStop' /\ RoomLeft'
  BY <1>0, <1>1, <1>2, <1>3, <1>4, OneSearchMoves
<1>6. CASE running = r
  BY <1>3, <1>5, <1>6, EmptiedCounted DEF Searches!Fails, SearchInv, ShownCounted
<1>7. CASE running # r
  <2>1. running' # 0 => run'[running'].count = run[running].count
    BY <1>1, <1>3, <1>7 DEF SearchInv, SearchTypes
  <2>2. shown' = shown /\ painted' = painted /\ refresh' = refresh
    BY <1>7 DEF Searches!Fails
  <2>3. QED
    BY <1>3, <1>5, <2>1, <2>2, KeptCounted DEF SearchInv
<1>8. QED
  BY <1>5, <1>6, <1>7 DEF SearchInv

\* There is no tool or no shell: the search falls back, or ends.
LEMMA UnavailableKeeps ==
    ASSUME SearchInv, NEW r \in Searches!Run, run[r].pc \in UnderWay \ {"stream"},
           Searches!Unavailable(r), started' = started /\ server' = server
    PROVE  SearchInv'
<1>1. CASE running = r
  BY <1>1, SearchEndsOrFails DEF Searches!Unavailable
<1>2. CASE running # r
  BY <1>2, SearchEndsOrFails DEF Searches!Unavailable
<1>3. QED
  BY <1>1, <1>2

\* A step that changes neither the tree nor the view, nor the count.
LEMMA QuietSearchStep ==
    ASSUME SearchInv, NEW r \in Searches!Run, NEW d \in SearchRecord,
           run[r].pc # "idle", run' = [run EXCEPT ![r] = d],
           d.pc \in UnderWay => run[r].pc \in UnderWay,
           run[r].cancelled => d.cancelled,
           d.cancelled /\ d.pc = "stream" => d.limited,
           d.rest => d.pc \in {"stream", "over"},
           d.rest /\ d.pc = "stream" /\ ~d.limited => d.count < MaxResults,
           d.count = run[r].count,
           started' = started, server' = server,
           shown' = shown /\ painted' = painted /\ refresh' = refresh,
           \/ running' = running /\ indicator' = indicator
           \/ running = r /\ running' = 0 /\ indicator' = FALSE /\ d.pc \notin UnderWay
    PROVE  SearchInv'
<1>1. r <= started
  BY SearchAssumption DEF SearchInv, SearchTypes, Searches!NotStarted, Searches!Run
<1>2. running' \in {0, started} /\ (running' # running => running = r /\ d.pc \notin UnderWay)
  BY DEF SearchInv, SearchTypes
<1>3. SearchTypes' /\ ToldToStop' /\ RoomLeft'
  BY <1>1, <1>2, OneSearchMoves
<1>4. running' # 0 => run'[running'].count = run[running].count
  <2>1. run'[r] = d /\ \A x \in Searches!Run \ {r} : run'[x] = run[x]
    BY DEF SearchInv, SearchTypes
  <2>2. running # 0 => running \in Searches!Run
    BY SearchAssumption DEF SearchInv, SearchTypes, Searches!Run
  <2>3. QED
    BY <2>1, <2>2
<1>5. ShownCounted'
  BY <1>3, <1>4, KeptCounted
<1>6. QED
  BY <1>3, <1>5 DEF SearchInv

\* RemoteSearchService.search: the connection is there.
LEMMA ConnectedKeeps ==
    ASSUME SearchInv, NEW r \in Searches!Run, Searches!Connected(r)
    PROVE  SearchInv'
<1>1. /\ run[r].pc = "connect" /\ run[r].pc \in UnderWay \ {"stream"} /\ ~run[r].rest
      /\ started' = started /\ server' = server
  BY DEF Searches!Connected, UnderWay, SearchInv, RoomLeft
<1>2. CASE Searches!Fails(r, "over") /\ Searches!Over(r)
  BY <1>1, <1>2, SearchEndsOrFails
<1>3. CASE Searches!Unavailable(r)
  BY <1>1, <1>3, UnavailableKeeps
<1>4. ASSUME NEW p \in {"open", "probe"}, run' = [run EXCEPT ![r].pc = p],
             UNCHANGED <<running, indicator, shown, painted, refresh>>
      PROVE  SearchInv'
  <2> DEFINE d == [run[r] EXCEPT !.pc = p]
  <2>1. /\ d \in SearchRecord /\ run' = [run EXCEPT ![r] = d] /\ d.pc = p
        /\ d.count = run[r].count /\ d.cancelled = run[r].cancelled
      /\ d.rest = run[r].rest
    BY <1>4 DEF SearchInv, SearchTypes, SearchRecord
  <2>2. run[r].pc \in UnderWay
    BY <1>1 DEF UnderWay
  <2> HIDE DEF d
  <2>3. QED
    BY <1>1, <1>4, <2>1, <2>2, QuietSearchStep
<1>5. QED
  BY <1>2, <1>3, <1>4 DEF Searches!Connected

\* _detectTool asks the server for its tools.
LEMMA ProbeRunsKeeps ==
    ASSUME SearchInv, NEW r \in Searches!Run, Searches!ProbeRuns(r)
    PROVE  SearchInv'
<1>1. PICK found \in {server, "noShell"} :
          run' = [run EXCEPT ![r].pc = "probed", ![r].found = found]
  BY DEF Searches!ProbeRuns
<1> DEFINE d == [run[r] EXCEPT !.pc = "probed", !.found = found]
<1>2. run[r].pc = "probe" /\ run[r].pc \in UnderWay /\ ~run[r].rest
  BY DEF Searches!ProbeRuns, UnderWay, SearchInv, RoomLeft
<1>3. found \in {"shell", "noShell"}
  BY DEF SearchInv, SearchTypes
<1>4. /\ d \in SearchRecord /\ run' = [run EXCEPT ![r] = d] /\ d.pc = "probed"
      /\ d.count = run[r].count /\ d.cancelled = run[r].cancelled
      /\ d.rest = run[r].rest
  BY <1>1, <1>3 DEF SearchInv, SearchTypes, SearchRecord
<1> HIDE DEF d
<1>5. QED
  BY <1>2, <1>4, QuietSearchStep DEF Searches!ProbeRuns

\* _detectTool has its answer.
LEMMA ProbeAnswersKeeps ==
    ASSUME SearchInv, NEW r \in Searches!Run, Searches!ProbeAnswers(r)
    PROVE  SearchInv'
<1> DEFINE d == [run[r] EXCEPT !.pc = "open"]
<1>1. /\ run[r].pc = "probed" /\ run[r].pc \in UnderWay \ {"stream"} /\ ~run[r].rest
      /\ started' = started /\ server' = server
  BY DEF Searches!ProbeAnswers, UnderWay, SearchInv, RoomLeft
<1>2. /\ d \in SearchRecord /\ d.pc = "open"
      /\ d.count = run[r].count /\ d.cancelled = run[r].cancelled
      /\ d.rest = run[r].rest
  BY DEF SearchInv, SearchTypes, SearchRecord
<1>3. CASE run[r].found = "shell"
  <2>1. /\ run' = [run EXCEPT ![r] = d] /\ shown' = shown /\ painted' = painted
        /\ refresh' = refresh /\ running' = running /\ indicator' = indicator
    BY <1>3 DEF Searches!ProbeAnswers
  <2> HIDE DEF d
  <2>2. QED
    BY <1>1, <1>2, <2>1, QuietSearchStep
<1>4. CASE run[r].found # "shell"
  BY <1>1, <1>4, UnavailableKeeps DEF Searches!ProbeAnswers
<1>5. QED
  BY <1>3, <1>4

\* The connection is lost before the stream is open, or the stream fails.
LEMMA SearchLostKeeps ==
    ASSUME SearchInv, NEW r \in Searches!Run, Searches!Lost(r)
    PROVE  SearchInv'
  BY SearchEndsOrFails DEF Searches!Lost, UnderWay

\* The stream opens; a search cancelled meanwhile closes it.
LEMMA ChannelOpensKeeps ==
    ASSUME SearchInv, NEW r \in Searches!Run, Searches!ChannelOpens(r)
    PROVE  SearchInv'
<1> DEFINE d == [run[r] EXCEPT !.pc = "stream", !.limited = run[r].cancelled]
<1>1. run[r].pc = "open" /\ run[r].pc \in UnderWay
  BY DEF Searches!ChannelOpens, UnderWay
<1>2. /\ d \in SearchRecord /\ run' = [run EXCEPT ![r] = d] /\ d.pc = "stream"
      /\ d.count = run[r].count /\ d.cancelled = run[r].cancelled
      /\ d.rest = run[r].rest
      /\ d.limited = run[r].cancelled
  BY DEF Searches!ChannelOpens, SearchInv, SearchTypes, SearchRecord
<1>3. ~run[r].rest
  BY <1>1 DEF SearchInv, RoomLeft
<1> HIDE DEF d
<1>4. QED
  BY <1>1, <1>2, <1>3, QuietSearchStep DEF Searches!ChannelOpens

\* fallbackToBuiltInSearch has ended.
LEMMA FallbackDoneKeeps ==
    ASSUME SearchInv, NEW r \in Searches!Run, Searches!FallbackDone(r)
    PROVE  SearchInv'
<1> DEFINE d == [run[r] EXCEPT !.pc = "over"]
<1>1. run[r].pc = "fallback" /\ ~run[r].rest
  BY DEF Searches!FallbackDone, SearchInv, RoomLeft
<1>2. /\ d \in SearchRecord /\ run' = [run EXCEPT ![r] = d] /\ d.pc = "over"
      /\ d.count = run[r].count /\ d.cancelled = run[r].cancelled /\ d.rest = run[r].rest
  BY DEF Searches!FallbackDone, SearchInv, SearchTypes, SearchRecord
<1>3. /\ started' = started /\ server' = server /\ shown' = shown /\ painted' = painted
      /\ refresh' = refresh
      /\ \/ running' = running /\ indicator' = indicator
         \/ running = r /\ running' = 0 /\ indicator' = FALSE
  BY DEF Searches!FallbackDone, Searches!Over
<1>4. "over" \notin UnderWay
  BY DEF UnderWay
<1> HIDE DEF d
<1>5. QED
  BY <1>1, <1>2, <1>3, <1>4, QuietSearchStep

\* What Deliver takes fits, and fills the room only when it ends the stream.
LEMMA DeliverFits ==
    ASSUME NEW r, run[r].count \in 0 .. MaxResults, NEW n \in Nat
    PROVE  LET d == Searches!Deliver(r, n)
           IN  /\ d.count \in run[r].count .. MaxResults
               /\ d.full \in BOOLEAN
               /\ ~d.full => d.count < MaxResults
               /\ d.batch \in Seq([run : {r}, whole : BOOLEAN])
               /\ Len(d.batch) = d.count - run[r].count
<1> DEFINE room == MaxResults - run[r].count
           taken == IF n < room THEN n ELSE room
<1>1. room \in Nat /\ taken \in 0 .. room /\ (n < room => taken < room)
  BY SearchAssumption
<1>2. [i \in 1 .. taken |-> [run |-> r, whole |-> TRUE]] \in Seq([run : {r}, whole : BOOLEAN])
  <2>1. taken \in Nat
    BY <1>1
  <2> HIDE DEF taken
  <2>2. QED
    BY <2>1
<1>3. Len([i \in 1 .. taken |-> [run |-> r, whole |-> TRUE]]) = taken
  <2>1. taken \in Nat
    BY <1>1
  <2> HIDE DEF taken
  <2>2. QED
    BY <2>1
<1>4. Searches!Deliver(r, n) =
         [batch |-> [i \in 1 .. taken |-> [run |-> r, whole |-> TRUE]],
          count |-> run[r].count + taken, full |-> n >= room]
  BY DEF Searches!Deliver
<1> HIDE DEF taken, room
<1>5. (n >= room) \in BOOLEAN /\ (~(n >= room) => taken < room)
  BY <1>1 DEF taken
<1> DEFINE d == Searches!Deliver(r, n)
           batch == [i \in 1 .. taken |-> [run |-> r, whole |-> TRUE]]
<1>6. d.batch = batch /\ d.count = run[r].count + taken /\ d.full = (n >= room)
  BY <1>4
<1> HIDE DEF batch, d
<1>7. d.full \in BOOLEAN /\ (~d.full => taken < room)
  BY <1>5, <1>6
<1>8. /\ d.count \in run[r].count .. MaxResults /\ d.count - run[r].count = taken
      /\ taken < room => d.count < MaxResults
  BY <1>1, <1>6, SearchAssumption DEF room
<1>9. d.batch \in Seq([run : {r}, whole : BOOLEAN]) /\ Len(d.batch) = taken
  BY <1>2, <1>3, <1>6 DEF batch
<1>10. QED
  BY <1>7, <1>8, <1>9 DEF d

\* A chunk of the stream arrives: its lines are delivered up to the limit.
LEMMA ChunkKeeps ==
    ASSUME SearchInv, NEW r \in Searches!Run, Searches!Chunk(r)
    PROVE  SearchInv'
<1>1. PICK n \in 0 .. 2, rest \in BOOLEAN :
          /\ run' = [run EXCEPT ![r].count = Searches!Deliver(r, n).count,
                                ![r].limited = Searches!Deliver(r, n).full,
                                ![r].rest = rest]
          /\ Searches!Added(r, Searches!Deliver(r, n).batch)
  BY DEF Searches!Chunk
<1>2. /\ run[r].pc = "stream" /\ ~run[r].limited /\ ~run[r].cancelled
      /\ run[r] \in SearchRecord /\ run[r].count \in 0 .. MaxResults
      /\ started' = started /\ server' = server /\ running' = running
      /\ indicator' = indicator /\ painted' = painted
  BY DEF Searches!Chunk, SearchInv, SearchTypes, ToldToStop, SearchRecord
<1> DEFINE del == Searches!Deliver(r, n)
           d == [run[r] EXCEPT !.count = del.count, !.limited = del.full, !.rest = rest]
<1>3. /\ del.count \in run[r].count .. MaxResults /\ del.full \in BOOLEAN
      /\ ~del.full => del.count < MaxResults
      /\ del.batch \in Seq([run : {r}, whole : BOOLEAN])
      /\ Len(del.batch) = del.count - run[r].count
  <2>1. n \in Nat
    OBVIOUS
  <2>2. QED
    BY <1>2, <2>1, DeliverFits
<1> HIDE DEF del
<1>4. /\ d \in SearchRecord /\ run' = [run EXCEPT ![r] = d] /\ d.pc = "stream"
      /\ d.count = del.count /\ d.cancelled = run[r].cancelled /\ d.rest = rest
      /\ d.limited = del.full
  <2>1. del.count \in 0 .. MaxResults
    BY <1>2, <1>3, SearchAssumption
  <2>2. run' = [run EXCEPT ![r] = d]
    BY <1>1 DEF del
  <2>3. QED
    BY <1>2, <1>3, <2>1, <2>2 DEF SearchRecord
<1> HIDE DEF d
<1>5. r <= started /\ r \in Nat \ {0}
  BY <1>2, SearchAssumption DEF SearchInv, SearchTypes, Searches!NotStarted, Searches!Run
<1>6. "stream" \in UnderWay
  BY DEF UnderWay
<1>7. SearchTypes' /\ ToldToStop' /\ RoomLeft'
  BY <1>2, <1>3, <1>4, <1>5, <1>6, OneSearchMoves DEF SearchInv, SearchTypes
<1>8. run'[r] = d /\ \A x \in Searches!Run \ {r} : run'[x] = run[x]
  BY <1>4 DEF SearchInv, SearchTypes
<1>9. CASE running = r /\ del.batch # <<>>
  <2>1. running = started /\ running # 0
    BY <1>5, <1>9 DEF SearchInv, SearchTypes
  <2>2. shown' = shown \o del.batch /\ refresh' = TRUE
    BY <1>1, <1>9 DEF Searches!Added, del
  <2>3. /\ shown \in Seq([run : {started}, whole : BOOLEAN])
        /\ del.batch \in Seq([run : {started}, whole : BOOLEAN])
        /\ Len(shown) <= run[r].count /\ (indicator <=> running # 0)
    BY <1>3, <1>9, <2>1 DEF SearchInv, ShownCounted
  <2>4. /\ shown' \in Seq([run : {started}, whole : BOOLEAN])
        /\ Len(shown') = Len(shown) + Len(del.batch)
    BY <2>2, <2>3, ConcatProperties
  <2>5. Len(shown') <= run'[r].count
    BY <1>2, <1>3, <1>4, <1>8, <2>3, <2>4
  <2>6. ShownCounted'
    BY <1>2, <1>9, <2>1, <2>2, <2>3, <2>4, <2>5 DEF ShownCounted
  <2>7. QED
    BY <1>7, <2>6 DEF SearchInv
<1>10. CASE ~(running = r /\ del.batch # <<>>)
  <2>1. shown' = shown /\ refresh' = refresh
    BY <1>1, <1>10 DEF Searches!Added, del
  <2>2. running # 0 => run'[running].count = run[running].count
    <3>1. CASE running = r
      <4>1. del.count = run[r].count
        BY <1>2, <1>3, <1>10, <3>1
      <4>2. QED
        BY <1>4, <1>8, <3>1, <4>1
    <3>2. CASE running # r /\ running # 0
      <4>1. running \in Searches!Run
        BY <3>2, SearchAssumption DEF SearchInv, SearchTypes, Searches!Run
      <4>2. QED
        BY <1>8, <3>2, <4>1
    <3>3. QED
      BY <3>1, <3>2
  <2>3. ShownCounted'
    BY <1>2, <1>7, <2>1, <2>2, KeptCounted
  <2>4. QED
    BY <1>7, <2>3 DEF SearchInv
<1>11. QED
  BY <1>9, <1>10

\* The stream closes: the line that stayed behind is delivered, unless the
\* search was cancelled.
LEMMA StreamClosesKeeps ==
    ASSUME SearchInv, NEW r \in Searches!Run, NEW lost \in BOOLEAN,
           Searches!StreamCloses(r, lost)
    PROVE  SearchInv'
<1> DEFINE d == [run[r] EXCEPT !.pc = "over"]
           last == IF run[r].rest /\ ~run[r].limited
                   THEN <<[run |-> r, whole |-> ~lost]>> ELSE <<>>
<1>1. /\ run[r].pc = "stream" /\ run[r] \in SearchRecord
      /\ started' = started /\ server' = server
  BY DEF Searches!StreamCloses, SearchInv, SearchTypes
<1>2. /\ d \in SearchRecord /\ run' = [run EXCEPT ![r] = d] /\ d.pc = "over"
      /\ d.count = run[r].count /\ d.cancelled = run[r].cancelled /\ d.rest = run[r].rest
  BY DEF Searches!StreamCloses, SearchInv, SearchTypes, SearchRecord
<1> HIDE DEF d
<1>3. "over" \notin UnderWay
  BY DEF UnderWay
<1>4. r <= started /\ r \in Nat \ {0}
  BY <1>1, SearchAssumption DEF SearchInv, SearchTypes, Searches!NotStarted, Searches!Run
<1>5. CASE running = r
  <2>1. /\ running' = 0 /\ indicator' = FALSE
        /\ shown' = shown \o last /\ painted' = shown'
    BY <1>5 DEF Searches!StreamCloses, Searches!Over
  <2>2. SearchTypes' /\ ToldToStop' /\ RoomLeft'
    BY <1>1, <1>2, <1>3, <1>4, <1>5, <2>1, OneSearchMoves
  <2>3. running = started /\ running # 0
    BY <1>4, <1>5 DEF SearchInv, SearchTypes
  <2>4. /\ shown \in Seq([run : {started}, whole : BOOLEAN])
        /\ Len(shown) <= run[r].count
    BY <1>5, <2>3 DEF SearchInv, ShownCounted
  <2>5. last \in Seq([run : {started}, whole : BOOLEAN]) /\ run[r].count + Len(last) <= MaxResults
    <3>1. run[r].count \in 0 .. MaxResults
      BY <1>1 DEF SearchRecord
    <3>2. CASE run[r].rest /\ ~run[r].limited
      <4>1. run[r].count < MaxResults
        BY <1>1, <3>2 DEF SearchInv, RoomLeft
      <4>2. last = <<[run |-> started, whole |-> ~lost]>>
        BY <1>5, <2>3, <3>2
      <4>3. last \in Seq([run : {started}, whole : BOOLEAN]) /\ Len(last) = 1
        <5> DEFINE x == [run |-> started, whole |-> ~lost]
        <5>1. x \in [run : {started}, whole : BOOLEAN]
          OBVIOUS
        <5> HIDE DEF x, last
        <5>2. <<x>> \in Seq([run : {started}, whole : BOOLEAN]) /\ Len(<<x>>) = 1
          BY <5>1
        <5>3. QED
          BY <4>2, <5>2 DEF x
      <4>4. QED
        BY <3>1, <4>1, <4>3, SearchAssumption
    <3>3. CASE ~(run[r].rest /\ ~run[r].limited)
      BY <3>1, <3>3, SearchAssumption
    <3>4. QED
      BY <3>2, <3>3
  <2> HIDE DEF last
  <2>6. /\ shown' \in Seq([run : {started}, whole : BOOLEAN])
        /\ Len(shown') = Len(shown) + Len(last)
    BY <2>1, <2>4, <2>5, ConcatProperties
  <2>7. Len(shown') <= MaxResults
    <3>1. run[r].count \in Nat /\ Len(shown) \in Nat /\ Len(last) \in Nat
      BY <1>1, <2>4, <2>5, LenProperties, SearchAssumption DEF SearchRecord
    <3>2. QED
      BY <2>4, <2>5, <2>6, <3>1, SearchAssumption
  <2>8. ShownCounted'
    BY <1>1, <2>1, <2>6, <2>7 DEF ShownCounted
  <2>9. QED
    BY <2>2, <2>8 DEF SearchInv
<1>6. CASE running # r
  <2>1. /\ running' = running /\ indicator' = indicator
        /\ shown' = shown /\ painted' = painted /\ refresh' = refresh
    BY <1>6 DEF Searches!StreamCloses, Searches!Over
  <2>2. QED
    BY <1>1, <1>2, <1>3, <2>1, QuietSearchStep
<1>7. QED
  BY <1>5, <1>6

\* Every step of the searches keeps the invariant.
LEMMA SearchKept ==
    ASSUME SearchInv, [Searches!Next]_searching
    PROVE  SearchInv'
<1>1. CASE Searches!Search
  BY <1>1, SearchKeeps
<1>2. CASE Searches!Cancel
  <2>1. /\ run' = Searches!Cancelled /\ started' = started /\ server' = server
        /\ running' = running /\ indicator' = indicator /\ shown' = shown
        /\ painted' = painted /\ refresh' = refresh /\ running # 0
    BY <1>2 DEF Searches!Cancel
  <2>2. SearchTypes' /\ ToldToStop' /\ RoomLeft'
    BY <2>1, CancelKeeps
  <2>3. running' # 0 => run'[running'].count = run[running].count
    <3>1. running \in Searches!Run
      BY <2>1, SearchAssumption DEF SearchInv, SearchTypes, Searches!Run
    <3>2. QED
      BY <2>1, <3>1, CancelledTold
  <2>4. QED
    BY <2>1, <2>2, <2>3, KeptCounted DEF SearchInv
<1>3. CASE Searches!Clear
  <2>1. /\ run' = Searches!Cancelled /\ started' = started /\ server' = server
        /\ running' = 0 /\ indicator' = FALSE /\ Searches!Emptied
    BY <1>3 DEF Searches!Clear
  <2>2. SearchTypes' /\ ToldToStop' /\ RoomLeft'
    BY <2>1, CancelKeeps
  <2>3. QED
    BY <2>1, <2>2, EmptiedCounted DEF SearchInv
<1>4. CASE Searches!Edit
  BY <1>4 DEF Searches!Edit, SearchInv, SearchTypes, ToldToStop, RoomLeft, ShownCounted
<1>5. CASE Searches!Paint
  BY <1>5 DEF Searches!Paint, SearchInv, SearchTypes, ToldToStop, RoomLeft, ShownCounted
<1>6. ASSUME NEW r \in Searches!Run, NEW lost \in BOOLEAN,
             \/ Searches!Connected(r) \/ Searches!ProbeRuns(r) \/ Searches!ProbeAnswers(r)
             \/ Searches!Lost(r) \/ Searches!ChannelOpens(r) \/ Searches!Chunk(r)
             \/ Searches!FallbackDone(r) \/ Searches!StreamCloses(r, lost)
      PROVE  SearchInv'
  BY <1>6, ConnectedKeeps, ProbeRunsKeeps, ProbeAnswersKeeps, SearchLostKeeps,
     ChannelOpensKeeps, ChunkKeeps, FallbackDoneKeeps, StreamClosesKeeps
<1>7. CASE UNCHANGED searching
  BY <1>7 DEF searching, SearchInv, SearchTypes, ToldToStop, RoomLeft, ShownCounted
<1>8. QED
  BY <1>1, <1>2, <1>3, <1>4, <1>5, <1>6, <1>7 DEF Searches!Next

\* The invariant of the searches holds in every behaviour.
LEMMA SearchInvariance == Spec => [](part = "search" => SearchInv)
<1> DEFINE Inv == part = "search" => SearchInv
<1>1. Init => Inv
  BY SearchInit DEF Init
<1>2. Inv /\ [Next]_vars => Inv'
  BY SearchKept, PartSteps
<1> HIDE DEF Inv
<1>3. Spec => []Inv
  BY <1>1, <1>2, PTL DEF Spec
<1>4. QED
  BY <1>3 DEF Inv

\* The results are those of the search started last, up to the limit, however
\* many searches overlap and however late their answers come.
\* (remoteSearchCommands.ts:84-119, searchResultsProvider.ts:63-86)
THEOREM OnlyLatestCorrect == Spec => []OnlyLatest
<1>1. SearchInv => Searches!OnlyLatest
  <2> SUFFICES ASSUME SearchInv PROVE Searches!OnlyLatest
    OBVIOUS
  <2>1. Len(shown) <= MaxResults
    <3>1. CASE running = 0
      BY <3>1 DEF SearchInv, ShownCounted
    <3>2. CASE running # 0
      <4>1. run[running].count \in 0 .. MaxResults
        BY <3>2, SearchAssumption DEF SearchInv, SearchTypes, SearchRecord, Searches!Run
      <4>2. Len(shown) \in Nat /\ Len(shown) <= run[running].count
        BY <3>2, LenProperties DEF SearchInv, ShownCounted
      <4>3. QED
        BY <4>1, <4>2, SearchAssumption
    <3>3. QED
      BY <3>1, <3>2
  <2>2. \A i \in DOMAIN shown : shown[i].run = started
    <3>1. shown \in Seq([run : {started}, whole : BOOLEAN])
      BY DEF SearchInv, ShownCounted
    <3> TAKE i \in DOMAIN shown
    <3>2. i \in 1 .. Len(shown)
      BY <3>1, LenProperties
    <3>3. shown[i] \in [run : {started}, whole : BOOLEAN]
      BY <3>1, <3>2, ElementOfSeq
    <3>4. QED
      BY <3>3
  <2>3. QED
    BY <2>1, <2>2 DEF SearchInv, ShownCounted, Searches!OnlyLatest
<1>2. (part = "search" => SearchInv) => OnlyLatest
  BY <1>1 DEF OnlyLatest
<1>3. QED
  BY <1>2, SearchInvariance, PTL

\* A search that was superseded or cleared, at whatever stage, has been told
\* to stop by the time it runs on the server. (remoteSearchService.ts:75-76)
THEOREM NoOrphanCorrect == Spec => []NoOrphan
<1>1. (part = "search" => SearchInv) => NoOrphan
  BY DEF SearchInv, ToldToStop, UnderWay, NoOrphan, Searches!NoOrphan
<1>2. QED
  BY <1>1, SearchInvariance, PTL

-----------------------------------------------------------------------------
(* BackupService *)
BackupTask == [kind : {"daily", "manual"}, date : Nat]
BackupFile == [kind : {"daily", "manual", "weekly"}, date : Nat]
Phases == {"start", "write", "rename", "copy", "copying", "list", "delete"}

\* Those of a set of files that are newer than f, of its kind.
Later(S, f) == {g \in S : g.kind = f.kind /\ g.date > f.date}
Enough(S, f) == Cardinality(Later(S, f)) >= Keep[f.kind]

\* A task is under way from its start to its end.
TasksInv ==
    /\ day \in Nat /\ chain \in [Window -> Seq(BackupTask)] /\ at \in [Window -> Phases]
    /\ \A w \in Window : at[w] # "start" => chain[w] # <<>>

\* The folder is finite, and only weekly files are written in their place.
FolderInv == files \subseteq BackupFile /\ IsFiniteSet(files) /\ Backups!ListedWhole

\* What a pruning will delete has newer ones, whatever the other windows have
\* written and deleted since it read the folder: what they delete has as many.
DoomedInv ==
    /\ doomed \in [Window -> SUBSET BackupFile]
    /\ \A w \in Window : \A f \in doomed[w] : Enough(files, f)

BackupInv == TasksInv /\ FolderInv /\ DoomedInv

\* BackupService starts with an empty folder.
LEMMA BackupStart ==
    ASSUME Backups!Init
    PROVE  BackupInv
<1>1. TasksInv
  BY DEF Backups!Init, TasksInv, Phases
<1>2. FolderInv
  BY FS_EmptySet DEF Backups!Init, FolderInv, Backups!ListedWhole
<1>3. DoomedInv
  BY DEF Backups!Init, DoomedInv
<1>4. QED
  BY <1>1, <1>2, <1>3 DEF BackupInv

\* Further files leave enough of them.
LEMMA MoreIsEnough ==
    ASSUME NEW S, NEW T, IsFiniteSet(S), NEW f \in BackupFile, NEW e \in BackupFile,
           e.kind = f.kind, Later(T, f) \subseteq Later(S, e), Enough(T, f)
    PROVE  Enough(S, e)
<1>1. IsFiniteSet(Later(S, e))
  BY FS_Subset DEF Later
<1>2. /\ Cardinality(Later(T, f)) <= Cardinality(Later(S, e))
      /\ IsFiniteSet(Later(T, f))
  BY <1>1, FS_Subset
<1>3. Cardinality(Later(T, f)) \in Nat /\ Cardinality(Later(S, e)) \in Nat
  BY <1>1, <1>2, FS_CardinalityType
<1>4. Keep[f.kind] \in Nat /\ Keep[e.kind] = Keep[f.kind]
  BY BackupAssumption DEF BackupFile
<1>5. QED
  BY <1>2, <1>3, <1>4 DEF Enough

\* A step that prunes nothing: its file is there, the lists of others grow no
\* longer.
Shrinks ==
    /\ doomed' \in [Window -> SUBSET BackupFile]
    /\ \A w \in Window : doomed'[w] \subseteq doomed[w]

\* A file that is written, and no file.
LEMMA WriteKeeps ==
    ASSUME FolderInv, DoomedInv, Shrinks,
           \/ \E f \in BackupFile, whole \in BOOLEAN :
                 Backups!Write(f, whole) /\ (whole \/ f.kind = "weekly")
           \/ files' = files /\ torn' = torn
    PROVE  FolderInv' /\ DoomedInv' /\ files \subseteq files'
<1>1. CASE files' = files /\ torn' = torn
  <2>1. \A w \in Window : \A f \in doomed'[w] : Enough(files', f)
    BY <1>1 DEF DoomedInv, Shrinks
  <2>2. QED
    BY <1>1, <2>1 DEF FolderInv, DoomedInv, Shrinks, Backups!ListedWhole
<1>2. ASSUME NEW f \in BackupFile, NEW whole \in BOOLEAN, Backups!Write(f, whole),
             whole \/ f.kind = "weekly"
      PROVE  FolderInv' /\ DoomedInv' /\ files \subseteq files'
  <2>1. files' = files \cup {f} /\ torn' \subseteq torn \cup {f}
        /\ (whole => torn' \subseteq torn)
    BY <1>2 DEF Backups!Write
  <2>2. IsFiniteSet(files')
    BY <2>1, FS_AddElement DEF FolderInv
  <2>3. FolderInv'
    BY <1>2, <2>1, <2>2 DEF FolderInv, Backups!ListedWhole
  <2>4. ASSUME NEW w \in Window, NEW e \in doomed'[w] PROVE Enough(files', e)
    <3>1. e \in BackupFile /\ Enough(files, e)
      BY <2>4 DEF DoomedInv, Shrinks
    <3>2. Later(files, e) \subseteq Later(files', e)
      BY <2>1 DEF Later
    <3>3. QED
      BY <2>2, <3>1, <3>2, MoreIsEnough
  <2>5. QED
    BY <2>1, <2>3, <2>4 DEF DoomedInv, Shrinks
<1>3. QED
  BY <1>1, <1>2

\* A file that is pruned has its newer ones after the step, and so has every
\* other that is to be pruned: those newer than the pruned one are newer than
\* whatever it was newer than.
LEMMA DeleteKeeps ==
    ASSUME FolderInv, DoomedInv, NEW w \in Window, NEW f \in doomed[w], Shrinks,
           files' = files \ {f}, torn' = torn \ {f}
    PROVE  FolderInv' /\ DoomedInv' /\ Enough(files', f)
<1>1. f \in BackupFile /\ Enough(files, f)
  BY DEF DoomedInv
<1>2. IsFiniteSet(files')
  BY FS_Subset DEF FolderInv
<1>3. FolderInv'
  BY <1>2 DEF FolderInv, Backups!ListedWhole
<1>4. ~(f.date > f.date) /\ f.date \in Nat
  BY <1>1 DEF BackupFile
<1>5. Enough(files', f)
  <2>1. Later(files, f) \subseteq Later(files', f)
    BY <1>4 DEF Later
  <2>2. QED
    BY <1>1, <1>2, <2>1, MoreIsEnough
<1>6. ASSUME NEW v \in Window, NEW e \in doomed'[v] PROVE Enough(files', e)
  <2>1. e \in BackupFile /\ Enough(files, e)
    BY <1>6 DEF DoomedInv, Shrinks
  <2>2. CASE f \in Later(files, e)
    <3>1. f.kind = e.kind /\ f.date > e.date
      BY <2>2 DEF Later
    <3>2. \A g \in files : g.date > f.date => g.date > e.date
      BY <1>4, <2>1, <3>1 DEF FolderInv, BackupFile
    <3>3. Later(files, f) \subseteq Later(files', e)
      BY <1>4, <3>1, <3>2 DEF Later
    <3>4. QED
      BY <1>1, <1>2, <2>1, <3>1, <3>3, MoreIsEnough
  <2>3. CASE f \notin Later(files, e)
    <3>1. Later(files, e) \subseteq Later(files', e)
      BY <2>3 DEF Later
    <3>2. QED
      BY <1>2, <2>1, <3>1, MoreIsEnough
  <2>4. QED
    BY <2>2, <2>3
<1>7. QED
  BY <1>3, <1>5, <1>6 DEF DoomedInv, Shrinks

\* The step of a task that goes on.
LEMMA TaskGoes ==
    ASSUME TasksInv, NEW w \in Window, NEW p \in Phases \ {"start"}, Backups!At(w, p),
           NEW q \in Phases, Backups!Go(w, q)
    PROVE  TasksInv'
  BY DEF TasksInv, Backups!At, Backups!Go

\* The backup that has ended leaves the chain.
LEMMA TaskDone ==
    ASSUME TasksInv, DoomedInv, NEW w \in Window, chain[w] # <<>>, Backups!Done(w)
    PROVE  TasksInv' /\ Shrinks
<1>1. Tail(chain[w]) \in Seq(BackupTask)
  BY DEF TasksInv
<1>2. /\ chain' \in [Window -> Seq(BackupTask)]
      /\ \A v \in Window \ {w} : chain'[v] = chain[v]
  BY <1>1 DEF TasksInv, Backups!Done
<1>3. /\ at' \in [Window -> Phases] /\ at'[w] = "start"
      /\ \A v \in Window \ {w} : at'[v] = at[v]
  BY DEF TasksInv, Backups!Done, Phases
<1>4. TasksInv'
  BY <1>2, <1>3 DEF TasksInv, Backups!Done
<1>5. Shrinks
  BY DEF DoomedInv, Shrinks, Backups!Done
<1>6. QED
  BY <1>4, <1>5

\* The backup that is under way is the first of the chain.
LEMMA TaskUnderWay ==
    ASSUME TasksInv, NEW w \in Window, chain[w] # <<>>
    PROVE  /\ Backups!Task(w) \in BackupTask /\ Backups!Task(w) \in BackupFile
           /\ Tail(chain[w]) \in Seq(BackupTask)
<1>1. Head(chain[w]) \in BackupTask /\ Tail(chain[w]) \in Seq(BackupTask)
  BY HeadTailProperties DEF TasksInv
<1>2. BackupTask \subseteq BackupFile
  BY DEF BackupTask, BackupFile
<1>3. QED
  BY <1>1, <1>2 DEF Backups!Task

\* A step keeps the invariant, and what it deletes has enough newer ones.
BackupKeeps == BackupInv' /\ \A f \in files \ files' : Enough(files', f)

\* A step that deletes nothing.
LEMMA BackupGoes ==
    ASSUME BackupInv, TasksInv', Shrinks,
           \/ \E f \in BackupFile, whole \in BOOLEAN :
                 Backups!Write(f, whole) /\ (whole \/ f.kind = "weekly")
           \/ files' = files /\ torn' = torn
    PROVE  BackupKeeps
<1>1. FolderInv' /\ DoomedInv' /\ files \subseteq files'
  BY WriteKeeps DEF BackupInv
<1>2. QED
  BY <1>1 DEF BackupInv, BackupKeeps

\* A pruning that deletes nothing leaves its list as it is.
LEMMA SameDoomed ==
    ASSUME BackupInv, doomed' = doomed
    PROVE  Shrinks
  BY DEF BackupInv, DoomedInv, Shrinks

\* Requests of a backup, and the start of the next task.
LEMMA BackupBegins ==
    ASSUME BackupInv, NEW w \in Window,
           Backups!Start(w) \/ \E kind \in {"daily", "manual"} : Backups!Enqueue(w, kind)
    PROVE  BackupKeeps
<1>1. TasksInv /\ DoomedInv /\ files' = files /\ torn' = torn
  BY DEF BackupInv, Backups!Start, Backups!Enqueue
<1>2. \A kind \in {"daily", "manual"} : Backups!File(kind, day) \in BackupTask
  BY <1>1 DEF TasksInv, BackupTask, Backups!File
<1>3. ASSUME NEW kind \in {"daily", "manual"}, Backups!Enqueue(w, kind)
      PROVE  BackupKeeps
  <2>1. Append(chain[w], Backups!File(kind, day)) \in Seq(BackupTask) \ {<<>>}
    BY <1>1, <1>2 DEF TasksInv
  <2>2. TasksInv'
    BY <1>1, <1>3, <2>1 DEF TasksInv, Backups!Enqueue
  <2>3. QED
    BY <1>1, <1>3, <2>2, BackupGoes, SameDoomed DEF Backups!Enqueue
<1>4. CASE Backups!Start(w)
  <2>1. chain[w] # <<>>
    BY <1>4 DEF Backups!Start
  <2>2. CASE Backups!Done(w)
    BY <1>1, <2>1, <2>2, TaskDone, BackupGoes
  <2>3. CASE /\ at' = [at EXCEPT ![w] = "write"] /\ UNCHANGED <<day, doomed>>
             /\ \/ chain' = [chain EXCEPT ![w] = <<Backups!File("daily", day)>> \o Tail(@)]
                \/ chain' = chain
    <3>1. <<Backups!File("daily", day)>> \in Seq(BackupTask)
      BY <1>2
    <3>2. <<Backups!File("daily", day)>> \o Tail(chain[w]) \in Seq(BackupTask) \ {<<>>}
      BY <1>1, <2>1, <3>1, TaskUnderWay
    <3>3. /\ chain' \in [Window -> Seq(BackupTask)] /\ chain'[w] # <<>>
          /\ \A v \in Window \ {w} : chain'[v] = chain[v]
      BY <1>1, <2>1, <2>3, <3>2 DEF TasksInv
    <3>4. TasksInv'
      BY <1>1, <2>3, <3>3 DEF TasksInv, Phases
    <3>5. QED
      BY <1>1, <2>3, <3>4, BackupGoes, SameDoomed
  <2>4. QED
    BY <1>4, <2>2, <2>3 DEF Backups!Start
<1>5. QED
  BY <1>3, <1>4

\* Writing, renaming and copying.
LEMMA BackupWrites ==
    ASSUME BackupInv, NEW w \in Window,
           Backups!WriteTemp(w) \/ Backups!Rename(w) \/ Backups!Fail(w) \/ Backups!Promote(w)
    PROVE  BackupKeeps
<1>1. TasksInv /\ DoomedInv /\ at[w] # "start"
  BY DEF BackupInv, Backups!WriteTemp, Backups!Rename, Backups!Fail, Backups!Promote,
         Backups!At
<1>2. chain[w] # <<>>
  BY <1>1 DEF TasksInv
<1>3. Backups!Task(w) \in BackupTask /\ Backups!Task(w) \in BackupFile
      /\ Backups!File("weekly", Backups!Task(w).date) \in BackupFile
      /\ Backups!File("weekly", Backups!Task(w).date).kind = "weekly"
  <2>1. Backups!Task(w) \in BackupTask /\ Backups!Task(w) \in BackupFile
    BY <1>1, <1>2, TaskUnderWay
  <2>2. QED
    BY <2>1 DEF BackupTask, BackupFile, Backups!File
<1>4. CASE Backups!WriteTemp(w)
  <2>1. TasksInv'
    BY <1>1, <1>4, TaskGoes DEF Backups!WriteTemp, Phases
  <2>2. QED
    BY <1>4, <2>1, BackupGoes, SameDoomed DEF Backups!WriteTemp
<1>5. CASE Backups!Rename(w)
  <2>1. PICK q \in {"copy", "list"} : Backups!Go(w, q)
    BY <1>5 DEF Backups!Rename
  <2>2. TasksInv'
    BY <1>1, <1>5, <2>1, TaskGoes DEF Backups!Rename, Phases
  <2>3. QED
    BY <1>3, <1>5, <2>2, BackupGoes, SameDoomed DEF Backups!Rename
<1>6. CASE Backups!Fail(w)
  BY <1>1, <1>2, <1>6, TaskDone, BackupGoes DEF Backups!Fail
<1>7. CASE Backups!Promote(w)
  <2>1. PICK p \in {"copy", "copying"}, q \in {"copying", "list"} :
            Backups!At(w, p) /\ Backups!Go(w, q)
    BY <1>7 DEF Backups!Promote
  <2>2. TasksInv'
    BY <1>1, <2>1, TaskGoes DEF Phases
  <2>3. \/ \E whole \in BOOLEAN :
               Backups!Write(Backups!File("weekly", Backups!Task(w).date), whole)
        \/ files' = files /\ torn' = torn
    BY <1>7 DEF Backups!Promote
  <2>4. QED
    BY <1>3, <1>7, <2>2, <2>3, BackupGoes, SameDoomed DEF Backups!Promote
<1>8. QED
  BY <1>4, <1>5, <1>6, <1>7

\* The listing of the folder and the deletions that go by it.
LEMMA BackupPrunes ==
    ASSUME BackupInv, NEW w \in Window, Backups!List(w) \/ Backups!Delete(w)
    PROVE  BackupKeeps
<1>1. TasksInv /\ DoomedInv /\ FolderInv
  BY DEF BackupInv
<1>2. CASE Backups!List(w)
  <2>1. TasksInv'
    BY <1>1, <1>2, TaskGoes DEF Backups!List, Phases
  <2>2. files' = files /\ torn' = torn /\ doomed' = [doomed EXCEPT ![w] = Backups!Surplus]
    BY <1>2 DEF Backups!List
  <2>3. \A f \in Backups!Surplus : f \in BackupFile /\ Enough(files, f)
    BY <1>1 DEF FolderInv, Backups!Surplus, Backups!Newer, Enough, Later,
                Backups!Cardinality, Cardinality
  <2>4. DoomedInv'
    <3>1. doomed' \in [Window -> SUBSET BackupFile]
      BY <1>1, <2>2, <2>3 DEF DoomedInv
    <3>2. ASSUME NEW v \in Window, NEW f \in doomed'[v] PROVE Enough(files, f)
      BY <1>1, <2>2, <2>3, <3>2 DEF DoomedInv
    <3>3. QED
      BY <2>2, <3>1, <3>2 DEF DoomedInv
  <2>5. QED
    BY <1>1, <2>1, <2>2, <2>4 DEF BackupInv, BackupKeeps, FolderInv, Backups!ListedWhole
<1>3. CASE Backups!Delete(w)
  <2>1. chain[w] # <<>>
    BY <1>1, <1>3 DEF Backups!Delete, Backups!At, TasksInv
  <2>2. CASE Backups!Done(w) /\ UNCHANGED <<files, torn>>
    BY <1>1, <2>1, <2>2, TaskDone, BackupGoes
  <2>3. ASSUME NEW f \in doomed[w] \cap files, files' = files \ {f}, torn' = torn \ {f},
               doomed' = [doomed EXCEPT ![w] = @ \ {f}], UNCHANGED <<day, chain, at>>
        PROVE  BackupKeeps
    <3>1. Shrinks
      BY <1>1, <2>3 DEF DoomedInv, Shrinks
    <3>2. FolderInv' /\ DoomedInv' /\ Enough(files', f)
      BY <1>1, <2>3, <3>1, DeleteKeeps
    <3>3. TasksInv'
      BY <1>1, <2>3 DEF TasksInv
    <3>4. QED
      BY <2>3, <3>2, <3>3 DEF BackupInv, BackupKeeps
  <2>4. QED
    BY <1>3, <2>2, <2>3 DEF Backups!Delete
<1>4. QED
  BY <1>2, <1>3

\* Requests, writes, renames, prunings and closed windows keep the invariant.
LEMMA BackupKept ==
    ASSUME BackupInv, [Backups!Next]_backingUp
    PROVE  BackupKeeps
<1>1. CASE Backups!NextDay
  <2>1. TasksInv' /\ Shrinks
    BY <1>1, SameDoomed DEF BackupInv, TasksInv, Backups!NextDay
  <2>2. QED
    BY <1>1, <2>1, BackupGoes DEF Backups!NextDay
<1>2. ASSUME NEW w \in Window, Backups!Crash(w) PROVE BackupKeeps
  <2>1. TasksInv'
    BY <1>2 DEF BackupInv, TasksInv, Backups!Crash, Phases
  <2>2. Shrinks
    BY <1>2 DEF BackupInv, DoomedInv, Shrinks, Backups!Crash
  <2>3. QED
    BY <1>2, <2>1, <2>2, BackupGoes DEF Backups!Crash
<1>3. CASE UNCHANGED backingUp
  <2>1. TasksInv' /\ Shrinks /\ files' = files /\ torn' = torn
    BY <1>3, SameDoomed DEF backingUp, BackupInv, TasksInv
  <2>2. QED
    BY <2>1, BackupGoes
<1>4. QED
  BY <1>1, <1>2, <1>3, BackupBegins, BackupWrites, BackupPrunes
  DEF Backups!Next, Backups!Step

\* The invariant of the backups holds in every behaviour.
LEMMA BackupInvariance == Spec => [](part = "backup" => BackupInv)
<1> DEFINE Inv == part = "backup" => BackupInv
<1>1. Init => Inv
  BY BackupStart DEF Init
<1>2. Inv /\ [Next]_vars => Inv'
  BY BackupKept, PartSteps DEF BackupKeeps
<1> HIDE DEF Inv
<1>3. Spec => []Inv
  BY <1>1, <1>2, PTL DEF Spec
<1>4. QED
  BY <1>3 DEF Inv

\* A daily or manual backup that is listed is whole, whenever a window was
\* closed or whatever failed. (backupService.ts:54-72)
THEOREM ListedWholeCorrect == Spec => []ListedWhole
<1>1. (part = "backup" => BackupInv) => ListedWhole
  BY DEF BackupInv, FolderInv, ListedWhole
<1>2. QED
  BY <1>1, BackupInvariance, PTL

\* A backup is only ever deleted when as many newer ones of its kind are there
\* as are kept, though each window prunes by what it read before and they write
\* and prune at the same time. (backupService.ts:236-267)
THEOREM KeepsNewestCorrect == Spec => KeepsNewest
<1> DEFINE A == \A f \in files \ files' :
                  Backups!Cardinality({g \in files' : g.kind = f.kind /\ g.date > f.date})
                     >= Keep[f.kind]
<1>1. (part = "backup" => BackupInv) /\ [Next]_vars => [A]_backingUp
  <2> SUFFICES ASSUME part = "backup" => BackupInv, [Next]_vars, ~UNCHANGED backingUp
               PROVE  A
    OBVIOUS
  <2>1. part = "backup" /\ [Backups!Next]_backingUp
    BY PartSteps
  <2>2. \A f \in files \ files' : Enough(files', f)
    BY <2>1, BackupKept DEF BackupKeeps
  <2>3. QED
    BY <2>2 DEF Enough, Later, Backups!Cardinality, Cardinality
<1>2. QED
  BY <1>1, BackupInvariance, PTL DEF Spec, KeepsNewest, Backups!KeepsNewest, Backups!vars,
     backingUp

-----------------------------------------------------------------------------
(* FormFields and ConnectionForm *)
Page == [protocol : Fields!Protocol, port : Fields!Port, touched : BOOLEAN,
         secure : BOOLEAN, login : {"password", "key"}, proxy : BOOLEAN, jump : BOOLEAN,
         named : BOOLEAN]

\* The page shows FTP with a password only; until a port is typed it is that
\* of the protocol, unless a stored one is edited.
FieldsInv ==
    /\ page \in Page
    /\ edited # None => edited \in Fields!Config
    /\ page.protocol \notin Fields!ForSsh => page.login = "password"
    /\ edited = None =>
         page.port = IF page.touched THEN 20 ELSE Fields!DefaultPort(page.protocol)

\* The form of a new or an existing connection, as it is opened.
LEMMA FieldsStart ==
    ASSUME Fields!Init
    PROVE  FieldsInv
  BY DEF Fields!Init, Fields!Fresh, FieldsInv, Page, Fields!Protocol, Fields!Port,
     Fields!ForSsh, Fields!DefaultPort

\* Bringing the sections up to date keeps protocol and port.
LEMMA SectionsUpdated ==
    ASSUME NEW f \in Page
    PROVE  LET g == Fields!UpdateProtocolSections(f)
           IN  /\ g \in Page
               /\ g.protocol = f.protocol /\ g.port = f.port /\ g.touched = f.touched
               /\ g.protocol \notin Fields!ForSsh => g.login = "password"
  BY DEF Page, Fields!UpdateProtocolSections

\* Every change of a field updates what depends on it (updateProtocolSections),
\* in whatever order the answers arrive.
LEMMA FieldsKept ==
    ASSUME FieldsInv, [Fields!Next]_choosing
    PROVE  FieldsInv'
<1>1. CASE Fields!Prefill
  <2> DEFINE c == IF edited = None THEN Fields!NewConnection ELSE edited
             f == [protocol |-> c.protocol, port |-> c.port,
                   touched |-> edited # None, named |-> TRUE,
                   secure |-> c.secure, login |-> c.login,
                   proxy |-> page.proxy \/ c.proxy, jump |-> page.jump \/ c.jump]
  <2>1. page' = Fields!UpdateProtocolSections(f) /\ edited' = edited
    BY <1>1 DEF Fields!Prefill
  <2>2. c \in Fields!Config
    BY DEF FieldsInv, Fields!NewConnection, Fields!Config, Fields!Protocol, Fields!Port
  <2>3. f \in Page
    BY <2>2 DEF FieldsInv, Page, Fields!Config
  <2>4. edited = None =>
          f.port = IF f.touched THEN 20 ELSE Fields!DefaultPort(f.protocol)
    BY DEF Fields!NewConnection, Fields!DefaultPort, Fields!ForSsh
  <2> HIDE DEF f, c
  <2>5. QED
    BY <2>1, <2>3, <2>4, SectionsUpdated DEF FieldsInv
<1>2. CASE Fields!SetLabels
  BY <1>2, SectionsUpdated DEF Fields!SetLabels, FieldsInv
<1>3. CASE Fields!ChoosePort
  <2> DEFINE f == [page EXCEPT !.port = 20, !.touched = TRUE]
  <2>1. page' = f /\ edited' = edited
    BY <1>3 DEF Fields!ChoosePort, Fields!Show
  <2>2. 20 \in Fields!Port
    BY DEF Fields!Port
  <2>3. f \in Page /\ f.port = 20 /\ f.touched = TRUE
        /\ f.protocol = page.protocol /\ f.login = page.login
    BY <2>2 DEF FieldsInv, Page
  <2> HIDE DEF f
  <2>4. QED
    BY <2>1, <2>3 DEF FieldsInv
<1>4. ASSUME NEW p \in Fields!Protocol, Fields!ChooseProtocol(p)
      PROVE  FieldsInv'
  <2> DEFINE f == [page EXCEPT !.protocol = p,
                               !.port = IF page.touched THEN page.port
                                        ELSE Fields!DefaultPort(p)]
  <2>1. page' = Fields!UpdateProtocolSections(f) /\ edited' = edited
    BY <1>4 DEF Fields!ChooseProtocol, Fields!Show
  <2>2. Fields!DefaultPort(p) \in Fields!Port
    BY DEF Fields!DefaultPort, Fields!Port
  <2>3. f \in Page
    BY <2>2 DEF FieldsInv, Page
  <2>4. edited = None =>
          f.port = IF f.touched THEN 20 ELSE Fields!DefaultPort(f.protocol)
    BY DEF FieldsInv, Page
  <2> HIDE DEF f
  <2>5. QED
    BY <2>1, <2>3, <2>4, SectionsUpdated DEF FieldsInv
<1>5. ASSUME NEW l \in {"password", "key"}, Fields!ChooseLogin(l)
      PROVE  FieldsInv'
  BY <1>5 DEF Fields!ChooseLogin, Fields!Show, FieldsInv, Page
<1>6. ASSUME NEW b \in BOOLEAN, Fields!ChooseSecure(b)
      PROVE  FieldsInv'
  BY <1>6 DEF Fields!ChooseSecure, Fields!Show, FieldsInv, Page
<1>7. ASSUME NEW b \in BOOLEAN, Fields!ChooseProxy(b)
      PROVE  FieldsInv'
  BY <1>7 DEF Fields!ChooseProxy, Fields!Show, FieldsInv, Page
<1>8. ASSUME NEW b \in BOOLEAN, Fields!ChooseJump(b)
      PROVE  FieldsInv'
  BY <1>8 DEF Fields!ChooseJump, Fields!Show, FieldsInv, Page
<1>9. CASE UNCHANGED choosing
  BY <1>9 DEF choosing, FieldsInv
<1>10. QED
  BY <1>1, <1>2, <1>3, <1>4, <1>5, <1>6, <1>7, <1>8, <1>9 DEF Fields!Next

\* Whatever is chosen in whatever order, and whenever the second prefill
\* comes, an FTP connection is saved with nothing only SSH has, and a new one
\* has the port that was typed or that of its protocol.
\* (connectionForm.js:60-101, 472-542, connectionFormPanel.ts:461-510)
THEOREM SavedUsableCorrect == Spec => []SavedUsable
<1> DEFINE Inv == part = "fields" => FieldsInv
<1>1. Init => Inv
  BY FieldsStart DEF Init
<1>2. Inv /\ [Next]_vars => Inv'
  BY FieldsKept, PartSteps
<1>3. FieldsInv => Fields!SavedUsable
  BY DEF FieldsInv, Fields!SavedUsable, Fields!Saved, Fields!MapFormToConfig
<1>4. Inv => SavedUsable
  BY <1>3 DEF SavedUsable
<1> HIDE DEF Inv
<1>5. QED
  BY <1>1, <1>2, <1>4, PTL DEF Spec

-----------------------------------------------------------------------------
(* ConnectionForm *)

Entered == [of : Form!Owner \cup {Nobody}, secret : Form!Owner \cup {Nobody},
            path : Form!Owner \cup {Nobody}]

Pressed == [type : Button, id : Form!Owner, data : Entered]

\* The page is filled for whom the panel was opened last, or not yet.
PageInv ==
    /\ fields \in Entered
    /\ fields.of = Nobody => fields.secret = Nobody
    /\ pending \in [of : Form!Owner, path : Form!Owner \cup {Nobody}]
    /\ fields.of # Nobody => fields.of = pending.of /\ id = pending.of
    /\ fields.secret \in {fields.of, Nobody}
    /\ opened \in 0 .. MaxOpen /\ panel \in 0 .. MaxOpen

PrefillMessage ==
    [type : {"prefill"}, for : {pending.of}, path : Form!Owner \cup {Nobody}]
AnswerMessage == [type : Button, ok : BOOLEAN, path : Form!Owner \cup {Nobody}]

\* What is on its way to the page is for the connection it is opened for.
ToPageInv == toPage \in Seq(PrefillMessage \cup AnswerMessage)

\* What is on its way to the panel has the id its data were filled for.
ToHostInv ==
    /\ toHost \in Seq([type : {"ready", "cancel"}] \cup Pressed)
    /\ \A i \in 1 .. Len(toHost) :
         toHost[i] \in Pressed =>
            /\ toHost[i].data.of = toHost[i].id
            /\ toHost[i].data.secret \in {toHost[i].id, Nobody}

\* What is stored, or being stored, was entered for it.
StoredInv ==
    /\ stored \in [Conn -> Entered]
    /\ \A c \in Conn : stored[c].of = c /\ stored[c].secret \in {c, Nobody}

Job == [type : Button, panel : 0 .. MaxOpen, of : Form!Owner \cup {Nobody},
        using : SUBSET Conn]

JobInv == jobs \in Seq(Job)

FormInv == PageInv /\ ToPageInv /\ ToHostInv /\ StoredInv /\ JobInv

HostMessage == [type : {"ready", "cancel"}] \cup Pressed

\* No form is open.
LEMMA FormStart ==
    ASSUME Form!Init
    PROVE  FormInv
<1>1. PageInv
  <2>1. fields \in Entered /\ fields.of = Nobody /\ fields.secret = Nobody
    BY DEF Form!Init, Entered, Form!Blank
  <2>2. opened = 0 /\ panel = 0 /\ pending = [of |-> New, path |-> Nobody]
    BY DEF Form!Init
  <2>3. pending \in [of : Form!Owner, path : Form!Owner \cup {Nobody}]
    BY <2>2 DEF Form!Owner
  <2>4. opened \in 0 .. MaxOpen /\ panel \in 0 .. MaxOpen
    BY <2>2, FormAssumption
  <2>5. QED
    BY <2>1, <2>2, <2>3, <2>4 DEF PageInv
<1>2. toPage = <<>> /\ toHost = <<>> /\ jobs = <<>>
  BY DEF Form!Init
<1>3. ToPageInv /\ ToHostInv /\ JobInv
  BY <1>2 DEF ToPageInv, ToHostInv, JobInv
<1>4. StoredInv
  <2> DEFINE d(c) == [Form!Blank EXCEPT !.of = c, !.path = c]
  <2>1. stored = [c \in Conn |-> d(c)]
    BY DEF Form!Init
  <2>2. \A c \in Conn : d(c) \in Entered /\ d(c).of = c /\ d(c).secret = Nobody
    BY DEF Form!Blank, Entered, Form!Owner
  <2> HIDE DEF d
  <2>3. QED
    BY <2>1, <2>2 DEF StoredInv
<1>5. QED
  BY <1>1, <1>3, <1>4 DEF FormInv

\* One more message for the panel.
LEMMA HostMessageSent ==
    ASSUME ToHostInv, NEW m \in HostMessage, toHost' = Append(toHost, m),
           m \in Pressed => m.data.of = m.id /\ m.data.secret \in {m.id, Nobody}
    PROVE  ToHostInv'
<1>1. toHost \in Seq(HostMessage)
  BY DEF ToHostInv, HostMessage
<1>2. /\ toHost' \in Seq(HostMessage) /\ Len(toHost') = Len(toHost) + 1
      /\ Len(toHost) \in Nat
      /\ toHost'[Len(toHost) + 1] = m
      /\ \A i \in 1 .. Len(toHost) : toHost'[i] = toHost[i]
  BY <1>1, AppendProperties, LenProperties
<1>3. ASSUME NEW i \in 1 .. Len(toHost'), toHost'[i] \in Pressed
      PROVE  /\ toHost'[i].data.of = toHost'[i].id
             /\ toHost'[i].data.secret \in {toHost'[i].id, Nobody}
  <2>1. CASE i = Len(toHost) + 1
    BY <1>2, <1>3, <2>1
  <2>2. CASE i \in 1 .. Len(toHost)
    BY <1>2, <1>3, <2>2 DEF ToHostInv
  <2>3. QED
    BY <1>2, <2>1, <2>2
<1>4. QED
  BY <1>2, <1>3 DEF ToHostInv, HostMessage

\* The first message for the panel is taken.
LEMMA HostMessageTaken ==
    ASSUME ToHostInv, toHost # <<>>
    PROVE  /\ Head(toHost) \in HostMessage
           /\ Head(toHost) \in Pressed =>
                /\ Head(toHost).data.of = Head(toHost).id
                /\ Head(toHost).data.secret \in {Head(toHost).id, Nobody}
           /\ toHost' = Tail(toHost) => ToHostInv'
<1>1. toHost \in Seq(HostMessage)
  BY DEF ToHostInv, HostMessage
<1>2. /\ Head(toHost) \in HostMessage /\ Tail(toHost) \in Seq(HostMessage)
      /\ Len(toHost) \in Nat /\ Len(toHost) # 0
      /\ Len(Tail(toHost)) = Len(toHost) - 1
      /\ \A i \in 1 .. Len(Tail(toHost)) : Tail(toHost)[i] = toHost[i + 1]
  BY <1>1, HeadTailProperties, LenProperties, EmptySeq
<1>3. Head(toHost) = toHost[1] /\ 1 \in 1 .. Len(toHost)
  BY <1>1, <1>2
<1>4. ASSUME toHost' = Tail(toHost) PROVE ToHostInv'
  <2>1. ASSUME NEW i \in 1 .. Len(toHost'), toHost'[i] \in Pressed
        PROVE  /\ toHost'[i].data.of = toHost'[i].id
               /\ toHost'[i].data.secret \in {toHost'[i].id, Nobody}
    <3>1. i + 1 \in 1 .. Len(toHost) /\ toHost'[i] = toHost[i + 1]
      BY <1>2, <1>4, <2>1
    <3>2. QED
      BY <2>1, <3>1 DEF ToHostInv
  <2>2. QED
    BY <1>2, <1>4, <2>1 DEF ToHostInv, HostMessage
<1>5. QED
  BY <1>2, <1>3, <1>4 DEF ToHostInv

\* The page of a panel is told something.
LEMMA TellKeeps ==
    ASSUME ToPageInv, NEW p, NEW m \in PrefillMessage \cup AnswerMessage,
           Form!Tell(p, m), pending' = pending
    PROVE  ToPageInv'
<1>1. CASE toPage' = toPage
  BY <1>1 DEF ToPageInv, PrefillMessage, AnswerMessage
<1>2. CASE toPage' = Append(toPage, m)
  BY <1>2, AppendProperties DEF ToPageInv, PrefillMessage
<1>3. QED
  BY <1>1, <1>2 DEF Form!Tell

\* A form is closed: what is under way for it goes on.
LEMMA DisposedKeeps ==
    ASSUME FormInv, Form!Disposed, pending' = pending, opened' = opened
    PROVE  PageInv' /\ ToPageInv' /\ ToHostInv'
<1>1. PageInv'
  BY FormAssumption DEF FormInv, PageInv, Form!Disposed, Form!Blank, Entered, Form!Owner
<1>2. QED
  BY <1>1 DEF Form!Disposed, ToPageInv, ToHostInv

\* A save that is accepted.
LEMMA SavedKeeps ==
    ASSUME StoredInv, NEW m \in Pressed, m.data.of = m.id,
           m.data.secret \in {m.id, Nobody}, Form!Saved(m)
    PROVE  StoredInv'
<1>1. m.id \in Form!Owner /\ m.data \in Entered
  BY DEF Pressed
<1>2. CASE m.id \in Conn
  <2> DEFINE d == Form!Kept(m.id, m.data)
  <2>1. d \in Entered /\ d.of = m.id /\ d.secret \in {m.id, Nobody}
    BY <1>1, <1>2 DEF Form!Kept, StoredInv, Entered
  <2>2. stored' = [stored EXCEPT ![m.id] = d]
    BY <1>2 DEF Form!Saved
  <2> HIDE DEF d
  <2>3. QED
    BY <1>2, <2>1, <2>2 DEF StoredInv
<1>3. CASE m.id \notin Conn
  BY <1>3 DEF Form!Saved, StoredInv
<1>4. QED
  BY <1>2, <1>3

\* A save or a test that has ended leaves the others.
LEMMA JobRemoved ==
    ASSUME JobInv, NEW i \in DOMAIN jobs, Form!Over(i)
    PROVE  JobInv' /\ jobs[i] \in Job
<1>1. jobs \in Seq(Job) /\ i \in 1 .. Len(jobs) /\ Len(jobs) \in Nat
  BY LenProperties DEF JobInv
<1>2. jobs[i] \in Job
  BY <1>1
<1>3. SubSeq(jobs, 1, i - 1) \in Seq(Job)
  BY <1>1, SubSeqProperties
<1>4. SubSeq(jobs, i + 1, Len(jobs)) \in Seq(Job)
  BY <1>1, SubSeqProperties
<1>5. jobs' = SubSeq(jobs, 1, i - 1) \o SubSeq(jobs, i + 1, Len(jobs))
  BY DEF Form!Over
<1>6. jobs' \in Seq(Job)
  BY <1>3, <1>4, <1>5, ConcatProperties
<1>7. QED
  BY <1>2, <1>6 DEF JobInv

\* A form is opened for another connection, or for a new one.
LEMMA OpenKeeps ==
    ASSUME FormInv, NEW x \in Form!Owner, Form!Open(x)
    PROVE  FormInv'
<1> DEFINE path == IF x = New THEN Nobody ELSE stored[x].path
<1>1. /\ opened' = opened + 1 /\ opened < MaxOpen /\ ready' = FALSE
      /\ pending' = [of |-> x, path |-> path]
      /\ fields' = Form!Blank /\ id' = New
      /\ panel' = IF panel = 0 THEN opened' ELSE panel
      /\ toPage' = <<[type |-> "prefill", for |-> x, path |-> path]>>
      /\ toHost' = toHost /\ jobs' = jobs /\ stored' = stored
  BY DEF Form!Open, Form!Prefill
<1>2. path \in Form!Owner \cup {Nobody}
  BY DEF FormInv, StoredInv, Entered, Form!Owner
<1> HIDE DEF path
<1>3. PageInv'
  BY <1>1, <1>2, FormAssumption DEF FormInv, PageInv, Form!Blank, Entered
<1>4. ToPageInv'
  <2>1. [type |-> "prefill", for |-> x, path |-> path] \in PrefillMessage'
    BY <1>1, <1>2 DEF PrefillMessage
  <2>2. QED
    BY <1>1, <2>1 DEF ToPageInv
<1>5. ToHostInv' /\ StoredInv' /\ JobInv'
  BY <1>1 DEF FormInv, ToHostInv, StoredInv, JobInv
<1>6. QED
  BY <1>3, <1>4, <1>5 DEF FormInv

\* The user closes the form.
LEMMA CloseKeeps ==
    ASSUME FormInv, Form!Close
    PROVE  FormInv'
  BY DisposedKeeps DEF Form!Close, FormInv, StoredInv, JobInv

\* The page is loaded and says so.
LEMMA LoadKeeps ==
    ASSUME FormInv, Form!Load
    PROVE  FormInv'
<1>1. [type |-> "ready"] \in HostMessage /\ [type |-> "ready"] \notin Pressed
  BY DEF HostMessage, Pressed
<1>2. ToHostInv'
  BY <1>1, HostMessageSent DEF FormInv, Form!Load
<1>3. QED
  BY <1>2 DEF Form!Load, FormInv, PageInv, ToPageInv, PrefillMessage, StoredInv, JobInv

\* The page gets a message of the host.
LEMMA ReceiveKeeps ==
    ASSUME FormInv, Form!Receive
    PROVE  FormInv'
<1> DEFINE m == Head(toPage)
<1>1. /\ m \in PrefillMessage \cup AnswerMessage
      /\ Tail(toPage) \in Seq(PrefillMessage \cup AnswerMessage)
  BY HeadTailProperties DEF FormInv, ToPageInv, Form!Receive
<1> HIDE DEF m
<1>2. /\ toPage' = Tail(toPage)
      /\ UNCHANGED <<opened, panel, pending, ready, toHost, jobs, stored>>
  BY DEF Form!Receive
<1>3. ToPageInv'
  BY <1>1, <1>2 DEF ToPageInv, PrefillMessage
<1>4. ToHostInv' /\ StoredInv' /\ JobInv'
  BY <1>2 DEF FormInv, ToHostInv, StoredInv, JobInv
<1>5. CASE m.type = "prefill"
  <2>1. m.for = pending.of /\ m.path \in Form!Owner \cup {Nobody}
    BY <1>1, <1>5, FormAssumption DEF PrefillMessage, AnswerMessage
  <2>2. fields' = Form!Prefilled(m) /\ id' = pending.of
    BY <1>5, <2>1 DEF Form!Receive, m
  <2>3. /\ fields' \in Entered /\ fields'.of = pending.of
        /\ fields'.secret = fields.secret
    BY <2>1, <2>2 DEF FormInv, PageInv, Form!Prefilled, Entered
  <2>4. PageInv'
    BY <1>2, <2>2, <2>3, FormAssumption DEF FormInv, PageInv, Form!Owner
  <2>5. QED
    BY <1>3, <1>4, <2>4 DEF FormInv
<1>6. CASE m.type # "prefill"
  <2>1. m \in AnswerMessage
    BY <1>1, <1>6 DEF PrefillMessage
  <2>2. id' = id /\ fields' \in {fields, [fields EXCEPT !.path = m.path]}
    BY <1>6 DEF Form!Receive, m
  <2>3. fields' \in Entered /\ fields'.of = fields.of /\ fields'.secret = fields.secret
    BY <2>1, <2>2 DEF FormInv, PageInv, Entered, AnswerMessage
  <2>4. PageInv'
    BY <1>2, <2>2, <2>3 DEF FormInv, PageInv
  <2>5. QED
    BY <1>3, <1>4, <2>4 DEF FormInv
<1>7. QED
  BY <1>5, <1>6

\* The user presses Save or Test: the page sends its fields.
LEMMA ClickKeeps ==
    ASSUME FormInv, NEW b \in Button, Form!Click(b)
    PROVE  FormInv'
<1> DEFINE m == [type |-> b, id |-> id, data |-> fields]
<1>1. /\ ready /\ fields.of # Nobody /\ toHost' = Append(toHost, m)
      /\ UNCHANGED <<opened, panel, pending, ready, fields, id, toPage, jobs, stored>>
  BY DEF Form!Click, Form!Filled
<1>2. m \in Pressed /\ m.id = id /\ m.data = fields
  BY <1>1 DEF FormInv, PageInv, Pressed
<1> HIDE DEF m
<1>3. m.data.of = m.id /\ m.data.secret \in {m.id, Nobody} /\ m \in HostMessage
  BY <1>1, <1>2 DEF FormInv, PageInv, HostMessage
<1>4. ToHostInv'
  BY <1>1, <1>3, HostMessageSent DEF FormInv
<1>5. QED
  BY <1>1, <1>4 DEF FormInv, PageInv, ToPageInv, PrefillMessage, StoredInv, JobInv

\* The user presses Cancel.
LEMMA CancelKeepsForm ==
    ASSUME FormInv, Form!Cancel
    PROVE  FormInv'
<1>1. [type |-> "cancel"] \in HostMessage /\ [type |-> "cancel"] \notin Pressed
  BY DEF HostMessage, Pressed
<1>2. ToHostInv'
  BY <1>1, HostMessageSent DEF FormInv, Form!Cancel
<1>3. QED
  BY <1>2 DEF Form!Cancel, FormInv, PageInv, ToPageInv, PrefillMessage, StoredInv, JobInv

\* The user types a password.
LEMMA TypePasswordKeeps ==
    ASSUME FormInv, Form!TypePassword
    PROVE  FormInv'
<1>1. /\ fields.of # Nobody /\ fields' = [fields EXCEPT !.secret = fields.of]
      /\ UNCHANGED <<opened, panel, pending, ready, id, toHost, toPage, jobs, stored>>
  BY DEF Form!TypePassword, Form!Filled
<1>2. fields' \in Entered /\ fields'.of = fields.of /\ fields'.secret = fields.of
  BY <1>1 DEF FormInv, PageInv, Entered
<1>3. PageInv'
  BY <1>1, <1>2 DEF FormInv, PageInv
<1>4. QED
  BY <1>1, <1>3 DEF FormInv, ToPageInv, PrefillMessage, ToHostInv, StoredInv, JobInv

\* A save has ended; its form is closed.
LEMMA SaveEndsKeeps ==
    ASSUME FormInv, NEW i \in DOMAIN jobs, Form!SaveEnds(i)
    PROVE  FormInv'
<1>1. /\ JobInv' /\ jobs[i] \in Job /\ pending' = pending /\ opened' = opened
      /\ stored' = stored /\ jobs[i].type = "save"
  BY JobRemoved DEF FormInv, Form!SaveEnds
<1>2. CASE Form!Disposed
  BY <1>1, <1>2, DisposedKeeps DEF FormInv, StoredInv
<1>3. CASE /\ Form!Tell(jobs[i].panel, Form!Answer("save", FALSE, Nobody))
           /\ UNCHANGED <<panel, ready, fields, id, busy, toHost>>
  <2>1. Form!Answer("save", FALSE, Nobody) \in AnswerMessage
    BY <1>1 DEF Form!Answer, AnswerMessage, Job
  <2>2. ToPageInv'
    BY <1>1, <1>3, <2>1, TellKeeps DEF FormInv
  <2>3. QED
    BY <1>1, <1>3, <2>2 DEF FormInv, PageInv, ToHostInv, StoredInv
<1>4. QED
  BY <1>2, <1>3 DEF Form!SaveEnds

\* A test or a detection reads a further password.
LEMMA ReadSecretKeeps ==
    ASSUME FormInv, NEW i \in DOMAIN jobs, Form!ReadSecret(i)
    PROVE  FormInv'
<1> DEFINE d == [jobs[i] EXCEPT !.using = @ \cup {pending.of}]
<1>1. /\ jobs' = [jobs EXCEPT ![i] = d] /\ pending.of \in Conn
      /\ UNCHANGED <<opened, panel, pending, ready, fields, id, busy, toHost, toPage, stored>>
  BY DEF Form!ReadSecret, Form!editing
<1>2. jobs \in Seq(Job) /\ i \in 1 .. Len(jobs)
  BY LenProperties DEF FormInv, JobInv
<1>3. d \in Job
  <2>1. jobs[i] \in Job
    BY <1>2
  <2>2. QED
    BY <1>1, <2>1 DEF Job
<1> HIDE DEF d
<1>4. JobInv'
  BY <1>1, <1>2, <1>3, ExceptSeq DEF JobInv
<1>5. QED
  BY <1>1, <1>4 DEF FormInv, PageInv, ToPageInv, PrefillMessage, ToHostInv, StoredInv

\* A test of the connection has ended.
LEMMA TestEndsKeeps ==
    ASSUME FormInv, NEW i \in DOMAIN jobs, Form!TestEnds(i)
    PROVE  FormInv'
<1>1. /\ JobInv' /\ jobs[i] \in Job
      /\ UNCHANGED <<opened, panel, pending, ready, fields, id, busy, toHost, stored>>
  BY JobRemoved DEF FormInv, Form!TestEnds
<1>2. PICK ok \in BOOLEAN : Form!Tell(jobs[i].panel, Form!Answer(jobs[i].type, ok, jobs[i].of))
  BY DEF Form!TestEnds
<1>3. Form!Answer(jobs[i].type, ok, jobs[i].of) \in AnswerMessage
  BY <1>1 DEF Form!Answer, AnswerMessage, Job
<1>4. ToPageInv'
  BY <1>1, <1>2, <1>3, TellKeeps DEF FormInv
<1>5. QED
  BY <1>1, <1>4 DEF FormInv, PageInv, ToHostInv, StoredInv

\* The host handles the messages of the page in order.
LEMMA HandleMessageKeeps ==
    ASSUME FormInv, Form!HandleMessage
    PROVE  FormInv'
<1> DEFINE m == Head(toHost)
<1>1. /\ toHost # <<>> /\ m \in HostMessage
      /\ m \in Pressed => m.data.of = m.id /\ m.data.secret \in {m.id, Nobody}
      /\ opened' = opened /\ pending' = pending
  BY HostMessageTaken DEF FormInv, Form!HandleMessage
<1>2. CASE m.type = "cancel"
  <2>1. Form!Disposed /\ jobs' = jobs /\ stored' = stored
    BY <1>2 DEF Form!HandleMessage
  <2>2. QED
    BY <1>1, <2>1, DisposedKeeps DEF FormInv, StoredInv, JobInv
<1>3. CASE m.type = "ready"
  <2>1. /\ toHost' = Tail(toHost) /\ Form!Tell(panel, Form!Prefill(pending))
        /\ UNCHANGED <<panel, ready, fields, id, busy, jobs, stored>>
    BY <1>3 DEF Form!HandleMessage
  <2>2. ToHostInv'
    BY <1>1, <2>1, HostMessageTaken DEF FormInv
  <2>3. Form!Prefill(pending) \in PrefillMessage
    BY DEF FormInv, PageInv, Form!Prefill, PrefillMessage
  <2>4. ToPageInv'
    BY <1>1, <2>1, <2>3, TellKeeps DEF FormInv
  <2>5. QED
    BY <1>1, <2>1, <2>2, <2>4 DEF FormInv, PageInv, StoredInv, JobInv
<1>4. CASE m.type \notin {"cancel", "ready"}
  <2>1. m \in Pressed /\ m.data \in Entered /\ m.type \in Button
    BY <1>1, <1>4 DEF HostMessage, Pressed
  <2>2. /\ toHost' = Tail(toHost)
        /\ UNCHANGED <<panel, ready, fields, id, busy>>
    BY <1>4 DEF Form!HandleMessage
  <2>3. ToHostInv' /\ PageInv'
    BY <1>1, <2>2, HostMessageTaken DEF FormInv, PageInv
  <2>4. \A used \in SUBSET Conn : Form!Job(m, used) \in Job
    BY <2>1 DEF FormInv, PageInv, Entered, Form!Job, Job
  <2> HIDE DEF m
  <2>5. CASE m.type = "save"
    <3>1. Form!HandleSave(m)
      BY <1>4, <2>5 DEF Form!HandleMessage, m
    <3>2. CASE /\ Form!Saved(m) /\ toPage' = toPage
               /\ jobs' = Append(jobs, Form!Job(m, {}))
      <4>1. StoredInv'
        BY <1>1, <2>1, <3>2, SavedKeeps DEF FormInv
      <4>2. JobInv'
        BY <2>4, <3>2, AppendProperties DEF FormInv, JobInv
      <4>3. QED
        BY <1>1, <2>3, <3>2, <4>1, <4>2 DEF FormInv, ToPageInv, PrefillMessage
    <3>3. CASE /\ Form!Tell(panel, Form!Answer("save", FALSE, Nobody))
               /\ UNCHANGED <<stored, jobs>>
      <4>1. Form!Answer("save", FALSE, Nobody) \in AnswerMessage
        BY <2>1, <2>5 DEF Form!Answer, AnswerMessage
      <4>2. ToPageInv'
        BY <1>1, <3>3, <4>1, TellKeeps DEF FormInv
      <4>3. QED
        BY <2>3, <3>3, <4>2 DEF FormInv, StoredInv, JobInv
    <3>4. QED
      BY <3>1, <3>2, <3>3 DEF Form!HandleSave
  <2>6. CASE m.type # "save"
    <3>1. /\ \E used \in SUBSET Conn : jobs' = Append(jobs, Form!Job(m, used))
          /\ toPage' = toPage /\ stored' = stored
      BY <1>4, <2>6 DEF Form!HandleMessage, m
    <3>2. JobInv'
      BY <2>4, <3>1, AppendProperties DEF FormInv, JobInv
    <3>3. QED
      BY <1>1, <2>3, <3>1, <3>2 DEF FormInv, ToPageInv, PrefillMessage, StoredInv
  <2>7. QED
    BY <2>5, <2>6
<1>5. QED
  BY <1>2, <1>3, <1>4

\* Every step of the form keeps the invariant.
LEMMA FormKept ==
    ASSUME FormInv, [Form!Next]_filling
    PROVE  FormInv'
<1>1. CASE UNCHANGED filling
  BY <1>1 DEF filling, FormInv, PageInv, ToPageInv, PrefillMessage, ToHostInv, StoredInv,
     JobInv
<1>2. CASE Form!Next
  BY <1>2, OpenKeeps, CloseKeeps, HandleMessageKeeps, LoadKeeps, ReceiveKeeps,
     SaveEndsKeeps, ReadSecretKeeps, TestEndsKeeps, ClickKeeps, CancelKeepsForm, TypePasswordKeeps
     DEF Form!Next
<1>3. QED
  BY <1>1, <1>2

\* What is stored under an id was entered in a form filled for that id, its
\* password included, however forms, saves and messages overlap.
\* (connectionFormPanel.ts:195-234)
THEOREM SavedAsEnteredCorrect == Spec => []SavedAsEntered
<1> DEFINE Inv == part = "form" => FormInv
<1>1. Init => Inv
  BY FormStart DEF Init
<1>2. Inv /\ [Next]_vars => Inv'
  BY FormKept, PartSteps
<1>3. FormInv => Form!SavedAsEntered
  BY DEF FormInv, StoredInv, Form!SavedAsEntered
<1>4. Inv => SavedAsEntered
  BY <1>3 DEF SavedAsEntered
<1> HIDE DEF Inv
<1>5. QED
  BY <1>1, <1>2, <1>4, PTL DEF Spec

-----------------------------------------------------------------------------
(* FolderLabels *)
\* A name and a label; a folder of another place has the label 0.
Text == Labels!Name \cup {0, 1}
Call == [folder : Labels!WorkspaceFolder, to : Text]

LabelTypes ==
    /\ name \in [Labels!WorkspaceFolder -> Text] /\ real \in [Labels!WorkspaceFolder -> Text]
    /\ label \in [Labels!WorkspaceFolder -> Text]
    /\ calls \in Seq(Call) /\ events \in Nat

\* What was attempted are names of today, one of a folder, each by one call.
OncePerFolder ==
    /\ \A x \in attempted : \E f \in Labels!WorkspaceFolder : x = <<f, name[f]>>
    /\ IsFiniteSet(attempted) /\ renames = Cardinality(attempted)

\* The last of the calls under way for f gives it the name n.
LastCall(f, n) ==
    \E k \in 1 .. Len(calls) :
        /\ calls[k].folder = f /\ calls[k].to = n
        /\ \A j \in k + 1 .. Len(calls) : calls[j].folder # f

\* The name that was attempted is there, or comes with the last call.
ComesTrue(f) ==
    \/ real[f] = name[f] /\ \A i \in 1 .. Len(calls) : calls[i].folder # f
    \/ LastCall(f, name[f])

AttemptsComeTrue ==
    \A f \in Labels!WorkspaceFolder \ stubborn : <<f, name[f]>> \in attempted => ComesTrue(f)

AtRest ==
    events = 0 /\ calls = <<>> =>
        label = real /\ \A f \in Labels!WorkspaceFolder \ stubborn : real[f] = name[f]

LabelInv == LabelTypes /\ OncePerFolder /\ AttemptsComeTrue /\ AtRest

\* Folders with the labels they were opened with (activate).
LEMMA LabelInit ==
    ASSUME Labels!Init
    PROVE  LabelInv
  BY FS_EmptySet DEF Labels!Init, LabelInv, LabelTypes, OncePerFolder, AttemptsComeTrue,
                     AtRest, Text, Call

\* The folder a pass renames is one that may be renamed.
LEMMA FirstOf ==
    ASSUME NEW T \in SUBSET Labels!WorkspaceFolder, T # {}
    PROVE  Labels!Min(T) \in T
<1>1. T \in SUBSET Nat
  BY LabelsAssumption DEF Labels!WorkspaceFolder
<1>2. \E x \in T : \A y \in T : x =< y
  BY <1>1, Least
<1>3. QED
  BY <1>2 DEF Labels!Min

\* A pass, with the labels, the attempts and the count it is given.
LEMMA PassKeeps ==
    ASSUME NEW labels \in [Labels!WorkspaceFolder -> Text], NEW done, NEW count,
           LabelTypes, LabelTypes',
           \A x \in done : \E f \in Labels!WorkspaceFolder : x = <<f, name'[f]>>,
           IsFiniteSet(done), count = Cardinality(done),
           real' = real, stubborn' = stubborn,
           \A f \in Labels!WorkspaceFolder \ stubborn :
                <<f, name'[f]>> \in done => ComesTrue(f) /\ name'[f] = name[f],
           \/ labels = real
           \/ labels = label /\ events' = events /\ AtRest,
           Labels!Pass(labels, name', done, count)
    PROVE  OncePerFolder' /\ AttemptsComeTrue' /\ AtRest'
<1> DEFINE todo == Labels!Candidates(labels, name', done)
<1>1. CASE todo = {}
  <2>1. label' = labels /\ attempted' = done /\ renames' = count /\ calls' = calls
    BY <1>1 DEF Labels!Pass
  <2>2. OncePerFolder'
    BY <2>1 DEF OncePerFolder
  <2>3. AttemptsComeTrue'
    BY <2>1 DEF AttemptsComeTrue, ComesTrue, LastCall
  <2>4. ASSUME events' = 0, calls' = <<>>
        PROVE  label' = real' /\ \A f \in Labels!WorkspaceFolder \ stubborn' : real'[f] = name'[f]
    <3>1. label' = real
      BY <2>1, <2>4 DEF AtRest
    <3>2. ASSUME NEW f \in Labels!WorkspaceFolder \ stubborn PROVE real[f] = name'[f]
      <4>1. labels[f] = name'[f] \/ <<f, name'[f]>> \in done
        BY <1>1 DEF Labels!Candidates
      <4>2. CASE <<f, name'[f]>> \in done
        <5>1. Len(calls) = 0
          BY <2>1, <2>4
        <5>2. 1 .. Len(calls) = {}
          BY <5>1
        <5>3. ComesTrue(f) /\ name'[f] = name[f]
          BY <4>2
        <5>4. QED
          BY <5>2, <5>3 DEF ComesTrue, LastCall
      <4>3. QED
        BY <4>1, <4>2, <3>1, <2>1
    <3>3. QED
      BY <3>1, <3>2
  <2>5. QED
    BY <2>2, <2>3, <2>4 DEF AtRest
<1>2. CASE todo # {}
  <2> DEFINE f == Labels!Min(todo)
  <2> DEFINE c == [folder |-> f, to |-> name'[f]]
  <2>1. /\ attempted' = done \cup {<<f, name'[f]>>} /\ calls' = Append(calls, c)
        /\ renames' = count + 1
    BY <1>2 DEF Labels!Pass
  <2>2. f \in todo
    BY <1>2, FirstOf DEF Labels!Candidates
  <2>3. f \in Labels!WorkspaceFolder /\ <<f, name'[f]>> \notin done
    BY <2>2 DEF Labels!Candidates
  <2>4. c \in Call /\ c.folder = f /\ c.to = name'[f]
    BY <2>3 DEF Call, LabelTypes
  <2> HIDE DEF f, c, todo
  <2>5. /\ Len(calls') = Len(calls) + 1 /\ Len(calls) \in Nat /\ calls' # <<>>
        /\ calls'[Len(calls) + 1] = c
        /\ \A i \in 1 .. Len(calls) : calls'[i] = calls[i]
    BY <2>1, <2>4, AppendProperties, LenProperties DEF LabelTypes
  <2>6. OncePerFolder'
    <3>1. IsFiniteSet(attempted') /\ Cardinality(attempted') = count + 1
      BY <2>1, <2>3, FS_AddElement
    <3>2. \A x \in attempted' : \E g \in Labels!WorkspaceFolder : x = <<g, name'[g]>>
      BY <2>1, <2>3
    <3>3. QED
      BY <2>1, <3>1, <3>2 DEF OncePerFolder
  <2>7. ASSUME NEW g \in Labels!WorkspaceFolder \ stubborn', <<g, name'[g]>> \in attempted'
        PROVE  ComesTrue(g)'
    <3>1. CASE g = f
      <4>1. Len(calls') \in 1 .. Len(calls') /\ Len(calls') + 1 .. Len(calls') = {}
        BY <2>5
      <4>2. LastCall(g, name[g])'
        BY <4>1, <2>4, <2>5, <3>1 DEF LastCall
      <4>3. QED
        BY <4>2 DEF ComesTrue
    <3>2. CASE g # f
      <4>1. <<g, name'[g]>> \in done
        BY <2>1, <2>7, <3>2
      <4>2. ComesTrue(g) /\ name'[g] = name[g]
        BY <4>1, <2>7
      <4>3. CASE real[g] = name[g] /\ \A i \in 1 .. Len(calls) : calls[i].folder # g
        <5>1. \A i \in 1 .. Len(calls') : i \in 1 .. Len(calls) \/ i = Len(calls) + 1
          BY <2>5
        <5>2. \A i \in 1 .. Len(calls') : calls'[i].folder # g
          BY <4>3, <5>1, <2>4, <2>5, <3>2
        <5>3. QED
          BY <4>2, <4>3, <5>2 DEF ComesTrue
      <4>4. CASE LastCall(g, name[g])
        <5>1. PICK k \in 1 .. Len(calls) :
                /\ calls[k].folder = g /\ calls[k].to = name[g]
                /\ \A j \in k + 1 .. Len(calls) : calls[j].folder # g
          BY <4>4 DEF LastCall
        <5>2. k \in 1 .. Len(calls') /\ calls'[k] = calls[k]
          BY <2>5
        <5>3. \A j \in k + 1 .. Len(calls') : j \in k + 1 .. Len(calls) \/ j = Len(calls) + 1
          BY <2>5
        <5>4. \A j \in k + 1 .. Len(calls) : calls'[j] = calls[j]
          BY <2>5
        <5>5. \A j \in k + 1 .. Len(calls') : calls'[j].folder # g
          BY <5>1, <5>3, <5>4, <2>4, <2>5, <3>2
        <5>6. LastCall(g, name[g])'
          BY <5>1, <5>2, <5>5, <4>2 DEF LastCall
        <5>7. QED
          BY <5>6 DEF ComesTrue
      <4>5. QED
        BY <4>2, <4>3, <4>4 DEF ComesTrue
    <3>3. QED
      BY <3>1, <3>2
  <2>8. QED
    BY <2>5, <2>6, <2>7 DEF AtRest, AttemptsComeTrue
<1>3. QED
  BY <1>1, <1>2

\* The call that is carried out leaves the queue, the label of its folder follows.
LEMMA HeadCarriedOut ==
    ASSUME LabelInv, calls # <<>>,
           real' = Labels!Applied(Head(calls)), calls' = Tail(calls),
           name' = name, stubborn' = stubborn,
           NEW f \in Labels!WorkspaceFolder \ stubborn, ComesTrue(f)
    PROVE  ComesTrue(f)'
<1> DEFINE h == Head(calls)
<1>1. /\ h = calls[1] /\ h \in Call /\ Len(calls') = Len(calls) - 1
      /\ Len(calls) \in Nat \ {0} /\ Len(calls') \in Nat
      /\ \A i \in 1 .. Len(calls') : calls'[i] = calls[i + 1]
  BY HeadTailProperties, EmptySeq, LenProperties DEF LabelInv, LabelTypes
<1>2. h.folder \in Labels!WorkspaceFolder /\ real \in [Labels!WorkspaceFolder -> Text]
  BY <1>1 DEF Call, LabelInv, LabelTypes
<1>3. real'[f] = IF h.folder = f THEN h.to ELSE real[f]
  BY <1>2 DEF Labels!Applied
<1> HIDE DEF h
<1>4. CASE real[f] = name[f] /\ \A i \in 1 .. Len(calls) : calls[i].folder # f
  <2>1. h.folder # f
    BY <1>1, <1>4
  <2>2. \A i \in 1 .. Len(calls') : i + 1 \in 1 .. Len(calls)
    BY <1>1
  <2>3. \A i \in 1 .. Len(calls') : calls'[i].folder # f
    BY <1>1, <1>4, <2>2
  <2>4. QED
    BY <1>3, <1>4, <2>1, <2>3 DEF ComesTrue
<1>5. CASE LastCall(f, name[f])
  <2>1. PICK k \in 1 .. Len(calls) :
          /\ calls[k].folder = f /\ calls[k].to = name[f]
          /\ \A j \in k + 1 .. Len(calls) : calls[j].folder # f
    BY <1>5 DEF LastCall
  <2>2. CASE k = 1
    <3>1. real'[f] = name[f]
      BY <1>1, <1>3, <2>1, <2>2
    <3>2. \A i \in 1 .. Len(calls') : i + 1 \in k + 1 .. Len(calls)
      BY <1>1, <2>2
    <3>3. \A i \in 1 .. Len(calls') : calls'[i].folder # f
      BY <1>1, <2>1, <3>2
    <3>4. QED
      BY <3>1, <3>3 DEF ComesTrue
  <2>3. CASE k # 1
    <3>1. k - 1 \in 1 .. Len(calls') /\ calls'[k - 1] = calls[k]
      BY <1>1, <2>3
    <3>2. \A j \in (k - 1) + 1 .. Len(calls') :
              j + 1 \in k + 1 .. Len(calls) /\ j \in 1 .. Len(calls')
      BY <1>1, <2>3
    <3>3. \A j \in (k - 1) + 1 .. Len(calls') : calls'[j].folder # f
      BY <1>1, <2>1, <3>2
    <3>4. LastCall(f, name[f])'
      BY <2>1, <3>1, <3>3 DEF LastCall
    <3>5. QED
      BY <3>4 DEF ComesTrue
  <2>4. QED
    BY <2>2, <2>3
<1>6. QED
  BY <1>4, <1>5 DEF ComesTrue

\* Every step keeps the labels, calls and attempts within their types.
LEMMA LabelTypesKept ==
    ASSUME LabelTypes, Labels!Next
    PROVE  LabelTypes'
<1> DEFINE Kept == calls' \in Seq(Call) /\ label' \in [Labels!WorkspaceFolder -> Text]
<1>1. ASSUME NEW labels \in [Labels!WorkspaceFolder -> Text], NEW done, NEW count,
             name' \in [Labels!WorkspaceFolder -> Text], Labels!Pass(labels, name', done, count)
      PROVE  Kept
  <2> DEFINE todo == Labels!Candidates(labels, name', done)
  <2>1. CASE todo = {}
    BY <1>1, <2>1 DEF Labels!Pass, LabelTypes
  <2>2. CASE todo # {}
    <3> DEFINE f == Labels!Min(todo)
    <3> DEFINE c == [folder |-> f, to |-> name'[f]]
    <3>1. calls' = Append(calls, c) /\ label' = [labels EXCEPT ![f] = name'[f]]
      BY <1>1, <2>2 DEF Labels!Pass
    <3>2. f \in Labels!WorkspaceFolder
      BY <2>2, FirstOf DEF Labels!Candidates
    <3>3. c \in Call
      BY <3>2, <1>1 DEF Call
    <3> HIDE DEF f, c
    <3>4. QED
      BY <1>1, <3>1, <3>2, <3>3, AppendProperties DEF LabelTypes
  <2>3. QED
    BY <2>1, <2>2
<1>2. ASSUME calls # <<>>
      PROVE  Labels!Applied(Head(calls)) \in [Labels!WorkspaceFolder -> Text] /\ Tail(calls) \in Seq(Call)
  <2>1. Head(calls) \in Call /\ Tail(calls) \in Seq(Call)
    BY <1>2, HeadTailProperties DEF LabelTypes
  <2>2. Head(calls).to \in Text /\ real \in [Labels!WorkspaceFolder -> Text]
    BY <2>1 DEF Call, LabelTypes
  <2>3. QED
    BY <2>1, <2>2 DEF Labels!Applied
<1>3. CASE \E f \in Labels!WorkspaceFolder, n \in Labels!Name : Labels!ConnectionsChange(f, n)
  <2>1. PICK f \in Labels!WorkspaceFolder, n \in Labels!Name : Labels!ConnectionsChange(f, n)
    BY <1>3
  <2>2. name' \in [Labels!WorkspaceFolder -> Text]
    BY <2>1 DEF Labels!ConnectionsChange, LabelTypes, Text
  <2>3. /\ label \in [Labels!WorkspaceFolder -> Text] /\ Labels!Pass(label, name', {}, 0)
        /\ real' = real /\ events' = events
    BY <2>1 DEF Labels!ConnectionsChange, LabelTypes
  <2>4. Kept
    BY <1>1, <2>2, <2>3
  <2>5. QED
    BY <2>2, <2>3, <2>4 DEF LabelTypes
<1>4. CASE Labels!CarryOut
  BY <1>2, <1>4 DEF Labels!CarryOut, LabelTypes
<1>5. CASE Labels!Restart
  <2>1. /\ calls # <<>> /\ real' = Labels!Applied(Head(calls)) /\ label' = real'
        /\ calls' \in {<<>>, Tail(calls)} /\ events' = 1 /\ name' = name
    BY <1>5 DEF Labels!Restart
  <2>2. <<>> \in Seq(Call)
    BY EmptySeq
  <2>3. QED
    BY <1>2, <2>1, <2>2 DEF LabelTypes
<1>6. CASE Labels!FoldersChanged
  <2>1. name' \in [Labels!WorkspaceFolder -> Text] /\ Labels!Pass(real, name', attempted, renames)
    BY <1>6 DEF Labels!FoldersChanged, LabelTypes, Labels!Pass, Labels!Candidates
  <2>2. Kept
    <3>1. real \in [Labels!WorkspaceFolder -> Text]
      BY DEF LabelTypes
    <3>2. QED
      BY <1>1, <2>1, <3>1
  <2>3. events' \in Nat /\ real' = real
    BY <1>6 DEF Labels!FoldersChanged, LabelTypes
  <2>4. QED
    BY <2>1, <2>2, <2>3 DEF LabelTypes
<1>7. QED
  BY <1>3, <1>4, <1>5, <1>6 DEF Labels!Next

\* A pass renames a folder once per name, so every step keeps the invariant.
LEMMA LabelStep ==
    ASSUME LabelInv, Labels!Next
    PROVE  LabelInv'
<1> USE DEF LabelInv
<1>0. LabelTypes'
  BY LabelTypesKept
<1>1. CASE \E f \in Labels!WorkspaceFolder, n \in Labels!Name : Labels!ConnectionsChange(f, n)
  <2>1. PICK f \in Labels!WorkspaceFolder, n \in Labels!Name : Labels!ConnectionsChange(f, n)
    BY <1>1
  <2>2. /\ label \in [Labels!WorkspaceFolder -> Text] /\ Labels!Pass(label, name', {}, 0)
        /\ real' = real /\ stubborn' = stubborn /\ events' = events
    BY <2>1 DEF Labels!ConnectionsChange, LabelTypes
  <2>3. QED
    BY <1>0, <2>2, PassKeeps, FS_EmptySet
<1>2. CASE Labels!CarryOut
  <2>1. /\ calls # <<>> /\ real' = Labels!Applied(Head(calls)) /\ calls' = Tail(calls)
        /\ events' = events + 1 /\ name' = name /\ stubborn' = stubborn
        /\ attempted' = attempted /\ renames' = renames
    BY <1>2 DEF Labels!CarryOut
  <2>2. AttemptsComeTrue'
    <3>1. ASSUME NEW f \in Labels!WorkspaceFolder \ stubborn', <<f, name'[f]>> \in attempted'
          PROVE  ComesTrue(f)'
      <4>1. ComesTrue(f)
        BY <2>1, <3>1 DEF AttemptsComeTrue
      <4>2. QED
        BY <2>1, <4>1, HeadCarriedOut
    <3>2. QED
      BY <3>1 DEF AttemptsComeTrue
  <2>3. OncePerFolder' /\ AtRest'
    BY <2>1 DEF OncePerFolder, AtRest, LabelTypes
  <2>4. QED
    BY <1>0, <2>2, <2>3
<1>3. CASE Labels!Restart
  <2>1. attempted' = {} /\ renames' = 0 /\ events' = 1
    BY <1>3 DEF Labels!Restart
  <2>2. QED
    BY <1>0, <2>1, FS_EmptySet DEF OncePerFolder, AttemptsComeTrue, AtRest
<1>4. CASE Labels!FoldersChanged
  <2>1. /\ real \in [Labels!WorkspaceFolder -> Text] /\ Labels!Pass(real, name', attempted, renames)
        /\ real' = real /\ stubborn' = stubborn /\ name' = name
    BY <1>4 DEF Labels!FoldersChanged, LabelTypes, Labels!Pass, Labels!Candidates
  <2>2. /\ IsFiniteSet(attempted) /\ renames = Cardinality(attempted)
        /\ \A x \in attempted : \E f \in Labels!WorkspaceFolder : x = <<f, name'[f]>>
    BY <2>1 DEF OncePerFolder
  <2>3. \A f \in Labels!WorkspaceFolder \ stubborn :
            <<f, name'[f]>> \in attempted => ComesTrue(f) /\ name'[f] = name[f]
    BY <2>1 DEF AttemptsComeTrue
  <2>4. QED
    BY <1>0, <2>1, <2>2, <2>3, PassKeeps
<1>5. QED
  BY <1>1, <1>2, <1>3, <1>4 DEF Labels!Next

\* A folder is attempted once, so there are no more calls than folders.
LEMMA NoLoop ==
    ASSUME OncePerFolder
    PROVE  renames <= Count
<1> DEFINE first == [x \in attempted |-> x[1]]
<1>1. first \in Injection(attempted, 1 .. Count)
  BY DEF OncePerFolder, Injection, IsInjective, Labels!WorkspaceFolder
<1>2. IsFiniteSet(1 .. Count) /\ Cardinality(1 .. Count) = Count
  BY LabelsAssumption, FS_Interval
<1>3. QED
  BY <1>1, <1>2, FS_Injection DEF OncePerFolder

\* Whatever the folders are called and however the calls, events and restarts
\* interleave: syncWorkspaceFolderNames renames a folder at most once per name,
\* and when nothing is on its way every folder that can be renamed has the label
\* of its connection. (extension.ts, syncWorkspaceFolderNames)
THEOREM LabelsSettleCorrect == Spec => []LabelsSettle
<1> DEFINE Inv == part = "labels" => LabelInv
<1>1. Init => Inv
  BY LabelInit DEF Init
<1>2. Inv /\ [Next]_vars => Inv'
  <2> SUFFICES ASSUME Inv, [Next]_vars, part' = "labels" PROVE LabelInv'
    OBVIOUS
  <2>1. part = "labels" /\ LabelInv /\ [Labels!Next]_labelling
    BY PartSteps
  <2>2. CASE Labels!Next
    BY <2>1, <2>2, LabelStep
  <2>3. CASE UNCHANGED labelling
    BY <2>1, <2>3 DEF labelling, LabelInv, LabelTypes, OncePerFolder, AttemptsComeTrue,
                      AtRest, ComesTrue, LastCall
  <2>4. QED
    BY <2>1, <2>2, <2>3
<1>3. Inv => LabelsSettle
  BY NoLoop DEF LabelsSettle, Labels!LabelsSettle, LabelInv, AtRest
<1>4. QED
  <2> HIDE DEF Inv
  <2>1. QED
    BY <1>1, <1>2, <1>3, PTL DEF Spec

-----------------------------------------------------------------------------
(* StoreMerge *)
FolderRecord == [at : Nat, in : Folder \cup {None}]
ConnRecord == [at : Nat, in : Folder \cup {None}, data : Secret]
Tree == [Folder -> FolderRecord \cup {None}]

\* A store whose secrets are those of its records.
Proper(s) ==
    /\ s \in Merging!Store(Nat, Secret)
    /\ \A c \in Conn : s.conn[c] # None => s.secret[c] = s.conn[c].data

\* One step of the walk of Loops.
Above(folders, x) == IF x = None \/ folders[x] = None THEN None ELSE folders[x].in

\* The walk from f.
Walk(u, folders, f) ==
    /\ u \in [0 .. Cardinality(Folder) -> Folder \cup {None}]
    /\ u[0] = f
    /\ \A i \in 1 .. Cardinality(Folder) : u[i] = Above(folders, u[i - 1])

\* There is a walk, and Loops looks at where it ends.
LEMMA WalkExists ==
    ASSUME NEW folders \in Tree, NEW f \in Folder
    PROVE  \E u : Walk(u, folders, f) /\ (Merging!Loops(folders, f) <=> u[Cardinality(Folder)] # None)
<1> DEFINE n == Cardinality(Folder)
<1>1. n \in Nat
  BY StoresAssumption, FS_CardinalityType
<1>2. \A x \in Folder \cup {None} : Above(folders, x) \in Folder \cup {None}
  BY DEF Above, Tree, FolderRecord
<1> DEFINE step == [i \in 1 .. n |-> [x \in Folder \cup {None} |-> Above(folders, x)]]
<1>3. step \in [1 .. n -> [Folder \cup {None} -> Folder \cup {None}]]
  BY <1>2
<1>4. PICK u \in [0 .. n -> Folder \cup {None}] :
           u[0] = f /\ \A m \in 1 .. n : u[m] = step[m][u[m - 1]]
  <2> DEFINE S == Folder \cup {None}
  <2>1. f \in S /\ step \in [1 .. n -> [S -> S]]
    BY <1>3
  <2>2. SUFFICES \E v \in [0 .. n -> S] : v[0] = f /\ \A m \in 1 .. n : v[m] = step[m][v[m - 1]]
    OBVIOUS
  <2> HIDE DEF step, n, S
  <2>3. QED
    BY <1>1, <2>1, Iteration
<1>5. \A m \in 1 .. n : m - 1 \in 0 .. n /\ u[m - 1] \in Folder \cup {None}
  BY <1>1
<1>6. \A m \in 1 .. n : u[m] = Above(folders, u[m - 1])
  BY <1>4, <1>5
<1> HIDE DEF step
<1>7. Walk(u, folders, f)
  BY <1>4, <1>6 DEF Walk
<1> DEFINE Ups(v) == v = [i \in 0 .. n |-> IF i = 0 THEN f
                            ELSE IF v[i - 1] = None \/ folders[v[i - 1]] = None THEN None
                            ELSE folders[v[i - 1]].in]
           w == CHOOSE v : Ups(v)
<1>8. Merging!Loops(folders, f) <=> w[n] # None
  <2>1. Merging!Cardinality(Folder) = n
    BY DEF Merging!Cardinality, Cardinality
  <2>2. QED
    BY <2>1 DEF Merging!Loops
<1>9. Ups(u)
  <2>1. \A i \in 0 .. n : u[i] = IF i = 0 THEN f
                            ELSE IF u[i - 1] = None \/ folders[u[i - 1]] = None THEN None
                            ELSE folders[u[i - 1]].in
    BY <1>1, <1>4, <1>6 DEF Above
  <2>2. u = [i \in 0 .. n |-> u[i]]
    OBVIOUS
  <2>3. QED
    BY <2>1, <2>2
<1>10. Ups(w)
  BY <1>9
<1>11. \A i \in 0 .. n : w[i] = IF i = 0 THEN f
                            ELSE IF w[i - 1] = None \/ folders[w[i - 1]] = None THEN None
                            ELSE folders[w[i - 1]].in
  BY <1>10
<1> HIDE DEF w, Ups
<1> DEFINE G == {i \in Nat : i <= n => w[i] = u[i]}
<1>12. 0 \in G
  BY <1>1, <1>4, <1>11
<1>13. ASSUME NEW i \in Nat, i \in G PROVE i + 1 \in G
  <2>1. SUFFICES ASSUME i + 1 <= n PROVE w[i + 1] = u[i + 1]
    BY <1>13
  <2>2. i + 1 \in 1 .. n /\ i + 1 \in 0 .. n /\ i + 1 # 0 /\ i + 1 - 1 = i /\ w[i] = u[i]
    BY <1>1, <1>13, <2>1
  <2>3. w[i + 1] = Above(folders, w[i])
    BY <1>11, <2>2 DEF Above
  <2>4. QED
    BY <1>6, <2>2, <2>3
<1>14. n \in G
  <2> HIDE DEF G, n
  <2>1. QED
    BY <1>1, <1>12, <1>13, Induction
<1>15. QED
  BY <1>1, <1>7, <1>8, <1>14

\* There is one walk only.
LEMMA WalkUnique ==
    ASSUME NEW folders \in Tree, NEW f \in Folder, NEW u, Walk(u, folders, f)
    PROVE  Merging!Loops(folders, f) <=> u[Cardinality(Folder)] # None
<1> DEFINE n == Cardinality(Folder)
<1>1. n \in Nat
  BY StoresAssumption, FS_CardinalityType
<1>2. PICK v : Walk(v, folders, f) /\ (Merging!Loops(folders, f) <=> v[n] # None)
  BY WalkExists
<1> DEFINE G == {i \in Nat : i <= n => u[i] = v[i]}
<1>3. 0 \in G
  BY <1>2 DEF Walk
<1>4. ASSUME NEW i \in Nat, i \in G PROVE i + 1 \in G
  <2>1. SUFFICES ASSUME i + 1 <= n PROVE u[i + 1] = v[i + 1]
    BY <1>4
  <2>2. i + 1 \in 1 .. n /\ i + 1 - 1 = i /\ u[i] = v[i]
    BY <1>1, <1>4, <2>1
  <2>3. u[i + 1] = Above(folders, u[i]) /\ v[i + 1] = Above(folders, v[i])
    BY <1>2, <2>2 DEF Walk
  <2>4. QED
    BY <2>2, <2>3
<1>5. n \in G
  <2> HIDE DEF G, n
  <2>1. QED
    BY <1>1, <1>3, <1>4, Induction
<1>6. QED
  BY <1>1, <1>2, <1>5

\* The folder g is taken to the root.
Rooted(folders, g) ==
    [f \in Folder |-> IF f = g THEN [folders[f] EXCEPT !.in = None] ELSE folders[f]]

\* Then g is in no cycle, and no other folder has come into one.
LEMMA RootedLoops ==
    ASSUME NEW folders \in Tree, NEW g \in Folder, folders[g] # None
    PROVE  /\ Rooted(folders, g) \in Tree
           /\ ~Merging!Loops(Rooted(folders, g), g)
           /\ \A f \in Folder : ~Merging!Loops(folders, f) => ~Merging!Loops(Rooted(folders, g), f)
<1> DEFINE n == Cardinality(Folder)
           after == Rooted(folders, g)
<1>1. n \in Nat /\ n # 0
  BY StoresAssumption, FS_CardinalityType, FS_EmptySet
<1>2. after[g] = [at |-> folders[g].at, in |-> None] /\ \A f \in Folder \ {g} : after[f] = folders[f]
  BY DEF Rooted, Tree, FolderRecord
<1>3. after[g] \in FolderRecord /\ after[g] # None /\ after[g].in = None
  <2>1. after[g] \in FolderRecord
    BY <1>2 DEF Tree, FolderRecord
  <2>2. QED
    BY <1>2, <2>1, StoresAssumption DEF FolderRecord
<1>4. after \in Tree
  <2>1. \A f \in Folder : after[f] \in FolderRecord \cup {None}
    BY <1>2, <1>3 DEF Tree
  <2>2. after = [f \in Folder |-> after[f]]
    BY DEF Rooted
  <2> HIDE DEF after
  <2>3. QED
    BY <2>1, <2>2 DEF Tree
<1> HIDE DEF after
\* A walk on the tree as it is after is one as before, until it ends.
<1>5. ASSUME NEW f \in Folder, NEW u, NEW v, Walk(u, folders, f), Walk(v, after, f)
      PROVE  \A i \in Nat : i <= n => v[i] = u[i] \/ v[i] = None
  <2> DEFINE G == {i \in Nat : i <= n => v[i] = u[i] \/ v[i] = None}
  <2>1. 0 \in G
    BY <1>5 DEF Walk
  <2>2. ASSUME NEW i \in Nat, i \in G PROVE i + 1 \in G
    <3>1. SUFFICES ASSUME i + 1 <= n PROVE v[i + 1] = u[i + 1] \/ v[i + 1] = None
      OBVIOUS
    <3>2. i + 1 \in 1 .. n /\ i + 1 - 1 = i /\ (v[i] = u[i] \/ v[i] = None) /\ i \in 0 .. n
      BY <1>1, <2>2, <3>1
    <3>3. v[i + 1] = Above(after, v[i]) /\ u[i + 1] = Above(folders, u[i])
          /\ v[i] \in Folder \cup {None}
      BY <1>5, <3>2 DEF Walk
    <3>4. QED
      BY <1>2, <1>3, <3>2, <3>3 DEF Above
  <2>3. \A i \in Nat : i \in G
    <3> HIDE DEF G
    <3>1. QED
      BY <2>1, <2>2, Induction
  <2>4. QED
    BY <2>3
<1>6. ASSUME NEW f \in Folder, ~Merging!Loops(folders, f)
      PROVE  ~Merging!Loops(after, f)
  <2>1. PICK u : Walk(u, folders, f) /\ (Merging!Loops(folders, f) <=> u[n] # None)
    BY WalkExists
  <2>2. PICK v : Walk(v, after, f) /\ (Merging!Loops(after, f) <=> v[n] # None)
    BY <1>4, WalkExists
  <2>3. v[n] = u[n] \/ v[n] = None
    BY <1>1, <1>5, <2>1, <2>2
  <2>4. QED
    BY <1>6, <2>1, <2>2, <2>3
<1>7. ~Merging!Loops(after, g)
  <2>1. PICK v : Walk(v, after, g) /\ (Merging!Loops(after, g) <=> v[n] # None)
    BY <1>4, WalkExists
  <2>2. v[1] = None
    <3>1. 1 \in 1 .. n /\ 1 - 1 = 0
      BY <1>1
    <3>2. v[1] = Above(after, v[0]) /\ v[0] = g
      BY <2>1, <3>1 DEF Walk
    <3>3. QED
      BY <1>3, <3>2 DEF Above
  <2> DEFINE G == {i \in Nat : i + 1 <= n => v[i + 1] = None}
  <2>3. 0 \in G
    BY <2>2
  <2>4. ASSUME NEW i \in Nat, i \in G PROVE i + 1 \in G
    <3>1. SUFFICES ASSUME i + 1 + 1 <= n PROVE v[i + 1 + 1] = None
      OBVIOUS
    <3>2. i + 1 + 1 \in 1 .. n /\ i + 1 + 1 - 1 = i + 1 /\ v[i + 1] = None
      BY <1>1, <2>4, <3>1
    <3>3. v[i + 1 + 1] = Above(after, v[i + 1])
      BY <2>1, <3>2 DEF Walk
    <3>4. QED
      BY <3>2, <3>3 DEF Above
  <2>5. \A i \in Nat : i \in G
    <3> HIDE DEF G
    <3>1. QED
      BY <2>3, <2>4, Induction
  <2>6. n - 1 \in Nat /\ n - 1 \in G
    BY <1>1, <2>5
  <2>7. v[n] = None
    BY <1>1, <2>6
  <2>8. QED
    BY <2>1, <2>7
<1>8. QED
  BY <1>4, <1>6, <1>7 DEF after

\* The folders as they are after n turns of the loop of CutCycles.
Cut(cut, folders, order, n) ==
    cut = [k \in 0 .. n |->
             IF k = 0 THEN folders
             ELSE [f \in Folder |->
                     IF f = order[k] /\ cut[k - 1][f] # None /\ Merging!Loops(cut[k - 1], f)
                     THEN [cut[k - 1][f] EXCEPT !.in = None] ELSE cut[k - 1][f]]]

\* One turn: the folder order[k] goes to the root if it is in a cycle.
Turn(fs, g) ==
    [f \in Folder |-> IF f = g /\ fs[f] # None /\ Merging!Loops(fs, f)
                      THEN [fs[f] EXCEPT !.in = None] ELSE fs[f]]

\* A turn leaves that folder in no cycle, and brings no other into one.
LEMMA TurnFacts ==
    ASSUME NEW fs \in Tree, NEW g \in Folder
    PROVE  /\ Turn(fs, g) \in Tree
           /\ Turn(fs, g)[g] # None => ~Merging!Loops(Turn(fs, g), g)
           /\ \A f \in Folder :
                 /\ Turn(fs, g)[f] = None <=> fs[f] = None
                 /\ fs[f] # None => /\ Turn(fs, g)[f].at = fs[f].at
                                    /\ Turn(fs, g)[f].in \in {fs[f].in, None}
                 /\ ~Merging!Loops(fs, f) => ~Merging!Loops(Turn(fs, g), f)
<1>1. CASE fs[g] # None /\ Merging!Loops(fs, g)
  <2>1. Turn(fs, g) = Rooted(fs, g)
    BY <1>1 DEF Turn, Rooted
  <2>2. Rooted(fs, g)[g] = [at |-> fs[g].at, in |-> None]
        /\ \A f \in Folder \ {g} : Rooted(fs, g)[f] = fs[f]
    BY <1>1 DEF Rooted, Tree, FolderRecord
  <2>3. Rooted(fs, g)[g] # None
    <3>1. Rooted(fs, g)[g] \in FolderRecord
      BY <1>1, <2>2 DEF Tree, FolderRecord
    <3>2. QED
      BY <3>1, StoresAssumption DEF FolderRecord
  <2>4. QED
    BY <1>1, <2>1, <2>2, <2>3, RootedLoops
<1>2. CASE ~(fs[g] # None /\ Merging!Loops(fs, g))
  <2>1. Turn(fs, g) = fs
    <3>1. \A f \in Folder : Turn(fs, g)[f] = fs[f]
      BY <1>2 DEF Turn
    <3>2. Turn(fs, g) = [f \in Folder |-> Turn(fs, g)[f]] /\ fs = [f \in Folder |-> fs[f]]
      BY DEF Turn, Tree
    <3>3. QED
      BY <3>1, <3>2
  <2>2. QED
    BY <1>2, <2>1
<1>3. QED
  BY <1>1, <1>2

\* The loop of CutCycles is defined.
LEMMA CutExists ==
    ASSUME NEW folders \in Tree, NEW n \in Nat, NEW order,
           \A k \in 1 .. n : order[k] \in Folder
    PROVE  \E x : Cut(x, folders, order, n)
<1> DEFINE step == [k \in 1 .. n |-> [fs \in Tree |-> Turn(fs, order[k])]]
<1>1. \A k \in 1 .. n, fs \in Tree : Turn(fs, order[k]) \in Tree
  BY TurnFacts
<1>2. step \in [1 .. n -> [Tree -> Tree]]
  BY <1>1
<1>3. PICK x \in [0 .. n -> Tree] : x[0] = folders /\ \A m \in 1 .. n : x[m] = step[m][x[m - 1]]
  <2> DEFINE S == Tree
  <2>1. folders \in S /\ step \in [1 .. n -> [S -> S]]
    BY <1>2
  <2>2. SUFFICES \E x \in [0 .. n -> S] :
                    x[0] = folders /\ \A m \in 1 .. n : x[m] = step[m][x[m - 1]]
    OBVIOUS
  <2> HIDE DEF step, S
  <2>3. QED
    BY <2>1, Iteration
<1>4. \A k \in 1 .. n : x[k] = Turn(x[k - 1], order[k])
  <2>1. \A k \in 1 .. n : k - 1 \in 0 .. n /\ x[k - 1] \in Tree
    OBVIOUS
  <2>2. QED
    BY <1>3, <2>1
<1>5. \A k \in 0 .. n : k = 0 \/ k \in 1 .. n
  OBVIOUS
<1>6. \A k \in 0 .. n : x[k] = IF k = 0 THEN folders ELSE Turn(x[k - 1], order[k])
  BY <1>3, <1>4, <1>5
<1> HIDE DEF step
<1>7. x = [k \in 0 .. n |-> IF k = 0 THEN folders ELSE Turn(x[k - 1], order[k])]
  <2>1. x = [k \in 0 .. n |-> x[k]]
    OBVIOUS
  <2>2. QED
    BY <1>6, <2>1
<1>8. Cut(x, folders, order, n)
  BY <1>7 DEF Cut, Turn
<1>9. QED
  BY <1>8

\* CutCycles keeps which folders there are and their times; and once every folder
\* has had its turn, none is its own ancestor.
LEMMA CutFacts ==
    ASSUME NEW folders \in Tree, NEW order \in Seq(Folder)
    PROVE  LET cut == Merging!CutCycles(folders, order)
           IN  /\ cut \in Tree
               /\ \A f \in Folder :
                     /\ cut[f] = None <=> folders[f] = None
                     /\ folders[f] # None => /\ cut[f].at = folders[f].at
                                             /\ cut[f].in \in {folders[f].in, None}
               /\ \A i \in 1 .. Len(order) :
                     cut[order[i]] # None => ~Merging!Loops(cut, order[i])
<1> DEFINE n == Len(order)
           c == CHOOSE x : Cut(x, folders, order, n)
<1>1. n \in Nat /\ \A k \in 1 .. n : order[k] \in Folder
  BY LenProperties, ElementOfSeq
<1>2. Merging!CutCycles(folders, order) = c[n]
  BY DEF Merging!CutCycles, Cut
<1>3. \E x : Cut(x, folders, order, n)
  <2> HIDE DEF n
  <2>1. QED
    BY <1>1, CutExists
<1>4. Cut(c, folders, order, n)
  BY <1>3
<1> HIDE DEF c
<1>5. c = [k \in 0 .. n |-> IF k = 0 THEN folders ELSE Turn(c[k - 1], order[k])]
  BY <1>4 DEF Cut, Turn
<1>6. c[0] = folders /\ \A k \in 1 .. n : c[k] = Turn(c[k - 1], order[k])
  BY <1>1, <1>5
<1> DEFINE Good(k) ==
             /\ c[k] \in Tree
             /\ \A f \in Folder :
                   /\ c[k][f] = None <=> folders[f] = None
                   /\ folders[f] # None => /\ c[k][f].at = folders[f].at
                                           /\ c[k][f].in \in {folders[f].in, None}
             /\ \A i \in 1 .. k : c[k][order[i]] # None => ~Merging!Loops(c[k], order[i])
           G == {k \in Nat : k <= n => Good(k)}
<1>7. 0 \in G
  BY <1>6
<1>8. ASSUME NEW k \in Nat, k + 1 <= n, Good(k) PROVE Good(k + 1)
  <2>1. k + 1 \in 1 .. n /\ k <= n /\ k + 1 - 1 = k
    BY <1>1, <1>8
  <2>3. Good(k)
    BY <1>8
  <2> DEFINE g == order[k + 1]
  <2>4. c[k] \in Tree /\ g \in Folder /\ c[k + 1] = Turn(c[k], g)
    BY <1>1, <1>6, <2>1, <2>3
  <2> HIDE DEF g
  <2>5. /\ c[k + 1] \in Tree
        /\ c[k + 1][g] # None => ~Merging!Loops(c[k + 1], g)
        /\ \A f \in Folder :
              /\ c[k + 1][f] = None <=> c[k][f] = None
              /\ c[k][f] # None => /\ c[k + 1][f].at = c[k][f].at
                                   /\ c[k + 1][f].in \in {c[k][f].in, None}
              /\ ~Merging!Loops(c[k], f) => ~Merging!Loops(c[k + 1], f)
    BY <2>4, TurnFacts
  <2>6. ASSUME NEW i \in 1 .. k + 1, c[k + 1][order[i]] # None
        PROVE  ~Merging!Loops(c[k + 1], order[i])
    <3>1. CASE i = k + 1
      BY <2>5, <2>6, <3>1 DEF g
    <3>2. CASE i # k + 1
      <4>1. i \in 1 .. k /\ order[i] \in Folder
        BY <1>1, <1>8, <3>2
      <4>2. QED
        BY <2>3, <2>5, <2>6, <4>1
    <3>3. QED
      BY <3>1, <3>2
  <2>7. QED
    BY <2>3, <2>5, <2>6
<1>9. n \in G
  <2> HIDE DEF Good
  <2>1. \A k \in Nat : k \in G => k + 1 \in G
    BY <1>1, <1>8
  <2>2. n \in Nat
    BY <1>1
  <2> HIDE DEF G, n
  <2>3. QED
    BY <1>7, <2>1, <2>2, Induction
<1>10. Good(n)
  BY <1>1, <1>9
<1>11. QED
  BY <1>2, <1>10

\* The winner of two records, if it outlives the tombstone.
Won(x, y, death) ==
    IF Merging!Survives(Merging!Newer(x, y), death) THEN Merging!Newer(x, y) ELSE None

\* Both devices find a winner of the same age, which the tombstone does not outdate.
LEMMA WonFacts ==
    ASSUME NEW R, \A z \in R : z # None /\ z.at \in Nat,
           NEW x \in R \cup {None}, NEW y \in R \cup {None}, NEW death \in Nat
    PROVE  /\ Won(x, y, death) \in R \cup {None}
           /\ Won(x, y, death) # None =>
                /\ death <= Won(x, y, death).at
                /\ Merging!LocalWins(x, y) => Won(x, y, death) = x
                /\ ~Merging!LocalWins(x, y) => Won(x, y, death) = y
           /\ Merging!At(Won(x, y, death)) = Merging!At(Won(y, x, death))
BY DEF Won, Merging!Survives, Merging!Newer, Merging!LocalWins, Merging!At

\* Only where a record lies changes, and only to the root.
LEMMA RerootFolder ==
    ASSUME NEW folders \in SUBSET Folder, NEW x \in FolderRecord \cup {None}
    PROVE  LET z == Merging!Reroot(x, folders)
           IN  /\ z \in FolderRecord \cup {None}
               /\ z = None <=> x = None
               /\ x # None => z.at = x.at /\ z.in \in folders \cup {None}
<1>1. None \notin Folder /\ None \notin FolderRecord
  BY StoresAssumption DEF FolderRecord
<1>2. CASE x = None \/ x.in \in folders
  BY <1>2 DEF Merging!Reroot
<1>3. CASE x # None /\ x.in = None
  BY <1>1, <1>3 DEF Merging!Reroot, FolderRecord
<1>4. CASE x # None /\ x.in \notin folders
  BY <1>1, <1>4 DEF Merging!Reroot, FolderRecord
<1>5. QED
  BY <1>2, <1>3, <1>4

\* The same of the record of a connection, whose data stay.
LEMMA RerootConn ==
    ASSUME NEW folders \in SUBSET Folder, NEW x \in ConnRecord \cup {None}
    PROVE  LET z == Merging!Reroot(x, folders)
           IN  /\ z \in ConnRecord \cup {None}
               /\ z = None <=> x = None
               /\ x # None => z.at = x.at /\ z.data = x.data /\ z.in \in folders \cup {None}
<1>1. None \notin Folder /\ None \notin ConnRecord
  BY StoresAssumption DEF ConnRecord
<1>2. CASE x = None \/ x.in \in folders
  BY <1>2 DEF Merging!Reroot
<1>3. CASE x # None /\ x.in \notin folders
  BY <1>1, <1>3 DEF Merging!Reroot, ConnRecord
<1>4. QED
  BY <1>2, <1>3

\* What a store has become of two, the first of which is its own.
Merged(s, l, r) ==
    /\ Proper(s) /\ Merging!IsForest(s) /\ s.dead = Merging!Deaths(l, r)
    /\ \A c \in Conn :
          LET z == Won(l.conn[c], r.conn[c], Merging!Deaths(l, r)[c])
          IN  /\ s.conn[c] = None <=> z = None
              /\ z # None => s.conn[c].at = z.at
    /\ \A f \in Folder :
          LET z == Won(l.folder[f], r.folder[f], Merging!Deaths(l, r)[f])
          IN  /\ s.folder[f] = None <=> z = None
              /\ z # None => s.folder[f].at = z.at

\* That is what Merge makes of them.
LEMMA MergeFacts ==
    ASSUME NEW l, Proper(l), NEW r, Proper(r),
           NEW p \in Merging!Bijection(1 .. Merging!Cardinality(Folder), Folder)
    PROVE  Merged(Merging!Merge(l, r, p, 0), l, r)
<1> DEFINE dead == Merging!Deaths(l, r)
           folders == [f \in Folder |-> Won(l.folder[f], r.folder[f], dead[f])]
           standing == {f \in Folder : folders[f] # None}
           conns == [c \in Conn |-> Won(l.conn[c], r.conn[c], dead[c])]
           tree == [f \in Folder |-> Merging!Reroot(folders[f], standing)]
           cut == Merging!CutCycles(tree, p)
           s == Merging!Merge(l, r, p, 0)
<1>1. /\ l.conn \in [Conn -> ConnRecord \cup {None}] /\ r.conn \in [Conn -> ConnRecord \cup {None}]
      /\ l.folder \in Tree /\ r.folder \in Tree
      /\ l.dead \in [Conn \cup Folder -> Nat] /\ r.dead \in [Conn \cup Folder -> Nat]
      /\ l.secret \in [Conn -> Secret \cup {None}] /\ r.secret \in [Conn -> Secret \cup {None}]
  BY DEF Proper, Merging!Store, Merging!Item, ConnRecord, FolderRecord, Tree
<1>2. None \notin Folder /\ None \notin FolderRecord /\ None \notin ConnRecord
  BY StoresAssumption DEF FolderRecord, ConnRecord
<1>3. dead \in [Conn \cup Folder -> Nat]
  BY <1>1 DEF Merging!Deaths, Merging!Item
<1>4. /\ s.conn = [c \in Conn |-> Merging!Reroot(conns[c], standing)]
      /\ s.folder = cut
      /\ s.dead = [i \in Merging!Item |-> IF dead[i] >= 0 THEN dead[i] ELSE 0]
      /\ s.secret = [c \in Conn |-> IF conns[c] = None THEN None
                                    ELSE (IF Merging!LocalWins(l.conn[c], r.conn[c]) THEN l
                                          ELSE r).secret[c]]
      /\ s = [conn |-> s.conn, folder |-> s.folder, dead |-> s.dead, secret |-> s.secret]
  BY DEF Merging!Merge, Won
<1> HIDE DEF dead, s
<1>5. s.dead = dead
  <2>1. s.dead = [i \in Conn \cup Folder |-> dead[i]]
    BY <1>3, <1>4 DEF Merging!Item
  <2>2. QED
    BY <1>3, <2>1
<1>6. p \in Seq(Folder) /\ \A f \in Folder : \E i \in 1 .. Len(p) : p[i] = f
  <2>1. Merging!Cardinality(Folder) = Cardinality(Folder) /\ Cardinality(Folder) \in Nat
    BY StoresAssumption, FS_CardinalityType DEF Merging!Cardinality, Cardinality
  <2>2. p \in [1 .. Cardinality(Folder) -> Folder]
        /\ \A f \in Folder : \E i \in 1 .. Cardinality(Folder) : p[i] = f
    BY <2>1 DEF Merging!Bijection, Merging!Injection, Merging!Surjection
  <2>3. p \in Seq(Folder) /\ Len(p) = Cardinality(Folder)
    BY <2>1, <2>2
  <2>4. QED
    BY <2>2, <2>3
\* Every item has its winner, and what is rerooted is still the winner.
<1>7. ASSUME NEW c \in Conn
      PROVE  /\ conns[c] = Won(l.conn[c], r.conn[c], dead[c])
             /\ conns[c] \in ConnRecord \cup {None}
             /\ conns[c] # None => /\ dead[c] <= conns[c].at
                                   /\ Merging!LocalWins(l.conn[c], r.conn[c]) => conns[c] = l.conn[c]
                                   /\ ~Merging!LocalWins(l.conn[c], r.conn[c]) => conns[c] = r.conn[c]
  <2>1. \A z \in ConnRecord : z # None /\ z.at \in Nat
    BY <1>2 DEF ConnRecord
  <2> DEFINE x == l.conn[c]
             y == r.conn[c]
             d == dead[c]
  <2>2. /\ x \in ConnRecord \cup {None} /\ y \in ConnRecord \cup {None} /\ d \in Nat
        /\ conns[c] = Won(x, y, d)
    BY <1>1, <1>3
  <2> HIDE DEF x, y, d, conns
  <2>3. Won(x, y, d) \in ConnRecord \cup {None}
        /\ (Won(x, y, d) # None =>
               /\ d <= Won(x, y, d).at
               /\ Merging!LocalWins(x, y) => Won(x, y, d) = x
               /\ ~Merging!LocalWins(x, y) => Won(x, y, d) = y)
    BY <2>1, <2>2, WonFacts
  <2>4. QED
    BY <2>2, <2>3 DEF x, y, d
<1>8. ASSUME NEW f \in Folder
      PROVE  /\ folders[f] = Won(l.folder[f], r.folder[f], dead[f])
             /\ folders[f] \in FolderRecord \cup {None}
             /\ folders[f] # None => dead[f] <= folders[f].at
  <2>1. \A z \in FolderRecord : z # None /\ z.at \in Nat
    BY <1>2 DEF FolderRecord
  <2> DEFINE x == l.folder[f]
             y == r.folder[f]
             d == dead[f]
  <2>2. /\ x \in FolderRecord \cup {None} /\ y \in FolderRecord \cup {None} /\ d \in Nat
        /\ folders[f] = Won(x, y, d)
    BY <1>1, <1>3 DEF Tree
  <2> HIDE DEF x, y, d, folders
  <2>3. Won(x, y, d) \in FolderRecord \cup {None}
        /\ (Won(x, y, d) # None =>
               /\ d <= Won(x, y, d).at
               /\ Merging!LocalWins(x, y) => Won(x, y, d) = x
               /\ ~Merging!LocalWins(x, y) => Won(x, y, d) = y)
    BY <2>1, <2>2, WonFacts
  <2>4. QED
    BY <2>2, <2>3 DEF x, y, d
<1>9. standing \in SUBSET Folder /\ \A f \in Folder : f \in standing <=> folders[f] # None
  OBVIOUS
<1> HIDE DEF folders, conns, standing
<1>10. ASSUME NEW c \in Conn
       PROVE  /\ s.conn[c] \in ConnRecord \cup {None}
              /\ s.conn[c] = None <=> conns[c] = None
              /\ conns[c] # None => /\ s.conn[c].at = conns[c].at
                                    /\ s.conn[c].data = conns[c].data
                                    /\ s.conn[c].in \in standing \cup {None}
  <2>1. s.conn[c] = Merging!Reroot(conns[c], standing)
    BY <1>4
  <2>2. QED
    BY <1>7, <1>9, <2>1, RerootConn
<1>11. ASSUME NEW f \in Folder
       PROVE  /\ tree[f] \in FolderRecord \cup {None}
              /\ tree[f] = None <=> folders[f] = None
              /\ folders[f] # None => /\ tree[f].at = folders[f].at
                                      /\ tree[f].in \in standing \cup {None}
  BY <1>8, <1>9, RerootFolder
<1>12. tree \in Tree
  BY <1>11 DEF Tree
<1> HIDE DEF tree
<1>13. /\ s.folder \in Tree
       /\ \A f \in Folder :
             /\ s.folder[f] = None <=> tree[f] = None
             /\ tree[f] # None => /\ s.folder[f].at = tree[f].at
                                  /\ s.folder[f].in \in {tree[f].in, None}
       /\ \A i \in 1 .. Len(p) :
             s.folder[p[i]] # None => ~Merging!Loops(s.folder, p[i])
  <2>1. s.folder = cut
    BY <1>4
  <2>2. QED
    BY <1>6, <1>12, <2>1, CutFacts
<1>14. Merging!IsForest(s)
  <2>1. \A f \in Folder : f \in standing => s.folder[f] # None
    BY <1>9, <1>11, <1>13
  <2>2. ASSUME NEW c \in Conn, s.conn[c] # None
        PROVE  s.conn[c].in = None \/ s.folder[s.conn[c].in] # None
    BY <1>9, <1>10, <2>1, <2>2
  <2>3. ASSUME NEW f \in Folder, s.folder[f] # None
        PROVE  /\ s.folder[f].in = None \/ s.folder[s.folder[f].in] # None
               /\ ~Merging!Loops(s.folder, f)
    <3>1. tree[f] # None /\ folders[f] # None
      BY <1>11, <1>13, <2>3
    <3>2. s.folder[f].in \in standing \cup {None}
      BY <1>11, <1>13, <3>1
    <3>3. PICK i \in 1 .. Len(p) : p[i] = f
      BY <1>6
    <3>4. ~Merging!Loops(s.folder, f)
      BY <1>13, <2>3, <3>3
    <3>5. QED
      BY <1>9, <2>1, <3>2, <3>4
  <2>4. QED
    BY <2>2, <2>3 DEF Merging!IsForest
<1>15. Proper(s)
  <2>1. ASSUME NEW c \in Conn
        PROVE  /\ s.secret[c] \in Secret \cup {None}
               /\ s.conn[c] # None => s.secret[c] = s.conn[c].data
    <3>1. CASE conns[c] = None
      BY <1>4, <1>10, <3>1
    <3>2. CASE conns[c] # None /\ Merging!LocalWins(l.conn[c], r.conn[c])
      <4>1. s.secret[c] = l.secret[c] /\ conns[c] = l.conn[c] /\ l.conn[c] # None
        BY <1>4, <1>7, <3>2
      <4>2. QED
        BY <1>1, <1>10, <3>2, <4>1 DEF Proper
    <3>3. CASE conns[c] # None /\ ~Merging!LocalWins(l.conn[c], r.conn[c])
      <4>1. s.secret[c] = r.secret[c] /\ conns[c] = r.conn[c] /\ r.conn[c] # None
        BY <1>4, <1>7, <3>3
      <4>2. QED
        BY <1>1, <1>10, <3>3, <4>1 DEF Proper
    <3>4. QED
      BY <3>1, <3>2, <3>3
  <2>2. s.conn \in [Conn -> ConnRecord \cup {None}]
    <3>1. s.conn = [c \in Conn |-> s.conn[c]]
      BY <1>4
    <3>2. QED
      BY <1>10, <3>1
  <2>3. s.secret \in [Conn -> Secret \cup {None}]
    <3>1. s.secret = [c \in Conn |-> s.secret[c]]
      BY <1>4
    <3>2. QED
      BY <2>1, <3>1
  <2>4. s \in Merging!Store(Nat, Secret)
    BY <1>3, <1>4, <1>5, <1>13, <2>2, <2>3
       DEF Merging!Store, Merging!Item, ConnRecord, FolderRecord, Tree
  <2>5. QED
    BY <2>1, <2>4 DEF Proper
<1>16. \A c \in Conn : /\ s.conn[c] = None <=> Won(l.conn[c], r.conn[c], dead[c]) = None
                       /\ Won(l.conn[c], r.conn[c], dead[c]) # None =>
                            s.conn[c].at = Won(l.conn[c], r.conn[c], dead[c]).at
  BY <1>7, <1>10
<1>17. \A f \in Folder : /\ s.folder[f] = None <=> Won(l.folder[f], r.folder[f], dead[f]) = None
                         /\ Won(l.folder[f], r.folder[f], dead[f]) # None =>
                              s.folder[f].at = Won(l.folder[f], r.folder[f], dead[f]).at
  BY <1>8, <1>11, <1>13
<1>18. QED
  BY <1>5, <1>14, <1>15, <1>16, <1>17 DEF s, dead, Merged

\* What the two devices have are stores, and they agree once they have met.
MergeInv == Proper(mine) /\ Proper(theirs) /\ Merging!Forest /\ Merging!Agree

\* What the devices start with are stores.
LEMMA MergeStart == Merging!Init => MergeInv
<1> SUFFICES ASSUME Merging!Init PROVE MergeInv
  OBVIOUS
<1>1. mine \in Mine /\ theirs \in Theirs /\ rounds = 0
  BY DEF Merging!Init
<1>2. Proper(mine) /\ Proper(theirs)
  BY <1>1, StoresAssumption DEF Proper
<1>3. QED
  BY <1>1, <1>2 DEF MergeInv, Merging!Forest, Merging!Agree

\* The winner does not depend on who is the first of the two.
LEMMA SameWinner ==
    ASSUME NEW l, Proper(l), NEW r, Proper(r)
    PROVE  /\ Merging!Deaths(l, r) = Merging!Deaths(r, l)
           /\ Merging!Deaths(l, r) \in [Conn \cup Folder -> Nat]
           /\ \A c \in Conn :
                 LET d == Merging!Deaths(l, r)[c]
                 IN  /\ Merging!At(Won(l.conn[c], r.conn[c], d)) =
                          Merging!At(Won(r.conn[c], l.conn[c], d))
                     /\ Won(l.conn[c], r.conn[c], d) # None =>
                          d <= Won(l.conn[c], r.conn[c], d).at
           /\ \A f \in Folder :
                 LET d == Merging!Deaths(l, r)[f]
                 IN  /\ Merging!At(Won(l.folder[f], r.folder[f], d)) =
                          Merging!At(Won(r.folder[f], l.folder[f], d))
                     /\ Won(l.folder[f], r.folder[f], d) # None =>
                          d <= Won(l.folder[f], r.folder[f], d).at
<1> DEFINE dead == Merging!Deaths(l, r)
<1>1. /\ l.conn \in [Conn -> ConnRecord \cup {None}] /\ r.conn \in [Conn -> ConnRecord \cup {None}]
      /\ l.folder \in Tree /\ r.folder \in Tree
      /\ l.dead \in [Conn \cup Folder -> Nat] /\ r.dead \in [Conn \cup Folder -> Nat]
  BY DEF Proper, Merging!Store, Merging!Item, ConnRecord, FolderRecord, Tree
<1>2. /\ dead = Merging!Deaths(r, l)
      /\ dead \in [Conn \cup Folder -> Nat]
  BY <1>1 DEF Merging!Deaths, Merging!Item
<1> HIDE DEF dead
<1>3. /\ \A z \in ConnRecord : z # None /\ z.at \in Nat
      /\ \A z \in FolderRecord : z # None /\ z.at \in Nat
  BY StoresAssumption DEF ConnRecord, FolderRecord
<1>4. ASSUME NEW R, \A z \in R : z # None /\ z.at \in Nat,
             NEW x \in R \cup {None}, NEW y \in R \cup {None}, NEW d \in Nat
      PROVE  /\ Merging!At(Won(x, y, d)) = Merging!At(Won(y, x, d))
             /\ Won(x, y, d) # None => d <= Won(x, y, d).at
  BY <1>4, WonFacts
<1>5. ASSUME NEW c \in Conn
      PROVE  /\ Merging!At(Won(l.conn[c], r.conn[c], dead[c])) =
                  Merging!At(Won(r.conn[c], l.conn[c], dead[c]))
             /\ Won(l.conn[c], r.conn[c], dead[c]) # None =>
                  dead[c] <= Won(l.conn[c], r.conn[c], dead[c]).at
  <2> DEFINE x == l.conn[c]
             y == r.conn[c]
             d == dead[c]
  <2>1. x \in ConnRecord \cup {None} /\ y \in ConnRecord \cup {None} /\ d \in Nat
    BY <1>1, <1>2
  <2> HIDE DEF x, y, d
  <2>2. /\ Merging!At(Won(x, y, d)) = Merging!At(Won(y, x, d))
        /\ Won(x, y, d) # None => d <= Won(x, y, d).at
    BY <1>3, <1>4, <2>1
  <2>3. QED
    BY <2>2 DEF x, y, d
<1>6. ASSUME NEW f \in Folder
      PROVE  /\ Merging!At(Won(l.folder[f], r.folder[f], dead[f])) =
                  Merging!At(Won(r.folder[f], l.folder[f], dead[f]))
             /\ Won(l.folder[f], r.folder[f], dead[f]) # None =>
                  dead[f] <= Won(l.folder[f], r.folder[f], dead[f]).at
  <2> DEFINE x == l.folder[f]
             y == r.folder[f]
             d == dead[f]
  <2>1. x \in FolderRecord \cup {None} /\ y \in FolderRecord \cup {None} /\ d \in Nat
    BY <1>1, <1>2 DEF Tree
  <2> HIDE DEF x, y, d
  <2>2. /\ Merging!At(Won(x, y, d)) = Merging!At(Won(y, x, d))
        /\ Won(x, y, d) # None => d <= Won(x, y, d).at
    BY <1>3, <1>4, <2>1
  <2>3. QED
    BY <2>2 DEF x, y, d
<1>7. QED
  BY <1>2, <1>5, <1>6 DEF dead

\* An exchange leaves both with a forest, and with the same.
LEMMA MergeKept == MergeInv /\ [Merging!Exchange]_merging => MergeInv'
<1> SUFFICES ASSUME MergeInv, [Merging!Exchange]_merging PROVE MergeInv'
  OBVIOUS
<1>1. CASE UNCHANGED merging
  BY <1>1 DEF merging, MergeInv, Proper, Merging!Forest, Merging!IsForest, Merging!Agree
<1>2. CASE Merging!Exchange
  <2>1. PICK p, q \in Merging!Bijection(1 .. Merging!Cardinality(Folder), Folder) :
               /\ mine' = Merging!Merge(mine, theirs, p, 0)
               /\ theirs' = Merging!Merge(theirs, mine, q, 0)
    BY <1>2 DEF Merging!Exchange
  <2> DEFINE l == mine
             r == theirs
             s == mine'
             t == theirs'
             dead == Merging!Deaths(l, r)
  <2>2. Proper(l) /\ Proper(r)
    BY DEF MergeInv
  <2>3. Merged(s, l, r)
    BY <2>1, <2>2, MergeFacts
  <2>4. Merged(t, r, l)
    BY <2>1, <2>2, MergeFacts
  <2>5. /\ dead = Merging!Deaths(r, l)
        /\ \A c \in Conn :
              /\ Merging!At(Won(l.conn[c], r.conn[c], dead[c])) =
                   Merging!At(Won(r.conn[c], l.conn[c], dead[c]))
              /\ Won(l.conn[c], r.conn[c], dead[c]) # None =>
                   dead[c] <= Won(l.conn[c], r.conn[c], dead[c]).at
        /\ \A f \in Folder :
              /\ Merging!At(Won(l.folder[f], r.folder[f], dead[f])) =
                   Merging!At(Won(r.folder[f], l.folder[f], dead[f]))
              /\ Won(l.folder[f], r.folder[f], dead[f]) # None =>
                   dead[f] <= Won(l.folder[f], r.folder[f], dead[f]).at
    BY <2>2, SameWinner
  <2> HIDE DEF s, t, dead, l, r
  <2>6. ASSUME NEW c \in Conn
        PROVE  /\ Merging!At(s.conn[c]) = Merging!At(t.conn[c])
               /\ Merging!At(s.conn[c]) > 0 => s.dead[c] <= s.conn[c].at
               /\ Merging!At(s.conn[c]) > 0 => s.secret[c] = s.conn[c].data
    <3>1. /\ Merging!At(s.conn[c]) = Merging!At(Won(l.conn[c], r.conn[c], dead[c]))
          /\ Merging!At(t.conn[c]) = Merging!At(Won(r.conn[c], l.conn[c], dead[c]))
      BY <2>3, <2>4, <2>5 DEF Merging!At, Merged, dead
    <3>2. s.conn[c] # None => s.dead[c] <= s.conn[c].at
      BY <2>3, <2>5 DEF Merged, dead
    <3>3. s.conn[c] # None => s.secret[c] = s.conn[c].data
      BY <2>3 DEF Proper, Merged
    <3>4. Merging!At(s.conn[c]) > 0 => s.conn[c] # None
      BY DEF Merging!At
    <3>5. QED
      BY <2>5, <3>1, <3>2, <3>3, <3>4
  <2>7. ASSUME NEW f \in Folder
        PROVE  /\ Merging!At(s.folder[f]) = Merging!At(t.folder[f])
               /\ Merging!At(s.folder[f]) > 0 => s.dead[f] <= s.folder[f].at
    <3>1. /\ Merging!At(s.folder[f]) = Merging!At(Won(l.folder[f], r.folder[f], dead[f]))
          /\ Merging!At(t.folder[f]) = Merging!At(Won(r.folder[f], l.folder[f], dead[f]))
      BY <2>3, <2>4, <2>5 DEF Merging!At, Merged, dead
    <3>2. s.folder[f] # None => s.dead[f] <= s.folder[f].at
      BY <2>3, <2>5 DEF Merged, dead
    <3>3. Merging!At(s.folder[f]) > 0 => s.folder[f] # None
      BY DEF Merging!At
    <3>4. QED
      BY <2>5, <3>1, <3>2, <3>3
  <2>8. s.dead = t.dead
    BY <2>3, <2>4, <2>5 DEF Merged, dead
  <2>9. Merging!Agree'
    BY <2>6, <2>7, <2>8 DEF Merging!Agree, Merging!At, s, t
  <2>10. Merging!Forest'
    <3>1. Merging!IsForest(mine)' /\ Merging!IsForest(theirs)'
      BY <2>3, <2>4 DEF s, t, Merging!IsForest, Merged
    <3>2. QED
      BY <3>1 DEF Merging!Forest
  <2>11. QED
    BY <2>3, <2>4, <2>9, <2>10 DEF MergeInv, s, t, Proper, Merged
<1>3. QED
  BY <1>1, <1>2

\* The invariant of the merge holds in every behaviour.
LEMMA MergeInvariance == Spec => [](part = "merge" => MergeInv)
<1> DEFINE Inv == part = "merge" => MergeInv
<1>1. Init => Inv
  BY MergeStart DEF Init
<1>2. Inv /\ [Next]_vars => Inv'
  BY MergeKept, PartSteps
<1> HIDE DEF Inv
<1>3. Spec => []Inv
  BY <1>1, <1>2, PTL DEF Spec
<1>4. QED
  BY <1>3 DEF Inv

\* After a merge every folder that is referred to exists and none is its own ancestor:
\* each has had its turn in CutCycles, and a turn brings no other into a cycle.
THEOREM ForestCorrect == Spec => []Forest
<1>1. (part = "merge" => MergeInv) => Forest
  BY DEF Forest, MergeInv
<1>2. QED
  BY <1>1, MergeInvariance, PTL

\* After one exchange both devices have the same items as of the same edits, none that
\* was deleted later, with the passwords that belong to them: who is newer, and whether
\* a tombstone is, does not depend on who asks.
THEOREM AgreeCorrect == Spec => []Agree
<1>1. (part = "merge" => MergeInv) => Agree
  BY DEF Agree, MergeInv
<1>2. QED
  BY <1>1, MergeInvariance, PTL

-----------------------------------------------------------------------------
(* EncryptionService *)
Number == Nat \cup {None}
Encrypted == [key : Nat, data : Nat]
Idle == [kind |-> None, pc |-> "idle", key |-> None, data |-> None]

EncTypes ==
    /\ plain \in Number /\ mem \in Number /\ params \in Number /\ key \in Number
    /\ hash \in Number
    /\ enc \in Encrypted \cup {None} /\ shadow \in Encrypted \cup {None}
    /\ saver \in [pc : {"idle", "enc", "shadow"}, blob : Encrypted \cup {None}]
    /\ saver.blob = None <=> saver.pc # "shadow"
    /\ cmd \in [kind : {None, "setup", "change", "migrate", "remove"},
                 pc : {"idle", "derived", "erase", "shadow", "meta", "save", "saving",
                       "enc", "plain", "load"},
                 key : Number, data : Number]
    /\ keys \in Nat /\ acked \in Nat /\ foreign \in BOOLEAN /\ excused \in BOOLEAN

\* How far a save and a command are, and what they have found.
Stages ==
    /\ saver.pc = "enc" => mem # None
    /\ saver.pc = "shadow" => mem = saver.blob.data
    /\ \/ cmd = Idle
       \/ /\ cmd.kind \in {"setup", "change", "migrate"} /\ cmd.key = keys
          /\ cmd.pc \in {"derived", "erase", "shadow", "meta", "save", "saving"}
          /\ cmd.pc = "erase" => cmd.kind = "setup"
          /\ cmd.pc = "shadow" => cmd.kind # "setup" /\ cmd.data # None
          /\ cmd.kind = "migrate" => cmd.pc \notin {"save", "saving"}
          /\ cmd.kind # "migrate" => mem # None
          /\ cmd.kind # "setup" => params # None
          /\ cmd.pc \in {"save", "saving"} => params # None
          /\ cmd.pc = "saving" => saver.pc = "enc"
       \/ /\ cmd.kind = "remove"
          /\ cmd.pc \in {"meta", "enc", "shadow", "plain", "load"}
          /\ cmd.pc = "meta" <=> params # None

\* A key that is derived now is none of those in use.
Bounded ==
    /\ enc # None => enc.key <= keys
    /\ shadow # None => shadow.key <= keys
    /\ saver.blob # None => saver.blob.key <= keys
    /\ params # None => params <= keys
    /\ key # None => key <= keys

Fresh ==
    /\ cmd.pc = "derived" =>
          /\ enc # None => enc.key < cmd.key
          /\ shadow # None => shadow.key < cmd.key
    /\ cmd.kind = "setup" /\ cmd.pc \in {"erase", "meta"} /\ shadow # None =>
          shadow.key < cmd.key

\* A save runs when no command writes.
Alone == saver.pc # "idle" => cmd = Idle \/ cmd.pc \in {"save", "saving"}

\* The store is there, in the clear or encrypted.
OneCopy ==
    /\ params # None => plain = None
    /\ cmd.pc = "erase" => plain # None
    /\ cmd.kind = "setup" /\ cmd.pc = "meta" => plain = None
    /\ params # None \/ (cmd.kind = "setup" /\ cmd.pc \in {"erase", "meta"}) => enc # None
    /\ params = None /\ (cmd = Idle \/ cmd.pc \in {"derived", "erase", "load"}) => plain # None
    /\ cmd.kind \in {"change", "migrate", "remove"} => cmd.data # None

SaverInv ==
    saver.pc = "shadow" =>
        /\ saver.blob.key = params => enc = saver.blob /\ key \in {None, params}
        /\ ~foreign => saver.blob.key = params

\* What a change of the password has written.
Rekeyed ==
    cmd.kind \in {"change", "migrate"} =>
        /\ cmd.pc \in {"shadow", "meta"} => enc = [key |-> cmd.key, data |-> cmd.data]
        /\ cmd.pc = "meta" => shadow = [key |-> cmd.key, data |-> cmd.data]

\* The key in memory is the one of the disk.
KeyFits == params # None => key \in {None, params}

\* What can be read has every edit whose save has returned.
UpToDate ==
    /\ mem # None /\ cmd.kind # "remove" => mem >= acked
    /\ plain # None => plain >= acked
    /\ params # None /\ enc # None /\ enc.key = params => enc.data >= acked
    /\ params # None /\ shadow # None /\ shadow.key = params => shadow.data >= acked
    /\ cmd.kind = "setup" /\ cmd.pc \in {"erase", "meta"} /\ enc # None /\ enc.key = cmd.key
          => enc.data >= acked
    /\ cmd.kind \in {"change", "migrate"} /\ cmd.pc \in {"derived", "shadow", "meta"}
          => cmd.data >= acked
    /\ cmd.kind = "remove" => cmd.data >= acked

\* The password opens a copy, but between some writes of a command.
Opens ==
    params # None /\ (\/ cmd = Idle \/ cmd.pc = "derived"
                      \/ cmd.kind = "remove" /\ cmd.pc = "meta"
                      \/ cmd.kind = "change" /\ cmd.pc \in {"save", "saving"}) =>
        \/ enc # None /\ enc.key = params
        \/ shadow # None /\ shadow.key = params

Sound == Fresh /\ Alone /\ OneCopy /\ SaverInv /\ Rekeyed
Current == KeyFits /\ UpToDate /\ Opens

EncInv ==
    /\ EncTypes /\ Stages /\ Bounded
    /\ ~excused => Sound
    /\ ~excused /\ ~foreign => Current

\* A fresh installation, or a store encrypted some time ago.
LEMMA EncInit ==
    ASSUME Encryption!Init
    PROVE  EncInv
<1> USE EncryptionAssumption DEF Number, Encrypted
<1>1. EncTypes
  <2>1. cmd = Idle /\ saver = [pc |-> "idle", blob |-> None]
    BY DEF Encryption!Init, Encryption!NoSave, Encryption!Idle, Idle
  <2>2. /\ plain \in Number /\ params \in Number
        /\ enc \in Encrypted \cup {None} /\ shadow \in Encrypted \cup {None}
    BY DEF Encryption!Init
  <2>3. /\ key = None /\ hash = None /\ mem = None /\ keys = 1
        /\ acked = 0 /\ foreign = FALSE /\ excused = FALSE
    BY DEF Encryption!Init
  <2>4. QED
    BY <2>1, <2>2, <2>3 DEF EncTypes, Idle
<1>2. Stages /\ Bounded
  BY DEF Encryption!Init, Encryption!NoSave, Encryption!Idle, Idle, Stages, Bounded
<1>3. Sound
  BY DEF Encryption!Init, Encryption!NoSave, Encryption!Idle, Idle, Sound, Fresh, Alone,
         OneCopy, SaverInv, Rekeyed
<1>4. Current
  BY DEF Encryption!Init, Encryption!NoSave, Encryption!Idle, Idle, Current, KeyFits,
         UpToDate, Opens
<1>5. QED
  BY <1>1, <1>2, <1>3, <1>4 DEF EncInv

\* load() takes the newer of the copies it could read.
LEMMA Largest ==
    ASSUME NEW a \in Number, NEW b \in Number, {a, b} \ {None} # {}
    PROVE  /\ Encryption!Max({a, b} \ {None}) \in {a, b} \ {None}
           /\ \A y \in {a, b} \ {None} : Encryption!Max({a, b} \ {None}) >= y
<1> DEFINE T == {a, b} \ {None}
<1>1. \A x \in T : x \in Nat
  BY DEF Number
<1>2. \E x \in T : \A y \in T : x >= y
  <2>1. CASE a = None \/ b = None
    BY <1>1, <2>1
  <2>2. CASE a # None /\ b # None
    <3>1. a \in Nat /\ b \in Nat
      BY <2>2 DEF Number
    <3>2. CASE a >= b
      BY <2>2, <3>1, <3>2
    <3>3. CASE b >= a
      BY <2>2, <3>1, <3>3
    <3>4. QED
      BY <3>1, <3>2, <3>3
  <2>3. QED
    BY <2>1, <2>2
<1>3. QED
  BY <1>2 DEF Encryption!Max

\* loadStore and loadLocalStore: what is read is as new as what was saved.
LEMMA EncLoad ==
    ASSUME EncInv, Encryption!Load
    PROVE  EncInv'
<1> USE EncryptionAssumption DEF Number, Encrypted
<1> USE DEF Encryption!Load, Encryption!Begin, Encryption!Overlap, Encryption!Reads,
            Encryption!NoSave, Encryption!Idle, Encryption!disk, Encryption!memory, Idle
<1>1. EncTypes /\ Stages /\ Bounded /\ (~excused => Sound) /\ (~excused /\ ~foreign => Current)
  BY DEF EncInv
<1> DEFINE local == IF params # None /\ Encryption!Reads(shadow, key) THEN shadow.data ELSE mem
<1> DEFINE remote == IF params = None THEN plain
                     ELSE IF Encryption!Reads(enc, key) THEN enc.data ELSE None
<1> DEFINE found == (IF params = None /\ plain # None THEN {plain} ELSE {local, remote}) \ {None}
<1>a. /\ mem' = IF found # {} THEN Encryption!Max(found)
                ELSE IF plain = None /\ enc = None THEN 0 ELSE None
      /\ key' \in {key, None} /\ hash' \in {hash, None} /\ cmd' \in {cmd, Idle}
      /\ plain' = plain /\ enc' = enc /\ shadow' = shadow /\ params' = params
      /\ saver' = saver /\ keys' = keys /\ acked' = acked
      /\ foreign' = foreign /\ excused' = excused
  OBVIOUS
<1>b. local \in Number /\ remote \in Number /\ plain \in Number
  BY <1>1 DEF EncTypes
<1>c. found # {} => /\ Encryption!Max(found) \in found
                    /\ \A y \in found : Encryption!Max(found) >= y
  <2>1. found = {plain, plain} \ {None} \/ found = {local, remote} \ {None}
    OBVIOUS
  <2>2. QED
    BY <1>b, <2>1, Largest
<1>d. mem' \in Number
  BY <1>a, <1>b, <1>c
<1>e. mem # None => mem' # None
  <2>1. mem # None => found # {}
    BY <1>1 DEF EncTypes
  <2>2. QED
    BY <1>a, <1>c, <2>1
<1>2. EncTypes'
  <2>1. cmd' \in [kind : {None, "setup", "change", "migrate", "remove"},
                  pc : {"idle", "derived", "erase", "shadow", "meta", "save", "saving",
                        "enc", "plain", "load"},
                  key : Number, data : Number]
    BY <1>1, <1>a DEF EncTypes
  <2>2. QED
    BY <1>1, <1>a, <1>d, <2>1 DEF EncTypes
<1>3. Stages'
  <2>1. saver' = [pc |-> "idle", blob |-> None]
    OBVIOUS
  <2>2. CASE cmd' = Idle
    BY <2>1, <2>2 DEF Stages
  <2>3. CASE cmd' = cmd
    BY <1>1, <1>a, <1>e, <2>1, <2>3 DEF Stages
  <2>4. QED
    BY <1>a, <2>2, <2>3
<1>4. Bounded'
  BY <1>1 DEF EncTypes, Stages, Bounded
<1>5. ASSUME ~excused' PROVE Sound'
  <2>1. Fresh'
    BY <1>1, <1>5 DEF EncTypes, Stages, Bounded, Sound, Fresh, Alone
  <2>2. Alone'
    BY <1>1, <1>5 DEF EncTypes, Stages, Sound, Alone
  <2>3. OneCopy'
    BY <1>1, <1>5 DEF EncTypes, Stages, Sound, Alone, OneCopy
  <2>4. SaverInv'
    BY <1>1, <1>5 DEF EncTypes, Stages, Bounded, Sound, Alone, SaverInv, Current, KeyFits
  <2>5. Rekeyed'
    BY <1>1, <1>5 DEF EncTypes, Stages, Sound, Alone, Rekeyed
  <2>6. QED
    BY <2>1, <2>2, <2>3, <2>4, <2>5 DEF Sound
<1>6. ASSUME ~excused', ~foreign' PROVE Current'
  <2>1. KeyFits'
    BY <1>1, <1>6 DEF EncTypes, Stages, Sound, Alone, SaverInv, Current, KeyFits
  <2>2. UpToDate'
    <3>1. /\ ~excused /\ ~foreign
          /\ cmd' = cmd \/ (cmd' = Idle /\ cmd.pc = "load")
      <4>1. excused' = excused /\ foreign' = foreign
        BY <1>a
      <4>2. cmd' = IF cmd.pc = "load" THEN Idle ELSE cmd
        OBVIOUS
      <4>3. QED
        BY <1>6, <4>1, <4>2
    <3>2. Sound /\ Current
      BY <1>1, <3>1
    <3>3. ASSUME mem' # None, cmd'.kind # "remove" PROVE mem' >= acked
      <4>1. CASE params = None /\ plain # None
        <5>1. found = {plain} /\ plain >= acked
          BY <3>2, <4>1 DEF Current, UpToDate
        <5>2. mem' \in found
          BY <1>a, <1>c, <5>1, <4>1
        <5>3. QED
          BY <5>1, <5>2
      <4>2. CASE params = None /\ plain = None
        <5>1. cmd' = cmd /\ cmd.kind = "setup"
          BY <1>1, <3>1, <3>2, <3>3, <4>2 DEF Stages, Sound, OneCopy
        <5>2. mem # None /\ mem >= acked /\ mem \in Nat
          BY <1>1, <3>2, <5>1 DEF Stages, EncTypes, Current, UpToDate
        <5>3. found = {mem}
          BY <4>2, <5>2
        <5>4. mem' \in found
          BY <1>a, <1>c, <5>3
        <5>5. QED
          BY <5>2, <5>3, <5>4
      <4>3. CASE params # None
        <5>1. key = params
          BY <3>2, <4>3 DEF Current, KeyFits
        <5>2. Encryption!Reads(shadow, key) => local \in Nat /\ local >= acked
          BY <1>1, <3>2, <4>3, <5>1 DEF EncTypes, Current, UpToDate
        <5>3. Encryption!Reads(enc, key) => remote \in Nat /\ remote >= acked
          BY <1>1, <3>2, <4>3, <5>1 DEF EncTypes, Current, UpToDate
        <5>4. cmd.kind # "remove" /\ mem # None => mem \in Nat /\ mem >= acked
          BY <1>1, <3>2 DEF EncTypes, Current, UpToDate
        <5>5. cmd' = cmd
          BY <1>1, <3>1, <4>3 DEF Stages
        <5>6. found = {local, remote} \ {None}
          BY <4>3
        <5>7. \E y \in found : y \in Nat /\ y >= acked
          <6>1. CASE Encryption!Reads(shadow, key)
            BY <5>2, <5>6, <6>1
          <6>2. CASE Encryption!Reads(enc, key)
            BY <5>3, <5>6, <6>2
          <6>3. CASE ~Encryption!Reads(shadow, key) /\ ~Encryption!Reads(enc, key)
            <7>1. local = mem /\ remote = None
              BY <4>3, <6>3
            <7>2. enc # None
              BY <3>2, <4>3 DEF Sound, OneCopy
            <7>3. mem # None
              BY <1>a, <3>3, <5>6, <7>1, <7>2
            <7>4. QED
              BY <3>3, <5>4, <5>5, <5>6, <7>1, <7>3
          <6>4. QED
            BY <6>1, <6>2, <6>3
        <5>8. QED
          BY <1>a, <1>c, <1>d, <5>7, <1>1 DEF EncTypes
      <4>4. QED
        BY <4>1, <4>2, <4>3
    <3>4. QED
      BY <1>1, <1>a, <3>1, <3>2, <3>3 DEF UpToDate, Current, Stages
  <2>3. Opens'
    BY <1>1, <1>6 DEF EncTypes, Stages, Sound, Alone, OneCopy, SaverInv, Rekeyed, Current,
                      KeyFits, Opens
  <2>4. QED
    BY <2>1, <2>2, <2>3 DEF Current
<1>7. QED
  BY <1>2, <1>3, <1>4, <1>5, <1>6 DEF EncInv

\* An edit goes to the memory, and its save begins.
LEMMA EncEditStore ==
    ASSUME EncInv, Encryption!EditStore
    PROVE  EncInv'
<1> USE EncryptionAssumption DEF Number, Encrypted
<1> USE DEF Encryption!EditStore, Encryption!Begin, Encryption!Overlap, Encryption!Reads,
            Encryption!NoSave, Encryption!Idle, Encryption!disk, Encryption!memory, Idle
<1>1. EncTypes /\ Stages /\ Bounded /\ (~excused => Sound) /\ (~excused /\ ~foreign => Current)
  BY DEF EncInv
<1>2. EncTypes'
  BY <1>1 DEF EncTypes, Stages
<1>3. Stages'
  BY <1>1 DEF EncTypes, Stages
<1>4. Bounded'
  BY <1>1 DEF EncTypes, Stages, Bounded
<1>5. ASSUME ~excused' PROVE Sound'
  <2>1. Fresh'
    BY <1>1, <1>5 DEF EncTypes, Stages, Bounded, Sound, Fresh, Alone
  <2>2. Alone'
    BY <1>1, <1>5 DEF EncTypes, Stages, Sound, Alone
  <2>3. OneCopy'
    BY <1>1, <1>5 DEF EncTypes, Stages, Sound, Alone, OneCopy
  <2>4. SaverInv'
    BY <1>1, <1>5 DEF EncTypes, Stages, Bounded, Sound, Alone, SaverInv, Current, KeyFits
  <2>5. Rekeyed'
    BY <1>1, <1>5 DEF EncTypes, Stages, Sound, Alone, Rekeyed
  <2>6. QED
    BY <2>1, <2>2, <2>3, <2>4, <2>5 DEF Sound
<1>6. ASSUME ~excused', ~foreign' PROVE Current'
  <2>1. KeyFits'
    BY <1>1, <1>6 DEF EncTypes, Stages, Sound, Alone, SaverInv, Current, KeyFits
  <2>2. UpToDate'
    BY <1>1, <1>6 DEF EncTypes, Stages, Sound, Alone, Fresh, OneCopy, SaverInv, Rekeyed,
                      Current, KeyFits, UpToDate
  <2>3. Opens'
    BY <1>1, <1>6 DEF EncTypes, Stages, Sound, Alone, OneCopy, SaverInv, Rekeyed, Current,
                      KeyFits, Opens
  <2>4. QED
    BY <2>1, <2>2, <2>3 DEF Current
<1>7. QED
  BY <1>2, <1>3, <1>4, <1>5, <1>6 DEF EncInv

\* saveStore writes the plain store or the synchronised copy.
LEMMA EncSaveEnc ==
    ASSUME EncInv, Encryption!SaveEnc
    PROVE  EncInv'
<1> USE EncryptionAssumption DEF Number, Encrypted
<1> USE DEF Encryption!SaveEnc, Encryption!Begin, Encryption!Overlap, Encryption!Reads,
            Encryption!NoSave, Encryption!Idle, Encryption!disk, Encryption!memory, Idle
<1>1. EncTypes /\ Stages /\ Bounded /\ (~excused => Sound) /\ (~excused /\ ~foreign => Current)
  BY DEF EncInv
<1>2. EncTypes'
  <2>1. CASE params # None /\ key # None
    <3>1. /\ enc' = [key |-> key, data |-> mem] /\ saver' = [pc |-> "shadow", blob |-> enc']
          /\ plain' = plain /\ acked' = acked /\ shadow' = shadow /\ params' = params
          /\ key' = key /\ hash' = hash /\ mem' = mem /\ keys' = keys /\ foreign' = foreign
          /\ cmd' \in {cmd, Idle} /\ excused' \in BOOLEAN
      BY <2>1, <1>1 DEF EncTypes
    <3>2. enc' \in Encrypted
      BY <1>1, <2>1, <3>1 DEF EncTypes, Stages
    <3>3. /\ saver' \in [pc : {"idle", "enc", "shadow"}, blob : Encrypted \cup {None}]
          /\ saver'.blob # None /\ saver'.pc = "shadow"
      BY <3>1, <3>2
    <3>4. cmd' \in [kind : {None, "setup", "change", "migrate", "remove"},
                    pc : {"idle", "derived", "erase", "shadow", "meta", "save", "saving",
                          "enc", "plain", "load"},
                    key : Number, data : Number]
      BY <1>1, <3>1 DEF EncTypes
    <3>5. QED
      BY <1>1, <3>1, <3>2, <3>3, <3>4 DEF EncTypes
  <2>2. CASE ~(params # None /\ key # None)
    <3>1. /\ enc' = enc /\ saver' = [pc |-> "idle", blob |-> None]
          /\ plain' \in {plain, mem} /\ acked' \in {acked, mem} /\ shadow' = shadow
          /\ params' = params /\ key' = key /\ hash' = hash /\ mem' = mem /\ keys' = keys
          /\ foreign' = foreign /\ cmd' \in {cmd, Idle}
      BY <2>2
    <3>2. excused' \in BOOLEAN /\ mem \in Nat
      BY <1>1, <2>2 DEF EncTypes, Stages
    <3>3. cmd' \in [kind : {None, "setup", "change", "migrate", "remove"},
                    pc : {"idle", "derived", "erase", "shadow", "meta", "save", "saving",
                          "enc", "plain", "load"},
                    key : Number, data : Number]
      BY <1>1, <3>1 DEF EncTypes
    <3>4. QED
      BY <1>1, <3>1, <3>2, <3>3 DEF EncTypes
  <2>3. QED
    BY <2>1, <2>2
<1>3. Stages'
  BY <1>1 DEF EncTypes, Stages
<1>4. Bounded'
  BY <1>1 DEF EncTypes, Stages, Bounded
<1>5. ASSUME ~excused' PROVE Sound'
  <2>1. Fresh'
    BY <1>1, <1>5 DEF EncTypes, Stages, Bounded, Sound, Fresh, Alone
  <2>2. Alone'
    BY <1>1, <1>5 DEF EncTypes, Stages, Sound, Alone
  <2>3. OneCopy'
    BY <1>1, <1>5 DEF EncTypes, Stages, Sound, Alone, OneCopy
  <2>4. SaverInv'
    BY <1>1, <1>5 DEF EncTypes, Stages, Bounded, Sound, Alone, SaverInv, Current, KeyFits
  <2>5. Rekeyed'
    BY <1>1, <1>5 DEF EncTypes, Stages, Sound, Alone, Rekeyed
  <2>6. QED
    BY <2>1, <2>2, <2>3, <2>4, <2>5 DEF Sound
<1>6. ASSUME ~excused', ~foreign' PROVE Current'
  <2>1. KeyFits'
    BY <1>1, <1>6 DEF EncTypes, Stages, Sound, Alone, SaverInv, Current, KeyFits
  <2>2. UpToDate'
    BY <1>1, <1>6 DEF EncTypes, Stages, Sound, Alone, Fresh, OneCopy, SaverInv, Rekeyed,
                      Current, KeyFits, UpToDate
  <2>3. Opens'
    <3>1. CASE params # None /\ key # None
      <4>1. enc' = [key |-> key, data |-> mem] /\ params' = params
        BY <3>1
      <4>2. key = params
        BY <1>1, <1>6, <3>1 DEF Current, KeyFits
      <4>3. enc' # None
        BY <1>2, <4>1, <1>1, <3>1 DEF EncTypes, Stages
      <4>4. QED
        BY <4>1, <4>2, <4>3 DEF Opens
    <3>2. CASE params = None
      BY <3>2 DEF Opens
    <3>3. CASE params # None /\ key = None
      <4>1. enc' = enc /\ shadow' = shadow /\ params' = params /\ cmd.kind # "setup"
        BY <1>6, <3>3
      <4>2. cmd' = cmd \/ (cmd.pc = "saving" /\ cmd' = Idle)
        OBVIOUS
      <4>3. cmd.pc = "saving" => cmd.kind = "change"
        BY <1>1, <4>1 DEF EncTypes, Stages
      <4>4. QED
        BY <1>1, <1>6, <3>3, <4>1, <4>2, <4>3 DEF Current, Opens
    <3>4. QED
      BY <3>1, <3>2, <3>3
  <2>4. QED
    BY <2>1, <2>2, <2>3 DEF Current
<1>7. QED
  BY <1>2, <1>3, <1>4, <1>5, <1>6 DEF EncInv

\* saveStore writes the local shadow: now the save returns.
LEMMA EncSaveShadow ==
    ASSUME EncInv, Encryption!SaveShadow
    PROVE  EncInv'
<1> USE EncryptionAssumption DEF Number, Encrypted
<1> USE DEF Encryption!SaveShadow, Encryption!Begin, Encryption!Overlap, Encryption!Reads,
            Encryption!NoSave, Encryption!Idle, Encryption!disk, Encryption!memory, Idle
<1>1. EncTypes /\ Stages /\ Bounded /\ (~excused => Sound) /\ (~excused /\ ~foreign => Current)
  BY DEF EncInv
<1>2. EncTypes'
  BY <1>1 DEF EncTypes, Stages
<1>3. Stages'
  BY <1>1 DEF EncTypes, Stages
<1>4. Bounded'
  BY <1>1 DEF EncTypes, Stages, Bounded
<1>5. ASSUME ~excused' PROVE Sound'
  <2>1. Fresh'
    BY <1>1, <1>5 DEF EncTypes, Stages, Bounded, Sound, Fresh, Alone
  <2>2. Alone'
    BY <1>1, <1>5 DEF EncTypes, Stages, Sound, Alone
  <2>3. OneCopy'
    BY <1>1, <1>5 DEF EncTypes, Stages, Sound, Alone, OneCopy
  <2>4. SaverInv'
    BY <1>1, <1>5 DEF EncTypes, Stages, Bounded, Sound, Alone, SaverInv, Current, KeyFits
  <2>5. Rekeyed'
    BY <1>1, <1>5 DEF EncTypes, Stages, Sound, Alone, Rekeyed
  <2>6. QED
    BY <2>1, <2>2, <2>3, <2>4, <2>5 DEF Sound
<1>6. ASSUME ~excused', ~foreign' PROVE Current'
  <2>1. KeyFits'
    BY <1>1, <1>6 DEF EncTypes, Stages, Sound, Alone, SaverInv, Current, KeyFits
  <2>2. UpToDate'
    BY <1>1, <1>6 DEF EncTypes, Stages, Sound, Alone, Fresh, OneCopy, SaverInv, Rekeyed,
                      Current, KeyFits, UpToDate
  <2>3. Opens'
    BY <1>1, <1>6 DEF EncTypes, Stages, Sound, Alone, OneCopy, SaverInv, Rekeyed, Current,
                      KeyFits, Opens
  <2>4. QED
    BY <2>1, <2>2, <2>3 DEF Current
<1>7. QED
  BY <1>2, <1>3, <1>4, <1>5, <1>6 DEF EncInv

\* setupMasterPassword derives a key.
LEMMA EncSetup ==
    ASSUME EncInv, Encryption!Setup
    PROVE  EncInv'
<1> USE EncryptionAssumption DEF Number, Encrypted
<1> USE DEF Encryption!Setup, Encryption!Begin, Encryption!Overlap, Encryption!Reads,
            Encryption!NoSave, Encryption!Idle, Encryption!disk, Encryption!memory, Idle
<1>1. EncTypes /\ Stages /\ Bounded /\ (~excused => Sound) /\ (~excused /\ ~foreign => Current)
  BY DEF EncInv
<1>2. EncTypes'
  BY <1>1 DEF EncTypes, Stages
<1>3. Stages'
  BY <1>1 DEF EncTypes, Stages
<1>4. Bounded'
  BY <1>1 DEF EncTypes, Stages, Bounded
<1>5. ASSUME ~excused' PROVE Sound'
  <2>1. Fresh'
    BY <1>1, <1>5 DEF EncTypes, Stages, Bounded, Sound, Fresh, Alone
  <2>2. Alone'
    <3>1. CASE cmd' # cmd
      <4>1. ~(saver # [pc |-> "idle", blob |-> None]) /\ saver' = saver
        BY <1>5, <3>1
      <4>2. QED
        BY <4>1 DEF Alone
    <3>2. CASE cmd' = cmd
      BY <1>1, <1>5, <3>2 DEF EncTypes, Stages, Sound, Alone
    <3>3. QED
      BY <3>1, <3>2
  <2>3. OneCopy'
    BY <1>1, <1>5 DEF EncTypes, Stages, Sound, Alone, OneCopy
  <2>4. SaverInv'
    BY <1>1, <1>5 DEF EncTypes, Stages, Bounded, Sound, Alone, SaverInv, Current, KeyFits
  <2>5. Rekeyed'
    BY <1>1, <1>5 DEF EncTypes, Stages, Sound, Alone, Rekeyed
  <2>6. QED
    BY <2>1, <2>2, <2>3, <2>4, <2>5 DEF Sound
<1>6. ASSUME ~excused', ~foreign' PROVE Current'
  <2>1. KeyFits'
    BY <1>1, <1>6 DEF EncTypes, Stages, Sound, Alone, SaverInv, Current, KeyFits
  <2>2. UpToDate'
    BY <1>1, <1>6 DEF EncTypes, Stages, Sound, Alone, Fresh, OneCopy, SaverInv, Rekeyed,
                      Current, KeyFits, UpToDate
  <2>3. Opens'
    BY <1>1, <1>6 DEF EncTypes, Stages, Sound, Alone, OneCopy, SaverInv, Rekeyed, Current,
                      KeyFits, Opens
  <2>4. QED
    BY <2>1, <2>2, <2>3 DEF Current
<1>7. QED
  BY <1>2, <1>3, <1>4, <1>5, <1>6 DEF EncInv

\* setupMasterPassword encrypts the plain store.
LEMMA EncSetupEnc ==
    ASSUME EncInv, Encryption!SetupEnc
    PROVE  EncInv'
<1> USE EncryptionAssumption DEF Number, Encrypted
<1> USE DEF Encryption!SetupEnc, Encryption!Begin, Encryption!Overlap, Encryption!Reads,
            Encryption!NoSave, Encryption!Idle, Encryption!disk, Encryption!memory, Idle
<1>1. EncTypes /\ Stages /\ Bounded /\ (~excused => Sound) /\ (~excused /\ ~foreign => Current)
  BY DEF EncInv
<1>2. EncTypes'
  BY <1>1 DEF EncTypes, Stages
<1>3. Stages'
  BY <1>1 DEF EncTypes, Stages
<1>4. Bounded'
  BY <1>1 DEF EncTypes, Stages, Bounded
<1>5. ASSUME ~excused' PROVE Sound'
  <2>1. Fresh'
    BY <1>1, <1>5 DEF EncTypes, Stages, Bounded, Sound, Fresh, Alone
  <2>2. Alone'
    BY <1>1, <1>5 DEF EncTypes, Stages, Sound, Alone
  <2>3. OneCopy'
    BY <1>1, <1>5 DEF EncTypes, Stages, Sound, Alone, OneCopy
  <2>4. SaverInv'
    BY <1>1, <1>5 DEF EncTypes, Stages, Bounded, Sound, Alone, SaverInv, Current, KeyFits
  <2>5. Rekeyed'
    BY <1>1, <1>5 DEF EncTypes, Stages, Sound, Alone, Rekeyed
  <2>6. QED
    BY <2>1, <2>2, <2>3, <2>4, <2>5 DEF Sound
<1>6. ASSUME ~excused', ~foreign' PROVE Current'
  <2>1. KeyFits'
    BY <1>1, <1>6 DEF EncTypes, Stages, Sound, Alone, SaverInv, Current, KeyFits
  <2>2. UpToDate'
    BY <1>1, <1>6 DEF EncTypes, Stages, Sound, Alone, Fresh, OneCopy, SaverInv, Rekeyed,
                      Current, KeyFits, UpToDate
  <2>3. Opens'
    BY <1>1, <1>6 DEF EncTypes, Stages, Sound, Alone, OneCopy, SaverInv, Rekeyed, Current,
                      KeyFits, Opens
  <2>4. QED
    BY <2>1, <2>2, <2>3 DEF Current
<1>7. QED
  BY <1>2, <1>3, <1>4, <1>5, <1>6 DEF EncInv

\* setupMasterPassword erases the plain store.
LEMMA EncSetupErase ==
    ASSUME EncInv, Encryption!SetupErase
    PROVE  EncInv'
<1> USE EncryptionAssumption DEF Number, Encrypted
<1> USE DEF Encryption!SetupErase, Encryption!Begin, Encryption!Overlap, Encryption!Reads,
            Encryption!NoSave, Encryption!Idle, Encryption!disk, Encryption!memory, Idle
<1>1. EncTypes /\ Stages /\ Bounded /\ (~excused => Sound) /\ (~excused /\ ~foreign => Current)
  BY DEF EncInv
<1>2. EncTypes'
  BY <1>1 DEF EncTypes, Stages
<1>3. Stages'
  BY <1>1 DEF EncTypes, Stages
<1>4. Bounded'
  BY <1>1 DEF EncTypes, Stages, Bounded
<1>5. ASSUME ~excused' PROVE Sound'
  <2>1. Fresh'
    BY <1>1, <1>5 DEF EncTypes, Stages, Bounded, Sound, Fresh, Alone
  <2>2. Alone'
    BY <1>1, <1>5 DEF EncTypes, Stages, Sound, Alone
  <2>3. OneCopy'
    BY <1>1, <1>5 DEF EncTypes, Stages, Sound, Alone, OneCopy
  <2>4. SaverInv'
    BY <1>1, <1>5 DEF EncTypes, Stages, Bounded, Sound, Alone, SaverInv, Current, KeyFits
  <2>5. Rekeyed'
    BY <1>1, <1>5 DEF EncTypes, Stages, Sound, Alone, Rekeyed
  <2>6. QED
    BY <2>1, <2>2, <2>3, <2>4, <2>5 DEF Sound
<1>6. ASSUME ~excused', ~foreign' PROVE Current'
  <2>1. KeyFits'
    BY <1>1, <1>6 DEF EncTypes, Stages, Sound, Alone, SaverInv, Current, KeyFits
  <2>2. UpToDate'
    BY <1>1, <1>6 DEF EncTypes, Stages, Sound, Alone, Fresh, OneCopy, SaverInv, Rekeyed,
                      Current, KeyFits, UpToDate
  <2>3. Opens'
    BY <1>1, <1>6 DEF EncTypes, Stages, Sound, Alone, OneCopy, SaverInv, Rekeyed, Current,
                      KeyFits, Opens
  <2>4. QED
    BY <2>1, <2>2, <2>3 DEF Current
<1>7. QED
  BY <1>2, <1>3, <1>4, <1>5, <1>6 DEF EncInv

\* changeMasterPassword checks the old password and derives the new key.
LEMMA EncChange ==
    ASSUME EncInv, Encryption!Change
    PROVE  EncInv'
<1> USE EncryptionAssumption DEF Number, Encrypted
<1> USE DEF Encryption!Change, Encryption!Begin, Encryption!Overlap, Encryption!Reads,
            Encryption!NoSave, Encryption!Idle, Encryption!disk, Encryption!memory, Idle
<1>1. EncTypes /\ Stages /\ Bounded /\ (~excused => Sound) /\ (~excused /\ ~foreign => Current)
  BY DEF EncInv
<1>2. EncTypes'
  BY <1>1 DEF EncTypes, Stages
<1>3. Stages'
  BY <1>1 DEF EncTypes, Stages
<1>4. Bounded'
  BY <1>1 DEF EncTypes, Stages, Bounded
<1>5. ASSUME ~excused' PROVE Sound'
  <2>1. Fresh'
    BY <1>1, <1>5 DEF EncTypes, Stages, Bounded, Sound, Fresh, Alone
  <2>2. Alone'
    <3>1. CASE cmd' # cmd
      <4>1. ~(saver # [pc |-> "idle", blob |-> None]) /\ saver' = saver
        BY <1>5, <3>1
      <4>2. QED
        BY <4>1 DEF Alone
    <3>2. CASE cmd' = cmd
      BY <1>1, <1>5, <3>2 DEF EncTypes, Stages, Sound, Alone
    <3>3. QED
      BY <3>1, <3>2
  <2>3. OneCopy'
    BY <1>1, <1>5 DEF EncTypes, Stages, Sound, Alone, OneCopy
  <2>4. SaverInv'
    BY <1>1, <1>5 DEF EncTypes, Stages, Bounded, Sound, Alone, SaverInv, Current, KeyFits
  <2>5. Rekeyed'
    BY <1>1, <1>5 DEF EncTypes, Stages, Sound, Alone, Rekeyed
  <2>6. QED
    BY <2>1, <2>2, <2>3, <2>4, <2>5 DEF Sound
<1>6. ASSUME ~excused', ~foreign' PROVE Current'
  <2>1. KeyFits'
    BY <1>1, <1>6 DEF EncTypes, Stages, Sound, Alone, SaverInv, Current, KeyFits
  <2>2. UpToDate'
    BY <1>1, <1>6 DEF EncTypes, Stages, Sound, Alone, Fresh, OneCopy, SaverInv, Rekeyed,
                      Current, KeyFits, UpToDate
  <2>3. Opens'
    BY <1>1, <1>6 DEF EncTypes, Stages, Sound, Alone, OneCopy, SaverInv, Rekeyed, Current,
                      KeyFits, Opens
  <2>4. QED
    BY <2>1, <2>2, <2>3 DEF Current
<1>7. QED
  BY <1>2, <1>3, <1>4, <1>5, <1>6 DEF EncInv

\* changeMasterPassword and the migration encrypt both copies anew.
LEMMA EncRekey ==
    ASSUME EncInv, Encryption!Rekey
    PROVE  EncInv'
<1> USE EncryptionAssumption DEF Number, Encrypted
<1> USE DEF Encryption!Rekey, Encryption!Begin, Encryption!Overlap, Encryption!Reads,
            Encryption!NoSave, Encryption!Idle, Encryption!disk, Encryption!memory, Idle
<1>1. EncTypes /\ Stages /\ Bounded /\ (~excused => Sound) /\ (~excused /\ ~foreign => Current)
  BY DEF EncInv
<1>2. EncTypes'
  <2> DEFINE blob == [key |-> cmd.key, data |-> cmd.data]
  <2>1. /\ enc' = enc \/ (enc' = blob /\ cmd.data # None)
        /\ shadow' = shadow \/ (shadow' = blob /\ cmd.pc = "shadow")
        /\ plain' = plain /\ params' = params /\ key' = key /\ hash' = hash /\ mem' = mem
        /\ saver' = saver /\ keys' = keys /\ acked' = acked
        /\ foreign' = foreign /\ excused' = excused
        /\ \E p \in {"meta", "shadow"} : cmd' = [cmd EXCEPT !.pc = p]
    OBVIOUS
  <2>2. cmd.key \in Nat /\ (cmd.pc = "shadow" => cmd.data # None)
    BY <1>1 DEF EncTypes, Stages
  <2>3. /\ enc' \in Encrypted \cup {None} /\ shadow' \in Encrypted \cup {None}
    BY <1>1, <2>1, <2>2 DEF EncTypes
  <2>4. QED
    BY <1>1, <2>1, <2>3 DEF EncTypes
<1>3. Stages'
  BY <1>1 DEF EncTypes, Stages
<1>4. Bounded'
  BY <1>1 DEF EncTypes, Stages, Bounded
<1>5. ASSUME ~excused' PROVE Sound'
  <2>1. Fresh'
    BY <1>1, <1>5 DEF EncTypes, Stages, Bounded, Sound, Fresh, Alone
  <2>2. Alone'
    BY <1>1, <1>5 DEF EncTypes, Stages, Sound, Alone
  <2>3. OneCopy'
    BY <1>1, <1>5 DEF EncTypes, Stages, Sound, Alone, OneCopy
  <2>4. SaverInv'
    BY <1>1, <1>5 DEF EncTypes, Stages, Bounded, Sound, Alone, SaverInv, Current, KeyFits
  <2>5. Rekeyed'
    <3>1. PICK p \in {"shadow", "meta"} : cmd' = [cmd EXCEPT !.pc = p]
      OBVIOUS
    <3>2. cmd'.kind = cmd.kind /\ cmd'.key = cmd.key /\ cmd'.data = cmd.data /\ cmd'.pc = p
      BY <1>1, <3>1 DEF EncTypes
    <3>3. CASE p = "shadow"
      <4>1. enc' = [key |-> cmd.key, data |-> cmd.data]
        BY <1>1, <3>2, <3>3 DEF EncTypes
      <4>2. QED
        BY <3>2, <3>3, <4>1 DEF Rekeyed
    <3>4. CASE p = "meta"
      <4>1. cmd.pc = "derived" => cmd.data = None
        BY <1>1, <3>2, <3>4 DEF EncTypes
      <4>2. cmd.data # None
        BY <1>1, <1>5 DEF Sound, OneCopy
      <4>3. /\ cmd.pc = "shadow" /\ enc' = enc
            /\ shadow' = [key |-> cmd.key, data |-> cmd.data]
        BY <4>1, <4>2, <1>1 DEF Stages
      <4>4. enc = [key |-> cmd.key, data |-> cmd.data]
        BY <4>3, <1>1, <1>5 DEF Sound, Rekeyed
      <4>5. QED
        BY <3>2, <3>4, <4>3, <4>4 DEF Rekeyed
    <3>5. QED
      BY <3>1, <3>3, <3>4
  <2>6. QED
    BY <2>1, <2>2, <2>3, <2>4, <2>5 DEF Sound
<1>6. ASSUME ~excused', ~foreign' PROVE Current'
  <2>1. KeyFits'
    BY <1>1, <1>6 DEF EncTypes, Stages, Sound, Alone, SaverInv, Current, KeyFits
  <2>2. UpToDate'
    BY <1>1, <1>6 DEF EncTypes, Stages, Sound, Alone, Fresh, OneCopy, SaverInv, Rekeyed,
                      Current, KeyFits, UpToDate
  <2>3. Opens'
    BY <1>1, <1>6 DEF EncTypes, Stages, Sound, Alone, OneCopy, SaverInv, Rekeyed, Current,
                      KeyFits, Opens
  <2>4. QED
    BY <2>1, <2>2, <2>3 DEF Current
<1>7. QED
  BY <1>2, <1>3, <1>4, <1>5, <1>6 DEF EncInv

\* The parameters of the new key are written, and the key is kept.
LEMMA EncWriteMeta ==
    ASSUME EncInv, Encryption!WriteMeta
    PROVE  EncInv'
<1> USE EncryptionAssumption DEF Number, Encrypted
<1> USE DEF Encryption!WriteMeta, Encryption!Begin, Encryption!Overlap, Encryption!Reads,
            Encryption!NoSave, Encryption!Idle, Encryption!disk, Encryption!memory, Idle
<1>1. EncTypes /\ Stages /\ Bounded /\ (~excused => Sound) /\ (~excused /\ ~foreign => Current)
  BY DEF EncInv
<1>2. EncTypes'
  BY <1>1 DEF EncTypes, Stages
<1>3. Stages'
  BY <1>1 DEF EncTypes, Stages
<1>4. Bounded'
  BY <1>1 DEF EncTypes, Stages, Bounded
<1>5. ASSUME ~excused' PROVE Sound'
  <2>1. Fresh'
    BY <1>1, <1>5 DEF EncTypes, Stages, Bounded, Sound, Fresh, Alone
  <2>2. Alone'
    BY <1>1, <1>5 DEF EncTypes, Stages, Sound, Alone
  <2>3. OneCopy'
    BY <1>1, <1>5 DEF EncTypes, Stages, Sound, Alone, OneCopy
  <2>4. SaverInv'
    BY <1>1, <1>5 DEF EncTypes, Stages, Bounded, Sound, Alone, SaverInv, Current, KeyFits
  <2>5. Rekeyed'
    BY <1>1, <1>5 DEF EncTypes, Stages, Sound, Alone, Rekeyed
  <2>6. QED
    BY <2>1, <2>2, <2>3, <2>4, <2>5 DEF Sound
<1>6. ASSUME ~excused', ~foreign' PROVE Current'
  <2>1. KeyFits'
    BY <1>1, <1>6 DEF EncTypes, Stages, Sound, Alone, SaverInv, Current, KeyFits
  <2>2. UpToDate'
    BY <1>1, <1>6 DEF EncTypes, Stages, Sound, Alone, Fresh, OneCopy, SaverInv, Rekeyed,
                      Current, KeyFits, UpToDate
  <2>3. Opens'
    BY <1>1, <1>6 DEF EncTypes, Stages, Sound, Alone, OneCopy, SaverInv, Rekeyed, Current,
                      KeyFits, Opens
  <2>4. QED
    BY <2>1, <2>2, <2>3 DEF Current
<1>7. QED
  BY <1>2, <1>3, <1>4, <1>5, <1>6 DEF EncInv

\* The command saves the store in memory.
LEMMA EncSaveAfter ==
    ASSUME EncInv, Encryption!SaveAfter
    PROVE  EncInv'
<1> USE EncryptionAssumption DEF Number, Encrypted
<1> USE DEF Encryption!SaveAfter, Encryption!Begin, Encryption!Overlap, Encryption!Reads,
            Encryption!NoSave, Encryption!Idle, Encryption!disk, Encryption!memory, Idle
<1>1. EncTypes /\ Stages /\ Bounded /\ (~excused => Sound) /\ (~excused /\ ~foreign => Current)
  BY DEF EncInv
<1>2. EncTypes'
  BY <1>1 DEF EncTypes, Stages
<1>3. Stages'
  BY <1>1 DEF EncTypes, Stages
<1>4. Bounded'
  BY <1>1 DEF EncTypes, Stages, Bounded
<1>5. ASSUME ~excused' PROVE Sound'
  <2>1. Fresh'
    BY <1>1, <1>5 DEF EncTypes, Stages, Bounded, Sound, Fresh, Alone
  <2>2. Alone'
    BY <1>1, <1>5 DEF EncTypes, Stages, Sound, Alone
  <2>3. OneCopy'
    BY <1>1, <1>5 DEF EncTypes, Stages, Sound, Alone, OneCopy
  <2>4. SaverInv'
    BY <1>1, <1>5 DEF EncTypes, Stages, Bounded, Sound, Alone, SaverInv, Current, KeyFits
  <2>5. Rekeyed'
    BY <1>1, <1>5 DEF EncTypes, Stages, Sound, Alone, Rekeyed
  <2>6. QED
    BY <2>1, <2>2, <2>3, <2>4, <2>5 DEF Sound
<1>6. ASSUME ~excused', ~foreign' PROVE Current'
  <2>1. KeyFits'
    BY <1>1, <1>6 DEF EncTypes, Stages, Sound, Alone, SaverInv, Current, KeyFits
  <2>2. UpToDate'
    BY <1>1, <1>6 DEF EncTypes, Stages, Sound, Alone, Fresh, OneCopy, SaverInv, Rekeyed,
                      Current, KeyFits, UpToDate
  <2>3. Opens'
    BY <1>1, <1>6 DEF EncTypes, Stages, Sound, Alone, OneCopy, SaverInv, Rekeyed, Current,
                      KeyFits, Opens
  <2>4. QED
    BY <2>1, <2>2, <2>3 DEF Current
<1>7. QED
  BY <1>2, <1>3, <1>4, <1>5, <1>6 DEF EncInv

\* removeMasterPassword reads the store.
LEMMA EncRemove ==
    ASSUME EncInv, Encryption!Remove
    PROVE  EncInv'
<1> USE EncryptionAssumption DEF Number, Encrypted
<1> USE DEF Encryption!Remove, Encryption!Begin, Encryption!Overlap, Encryption!Reads,
            Encryption!NoSave, Encryption!Idle, Encryption!disk, Encryption!memory, Idle
<1>1. EncTypes /\ Stages /\ Bounded /\ (~excused => Sound) /\ (~excused /\ ~foreign => Current)
  BY DEF EncInv
<1>2. EncTypes'
  BY <1>1 DEF EncTypes, Stages
<1>3. Stages'
  BY <1>1 DEF EncTypes, Stages
<1>4. Bounded'
  BY <1>1 DEF EncTypes, Stages, Bounded
<1>5. ASSUME ~excused' PROVE Sound'
  <2>1. Fresh'
    BY <1>1, <1>5 DEF EncTypes, Stages, Bounded, Sound, Fresh, Alone
  <2>2. Alone'
    <3>1. CASE cmd' # cmd
      <4>1. ~(saver # [pc |-> "idle", blob |-> None]) /\ saver' = saver
        BY <1>5, <3>1
      <4>2. QED
        BY <4>1 DEF Alone
    <3>2. CASE cmd' = cmd
      BY <1>1, <1>5, <3>2 DEF EncTypes, Stages, Sound, Alone
    <3>3. QED
      BY <3>1, <3>2
  <2>3. OneCopy'
    BY <1>1, <1>5 DEF EncTypes, Stages, Sound, Alone, OneCopy
  <2>4. SaverInv'
    BY <1>1, <1>5 DEF EncTypes, Stages, Bounded, Sound, Alone, SaverInv, Current, KeyFits
  <2>5. Rekeyed'
    BY <1>1, <1>5 DEF EncTypes, Stages, Sound, Alone, Rekeyed
  <2>6. QED
    BY <2>1, <2>2, <2>3, <2>4, <2>5 DEF Sound
<1>6. ASSUME ~excused', ~foreign' PROVE Current'
  <2>1. KeyFits'
    BY <1>1, <1>6 DEF EncTypes, Stages, Sound, Alone, SaverInv, Current, KeyFits
  <2>2. UpToDate'
    BY <1>1, <1>6 DEF EncTypes, Stages, Sound, Alone, Fresh, OneCopy, SaverInv, Rekeyed,
                      Current, KeyFits, UpToDate
  <2>3. Opens'
    BY <1>1, <1>6 DEF EncTypes, Stages, Sound, Alone, OneCopy, SaverInv, Rekeyed, Current,
                      KeyFits, Opens
  <2>4. QED
    BY <2>1, <2>2, <2>3 DEF Current
<1>7. QED
  BY <1>2, <1>3, <1>4, <1>5, <1>6 DEF EncInv

\* removeMasterPassword erases what is encrypted, then writes the plain store.
LEMMA EncRemoveStep ==
    ASSUME EncInv, Encryption!RemoveStep
    PROVE  EncInv'
<1> USE EncryptionAssumption DEF Number, Encrypted
<1> USE DEF Encryption!RemoveStep, Encryption!Begin, Encryption!Overlap, Encryption!Reads,
            Encryption!NoSave, Encryption!Idle, Encryption!disk, Encryption!memory, Idle,
            Encryption!RemoveOrder
<1>1. EncTypes /\ Stages /\ Bounded /\ (~excused => Sound) /\ (~excused /\ ~foreign => Current)
  BY DEF EncInv
<1>2. EncTypes'
  BY <1>1 DEF EncTypes, Stages
<1>3. Stages'
  BY <1>1 DEF EncTypes, Stages
<1>4. Bounded'
  BY <1>1 DEF EncTypes, Stages, Bounded
<1>5. ASSUME ~excused' PROVE Sound'
  <2>1. Fresh'
    BY <1>1, <1>5 DEF EncTypes, Stages, Bounded, Sound, Fresh, Alone
  <2>2. Alone'
    BY <1>1, <1>5 DEF EncTypes, Stages, Sound, Alone
  <2>3. OneCopy'
    BY <1>1, <1>5 DEF EncTypes, Stages, Sound, Alone, OneCopy
  <2>4. SaverInv'
    BY <1>1, <1>5 DEF EncTypes, Stages, Bounded, Sound, Alone, SaverInv, Current, KeyFits
  <2>5. Rekeyed'
    BY <1>1, <1>5 DEF EncTypes, Stages, Sound, Alone, Rekeyed
  <2>6. QED
    BY <2>1, <2>2, <2>3, <2>4, <2>5 DEF Sound
<1>6. ASSUME ~excused', ~foreign' PROVE Current'
  <2>1. KeyFits'
    BY <1>1, <1>6 DEF EncTypes, Stages, Sound, Alone, SaverInv, Current, KeyFits
  <2>2. UpToDate'
    BY <1>1, <1>6 DEF EncTypes, Stages, Sound, Alone, Fresh, OneCopy, SaverInv, Rekeyed,
                      Current, KeyFits, UpToDate
  <2>3. Opens'
    BY <1>1, <1>6 DEF EncTypes, Stages, Sound, Alone, OneCopy, SaverInv, Rekeyed, Current,
                      KeyFits, Opens
  <2>4. QED
    BY <2>1, <2>2, <2>3 DEF Current
<1>7. QED
  BY <1>2, <1>3, <1>4, <1>5, <1>6 DEF EncInv

\* unlock checks the password; an old key starts its migration.
LEMMA EncUnlock ==
    ASSUME EncInv, Encryption!Unlock
    PROVE  EncInv'
<1> USE EncryptionAssumption DEF Number, Encrypted
<1> USE DEF Encryption!Unlock, Encryption!Begin, Encryption!Overlap, Encryption!Reads,
            Encryption!NoSave, Encryption!Idle, Encryption!disk, Encryption!memory, Idle
<1>1. EncTypes /\ Stages /\ Bounded /\ (~excused => Sound) /\ (~excused /\ ~foreign => Current)
  BY DEF EncInv
<1>2. EncTypes'
  <2>1. /\ key' = params /\ hash' = params /\ params' = params /\ plain' = plain
        /\ enc' = enc /\ shadow' = shadow /\ mem' = mem /\ saver' = saver
        /\ acked' = acked /\ foreign' = foreign
        /\ excused' = excused \/ excused' = (excused \/ saver # Encryption!NoSave)
        /\ \/ cmd' = cmd /\ keys' = keys
           \/ /\ keys' = keys + 1
              /\ \E d \in Number : cmd' = [kind |-> "migrate", pc |-> "derived",
                                         key |-> keys', data |-> d]
    BY <1>1 DEF EncTypes
  <2>2. cmd' \in [kind : {None, "setup", "change", "migrate", "remove"},
                  pc : {"idle", "derived", "erase", "shadow", "meta", "save", "saving",
                        "enc", "plain", "load"},
                  key : Number, data : Number] /\ keys' \in Nat
    BY <1>1, <2>1 DEF EncTypes
  <2>3. excused' \in BOOLEAN
    BY <1>1, <2>1 DEF EncTypes
  <2>4. QED
    BY <1>1, <2>1, <2>2, <2>3 DEF EncTypes
<1>3. Stages'
  BY <1>1 DEF EncTypes, Stages
<1>4. Bounded'
  BY <1>1 DEF EncTypes, Stages, Bounded
<1>5. ASSUME ~excused' PROVE Sound'
  <2>1. Fresh'
    BY <1>1, <1>5 DEF EncTypes, Stages, Bounded, Sound, Fresh, Alone
  <2>2. Alone'
    <3>1. CASE cmd' # cmd
      <4>1. ~(saver # [pc |-> "idle", blob |-> None]) /\ saver' = saver
        BY <1>5, <3>1
      <4>2. QED
        BY <4>1 DEF Alone
    <3>2. CASE cmd' = cmd
      BY <1>1, <1>5, <3>2 DEF EncTypes, Stages, Sound, Alone
    <3>3. QED
      BY <3>1, <3>2
  <2>3. OneCopy'
    BY <1>1, <1>5 DEF EncTypes, Stages, Sound, Alone, OneCopy
  <2>4. SaverInv'
    BY <1>1, <1>5 DEF EncTypes, Stages, Bounded, Sound, Alone, SaverInv, Current, KeyFits
  <2>5. Rekeyed'
    BY <1>1, <1>5 DEF EncTypes, Stages, Sound, Alone, Rekeyed
  <2>6. QED
    BY <2>1, <2>2, <2>3, <2>4, <2>5 DEF Sound
<1>6. ASSUME ~excused', ~foreign' PROVE Current'
  <2>1. KeyFits'
    BY <1>1, <1>6 DEF EncTypes, Stages, Sound, Alone, SaverInv, Current, KeyFits
  <2>2. UpToDate'
    BY <1>1, <1>6 DEF EncTypes, Stages, Sound, Alone, Fresh, OneCopy, SaverInv, Rekeyed,
                      Current, KeyFits, UpToDate
  <2>3. Opens'
    BY <1>1, <1>6 DEF EncTypes, Stages, Sound, Alone, OneCopy, SaverInv, Rekeyed, Current,
                      KeyFits, Opens
  <2>4. QED
    BY <2>1, <2>2, <2>3 DEF Current
<1>7. QED
  BY <1>2, <1>3, <1>4, <1>5, <1>6 DEF EncInv

\* lock forgets the key.
LEMMA EncLock ==
    ASSUME EncInv, Encryption!Lock
    PROVE  EncInv'
<1> USE EncryptionAssumption DEF Number, Encrypted
<1> USE DEF Encryption!Lock, Encryption!Begin, Encryption!Overlap, Encryption!Reads,
            Encryption!NoSave, Encryption!Idle, Encryption!disk, Encryption!memory, Idle
<1>1. EncTypes /\ Stages /\ Bounded /\ (~excused => Sound) /\ (~excused /\ ~foreign => Current)
  BY DEF EncInv
<1>2. EncTypes'
  BY <1>1 DEF EncTypes, Stages
<1>3. Stages'
  BY <1>1 DEF EncTypes, Stages
<1>4. Bounded'
  BY <1>1 DEF EncTypes, Stages, Bounded
<1>5. ASSUME ~excused' PROVE Sound'
  <2>1. Fresh'
    BY <1>1, <1>5 DEF EncTypes, Stages, Bounded, Sound, Fresh, Alone
  <2>2. Alone'
    BY <1>1, <1>5 DEF EncTypes, Stages, Sound, Alone
  <2>3. OneCopy'
    BY <1>1, <1>5 DEF EncTypes, Stages, Sound, Alone, OneCopy
  <2>4. SaverInv'
    BY <1>1, <1>5 DEF EncTypes, Stages, Bounded, Sound, Alone, SaverInv, Current, KeyFits
  <2>5. Rekeyed'
    BY <1>1, <1>5 DEF EncTypes, Stages, Sound, Alone, Rekeyed
  <2>6. QED
    BY <2>1, <2>2, <2>3, <2>4, <2>5 DEF Sound
<1>6. ASSUME ~excused', ~foreign' PROVE Current'
  <2>1. KeyFits'
    BY <1>1, <1>6 DEF EncTypes, Stages, Sound, Alone, SaverInv, Current, KeyFits
  <2>2. UpToDate'
    BY <1>1, <1>6 DEF EncTypes, Stages, Sound, Alone, Fresh, OneCopy, SaverInv, Rekeyed,
                      Current, KeyFits, UpToDate
  <2>3. Opens'
    BY <1>1, <1>6 DEF EncTypes, Stages, Sound, Alone, OneCopy, SaverInv, Rekeyed, Current,
                      KeyFits, Opens
  <2>4. QED
    BY <2>1, <2>2, <2>3 DEF Current
<1>7. QED
  BY <1>2, <1>3, <1>4, <1>5, <1>6 DEF EncInv

\* VS Code is closed: only the disk is left.
LEMMA EncCrash ==
    ASSUME EncInv, Encryption!Crash
    PROVE  EncInv'
<1> USE EncryptionAssumption DEF Number, Encrypted
<1> USE DEF Encryption!Crash, Encryption!Begin, Encryption!Overlap, Encryption!Reads,
            Encryption!NoSave, Encryption!Idle, Encryption!disk, Encryption!memory, Idle,
            Encryption!Torn
<1>1. EncTypes /\ Stages /\ Bounded /\ (~excused => Sound) /\ (~excused /\ ~foreign => Current)
  BY DEF EncInv
<1>2. EncTypes'
  BY <1>1 DEF EncTypes, Stages
<1>3. Stages'
  BY <1>1 DEF EncTypes, Stages
<1>4. Bounded'
  BY <1>1 DEF EncTypes, Stages, Bounded
<1>5. ASSUME ~excused' PROVE Sound'
  <2>1. Fresh'
    BY <1>1, <1>5 DEF EncTypes, Stages, Bounded, Sound, Fresh, Alone
  <2>2. Alone'
    BY <1>1, <1>5 DEF EncTypes, Stages, Sound, Alone
  <2>3. OneCopy'
    <3>1. ~excused /\ ~foreign /\ cmd' = Idle /\ params' = params
          /\ plain' = plain /\ enc' = enc /\ shadow' = shadow
      BY <1>5
    <3>2. ~Encryption!Torn
      BY <1>5
    <3>3. CASE cmd = Idle
      BY <1>1, <3>1, <3>3 DEF EncTypes, Sound, OneCopy, Current, Opens
    <3>4. CASE cmd.kind \in {"setup", "change", "migrate"}
      BY <1>1, <3>1, <3>2, <3>4 DEF EncTypes, Stages, Sound, OneCopy, Current, Opens
    <3>5. CASE cmd.kind = "remove"
      BY <1>1, <3>1, <3>2, <3>5 DEF EncTypes, Stages, Sound, OneCopy, Current, Opens
    <3>6. QED
      BY <1>1, <3>3, <3>4, <3>5 DEF Stages
  <2>4. SaverInv'
    BY <1>1, <1>5 DEF EncTypes, Stages, Bounded, Sound, Alone, SaverInv, Current, KeyFits
  <2>5. Rekeyed'
    BY <1>1, <1>5 DEF EncTypes, Stages, Sound, Alone, Rekeyed
  <2>6. QED
    BY <2>1, <2>2, <2>3, <2>4, <2>5 DEF Sound
<1>6. ASSUME ~excused', ~foreign' PROVE Current'
  <2>1. KeyFits'
    BY <1>1, <1>6 DEF EncTypes, Stages, Sound, Alone, SaverInv, Current, KeyFits
  <2>2. UpToDate'
    BY <1>1, <1>6 DEF EncTypes, Stages, Sound, Alone, Fresh, OneCopy, SaverInv, Rekeyed,
                      Current, KeyFits, UpToDate
  <2>3. Opens'
    <3>1. ~excused /\ ~foreign /\ cmd' = Idle /\ params' = params
          /\ plain' = plain /\ enc' = enc /\ shadow' = shadow
      BY <1>6
    <3>2. ~Encryption!Torn
      BY <1>6
    <3>3. CASE cmd = Idle
      BY <1>1, <3>1, <3>3 DEF EncTypes, Sound, OneCopy, Current, Opens
    <3>4. CASE cmd.kind \in {"setup", "change", "migrate"}
      BY <1>1, <3>1, <3>2, <3>4 DEF EncTypes, Stages, Sound, OneCopy, Current, Opens
    <3>5. CASE cmd.kind = "remove"
      BY <1>1, <3>1, <3>2, <3>5 DEF EncTypes, Stages, Sound, OneCopy, Current, Opens
    <3>6. QED
      BY <1>1, <3>3, <3>4, <3>5 DEF Stages
  <2>4. QED
    BY <2>1, <2>2, <2>3 DEF Current
<1>7. QED
  BY <1>2, <1>3, <1>4, <1>5, <1>6 DEF EncInv

\* Settings Sync delivers a store under a new password.
LEMMA EncRemoteChange ==
    ASSUME EncInv, NEW n \in 0 .. acked, Encryption!RemoteChange(n)
    PROVE  EncInv'
<1> USE EncryptionAssumption DEF Number, Encrypted
<1> USE DEF Encryption!RemoteChange, Encryption!Begin, Encryption!Overlap,
            Encryption!Reads, Encryption!NoSave, Encryption!Idle, Encryption!disk,
            Encryption!memory, Idle
<1>1. EncTypes /\ Stages /\ Bounded /\ (~excused => Sound) /\ (~excused /\ ~foreign => Current)
  BY DEF EncInv
<1>2. EncTypes'
  BY <1>1 DEF EncTypes, Stages
<1>3. Stages'
  BY <1>1 DEF EncTypes, Stages
<1>4. Bounded'
  BY <1>1 DEF EncTypes, Stages, Bounded
<1>5. ASSUME ~excused' PROVE Sound'
  <2>1. Fresh'
    BY <1>1, <1>5 DEF EncTypes, Stages, Bounded, Sound, Fresh, Alone
  <2>2. Alone'
    BY <1>1, <1>5 DEF EncTypes, Stages, Sound, Alone
  <2>3. OneCopy'
    BY <1>1, <1>5 DEF EncTypes, Stages, Sound, Alone, OneCopy
  <2>4. SaverInv'
    BY <1>1, <1>5 DEF EncTypes, Stages, Bounded, Sound, Alone, SaverInv, Current, KeyFits
  <2>5. Rekeyed'
    BY <1>1, <1>5 DEF EncTypes, Stages, Sound, Alone, Rekeyed
  <2>6. QED
    BY <2>1, <2>2, <2>3, <2>4, <2>5 DEF Sound
<1>6. ASSUME ~excused', ~foreign' PROVE Current'
  <2>1. KeyFits'
    BY <1>1, <1>6 DEF EncTypes, Stages, Sound, Alone, SaverInv, Current, KeyFits
  <2>2. UpToDate'
    BY <1>1, <1>6 DEF EncTypes, Stages, Sound, Alone, Fresh, OneCopy, SaverInv, Rekeyed,
                      Current, KeyFits, UpToDate
  <2>3. Opens'
    BY <1>1, <1>6 DEF EncTypes, Stages, Sound, Alone, OneCopy, SaverInv, Rekeyed, Current,
                      KeyFits, Opens
  <2>4. QED
    BY <2>1, <2>2, <2>3 DEF Current
<1>7. QED
  BY <1>2, <1>3, <1>4, <1>5, <1>6 DEF EncInv

\* Every step of the service keeps the invariant.
LEMMA EncStep ==
    ASSUME EncInv, Encryption!Next
    PROVE  EncInv'
  BY EncLoad, EncEditStore, EncSaveEnc, EncSaveShadow, EncSetup, EncSetupEnc, EncSetupErase,
     EncChange, EncRekey, EncWriteMeta, EncSaveAfter, EncRemove, EncRemoveStep, EncUnlock,
     EncLock, EncCrash, EncRemoteChange DEF Encryption!Next

\* The invariant says what the password opens.
LEMMA EncRecoverable ==
    ASSUME EncInv
    PROVE  Encryption!Recoverable
<1> USE EncryptionAssumption DEF Number, Encrypted
<1> SUFFICES ASSUME ~Encryption!Torn, ~foreign, ~excused
             PROVE  \E d \in Encryption!Found : d >= acked
  BY DEF Encryption!Recoverable
<1>1. EncTypes /\ Stages /\ Sound /\ Current
  BY DEF EncInv
<1>2. CASE params = None
  <2>1. plain # None
    <3>1. CASE cmd = Idle
      BY <1>1, <1>2, <3>1 DEF Sound, OneCopy
    <3>2. CASE cmd.kind \in {"setup", "change", "migrate"}
      BY <1>1, <1>2, <3>2 DEF Stages, Sound, OneCopy, Encryption!Torn
    <3>3. CASE cmd.kind = "remove"
      BY <1>1, <1>2, <3>3 DEF Stages, Sound, OneCopy, Encryption!Torn, Idle
    <3>4. QED
      BY <1>1, <3>1, <3>2, <3>3 DEF Stages
  <2>2. plain \in Encryption!Found /\ plain >= acked
    BY <1>1, <1>2, <2>1 DEF Encryption!Found, Current, UpToDate
  <2>3. QED
    BY <2>2
<1>3. CASE params # None
  <2>1. Encryption!Reads(enc, params) \/ Encryption!Reads(shadow, params)
    <3>1. CASE cmd = Idle
      BY <1>1, <1>3, <3>1 DEF Current, Opens, Encryption!Reads
    <3>2. CASE cmd.kind \in {"setup", "change", "migrate"}
      BY <1>1, <1>3, <3>2 DEF Stages, Sound, OneCopy, Current, Opens, Encryption!Reads,
                              Encryption!Torn
    <3>3. CASE cmd.kind = "remove"
      BY <1>1, <1>3, <3>3 DEF Stages, Current, Opens, Encryption!Reads, Idle
    <3>4. QED
      BY <1>1, <3>1, <3>2, <3>3 DEF Stages
  <2>2. ASSUME NEW b \in {enc, shadow}, Encryption!Reads(b, params)
        PROVE  b.data \in Encryption!Found /\ b.data >= acked
    BY <1>1, <1>3, <2>2 DEF Encryption!Found, Encryption!Reads, Current, UpToDate
  <2>3. QED
    BY <2>1, <2>2
<1>4. QED
  BY <1>2, <1>3

\* The invariant says what is in the clear and which key is in memory.
LEMMA EncConsistent ==
    ASSUME EncInv
    PROVE  Encryption!Consistent
  BY DEF EncInv, Sound, OneCopy, Current, KeyFits, Encryption!Consistent

\* The invariant of the encryption holds in every behaviour.
LEMMA EncKept == Spec => [](part = "encryption" => EncInv)
<1> DEFINE Inv == part = "encryption" => EncInv
<1>1. Init => Inv
  BY EncInit DEF Init
<1>2. Inv /\ [Next]_vars => Inv'
  <2> SUFFICES ASSUME Inv, [Next]_vars, part' = "encryption" PROVE EncInv'
    OBVIOUS
  <2>1. part = "encryption" /\ EncInv /\ [Encryption!Next]_encrypting
    BY PartSteps
  <2>2. CASE Encryption!Next
    BY <2>1, <2>2, EncStep
  <2>3. CASE UNCHANGED encrypting
    <3>1. /\ plain' = plain /\ enc' = enc /\ shadow' = shadow /\ params' = params
          /\ key' = key /\ hash' = hash /\ mem' = mem /\ saver' = saver /\ cmd' = cmd
          /\ keys' = keys /\ acked' = acked /\ foreign' = foreign /\ excused' = excused
      BY <2>3 DEF encrypting
    <3>2. EncTypes' /\ Stages' /\ Bounded'
      BY <2>1, <3>1 DEF EncInv, EncTypes, Stages, Bounded
    <3>3. Sound => Sound'
      BY <3>1 DEF Sound, Fresh, Alone, OneCopy, SaverInv, Rekeyed
    <3>4. Current => Current'
      BY <3>1 DEF Current, KeyFits, UpToDate, Opens
    <3>5. QED
      BY <2>1, <3>1, <3>2, <3>3, <3>4 DEF EncInv
  <2>4. QED
    BY <2>1, <2>2, <2>3
<1> HIDE DEF Inv
<1>3. Spec => []Inv
  BY <1>1, <1>2, PTL DEF Spec
<1>4. QED
  BY <1>3 DEF Inv

\* Whenever VS Code is closed, between any two writes, the password opens a copy
\* with every edit whose save has returned, but for the gaps that Torn lists, and
\* until this device has saved again after another one changed the password.
\* (encryptionService.ts)
THEOREM RecoverableCorrect == Spec => []Recoverable
<1>1. (part = "encryption" => EncInv) => Recoverable
  BY EncRecoverable DEF Recoverable
<1>2. QED
  BY <1>1, EncKept, PTL

\* When nothing is under way, what is encrypted is not there in the clear as
\* well, and the key in memory belongs to the parameters on the disk.
\* (encryptionService.ts, setupMasterPassword, changeMasterPassword)
THEOREM EncryptionConsistentCorrect == Spec => []EncryptionConsistent
<1>1. (part = "encryption" => EncInv) => EncryptionConsistent
  BY EncConsistent DEF EncryptionConsistent
<1>2. QED
  BY <1>1, EncKept, PTL
=============================================================================
