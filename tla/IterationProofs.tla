-------------------------- MODULE IterationProofs ---------------------------
(***************************************************************************)
(* What following links arrives at.  Induction is by sets: a set of        *)
(* numbers that holds 0 and the successor of each of its members holds     *)
(* them all.                                                               *)
(***************************************************************************)
EXTENDS Iteration, FiniteSetTheorems, WellFoundedInduction, TLAPS

(* A nonempty set of numbers has a least one.                              *)
LEMMA LeastNumber ==
  ASSUME NEW S \in SUBSET Nat, S # {}
  PROVE  \E n \in S : \A m \in S : n <= m
<1>1. PICK x \in S : \A y \in S : ~ (<<y, x>> \in OpToRel(<, Nat))
  BY NatLessThanWellFounded, WFMin, Zenon
<1>2. ASSUME NEW y \in S PROVE x <= y
  <2>1. x \in Nat /\ y \in Nat
    OBVIOUS
  <2>2. ~ (<<y, x>> \in {p \in Nat \X Nat : p[1] < p[2]})
    BY <1>1, Zenon DEF OpToRel
  <2> QED BY <2>1, <2>2
<1> QED BY <1>2

LEMMA SetInduction ==
  ASSUME NEW S, 0 \in S, \A n \in Nat : n \in S => n + 1 \in S
  PROVE  \A n \in Nat : n \in S
<1> DEFINE Missed == {k \in Nat : k \notin S}
<1> SUFFICES ASSUME Missed # {} PROVE FALSE
  OBVIOUS
<1>1. PICK n \in Missed : \A m \in Missed : n <= m
  BY LeastNumber
<1>2. n # 0 /\ n - 1 \in Nat
  BY <1>1
<1>3. n - 1 \notin Missed
  BY <1>1, <1>2
<1>4. n - 1 + 1 \in S
  BY <1>2, <1>3
<1> QED BY <1>1, <1>4

-----------------------------------------------------------------------------

(* p lists the m links followed from x.                                    *)
IsPath(p, link, x, m) == p[0] = x /\ \A k \in 1 .. m : p[k] = link[p[k - 1]]

LEMMA PathExists ==
  ASSUME NEW X, NEW link \in [X -> X], NEW x \in X
  PROVE  \A m \in Nat : \E p \in [0 .. m -> X] : IsPath(p, link, x, m)
<1> DEFINE Reached == {m \in Nat : \E p \in [0 .. m -> X] : IsPath(p, link, x, m)}
<1>1. 0 \in Reached
  <2>1. [k \in 0 .. 0 |-> x] \in [0 .. 0 -> X] /\ IsPath([k \in 0 .. 0 |-> x], link, x, 0)
    BY DEF IsPath
  <2> QED BY <2>1
<1>2. ASSUME NEW m \in Nat, m \in Reached PROVE m + 1 \in Reached
  <2>1. PICK p \in [0 .. m -> X] : IsPath(p, link, x, m)
    BY <1>2
  <2> DEFINE q == [k \in 0 .. m + 1 |-> IF k = m + 1 THEN link[p[m]] ELSE p[k]]
  <2>2. q \in [0 .. m + 1 -> X] /\ q[0] = x
    BY <2>1 DEF IsPath
  <2>3. ASSUME NEW k \in 1 .. m + 1 PROVE q[k] = link[q[k - 1]]
    BY <2>1 DEF IsPath
  <2>4. IsPath(q, link, x, m + 1)
    BY <2>2, <2>3 DEF IsPath
  <2> HIDE DEF q
  <2> QED BY <2>2, <2>4
<1> HIDE DEF Reached
<1>3. \A m \in Nat : m \in Reached
  BY <1>1, <1>2, SetInduction
<1> QED BY <1>3 DEF Reached

(* Two paths from one node agree as far as both lead.                      *)
LEMMA PathUnique ==
  ASSUME NEW link, NEW x, NEW m \in Nat, NEW n \in Nat, NEW p, NEW q,
         IsPath(p, link, x, m), IsPath(q, link, x, n)
  PROVE  \A k \in Nat : k <= m /\ k <= n => p[k] = q[k]
<1> DEFINE Equal == {k \in Nat : k <= m /\ k <= n => p[k] = q[k]}
<1>1. 0 \in Equal
  BY DEF IsPath
<1>2. ASSUME NEW k \in Nat, k \in Equal PROVE k + 1 \in Equal
  <2> SUFFICES ASSUME k + 1 <= m, k + 1 <= n PROVE p[k + 1] = q[k + 1]
    OBVIOUS
  <2>1. p[k] = q[k]
    BY <1>2
  <2>2. p[k + 1] = link[p[k + 1 - 1]] /\ q[k + 1] = link[q[k + 1 - 1]]
    BY DEF IsPath
  <2> QED BY <2>1, <2>2
<1> HIDE DEF Equal
<1>3. \A k \in Nat : k \in Equal
  BY <1>1, <1>2, SetInduction
<1> QED BY <1>3 DEF Equal

LEMMA IterateOnPath ==
  ASSUME NEW X, NEW link \in [X -> X], NEW x \in X, NEW m \in Nat
  PROVE  \E p \in [0 .. m -> X] : IsPath(p, link, x, m) /\ Iterate(link, x, m) = p[m]
<1> DEFINE at == CHOOSE at : at = [k \in 0 .. m |-> IF k = 0 THEN x ELSE link[at[k - 1]]]
<1>1. PICK p \in [0 .. m -> X] : IsPath(p, link, x, m)
  BY PathExists
<1>2. p = [k \in 0 .. m |-> IF k = 0 THEN x ELSE link[p[k - 1]]]
  BY <1>1 DEF IsPath
<1>3. at = [k \in 0 .. m |-> IF k = 0 THEN x ELSE link[at[k - 1]]]
  BY <1>2
<1>4. Iterate(link, x, m) = at[m]
  BY DEF Iterate
<1> HIDE DEF at
<1>5. IsPath(at, link, x, m)
  BY <1>3 DEF IsPath
<1>6. at[m] = p[m]
  BY <1>1, <1>5, PathUnique
<1> QED BY <1>1, <1>4, <1>6

(* The defining equations.                                                 *)
LEMMA IterateEquations ==
  ASSUME NEW X, NEW link \in [X -> X], NEW x \in X
  PROVE  /\ Iterate(link, x, 0) = x
         /\ \A m \in Nat : /\ Iterate(link, x, m) \in X
                           /\ Iterate(link, x, m + 1) = link[Iterate(link, x, m)]
<1>0. \A m \in Nat : \E p \in [0 .. m -> X] :
        IsPath(p, link, x, m) /\ Iterate(link, x, m) = p[m]
  BY IterateOnPath
<1>1. \A m \in Nat : Iterate(link, x, m) \in X
  BY <1>0
<1>2. Iterate(link, x, 0) = x
  BY <1>0 DEF IsPath
<1>3. ASSUME NEW m \in Nat PROVE Iterate(link, x, m + 1) = link[Iterate(link, x, m)]
  <2>1. PICK p \in [0 .. m -> X] : IsPath(p, link, x, m) /\ Iterate(link, x, m) = p[m]
    BY <1>0
  <2>2. PICK n \in Nat : n = m + 1
    OBVIOUS
  <2>3. PICK q \in [0 .. n -> X] : IsPath(q, link, x, n) /\ Iterate(link, x, n) = q[n]
    BY <1>0
  <2>4. q[m] = p[m]
    BY <2>1, <2>2, <2>3, PathUnique
  <2>5. q[n] = link[q[m]]
    BY <2>2, <2>3 DEF IsPath
  <2> QED BY <2>1, <2>2, <2>3, <2>4, <2>5
<1> QED BY <1>1, <1>2, <1>3

(* One link first, or one link last.                                       *)
LEMMA IterateShift ==
  ASSUME NEW X, NEW link \in [X -> X], NEW x \in X
  PROVE  \A m \in Nat : Iterate(link, link[x], m) = link[Iterate(link, x, m)]
<1> DEFINE Shifted == {m \in Nat : Iterate(link, link[x], m) = link[Iterate(link, x, m)]}
<1>0. link[x] \in X
  OBVIOUS
<1>1. 0 \in Shifted
  BY <1>0, IterateEquations
<1>2. ASSUME NEW m \in Nat, m \in Shifted PROVE m + 1 \in Shifted
  <2>1. Iterate(link, link[x], m + 1) = link[Iterate(link, link[x], m)]
    BY <1>0, IterateEquations
  <2>2. Iterate(link, x, m + 1) = link[Iterate(link, x, m)]
    BY IterateEquations
  <2> QED BY <1>2, <2>1, <2>2
<1> HIDE DEF Shifted
<1>3. \A m \in Nat : m \in Shifted
  BY <1>1, <1>2, SetInduction
<1> QED BY <1>3 DEF Shifted

(* What a set closed under the links holds of the first node it holds of   *)
(* all nodes reached.                                                      *)
LEMMA IterateStays ==
  ASSUME NEW X, NEW link \in [X -> X], NEW S \in SUBSET X, NEW x \in S,
         \A y \in S : link[y] \in S
  PROVE  \A m \in Nat : Iterate(link, x, m) \in S
<1> DEFINE Inside == {m \in Nat : Iterate(link, x, m) \in S}
<1>1. 0 \in Inside
  BY IterateEquations
<1>2. ASSUME NEW m \in Nat, m \in Inside PROVE m + 1 \in Inside
  BY <1>2, IterateEquations
<1> HIDE DEF Inside
<1>3. \A m \in Nat : m \in Inside
  BY <1>1, <1>2, SetInduction
<1> QED BY <1>3 DEF Inside

-----------------------------------------------------------------------------
(* Links that climb a rank until they lead nowhere else do so within as    *)
(* many steps as there are nodes.                                          *)
Rising(link, rank, X) == \A y \in X : link[y] = y \/ rank[y] < rank[link[y]]

(* Before the path rests it rises at every step.                           *)
LEMMA RisesToRest ==
  ASSUME NEW X, NEW link \in [X -> X], NEW rank \in [X -> Int], Rising(link, rank, X),
         NEW x \in X, NEW m \in Nat, link[Iterate(link, x, m)] # Iterate(link, x, m)
  PROVE  \A j, k \in 0 .. m + 1 :
           /\ Iterate(link, x, j) \in X
           /\ j < k => rank[Iterate(link, x, j)] < rank[Iterate(link, x, k)]
<1> DEFINE at(k) == Iterate(link, x, k)
           Moving == {d \in Nat : d <= m => link[at(m - d)] # at(m - d)}
<1>0. \A k \in Nat : at(k) \in X /\ at(k + 1) = link[at(k)]
  BY IterateEquations
<1> HIDE DEF at
<1>1. \A d \in Nat : d \in Moving
  <2>1. 0 \in Moving
    BY DEF at
  <2>2. ASSUME NEW d \in Nat, d \in Moving PROVE d + 1 \in Moving
    <3> SUFFICES ASSUME d + 1 <= m, link[at(m - (d + 1))] = at(m - (d + 1)) PROVE FALSE
      OBVIOUS
    <3>1. m - (d + 1) \in Nat /\ m - d = m - (d + 1) + 1
      OBVIOUS
    <3>2. at(m - d) = at(m - (d + 1))
      BY <1>0, <3>1
    <3> QED BY <2>2, <3>2
  <2> HIDE DEF Moving
  <2> QED BY <2>1, <2>2, SetInduction
<1>2. ASSUME NEW k \in 0 .. m PROVE link[at(k)] # at(k)
  <2>1. m - k \in Nat /\ m - k <= m /\ m - (m - k) = k
    OBVIOUS
  <2>2. m - k \in Moving
    BY <1>1, <2>1
  <2> QED BY <2>1, <2>2
<1>3. ASSUME NEW k \in 0 .. m PROVE rank[at(k)] < rank[at(k + 1)]
  <2>1. at(k) \in X /\ at(k + 1) = link[at(k)] /\ link[at(k)] # at(k)
    BY <1>0, <1>2
  <2> QED BY <2>1 DEF Rising
<1> SUFFICES ASSUME NEW j \in 0 .. m + 1
             PROVE  \A k \in 0 .. m + 1 : j < k => rank[at(j)] < rank[at(k)]
  BY <1>0 DEF at
<1> DEFINE Higher == {d \in Nat : j + d <= m => rank[at(j)] < rank[at(j + d + 1)]}
<1>4. 0 \in Higher
  BY <1>3
<1>5. ASSUME NEW d \in Nat, d \in Higher PROVE d + 1 \in Higher
  <2> SUFFICES ASSUME j + d + 1 <= m PROVE rank[at(j)] < rank[at(j + d + 2)]
    OBVIOUS
  <2>1. rank[at(j)] < rank[at(j + d + 1)]
    BY <1>5
  <2>2. rank[at(j + d + 1)] < rank[at(j + d + 2)]
    BY <1>3
  <2>3. at(j) \in X /\ at(j + d + 1) \in X /\ at(j + d + 2) \in X
    BY <1>0
  <2> QED BY <2>1, <2>2, <2>3
<1> HIDE DEF Higher
<1>6. \A d \in Nat : d \in Higher
  BY <1>4, <1>5, SetInduction
<1>7. ASSUME NEW k \in 0 .. m + 1, j < k PROVE rank[at(j)] < rank[at(k)]
  <2>1. k - j - 1 \in Nat /\ j + (k - j - 1) + 1 = k
    BY <1>7
  <2>2. k - j - 1 \in Higher
    BY <1>6, <2>1
  <2> QED BY <2>1, <2>2 DEF Higher
<1> QED BY <1>7

(* Links that climb come to rest within as many steps as there are nodes,  *)
(* not counting the first.                                                 *)
LEMMA ComesToRest ==
  ASSUME NEW X, IsFiniteSet(X), NEW link \in [X -> X], NEW rank \in [X -> Int],
         Rising(link, rank, X), NEW x \in X, NEW m \in Nat, m >= Cardinality(X) - 1
  PROVE  link[Iterate(link, x, m)] = Iterate(link, x, m)
<1> SUFFICES ASSUME link[Iterate(link, x, m)] # Iterate(link, x, m) PROVE FALSE
  OBVIOUS
<1> DEFINE at == [k \in 0 .. m + 1 |-> Iterate(link, x, k)]
<1>1. \A j, k \in 0 .. m + 1 : at[j] \in X /\ (j < k => rank[at[j]] < rank[at[k]])
  BY RisesToRest
<1>2. at \in [0 .. m + 1 -> X]
  BY <1>1
<1> HIDE DEF at
<1>3. \A j, k \in 0 .. m + 1 : at[j] = at[k] => j = k
  <2> SUFFICES ASSUME NEW j \in 0 .. m + 1, NEW k \in 0 .. m + 1, at[j] = at[k], j # k
               PROVE  FALSE
    OBVIOUS
  <2>1. rank[at[j]] < rank[at[k]] \/ rank[at[k]] < rank[at[j]]
    BY <1>1
  <2>2. rank[at[j]] \in Int
    BY <1>2
  <2> QED BY <2>1, <2>2
<1>4. at \in Injection(0 .. m + 1, X)
  BY <1>2, <1>3 DEF Injection, IsInjective
<1>5. IsFiniteSet(0 .. m + 1) /\ Cardinality(0 .. m + 1) = m + 2
  BY FS_Interval
<1>6. Cardinality(0 .. m + 1) <= Cardinality(X)
  BY <1>4, FS_Injection
<1> QED BY <1>5, <1>6, FS_CardinalityType
-----------------------------------------------------------------------------
(* What a filter leaves.  f lists the first n results of going through s.  *)
IsFiltering(f, s, S, n) ==
  /\ f[0] = <<>>
  /\ \A k \in 1 .. n : f[k] = IF s[k] \in S THEN Append(f[k - 1], s[k]) ELSE f[k - 1]

(* t is what the first n members of s have of S, at increasing positions.  *)
IsSelection(t, s, S, n) ==
  \E at \in [1 .. Len(t) -> 1 .. n] :
    /\ \A k \in 1 .. Len(t) : t[k] = s[at[k]] /\ s[at[k]] \in S
    /\ \A j, k \in 1 .. Len(t) : j < k => at[j] < at[k]
    /\ \A i \in 1 .. n : s[i] \in S => \E k \in 1 .. Len(t) : at[k] = i

LEMMA SelectionGrows ==
  ASSUME NEW X, NEW s \in Seq(X), NEW S, NEW n \in Nat, n + 1 <= Len(s),
         NEW t \in Seq(X), IsSelection(t, s, S, n)
  PROVE  IsSelection(IF s[n + 1] \in S THEN Append(t, s[n + 1]) ELSE t, s, S, n + 1)
<1>1. PICK at \in [1 .. Len(t) -> 1 .. n] :
        /\ \A k \in 1 .. Len(t) : t[k] = s[at[k]] /\ s[at[k]] \in S
        /\ \A j, k \in 1 .. Len(t) : j < k => at[j] < at[k]
        /\ \A i \in 1 .. n : s[i] \in S => \E k \in 1 .. Len(t) : at[k] = i
  BY DEF IsSelection
<1>2. CASE s[n + 1] \notin S
  <2>1. at \in [1 .. Len(t) -> 1 .. n + 1]
    OBVIOUS
  <2>2. \A i \in 1 .. n + 1 : s[i] \in S => i \in 1 .. n
    BY <1>2
  <2>3. \A i \in 1 .. n + 1 : s[i] \in S => \E k \in 1 .. Len(t) : at[k] = i
    BY <1>1, <2>2
  <2>4. IsSelection(t, s, S, n + 1)
    BY <1>1, <2>1, <2>3 DEF IsSelection
  <2> QED BY <1>2, <2>4
<1>3. CASE s[n + 1] \in S
  <2>0. PICK m \in Nat : m = Len(t)
    OBVIOUS
  <2>. Append(t, s[n + 1]) \in Seq(X)
    <3>1. s[n + 1] \in X
      OBVIOUS
    <3> QED BY <3>1
  <2>1. PICK u \in Seq(X) : u = Append(t, s[n + 1])
    OBVIOUS
  <2>2. Len(u) = m + 1 /\ u[m + 1] = s[n + 1] /\ \A k \in 1 .. m : u[k] = t[k]
    BY <2>0, <2>1
  <2> DEFINE more == [k \in 1 .. m + 1 |-> IF k = m + 1 THEN n + 1 ELSE at[k]]
  <2>3. more \in [1 .. Len(u) -> 1 .. n + 1]
    BY <2>0, <2>2
  <2>4. \A k \in 1 .. Len(u) : u[k] = s[more[k]] /\ s[more[k]] \in S
    BY <1>1, <1>3, <2>0, <2>2
  <2>5. ASSUME NEW j \in 1 .. Len(u), NEW k \in 1 .. Len(u), j < k PROVE more[j] < more[k]
    <3>0. 1 .. Len(u) = 1 .. m + 1
      BY <2>2
    <3>1. j \in 1 .. m /\ at[j] \in 1 .. n /\ more[j] = at[j]
      BY <2>0, <2>5, <3>0
    <3>2. CASE k = m + 1
      BY <3>1, <3>2
    <3>3. CASE k \in 1 .. m
      <4>1. at[j] < at[k] /\ more[k] = at[k]
        BY <1>1, <2>0, <2>5, <3>1, <3>3
      <4> QED BY <3>1, <4>1
    <3> QED BY <3>0, <3>2, <3>3
  <2>6. ASSUME NEW i \in 1 .. n + 1, s[i] \in S PROVE \E k \in 1 .. Len(u) : more[k] = i
    <3>1. CASE i = n + 1
      <4>1. m + 1 \in 1 .. Len(u) /\ more[m + 1] = i
        BY <2>0, <2>2, <3>1
      <4> QED BY <4>1
    <3>2. CASE i # n + 1
      <4>1. PICK k \in 1 .. m : at[k] = i
        BY <1>1, <2>0, <2>6, <3>2
      <4>2. k \in 1 .. Len(u) /\ more[k] = i
        BY <2>0, <2>2, <4>1
      <4> QED BY <4>2
    <3> QED BY <3>1, <3>2
  <2> HIDE DEF more
  <2>7. IsSelection(u, s, S, n + 1)
    BY <2>3, <2>4, <2>5, <2>6 DEF IsSelection
  <2> QED BY <1>3, <2>1, <2>7
<1> QED BY <1>2, <1>3

LEMMA FilteringExists ==
  ASSUME NEW X, NEW s \in Seq(X), NEW S
  PROVE  \A n \in Nat : n <= Len(s) =>
           \E f \in [0 .. n -> Seq(X)] : IsFiltering(f, s, S, n)
<1> DEFINE Done == {n \in Nat : n <= Len(s) =>
                      \E f \in [0 .. n -> Seq(X)] : IsFiltering(f, s, S, n)}
<1>1. 0 \in Done
  <2> DEFINE f == [k \in 0 .. 0 |-> <<>>]
  <2>1. f \in [0 .. 0 -> Seq(X)] /\ IsFiltering(f, s, S, 0)
    BY DEF IsFiltering
  <2> HIDE DEF f
  <2> QED BY <2>1
<1>2. ASSUME NEW n \in Nat, n \in Done PROVE n + 1 \in Done
  <2> SUFFICES ASSUME n + 1 <= Len(s)
               PROVE  \E f \in [0 .. n + 1 -> Seq(X)] : IsFiltering(f, s, S, n + 1)
    OBVIOUS
  <2>1. PICK f \in [0 .. n -> Seq(X)] : IsFiltering(f, s, S, n)
    BY <1>2
  <2>2. PICK t \in Seq(X) : t = IF s[n + 1] \in S THEN Append(f[n], s[n + 1]) ELSE f[n]
    OBVIOUS
  <2> DEFINE g == [k \in 0 .. n + 1 |-> IF k = n + 1 THEN t ELSE f[k]]
  <2>3. g \in [0 .. n + 1 -> Seq(X)] /\ g[0] = <<>>
    BY <2>1 DEF IsFiltering
  <2>4. ASSUME NEW k \in 1 .. n + 1
        PROVE  g[k] = IF s[k] \in S THEN Append(g[k - 1], s[k]) ELSE g[k - 1]
    <3>1. CASE k = n + 1
      BY <2>2, <3>1
    <3>2. CASE k \in 1 .. n
      BY <2>1, <3>2 DEF IsFiltering
    <3> QED BY <3>1, <3>2
  <2> HIDE DEF g
  <2> QED BY <2>3, <2>4 DEF IsFiltering
<1> HIDE DEF Done
<1>3. \A n \in Nat : n \in Done
  BY <1>1, <1>2, SetInduction
<1> QED BY <1>3 DEF Done

LEMMA FilterOnFiltering ==
  ASSUME NEW X, NEW s \in Seq(X), NEW S
  PROVE  \E f \in [0 .. Len(s) -> Seq(X)] :
           IsFiltering(f, s, S, Len(s)) /\ Filter(s, S) = f[Len(s)]
<1> PICK n \in Nat : n = Len(s)
  OBVIOUS
<1> SUFFICES \E f \in [0 .. n -> Seq(X)] : IsFiltering(f, s, S, n) /\ Filter(s, S) = f[n]
  OBVIOUS
<1> DEFINE upTo == CHOOSE upTo : upTo = [k \in 0 .. n |->
                     IF k = 0 THEN <<>>
                     ELSE IF s[k] \in S THEN Append(upTo[k - 1], s[k]) ELSE upTo[k - 1]]
<1>1. PICK f \in [0 .. n -> Seq(X)] : IsFiltering(f, s, S, n)
  <2>1. n <= Len(s)
    OBVIOUS
  <2> QED BY <2>1, FilteringExists
<1>2. f = [k \in 0 .. n |->
             IF k = 0 THEN <<>>
             ELSE IF s[k] \in S THEN Append(f[k - 1], s[k]) ELSE f[k - 1]]
  <2>1. \A k \in 0 .. n : f[k] = IF k = 0 THEN <<>>
             ELSE IF s[k] \in S THEN Append(f[k - 1], s[k]) ELSE f[k - 1]
    <3>1. f[0] = <<>>
      BY <1>1 DEF IsFiltering
    <3>2. \A k \in 1 .. n : f[k] = IF s[k] \in S THEN Append(f[k - 1], s[k]) ELSE f[k - 1]
      BY <1>1 DEF IsFiltering
    <3>3. \A k \in 0 .. n : k # 0 => k \in 1 .. n
      OBVIOUS
    <3> QED BY <3>1, <3>2, <3>3
  <2> QED BY <2>1
<1>3. upTo = [k \in 0 .. n |->
                IF k = 0 THEN <<>>
                ELSE IF s[k] \in S THEN Append(upTo[k - 1], s[k]) ELSE upTo[k - 1]]
  BY <1>2
<1>4. Filter(s, S) = upTo[n]
  BY DEF Filter
<1> HIDE DEF upTo
<1>5. IsFiltering(upTo, s, S, n)
  <2>1. \A k \in 0 .. n : upTo[k] = IF k = 0 THEN <<>>
             ELSE IF s[k] \in S THEN Append(upTo[k - 1], s[k]) ELSE upTo[k - 1]
    BY <1>3
  <2> QED BY <2>1 DEF IsFiltering
<1> DEFINE Equal == {k \in Nat : k <= n => upTo[k] = f[k]}
<1>6. \A k \in Nat : k \in Equal
  <2>1. 0 \in Equal
    BY <1>1, <1>5 DEF IsFiltering
  <2>2. ASSUME NEW k \in Nat, k \in Equal PROVE k + 1 \in Equal
    <3> SUFFICES ASSUME k + 1 <= n PROVE upTo[k + 1] = f[k + 1]
      OBVIOUS
    <3>1. PICK m \in 1 .. n : m = k + 1 /\ m - 1 = k
      OBVIOUS
    <3>2. upTo[k] = f[k]
      BY <2>2
    <3> QED BY <1>1, <1>5, <3>1, <3>2 DEF IsFiltering
  <2> HIDE DEF Equal
  <2> QED BY <2>1, <2>2, SetInduction
<1>7. upTo[n] = f[n]
  BY <1>6
<1> QED BY <1>1, <1>4, <1>7

(* A filter keeps what is to be kept, all of it, and in order.             *)
LEMMA FilterSelects ==
  ASSUME NEW X, NEW s \in Seq(X), NEW S
  PROVE  Filter(s, S) \in Seq(X) /\ IsSelection(Filter(s, S), s, S, Len(s))
<1>0. PICK length \in Nat : length = Len(s)
  OBVIOUS
<1>1. PICK f \in [0 .. length -> Seq(X)] :
        IsFiltering(f, s, S, length) /\ Filter(s, S) = f[length]
  <2>1. \E f \in [0 .. Len(s) -> Seq(X)] :
          IsFiltering(f, s, S, Len(s)) /\ Filter(s, S) = f[Len(s)]
    BY FilterOnFiltering
  <2> QED BY <1>0, <2>1
<1> DEFINE Right == {n \in Nat : n <= length => IsSelection(f[n], s, S, n)}
<1>2. 0 \in Right
  <2>1. PICK t \in Seq(X) : t = <<>> /\ 1 .. Len(t) = 1 .. 0
    <3>1. <<>> \in Seq(X) /\ Len(<<>>) = 0
      OBVIOUS
    <3> QED BY <3>1
  <2>2. IsSelection(t, s, S, 0)
    <3> DEFINE none == [k \in 1 .. Len(t) |-> k]
    <3>1. none \in [1 .. Len(t) -> 1 .. 0]
      BY <2>1
    <3>2. /\ \A k \in 1 .. Len(t) : t[k] = s[none[k]] /\ s[none[k]] \in S
          /\ \A j, k \in 1 .. Len(t) : j < k => none[j] < none[k]
          /\ \A i \in 1 .. 0 : s[i] \in S => \E k \in 1 .. Len(t) : none[k] = i
      BY <2>1
    <3> HIDE DEF none
    <3> QED BY <3>1, <3>2 DEF IsSelection
  <2> QED BY <1>1, <2>1, <2>2 DEF IsFiltering
<1>3. ASSUME NEW n \in Nat, n \in Right PROVE n + 1 \in Right
  <2> SUFFICES ASSUME n + 1 <= length PROVE IsSelection(f[n + 1], s, S, n + 1)
    OBVIOUS
  <2>1. IsSelection(f[n], s, S, n) /\ f[n] \in Seq(X)
    BY <1>3
  <2>2. f[n + 1] = IF s[n + 1] \in S THEN Append(f[n], s[n + 1]) ELSE f[n]
    <3>1. PICK m \in 1 .. length : m = n + 1 /\ m - 1 = n
      OBVIOUS
    <3> QED BY <1>1, <3>1 DEF IsFiltering
  <2> QED BY <1>0, <2>1, <2>2, SelectionGrows
<1> HIDE DEF Right
<1>4. \A n \in Nat : n \in Right
  BY <1>2, <1>3, SetInduction
<1> QED BY <1>0, <1>1, <1>4 DEF Right

(* A list without repetitions keeps none.                                  *)
LEMMA FilterDistinct ==
  ASSUME NEW X, NEW s \in Seq(X), NEW S,
         \A i, j \in 1 .. Len(s) : s[i] = s[j] => i = j
  PROVE  \A i, j \in 1 .. Len(Filter(s, S)) : Filter(s, S)[i] = Filter(s, S)[j] => i = j
<1>1. PICK t \in Seq(X) : t = Filter(s, S)
  BY FilterSelects
<1>2. PICK at \in [1 .. Len(t) -> 1 .. Len(s)] :
        /\ \A k \in 1 .. Len(t) : t[k] = s[at[k]] /\ s[at[k]] \in S
        /\ \A j, k \in 1 .. Len(t) : j < k => at[j] < at[k]
  <2>1. IsSelection(t, s, S, Len(s))
    BY <1>1, FilterSelects
  <2> QED BY <2>1 DEF IsSelection
<1>3. ASSUME NEW i \in 1 .. Len(t), NEW j \in 1 .. Len(t), t[i] = t[j] PROVE i = j
  <2>1. at[i] = at[j]
    BY <1>2, <1>3
  <2> QED BY <1>2, <2>1
<1> QED BY <1>1, <1>3

LEMMA FilterMembers ==
  ASSUME NEW X, NEW s \in Seq(X), NEW S
  PROVE  /\ \A k \in 1 .. Len(Filter(s, S)) :
              Filter(s, S)[k] \in S /\ \E i \in 1 .. Len(s) : Filter(s, S)[k] = s[i]
         /\ \A i \in 1 .. Len(s) : s[i] \in S =>
              \E k \in 1 .. Len(Filter(s, S)) : Filter(s, S)[k] = s[i]
<1>1. PICK t \in Seq(X) : t = Filter(s, S)
  BY FilterSelects
<1>2. PICK at \in [1 .. Len(t) -> 1 .. Len(s)] :
        /\ \A k \in 1 .. Len(t) : t[k] = s[at[k]] /\ s[at[k]] \in S
        /\ \A i \in 1 .. Len(s) : s[i] \in S => \E k \in 1 .. Len(t) : at[k] = i
  <2>1. IsSelection(t, s, S, Len(s))
    BY <1>1, FilterSelects
  <2> QED BY <2>1 DEF IsSelection
<1>3. \A k \in 1 .. Len(t) : t[k] \in S /\ \E i \in 1 .. Len(s) : t[k] = s[i]
  BY <1>2
<1>4. ASSUME NEW i \in 1 .. Len(s), s[i] \in S PROVE \E k \in 1 .. Len(t) : t[k] = s[i]
  BY <1>2, <1>4
<1> QED BY <1>1, <1>3, <1>4
=============================================================================
