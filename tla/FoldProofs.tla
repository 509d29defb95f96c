----------------------------- MODULE FoldProofs -----------------------------
(***************************************************************************)
(* What FoldLeft of the community modules does for a sequence of any       *)
(* length: nothing for the empty one, and one more application of its      *)
(* operator for one more element.  The loops of the code over pieces of    *)
(* text are such folds.  A module that has folds to reason about takes     *)
(* an instance of this one for each of them, with the body of the loop as  *)
(* Body; its first argument is what does not change in the loop.           *)
(*                                                                         *)
(* FoldLeft is defined over the set of the indices that are left, by a     *)
(* recursive function on sets.  That the function exists and is the only   *)
(* one is shown by induction on the length, and the induction from the     *)
(* fact that the order of the naturals is well founded (WFMin): the least  *)
(* number that is not in the set would have a predecessor that is.         *)
(***************************************************************************)
EXTENDS Integers, SequencesExt, SequenceTheorems, WellFoundedInduction, TLAPS

CONSTANT Body(_, _, _)

\* The loop over items, from start.
Fold(c, start, items) == FoldLeft(LAMBDA x, y : Body(c, x, y), start, items)

\* Induction: a set that holds 0 and the successor of each number in it holds all.
LEMMA SetInduction ==
  ASSUME NEW S, 0 \in S, \A n \in Nat : n \in S => n + 1 \in S
  PROVE  Nat \subseteq S
  <1> DEFINE T == Nat \ S
  <1> SUFFICES ASSUME T # {} PROVE FALSE
    OBVIOUS
  <1> DEFINE R == {p \in Nat \X Nat : p[1] < p[2]}
  <1>1. IsWellFoundedOn(R, Nat)
    BY NatLessThanWellFounded DEF OpToRel
  <1>2. PICK x \in T : \A y \in T : ~(<<y, x>> \in R)
    <2> HIDE DEF T, R
    <2>1. T \subseteq Nat BY DEF T
    <2> QED BY <1>1, <2>1, WFMin
  <1>3. x # 0 /\ x - 1 \in Nat
    OBVIOUS
  <1>4. <<x - 1, x>> \in R
    BY <1>3
  <1>5. x - 1 \notin T
    BY <1>2, <1>4
  <1> QED BY <1>3, <1>5

\* Induction over sequences.
LEMMA SeqInduction ==
  ASSUME NEW T, NEW S, <<>> \in S, \A p \in Seq(T), x \in T : p \in S => Append(p, x) \in S
  PROVE  Seq(T) \subseteq S
  <1> DEFINE N == {n \in Nat : \A p \in Seq(T) : Len(p) = n => p \in S}
  <1>1. 0 \in N
    <2>1. \A p \in Seq(T) : Len(p) = 0 => p = <<>>
      BY EmptySeq
    <2>2. QED
      BY <2>1
  <1>2. ASSUME NEW n \in Nat, n \in N PROVE n + 1 \in N
    <2> SUFFICES ASSUME NEW p \in Seq(T), Len(p) = n + 1 PROVE p \in S
      OBVIOUS
    <2> DEFINE q == SubSeq(p, 1, n)
    <2>1. q \in Seq(T) /\ Len(q) = n /\ p[n + 1] \in T /\ p = Append(q, p[n + 1])
      <3>1. p \in [1 .. n + 1 -> T]
        OBVIOUS
      <3>2. q \in Seq(T) /\ Len(q) = n /\ \A k \in 1 .. n : q[k] = p[k]
        OBVIOUS
      <3>3. p[n + 1] \in T
        BY <3>1
      <3> DEFINE r == Append(q, p[n + 1])
      <3>4. r \in Seq(T) /\ Len(r) = n + 1
        BY <3>2, <3>3
      <3>5. \A k \in 1 .. n + 1 : r[k] = p[k]
        BY <3>2, <3>3
      <3> HIDE DEF r, q
      <3>6. r = p
        <4>1. r \in [1 .. n + 1 -> T]
          BY <3>4
        <4>2. QED
          BY <3>1, <3>5, <4>1
      <3>7. QED
        BY <3>2, <3>3, <3>6 DEF r
    <2>2. q \in S
      BY <1>2, <2>1
    <2> HIDE DEF q, N
    <2>3. QED
      BY <2>1, <2>2
  <1>3. Nat \subseteq N
    <2> HIDE DEF N
    <2>1. QED
      BY <1>1, <1>2, SetInduction
  <1>4. QED
    BY <1>3

\* The greatest member of a set of indices.
Greatest(s) == CHOOSE x \in s : \A y \in s : x >= y

\* A set of indices that is not empty has one.
LEMMA GreatestIn ==
  ASSUME NEW n \in Nat, NEW s \in SUBSET (1 .. n), NEW x \in s
  PROVE  Greatest(s) \in s /\ \A y \in s : Greatest(s) >= y
  <1> DEFINE S == {k \in Nat : \A t \in SUBSET (1 .. k) : t # {} => \E w \in t : \A y \in t : w >= y}
  <1>1. 0 \in S
    <2>1. 1 .. 0 = {}
      OBVIOUS
    <2> QED BY <2>1
  <1>2. ASSUME NEW k \in Nat, k \in S PROVE k + 1 \in S
    <2> SUFFICES ASSUME NEW t \in SUBSET (1 .. k + 1), t # {}
                 PROVE  \E w \in t : \A y \in t : w >= y
      OBVIOUS
    <2>1. CASE k + 1 \in t
      BY <2>1
    <2>2. CASE k + 1 \notin t
      <3>1. t \in SUBSET (1 .. k)
        BY <2>2
      <3> QED BY <3>1, <1>2
    <2> QED BY <2>1, <2>2
  <1>3. Nat \subseteq S
    <2> HIDE DEF S
    <2> QED BY <1>1, <1>2, SetInduction
  <1> QED BY <1>3 DEF Greatest

\* What FoldLeft computes: f gives, for a set of indices, the result of the loop
\* over the items at these.
Runs(f, c, start, items, n) ==
  f = [s \in SUBSET (1 .. n) |->
         IF s = {} THEN start
         ELSE Body(c, f[s \ {Greatest(s)}], items[Greatest(s)])]

\* The index that is added is the greatest.
LEMMA LastIsGreatest ==
  ASSUME NEW n \in Nat, NEW s \in SUBSET (1 .. n), n \in s
  PROVE  Greatest(s) = n
  <1>1. Greatest(s) \in s /\ Greatest(s) >= n
    BY GreatestIn
  <1>2. Greatest(s) \in 1 .. n
    BY <1>1
  <1> QED BY <1>1, <1>2

\* There is such a function for every length.
LEMMA RunExists ==
  ASSUME NEW c, NEW start, NEW items, NEW n \in Nat
  PROVE  \E f : Runs(f, c, start, items, n)
  <1> DEFINE S == {k \in Nat : \E f : Runs(f, c, start, items, k)}
  <1>1. 0 \in S
    <2>1. Runs([s \in SUBSET (1 .. 0) |-> start], c, start, items, 0)
      BY DEF Runs
    <2> QED BY <2>1
  <1>2. ASSUME NEW k \in Nat, k \in S PROVE k + 1 \in S
    <2>1. PICK f : Runs(f, c, start, items, k)
      BY <1>2
    <2> DEFINE g == [s \in SUBSET (1 .. k + 1) |->
                       IF k + 1 \in s THEN Body(c, f[s \ {k + 1}], items[k + 1]) ELSE f[s]]
    <2>2. ASSUME NEW s \in SUBSET (1 .. k + 1)
          PROVE  g[s] = IF s = {} THEN start
                        ELSE Body(c, g[s \ {Greatest(s)}], items[Greatest(s)])
      <3>1. CASE k + 1 \in s
        <4>2. Greatest(s) = k + 1
          BY <3>1, LastIsGreatest
        <4>3. g[s \ {k + 1}] = f[s \ {k + 1}]
          OBVIOUS
        <4> QED BY <3>1, <4>2, <4>3
      <3>2. CASE k + 1 \notin s
        <4>1. s \in SUBSET (1 .. k)
          BY <3>2
        <4>2. g[s] = f[s] /\ g[s \ {Greatest(s)}] = f[s \ {Greatest(s)}]
          BY <3>2
        <4>3. f[s] = IF s = {} THEN start
                     ELSE Body(c, f[s \ {Greatest(s)}], items[Greatest(s)])
          BY <2>1, <4>1 DEF Runs
        <4> QED BY <4>2, <4>3
      <3> QED BY <3>1, <3>2
    <2>3. g = [s \in SUBSET (1 .. k + 1) |-> g[s]]
      OBVIOUS
    <2>4. Runs(g, c, start, items, k + 1)
      <3> HIDE DEF g
      <3> QED BY <2>2, <2>3 DEF Runs
    <2> QED BY <2>4
  <1>3. Nat \subseteq S
    <2> HIDE DEF S
    <2> QED BY <1>1, <1>2, SetInduction
  <1> QED BY <1>3

\* One turn of the loop.
LEMMA RunStep ==
  ASSUME NEW c, NEW start, NEW t, NEW m \in Nat, NEW g, Runs(g, c, start, t, m),
         NEW k \in Nat, k < m
  PROVE  g[1 .. k + 1] = Body(c, g[1 .. k], t[k + 1])
  <1> DEFINE r == 1 .. k + 1
  <1>1. r \in SUBSET (1 .. k + 1) /\ k + 1 \in r /\ r \in SUBSET (1 .. m)
    OBVIOUS
  <1>2. r \ {k + 1} = 1 .. k /\ r # {}
    OBVIOUS
  <1> HIDE DEF r
  <1>3. Greatest(r) = k + 1
    BY <1>1, LastIsGreatest
  <1>4. g[r] = IF r = {} THEN start ELSE Body(c, g[r \ {Greatest(r)}], t[Greatest(r)])
    BY <1>1 DEF Runs
  <1> QED BY <1>2, <1>3, <1>4 DEF r

\* Two sequences begin with the same n items.
Agree(s, t, n) == \A k \in 1 .. n : s[k] = t[k]

\* The loop does the same on the items that two sequences begin with.
LEMMA RunUnique ==
  ASSUME NEW c, NEW start, NEW s, NEW t, NEW n \in Nat, NEW m \in Nat, n <= m,
         Agree(s, t, n), NEW f, NEW g, Runs(f, c, start, s, n), Runs(g, c, start, t, m)
  PROVE  \A k \in 0 .. n : f[1 .. k] = g[1 .. k]
  <1>1. ASSUME NEW k \in Nat, k < n
        PROVE  f[1 .. k + 1] = Body(c, f[1 .. k], s[k + 1])
    BY <1>1, RunStep
  <1>2. ASSUME NEW k \in Nat, k < m
        PROVE  g[1 .. k + 1] = Body(c, g[1 .. k], t[k + 1])
    BY <1>2, RunStep
  <1> DEFINE S == {k \in Nat : k <= n => f[1 .. k] = g[1 .. k]}
  <1>3. 0 \in S
    <2>1. 1 .. 0 = {}
      OBVIOUS
    <2>2. QED
      BY <2>1 DEF Runs
  <1>4. ASSUME NEW k \in Nat, k \in S PROVE k + 1 \in S
    <2> SUFFICES ASSUME k + 1 <= n PROVE f[1 .. k + 1] = g[1 .. k + 1]
      OBVIOUS
    <2>1. k < n /\ k < m
      OBVIOUS
    <2>2. f[1 .. k] = g[1 .. k] /\ s[k + 1] = t[k + 1]
      BY <1>4 DEF Agree
    <2>3. QED
      BY <1>1, <1>2, <2>1, <2>2
  <1>5. Nat \subseteq S
    <2> HIDE DEF S
    <2>1. QED
      BY <1>3, <1>4, SetInduction
  <1>6. QED
    BY <1>5

\* FoldLeft is that function, for all the indices.
LEMMA FoldIsRun ==
  ASSUME NEW c, NEW start, NEW S, NEW items \in Seq(S)
  PROVE  \E f : Runs(f, c, start, items, Len(items)) /\ Fold(c, start, items) = f[1 .. Len(items)]
  <1> DEFINE f == CHOOSE g : Runs(g, c, start, items, Len(items))
  <1>1. Runs(f, c, start, items, Len(items))
    BY RunExists
  <1>2. DOMAIN items = 1 .. Len(items)
    OBVIOUS
  <1>3. Fold(c, start, items) = f[1 .. Len(items)]
    BY <1>2 DEF Fold, FoldLeft, MapThenFoldSet, Runs, Greatest, Max
  <1> QED BY <1>1, <1>3

\* A loop over nothing.
LEMMA FoldNone ==
  ASSUME NEW c, NEW start PROVE Fold(c, start, << >>) = start
  <1> DEFINE e == << >>
  <1>1. e \in Seq({}) /\ Len(e) = 0
    OBVIOUS
  <1> HIDE DEF e
  <1>2. PICK f : Runs(f, c, start, e, 0) /\ Fold(c, start, e) = f[1 .. 0]
    BY <1>1, FoldIsRun
  <1>3. 1 .. 0 = {} /\ {} \in SUBSET (1 .. 0)
    OBVIOUS
  <1>4. f[{}] = start
    BY <1>2, <1>3 DEF Runs
  <1> QED BY <1>2, <1>3, <1>4 DEF e

\* A loop with one item more takes one more turn, at the end.
LEMMA FoldOne ==
  ASSUME NEW c, NEW start, NEW S, NEW items \in Seq(S), NEW x \in S
  PROVE  Fold(c, start, Append(items, x)) = Body(c, Fold(c, start, items), x)
  <1> DEFINE t == Append(items, x)
             n == Len(items)
  <1>1. t \in Seq(S) /\ n \in Nat /\ Len(t) = n + 1 /\ t[n + 1] = x
        /\ \A k \in 1 .. n : items[k] = t[k]
    OBVIOUS
  <1> HIDE DEF t, n
  <1>2. PICK f : Runs(f, c, start, items, n) /\ Fold(c, start, items) = f[1 .. n]
    BY FoldIsRun DEF n
  <1>3. PICK g : Runs(g, c, start, t, n + 1) /\ Fold(c, start, t) = g[1 .. n + 1]
    BY <1>1, FoldIsRun
  <1>4. \A k \in 0 .. n : f[1 .. k] = g[1 .. k]
    <2>1. n + 1 \in Nat /\ n <= n + 1
      BY <1>1
    <2>2. Agree(items, t, n)
      BY <1>1 DEF Agree
    <2> QED BY <2>1, <2>2, <1>1, <1>2, <1>3, RunUnique
  <1>5. g[1 .. n + 1] = Body(c, g[1 .. n], t[n + 1])
    BY <1>1, <1>3, RunStep
  <1> QED BY <1>1, <1>2, <1>3, <1>4, <1>5 DEF t
=============================================================================
