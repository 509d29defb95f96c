---------------------- MODULE TeslaInstrumenterProofs -----------------------
(***************************************************************************)
(* What the instrumenter makes: that it gives up only on what it does not  *)
(* support (CrashIsExplained), for all manifests and programs that satisfy *)
(* the assumptions of TeslaInstrumenter; and what a hook does when it runs.*)
(* The loops over automata, classes and patterns are folds, about which    *)
(* FoldProofs has the induction; the walk through a hook's blocks ends     *)
(* because every branch goes down in a ranking of the blocks, which every  *)
(* block that is put into the hook can be given a place in.                *)
(***************************************************************************)
EXTENDS TeslaInstrumenter, SequenceTheorems, FiniteSetTheorems, WellFoundedInduction, TLAPS

-----------------------------------------------------------------------------
(* Sequences *)

IsSeq(s) == s \in Seq(ToSet(s))

\* A sequence is one of its members.
LEMMA SeqOfMembers ==
  ASSUME NEW T, NEW s \in Seq(T) PROVE IsSeq(s) /\ ToSet(s) \subseteq T
  <1>1. \A k \in DOMAIN s : s[k] \in T /\ s[k] \in ToSet(s)
    BY DEF ToSet
  <1>2. s \in [1 .. Len(s) -> ToSet(s)] /\ Len(s) \in Nat
    BY <1>1
  <1>3. s \in Seq(ToSet(s))
    BY <1>2, SeqDef
  <1> QED BY <1>1, <1>3 DEF IsSeq, ToSet

\* One member more.
LEMMA OneMore ==
  ASSUME NEW s, NEW x, IsSeq(s)
  PROVE  /\ IsSeq(Append(s, x)) /\ Len(s) \in Nat /\ Len(Append(s, x)) = Len(s) + 1
         /\ DOMAIN s = 1 .. Len(s) /\ DOMAIN Append(s, x) = 1 .. Len(s) + 1
         /\ \A k \in 1 .. Len(s) : Append(s, x)[k] = s[k]
         /\ Append(s, x)[Len(s) + 1] = x
         /\ ToSet(Append(s, x)) = ToSet(s) \cup {x}
  <1> DEFINE T == ToSet(s) \cup {x}
  <1>1. s \in Seq(T)
    <2>1. s \in Seq(ToSet(s)) /\ ToSet(s) \subseteq T
      BY DEF IsSeq
    <2> HIDE DEF T
    <2> QED BY <2>1
  <1>2. x \in T
    OBVIOUS
  <1> HIDE DEF T
  <1>3. Append(s, x) \in Seq(T)
    BY <1>1, <1>2
  <1>4. /\ Len(s) \in Nat /\ Len(Append(s, x)) = Len(s) + 1
        /\ DOMAIN s = 1 .. Len(s) /\ DOMAIN Append(s, x) = 1 .. Len(s) + 1
        /\ \A k \in 1 .. Len(s) : Append(s, x)[k] = s[k]
        /\ Append(s, x)[Len(s) + 1] = x
    BY <1>1, <1>2
  <1>5. ToSet(Append(s, x)) = ToSet(s) \cup {x}
    BY <1>4 DEF ToSet
  <1> QED BY <1>3, <1>4, <1>5, SeqOfMembers

LEMMA NoneIsSeq == IsSeq(<<>>) /\ Len(<<>>) = 0 /\ DOMAIN <<>> = {} /\ ToSet(<<>>) = {}
  <1>1. <<>> \in Seq({}) /\ Len(<<>>) = 0 /\ DOMAIN <<>> = {}
    OBVIOUS
  <1>2. ToSet(<<>>) = {}
    BY <1>1 DEF ToSet
  <1> QED BY <1>1, <1>2, SeqOfMembers

-----------------------------------------------------------------------------
(* The loops *)

KeepBody(c, values, x) == IF x.free THEN values ELSE Append(values, x)
SizeBody(c, n, x) == IF n + 1 > x.index THEN n + 1 ELSE x.index
ListBody(c, cs, a) == cs \o ClassesOf(a)
MatchBody(c, g, k) == Match(g, c.instr, k, c.patterns[k])
SiteBody(m, h, a) == IF a \in Sites(m) THEN AssertionHook(h, a) ELSE h
LifetimeBody(m, h, l) == LifetimeHooks(h, m, l)
CalleeBody(m, h, c) == CalleeClass(h, m, c)
CallerBody(m, h, c) == CallerClass(h, m, c)
FieldBody(m, h, c) == FieldClass(h, m, c)
StepBody(c, s, b) == Step(c.hook, c.vals, s)

KeepFold == INSTANCE FoldProofs WITH Body <- KeepBody
SizeFold == INSTANCE FoldProofs WITH Body <- SizeBody
ListFold == INSTANCE FoldProofs WITH Body <- ListBody
MatchFold == INSTANCE FoldProofs WITH Body <- MatchBody
SiteFold == INSTANCE FoldProofs WITH Body <- SiteBody
LifetimeFold == INSTANCE FoldProofs WITH Body <- LifetimeBody
CalleeFold == INSTANCE FoldProofs WITH Body <- CalleeBody
CallerFold == INSTANCE FoldProofs WITH Body <- CallerBody
FieldFold == INSTANCE FoldProofs WITH Body <- FieldBody
StepFold == INSTANCE FoldProofs WITH Body <- StepBody

\* The passes as loops.
LEMMA PassIsFold ==
  ASSUME NEW hs, NEW m, NEW pass
  PROVE  Pass(hs, m, pass) =
           CASE pass = "assertion" ->
                  SiteFold!Fold(m, hs, [a \in DOMAIN Automata |-> a])
             [] pass = "callee" ->
                  CalleeFold!Fold(m, LifetimeFold!Fold(m, hs,
                                       [l \in DOMAIN manifest.lifetimes |-> l]), Classes)
             [] pass = "caller" -> CallerFold!Fold(m, hs, Classes)
             [] OTHER -> FieldFold!Fold(m, hs, Classes)
  BY DEF Pass, CalleePass, FoldLeft, MapThenFoldSet, Max,
         SiteBody, SiteFold!Fold, SiteFold!FoldLeft, SiteFold!MapThenFoldSet, SiteFold!Max,
         LifetimeBody, LifetimeFold!Fold, LifetimeFold!FoldLeft, LifetimeFold!MapThenFoldSet, LifetimeFold!Max,
         CalleeBody, CalleeFold!Fold, CalleeFold!FoldLeft, CalleeFold!MapThenFoldSet, CalleeFold!Max,
         CallerBody, CallerFold!Fold, CallerFold!FoldLeft, CallerFold!MapThenFoldSet, CallerFold!Max,
         FieldBody, FieldFold!Fold, FieldFold!FoldLeft, FieldFold!MapThenFoldSet, FieldFold!Max

LEMMA ClassesAreFolded ==
  Classes = ListFold!Fold(0, <<>>, [a \in DOMAIN Automata |-> a])
  BY DEF Classes, ListFold!Fold, FoldLeft, MapThenFoldSet, Max, ListBody,
         ListFold!FoldLeft, ListFold!MapThenFoldSet, ListFold!Max

LEMMA KnownIsFolded ==
  ASSUME NEW a PROVE Known(a) = KeepFold!Fold(0, <<>>, Automata[a].args)
  BY DEF Known, KeepFold!Fold, FoldLeft, MapThenFoldSet, Max, KeepBody,
         KeepFold!FoldLeft, KeepFold!MapThenFoldSet, KeepFold!Max

LEMMA SizeIsFolded ==
  ASSUME NEW a PROVE ArgSize(a) = SizeFold!Fold(0, 0, Known(a))
  BY DEF ArgSize, SizeFold!Fold, FoldLeft, MapThenFoldSet, Max, SizeBody,
         SizeFold!FoldLeft, SizeFold!MapThenFoldSet, SizeFold!Max

LEMMA WalkIsFolded ==
  ASSUME NEW h, NEW vals
  PROVE  Walk(h, vals) =
           StepFold!Fold([hook |-> h, vals |-> vals], [at |-> h.entry, made |-> <<>>],
                         h.blocks).made
  BY DEF Walk, StepFold!Fold, FoldLeft, MapThenFoldSet, Max, StepBody,
         StepFold!FoldLeft, StepFold!MapThenFoldSet, StepFold!Max

\* A sequence after another.
LEMMA Joined ==
  ASSUME NEW s, NEW t, IsSeq(s), IsSeq(t)
  PROVE  /\ IsSeq(s \o t) /\ Len(s) \in Nat /\ Len(t) \in Nat /\ Len(s \o t) = Len(s) + Len(t)
         /\ DOMAIN s = 1 .. Len(s) /\ DOMAIN t = 1 .. Len(t)
         /\ DOMAIN (s \o t) = 1 .. Len(s) + Len(t)
         /\ \A k \in 1 .. Len(s) : (s \o t)[k] = s[k]
         /\ \A k \in 1 .. Len(t) : (s \o t)[Len(s) + k] = t[k]
         /\ \A k \in 1 .. Len(s) + Len(t) : k > Len(s) => (s \o t)[k] = t[k - Len(s)]
         /\ ToSet(s \o t) = ToSet(s) \cup ToSet(t)
  <1> DEFINE T == ToSet(s) \cup ToSet(t)
  <1>1. s \in Seq(T) /\ t \in Seq(T)
    <2>1. s \in Seq(ToSet(s)) /\ ToSet(s) \subseteq T /\ t \in Seq(ToSet(t)) /\ ToSet(t) \subseteq T
      BY DEF IsSeq
    <2> HIDE DEF T
    <2> QED BY <2>1
  <1> HIDE DEF T
  <1>2. /\ s \o t \in Seq(T) /\ Len(s) \in Nat /\ Len(t) \in Nat
        /\ Len(s \o t) = Len(s) + Len(t)
        /\ DOMAIN s = 1 .. Len(s) /\ DOMAIN t = 1 .. Len(t)
    BY <1>1
  <1>3. \A k \in 1 .. Len(s) + Len(t) :
          (s \o t)[k] = IF k <= Len(s) THEN s[k] ELSE t[k - Len(s)]
    BY <1>1
  <1>4. DOMAIN (s \o t) = 1 .. Len(s) + Len(t)
    BY <1>2
  <1>5. /\ \A k \in 1 .. Len(s) : (s \o t)[k] = s[k]
        /\ \A k \in 1 .. Len(s) + Len(t) : k > Len(s) => (s \o t)[k] = t[k - Len(s)]
    BY <1>2, <1>3
  <1>6. ASSUME NEW k \in 1 .. Len(t) PROVE (s \o t)[Len(s) + k] = t[k]
    <2>1. Len(s) + k \in 1 .. Len(s) + Len(t) /\ Len(s) + k > Len(s) /\ (Len(s) + k) - Len(s) = k
      BY <1>2
    <2> QED BY <2>1, <1>5
  <1>7. ToSet(s \o t) = ToSet(s) \cup ToSet(t)
    <2> DEFINE u == s \o t
    <2>0. DOMAIN u = 1 .. Len(s) + Len(t)
      BY <1>4
    <2>1. ASSUME NEW x \in ToSet(u) PROVE x \in ToSet(s) \cup ToSet(t)
      <3>1. PICK k \in 1 .. Len(s) + Len(t) : x = u[k]
        BY <2>0, <2>1 DEF ToSet
      <3>2. CASE k <= Len(s)
        <4>1. k \in DOMAIN s /\ x = s[k]
          BY <3>1, <3>2, <1>2, <1>5
        <4> QED BY <4>1 DEF ToSet
      <3>3. CASE k > Len(s)
        <4>1. k - Len(s) \in DOMAIN t /\ x = t[k - Len(s)]
          BY <3>1, <3>3, <1>2, <1>5
        <4> QED BY <4>1 DEF ToSet
      <3> QED BY <3>2, <3>3, <1>2
    <2>2. ASSUME NEW x \in ToSet(s) PROVE x \in ToSet(u)
      <3>1. PICK k \in 1 .. Len(s) : x = s[k]
        BY <2>2, <1>2 DEF ToSet
      <3>2. k \in DOMAIN u /\ u[k] = x
        BY <3>1, <1>2, <1>5, <2>0
      <3> HIDE DEF u
      <3> QED BY <3>2 DEF ToSet
    <2>3. ASSUME NEW x \in ToSet(t) PROVE x \in ToSet(u)
      <3>1. PICK k \in 1 .. Len(t) : x = t[k]
        BY <2>3, <1>2 DEF ToSet
      <3>2. Len(s) + k \in DOMAIN u /\ u[Len(s) + k] = x
        BY <3>1, <1>2, <1>6, <2>0
      <3> HIDE DEF u
      <3> QED BY <3>2 DEF ToSet
    <2> QED BY <2>1, <2>2, <2>3
  <1> QED BY <1>2, <1>4, <1>5, <1>6, <1>7, SeqOfMembers

-----------------------------------------------------------------------------
(* The manifest *)

LEMMA ManifestIs == ASSUME manifest \in Manifests PROVE IsManifest(manifest)
  BY ManifestAssumption

\* The classes, as a set.
AllClasses ==
  UNION {{<<a, s>> : s \in DOMAIN Automata[a].classes} : a \in DOMAIN Automata}

\* In the order of the automata, and within one of its alphabet.
Sorted(q) ==
  \A i, j \in DOMAIN q :
    i < j => q[i][1] < q[j][1] \/ (q[i][1] = q[j][1] /\ q[i][2] < q[j][2])

Ascends(p) == \A i, j \in DOMAIN p : i < j => p[i] < p[j]

LEMMA ClassesOfOne ==
  ASSUME manifest \in Manifests, NEW a \in DOMAIN Automata
  PROVE  /\ IsSeq(ClassesOf(a)) /\ a \in Nat
         /\ \A k \in DOMAIN ClassesOf(a) : ClassesOf(a)[k] = <<a, k>> /\ k \in Nat
         /\ ToSet(ClassesOf(a)) = {c \in AllClasses : c[1] = a}
  <1>1. IsManifest(manifest)
    BY ManifestIs
  <1>2. Automata \in Seq(ToSet(Automata))
    BY <1>1 DEF IsManifest, Automata
  <1>3. a \in Nat /\ Automata[a] \in ToSet(Automata)
    BY <1>2 DEF ToSet
  <1>4. IsAutomaton(Automata[a])
    BY <1>1, <1>3 DEF IsManifest, Automata
  <1> DEFINE q == Automata[a].classes
  <1>5. q \in Seq(ToSet(q))
    BY <1>4 DEF IsAutomaton
  <1>6. DOMAIN q = 1 .. Len(q) /\ Len(q) \in Nat
    BY <1>5
  <1> HIDE DEF q
  <1>7. ClassesOf(a) = [s \in 1 .. Len(q) |-> <<a, s>>]
    BY <1>6 DEF ClassesOf, q
  <1>8. DOMAIN ClassesOf(a) = 1 .. Len(q) /\ \A k \in 1 .. Len(q) : ClassesOf(a)[k] = <<a, k>>
    BY <1>7
  <1>9. ClassesOf(a) \in Seq({<<a, s>> : s \in 1 .. Len(q)})
    <2>1. ClassesOf(a) \in [1 .. Len(q) -> {<<a, s>> : s \in 1 .. Len(q)}]
      BY <1>7
    <2> QED BY <2>1, <1>6, SeqDef
  <1>10. IsSeq(ClassesOf(a))
    BY <1>9, SeqOfMembers
  <1>11. ToSet(ClassesOf(a)) = {<<a, s>> : s \in 1 .. Len(q)}
    BY <1>8 DEF ToSet
  <1>12. {c \in AllClasses : c[1] = a} = {<<a, s>> : s \in 1 .. Len(q)}
    <2>1. ASSUME NEW c \in AllClasses, c[1] = a PROVE c \in {<<a, s>> : s \in 1 .. Len(q)}
      <3>1. PICK b \in DOMAIN Automata : c \in {<<b, s>> : s \in DOMAIN Automata[b].classes}
        BY <2>1 DEF AllClasses
      <3>2. b = a
        BY <3>1, <2>1
      <3> QED BY <3>1, <3>2, <1>6 DEF q
    <2>2. ASSUME NEW s \in 1 .. Len(q) PROVE <<a, s>> \in AllClasses /\ <<a, s>>[1] = a
      <3>1. <<a, s>> \in {<<a, t>> : t \in DOMAIN Automata[a].classes}
        BY <1>6 DEF q
      <3> QED BY <3>1 DEF AllClasses
    <2> QED BY <2>1, <2>2
  <1> QED BY <1>3, <1>6, <1>8, <1>10, <1>11, <1>12

LEMMA Numbered ==
  ASSUME NEW s, IsSeq(s)
  PROVE  /\ [a \in DOMAIN s |-> a] \in Seq(DOMAIN s) /\ Ascends([a \in DOMAIN s |-> a])
         /\ ToSet([a \in DOMAIN s |-> a]) = DOMAIN s /\ DOMAIN s = 1 .. Len(s) /\ Len(s) \in Nat
  <1>1. DOMAIN s = 1 .. Len(s) /\ Len(s) \in Nat
    BY DEF IsSeq
  <1> DEFINE n == Len(s)
             t == [a \in 1 .. n |-> a]
  <1>2. t \in [1 .. n -> 1 .. n] /\ n \in Nat
    BY <1>1
  <1>3. t \in Seq(1 .. n)
    BY <1>2, SeqDef
  <1>4. Ascends(t) /\ ToSet(t) = 1 .. n
    BY <1>2 DEF Ascends, ToSet
  <1> QED BY <1>1, <1>3, <1>4

\* The automata one after another.
LEMMA ListSteps ==
  /\ ListFold!Fold(0, <<>>, <<>>) = <<>>
  /\ \A T : \A p \in Seq(T), x \in T :
       ListFold!Fold(0, <<>>, Append(p, x)) = ListFold!Fold(0, <<>>, p) \o ClassesOf(x)
  <1>1. ASSUME NEW T, NEW p \in Seq(T), NEW x \in T
        PROVE  ListFold!Fold(0, <<>>, Append(p, x)) = ListFold!Fold(0, <<>>, p) \o ClassesOf(x)
    <2>1. ListFold!Fold(0, <<>>, Append(p, x)) = ListBody(0, ListFold!Fold(0, <<>>, p), x)
      BY ListFold!FoldOne
    <2> QED BY <2>1 DEF ListBody
  <1> QED BY <1>1, ListFold!FoldNone

LEMMA ClassesAre ==
  ASSUME manifest \in Manifests
  PROVE  IsSeq(Classes) /\ ToSet(Classes) = AllClasses /\ Sorted(Classes)
  <1> DEFINE L(p) == ListFold!Fold(0, <<>>, p)
             D == DOMAIN Automata
             Good(p) == /\ IsSeq(L(p)) /\ ToSet(L(p)) = {c \in AllClasses : c[1] \in ToSet(p)}
                        /\ Sorted(L(p))
             S == {p \in Seq(D) : Ascends(p) => Good(p)}
  <1>1. <<>> \in S
    <2>1. L(<<>>) = <<>>
      BY ListSteps
    <2>2. Good(<<>>)
      BY <2>1, NoneIsSeq DEF Sorted
    <2>3. <<>> \in Seq(D)
      OBVIOUS
    <2> QED BY <2>2, <2>3
  <1>2. ASSUME NEW p \in Seq(D), NEW x \in D, p \in S PROVE Append(p, x) \in S
    <2> DEFINE P == Append(p, x)
    <2> SUFFICES ASSUME Ascends(P) PROVE Good(P)
      OBVIOUS
    <2> HIDE DEF D
    <2>1. IsSeq(p)
      BY SeqOfMembers
    <2>2. /\ DOMAIN p = 1 .. Len(p) /\ DOMAIN P = 1 .. Len(p) + 1 /\ Len(p) \in Nat
          /\ \A k \in 1 .. Len(p) : P[k] = p[k]
          /\ P[Len(p) + 1] = x
          /\ ToSet(P) = ToSet(p) \cup {x}
      BY <2>1, OneMore
    <2>3. L(P) = L(p) \o ClassesOf(x)
      BY ListSteps
    <2> HIDE DEF P
    <2>4. Ascends(p) /\ \A k \in DOMAIN p : p[k] < x
      BY <2>2 DEF Ascends
    <2>5. Good(p)
      BY <1>2, <2>4
    <2> DEFINE s == L(p)
               t == ClassesOf(x)
    <2>6. IsSeq(s) /\ ToSet(s) = {c \in AllClasses : c[1] \in ToSet(p)} /\ Sorted(s)
      BY <2>5
    <2>7. /\ IsSeq(t) /\ \A k \in DOMAIN t : t[k] = <<x, k>> /\ k \in Nat
          /\ ToSet(t) = {c \in AllClasses : c[1] = x} /\ x \in Nat
      BY ClassesOfOne DEF D
    <2>8. L(P) = s \o t
      BY <2>3
    <2> HIDE DEF s, t, L
    <2>9. IsSeq(L(P)) /\ ToSet(L(P)) = ToSet(s) \cup ToSet(t)
      BY <2>6, <2>7, <2>8, Joined
    <2>10. ToSet(L(P)) = {c \in AllClasses : c[1] \in ToSet(P)}
      BY <2>2, <2>6, <2>7, <2>9
    <2>11. Sorted(s \o t)
      <3> DEFINE u == s \o t
      <3>1. /\ Len(s) \in Nat /\ Len(t) \in Nat
            /\ DOMAIN s = 1 .. Len(s) /\ DOMAIN t = 1 .. Len(t)
            /\ DOMAIN u = 1 .. Len(s) + Len(t)
            /\ \A k \in 1 .. Len(s) : u[k] = s[k]
            /\ \A k \in 1 .. Len(s) + Len(t) : k > Len(s) => u[k] = t[k - Len(s)]
        BY <2>6, <2>7, Joined
      <3> HIDE DEF u
      <3> SUFFICES ASSUME NEW i \in DOMAIN u, NEW j \in DOMAIN u, i < j
                   PROVE  u[i][1] < u[j][1] \/ (u[i][1] = u[j][1] /\ u[i][2] < u[j][2])
        BY DEF Sorted, u
      <3>2. CASE j <= Len(s)
        <4>1. i \in DOMAIN s /\ j \in DOMAIN s /\ u[i] = s[i] /\ u[j] = s[j]
          BY <3>1, <3>2
        <4> QED BY <4>1, <2>6 DEF Sorted
      <3>3. CASE i <= Len(s) /\ j > Len(s)
        <4>1. i \in DOMAIN s /\ u[i] = s[i] /\ j - Len(s) \in DOMAIN t /\ u[j] = t[j - Len(s)]
          BY <3>1, <3>3
        <4>2. s[i] \in ToSet(s)
          BY <4>1 DEF ToSet
        <4>3. s[i][1] \in ToSet(p)
          BY <4>2, <2>6
        <4>4. s[i][1] < x
          BY <4>3, <2>4 DEF ToSet
        <4>5. u[j] = <<x, j - Len(s)>>
          BY <4>1, <2>7
        <4> QED BY <4>1, <4>4, <4>5
      <3>4. CASE i > Len(s)
        <4>1. /\ i - Len(s) \in DOMAIN t /\ u[i] = t[i - Len(s)]
              /\ j - Len(s) \in DOMAIN t /\ u[j] = t[j - Len(s)]
          BY <3>1, <3>4
        <4>2. u[i] = <<x, i - Len(s)>> /\ u[j] = <<x, j - Len(s)>>
          BY <4>1, <2>7
        <4>3. i - Len(s) < j - Len(s)
          BY <3>1
        <4> QED BY <4>2, <4>3
      <3> QED BY <3>1, <3>2, <3>3, <3>4
    <2> QED BY <2>8, <2>9, <2>10, <2>11
  <1>3. Seq(D) \subseteq S
    <2> HIDE DEF S
    <2> QED BY <1>1, <1>2, ListFold!SeqInduction
  <1> DEFINE all == [a \in DOMAIN Automata |-> a]
  <1>4. IsSeq(Automata)
    BY ManifestIs DEF IsManifest, Automata, IsSeq
  <1>5. all \in Seq(D) /\ Ascends(all) /\ ToSet(all) = D
    BY <1>4, Numbered
  <1>6. Classes = L(all)
    BY ClassesAreFolded
  <1> HIDE DEF all
  <1>7. Good(all)
    BY <1>3, <1>5
  <1>8. \A c \in AllClasses : c[1] \in D
    BY DEF AllClasses
  <1> QED BY <1>5, <1>6, <1>7, <1>8

-----------------------------------------------------------------------------
(* What is added to a hook *)

IsBlock(b) == b = Block(b.test, b.call, b.yes, b.no) /\ b.yes \in Nat /\ b.no \in Nat
IsHook(h) ==
  /\ h = [entry |-> h.entry, blocks |-> h.blocks, ends |-> h.ends, ok |-> h.ok]
  /\ h.entry \in Nat /\ h.ok \in BOOLEAN
  /\ IsSeq(h.blocks) /\ \A k \in DOMAIN h.blocks : IsBlock(h.blocks[k])
  /\ \A a \in DOMAIN h.ends : h.ends[a] \in Nat

LEMMA BlockIs ==
  ASSUME NEW test, NEW call, NEW yes \in Nat, NEW no \in Nat
  PROVE  IsBlock(Block(test, call, yes, no))
  BY DEF IsBlock, Block

\* A block is put before another: the others only branch to it.
LEMMA BeforeIs ==
  ASSUME NEW h, IsHook(h), NEW b, NEW block, IsBlock(block)
  PROVE  LET n == Len(h.blocks)
             g == Before(h, b, block)
         IN /\ n \in Nat /\ DOMAIN h.blocks = 1 .. n
            /\ IsHook(g) /\ Len(g.blocks) = n + 1 /\ DOMAIN g.blocks = 1 .. n + 1
            /\ g.entry = To(b, n + 1, h.entry)
            /\ \A k \in 1 .. n :
                 g.blocks[k] = Branches(h.blocks[k], b, n + 1)
            /\ g.blocks[n + 1] = block
            /\ g.ends = h.ends /\ g.ok = h.ok
  <1> DEFINE n == Len(h.blocks)
             r == Redirect(h, b, n + 1)
             bs == [k \in 1 .. n |-> Branches(h.blocks[k], b, n + 1)]
  <1>1. n \in Nat /\ DOMAIN h.blocks = 1 .. n
    BY DEF IsHook, IsSeq
  <1>2. \A k \in 1 .. n : h.blocks[k].yes \in Nat /\ h.blocks[k].no \in Nat
    BY <1>1 DEF IsHook, IsBlock
  <1>3. r = [entry |-> To(b, n + 1, h.entry), blocks |-> bs, ends |-> h.ends, ok |-> h.ok]
    <2>1. h = [entry |-> h.entry, blocks |-> h.blocks, ends |-> h.ends, ok |-> h.ok]
      BY DEF IsHook
    <2>2. bs = [k \in DOMAIN h.blocks |-> Branches(h.blocks[k], b, n + 1)]
      BY <1>1
    <2>3. r = [h EXCEPT !.entry = To(b, n + 1, h.entry), !.blocks = bs]
      BY <2>2 DEF Redirect
    <2> HIDE DEF bs, n, r
    <2> QED BY <2>1, <2>3
  <1>4. ASSUME NEW k \in 1 .. n PROVE IsBlock(bs[k])
    <2>1. To(b, n + 1, h.blocks[k].yes) \in Nat /\ To(b, n + 1, h.blocks[k].no) \in Nat
      BY <1>1, <1>2 DEF To
    <2> QED BY <2>1, BlockIs DEF Branches
  <1>5. IsSeq(bs) /\ Len(bs) = n /\ DOMAIN bs = 1 .. n
    <2>1. bs \in [1 .. n -> ToSet(bs)] /\ DOMAIN bs = 1 .. n
      BY DEF ToSet
    <2> HIDE DEF bs
    <2>2. bs \in Seq(ToSet(bs))
      BY <1>1, <2>1, SeqDef
    <2> QED BY <1>1, <2>1, <2>2 DEF IsSeq
  <1> HIDE DEF bs, r
  <1> DEFINE g == Before(h, b, block)
             a == Append(bs, block)
  <1>6. g = [entry |-> To(b, n + 1, h.entry), blocks |-> a, ends |-> h.ends, ok |-> h.ok]
    BY <1>3 DEF Before, AddBlock, r
  <1>7. /\ IsSeq(a) /\ Len(a) = n + 1 /\ DOMAIN a = 1 .. n + 1
        /\ \A k \in 1 .. n : a[k] = bs[k]
        /\ a[n + 1] = block
    BY <1>5, OneMore
  <1> HIDE DEF a, g
  <1>8. \A k \in DOMAIN a : IsBlock(a[k])
    BY <1>1, <1>4, <1>7
  <1>9. To(b, n + 1, h.entry) \in Nat /\ h.ok \in BOOLEAN
    BY <1>1 DEF To, IsHook
  <1>10. IsHook(g)
    BY <1>6, <1>7, <1>8, <1>9 DEF IsHook
  <1>11. \A k \in 1 .. n : a[k] = Branches(h.blocks[k], b, n + 1)
    BY <1>7 DEF bs
  <1> QED BY <1>1, <1>6, <1>7, <1>10, <1>11 DEF g

LEMMA NewHookIs == IsHook(NewHook) /\ NewHook.ok
  BY NoneIsSeq DEF IsHook, NewHook, Exit

LEMMA PreambleIs ==
  ASSUME NEW h, IsHook(h) PROVE IsHook(CreatePreamble(h)) /\ CreatePreamble(h).ok = h.ok
  <1> DEFINE b == Block([match |-> "debugging"], [fn |-> "printf"], Exit, Exit)
  <1>1. IsBlock(b)
    BY BlockIs DEF Exit
  <1>2. IsHook(Before(h, Exit, b)) /\ Before(h, Exit, b).ok = h.ok
    BY <1>1, BeforeIs
  <1> QED BY <1>2 DEF CreatePreamble

LEMMA MatchIs ==
  ASSUME NEW h, IsHook(h), NEW instr \in Nat, NEW param, NEW pattern
  PROVE  IsHook(Match(h, instr, param, pattern)) /\ Match(h, instr, param, pattern).ok = h.ok
  <1> DEFINE b == Block([match |-> pattern.match, param |-> param,
                         value |-> Trunc(pattern.value)], NoCall, instr, Exit)
  <1>1. IsBlock(b)
    BY BlockIs DEF Exit
  <1>2. IsHook(Before(h, instr, b)) /\ Before(h, instr, b).ok = h.ok
    BY <1>1, BeforeIs
  <1> QED BY <1>2 DEF Match

\* The patterns, one after another.
Matched(h, instr, patterns, p) == MatchFold!Fold([instr |-> instr, patterns |-> patterns], h, p)

LEMMA MatchedNone ==
  ASSUME NEW h, NEW instr, NEW patterns PROVE Matched(h, instr, patterns, <<>>) = h
  BY MatchFold!FoldNone DEF Matched

LEMMA MatchedOne ==
  ASSUME NEW h, NEW instr, NEW patterns, NEW p \in Seq(Nat), NEW k \in Nat
  PROVE  Matched(h, instr, patterns, Append(p, k)) =
           Match(Matched(h, instr, patterns, p), instr, k, patterns[k])
  <1> DEFINE c == [instr |-> instr, patterns |-> patterns]
  <1>1. c.instr = instr /\ c.patterns = patterns
    OBVIOUS
  <1> HIDE DEF c
  <1>2. MatchFold!Fold(c, h, Append(p, k)) = MatchBody(c, MatchFold!Fold(c, h, p), k)
    BY MatchFold!FoldOne
  <1>3. MatchFold!Fold(c, h, Append(p, k)) = Match(MatchFold!Fold(c, h, p), instr, k, patterns[k])
    BY <1>1, <1>2 DEF MatchBody
  <1> QED BY <1>3 DEF Matched, c

LEMMA MatchedIs ==
  ASSUME NEW h, IsHook(h), NEW instr \in Nat, NEW patterns, NEW p \in Seq(Nat)
  PROVE  IsHook(Matched(h, instr, patterns, p)) /\ Matched(h, instr, patterns, p).ok = h.ok
  <1> DEFINE Good(q) == IsHook(Matched(h, instr, patterns, q))
                        /\ Matched(h, instr, patterns, q).ok = h.ok
             S == {q \in Seq(Nat) : Good(q)}
  <1>1. <<>> \in S
    <2>1. <<>> \in Seq(Nat)
      OBVIOUS
    <2> QED BY <2>1, MatchedNone
  <1>2. ASSUME NEW q \in Seq(Nat), NEW k \in Nat, q \in S PROVE Append(q, k) \in S
    <2>1. Append(q, k) \in Seq(Nat)
      OBVIOUS
    <2>2. Matched(h, instr, patterns, Append(q, k)) =
            Match(Matched(h, instr, patterns, q), instr, k, patterns[k])
      BY MatchedOne
    <2>3. Good(q)
      BY <1>2
    <2> QED BY <2>1, <2>2, <2>3, MatchIs
  <1>3. Seq(Nat) \subseteq S
    <2> HIDE DEF S
    <2> QED BY <1>1, <1>2, MatchFold!SeqInduction
  <1> QED BY <1>3

\* The numbers of the patterns.
Places(patterns) == [k \in 1 .. Len(patterns) |-> k]

LEMMA PlacesAre ==
  ASSUME NEW patterns, IsSeq(patterns) PROVE Places(patterns) \in Seq(Nat)
  <1>1. Len(patterns) \in Nat
    BY DEF IsSeq
  <1>2. Places(patterns) \in [1 .. Len(patterns) -> Nat]
    BY DEF Places
  <1> QED BY <1>1, <1>2, SeqDef

LEMMA MatchingIsFolded ==
  ASSUME NEW h, NEW instr, NEW patterns, NEW p
  PROVE  FoldLeft(LAMBDA g, k : Match(g, instr, k, patterns[k]), h, p)
           = Matched(h, instr, patterns, p)
  BY DEF Matched, MatchFold!Fold, FoldLeft, MapThenFoldSet, Max, MatchBody,
         MatchFold!FoldLeft, MatchFold!MapThenFoldSet, MatchFold!Max

\* Every variable has a place in the key, and no two have the same.
NamedOnce(patterns) ==
  /\ \A k, n \in DOMAIN patterns :
       k # n /\ HasIndex(patterns[k]) /\ HasIndex(patterns[n])
         => patterns[k].index # patterns[n].index
  /\ \A k \in DOMAIN patterns :
       HasIndex(patterns[k]) => patterns[k].index < TESLA_KEY_SIZE

LEMMA AddIsMatched ==
  ASSUME NEW h, NEW patterns, NEW params, NEW call
  PROVE  LET instr == Len(h.blocks) + 1
             g == Matched(Before(h, Exit, Block(NoTest, call, Exit, Exit)), instr, patterns,
                          Places(patterns))
         IN AddInstrumentation(h, patterns, params, call) =
              [g EXCEPT !.ok = @ /\ NamedOnce(patterns) /\ Len(patterns) = params]
  BY DEF AddInstrumentation, NamedOnce, Places, Matched, MatchFold!Fold, FoldLeft,
         MapThenFoldSet, Max, MatchBody, MatchFold!FoldLeft, MatchFold!MapThenFoldSet,
         MatchFold!Max

LEMMA AddedIs ==
  ASSUME NEW h, IsHook(h), NEW patterns, IsSeq(patterns), NEW params, NEW call
  PROVE  LET g == AddInstrumentation(h, patterns, params, call)
         IN IsHook(g) /\ g.ok = (h.ok /\ NamedOnce(patterns) /\ Len(patterns) = params)
  <1> DEFINE b == Block(NoTest, call, Exit, Exit)
             instr == Len(h.blocks) + 1
             chained == Before(h, Exit, b)
             g == Matched(chained, instr, patterns, Places(patterns))
             okay == h.ok /\ NamedOnce(patterns) /\ Len(patterns) = params
  <1>1. IsBlock(b)
    BY BlockIs DEF Exit
  <1>2. IsHook(chained) /\ chained.ok = h.ok /\ instr \in Nat
    BY <1>1, BeforeIs
  <1>3. Places(patterns) \in Seq(Nat)
    BY PlacesAre
  <1> HIDE DEF chained, b, instr
  <1>4. IsHook(g) /\ g.ok = h.ok
    BY <1>2, <1>3, MatchedIs
  <1>5. AddInstrumentation(h, patterns, params, call) =
          [g EXCEPT !.ok = @ /\ NamedOnce(patterns) /\ Len(patterns) = params]
    BY AddIsMatched DEF chained, b, instr
  <1> HIDE DEF g
  <1>6. [g EXCEPT !.ok = @ /\ NamedOnce(patterns) /\ Len(patterns) = params] =
          [entry |-> g.entry, blocks |-> g.blocks, ends |-> g.ends, ok |-> okay]
    BY <1>4 DEF IsHook
  <1>7. okay \in BOOLEAN
    BY DEF IsHook
  <1> HIDE DEF okay
  <1>8. IsHook([entry |-> g.entry, blocks |-> g.blocks, ends |-> g.ends, ok |-> okay])
    BY <1>4, <1>7 DEF IsHook
  <1> QED BY <1>5, <1>6, <1>8 DEF okay

-----------------------------------------------------------------------------
(* The variables of an assertion *)

ArgSet == [index : Nat, free : BOOLEAN, visible : BOOLEAN]
Keep(p) == KeepFold!Fold(0, <<>>, p)
Size(p) == SizeFold!Fold(0, 0, p)

LEMMA KeepOne ==
  ASSUME NEW p \in Seq(ArgSet), NEW x \in ArgSet
  PROVE  Keep(Append(p, x)) = IF x.free THEN Keep(p) ELSE Append(Keep(p), x)
  <1>1. KeepFold!Fold(0, <<>>, Append(p, x)) = KeepBody(0, KeepFold!Fold(0, <<>>, p), x)
    BY KeepFold!FoldOne
  <1> QED BY <1>1 DEF Keep, KeepBody

LEMMA SizeOne ==
  ASSUME NEW p \in Seq(ArgSet), NEW x \in ArgSet
  PROVE  Size(Append(p, x)) = IF Size(p) + 1 > x.index THEN Size(p) + 1 ELSE x.index
  <1>1. SizeFold!Fold(0, 0, Append(p, x)) = SizeBody(0, SizeFold!Fold(0, 0, p), x)
    BY SizeFold!FoldOne
  <1> QED BY <1>1 DEF Size, SizeBody

\* Indices are positions.
Indexed(p) == \A k \in DOMAIN p : p[k].index = k - 1

\* A free variable does not come before one that is not.
FreeLast(p) == \A i, j \in DOMAIN p : p[i].free /\ ~p[j].free => p[i].index >= p[j].index

LEMMA KeepIs ==
  ASSUME NEW p \in Seq(ArgSet)
  PROVE  Keep(p) \in Seq(ArgSet) /\ ToSet(Keep(p)) = {x \in ToSet(p) : ~x.free}
  <1> DEFINE Good(q) == Keep(q) \in Seq(ArgSet) /\ ToSet(Keep(q)) = {x \in ToSet(q) : ~x.free}
             S == {q \in Seq(ArgSet) : Good(q)}
  <1>1. <<>> \in S
    <2>1. Keep(<<>>) = <<>>
      BY KeepFold!FoldNone DEF Keep
    <2>2. <<>> \in Seq(ArgSet)
      OBVIOUS
    <2> QED BY <2>1, <2>2, NoneIsSeq
  <1>2. ASSUME NEW q \in Seq(ArgSet), NEW x \in ArgSet, q \in S PROVE Append(q, x) \in S
    <2>1. Append(q, x) \in Seq(ArgSet) /\ Good(q)
      BY <1>2
    <2>2. IsSeq(q) /\ IsSeq(Keep(q))
      BY <2>1, SeqOfMembers
    <2>3. ToSet(Append(q, x)) = ToSet(q) \cup {x}
      BY <2>2, OneMore
    <2>4. x.free \in BOOLEAN
      BY DEF ArgSet
    <2>5. CASE x.free
      <3>1. Keep(Append(q, x)) = Keep(q)
        BY <2>5, KeepOne
      <3>2. {y \in ToSet(q) \cup {x} : ~y.free} = {y \in ToSet(q) : ~y.free}
        BY <2>5
      <3> QED BY <2>1, <2>3, <3>1, <3>2
    <2>6. CASE ~x.free
      <3>1. Keep(Append(q, x)) = Append(Keep(q), x)
        BY <2>6, KeepOne
      <3>2. ToSet(Append(Keep(q), x)) = ToSet(Keep(q)) \cup {x}
        BY <2>2, OneMore
      <3>3. {y \in ToSet(q) \cup {x} : ~y.free} = {y \in ToSet(q) : ~y.free} \cup {x}
        BY <2>6
      <3>4. Append(Keep(q), x) \in Seq(ArgSet)
        BY <2>1
      <3> QED BY <2>1, <2>3, <3>1, <3>2, <3>3, <3>4
    <2> QED BY <2>4, <2>5, <2>6
  <1>3. Seq(ArgSet) \subseteq S
    <2> HIDE DEF S
    <2> QED BY <1>1, <1>2, KeepFold!SeqInduction
  <1> QED BY <1>3

\* What is known has the indices from 0.
LEMMA KeepIndexed ==
  ASSUME NEW p \in Seq(ArgSet), Indexed(p), FreeLast(p)
  PROVE  Indexed(Keep(p))
  <1> DEFINE All(q) == \A k \in DOMAIN q : ~q[k].free
             Good(q) == Indexed(Keep(q)) /\ (All(q) => Keep(q) = q)
             S == {q \in Seq(ArgSet) : Indexed(q) /\ FreeLast(q) => Good(q)}
  <1>1. <<>> \in S
    <2>1. Keep(<<>>) = <<>>
      BY KeepFold!FoldNone DEF Keep
    <2>2. <<>> \in Seq(ArgSet)
      OBVIOUS
    <2> QED BY <2>1, <2>2, NoneIsSeq DEF Indexed
  <1>2. ASSUME NEW q \in Seq(ArgSet), NEW x \in ArgSet, q \in S PROVE Append(q, x) \in S
    <2> DEFINE Q == Append(q, x)
    <2>0. Q \in Seq(ArgSet)
      OBVIOUS
    <2> SUFFICES ASSUME Indexed(Q), FreeLast(Q) PROVE Good(Q)
      BY <2>0
    <2>1. IsSeq(q)
      BY SeqOfMembers
    <2>2. /\ DOMAIN q = 1 .. Len(q) /\ DOMAIN Q = 1 .. Len(q) + 1 /\ Len(q) \in Nat
          /\ \A k \in 1 .. Len(q) : Q[k] = q[k]
          /\ Q[Len(q) + 1] = x
      BY <2>1, OneMore
    <2>3. Keep(Q) = IF x.free THEN Keep(q) ELSE Append(Keep(q), x)
      BY KeepOne
    <2> HIDE DEF Q
    <2>4. Indexed(q) /\ x.index = Len(q)
      BY <2>2 DEF Indexed
    <2>5. FreeLast(q)
      BY <2>2 DEF FreeLast
    <2>6. Good(q)
      BY <1>2, <2>4, <2>5
    <2>7. CASE x.free
      <3>1. Keep(Q) = Keep(q)
        BY <2>3, <2>7
      <3>2. ~All(Q)
        BY <2>2, <2>7
      <3> QED BY <2>6, <3>1, <3>2
    <2>8. CASE ~x.free
      <3>1. All(q)
        <4> SUFFICES ASSUME NEW k \in DOMAIN q, q[k].free PROVE FALSE
          OBVIOUS
        <4>1. k \in DOMAIN Q /\ Len(q) + 1 \in DOMAIN Q /\ Q[k].free /\ ~Q[Len(q) + 1].free
          BY <2>2, <2>8
        <4>2. Q[k].index >= Q[Len(q) + 1].index
          BY <4>1 DEF FreeLast
        <4>3. Q[k].index = k - 1 /\ Q[Len(q) + 1].index = (Len(q) + 1) - 1
          BY <4>1 DEF Indexed
        <4>4. k \in 1 .. Len(q)
          BY <2>2
        <4> HIDE DEF All
        <4> QED BY ONLY <2>2, <4>2, <4>3, <4>4
      <3>2. Keep(q) = q
        BY <2>6, <3>1
      <3>3. Keep(Q) = Q
        BY <2>3, <2>8, <3>2 DEF Q
      <3> QED BY <3>3
    <2> QED BY <2>7, <2>8
  <1>3. Seq(ArgSet) \subseteq S
    <2> HIDE DEF S
    <2> QED BY <1>1, <1>2, KeepFold!SeqInduction
  <1> QED BY <1>3

LEMMA SizeIs ==
  ASSUME NEW p \in Seq(ArgSet), Indexed(p) PROVE Size(p) = Len(p)
  <1> DEFINE S == {q \in Seq(ArgSet) : Indexed(q) => Size(q) = Len(q)}
  <1>1. <<>> \in S
    <2>1. Size(<<>>) = 0
      BY SizeFold!FoldNone DEF Size
    <2>2. <<>> \in Seq(ArgSet)
      OBVIOUS
    <2> QED BY <2>1, <2>2, NoneIsSeq
  <1>2. ASSUME NEW q \in Seq(ArgSet), NEW x \in ArgSet, q \in S PROVE Append(q, x) \in S
    <2> DEFINE Q == Append(q, x)
    <2>0. Q \in Seq(ArgSet)
      OBVIOUS
    <2> SUFFICES ASSUME Indexed(Q) PROVE Size(Q) = Len(Q)
      BY <2>0
    <2>1. IsSeq(q)
      BY SeqOfMembers
    <2>2. /\ DOMAIN q = 1 .. Len(q) /\ DOMAIN Q = 1 .. Len(q) + 1 /\ Len(q) \in Nat
          /\ \A k \in 1 .. Len(q) : Q[k] = q[k]
          /\ Q[Len(q) + 1] = x /\ Len(Q) = Len(q) + 1
      BY <2>1, OneMore
    <2>3. Size(Q) = IF Size(q) + 1 > x.index THEN Size(q) + 1 ELSE x.index
      BY SizeOne
    <2> HIDE DEF Q
    <2>4. Indexed(q) /\ x.index = Len(q)
      BY <2>2 DEF Indexed
    <2>5. Size(q) = Len(q)
      BY <1>2, <2>4
    <2> QED BY <2>2, <2>3, <2>4, <2>5
  <1>3. Seq(ArgSet) \subseteq S
    <2> HIDE DEF S
    <2> QED BY <1>1, <1>2, SizeFold!SeqInduction
  <1> QED BY <1>3

\* Of the variables of the automaton, a free one comes before one that is known,
\* or one that is known is not visible or has no place in the key.
Uncollected(a) ==
  \E x \in ToSet(Known(a)) :
    \/ \E i \in FreeMask(a) : i < x.index
    \/ x.index >= TESLA_KEY_SIZE \/ ~x.visible

LEMMA AutomatonIs ==
  ASSUME manifest \in Manifests, NEW a \in DOMAIN Automata
  PROVE  /\ IsAutomaton(Automata[a]) /\ Automata[a].lifetime \in DOMAIN manifest.lifetimes
         /\ a \in Nat
  <1>1. IsManifest(manifest)
    BY ManifestIs
  <1>2. Automata \in Seq(ToSet(Automata))
    BY <1>1 DEF IsManifest, Automata
  <1>3. a \in Nat /\ Automata[a] \in ToSet(Automata)
    BY <1>2 DEF ToSet
  <1> QED BY <1>1, <1>3 DEF IsManifest, Automata

LEMMA KnownIs ==
  ASSUME manifest \in Manifests, NEW a \in DOMAIN Automata
  PROVE  /\ IsSeq(Known(a))
         /\ ~Uncollected(a) =>
              Indexed(Known(a)) /\ ArgSize(a) = Len(Known(a)) /\ CollectArgs(a)
  <1> DEFINE args == Automata[a].args
  <1>1. args \in Seq(ArgSet) /\ Indexed(args)
    BY AutomatonIs DEF IsAutomaton, ArgSet, Indexed
  <1>2. Known(a) = Keep(args)
    BY KnownIsFolded DEF Keep
  <1>3. Known(a) \in Seq(ArgSet) /\ ToSet(Known(a)) = {x \in ToSet(args) : ~x.free}
    BY <1>1, <1>2, KeepIs
  <1>4. IsSeq(Known(a))
    BY <1>3, SeqOfMembers
  <1>5. FreeMask(a) = {x.index : x \in {y \in ToSet(args) : y.free}}
    BY DEF FreeMask
  <1> HIDE DEF args
  <1>6. ASSUME ~Uncollected(a)
        PROVE  Indexed(Known(a)) /\ ArgSize(a) = Len(Known(a)) /\ CollectArgs(a)
    <2>1. FreeLast(args)
      <3> SUFFICES ASSUME NEW i \in DOMAIN args, NEW j \in DOMAIN args, args[i].free, ~args[j].free
                   PROVE  args[i].index >= args[j].index
        BY DEF FreeLast
      <3>1. args[i] \in ToSet(args) /\ args[j] \in ToSet(args)
        BY DEF ToSet
      <3>2. args[i].index \in FreeMask(a) /\ args[j] \in ToSet(Known(a))
        BY <3>1, <1>3, <1>5
      <3>3. ~(args[i].index < args[j].index)
        BY <3>2, <1>6 DEF Uncollected
      <3>4. args[i] \in ArgSet /\ args[j] \in ArgSet
        BY <1>1
      <3>5. args[i].index \in Nat /\ args[j].index \in Nat
        BY <3>4 DEF ArgSet
      <3> QED BY <3>3, <3>5
    <2>2. Indexed(Known(a))
      BY <1>1, <1>2, <2>1, KeepIndexed
    <2>3. ArgSize(a) = Len(Known(a))
      BY <1>3, <2>2, SizeIs, SizeIsFolded DEF Size
    <2> DEFINE n == Len(Known(a))
    <2>4. n \in Nat /\ DOMAIN Known(a) = 1 .. n
      BY <1>3
    <2>5. \A k \in 1 .. n : Known(a)[k].index = k - 1
      BY <2>2, <2>4 DEF Indexed
    <2>6. {x.index : x \in ToSet(Known(a))} = 0 .. n - 1
      <3> HIDE DEF n
      <3>1. ToSet(Known(a)) = {Known(a)[k] : k \in 1 .. n}
        BY <2>4 DEF ToSet
      <3>2. {x.index : x \in ToSet(Known(a))} = {k - 1 : k \in 1 .. n}
        BY <2>5, <3>1
      <3>3. ASSUME NEW i \in 0 .. n - 1 PROVE i \in {k - 1 : k \in 1 .. n}
        <4>1. i + 1 \in 1 .. n /\ i = (i + 1) - 1
          BY <2>4
        <4> QED BY <4>1
      <3>4. \A k \in 1 .. n : k - 1 \in 0 .. n - 1
        BY <2>4
      <3> QED BY <3>2, <3>3, <3>4
    <2>7. \A x \in ToSet(Known(a)) : x.visible
      BY <1>6 DEF Uncollected
    <2> QED BY <2>2, <2>3, <2>6, <2>7 DEF CollectArgs
  <1> QED BY <1>4, <1>6

-----------------------------------------------------------------------------
(* All the hooks *)

HooksAre(hs) == \A key \in DOMAIN hs : IsHook(hs[key])
AllOk(hs) == \A key \in DOMAIN hs : hs[key].ok

LEMMA AtIs ==
  ASSUME NEW hs, HooksAre(hs), NEW key
  PROVE  IsHook(At(hs, key)) /\ (AllOk(hs) => At(hs, key).ok)
  <1>1. IsHook(CreatePreamble(NewHook)) /\ CreatePreamble(NewHook).ok
    BY NewHookIs, PreambleIs
  <1> QED BY <1>1 DEF At, HooksAre, AllOk

LEMMA PutIs ==
  ASSUME NEW hs, HooksAre(hs), NEW key, NEW h, IsHook(h)
  PROVE  HooksAre(Put(hs, key, h)) /\ (AllOk(hs) /\ h.ok => AllOk(Put(hs, key, h)))
  BY DEF Put, HooksAre, AllOk

\* The events of functions, wherever they are in the manifest.
LEMMA EventIs ==
  ASSUME manifest \in Manifests, NEW c \in AllClasses, IsFn(EventOf(c))
  PROVE  IsFnEvent(EventOf(c))
  <1>0. PICK a \in DOMAIN Automata : c \in {<<a, s>> : s \in DOMAIN Automata[a].classes}
    BY DEF AllClasses
  <1>1. PICK s \in DOMAIN Automata[a].classes : c = <<a, s>>
    BY <1>0
  <1>2. EventOf(c) = Automata[a].classes[s]
    BY <1>1 DEF EventOf
  <1>3. IsAutomaton(Automata[a])
    BY AutomatonIs
  <1>4. EventOf(c) \in ToSet(Automata[a].classes)
    BY <1>2 DEF ToSet
  <1> QED BY <1>3, <1>4 DEF IsAutomaton

LEMMA BoundIs ==
  ASSUME manifest \in Manifests, NEW l \in DOMAIN manifest.lifetimes,
         NEW e \in {manifest.lifetimes[l].init, manifest.lifetimes[l].cleanup}
  PROVE  \E c \in AllClasses : e = EventOf(c) /\ IsFnEvent(e)
  <1>1. IsManifest(manifest)
    BY ManifestIs
  <1>2. manifest.lifetimes[l] \in ToSet(manifest.lifetimes)
    BY DEF ToSet
  <1>3. PICK A \in ToSet(manifest.automata) : IsFn(e) /\ e \in ToSet(A.classes)
    BY <1>1, <1>2 DEF IsManifest
  <1>4. PICK a \in DOMAIN Automata : A = Automata[a]
    BY <1>3 DEF ToSet, Automata
  <1>5. PICK s \in DOMAIN Automata[a].classes : e = Automata[a].classes[s]
    BY <1>3, <1>4 DEF ToSet
  <1>6. <<a, s>> \in AllClasses
    <2>1. <<a, s>> \in {<<a, t>> : t \in DOMAIN Automata[a].classes}
      OBVIOUS
    <2> QED BY <2>1 DEF AllClasses
  <1>7. e = EventOf(<<a, s>>)
    BY <1>5 DEF EventOf
  <1> QED BY <1>3, <1>6, <1>7, EventIs

LEMMA PatternsAre ==
  ASSUME NEW e, IsFnEvent(e)
  PROVE  /\ IsSeq(Patterns(e)) /\ Len(Patterns(e)) = HookParams(e)
         /\ \A p \in ToSet(Patterns(e)) : IsPattern(p)
  <1>1. IsSeq(e.args) /\ IsSeq(e.ret)
    BY DEF IsFnEvent, IsSeq
  <1> QED BY <1>1, Joined DEF Patterns, IsFnEvent

LEMMA FnHookIs ==
  ASSUME NEW hs, HooksAre(hs), NEW where, NEW e, IsFnEvent(e), NEW call
  PROVE  /\ HooksAre(FnHook(hs, where, e, call))
         /\ AllOk(hs) /\ ~Refused(e) => AllOk(FnHook(hs, where, e, call))
  <1> DEFINE key == <<where, e.fn, e.dir>>
             g == AddInstrumentation(At(hs, key), Patterns(e), HookParams(e), call)
             okay == g.ok /\ ComparesInts(e)
             f == [g EXCEPT !.ok = okay]
  <1>1. /\ IsSeq(Patterns(e)) /\ Len(Patterns(e)) = HookParams(e)
        /\ \A p \in ToSet(Patterns(e)) : IsPattern(p)
    BY PatternsAre
  <1>2. IsHook(At(hs, key)) /\ (AllOk(hs) => At(hs, key).ok)
    BY AtIs
  <1> HIDE DEF key
  <1>3. /\ IsHook(g)
        /\ g.ok = (At(hs, key).ok /\ NamedOnce(Patterns(e)) /\ Len(Patterns(e)) = HookParams(e))
    BY <1>1, <1>2, AddedIs
  <1>4. ~Refused(e) => NamedOnce(Patterns(e)) /\ ComparesInts(e)
    <2> SUFFICES ASSUME ~Refused(e) PROVE NamedOnce(Patterns(e))
      BY DEF Refused, IsFnEvent
    <2>1. ~Repeats(Patterns(e)) /\ ~Beyond(Patterns(e))
      BY DEF Refused, IsFnEvent
    <2>2. ASSUME NEW k \in DOMAIN Patterns(e), HasIndex(Patterns(e)[k])
          PROVE  Patterns(e)[k].index < TESLA_KEY_SIZE
      <3>1. Patterns(e)[k] \in ToSet(Patterns(e))
        BY DEF ToSet
      <3>2. Patterns(e)[k].index \in Nat
        BY <1>1, <2>2, <3>1 DEF IsPattern
      <3>3. ~(Patterns(e)[k].index >= TESLA_KEY_SIZE)
        BY <2>1, <2>2 DEF Beyond
      <3> QED BY <3>2, <3>3 DEF TESLA_KEY_SIZE
    <2> QED BY <2>1, <2>2 DEF Repeats, NamedOnce
  <1>5. FnHook(hs, where, e, call) = Put(hs, key, f)
    BY DEF FnHook, key
  <1>6. ComparesInts(e) \in BOOLEAN
    BY DEF ComparesInts
  <1> HIDE DEF g
  <1>7. okay \in BOOLEAN
    BY <1>3, <1>6 DEF IsHook
  <1> HIDE DEF okay
  <1>8. f = [entry |-> g.entry, blocks |-> g.blocks, ends |-> g.ends, ok |-> okay]
    BY <1>3 DEF IsHook
  <1>9. IsHook(f) /\ f.ok = okay
    BY <1>3, <1>7, <1>8 DEF IsHook
  <1> HIDE DEF f
  <1> QED BY <1>1, <1>2, <1>3, <1>4, <1>5, <1>9, PutIs DEF okay

\* An assignment of a variable, or of a constant to an integer.
Supported(c) ==
  LET e == EventOf(c)
  IN \/ e.value.type = "Variable"
     \/ e.value.type = "Constant" /\ <<e.field, 2>> \notin Pointers

\* The instrumenter cannot do this, of the assertions and of the patterns.
Unsupported ==
  \/ \E a \in DOMAIN Automata : Uncollected(a)
  \/ \E c \in AllClasses : Refused(EventOf(c))

\* One hook more, in each of the passes.
Kept(hs, g) == HooksAre(g) /\ (AllOk(hs) /\ ~Unsupported => AllOk(g))

LEMMA EventKept ==
  ASSUME manifest \in Manifests, NEW hs, HooksAre(hs), NEW c \in AllClasses,
         IsFn(EventOf(c)), NEW where, NEW call
  PROVE  Kept(hs, FnHook(hs, where, EventOf(c), call))
  <1>1. IsFnEvent(EventOf(c))
    BY EventIs
  <1>2. ~Unsupported => ~Refused(EventOf(c))
    BY DEF Unsupported
  <1> QED BY <1>1, <1>2, FnHookIs DEF Kept

LEMMA BoundKept ==
  ASSUME manifest \in Manifests, NEW hs, HooksAre(hs), NEW l \in DOMAIN manifest.lifetimes,
         NEW e \in {manifest.lifetimes[l].init, manifest.lifetimes[l].cleanup},
         NEW where, NEW call
  PROVE  Kept(hs, FnHook(hs, where, e, call))
  <1>1. PICK c \in AllClasses : e = EventOf(c) /\ IsFnEvent(e)
    BY BoundIs
  <1>2. IsFn(e)
    BY <1>1 DEF IsFnEvent
  <1> QED BY <1>1, <1>2, EventKept

LEMMA SameKept == ASSUME NEW hs, HooksAre(hs) PROVE Kept(hs, hs)
  BY DEF Kept

LEMMA KeptTwice ==
  ASSUME NEW hs, NEW g, NEW f, Kept(hs, g), Kept(g, f) PROVE Kept(hs, f)
  BY DEF Kept

LEMMA LifetimeKept ==
  ASSUME manifest \in Manifests, NEW hs, HooksAre(hs), NEW m,
         NEW l \in DOMAIN manifest.lifetimes
  PROVE  Kept(hs, LifetimeHooks(hs, m, l))
  <1> DEFINE L == manifest.lifetimes[l]
             g == FnHook(hs, "callee", L.init, Sun("sunrise", BuildLifetime(l)))
             f == FnHook(g, "callee", L.cleanup, Sun("sunset", BuildLifetime(l)))
  <1>1. Kept(hs, g)
    BY BoundKept
  <1>2. HooksAre(g)
    BY <1>1 DEF Kept
  <1> HIDE DEF g
  <1>3. Kept(g, f)
    BY <1>2, BoundKept
  <1>4. Kept(hs, f)
    BY <1>1, <1>3, KeptTwice
  <1>5. Kept(hs, hs)
    BY SameKept
  <1> HIDE DEF f
  <1> QED BY <1>1, <1>4, <1>5 DEF LifetimeHooks, g, f

LEMMA CalleeKept ==
  ASSUME manifest \in Manifests, NEW hs, HooksAre(hs), NEW m, NEW c \in AllClasses
  PROVE  Kept(hs, CalleeClass(hs, m, c)) /\ Kept(hs, CallerClass(hs, m, c))
  <1>1. ASSUME IsFn(EventOf(c)), NEW where PROVE Kept(hs, ClassHook(hs, where, c))
    BY <1>1, EventKept DEF ClassHook
  <1>2. Kept(hs, hs)
    BY SameKept
  <1>3. Kept(hs, CalleeClass(hs, m, c))
    BY <1>1, <1>2 DEF CalleeClass
  <1>4. Kept(hs, CallerClass(hs, m, c))
    BY <1>1, <1>2 DEF CallerClass
  <1> QED BY <1>3, <1>4

LEMMA AppendedIs ==
  ASSUME NEW h, IsHook(h), NEW c
  PROVE  /\ IsHook(NextInstrBlock(h, c[1])) /\ NextInstrBlock(h, c[1]).ok = h.ok
         /\ c[1] \in DOMAIN NextInstrBlock(h, c[1]).ends
         /\ IsHook(AppendInstrumentation(h, c))
         /\ AppendInstrumentation(h, c).ok = (h.ok /\ Supported(c))
  <1> DEFINE a == c[1]
             e == EventOf(c)
             nop == Block(NoTest, NoCall, Exit, Exit)
             f == Before(h, Exit, nop)
             g == NextInstrBlock(h, a)
             okay == g.ok /\ \/ e.value.type = "Variable"
                             \/ e.value.type = "Constant" /\ <<e.field, 2>> \notin Pointers
             g0 == [g EXCEPT !.ok = okay]
  <1>1. IsHook(g) /\ g.ok = h.ok /\ a \in DOMAIN g.ends
    <2>1. CASE a \in DOMAIN h.ends
      BY <2>1 DEF NextInstrBlock
    <2>2. CASE a \notin DOMAIN h.ends
      <3>1. IsBlock(nop)
        BY BlockIs DEF Exit
      <3>2. IsHook(f) /\ f.ok = h.ok /\ f.ends = h.ends /\ Len(h.blocks) \in Nat
        BY <3>1, BeforeIs
      <3> DEFINE ends == Put(f.ends, a, Len(h.blocks) + 1)
      <3>3. g = [f EXCEPT !.ends = ends]
        BY <2>2 DEF NextInstrBlock
      <3>4. a \in DOMAIN ends /\ \A x \in DOMAIN ends : ends[x] \in Nat
        BY <3>2 DEF Put, IsHook
      <3> HIDE DEF f, g, ends
      <3>5. g = [entry |-> f.entry, blocks |-> f.blocks, ends |-> ends, ok |-> f.ok]
        BY <3>2, <3>3 DEF IsHook
      <3>6. IsHook(g)
        BY <3>2, <3>4, <3>5 DEF IsHook
      <3> QED BY <3>2, <3>4, <3>5, <3>6
    <2> QED BY <2>1, <2>2
  <1> DEFINE end == g0.ends[a]
             instr == Len(g0.blocks) + 1
             b1 == Block(NoTest, [Update(c[1], c[2], <<>>, FALSE, {}) EXCEPT !.key = FieldKey(e)],
                         Exit, Exit)
             g1 == Before(g0, end, b1)
             b2 == Block([match |-> e.how, param |-> 2, value |-> Trunc(e.value.value)],
                         NoCall, instr, end)
             g2 == Before(g1, instr, b2)
  <1>2. AppendInstrumentation(h, c) = IF e.value.type # "Constant" THEN g1 ELSE g2
    BY DEF AppendInstrumentation
  <1> HIDE DEF g
  <1>3. IsHook(g0) /\ g0.ok = (h.ok /\ Supported(c)) /\ a \in DOMAIN g0.ends
    <2>1. okay = (h.ok /\ Supported(c)) /\ okay \in BOOLEAN
      BY <1>1 DEF Supported, IsHook
    <2> HIDE DEF okay
    <2>2. g0 = [entry |-> g.entry, blocks |-> g.blocks, ends |-> g.ends, ok |-> okay]
      BY <1>1 DEF IsHook
    <2> HIDE DEF g0
    <2> QED BY <1>1, <2>1, <2>2 DEF IsHook
  <1> HIDE DEF g0
  <1>4. end \in Nat
    BY <1>3 DEF IsHook
  <1>5. IsBlock(b1)
    BY BlockIs DEF Exit
  <1> HIDE DEF b1
  <1>6. IsHook(g1) /\ g1.ok = g0.ok /\ instr \in Nat
    BY <1>3, <1>5, BeforeIs
  <1> HIDE DEF g1, instr, end
  <1>7. IsBlock(b2)
    BY <1>4, <1>6, BlockIs
  <1> HIDE DEF b2
  <1>8. IsHook(g2) /\ g2.ok = g0.ok
    BY <1>6, <1>7, BeforeIs
  <1> HIDE DEF g2
  <1> QED BY <1>1, <1>2, <1>3, <1>6, <1>8 DEF g

LEMMA FieldKept ==
  ASSUME NEW hs, HooksAre(hs), NEW m, NEW c \in AllClasses
  PROVE  Kept(hs, FieldClass(hs, m, c))
  <1> DEFINE e == EventOf(c)
             key == <<m, e.field, "Store">>
             h == StructInstrumentation(hs, m, e.field)
             g == AppendInstrumentation(h, c)
  <1>1. h = At(hs, key)
    BY DEF StructInstrumentation, CreateInstrPreamble, At
  <1>2. IsHook(h) /\ (AllOk(hs) => h.ok)
    BY <1>1, AtIs
  <1> HIDE DEF h, key
  <1>3. IsHook(g) /\ (AllOk(hs) /\ Supported(c) => g.ok)
    BY <1>2, AppendedIs
  <1> HIDE DEF g
  <1>4. e.kind = "Field" /\ ~Unsupported => Supported(c)
    BY DEF Unsupported, Refused, Supported
  <1>5. e.kind = "Field" => Kept(hs, Put(hs, key, g))
    BY <1>3, <1>4, PutIs DEF Kept
  <1>6. FieldClass(hs, m, c) = IF HasField(m, e) THEN Put(hs, key, g) ELSE hs
    BY DEF FieldClass, g, h, key
  <1>7. HasField(m, e) => e.kind = "Field"
    BY DEF HasField
  <1> QED BY <1>5, <1>6, <1>7, SameKept

\* The patterns of an assertion: the variables it knows.
SitePatterns(a) ==
  [k \in DOMAIN Known(a) |-> [type |-> "Variable", index |-> Known(a)[k].index]]

LEMMA SitePatternsAre ==
  ASSUME manifest \in Manifests, NEW a \in DOMAIN Automata
  PROVE  /\ IsSeq(SitePatterns(a)) /\ Len(SitePatterns(a)) = Len(Known(a))
         /\ Len(Known(a)) \in Nat /\ DOMAIN SitePatterns(a) = 1 .. Len(Known(a))
         /\ DOMAIN Known(a) = 1 .. Len(Known(a))
         /\ ~Uncollected(a) => NamedOnce(SitePatterns(a))
  <1> DEFINE s == SitePatterns(a)
             n == Len(Known(a))
  <1>1. IsSeq(Known(a))
    BY KnownIs
  <1>2. n \in Nat /\ DOMAIN Known(a) = 1 .. n
    BY <1>1 DEF IsSeq
  <1>3. /\ s \in [1 .. n -> ToSet(s)] /\ DOMAIN s = 1 .. n
        /\ \A k \in 1 .. n : s[k].index = Known(a)[k].index
    BY <1>2 DEF SitePatterns, ToSet
  <1> HIDE DEF n, s
  <1>4. s \in Seq(ToSet(s)) /\ Len(s) = n
    BY <1>2, <1>3, SeqDef
  <1>5. ASSUME ~Uncollected(a) PROVE NamedOnce(s)
    <2>1. \A k \in 1 .. n : s[k].index = k - 1
      BY <1>2, <1>3, <1>5, KnownIs DEF Indexed
    <2>2. ASSUME NEW k \in 1 .. n PROVE s[k].index < TESLA_KEY_SIZE
      <3>1. Known(a)[k] \in ToSet(Known(a))
        BY <1>2 DEF ToSet
      <3>2. ~(Known(a)[k].index >= TESLA_KEY_SIZE)
        BY <1>5, <3>1 DEF Uncollected
      <3> QED BY <1>2, <1>3, <2>1, <3>2 DEF TESLA_KEY_SIZE
    <2> QED BY <1>2, <1>3, <2>1, <2>2 DEF NamedOnce
  <1> QED BY <1>2, <1>3, <1>4, <1>5 DEF IsSeq, n, s

LEMMA SiteKept ==
  ASSUME manifest \in Manifests, NEW hs, HooksAre(hs), NEW a \in DOMAIN Automata
  PROVE  Kept(hs, AssertionHook(hs, a))
  <1> DEFINE call == Update(a, AssertSymbol(a), SitePatterns(a), FALSE, FreeMask(a))
             h == CreatePreamble(NewHook)
             g == AddInstrumentation(h, SitePatterns(a), ArgSize(a), call)
             f == [g EXCEPT !.ok = @ /\ CollectArgs(a)]
             key == <<"assertion", a, "Reached">>
  <1>1. AssertionHook(hs, a) = Put(hs, key, f)
    BY DEF AssertionHook, SitePatterns
  <1>2. IsHook(h) /\ h.ok
    BY NewHookIs, PreambleIs
  <1>3. IsSeq(SitePatterns(a)) /\ Len(SitePatterns(a)) = Len(Known(a))
        /\ (~Uncollected(a) => NamedOnce(SitePatterns(a)))
    BY SitePatternsAre
  <1> HIDE DEF h, call
  <1>4. IsHook(g) /\ g.ok = (h.ok /\ NamedOnce(SitePatterns(a))
                             /\ Len(SitePatterns(a)) = ArgSize(a))
    BY <1>2, <1>3, AddedIs
  <1>5. ~Uncollected(a) => ArgSize(a) = Len(Known(a)) /\ CollectArgs(a)
    BY KnownIs
  <1> DEFINE okay == g.ok /\ CollectArgs(a)
  <1>6. okay \in BOOLEAN /\ (~Uncollected(a) => okay)
    BY <1>2, <1>3, <1>4, <1>5 DEF IsHook
  <1> HIDE DEF g
  <1>7. f = [entry |-> g.entry, blocks |-> g.blocks, ends |-> g.ends, ok |-> okay]
    BY <1>4 DEF IsHook
  <1> HIDE DEF f, okay
  <1>8. IsHook(f) /\ f.ok = okay
    BY <1>4, <1>6, <1>7 DEF IsHook
  <1>9. ~Unsupported => ~Uncollected(a)
    BY DEF Unsupported
  <1> HIDE DEF key
  <1> QED BY <1>1, <1>6, <1>8, <1>9, PutIs DEF Kept

-----------------------------------------------------------------------------
(* The passes leave hooks, and give up on nothing they support *)

LEMMA SitesKept ==
  ASSUME manifest \in Manifests, NEW hs, HooksAre(hs), NEW m, NEW p \in Seq(DOMAIN Automata)
  PROVE  Kept(hs, SiteFold!Fold(m, hs, p))
  <1> DEFINE F(q) == SiteFold!Fold(m, hs, q)
             S == {q \in Seq(DOMAIN Automata) : Kept(hs, F(q))}
  <1>1. <<>> \in S
    <2>1. F(<<>>) = hs
      BY SiteFold!FoldNone
    <2>2. <<>> \in Seq(DOMAIN Automata)
      OBVIOUS
    <2> QED BY <2>1, <2>2, SameKept
  <1>2. ASSUME NEW q \in Seq(DOMAIN Automata), NEW x \in DOMAIN Automata, q \in S PROVE Append(q, x) \in S
    <2>1. F(Append(q, x)) = SiteBody(m, F(q), x)
      BY SiteFold!FoldOne
    <2>2. Append(q, x) \in Seq(DOMAIN Automata)
      OBVIOUS
    <2>3. Kept(hs, F(q)) /\ HooksAre(F(q))
      BY <1>2 DEF Kept
    <2> HIDE DEF F
    <2>4. Kept(F(q), SiteBody(m, F(q), x))
      BY <2>3, SiteKept, SameKept DEF SiteBody
    <2>5. Kept(hs, F(Append(q, x)))
      BY <2>1, <2>3, <2>4, KeptTwice
    <2> QED BY <2>2, <2>5
  <1>3. Seq(DOMAIN Automata) \subseteq S
    <2> HIDE DEF S
    <2> QED BY <1>1, <1>2, SiteFold!SeqInduction
  <1> QED BY <1>3

LEMMA LifetimesKept ==
  ASSUME manifest \in Manifests, NEW hs, HooksAre(hs), NEW m, NEW p \in Seq(DOMAIN manifest.lifetimes)
  PROVE  Kept(hs, LifetimeFold!Fold(m, hs, p))
  <1> DEFINE F(q) == LifetimeFold!Fold(m, hs, q)
             S == {q \in Seq(DOMAIN manifest.lifetimes) : Kept(hs, F(q))}
  <1>1. <<>> \in S
    <2>1. F(<<>>) = hs
      BY LifetimeFold!FoldNone
    <2>2. <<>> \in Seq(DOMAIN manifest.lifetimes)
      OBVIOUS
    <2> QED BY <2>1, <2>2, SameKept
  <1>2. ASSUME NEW q \in Seq(DOMAIN manifest.lifetimes), NEW x \in DOMAIN manifest.lifetimes, q \in S PROVE Append(q, x) \in S
    <2>1. F(Append(q, x)) = LifetimeBody(m, F(q), x)
      BY LifetimeFold!FoldOne
    <2>2. Append(q, x) \in Seq(DOMAIN manifest.lifetimes)
      OBVIOUS
    <2>3. Kept(hs, F(q)) /\ HooksAre(F(q))
      BY <1>2 DEF Kept
    <2> HIDE DEF F
    <2>4. Kept(F(q), LifetimeBody(m, F(q), x))
      BY <2>3, LifetimeKept DEF LifetimeBody
    <2>5. Kept(hs, F(Append(q, x)))
      BY <2>1, <2>3, <2>4, KeptTwice
    <2> QED BY <2>2, <2>5
  <1>3. Seq(DOMAIN manifest.lifetimes) \subseteq S
    <2> HIDE DEF S
    <2> QED BY <1>1, <1>2, LifetimeFold!SeqInduction
  <1> QED BY <1>3

LEMMA CalleesKept ==
  ASSUME manifest \in Manifests, NEW hs, HooksAre(hs), NEW m, NEW p \in Seq(AllClasses)
  PROVE  Kept(hs, CalleeFold!Fold(m, hs, p))
  <1> DEFINE F(q) == CalleeFold!Fold(m, hs, q)
             S == {q \in Seq(AllClasses) : Kept(hs, F(q))}
  <1>1. <<>> \in S
    <2>1. F(<<>>) = hs
      BY CalleeFold!FoldNone
    <2>2. <<>> \in Seq(AllClasses)
      OBVIOUS
    <2> QED BY <2>1, <2>2, SameKept
  <1>2. ASSUME NEW q \in Seq(AllClasses), NEW x \in AllClasses, q \in S PROVE Append(q, x) \in S
    <2>1. F(Append(q, x)) = CalleeBody(m, F(q), x)
      BY CalleeFold!FoldOne
    <2>2. Append(q, x) \in Seq(AllClasses)
      OBVIOUS
    <2>3. Kept(hs, F(q)) /\ HooksAre(F(q))
      BY <1>2 DEF Kept
    <2> HIDE DEF F
    <2>4. Kept(F(q), CalleeBody(m, F(q), x))
      BY <2>3, CalleeKept DEF CalleeBody
    <2>5. Kept(hs, F(Append(q, x)))
      BY <2>1, <2>3, <2>4, KeptTwice
    <2> QED BY <2>2, <2>5
  <1>3. Seq(AllClasses) \subseteq S
    <2> HIDE DEF S
    <2> QED BY <1>1, <1>2, CalleeFold!SeqInduction
  <1> QED BY <1>3

LEMMA CallersKept ==
  ASSUME manifest \in Manifests, NEW hs, HooksAre(hs), NEW m, NEW p \in Seq(AllClasses)
  PROVE  Kept(hs, CallerFold!Fold(m, hs, p))
  <1> DEFINE F(q) == CallerFold!Fold(m, hs, q)
             S == {q \in Seq(AllClasses) : Kept(hs, F(q))}
  <1>1. <<>> \in S
    <2>1. F(<<>>) = hs
      BY CallerFold!FoldNone
    <2>2. <<>> \in Seq(AllClasses)
      OBVIOUS
    <2> QED BY <2>1, <2>2, SameKept
  <1>2. ASSUME NEW q \in Seq(AllClasses), NEW x \in AllClasses, q \in S PROVE Append(q, x) \in S
    <2>1. F(Append(q, x)) = CallerBody(m, F(q), x)
      BY CallerFold!FoldOne
    <2>2. Append(q, x) \in Seq(AllClasses)
      OBVIOUS
    <2>3. Kept(hs, F(q)) /\ HooksAre(F(q))
      BY <1>2 DEF Kept
    <2> HIDE DEF F
    <2>4. Kept(F(q), CallerBody(m, F(q), x))
      BY <2>3, CalleeKept DEF CallerBody
    <2>5. Kept(hs, F(Append(q, x)))
      BY <2>1, <2>3, <2>4, KeptTwice
    <2> QED BY <2>2, <2>5
  <1>3. Seq(AllClasses) \subseteq S
    <2> HIDE DEF S
    <2> QED BY <1>1, <1>2, CallerFold!SeqInduction
  <1> QED BY <1>3

LEMMA FieldsKept ==
  ASSUME manifest \in Manifests, NEW hs, HooksAre(hs), NEW m, NEW p \in Seq(AllClasses)
  PROVE  Kept(hs, FieldFold!Fold(m, hs, p))
  <1> DEFINE F(q) == FieldFold!Fold(m, hs, q)
             S == {q \in Seq(AllClasses) : Kept(hs, F(q))}
  <1>1. <<>> \in S
    <2>1. F(<<>>) = hs
      BY FieldFold!FoldNone
    <2>2. <<>> \in Seq(AllClasses)
      OBVIOUS
    <2> QED BY <2>1, <2>2, SameKept
  <1>2. ASSUME NEW q \in Seq(AllClasses), NEW x \in AllClasses, q \in S PROVE Append(q, x) \in S
    <2>1. F(Append(q, x)) = FieldBody(m, F(q), x)
      BY FieldFold!FoldOne
    <2>2. Append(q, x) \in Seq(AllClasses)
      OBVIOUS
    <2>3. Kept(hs, F(q)) /\ HooksAre(F(q))
      BY <1>2 DEF Kept
    <2> HIDE DEF F
    <2>4. Kept(F(q), FieldBody(m, F(q), x))
      BY <2>3, FieldKept DEF FieldBody
    <2>5. Kept(hs, F(Append(q, x)))
      BY <2>1, <2>3, <2>4, KeptTwice
    <2> QED BY <2>2, <2>5
  <1>3. Seq(AllClasses) \subseteq S
    <2> HIDE DEF S
    <2> QED BY <1>1, <1>2, FieldFold!SeqInduction
  <1> QED BY <1>3


LEMMA PassKept ==
  ASSUME manifest \in Manifests, NEW hs, HooksAre(hs), NEW m, NEW pass
  PROVE  Kept(hs, Pass(hs, m, pass))
  <1> DEFINE A == [a \in DOMAIN Automata |-> a]
             B == [l \in DOMAIN manifest.lifetimes |-> l]
             g == LifetimeFold!Fold(m, hs, B)
  <1>1. IsSeq(Automata) /\ IsSeq(manifest.lifetimes)
    BY ManifestIs DEF IsManifest, Automata, IsSeq
  <1>2. A \in Seq(DOMAIN Automata) /\ B \in Seq(DOMAIN manifest.lifetimes)
    BY <1>1, Numbered
  <1>3. Classes \in Seq(AllClasses)
    BY ClassesAre DEF IsSeq
  <1> HIDE DEF A, B
  <1>4. Kept(hs, SiteFold!Fold(m, hs, A))
    BY <1>2, SitesKept
  <1>5. Kept(hs, g)
    BY <1>2, LifetimesKept
  <1>6. HooksAre(g)
    BY <1>5 DEF Kept
  <1> HIDE DEF g
  <1>7. Kept(g, CalleeFold!Fold(m, g, Classes))
    BY <1>3, <1>6, CalleesKept
  <1>8. Kept(hs, CalleeFold!Fold(m, g, Classes))
    BY <1>5, <1>7, KeptTwice
  <1>9. Kept(hs, CallerFold!Fold(m, hs, Classes)) /\ Kept(hs, FieldFold!Fold(m, hs, Classes))
    BY <1>3, CallersKept, FieldsKept
  <1>10. Pass(hs, m, pass) =
           CASE pass = "assertion" -> SiteFold!Fold(m, hs, A)
             [] pass = "callee" -> CalleeFold!Fold(m, g, Classes)
             [] pass = "caller" -> CallerFold!Fold(m, hs, Classes)
             [] OTHER -> FieldFold!Fold(m, hs, Classes)
    BY PassIsFold DEF A, B, g
  <1> QED BY <1>4, <1>8, <1>9, <1>10

-----------------------------------------------------------------------------
(* What the instrumenter gives up on *)

\* The structures are libtesla's from the first pass on.
LEMMA TypesStay ==
  /\ Create(<< >>) = libtesla /\ Create(libtesla) = libtesla
  /\ UpdateStateTypes(libtesla) = libtesla
  <1> DEFINE c == [tesla_key |-> KeyStruct, tesla_lifetime_event |-> LifetimeEventStruct,
         tesla_lifetime |-> <<"begin", "end", "repr">>,
         tesla_transition |-> TransitionStruct, tesla_transitions |-> TransitionsStruct,
         tesla_automaton |-> <<"name", "alphabet_size", "cleanup_symbol", "transitions",
                               "description", "symbol_names", "lifetime">>]
             u == [tesla_key |-> KeyStruct, tesla_lifetime_event |-> LifetimeEventStruct,
         tesla_lifetime |-> <<"begin", "end">>,
         tesla_transition |-> TransitionStruct, tesla_transitions |-> TransitionsStruct,
         tesla_automaton |-> <<"name", "alphabet_size", "transitions", "description",
                               "symbol_names", "lifetime">>]
             N == {"tesla_key", "tesla_lifetime_event", "tesla_lifetime", "tesla_transition",
                   "tesla_transitions", "tesla_automaton"}
  <1>1. DOMAIN c = N /\ DOMAIN u = N
    OBVIOUS
  <1>2. libtesla = c /\ c = [x \in N |-> c[x]]
    BY DEF libtesla
  <1>3. \A ts : Create(ts) = StructTy(ts, c) /\ UpdateStateTypes(ts) = StructTy(ts, u)
    BY DEF Create, UpdateStateTypes
  <1> HIDE DEF c, u, N
  <1>4. StructTy(<< >>, c) = c
    BY <1>1, <1>2 DEF StructTy
  <1>5. StructTy(c, c) = c /\ StructTy(c, u) = c
    BY <1>1, <1>2 DEF StructTy
  <1> QED BY <1>2, <1>3, <1>4, <1>5

TypesOK ==
  /\ manifest \in Manifests /\ todo \subseteq (DOMAIN Modules) \X (1 .. 4)
  /\ DOMAIN types = DOMAIN Modules
  /\ \A m \in DOMAIN Modules : types[m] = IF <<m, 1>> \in todo THEN << >> ELSE libtesla

\* There is a reason for giving up, or none of the hooks has been.
Reasons ==
  \/ Unsupported
  \/ \E c \in Messages, m \in DOMAIN Modules : CalleeMessage(m, EventOf(c))
  \/ \E m \in DOMAIN Modules : \E l \in Sites(m) :
       \A a \in FindAutomaton(l) : AssertTrans(a) = {}

HooksOK == HooksAre(hooks) /\ (Reasons \/ (AllOk(hooks) /\ outcome = "ok"))

LEMMA ReasonsExplain ==
  ASSUME TypesOK, HooksOK PROVE CrashIsExplained
  <1>1. ToSet(Classes) = AllClasses
    BY ClassesAre DEF TypesOK
  <1>2. ASSUME NEW m \in DOMAIN Modules, NEW n \in DOMAIN types[m]
        PROVE  types[m][n] = libtesla[n]
    <2>1. types[m] = << >> \/ types[m] = libtesla
      BY DEF TypesOK
    <2>2. types[m] # << >>
      OBVIOUS
    <2> QED BY <2>1, <2>2
  <1>3. ASSUME outcome = "crash" PROVE Reasons
    BY <1>3 DEF HooksOK
  <1> QED BY <1>1, <1>2, <1>3 DEF CrashIsExplained, Reasons, Unsupported, Uncollected

LEMMA PassesAre ==
  /\ DOMAIN Passes = 1 .. 4 /\ Passes[1] = "assertion" /\ Passes[2] = "callee"
  /\ Passes[3] = "caller" /\ Passes[4] = "field"
  BY DEF Passes

LEMMA KnownSame ==
  ASSUME manifest' = manifest, NEW a PROVE Known(a)' = Known(a)
  BY DEF Known, Automata, FoldLeft, MapThenFoldSet, Max

LEMMA ClassesSame ==
  ASSUME manifest' = manifest PROVE Classes' = Classes
  BY DEF Classes, ClassesOf, Automata, FoldLeft, MapThenFoldSet, Max

LEMMA ReasonsSame ==
  ASSUME manifest' = manifest PROVE Reasons' <=> Reasons
  <1>1. Automata' = Automata /\ AllClasses' = AllClasses /\ (ToSet(Classes))' = ToSet(Classes)
    BY ClassesSame DEF Automata, AllClasses, ToSet
  <1>2. ASSUME NEW c PROVE EventOf(c)' = EventOf(c)
    BY <1>1 DEF EventOf
  <1>3. ASSUME NEW a PROVE Uncollected(a)' <=> Uncollected(a)
    <2>1. Known(a)' = Known(a) /\ FreeMask(a)' = FreeMask(a)
      BY <1>1, KnownSame DEF FreeMask
    <2> QED BY <2>1 DEF Uncollected
  <1>4. Unsupported' <=> Unsupported
    BY <1>1, <1>2, <1>3 DEF Unsupported
  <1>5. Messages' = Messages
    BY <1>1, <1>2 DEF Messages
  <1>6. ASSUME NEW m PROVE Sites(m)' = Sites(m)
    BY DEF Sites
  <1>7. ASSUME NEW l PROVE FindAutomaton(l)' = FindAutomaton(l) /\ AssertTrans(l)' = AssertTrans(l)
    BY <1>1 DEF FindAutomaton, AssertTrans
  <1> QED BY <1>1, <1>2, <1>4, <1>5, <1>6, <1>7 DEF Reasons

LEMMA InstrumentKeeps ==
  ASSUME TypesOK, HooksOK, NEW m \in DOMAIN Modules, NEW k \in DOMAIN Passes, Instrument(m, k)
  PROVE  TypesOK' /\ HooksOK'
  <1> USE DEF TypesOK
  <1>0. /\ outcome = "ok" /\ <<m, k>> \in todo /\ manifest' = manifest
        /\ \A n \in 1 .. k - 1 : <<m, n>> \notin todo
        /\ types' = [types EXCEPT ![m] = TypesAfter(m, Passes[k])]
        /\ hooks' = Pass(hooks, m, Passes[k]) /\ todo' = todo \ {<<m, k>>}
        /\ outcome' = IF /\ \A h \in DOMAIN hooks' : hooks'[h].ok
                         /\ ConstantsFit(m, Passes[k]) /\ ~MessageFails(m, Passes[k])
                         /\ Passes[k] = "assertion" => SitesAreKnown(m)
                      THEN "ok" ELSE "crash"
    BY DEF Instrument
  <1>1. k \in 1 .. 4
    BY PassesAre
  <1>2. TypesAfter(m, Passes[k]) = libtesla
    <2>1. CASE k = 1
      <3>1. types[m] = << >> /\ Passes[k] # "field"
        BY <1>0, <2>1, PassesAre
      <3> QED BY <3>1, TypesStay DEF TypesAfter
    <2>2. CASE k # 1
      <3>1. <<m, 1>> \notin todo
        BY <1>0, <1>1, <2>2
      <3>2. types[m] = libtesla
        BY <3>1
      <3> QED BY <3>2, TypesStay DEF TypesAfter
    <2> QED BY <2>1, <2>2
  <1>3. TypesOK'
    <2>1. types' = [types EXCEPT ![m] = libtesla]
      BY <1>0, <1>2
    <2>2. <<m, 1>> \notin todo'
      BY <1>0, <1>1
    <2>3. ASSUME NEW n \in DOMAIN Modules
          PROVE  types'[n] = IF <<n, 1>> \in todo' THEN << >> ELSE libtesla
      <3>1. CASE n = m
        BY <2>1, <2>2, <3>1
      <3>2. CASE n # m
        <4>1. types'[n] = types[n]
          BY <2>1, <3>2
        <4>2. <<n, 1>> \in todo' <=> <<n, 1>> \in todo
          BY <1>0, <3>2
        <4> QED BY <4>1, <4>2
      <3> QED BY <3>1, <3>2
    <2> QED BY <1>0, <2>1, <2>3
  <1>4. Kept(hooks, hooks')
    BY <1>0, PassKept DEF HooksOK
  <1>5. HooksAre(hooks')
    BY <1>4 DEF Kept
  <1>6. ToSet(Classes) = AllClasses
    BY ClassesAre
  <1>7. Reasons' <=> Reasons
    BY <1>0, ReasonsSame
  <1>8. ASSUME ~Reasons PROVE AllOk(hooks') /\ outcome' = "ok"
    <2>1. AllOk(hooks')
      BY <1>4, <1>8 DEF HooksOK, Kept, Reasons
    <2>2. ConstantsFit(m, Passes[k])
      BY <1>2 DEF ConstantsFit
    <2>3. ~MessageFails(m, Passes[k])
      BY <1>8 DEF MessageFails, Reasons, CallerMessage, CalleeMessage
    <2>4. SitesAreKnown(m)
      BY <1>8 DEF SitesAreKnown, Reasons
    <2> QED BY <1>0, <2>1, <2>2, <2>3, <2>4 DEF AllOk
  <1> QED BY <1>3, <1>5, <1>7, <1>8 DEF HooksOK

Built == <<manifest, todo, types, hooks, outcome>>

LEMMA HappensKeeps == ASSUME NEW e, NEW cs, Happens(e, cs) PROVE UNCHANGED Built
  BY DEF Happens, Built

\* The program that runs is the one that was built.
LEMMA RunningKeeps ==
  ASSUME [Next]_vars, ~(\E m \in DOMAIN Modules, k \in DOMAIN Passes : Instrument(m, k))
  PROVE  UNCHANGED <<manifest, todo, types, hooks, outcome>>
  <1>1. ASSUME NEW m, NEW fn, NEW args, Call(m, fn, args) PROVE UNCHANGED Built
    BY <1>1, HappensKeeps DEF Call
  <1>2. ASSUME NEW ret, Return(ret) PROVE UNCHANGED Built
    BY <1>2, HappensKeeps DEF Return
  <1>3. ASSUME NEW m, NEW x, NEW struct, NEW new, Store(m, x, struct, new)
        PROVE  UNCHANGED Built
    BY <1>3, HappensKeeps DEF Store
  <1>4. ASSUME NEW a, NEW vals, ReachAssertion(a, vals) PROVE UNCHANGED Built
    BY <1>4, HappensKeeps DEF ReachAssertion
  <1>5. CASE Finished \/ UNCHANGED vars
    BY <1>5 DEF Finished, vars
  <1>6. UNCHANGED Built
    <2>1. CASE UNCHANGED vars
      BY <2>1, <1>5 DEF Built
    <2>2. CASE Next
      BY <2>2, <1>1, <1>2, <1>3, <1>4, <1>5 DEF Next, Built
    <2> QED BY <2>1, <2>2
  <1> QED BY <1>6 DEF Built

(***************************************************************************)
(* Whatever the manifest and the program are, the instrumenter gives up    *)
(* only on what it does not support, and the structures of every module    *)
(* are libtesla's (Spec => []CrashIsExplained): the passes make nothing    *)
(* but hooks, an assertion whose free variables come last has its known    *)
(* ones at the positions CollectArgs writes, each with a word of the key,  *)
(* and the first pass has created all the structures before another one    *)
(* looks them up.                                                          *)
(***************************************************************************)
THEOREM OnlyTheUnsupportedCrashes == Spec => []CrashIsExplained
  <1>1. Init => TypesOK /\ HooksOK
    <2> SUFFICES ASSUME Init PROVE TypesOK /\ HooksOK
      OBVIOUS
    <2>1. TypesOK
      BY PassesAre DEF Init, TypesOK
    <2>2. HooksOK
      BY DEF Init, HooksOK, HooksAre, AllOk
    <2> QED BY <2>1, <2>2
  <1>2. TypesOK /\ HooksOK /\ [Next]_vars => TypesOK' /\ HooksOK'
    <2> SUFFICES ASSUME TypesOK, HooksOK, [Next]_vars PROVE TypesOK' /\ HooksOK'
      OBVIOUS
    <2>1. CASE \E m \in DOMAIN Modules, k \in DOMAIN Passes : Instrument(m, k)
      BY <2>1, InstrumentKeeps
    <2>2. CASE UNCHANGED <<manifest, todo, types, hooks, outcome>>
      <3>1. Reasons' <=> Reasons
        BY <2>2, ReasonsSame
      <3>2. TypesOK'
        BY <2>2 DEF TypesOK
      <3> QED BY <2>2, <3>1, <3>2 DEF HooksOK, HooksAre, AllOk
    <2> QED BY <2>1, <2>2, RunningKeeps
  <1>3. TypesOK /\ HooksOK => CrashIsExplained
    BY ReasonsExplain
  <1> QED BY <1>1, <1>2, <1>3, PTL DEF Spec

-----------------------------------------------------------------------------
(* What a hook does.  D gives, for each block, the calls that are made from  *)
(* there to the exit; r ranks the blocks, and every branch goes down.  At    *)
(* the blocks of H the value of D is left open.                              *)

\* The calls made from a block on.
From(block, vals, D) ==
  IF Holds(block.test, vals) THEN Made(block.call, vals) \o D[block.yes] ELSE D[block.no]

Ranked(h, r) ==
  LET n == Len(h.blocks)
  IN /\ r \in [0 .. n -> Nat] /\ r[0] = 0 /\ h.entry \in 0 .. n
     /\ \A b \in 0 .. n : r[b] <= n
     /\ \A b \in 1 .. n : /\ h.blocks[b].yes \in 0 .. n /\ h.blocks[b].no \in 0 .. n
                          /\ r[h.blocks[b].yes] < r[b] /\ r[h.blocks[b].no] < r[b]

Wired(h, vals, H, D, r) ==
  LET n == Len(h.blocks)
  IN /\ Ranked(h, r) /\ DOMAIN D = 0 .. n
     /\ D[0] = <<>> /\ \A b \in 0 .. n : IsSeq(D[b])
     /\ \A b \in 1 .. n : b \notin H => D[b] = From(h.blocks[b], vals, D)

LEMMA JoinAssoc ==
  ASSUME NEW s, NEW t, NEW u, IsSeq(s), IsSeq(t), IsSeq(u)
  PROVE  (s \o t) \o u = s \o (t \o u)
  <1> DEFINE T == (ToSet(s) \cup ToSet(t)) \cup ToSet(u)
  <1>1. s \in Seq(T) /\ t \in Seq(T) /\ u \in Seq(T)
    <2>1. /\ s \in Seq(ToSet(s)) /\ ToSet(s) \subseteq T
          /\ t \in Seq(ToSet(t)) /\ ToSet(t) \subseteq T
          /\ u \in Seq(ToSet(u)) /\ ToSet(u) \subseteq T
      BY DEF IsSeq
    <2> HIDE DEF T
    <2> QED BY <2>1
  <1> HIDE DEF T
  <1> QED BY <1>1, ConcatAssociative

LEMMA JoinNone ==
  ASSUME NEW s, IsSeq(s) PROVE s \o <<>> = s /\ <<>> \o s = s
  BY ConcatEmptySeq DEF IsSeq

LEMMA MadeIs == ASSUME NEW call, NEW vals PROVE IsSeq(Made(call, vals))
  <1>1. ASSUME NEW x PROVE IsSeq(<<x>>)
    <2>1. <<x>> \in Seq({x})
      OBVIOUS
    <2> QED BY <2>1, SeqOfMembers
  <1> QED BY <1>1, NoneIsSeq DEF Made

\* A step down leaves room for one step more.
LEMMA LowerRank == \A x, y, k, n \in Nat : x < y /\ y + k <= n => x + (k + 1) <= n
  OBVIOUS

\* A hook is walked to its end.
LEMMA WalkIs ==
  ASSUME NEW h, IsHook(h), NEW vals, NEW D, NEW r, Wired(h, vals, {}, D, r)
  PROVE  Walk(h, vals) = D[h.entry] /\ IsSeq(D[h.entry])
  <1> DEFINE n == Len(h.blocks)
             T == ToSet(h.blocks)
             c == [hook |-> h, vals |-> vals]
             start == [at |-> h.entry, made |-> <<>>]
             F(p) == StepFold!Fold(c, start, p)
             Good(s, k) ==
               /\ s = [at |-> s.at, made |-> s.made]
               /\ s.at \in 0 .. n /\ IsSeq(s.made) /\ s.made \o D[s.at] = D[h.entry]
               /\ s.at = 0 \/ r[s.at] + k <= n
             S == {p \in Seq(T) : Len(p) <= n => Good(F(p), Len(p))}
  <1>1. h.blocks \in Seq(T) /\ n \in Nat
    BY DEF IsHook, IsSeq
  <1>2. /\ r \in [0 .. n -> Nat] /\ r[0] = 0 /\ h.entry \in 0 .. n
        /\ \A b \in 0 .. n : r[b] <= n
        /\ \A b \in 1 .. n : /\ h.blocks[b].yes \in 0 .. n /\ h.blocks[b].no \in 0 .. n
                             /\ r[h.blocks[b].yes] < r[b] /\ r[h.blocks[b].no] < r[b]
    BY DEF Wired, Ranked
  <1>3. /\ D[0] = <<>> /\ \A b \in 0 .. n : IsSeq(D[b])
        /\ \A b \in 1 .. n : D[b] = From(h.blocks[b], vals, D)
    BY DEF Wired
  <1> HIDE DEF n, T
  <1>4. <<>> \in S
    <2>1. <<>> \in Seq(T) /\ Len(<<>>) = 0
      OBVIOUS
    <2>2. F(<<>>) = start
      BY StepFold!FoldNone
    <2>3. <<>> \o D[h.entry] = D[h.entry]
      BY <1>2, <1>3, JoinNone
    <2>4. Good(start, 0)
      BY <1>1, <1>2, <2>3, NoneIsSeq
    <2> HIDE DEF Good, start, F
    <2> QED BY <2>1, <2>2, <2>4
  <1>5. ASSUME NEW s, NEW k \in Nat, k + 1 <= n, Good(s, k)
        PROVE  Good(Step(h, vals, s), k + 1)
    <2> DEFINE b == h.blocks[s.at]
    <2>1. CASE s.at = 0
      <3>1. Step(h, vals, s) = s
        BY <2>1 DEF Step, Exit
      <3> QED BY <1>5, <2>1, <3>1
    <2>2. CASE s.at # 0
      <3>1. s.at \in 1 .. n
        BY <1>1, <1>5, <2>2
      <3>2. D[s.at] = From(b, vals, D)
        BY <1>3, <3>1
      <3>3. b.yes \in 0 .. n /\ b.no \in 0 .. n /\ r[b.yes] < r[s.at] /\ r[b.no] < r[s.at]
        BY <1>2, <3>1
      <3>4. r[b.yes] + (k + 1) <= n /\ r[b.no] + (k + 1) <= n
        <4>1. r[b.yes] \in Nat /\ r[b.no] \in Nat /\ r[s.at] \in Nat /\ r[s.at] + k <= n
          BY <1>2, <1>5, <2>2, <3>1, <3>3
        <4>2. k \in Nat /\ n \in Nat /\ r[b.yes] < r[s.at] /\ r[b.no] < r[s.at]
          BY <1>1, <1>5, <3>3
        <4> HIDE DEF b
        <4> QED BY ONLY <4>1, <4>2, LowerRank
      <3>5. CASE Holds(b.test, vals)
        <4> DEFINE a == s.made
                   m == Made(b.call, vals)
                   d == D[b.yes]
                   j == a \o m
                   t == [at |-> b.yes, made |-> j]
        <4>1. Step(h, vals, s) = t
          BY <2>2, <3>5 DEF Step, Exit
        <4>2. IsSeq(a) /\ IsSeq(m) /\ IsSeq(d)
          BY <1>3, <1>5, <3>3, MadeIs
        <4>3. D[s.at] = m \o d /\ a \o D[s.at] = D[h.entry]
          BY <1>5, <3>2, <3>5 DEF From
        <4> HIDE DEF a, m, d
        <4>4. IsSeq(j)
          BY <4>2, Joined
        <4>5. j \o d = a \o (m \o d)
          BY <4>2, JoinAssoc
        <4>6. j \o d = D[h.entry]
          BY <4>3, <4>5
        <4> HIDE DEF j
        <4>7. t.at = b.yes /\ t.made = j /\ t = [at |-> t.at, made |-> t.made]
          OBVIOUS
        <4>8. Good(t, k + 1)
          <5> HIDE DEF t
          <5> QED BY <3>3, <3>4, <4>4, <4>6, <4>7 DEF d
        <4> HIDE DEF t, Good
        <4> QED BY <4>1, <4>8
      <3>6. CASE ~Holds(b.test, vals)
        <4>1. Step(h, vals, s) = [s EXCEPT !.at = b.no]
          BY <2>2, <3>6 DEF Step, Exit
        <4>2. [s EXCEPT !.at = b.no] = [at |-> b.no, made |-> s.made]
          BY <1>5
        <4>3. D[s.at] = D[b.no]
          BY <3>2, <3>6 DEF From
        <4> QED BY <1>5, <3>3, <3>4, <4>1, <4>2, <4>3
      <3> QED BY <3>5, <3>6
    <2> QED BY <2>1, <2>2
  <1>6. ASSUME NEW p \in Seq(T), NEW x \in T, p \in S PROVE Append(p, x) \in S
    <2>1. Append(p, x) \in Seq(T) /\ Len(Append(p, x)) = Len(p) + 1 /\ Len(p) \in Nat
      OBVIOUS
    <2>2. F(Append(p, x)) = StepBody(c, F(p), x)
      BY StepFold!FoldOne
    <2>3. StepBody(c, F(p), x) = Step(h, vals, F(p))
      BY DEF StepBody
    <2> HIDE DEF Good, F
    <2>4. ASSUME Len(p) + 1 <= n PROVE Good(F(Append(p, x)), Len(p) + 1)
      <3>1. Len(p) <= n
        BY <1>1, <2>1, <2>4
      <3>2. Good(F(p), Len(p))
        BY <1>6, <3>1
      <3> QED BY <2>1, <2>2, <2>3, <2>4, <3>2, <1>5
    <2> QED BY <2>1, <2>4
  <1>7. Seq(T) \subseteq S
    <2> HIDE DEF S
    <2> QED BY <1>4, <1>6, StepFold!SeqInduction
  <1> DEFINE s == F(h.blocks)
  <1>8. Good(s, n)
    <2> HIDE DEF Good, F
    <2>1. h.blocks \in S /\ Len(h.blocks) = n
      BY <1>1, <1>7 DEF n
    <2> QED BY <2>1, <1>1
  <1>9. s.at = 0
    <2> HIDE DEF s
    <2> SUFFICES ASSUME s.at # 0 PROVE FALSE
      OBVIOUS
    <2>1. s.at \in 1 .. n /\ r[s.at] + n <= n
      BY <1>1, <1>8
    <2>2. PICK x \in 1 .. n : x = s.at
      BY <2>1
    <2>3. h.blocks[x].yes \in 0 .. n /\ r[h.blocks[x].yes] < r[x]
      BY <1>2
    <2>4. PICK y \in 0 .. n : y = h.blocks[x].yes
      BY <2>3
    <2>5. r[x] \in Nat /\ r[y] \in Nat
      <3>1. r \in [0 .. n -> Nat] /\ x \in 0 .. n
        BY <1>1, <1>2
      <3> QED BY <3>1
    <2> QED BY <1>1, <2>1, <2>2, <2>3, <2>4, <2>5
  <1>10. s.made = D[h.entry]
    <2> HIDE DEF s
    <2>1. s.made \o <<>> = D[h.entry] /\ IsSeq(s.made)
      BY <1>3, <1>8, <1>9
    <2> QED BY <2>1, JoinNone
  <1>11. Walk(h, vals) = s.made
    BY WalkIsFolded
  <1> QED BY <1>2, <1>3, <1>10, <1>11

\* Ranks, with a block put just above block i of a hook of n blocks.
Raised(r, i, n) ==
  [b \in 0 .. n + 1 |-> IF b = n + 1 THEN r[i] + 1 ELSE IF r[b] > r[i] THEN r[b] + 1 ELSE r[b]]

LEMMA BranchesAre ==
  ASSUME NEW b, NEW i, NEW c
  PROVE  /\ Branches(b, i, c).test = b.test /\ Branches(b, i, c).call = b.call
         /\ Branches(b, i, c).yes = To(i, c, b.yes) /\ Branches(b, i, c).no = To(i, c, b.no)
  BY DEF Branches, Block

LEMMA RaisedIs ==
  ASSUME NEW h, IsHook(h), NEW r, Ranked(h, r), NEW i \in 1 .. Len(h.blocks),
         NEW x, IsBlock(x), x.yes \in 0 .. Len(h.blocks), x.no \in 0 .. Len(h.blocks),
         r[x.yes] <= r[i], r[x.no] <= r[i]
  PROVE  Ranked(Before(h, i, x), Raised(r, i, Len(h.blocks)))
  <1> DEFINE n == Len(h.blocks)
             g == Before(h, i, x)
             q == Raised(r, i, n)
  <1>1. /\ n \in Nat /\ IsHook(g) /\ Len(g.blocks) = n + 1 /\ g.entry = To(i, n + 1, h.entry)
        /\ \A k \in 1 .. n : g.blocks[k] = Branches(h.blocks[k], i, n + 1)
        /\ g.blocks[n + 1] = x
    BY BeforeIs
  <1>2. /\ r \in [0 .. n -> Nat] /\ r[0] = 0 /\ h.entry \in 0 .. n
        /\ \A b \in 0 .. n : r[b] <= n
        /\ \A b \in 1 .. n : /\ h.blocks[b].yes \in 0 .. n /\ h.blocks[b].no \in 0 .. n
                             /\ r[h.blocks[b].yes] < r[b] /\ r[h.blocks[b].no] < r[b]
    BY DEF Ranked
  <1> HIDE DEF n, g
  <1>3. i \in 1 .. n /\ i \in 0 .. n /\ x.yes \in 0 .. n /\ x.no \in 0 .. n
    BY <1>1 DEF n
  <1>4. \A b \in 0 .. n : r[b] \in Nat
    BY <1>2
  <1>5. /\ q[n + 1] = r[i] + 1
        /\ \A b \in 0 .. n : q[b] = IF r[b] > r[i] THEN r[b] + 1 ELSE r[b]
    BY <1>1 DEF Raised
  <1>6. n \in Nat /\ r[i] \in Nat /\ r[i] <= n /\ r[0] = 0
    BY <1>1, <1>2, <1>3
  <1>13. ASSUME NEW b \in 0 .. n + 1 PROVE q[b] \in Nat /\ q[b] <= n + 1
    <2>1. CASE b = n + 1
      BY <1>5, <1>6, <2>1
    <2>2. CASE b # n + 1
      <3>1. b \in 0 .. n
        BY <1>6, <2>2
      <3>2. r[b] \in Nat /\ r[b] <= n
        BY <1>2, <1>4, <3>1
      <3>3. q[b] = IF r[b] > r[i] THEN r[b] + 1 ELSE r[b]
        BY <1>5, <3>1
      <3> HIDE DEF q
      <3> QED BY ONLY <1>6, <3>2, <3>3
    <2> QED BY <2>1, <2>2
  <1>14. q \in [0 .. n + 1 -> Nat]
    <2>1. q = [b \in 0 .. n + 1 |-> q[b]]
      BY DEF Raised
    <2> HIDE DEF q
    <2> QED BY <1>13, <2>1
  <1> HIDE DEF q
  <1>7. q[0] = 0
    <2>1. 0 \in 0 .. n
      BY <1>6
    <2>2. q[0] = IF r[0] > r[i] THEN r[0] + 1 ELSE r[0]
      BY <1>5, <2>1
    <2> QED BY ONLY <1>6, <2>2
  <1>8. \A b \in 0 .. n + 1 : q[b] <= n + 1
    BY <1>13
  <1>9. \A b \in 0 .. n : To(i, n + 1, b) \in 0 .. n + 1
    BY <1>1 DEF To
  <1>10. ASSUME NEW b \in 0 .. n, NEW c \in 0 .. n, r[c] < r[b]
         PROVE  q[To(i, n + 1, c)] < q[b]
    <2>1. r[b] \in Nat /\ r[c] \in Nat /\ r[i] \in Nat
      BY <1>3, <1>4
    <2>2. CASE c = i
      <3>1. To(i, n + 1, c) = n + 1 /\ q[n + 1] = r[i] + 1 /\ q[b] = r[b] + 1
        BY <1>5, <1>10, <2>2 DEF To
      <3> QED BY <1>10, <2>1, <2>2, <3>1
    <2>3. CASE c # i
      <3>1. To(i, n + 1, c) = c
        BY <2>3 DEF To
      <3> QED BY <1>5, <1>10, <2>1, <3>1
    <2> QED BY <2>2, <2>3
  <1>11. ASSUME NEW b \in 1 .. n + 1
         PROVE  /\ g.blocks[b].yes \in 0 .. n + 1 /\ g.blocks[b].no \in 0 .. n + 1
                /\ q[g.blocks[b].yes] < q[b] /\ q[g.blocks[b].no] < q[b]
    <2>1. CASE b = n + 1
      <3>1. \A c \in 0 .. n : r[c] <= r[i] => q[c] < q[b]
        BY <1>3, <1>4, <1>5, <2>1
      <3>2. x.yes \in 0 .. n + 1 /\ x.no \in 0 .. n + 1
        BY <1>1, <1>3
      <3> QED BY <1>1, <1>3, <2>1, <3>1, <3>2
    <2>2. CASE b # n + 1
      <3>1. b \in 1 .. n /\ b \in 0 .. n
        BY <1>1, <2>2
      <3>2. g.blocks[b].yes = To(i, n + 1, h.blocks[b].yes)
            /\ g.blocks[b].no = To(i, n + 1, h.blocks[b].no)
        BY <1>1, <3>1, BranchesAre
      <3>3. /\ h.blocks[b].yes \in 0 .. n /\ h.blocks[b].no \in 0 .. n
            /\ r[h.blocks[b].yes] < r[b] /\ r[h.blocks[b].no] < r[b]
        BY <1>2, <3>1
      <3> QED BY <1>9, <1>10, <3>1, <3>2, <3>3
    <2> QED BY <2>1, <2>2
  <1>12. g.entry \in 0 .. n + 1
    BY <1>1, <1>2, <1>9
  <1> QED BY <1>1, <1>14, <1>7, <1>8, <1>11, <1>12 DEF Ranked, g, n, q

\* A block is put before block i, which is left open.  What was made from i on is
\* now made from the new block on.
Opened(h, i, x, vals, H, D, r, w) ==
  LET n == Len(h.blocks)
      g == Before(h, i, x)
  IN \E E : /\ Wired(g, vals, H, E, Raised(r, i, n)) /\ E[g.entry] = D[h.entry]
            /\ E[i] = w /\ E[n + 1] = D[i]
            /\ \A b \in 0 .. n : b # i => E[b] = D[b]

LEMMA PutBefore ==
  ASSUME NEW h, IsHook(h), NEW vals, NEW H, NEW D, NEW r, Wired(h, vals, H, D, r),
         NEW i \in 1 .. Len(h.blocks), i \in H, NEW w, IsSeq(w),
         NEW x, IsBlock(x), x.yes \in 0 .. Len(h.blocks), x.no \in 0 .. Len(h.blocks),
         r[x.yes] <= r[i], r[x.no] <= r[i],
         Len(h.blocks) + 1 \in H \/ D[i] = From(x, vals, [D EXCEPT ![i] = w])
  PROVE  Opened(h, i, x, vals, H, D, r, w)
  <1> DEFINE n == Len(h.blocks)
             g == Before(h, i, x)
             E == [b \in 0 .. n + 1 |-> IF b = n + 1 THEN D[i] ELSE IF b = i THEN w ELSE D[b]]
             W == [D EXCEPT ![i] = w]
  <1>1. /\ n \in Nat /\ IsHook(g) /\ Len(g.blocks) = n + 1 /\ g.entry = To(i, n + 1, h.entry)
        /\ \A k \in 1 .. n : g.blocks[k] = Branches(h.blocks[k], i, n + 1)
        /\ g.blocks[n + 1] = x
    BY BeforeIs
  <1>2. /\ D[0] = <<>> /\ \A b \in 0 .. n : IsSeq(D[b])
        /\ \A b \in 1 .. n : b \notin H => D[b] = From(h.blocks[b], vals, D)
        /\ Ranked(h, r)
    BY DEF Wired
  <1>3. /\ h.entry \in 0 .. n
        /\ \A b \in 1 .. n : h.blocks[b].yes \in 0 .. n /\ h.blocks[b].no \in 0 .. n
    BY <1>2 DEF Ranked
  <1>4. Ranked(g, Raised(r, i, n))
    BY <1>2, RaisedIs
  <1> HIDE DEF n, g
  <1>5. i \in 1 .. n /\ x.yes \in 0 .. n /\ x.no \in 0 .. n /\ DOMAIN D = 0 .. n
    BY DEF n, Wired
  <1>6. /\ E[n + 1] = D[i] /\ E[i] = w /\ DOMAIN E = 0 .. n + 1
        /\ \A b \in 0 .. n : b # i => E[b] = D[b]
    BY <1>1, <1>5
  <1>7. \A b \in 0 .. n : W[b] = IF b = i THEN w ELSE D[b]
    BY <1>5
  <1> HIDE DEF E, W
  <1>8. ASSUME NEW b \in 0 .. n PROVE E[To(i, n + 1, b)] = D[b]
    BY <1>6 DEF To
  <1>9. E[0] = <<>> /\ \A b \in 0 .. n + 1 : IsSeq(E[b])
    <2>1. 0 \in 0 .. n /\ 0 # i /\ i \in 0 .. n
      BY <1>1, <1>5
    <2>2. ASSUME NEW b \in 0 .. n + 1 PROVE IsSeq(E[b])
      <3>1. b = n + 1 \/ b \in 0 .. n
        BY <1>1
      <3> QED BY <1>2, <1>6, <2>1, <3>1
    <2> QED BY <1>2, <1>6, <2>1, <2>2
  <1>10. ASSUME NEW b \in 1 .. n + 1, b \notin H PROVE E[b] = From(g.blocks[b], vals, E)
    <2>1. CASE b = n + 1
      <3>1. E[x.yes] = W[x.yes] /\ E[x.no] = W[x.no]
        BY <1>5, <1>6, <1>7
      <3>2. From(x, vals, E) = From(x, vals, W)
        BY <3>1 DEF From
      <3>3. E[b] = From(x, vals, W)
        BY <1>6, <1>10, <2>1 DEF W, n
      <3> QED BY <1>1, <2>1, <3>2, <3>3
    <2>2. CASE b # n + 1
      <3>1. b \in 1 .. n /\ b \in 0 .. n /\ b # i
        BY <1>1, <1>10, <2>2
      <3> DEFINE B == h.blocks[b]
                 G == g.blocks[b]
      <3>2. /\ G.test = B.test /\ G.call = B.call
            /\ G.yes = To(i, n + 1, B.yes) /\ G.no = To(i, n + 1, B.no)
        BY <1>1, <3>1, BranchesAre
      <3>3. B.yes \in 0 .. n /\ B.no \in 0 .. n
        BY <1>3, <3>1
      <3>4. E[G.yes] = D[B.yes] /\ E[G.no] = D[B.no]
        BY <1>8, <3>2, <3>3
      <3>5. From(G, vals, E) = From(B, vals, D)
        BY <3>2, <3>4 DEF From
      <3>6. D[b] = From(B, vals, D) /\ E[b] = D[b]
        BY <1>2, <1>6, <1>10, <3>1
      <3> QED BY <3>5, <3>6
    <2> QED BY <2>1, <2>2
  <1>11. E[g.entry] = D[h.entry]
    BY <1>1, <1>3, <1>8
  <1>12. Wired(g, vals, H, E, Raised(r, i, n))
    BY <1>1, <1>4, <1>6, <1>9, <1>10 DEF Wired
  <1> QED BY <1>6, <1>11, <1>12 DEF Opened, g, n

\* A block that makes a call is put before the exit; what it does is left open.
OpenAtTheEnd(h, call, vals, v, out) ==
  LET n == Len(h.blocks)
      g == Before(h, Exit, Block(NoTest, call, Exit, Exit))
  IN \E E, q : Wired(g, vals, {n + 1}, E, q) /\ E[n + 1] = v /\ E[g.entry] = out \o v

LEMMA PutAtTheEnd ==
  ASSUME NEW h, IsHook(h), NEW vals, NEW D, NEW r, Wired(h, vals, {}, D, r),
         NEW v, IsSeq(v), NEW call
  PROVE  OpenAtTheEnd(h, call, vals, v, D[h.entry])
  <1> DEFINE n == Len(h.blocks)
             x == Block(NoTest, call, Exit, Exit)
             g == Before(h, Exit, x)
             E == [b \in 0 .. n + 1 |-> IF b = 0 THEN <<>> ELSE IF b = n + 1 THEN v ELSE D[b] \o v]
             q == [b \in 0 .. n + 1 |-> IF b = 0 THEN 0 ELSE IF b = n + 1 THEN 1 ELSE r[b] + 1]
  <1>0. IsBlock(x) /\ x.yes = 0 /\ x.no = 0
    BY BlockIs DEF Block, Exit
  <1>1. /\ IsHook(g) /\ Len(g.blocks) = n + 1 /\ g.entry = To(0, n + 1, h.entry)
        /\ \A k \in 1 .. n : g.blocks[k] = Branches(h.blocks[k], 0, n + 1)
        /\ g.blocks[n + 1] = x
    BY <1>0, BeforeIs DEF Exit
  <1>2. n \in Nat
    BY DEF IsHook, IsSeq
  <1>3. /\ r \in [0 .. n -> Nat] /\ r[0] = 0 /\ h.entry \in 0 .. n
        /\ \A b \in 0 .. n : r[b] <= n
        /\ \A b \in 1 .. n : /\ h.blocks[b].yes \in 0 .. n /\ h.blocks[b].no \in 0 .. n
                             /\ r[h.blocks[b].yes] < r[b] /\ r[h.blocks[b].no] < r[b]
    BY DEF Wired, Ranked
  <1>4. /\ D[0] = <<>> /\ \A b \in 0 .. n : IsSeq(D[b])
        /\ \A b \in 1 .. n : D[b] = From(h.blocks[b], vals, D)
    BY DEF Wired
  <1> HIDE DEF n, g
  <1>5. \A b \in 0 .. n : r[b] \in Nat
    BY <1>3
  <1>6. \A b \in 1 .. n : E[b] = D[b] \o v /\ q[b] = r[b] + 1
    BY <1>2
  <1>7. E[n + 1] = v /\ q[n + 1] = 1 /\ E[0] = <<>> /\ q[0] = 0 /\ DOMAIN E = 0 .. n + 1
    BY <1>2
  <1>8. q \in [0 .. n + 1 -> Nat] /\ \A b \in 0 .. n + 1 : q[b] <= n + 1
    <2>1. ASSUME NEW b \in 0 .. n + 1 PROVE q[b] \in Nat /\ q[b] <= n + 1
      <3>1. CASE b \in 1 .. n
        <4>1. r[b] \in Nat /\ r[b] <= n
          BY <1>2, <1>3, <1>5, <3>1
        <4>2. q[b] = r[b] + 1
          BY <1>6, <3>1
        <4> HIDE DEF q
        <4> QED BY ONLY <1>2, <4>1, <4>2
      <3>2. CASE b = 0 \/ b = n + 1
        BY <1>2, <1>7, <3>2
      <3> QED BY <1>2, <3>1, <3>2
    <2> QED BY <2>1
  <1> HIDE DEF E, q
  <1>9. ASSUME NEW b \in 0 .. n
        PROVE  /\ E[To(0, n + 1, b)] = D[b] \o v /\ q[To(0, n + 1, b)] = r[b] + 1
               /\ To(0, n + 1, b) \in 0 .. n + 1
    <2>1. CASE b = 0
      <3>1. To(0, n + 1, b) = n + 1
        BY <2>1 DEF To
      <3>2. D[b] \o v = v
        BY <1>4, <2>1, JoinNone
      <3> QED BY <1>2, <1>3, <1>7, <2>1, <3>1, <3>2
    <2>2. CASE b # 0
      <3>1. To(0, n + 1, b) = b /\ b \in 1 .. n
        BY <1>2, <2>2 DEF To
      <3> QED BY <1>2, <1>6, <3>1
    <2> QED BY <2>1, <2>2
  <1>10. ASSUME NEW b \in 1 .. n + 1
         PROVE  /\ g.blocks[b].yes \in 0 .. n + 1 /\ g.blocks[b].no \in 0 .. n + 1
                /\ q[g.blocks[b].yes] < q[b] /\ q[g.blocks[b].no] < q[b]
                /\ b # n + 1 => E[b] = From(g.blocks[b], vals, E)
    <2>1. CASE b = n + 1
      <3>1. 0 \in 0 .. n + 1 /\ q[0] < q[n + 1]
        BY <1>2, <1>7
      <3> QED BY <1>0, <1>1, <2>1, <3>1
    <2>2. CASE b # n + 1
      <3>1. b \in 1 .. n /\ b \in 0 .. n
        BY <1>2, <2>2
      <3> DEFINE B == h.blocks[b]
                 G == g.blocks[b]
      <3>2. /\ G.test = B.test /\ G.call = B.call
            /\ G.yes = To(0, n + 1, B.yes) /\ G.no = To(0, n + 1, B.no)
        BY <1>1, <3>1, BranchesAre
      <3>3. B.yes \in 0 .. n /\ B.no \in 0 .. n /\ r[B.yes] < r[b] /\ r[B.no] < r[b]
        BY <1>3, <3>1
      <3>4. /\ E[G.yes] = D[B.yes] \o v /\ q[G.yes] = r[B.yes] + 1 /\ G.yes \in 0 .. n + 1
            /\ E[G.no] = D[B.no] \o v /\ q[G.no] = r[B.no] + 1 /\ G.no \in 0 .. n + 1
        BY <1>9, <3>2, <3>3
      <3>5. q[G.yes] < q[b] /\ q[G.no] < q[b]
        <4>1. r[B.yes] \in Nat /\ r[B.no] \in Nat /\ r[b] \in Nat /\ q[b] = r[b] + 1
          BY <1>5, <1>6, <3>1, <3>3
        <4>2. PICK y \in Nat, z \in Nat, w \in Nat : y = r[B.yes] /\ z = r[B.no] /\ w = r[b]
          BY <4>1
        <4>3. y < w /\ z < w
          BY <3>3, <4>2
        <4>4. y + 1 < w + 1 /\ z + 1 < w + 1
          BY ONLY <4>3, y \in Nat, z \in Nat, w \in Nat
        <4> HIDE DEF B, G
        <4> QED BY <3>4, <4>1, <4>2, <4>4
      <3>6. E[b] = From(B, vals, D) \o v
        BY <1>4, <1>6, <3>1
      <3> DEFINE m == Made(B.call, vals)
                 d == D[B.yes]
      <3>7. (m \o d) \o v = m \o (d \o v)
        <4>1. IsSeq(m) /\ IsSeq(d)
          BY <1>4, <3>3, MadeIs
        <4> HIDE DEF m, d
        <4> QED BY <4>1, JoinAssoc
      <3>8. From(B, vals, D) \o v = From(G, vals, E)
        BY <3>2, <3>4, <3>7 DEF From
      <3> QED BY <3>4, <3>5, <3>6, <3>8
    <2> QED BY <2>1, <2>2
  <1>11. \A b \in 0 .. n + 1 : IsSeq(E[b])
    <2>1. ASSUME NEW b \in 0 .. n + 1 PROVE IsSeq(E[b])
      <3>1. CASE b = 0 \/ b = n + 1
        BY <1>7, <3>1, NoneIsSeq
      <3>2. CASE b \in 1 .. n
        <4>1. E[b] = D[b] \o v /\ IsSeq(D[b])
          BY <1>2, <1>4, <1>6, <3>2
        <4> QED BY <4>1, Joined
      <3> QED BY <1>2, <3>1, <3>2
    <2> QED BY <2>1
  <1>12. E[g.entry] = D[h.entry] \o v /\ g.entry \in 0 .. n + 1
    BY <1>1, <1>3, <1>9
  <1>13. Ranked(g, q)
    BY <1>1, <1>7, <1>8, <1>10, <1>12 DEF Ranked
  <1>14. Wired(g, vals, {n + 1}, E, q)
    BY <1>1, <1>7, <1>10, <1>11, <1>13 DEF Wired
  <1> QED BY <1>7, <1>12, <1>14 DEF OpenAtTheEnd, g, n

\* A hook makes these calls.
Says(h, vals, out) ==
  IsHook(h) /\ \E D, r : Wired(h, vals, {}, D, r) /\ D[h.entry] = out

LEMMA SaysIsWalk ==
  ASSUME NEW h, NEW vals, NEW out, Says(h, vals, out) PROVE Walk(h, vals) = out /\ IsSeq(out)
  BY WalkIs DEF Says

\* Block i, which makes the call, is the last; what it does is left open.  It is
\* reached if A, and the hook has made the calls of pre before it; if it is not
\* reached, the calls of q are made instead.
Chained(h, vals, i, call, pre, A, q) ==
  /\ IsHook(h) /\ i \in 1 .. Len(h.blocks) /\ h.blocks[i] = Block(NoTest, call, Exit, Exit)
  /\ \A v : IsSeq(v) =>
       \E D, r : /\ Wired(h, vals, {i}, D, r) /\ D[i] = v
                 /\ D[h.entry] = pre \o (IF A THEN v ELSE q)

LEMMA ChainStart ==
  ASSUME NEW h, NEW vals, NEW out, Says(h, vals, out), NEW call, NEW q
  PROVE  LET i == Len(h.blocks) + 1
         IN Chained(Before(h, Exit, Block(NoTest, call, Exit, Exit)), vals, i, call, out, TRUE, q)
  <1> DEFINE n == Len(h.blocks)
             x == Block(NoTest, call, Exit, Exit)
             g == Before(h, Exit, x)
  <1>1. IsBlock(x) /\ IsHook(h)
    BY BlockIs DEF Exit, Says
  <1>2. IsHook(g) /\ n \in Nat /\ Len(g.blocks) = n + 1 /\ g.blocks[n + 1] = x
    BY <1>1, BeforeIs
  <1>3. ASSUME NEW v, IsSeq(v)
        PROVE  \E E, r : Wired(g, vals, {n + 1}, E, r) /\ E[n + 1] = v /\ E[g.entry] = out \o v
    <2>1. PICK D, r : Wired(h, vals, {}, D, r) /\ D[h.entry] = out
      BY DEF Says
    <2>2. OpenAtTheEnd(h, call, vals, v, D[h.entry])
      BY <1>1, <1>3, <2>1, PutAtTheEnd
    <2> QED BY <2>1, <2>2 DEF OpenAtTheEnd
  <1> HIDE DEF n, x, g
  <1>4. n + 1 \in 1 .. Len(g.blocks)
    BY <1>2
  <1>5. Chained(g, vals, n + 1, call, out, TRUE, q)
    BY <1>2, <1>3, <1>4 DEF Chained, x
  <1> QED BY <1>5 DEF n, x, g

LEMMA ChainEnd ==
  ASSUME NEW h, NEW vals, NEW i, NEW call, NEW pre, NEW A, NEW q,
         Chained(h, vals, i, call, pre, A, q)
  PROVE  Says(h, vals, pre \o (IF A THEN Made(call, vals) ELSE q))
  <1> DEFINE m == Made(call, vals)
             x == Block(NoTest, call, Exit, Exit)
  <1>1. IsSeq(m) /\ m \o <<>> = m
    BY MadeIs, JoinNone
  <1> HIDE DEF m
  <1>2. PICK D, r : Wired(h, vals, {i}, D, r) /\ D[i] = m /\ D[h.entry] = pre \o (IF A THEN m ELSE q)
    BY <1>1 DEF Chained
  <1>3. h.blocks[i] = x /\ D[0] = <<>> /\ IsHook(h)
    BY <1>2 DEF Chained, Wired
  <1>4. /\ x.test = NoTest /\ x.call = call /\ x.yes = 0 /\ x.no = 0
        /\ Holds(NoTest, vals)
    BY DEF Block, Exit, Holds, NoTest
  <1> HIDE DEF x
  <1>5. D[i] = From(h.blocks[i], vals, D)
    BY <1>1, <1>2, <1>3, <1>4 DEF From, m
  <1>6. Wired(h, vals, {}, D, r)
    BY <1>2, <1>5 DEF Wired
  <1> QED BY <1>2, <1>3, <1>6 DEF Says, m

\* A pattern that the value must match is put before the call.
LEMMA ChainTest ==
  ASSUME NEW h, NEW vals, NEW i, NEW call, NEW pre, NEW A,
         Chained(h, vals, i, call, pre, A, <<>>), NEW t
  PROVE  Chained(Before(h, i, Block(t, NoCall, i, Exit)), vals, i, call, pre,
                 A /\ Holds(t, vals), <<>>)
  <1> DEFINE n == Len(h.blocks)
             x == Block(t, NoCall, i, Exit)
             g == Before(h, i, x)
  <1>1. IsHook(h) /\ i \in 1 .. n /\ h.blocks[i] = Block(NoTest, call, Exit, Exit)
    BY DEF Chained
  <1>2. n \in Nat
    BY <1>1 DEF IsHook, IsSeq
  <1>3. i \in Nat /\ i # 0 /\ 0 \in 0 .. n /\ i \in 0 .. n
    BY <1>1, <1>2
  <1>4. IsBlock(x) /\ x.yes = i /\ x.no = 0 /\ x.test = t /\ x.call = NoCall
    BY <1>3, BlockIs DEF Block, Exit
  <1>5. /\ IsHook(g) /\ Len(g.blocks) = n + 1
        /\ g.blocks[i] = Branches(h.blocks[i], i, n + 1)
    BY <1>1, <1>4, BeforeIs
  <1>6. g.blocks[i] = Block(NoTest, call, Exit, Exit) /\ i \in 1 .. Len(g.blocks)
    <2>1. To(i, n + 1, Exit) = Exit
      BY <1>3 DEF To, Exit
    <2>2. Branches(Block(NoTest, call, Exit, Exit), i, n + 1) = Block(NoTest, call, Exit, Exit)
      BY <2>1 DEF Branches, Block
    <2> QED BY <1>1, <1>2, <1>5, <2>2
  <1>7. ASSUME NEW w, IsSeq(w)
        PROVE  \E E, p : /\ Wired(g, vals, {i}, E, p) /\ E[i] = w
                         /\ E[g.entry] = pre \o (IF A /\ Holds(t, vals) THEN w ELSE <<>>)
    <2> DEFINE v == IF Holds(t, vals) THEN w ELSE <<>>
    <2>1. IsSeq(v)
      BY <1>7, NoneIsSeq
    <2> HIDE DEF v
    <2>2. PICK D, r : /\ Wired(h, vals, {i}, D, r) /\ D[i] = v
                      /\ D[h.entry] = pre \o (IF A THEN v ELSE <<>>)
      BY <2>1 DEF Chained
    <2>3. D[0] = <<>> /\ DOMAIN D = 0 .. n /\ Ranked(h, r)
      BY <2>2 DEF Wired
    <2>4. r[0] = 0 /\ r[i] \in Nat
      BY <1>3, <2>3 DEF Ranked
    <2>5. Made(NoCall, vals) = <<>> /\ <<>> \o w = w
      BY <1>7, JoinNone DEF Made, NoCall
    <2> DEFINE W == [D EXCEPT ![i] = w]
    <2>6. W[i] = w /\ W[0] = <<>>
      BY <1>3, <2>3
    <2> HIDE DEF W
    <2>7. From(x, vals, W) = v
      BY <1>4, <2>5, <2>6 DEF From, v
    <2>8. Opened(h, i, x, vals, {i}, D, r, w)
      <3>1. /\ D[i] = From(x, vals, W) /\ r[x.yes] <= r[i] /\ r[x.no] <= r[i]
            /\ x.yes \in 0 .. n /\ x.no \in 0 .. n /\ i \in {i}
        BY <1>3, <1>4, <2>2, <2>4, <2>7
      <3> HIDE DEF x
      <3> QED BY <1>1, <1>4, <1>7, <2>2, <3>1, PutBefore DEF W
    <2>9. PICK E, p : Wired(g, vals, {i}, E, p) /\ E[g.entry] = D[h.entry] /\ E[i] = w
      BY <2>8 DEF Opened
    <2>10. (IF A THEN v ELSE <<>>) = (IF A /\ Holds(t, vals) THEN w ELSE <<>>)
      BY DEF v
    <2> QED BY <2>2, <2>9, <2>10
  <1> HIDE DEF g, x
  <1>8. Chained(g, vals, i, call, pre, A /\ Holds(t, vals), <<>>)
    BY <1>5, <1>6, <1>7 DEF Chained
  <1> QED BY <1>8 DEF g, x

\* The k-th value is what the pattern asks for.
Fits(pattern, k, vals) ==
  pattern.type = "Constant" =>
    Holds([match |-> pattern.match, param |-> k, value |-> Trunc(pattern.value)], vals)

AllFit(patterns, p, vals) == \A k \in ToSet(p) : Fits(patterns[k], k, vals)

LEMMA ChainMatched ==
  ASSUME NEW h, NEW vals, NEW i, NEW call, NEW pre,
         Chained(h, vals, i, call, pre, TRUE, <<>>), NEW patterns, NEW p \in Seq(Nat)
  PROVE  Chained(Matched(h, i, patterns, p), vals, i, call, pre, AllFit(patterns, p, vals), <<>>)
  <1> DEFINE Good(q) == Chained(Matched(h, i, patterns, q), vals, i, call, pre,
                                AllFit(patterns, q, vals), <<>>)
             S == {q \in Seq(Nat) : Good(q)}
  <1>1. <<>> \in S
    <2>1. <<>> \in Seq(Nat) /\ Matched(h, i, patterns, <<>>) = h
      BY MatchedNone
    <2>2. AllFit(patterns, <<>>, vals) = TRUE
      BY NoneIsSeq DEF AllFit
    <2> QED BY <2>1, <2>2
  <1>2. ASSUME NEW q \in Seq(Nat), NEW k \in Nat, q \in S PROVE Append(q, k) \in S
    <2> DEFINE P == patterns[k]
               g == Matched(h, i, patterns, q)
               t == [match |-> P.match, param |-> k, value |-> Trunc(P.value)]
               A == AllFit(patterns, q, vals)
               B == AllFit(patterns, Append(q, k), vals)
    <2>1. Append(q, k) \in Seq(Nat)
      OBVIOUS
    <2>2. Matched(h, i, patterns, Append(q, k)) = Match(g, i, k, P)
      BY MatchedOne
    <2>3. Chained(g, vals, i, call, pre, A, <<>>)
      BY <1>2
    <2>4. ToSet(Append(q, k)) = ToSet(q) \cup {k}
      <3>1. IsSeq(q)
        BY SeqOfMembers
      <3> QED BY <3>1, OneMore
    <2>5. B = (A /\ Fits(P, k, vals))
      BY <2>4 DEF AllFit
    <2> HIDE DEF g, A, B
    <2>6. Chained(Match(g, i, k, P), vals, i, call, pre, B, <<>>)
      <3>1. CASE P.type # "Constant"
        <4>1. Match(g, i, k, P) = g
          BY <3>1 DEF Match
        <4>2. A \in BOOLEAN /\ B = A
          BY <2>5, <3>1 DEF Fits, A, AllFit
        <4> QED BY <2>3, <4>1, <4>2
      <3>2. CASE P.type = "Constant"
        <4>1. Match(g, i, k, P) = Before(g, i, Block(t, NoCall, i, Exit))
          BY <3>2 DEF Match
        <4>2. B = (A /\ Holds(t, vals))
          BY <2>5, <3>2 DEF Fits
        <4> HIDE DEF t
        <4>3. Chained(Before(g, i, Block(t, NoCall, i, Exit)), vals, i, call, pre,
                      A /\ Holds(t, vals), <<>>)
          BY <2>3, ChainTest
        <4> QED BY <4>1, <4>2, <4>3
      <3> QED BY <3>1, <3>2
    <2> QED BY <2>1, <2>2, <2>6 DEF B
  <1>3. Seq(Nat) \subseteq S
    <2> HIDE DEF S
    <2> QED BY <1>1, <1>2, MatchFold!SeqInduction
  <1> QED BY <1>3

LEMMA SaysAnyway ==
  ASSUME NEW h, NEW vals, NEW out, Says(h, vals, out), NEW okay \in BOOLEAN
  PROVE  Says([h EXCEPT !.ok = okay], vals, out)
  <1> DEFINE g == [h EXCEPT !.ok = okay]
  <1>1. IsHook(h)
    BY DEF Says
  <1>2. g = [entry |-> h.entry, blocks |-> h.blocks, ends |-> h.ends, ok |-> okay]
    BY <1>1 DEF IsHook
  <1>3. g.entry = h.entry /\ g.blocks = h.blocks /\ IsHook(g)
    BY <1>1, <1>2 DEF IsHook
  <1> HIDE DEF g
  <1>4. \A D, r : Wired(h, vals, {}, D, r) => Wired(g, vals, {}, D, r)
    BY <1>3 DEF Wired, Ranked
  <1> QED BY <1>3, <1>4 DEF Says, g

(* What is added to a hook makes its call, after those that were made before, *)
(* just if the values match all the patterns.                                 *)
LEMMA AddedSays ==
  ASSUME NEW h, NEW vals, NEW out, Says(h, vals, out), NEW patterns, IsSeq(patterns),
         NEW params, NEW call
  PROVE  Says(AddInstrumentation(h, patterns, params, call), vals,
              out \o (IF \A k \in DOMAIN patterns : Fits(patterns[k], k, vals)
                      THEN Made(call, vals) ELSE <<>>))
  <1> DEFINE i == Len(h.blocks) + 1
             P == Places(patterns)
             c == Before(h, Exit, Block(NoTest, call, Exit, Exit))
             g == Matched(c, i, patterns, P)
             A == AllFit(patterns, P, vals)
             okay == g.ok /\ NamedOnce(patterns) /\ Len(patterns) = params
  <1>1. Chained(c, vals, i, call, out, TRUE, <<>>)
    BY ChainStart
  <1>2. P \in Seq(Nat)
    BY PlacesAre
  <1> HIDE DEF i, c
  <1>3. Chained(g, vals, i, call, out, A, <<>>)
    BY <1>1, <1>2, ChainMatched
  <1>4. A <=> \A k \in DOMAIN patterns : Fits(patterns[k], k, vals)
    <2>1. DOMAIN patterns = 1 .. Len(patterns)
      BY DEF IsSeq
    <2>2. ToSet(P) = 1 .. Len(patterns)
      BY DEF ToSet, Places
    <2> QED BY <2>1, <2>2 DEF AllFit
  <1>5. Says(g, vals, out \o (IF A THEN Made(call, vals) ELSE <<>>))
    BY <1>3, ChainEnd
  <1>6. AddInstrumentation(h, patterns, params, call) =
          [g EXCEPT !.ok = @ /\ NamedOnce(patterns) /\ Len(patterns) = params]
    BY AddIsMatched DEF i, c
  <1> HIDE DEF g, A
  <1>7. IsHook(g)
    BY <1>5 DEF Says
  <1>8. okay \in BOOLEAN
    BY <1>7 DEF IsHook
  <1>9. Says([g EXCEPT !.ok = okay], vals, out \o (IF A THEN Made(call, vals) ELSE <<>>))
    BY <1>5, <1>8, SaysAnyway
  <1>10. AddInstrumentation(h, patterns, params, call) = [g EXCEPT !.ok = okay]
    BY <1>6
  <1> QED BY <1>4, <1>9, <1>10

\* A hook that has only its preamble.
LEMMA PreambleSays ==
  ASSUME NEW vals
  PROVE  \E out : Says(CreatePreamble(NewHook), vals, out)
                  /\ (out = <<>> \/ out = <<[fn |-> "printf"]>>)
  <1> DEFINE h == NewHook
             b == Block([match |-> "debugging"], [fn |-> "printf"], Exit, Exit)
             g == Before(h, Exit, b)
             D == [x \in 0 .. 0 |-> <<>>]
             r == [x \in 0 .. 0 |-> 0]
             out == IF Debugging THEN <<[fn |-> "printf"]>> ELSE <<>>
             E == [x \in 0 .. 1 |-> IF x = 1 THEN out ELSE <<>>]
             q == [x \in 0 .. 1 |-> x]
  <1>1. IsHook(h) /\ Len(h.blocks) = 0 /\ h.entry = 0
    BY NewHookIs, NoneIsSeq DEF NewHook, Exit
  <1>2. Says(h, vals, <<>>)
    <2>1. Ranked(h, r)
      BY <1>1 DEF Ranked
    <2>2. Wired(h, vals, {}, D, r)
      BY <1>1, <2>1, NoneIsSeq DEF Wired
    <2>3. D[0] = <<>>
      OBVIOUS
    <2> HIDE DEF D, r, h
    <2> QED BY <1>1, <2>2, <2>3 DEF Says
  <1>3. IsBlock(b) /\ b.test = [match |-> "debugging"] /\ b.call = [fn |-> "printf"]
        /\ b.yes = 0 /\ b.no = 0
    BY BlockIs DEF Block, Exit
  <1> HIDE DEF h, b
  <1>4. IsHook(g) /\ Len(g.blocks) = 1 /\ g.entry = To(Exit, 1, 0) /\ g.blocks[1] = b
    <2>1. /\ IsHook(g) /\ Len(g.blocks) = Len(h.blocks) + 1
          /\ g.entry = To(Exit, Len(h.blocks) + 1, h.entry) /\ g.blocks[Len(h.blocks) + 1] = b
      <3>1. IsHook(h) /\ IsBlock(b)
        BY <1>1, <1>3
      <3> QED BY ONLY <3>1, BeforeIs
    <2>2. Len(h.blocks) + 1 = 1
      BY <1>1
    <2> QED BY <1>1, <2>1, <2>2
  <1>5. g.entry = 1
    BY <1>4 DEF To, Exit
  <1> HIDE DEF g
  <1>6. Ranked(g, q)
    BY <1>3, <1>4, <1>5 DEF Ranked
  <1>7. IsSeq(out) /\ out \o <<>> = out
    <2>1. <<[fn |-> "printf"]>> \in Seq({[fn |-> "printf"]})
      OBVIOUS
    <2>2. IsSeq(<<[fn |-> "printf"]>>)
      BY <2>1, SeqOfMembers
    <2>3. IsSeq(out)
      BY <2>2, NoneIsSeq
    <2> HIDE DEF out
    <2> QED BY <2>3, JoinNone
  <1>8. Made(b.call, vals) = <<[fn |-> "printf"]>>
    BY <1>3 DEF Made
  <1>9. Holds(b.test, vals) = Debugging
    BY <1>3 DEF Holds
  <1>10. From(b, vals, E) = out
    <2>1. E[0] = <<>> /\ <<[fn |-> "printf"]>> \o <<>> = <<[fn |-> "printf"]>>
      <3>1. <<[fn |-> "printf"]>> \in Seq({[fn |-> "printf"]})
        OBVIOUS
      <3>2. IsSeq(<<[fn |-> "printf"]>>)
        BY <3>1, SeqOfMembers
      <3> QED BY <3>2, JoinNone
    <2> QED BY <1>3, <1>8, <1>9, <2>1 DEF From
  <1>11. E[0] = <<>> /\ E[1] = out /\ DOMAIN E = 0 .. 1
    OBVIOUS
  <1> HIDE DEF E, q
  <1>12. Wired(g, vals, {}, E, q)
    BY <1>4, <1>6, <1>7, <1>10, <1>11, NoneIsSeq DEF Wired
  <1>13. Says(g, vals, out)
    BY <1>4, <1>5, <1>11, <1>12 DEF Says
  <1> QED BY <1>2, <1>13 DEF CreatePreamble, h, g, b
=============================================================================
