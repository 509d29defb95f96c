-------------------------- MODULE TeslaHookProofs ---------------------------
(***************************************************************************)
(* The hooks of functions and of assertions tell libtesla exactly what     *)
(* happens (UpdatesAreExact).  A hook grows a call at a time, in several   *)
(* passes and for several automata; what is invariant is how often it makes*)
(* each call, for all values it may run with (Exact, Dawns, SiteExact), as a*)
(* function of the passes that are done (HooksGood).                       *)
(***************************************************************************)
EXTENDS TeslaInstrumenterProofs

-----------------------------------------------------------------------------
(* How often a call is made *)

Where(q, x) == {k \in DOMAIN q : q[k] = x}
Times(q, x) == Cardinality(Where(q, x))

LEMMA TimesIs ==
  ASSUME NEW q, NEW x, IsSeq(q)
  PROVE  /\ IsFiniteSet(Where(q, x)) /\ Times(q, x) \in Nat
         /\ Times(q, x) = 0 <=> x \notin ToSet(q)
         /\ Times(q, x) <= 1 => \A i, j \in DOMAIN q : q[i] = x /\ q[j] = x => i = j
  <1> DEFINE S == {k \in DOMAIN q : q[k] = x}
  <1>1. Len(q) \in Nat /\ DOMAIN q = 1 .. Len(q)
    BY DEF IsSeq
  <1>2. IsFiniteSet(1 .. Len(q))
    BY <1>1, FS_Interval
  <1>3. S \in SUBSET (1 .. Len(q))
    BY <1>1
  <1>4. IsFiniteSet(S)
    BY <1>2, <1>3, FS_Subset
  <1>5. Cardinality(S) \in Nat /\ (Cardinality(S) = 0 <=> S = {})
    BY <1>4, FS_CardinalityType, FS_EmptySet
  <1>6. ASSUME Cardinality(S) <= 1, NEW i \in S, NEW j \in S PROVE i = j
    <2>1. Cardinality(S) = 1
      BY <1>5, <1>6
    <2>2. \E z : S = {z}
      BY <1>4, <2>1, FS_Singleton
    <2> HIDE DEF S
    <2> QED BY <1>6, <2>2
  <1>7. S = {} <=> x \notin ToSet(q)
    BY DEF ToSet
  <1>8. \A i, j \in DOMAIN q : q[i] = x /\ q[j] = x => i \in S /\ j \in S
    OBVIOUS
  <1> HIDE DEF S
  <1> QED BY <1>4, <1>5, <1>6, <1>7, <1>8 DEF Times, Where, S

LEMMA TimesOfNone == ASSUME NEW x PROVE Times(<<>>, x) = 0
  <1>1. {k \in DOMAIN <<>> : <<>>[k] = x} = {}
    BY NoneIsSeq
  <1> QED BY <1>1, FS_EmptySet DEF Times, Where

LEMMA TimesOfOne ==
  ASSUME NEW y, NEW x PROVE IsSeq(<<y>>) /\ Times(<<y>>, x) = IF x = y THEN 1 ELSE 0
  <1> DEFINE q == <<y>>
  <1>1. q \in Seq({y}) /\ DOMAIN q = {1} /\ q[1] = y
    OBVIOUS
  <1>2. IsSeq(q)
    BY <1>1, SeqOfMembers
  <1>3. {k \in DOMAIN q : q[k] = x} = IF x = y THEN {1} ELSE {}
    BY <1>1
  <1> HIDE DEF q
  <1>4. Cardinality({1}) = 1 /\ Cardinality({}) = 0
    BY FS_Singleton, FS_EmptySet
  <1>5. Times(q, x) = IF x = y THEN 1 ELSE 0
    BY <1>3, <1>4 DEF Times, Where
  <1> QED BY <1>2, <1>5 DEF q

LEMMA TimesJoined ==
  ASSUME NEW p, NEW q, NEW x, IsSeq(p), IsSeq(q)
  PROVE  Times(p \o q, x) = Times(p, x) + Times(q, x)
  <1> DEFINE n == Len(p)
             u == p \o q
             A == {k \in DOMAIN p : p[k] = x}
             B == {k \in DOMAIN q : q[k] = x}
             C == {k \in DOMAIN u : u[k] = x}
             D == {n + k : k \in B}
  <1>1. /\ n \in Nat /\ Len(q) \in Nat
        /\ DOMAIN p = 1 .. n /\ DOMAIN q = 1 .. Len(q) /\ DOMAIN u = 1 .. n + Len(q)
        /\ \A k \in 1 .. n : u[k] = p[k]
        /\ \A k \in 1 .. Len(q) : u[n + k] = q[k]
        /\ \A k \in 1 .. n + Len(q) : k > n => u[k] = q[k - n]
    BY Joined
  <1>2. IsFiniteSet(A) /\ IsFiniteSet(B)
    <2>1. IsFiniteSet(Where(p, x)) /\ IsFiniteSet(Where(q, x))
      BY TimesIs
    <2> QED BY <2>1 DEF Where
  <1> HIDE DEF u, n
  <1>3. C = A \cup D
    <2>1. ASSUME NEW k \in C PROVE k \in A \cup D
      <3>1. k \in 1 .. n + Len(q) /\ u[k] = x
        BY <1>1
      <3>2. CASE k <= n
        BY <1>1, <3>1, <3>2
      <3>3. CASE k > n
        <4>1. k - n \in B /\ k = n + (k - n)
          BY <1>1, <3>1, <3>3
        <4> HIDE DEF B
        <4> QED BY <4>1
      <3> QED BY <1>1, <3>1, <3>2, <3>3
    <2>2. ASSUME NEW k \in A PROVE k \in C
      BY <1>1
    <2>3. ASSUME NEW k \in D PROVE k \in C
      <3>1. PICK i \in B : k = n + i
        OBVIOUS
      <3>2. i \in 1 .. Len(q) /\ q[i] = x
        BY <1>1
      <3>3. n + i \in 1 .. n + Len(q) /\ u[n + i] = x
        BY <1>1, <3>2
      <3> QED BY <1>1, <3>1, <3>3
    <2> QED BY <2>1, <2>2, <2>3
  <1>4. A \cap D = {}
    BY <1>1
  <1>5. IsFiniteSet(D) /\ Cardinality(D) = Cardinality(B)
    <2> DEFINE f == [k \in B |-> n + k]
    <2>1. B \subseteq Nat
      BY <1>1
    <2> HIDE DEF B
    <2>2. f \in [B -> D] /\ (\A i, j \in B : f[i] = f[j] => i = j) /\ \A y \in D : \E k \in B : f[k] = y
      BY <1>1, <2>1
    <2>3. f \in Bijection(B, D)
      <3> HIDE DEF f, D
      <3>1. f \in Injection(B, D)
        BY <2>2 DEF Injection, IsInjective
      <3>2. f \in Surjection(B, D)
        BY <2>2 DEF Surjection
      <3> QED BY <3>1, <3>2 DEF Bijection
    <2>4. ExistsBijection(B, D)
      BY <2>3 DEF ExistsBijection
    <2> HIDE DEF D, f
    <2> QED BY <1>2, <2>4, FS_Bijection
  <1> HIDE DEF A, B, C, D
  <1>6. Cardinality(A \cup D) = Cardinality(A) + Cardinality(D) - Cardinality(A \cap D)
    BY <1>2, <1>5, FS_Union
  <1>7. Cardinality(A) \in Nat /\ Cardinality(B) \in Nat
    BY <1>2, FS_CardinalityType
  <1>8. Cardinality({}) = 0
    BY FS_EmptySet
  <1>9. Cardinality(A \cap D) = 0 /\ Cardinality(C) = Cardinality(A \cup D)
    BY <1>3, <1>4, <1>8
  <1>10. Cardinality(C) = Cardinality(A) + Cardinality(B)
    BY ONLY <1>5, <1>6, <1>7, <1>9
  <1> QED BY <1>10 DEF Times, Where, A, B, C, u

\* What the hook with this key does is known, whatever the values are.
Speaks(hs, key) == \A vals : Says(At(hs, key), vals, Walk(At(hs, key), vals))
Number(hs, key, vals, x) == Times(Walk(At(hs, key), vals), x)

\* The values are what the event asks for.
Matches(e, vals) == \A k \in DOMAIN Patterns(e) : Fits(Patterns(e)[k], k, vals)

LEMMA AtPut ==
  ASSUME NEW hs, NEW key, NEW h
  PROVE  /\ At(Put(hs, key, h), key) = h
         /\ \A k : k # key => At(Put(hs, key, h), k) = At(hs, k)
  BY DEF At, Put

LEMMA FreshSpeaks ==
  ASSUME NEW hs, NEW key, key \notin DOMAIN hs
  PROVE  /\ Speaks(hs, key)
         /\ \A vals, x : x # [fn |-> "printf"] => Number(hs, key, vals, x) = 0
  <1> DEFINE h == CreatePreamble(NewHook)
  <1>1. At(hs, key) = h
    BY DEF At
  <1> HIDE DEF h
  <1>2. ASSUME NEW vals
        PROVE  /\ Says(h, vals, Walk(h, vals))
               /\ \A x : x # [fn |-> "printf"] => Times(Walk(h, vals), x) = 0
    <2>1. PICK out : Says(h, vals, out) /\ (out = <<>> \/ out = <<[fn |-> "printf"]>>)
      BY PreambleSays DEF h
    <2>2. Walk(h, vals) = out
      BY <2>1, SaysIsWalk
    <2> QED BY <2>1, <2>2, TimesOfNone, TimesOfOne
  <1> QED BY <1>1, <1>2 DEF Speaks, Number

LEMMA AddedNumber ==
  ASSUME NEW h, NEW vals, Says(h, vals, Walk(h, vals)), NEW patterns, IsSeq(patterns),
         NEW params, NEW call
  PROVE  LET g == AddInstrumentation(h, patterns, params, call)
         IN /\ Says(g, vals, Walk(g, vals))
            /\ \A x : Times(Walk(g, vals), x) = Times(Walk(h, vals), x)
                        + (IF \A k \in DOMAIN patterns : Fits(patterns[k], k, vals)
                           THEN Times(Made(call, vals), x) ELSE 0)
  <1> DEFINE g == AddInstrumentation(h, patterns, params, call)
             A == \A k \in DOMAIN patterns : Fits(patterns[k], k, vals)
             out == Walk(h, vals)
             more == IF A THEN Made(call, vals) ELSE <<>>
  <1>1. Says(g, vals, out \o more)
    BY AddedSays
  <1>2. Walk(g, vals) = out \o more /\ IsSeq(out)
    <2>1. Says(h, vals, out)
      OBVIOUS
    <2> HIDE DEF g, out, more
    <2> QED BY <1>1, <2>1, SaysIsWalk
  <1>3. IsSeq(more)
    BY MadeIs, NoneIsSeq
  <1>4. ASSUME NEW x PROVE Times(more, x) = IF A THEN Times(Made(call, vals), x) ELSE 0
    BY TimesOfNone
  <1> HIDE DEF g, A, out, more
  <1>5. ASSUME NEW x PROVE Times(out \o more, x) = Times(out, x) + Times(more, x)
    BY <1>2, <1>3, TimesJoined
  <1> QED BY <1>1, <1>2, <1>4, <1>5 DEF g, A, out

LEMMA FnHookSays ==
  ASSUME NEW hs, NEW where, NEW e, IsFnEvent(e), NEW call,
         Speaks(hs, <<where, e.fn, e.dir>>)
  PROVE  LET key == <<where, e.fn, e.dir>>
             gs == FnHook(hs, where, e, call)
         IN /\ Speaks(gs, key)
            /\ \A vals, x : Number(gs, key, vals, x) =
                 Number(hs, key, vals, x)
                   + (IF Matches(e, vals) THEN Times(Made(call, vals), x) ELSE 0)
            /\ \A k : k # key => At(gs, k) = At(hs, k)
  <1> DEFINE key == <<where, e.fn, e.dir>>
             gs == FnHook(hs, where, e, call)
             h == At(hs, key)
             g == AddInstrumentation(h, Patterns(e), HookParams(e), call)
             okay == g.ok /\ ComparesInts(e)
             f == [g EXCEPT !.ok = okay]
  <1>1. IsSeq(Patterns(e))
    BY PatternsAre
  <1>2. gs = Put(hs, key, f)
    BY DEF FnHook
  <1>3. At(gs, key) = f /\ \A k : k # key => At(gs, k) = At(hs, k)
    <2> HIDE DEF key, f, gs
    <2> QED BY <1>2, AtPut
  <1> HIDE DEF key, gs
  <1>4. ASSUME NEW vals
        PROVE  /\ Says(f, vals, Walk(f, vals))
               /\ \A x : Times(Walk(f, vals), x) = Times(Walk(h, vals), x)
                           + (IF Matches(e, vals) THEN Times(Made(call, vals), x) ELSE 0)
    <2>1. Says(h, vals, Walk(h, vals))
      BY DEF Speaks, key
    <2> HIDE DEF h
    <2>2. /\ Says(g, vals, Walk(g, vals))
          /\ \A x : Times(Walk(g, vals), x) = Times(Walk(h, vals), x)
                      + (IF Matches(e, vals) THEN Times(Made(call, vals), x) ELSE 0)
      BY <1>1, <2>1, AddedNumber DEF Matches
    <2> HIDE DEF g
    <2>3. okay \in BOOLEAN
      BY <2>2 DEF Says, IsHook, ComparesInts
    <2> HIDE DEF okay
    <2>4. Says(f, vals, Walk(g, vals))
      BY <2>2, <2>3, SaysAnyway
    <2>5. Walk(f, vals) = Walk(g, vals)
      BY <2>4, SaysIsWalk
    <2> HIDE DEF f
    <2> QED BY <2>2, <2>4, <2>5
  <1> HIDE DEF f
  <1>5. Speaks(gs, key)
    BY <1>3, <1>4 DEF Speaks
  <1>6. \A vals, x : Number(gs, key, vals, x) = Number(hs, key, vals, x)
                       + (IF Matches(e, vals) THEN Times(Made(call, vals), x) ELSE 0)
    BY <1>3, <1>4 DEF Number, h
  <1> QED BY <1>3, <1>5, <1>6 DEF key, gs

\* What the instruction that compares finds is what the pattern means.
LEMMA FitsAgrees ==
  ASSUME NEW p, IsPattern(p), NEW k, NEW vals, vals[k] \in Ints
  PROVE  Fits(p, k, vals) <=> Agrees(p, vals[k])
  <1> DEFINE v == vals[k]
             w == Trunc(p.value)
             t == [match |-> p.match, param |-> k, value |-> w]
  <1>1. CASE p.type # "Constant"
    BY <1>1 DEF Fits, Agrees
  <1>2. CASE p.type = "Constant"
    <2>1. p.match \in {"Exact", "Flags", "Mask"} /\ p.value \in Int
      BY <1>2 DEF IsPattern
    <2>2. v \in Ints /\ w \in Ints
      <3>1. 2 ^ Width \in Nat \ {0}
        BY WidthAssumption
      <3>2. PICK n \in Nat \ {0} : n = 2 ^ Width
        BY <3>1
      <3>3. p.value % n \in 0 .. n - 1
        BY <2>1, <3>2
      <3> QED BY <3>2, <3>3 DEF Ints, Trunc
    <2>3. t.match = p.match /\ vals[t.param] = v /\ t.value = w
      OBVIOUS
    <2>4. Fits(p, k, vals) <=> Holds(t, vals)
      BY <1>2 DEF Fits
    <2> HIDE DEF v, w, t
    <2>5. /\ BitAnd(v, w) = BitAnd(w, v)
          /\ BitAnd(v, w) = w <=> \A b \in Bits : Bit(w, b) = 1 => Bit(v, b) = 1
          /\ BitAnd(w, v) = v <=> \A b \in Bits : Bit(v, b) = 1 => Bit(w, b) = 1
      BY <2>2, WidthAssumption
    <2>6. Agrees(p, v) <=>
            \/ p.match = "Exact" /\ v = w
            \/ p.match = "Flags" /\ \A b \in Bits : Bit(w, b) = 1 => Bit(v, b) = 1
            \/ p.match = "Mask" /\ \A b \in Bits : Bit(v, b) = 1 => Bit(w, b) = 1
      BY <1>2 DEF Agrees, w
    <2>7. Holds(t, vals) <=>
            CASE p.match = "Exact" -> v = w
              [] p.match = "Flags" -> BitAnd(v, w) = w
              [] p.match = "Mask" -> BitAnd(v, w) = v
      BY <2>1, <2>3 DEF Holds
    <2>8. Holds(t, vals) <=> Agrees(p, v)
      BY <2>1, <2>5, <2>6, <2>7
    <2> QED BY <2>4, <2>8 DEF v
  <1> QED BY <1>1, <1>2

\* The key that is made is the one the patterns name.
LEMMA KeyIsNamed ==
  ASSUME NEW call, NEW patterns, NEW vals, call.key = KeyArgs(patterns),
         call.deref \/ \A k \in DOMAIN patterns : patterns[k].type # "Indirect"
  PROVE  ConstructKey(call, vals) = Named(patterns, vals)
  <1> DEFINE S == {n \in DOMAIN patterns : HasIndex(patterns[n])}
             arg(k) == <<patterns[k].index, k, patterns[k].type>>
             entry(t) == <<t[1], IF call.deref /\ t[3] = "Indirect" THEN Content[vals[t[2]]]
                                 ELSE vals[t[2]]>>
             name(k) == <<patterns[k].index, IF patterns[k].type = "Indirect"
                                             THEN Content[vals[k]] ELSE vals[k]>>
  <1>1. ConstructKey(call, vals) = {entry(t) : t \in {arg(k) : k \in S}}
    BY DEF ConstructKey, KeyArgs
  <1>2. Named(patterns, vals) = {name(k) : k \in S}
    BY DEF Named
  <1>3. ASSUME NEW k \in S PROVE entry(arg(k)) = name(k)
    <2>1. arg(k)[1] = patterns[k].index /\ arg(k)[2] = k /\ arg(k)[3] = patterns[k].type
      OBVIOUS
    <2>2. call.deref \/ patterns[k].type # "Indirect"
      OBVIOUS
    <2> QED BY <2>1, <2>2
  <1> HIDE DEF S, arg, entry, name
  <1> QED BY <1>1, <1>2, <1>3

LEMMA MadeIsReport ==
  ASSUME NEW c, NEW patterns, NEW vals
  PROVE  Made(Update(c[1], c[2], patterns, TRUE, {}), vals) =
           <<Report(c, Named(patterns, vals), {})>>
  <1> DEFINE call == Update(c[1], c[2], patterns, TRUE, {})
  <1>1. /\ call.fn = "update_state" /\ call.automaton = c[1] /\ call.symbol = c[2]
        /\ call.key = KeyArgs(patterns) /\ call.deref = TRUE /\ call.free = {}
    BY DEF Update
  <1> HIDE DEF call
  <1>2. ConstructKey(call, vals) = Named(patterns, vals)
    BY <1>1, KeyIsNamed
  <1> QED BY <1>1, <1>2 DEF Made, Report, call

LEMMA ReportIs ==
  ASSUME NEW c, NEW d, NEW K, NEW J, NEW F, NEW G
  PROVE  /\ Report(c, K, F).fn = "update_state" /\ Report(c, K, F).automaton = c[1]
         /\ Report(c, K, F).symbol = c[2]
         /\ Report(c, K, F) = Report(d, J, G) => c[1] = d[1] /\ c[2] = d[2]
  <1>1. ASSUME NEW b, NEW X, NEW Y
        PROVE  /\ Report(b, X, Y).fn = "update_state" /\ Report(b, X, Y).automaton = b[1]
               /\ Report(b, X, Y).symbol = b[2]
    BY DEF Report
  <1> QED BY <1>1

-----------------------------------------------------------------------------
(* What the hooks of functions report *)

Said(c, vals) == Report(c, Named(Patterns(EventOf(c)), vals), {})
Concerns(c, fn, dir, vals) ==
  EventOf(c).fn = fn /\ EventOf(c).dir = dir /\ Matches(EventOf(c), vals)
Reports(P, fn, dir, vals) == {Said(c, vals) : c \in {d \in P : Concerns(d, fn, dir, vals)}}

\* The hooks of one place report the classes of P, each once, and no others.
Exact(hs, where, P) ==
  \A fn : \A dir \in {"Entry", "Exit"} :
    /\ Speaks(hs, <<where, fn, dir>>)
    /\ \A vals, x : x.fn = "update_state" =>
         Number(hs, <<where, fn, dir>>, vals, x) =
           IF x \in Reports(P, fn, dir, vals) THEN 1 ELSE 0

LEMMA ClassIs ==
  ASSUME NEW c \in AllClasses, NEW d \in AllClasses, c[1] = d[1], c[2] = d[2] PROVE c = d
  <1>1. ASSUME NEW b \in AllClasses PROVE b = <<b[1], b[2]>>
    <2>1. PICK a \in DOMAIN Automata : b \in {<<a, s>> : s \in DOMAIN Automata[a].classes}
      BY DEF AllClasses
    <2>2. PICK s \in DOMAIN Automata[a].classes : b = <<a, s>>
      BY <2>1
    <2> QED BY <2>2
  <1>2. c = <<c[1], c[2]>> /\ d = <<d[1], d[2]>>
    BY <1>1
  <1> QED BY <1>2

\* Other hooks have changed.
LEMMA ExactElsewhere ==
  ASSUME NEW hs, NEW gs, NEW where, NEW P, Exact(hs, where, P),
         \A fn : \A dir \in {"Entry", "Exit"} :
           At(gs, <<where, fn, dir>>) = At(hs, <<where, fn, dir>>)
  PROVE  Exact(gs, where, P)
  <1> SUFFICES ASSUME NEW fn, NEW dir \in {"Entry", "Exit"}
               PROVE  /\ Speaks(gs, <<where, fn, dir>>)
                      /\ \A vals, x : x.fn = "update_state" =>
                           Number(gs, <<where, fn, dir>>, vals, x) =
                             IF x \in Reports(P, fn, dir, vals) THEN 1 ELSE 0
    BY DEF Exact
  <1> DEFINE k == <<where, fn, dir>>
  <1>1. At(gs, k) = At(hs, k)
    OBVIOUS
  <1>2. /\ Speaks(hs, k)
        /\ \A vals, x : x.fn = "update_state" =>
             Number(hs, k, vals, x) = IF x \in Reports(P, fn, dir, vals) THEN 1 ELSE 0
    BY DEF Exact
  <1> HIDE DEF k
  <1> QED BY <1>1, <1>2 DEF Speaks, Number, k

\* A call that is not tesla_update_state has been added.
LEMMA ExactSun ==
  ASSUME NEW hs, NEW where, NEW P, Exact(hs, where, P), NEW e, IsFnEvent(e),
         NEW call, call.fn \in {"sunrise", "sunset"}
  PROVE  Exact(FnHook(hs, where, e, call), where, P)
  <1> DEFINE gs == FnHook(hs, where, e, call)
             key == <<where, e.fn, e.dir>>
  <1>1. e.dir \in {"Entry", "Exit"}
    BY DEF IsFnEvent
  <1>2. Speaks(hs, key)
    BY <1>1 DEF Exact
  <1>3. /\ Speaks(gs, key)
        /\ \A vals, x : Number(gs, key, vals, x) =
             Number(hs, key, vals, x)
               + (IF Matches(e, vals) THEN Times(Made(call, vals), x) ELSE 0)
        /\ \A k : k # key => At(gs, k) = At(hs, k)
    BY <1>2, FnHookSays
  <1>4. ASSUME NEW vals, NEW x, x.fn = "update_state" PROVE Times(Made(call, vals), x) = 0
    <2>1. Made(call, vals) = <<call>>
      BY DEF Made
    <2>2. x # call
      BY <1>4
    <2> QED BY <2>1, <2>2, TimesOfOne
  <1> HIDE DEF gs
  <1> SUFFICES ASSUME NEW fn, NEW dir \in {"Entry", "Exit"}
               PROVE  /\ Speaks(gs, <<where, fn, dir>>)
                      /\ \A vals, x : x.fn = "update_state" =>
                           Number(gs, <<where, fn, dir>>, vals, x) =
                             IF x \in Reports(P, fn, dir, vals) THEN 1 ELSE 0
    BY DEF Exact, gs
  <1> DEFINE k == <<where, fn, dir>>
  <1>5. /\ Speaks(hs, k)
        /\ \A vals, x : x.fn = "update_state" =>
             Number(hs, k, vals, x) = IF x \in Reports(P, fn, dir, vals) THEN 1 ELSE 0
    BY DEF Exact
  <1> HIDE DEF k, key
  <1>6. CASE k = key
    BY <1>3, <1>4, <1>5, <1>6 DEF k
  <1>7. CASE k # key
    <2>1. At(gs, k) = At(hs, k)
      BY <1>3, <1>7
    <2> QED BY <1>5, <2>1 DEF Speaks, Number, k
  <1> QED BY <1>6, <1>7

\* A class is added to the hooks of a place.
LEMMA ExactClass ==
  ASSUME manifest \in Manifests, NEW hs, NEW where, NEW P, P \subseteq AllClasses,
         Exact(hs, where, P), NEW c \in AllClasses, c \notin P, IsFn(EventOf(c))
  PROVE  Exact(ClassHook(hs, where, c), where, P \cup {c})
  <1> DEFINE e == EventOf(c)
             call == Update(c[1], c[2], Patterns(e), TRUE, {})
             gs == ClassHook(hs, where, c)
             key == <<where, e.fn, e.dir>>
             Q == P \cup {c}
  <1>0. IsFnEvent(e)
    BY EventIs
  <1>1. e.dir \in {"Entry", "Exit"}
    BY <1>0 DEF IsFnEvent
  <1>2. Speaks(hs, key)
    BY <1>1 DEF Exact
  <1>3. gs = FnHook(hs, where, e, call)
    BY DEF ClassHook
  <1>4. /\ Speaks(gs, key)
        /\ \A vals, x : Number(gs, key, vals, x) =
             Number(hs, key, vals, x)
               + (IF Matches(e, vals) THEN Times(Made(call, vals), x) ELSE 0)
        /\ \A k : k # key => At(gs, k) = At(hs, k)
    <2> HIDE DEF gs, call
    <2> QED BY <1>0, <1>2, <1>3, FnHookSays
  <1>5. ASSUME NEW vals, NEW x
        PROVE  Times(Made(call, vals), x) = IF x = Said(c, vals) THEN 1 ELSE 0
    <2>1. Made(call, vals) = <<Said(c, vals)>>
      BY MadeIsReport DEF Said
    <2> HIDE DEF call
    <2> QED BY <2>1, TimesOfOne
  <1>6. ASSUME NEW vals, NEW fn, NEW dir
        PROVE  /\ Said(c, vals) \notin Reports(P, fn, dir, vals)
               /\ Reports(Q, fn, dir, vals) =
                    Reports(P, fn, dir, vals)
                      \cup (IF Concerns(c, fn, dir, vals) THEN {Said(c, vals)} ELSE {})
    <2>1. ASSUME NEW d \in P PROVE Said(d, vals) # Said(c, vals)
      <3>1. d \in AllClasses /\ d # c
        OBVIOUS
      <3>2. ~(d[1] = c[1] /\ d[2] = c[2])
        BY <3>1, ClassIs
      <3> QED BY <3>2, ReportIs DEF Said
    <2> QED BY <2>1 DEF Reports
  <1> HIDE DEF gs, call
  <1> SUFFICES ASSUME NEW fn, NEW dir \in {"Entry", "Exit"}
               PROVE  /\ Speaks(gs, <<where, fn, dir>>)
                      /\ \A vals, x : x.fn = "update_state" =>
                           Number(gs, <<where, fn, dir>>, vals, x) =
                             IF x \in Reports(Q, fn, dir, vals) THEN 1 ELSE 0
    BY DEF Exact, gs
  <1> DEFINE k == <<where, fn, dir>>
  <1>7. /\ Speaks(hs, k)
        /\ \A vals, x : x.fn = "update_state" =>
             Number(hs, k, vals, x) = IF x \in Reports(P, fn, dir, vals) THEN 1 ELSE 0
    BY DEF Exact
  <1>8. k = key <=> e.fn = fn /\ e.dir = dir
    OBVIOUS
  <1> HIDE DEF k, key, Q
  <1>9. CASE k = key
    <2>1. ASSUME NEW vals, NEW x, x.fn = "update_state"
          PROVE  Number(gs, k, vals, x) = IF x \in Reports(Q, fn, dir, vals) THEN 1 ELSE 0
      <3>1. Concerns(c, fn, dir, vals) <=> Matches(e, vals)
        BY <1>8, <1>9 DEF Concerns
      <3>2. Number(gs, k, vals, x) =
              (IF x \in Reports(P, fn, dir, vals) THEN 1 ELSE 0)
                + (IF Matches(e, vals) THEN IF x = Said(c, vals) THEN 1 ELSE 0 ELSE 0)
        BY <1>4, <1>5, <1>7, <1>9, <2>1
      <3> QED BY <1>6, <3>1, <3>2
    <2> QED BY <1>4, <1>9, <2>1 DEF k
  <1>10. CASE k # key
    <2>1. At(gs, k) = At(hs, k)
      BY <1>4, <1>10
    <2>2. ASSUME NEW vals PROVE Reports(Q, fn, dir, vals) = Reports(P, fn, dir, vals)
      <3>1. ~Concerns(c, fn, dir, vals)
        BY <1>8, <1>10 DEF Concerns
      <3> QED BY <1>6, <3>1
    <2> QED BY <1>7, <2>1, <2>2 DEF Speaks, Number, k
  <1> QED BY <1>9, <1>10

\* A key of another place, or of another kind.
Apart(key, where) == \A fn : \A dir \in {"Entry", "Exit"} : key # <<where, fn, dir>>

LEMMA ExactPut ==
  ASSUME NEW hs, NEW where, NEW P, Exact(hs, where, P), NEW key, Apart(key, where), NEW h
  PROVE  Exact(Put(hs, key, h), where, P)
  <1>1. ASSUME NEW fn, NEW d \in {"Entry", "Exit"}
        PROVE  At(Put(hs, key, h), <<where, fn, d>>) = At(hs, <<where, fn, d>>)
    <2> DEFINE k == <<where, fn, d>>
    <2>1. k # key
      BY DEF Apart
    <2> HIDE DEF k
    <2>2. At(Put(hs, key, h), k) = At(hs, k)
      BY <2>1, AtPut
    <2> QED BY <2>2 DEF k
  <1> QED BY <1>1, ExactElsewhere

\* A hook of functions is put back with something added.
LEMMA FnHookPuts ==
  ASSUME NEW hs, NEW w, NEW e, NEW call
  PROVE  \E h : FnHook(hs, w, e, call) = Put(hs, <<w, e.fn, e.dir>>, h)
  BY DEF FnHook

LEMMA ApartIs ==
  ASSUME NEW w, NEW name, NEW dir, NEW where, w # where \/ dir \in {"Reached", "Store"}
  PROVE  Apart(<<w, name, dir>>, where)
  BY DEF Apart

-----------------------------------------------------------------------------
(* Where lifetimes begin and end *)

LEMMA MinIs == ASSUME NEW S, S \subseteq Nat, S # {} PROVE Min(S) \in S /\ \A y \in S : Min(S) <= y
  <1> DEFINE R == {p \in Nat \X Nat : p[1] < p[2]}
  <1>1. IsWellFoundedOn(R, Nat)
    BY NatLessThanWellFounded DEF OpToRel
  <1>2. PICK x \in S : \A y \in S : ~(<<y, x>> \in R)
    <2> HIDE DEF R
    <2> QED BY <1>1, WFMin
  <1>3. ASSUME NEW y \in S PROVE x <= y
    <2>1. y \in Nat /\ x \in Nat
      OBVIOUS
    <2>2. y < x => <<y, x>> \in R
      BY <2>1
    <2> HIDE DEF R
    <2> QED BY <1>2, <2>1, <2>2
  <1> QED BY <1>3 DEF Min

\* What libtesla is told of a lifetime.
Tells(f, l) == Sun(f, BuildLifetime(l))

LEMMA SunIs ==
  ASSUME NEW f, NEW l
  PROVE  /\ Sun(f, l).fn = f /\ Sun(f, l).lifetime = l
         /\ \A g, k : Sun(f, l) = Sun(g, k) => f = g /\ l = k
         /\ f \in {"sunrise", "sunset"} => \A vals : Made(Sun(f, l), vals) = <<Sun(f, l)>>
  <1>1. \A g, k : Sun(g, k).fn = g /\ Sun(g, k).lifetime = k
    BY DEF Sun
  <1>2. ASSUME f \in {"sunrise", "sunset"}, NEW vals PROVE Made(Sun(f, l), vals) = <<Sun(f, l)>>
    <2>1. Sun(f, l).fn # "none" /\ Sun(f, l).fn # "update_state"
      BY <1>1, <1>2
    <2> QED BY <2>1 DEF Made
  <1>3. \A g, k : Sun(f, l) = Sun(g, k) => f = g /\ l = k
    BY <1>1
  <1> QED BY <1>1, <1>2, <1>3

\* Lifetimes are told apart: their bounds are, by all there is in them.
LEMMA TellsIs ==
  ASSUME manifest \in Manifests, NEW f, NEW g, NEW j \in DOMAIN manifest.lifetimes,
         NEW l \in DOMAIN manifest.lifetimes
  PROVE  Tells(f, j) = Tells(g, l) <=> f = g /\ j = l
  <1>1. IsManifest(manifest)
    BY ManifestIs
  <1>2. ASSUME NEW k
        PROVE  /\ BuildLifetime(k).begin.repr = manifest.lifetimes[k].init
               /\ BuildLifetime(k).end.repr = manifest.lifetimes[k].cleanup
    BY DEF BuildLifetime, BuildLifetimeEvent
  <1>3. ASSUME BuildLifetime(j) = BuildLifetime(l) PROVE j = l
    <2>1. /\ manifest.lifetimes[j].init = manifest.lifetimes[l].init
          /\ manifest.lifetimes[j].cleanup = manifest.lifetimes[l].cleanup
      BY <1>2, <1>3
    <2> QED BY <1>1, <2>1 DEF IsManifest
  <1> QED BY <1>3, SunIs DEF Tells

\* What one more call does to the hooks of its place.
LEMMA HookNumber ==
  ASSUME NEW hs, NEW where, NEW e, IsFnEvent(e), NEW call, Speaks(hs, <<where, e.fn, e.dir>>),
         NEW fn, NEW dir, Speaks(hs, <<where, fn, dir>>), NEW vals, NEW x
  PROVE  /\ Number(hs, <<where, fn, dir>>, vals, x) \in Nat
         /\ Number(FnHook(hs, where, e, call), <<where, fn, dir>>, vals, x) =
              Number(hs, <<where, fn, dir>>, vals, x)
                + (IF e.fn = fn /\ e.dir = dir /\ Matches(e, vals)
                   THEN Times(Made(call, vals), x) ELSE 0)
  <1> DEFINE gs == FnHook(hs, where, e, call)
             key == <<where, e.fn, e.dir>>
             k == <<where, fn, dir>>
  <1>1. /\ \A v, z : Number(gs, key, v, z) =
             Number(hs, key, v, z) + (IF Matches(e, v) THEN Times(Made(call, v), z) ELSE 0)
        /\ \A j : j # key => At(gs, j) = At(hs, j)
    BY FnHookSays
  <1>2. k = key <=> e.fn = fn /\ e.dir = dir
    OBVIOUS
  <1>3. Speaks(hs, k)
    OBVIOUS
  <1> HIDE DEF gs, key, k
  <1>4. Number(hs, k, vals, x) \in Nat
    <2>1. Says(At(hs, k), vals, Walk(At(hs, k), vals))
      BY <1>3 DEF Speaks
    <2>2. IsSeq(Walk(At(hs, k), vals))
      BY <2>1, SaysIsWalk
    <2> QED BY <2>2, TimesIs DEF Number
  <1>5. Number(gs, k, vals, x) =
          Number(hs, k, vals, x) + (IF e.fn = fn /\ e.dir = dir /\ Matches(e, vals)
                                    THEN Times(Made(call, vals), x) ELSE 0)
    <2>1. CASE k = key
      BY <1>1, <1>2, <2>1
    <2>2. CASE k # key
      <3>1. At(gs, k) = At(hs, k)
        BY <1>1, <2>2
      <3> QED BY <1>2, <1>4, <2>2, <3>1 DEF Number
    <2> QED BY <2>1, <2>2
  <1> QED BY <1>4, <1>5 DEF gs, k

SunFns == {"sunrise", "sunset"}
Bound(f, l) ==
  IF f = "sunrise" THEN manifest.lifetimes[l].init ELSE manifest.lifetimes[l].cleanup
Strikes(e, fn, dir, vals) == e.fn = fn /\ e.dir = dir /\ Matches(e, vals)

\* The hooks of one place call f for the lifetimes of B, at their bounds and once.
Dawns(hs, where, f, B) ==
  \A fn, vals : \A dir \in {"Entry", "Exit"}, l \in DOMAIN manifest.lifetimes :
    Number(hs, <<where, fn, dir>>, vals, Tells(f, l)) =
      IF l \in B /\ Strikes(Bound(f, l), fn, dir, vals) THEN 1 ELSE 0

LEMMA DawnsPut ==
  ASSUME NEW hs, NEW where, NEW f, NEW B, Dawns(hs, where, f, B), NEW key, Apart(key, where),
         NEW h
  PROVE  Dawns(Put(hs, key, h), where, f, B)
  <1> DEFINE gs == Put(hs, key, h)
  <1> SUFFICES ASSUME NEW fn, NEW vals, NEW dir \in {"Entry", "Exit"},
                      NEW l \in DOMAIN manifest.lifetimes
               PROVE  Number(gs, <<where, fn, dir>>, vals, Tells(f, l)) =
                        IF l \in B /\ Strikes(Bound(f, l), fn, dir, vals) THEN 1 ELSE 0
    BY DEF Dawns
  <1> DEFINE k == <<where, fn, dir>>
  <1>1. k # key
    BY DEF Apart
  <1>2. Number(hs, k, vals, Tells(f, l)) =
          IF l \in B /\ Strikes(Bound(f, l), fn, dir, vals) THEN 1 ELSE 0
    BY DEF Dawns
  <1> HIDE DEF k
  <1>3. At(gs, k) = At(hs, k)
    BY <1>1, AtPut
  <1> QED BY <1>2, <1>3 DEF Number, k

\* A hook has been given another call: one of f for lifetime k, or none of f.
LEMMA DawnsMore ==
  ASSUME NEW hs, NEW where, NEW P, Exact(hs, where, P), NEW f, NEW B, Dawns(hs, where, f, B),
         NEW e, IsFnEvent(e), NEW call, NEW C,
         \A fn, vals : \A dir \in {"Entry", "Exit"}, l \in DOMAIN manifest.lifetimes :
             (IF l \in B /\ Strikes(Bound(f, l), fn, dir, vals) THEN 1 ELSE 0)
               + (IF Strikes(e, fn, dir, vals) THEN Times(Made(call, vals), Tells(f, l)) ELSE 0) =
             IF l \in C /\ Strikes(Bound(f, l), fn, dir, vals) THEN 1 ELSE 0
  PROVE  Dawns(FnHook(hs, where, e, call), where, f, C)
  <1> DEFINE gs == FnHook(hs, where, e, call)
  <1> SUFFICES ASSUME NEW fn, NEW vals, NEW dir \in {"Entry", "Exit"},
                      NEW l \in DOMAIN manifest.lifetimes
               PROVE  Number(gs, <<where, fn, dir>>, vals, Tells(f, l)) =
                        IF l \in C /\ Strikes(Bound(f, l), fn, dir, vals) THEN 1 ELSE 0
    BY DEF Dawns
  <1>1. Speaks(hs, <<where, e.fn, e.dir>>) /\ Speaks(hs, <<where, fn, dir>>)
    BY DEF Exact, IsFnEvent
  <1> DEFINE x == Tells(f, l)
  <1>2. Number(hs, <<where, fn, dir>>, vals, x) =
          IF l \in B /\ Strikes(Bound(f, l), fn, dir, vals) THEN 1 ELSE 0
    BY DEF Dawns
  <1>3. Number(gs, <<where, fn, dir>>, vals, x) =
          Number(hs, <<where, fn, dir>>, vals, x)
            + (IF Strikes(e, fn, dir, vals) THEN Times(Made(call, vals), x) ELSE 0)
    BY <1>1, HookNumber DEF Strikes
  <1>4. (IF l \in B /\ Strikes(Bound(f, l), fn, dir, vals) THEN 1 ELSE 0)
               + (IF Strikes(e, fn, dir, vals) THEN Times(Made(call, vals), x) ELSE 0) =
             IF l \in C /\ Strikes(Bound(f, l), fn, dir, vals) THEN 1 ELSE 0
    OBVIOUS
  <1> HIDE DEF x, gs
  <1> QED BY ONLY <1>2, <1>3, <1>4 DEF x

LEMMA DawnsClass ==
  ASSUME manifest \in Manifests, NEW hs, NEW where, NEW P, Exact(hs, where, P),
         NEW f \in SunFns, NEW B, Dawns(hs, where, f, B), NEW c \in AllClasses, IsFn(EventOf(c))
  PROVE  Dawns(ClassHook(hs, where, c), where, f, B)
  <1> DEFINE e == EventOf(c)
             call == Update(c[1], c[2], Patterns(e), TRUE, {})
  <1>1. IsFnEvent(e)
    BY EventIs
  <1>2. ASSUME NEW vals, NEW l PROVE Times(Made(call, vals), Tells(f, l)) = 0
    <2>1. Made(call, vals) = <<Said(c, vals)>>
      BY MadeIsReport DEF Said
    <2>2. Said(c, vals).fn = "update_state" /\ Tells(f, l).fn = f
      BY ReportIs, SunIs DEF Said, Tells
    <2>3. Said(c, vals) # Tells(f, l)
      BY <2>2 DEF SunFns
    <2> HIDE DEF call
    <2> QED BY <2>1, <2>3, TimesOfOne
  <1>3. ClassHook(hs, where, c) = FnHook(hs, where, e, call)
    BY DEF ClassHook
  <1> HIDE DEF call, e
  <1>4. Dawns(FnHook(hs, where, e, call), where, f, B)
    BY <1>1, <1>2, DawnsMore
  <1> QED BY <1>3, <1>4

LEMMA DawnsSun ==
  ASSUME manifest \in Manifests, NEW hs, NEW where, NEW P, Exact(hs, where, P),
         NEW f \in SunFns, NEW B, Dawns(hs, where, f, B),
         NEW l \in DOMAIN manifest.lifetimes, NEW g \in SunFns, f = g => l \notin B
  PROVE  Dawns(FnHook(hs, where, Bound(g, l), Tells(g, l)), where, f,
               IF f = g THEN B \cup {l} ELSE B)
  <1> DEFINE call == Tells(g, l)
             e == Bound(g, l)
             C == IF f = g THEN B \cup {l} ELSE B
  <1>1. IsFnEvent(e)
    <2>1. e \in {manifest.lifetimes[l].init, manifest.lifetimes[l].cleanup}
      BY DEF Bound
    <2> HIDE DEF e
    <2> QED BY <2>1, BoundIs
  <1>3. ASSUME NEW vals, NEW j \in DOMAIN manifest.lifetimes
        PROVE  Times(Made(call, vals), Tells(f, j)) = IF f = g /\ j = l THEN 1 ELSE 0
    <2>1. Made(call, vals) = <<call>>
      BY SunIs DEF SunFns, Tells
    <2>2. Tells(f, j) = call <=> f = g /\ j = l
      BY TellsIs
    <2> HIDE DEF call
    <2> QED BY <2>1, <2>2, TimesOfOne
  <1>4. ASSUME NEW j \in DOMAIN manifest.lifetimes, NEW fn, NEW vals, NEW dir
        PROVE  (IF j \in B /\ Strikes(Bound(f, j), fn, dir, vals) THEN 1 ELSE 0)
                 + (IF Strikes(e, fn, dir, vals) THEN Times(Made(call, vals), Tells(f, j)) ELSE 0) =
               IF j \in C /\ Strikes(Bound(f, j), fn, dir, vals) THEN 1 ELSE 0
    <2>1. Times(Made(call, vals), Tells(f, j)) = IF f = g /\ j = l THEN 1 ELSE 0
      BY <1>3, <1>4
    <2>2. CASE f = g /\ j = l
      <3>1. j \notin B /\ j \in C /\ e = Bound(f, j)
        BY <2>2
      <3> HIDE DEF C, e, call
      <3> QED BY <2>1, <2>2, <3>1
    <2>3. CASE ~(f = g /\ j = l)
      <3>1. j \in B <=> j \in C
        BY <2>3
      <3> HIDE DEF C, e, call
      <3> QED BY <2>1, <2>3, <3>1
    <2> QED BY <2>2, <2>3
  <1> HIDE DEF call, e, C
  <1>5. Dawns(FnHook(hs, where, e, call), where, f, C)
    BY <1>1, <1>4, DawnsMore
  <1> QED BY <1>5 DEF e, call, C

-----------------------------------------------------------------------------
(* All the hooks of functions and of assertions *)

SiteKey(a) == <<"assertion", a, "Reached">>
SiteReport(a, vals) ==
  Report(<<a, AssertSymbol(a)>>, Named(SitePatterns(a), vals), FreeMask(a))

\* The hook of an assertion reports that it was reached, and no more.
SiteExact(hs, a) ==
  /\ Speaks(hs, SiteKey(a))
  /\ \A vals, x : x # [fn |-> "printf"] =>
       Number(hs, SiteKey(a), vals, x) = IF x = SiteReport(a, vals) THEN 1 ELSE 0

\* C, R: the classes of callees, and of each module's callers; A: the assertions;
\* B, E: the lifetimes that begin, and end.
Good(hs, C, R, A, B, E) ==
  /\ Exact(hs, "callee", C) /\ Dawns(hs, "callee", "sunrise", B)
  /\ Dawns(hs, "callee", "sunset", E)
  /\ \A m \in DOMAIN Modules : Exact(hs, m, R[m]) /\ \A f \in SunFns : Dawns(hs, m, f, {})
  /\ \A a \in A : SiteExact(hs, a)

LEMMA SitePut ==
  ASSUME NEW hs, NEW a, SiteExact(hs, a), NEW key, key # SiteKey(a), NEW h
  PROVE  SiteExact(Put(hs, key, h), a)
  <1>1. At(Put(hs, key, h), SiteKey(a)) = At(hs, SiteKey(a))
    BY AtPut
  <1> QED BY <1>1 DEF SiteExact, Speaks, Number

\* What the hook of an assertion calls.
SiteCall(a) == Update(a, AssertSymbol(a), SitePatterns(a), FALSE, FreeMask(a))

LEMMA SiteIsReport ==
  ASSUME NEW a, NEW vals PROVE Made(SiteCall(a), vals) = <<SiteReport(a, vals)>>
  <1> DEFINE P == SitePatterns(a)
             call == SiteCall(a)
             c == <<a, AssertSymbol(a)>>
  <1>1. /\ call.fn = "update_state" /\ call.automaton = a /\ call.symbol = AssertSymbol(a)
        /\ call.key = KeyArgs(P) /\ call.deref = FALSE /\ call.free = FreeMask(a)
    BY DEF SiteCall, Update
  <1>2. \A k \in DOMAIN P : P[k].type = "Variable"
    BY DEF SitePatterns
  <1>3. c[1] = a /\ c[2] = AssertSymbol(a)
    OBVIOUS
  <1> HIDE DEF call, P, c
  <1>4. ConstructKey(call, vals) = Named(P, vals)
    BY <1>1, <1>2, KeyIsNamed
  <1>5. Made(call, vals) = <<Report(c, Named(P, vals), FreeMask(a))>>
    BY <1>1, <1>3, <1>4 DEF Made, Report
  <1> QED BY <1>5 DEF SiteReport, call, P, c

LEMMA SiteHooked ==
  ASSUME manifest \in Manifests, NEW hs, NEW a \in DOMAIN Automata
  PROVE  \E h : AssertionHook(hs, a) = Put(hs, SiteKey(a), h) /\ SiteExact(Put(hs, SiteKey(a), h), a)
  <1> DEFINE call == SiteCall(a)
             h == CreatePreamble(NewHook)
             g == AddInstrumentation(h, SitePatterns(a), ArgSize(a), call)
             f == [g EXCEPT !.ok = @ /\ CollectArgs(a)]
             key == SiteKey(a)
             gs == Put(hs, key, f)
  <1>1. AssertionHook(hs, a) = gs
    BY DEF AssertionHook, SiteCall, SitePatterns, SiteKey
  <1>2. IsSeq(SitePatterns(a))
    BY SitePatternsAre
  <1>3. \A vals : \A k \in DOMAIN SitePatterns(a) : Fits(SitePatterns(a)[k], k, vals)
    BY DEF SitePatterns, Fits
  <1>4. ASSUME NEW vals, NEW x
        PROVE  Times(Made(call, vals), x) = IF x = SiteReport(a, vals) THEN 1 ELSE 0
    <2>1. Made(call, vals) = <<SiteReport(a, vals)>>
      BY SiteIsReport
    <2> HIDE DEF call
    <2> QED BY <2>1, TimesOfOne
  <1>5. Speaks(<< >>, key) /\ \A vals, x : x # [fn |-> "printf"] => Number(<< >>, key, vals, x) = 0
    <2>1. key \notin DOMAIN << >>
      OBVIOUS
    <2> HIDE DEF key
    <2> QED BY <2>1, FreshSpeaks
  <1>6. At(<< >>, key) = h
    BY DEF At
  <1> HIDE DEF call, h
  <1>7. ASSUME NEW vals
        PROVE  /\ Says(f, vals, Walk(f, vals))
               /\ \A x : x # [fn |-> "printf"] =>
                    Times(Walk(f, vals), x) = IF x = SiteReport(a, vals) THEN 1 ELSE 0
    <2>1. Says(h, vals, Walk(h, vals))
      BY <1>5, <1>6 DEF Speaks
    <2>2. \A x : x # [fn |-> "printf"] => Times(Walk(h, vals), x) = 0
      BY <1>5, <1>6 DEF Number
    <2>3. /\ Says(g, vals, Walk(g, vals))
          /\ \A x : Times(Walk(g, vals), x) = Times(Walk(h, vals), x)
               + (IF \A k \in DOMAIN SitePatterns(a) : Fits(SitePatterns(a)[k], k, vals)
                  THEN Times(Made(call, vals), x) ELSE 0)
      BY <1>2, <2>1, AddedNumber
    <2> DEFINE okay == g.ok /\ CollectArgs(a)
    <2>4. okay \in BOOLEAN
      <3>1. IsHook(g)
        BY <2>3 DEF Says
      <3>2. g.ok \in BOOLEAN
        BY <3>1 DEF IsHook
      <3> QED BY <3>2
    <2> HIDE DEF g
    <2>5. f = [g EXCEPT !.ok = okay]
      OBVIOUS
    <2> HIDE DEF f, okay
    <2>6. Says(f, vals, Walk(g, vals))
      BY <2>3, <2>4, <2>5, SaysAnyway
    <2>7. Walk(f, vals) = Walk(g, vals)
      BY <2>6, SaysIsWalk
    <2> QED BY <1>3, <1>4, <2>2, <2>3, <2>6, <2>7
  <1> HIDE DEF f, key
  <1>8. At(gs, key) = f
    BY AtPut
  <1> HIDE DEF gs
  <1>9. SiteExact(gs, a)
    BY <1>7, <1>8 DEF SiteExact, Speaks, Number, key
  <1> QED BY <1>1, <1>9 DEF gs, key

OtherSites(A, key) == {a \in A : SiteKey(a) # key}

LEMMA GoodPut ==
  ASSUME NEW hs, NEW C, NEW R, NEW A, NEW B, NEW E, Good(hs, C, R, A, B, E),
         NEW w, NEW name, NEW dir \in {"Reached", "Store"}, NEW h
  PROVE  Good(Put(hs, <<w, name, dir>>, h), C, R, OtherSites(A, <<w, name, dir>>), B, E)
  <1> DEFINE key == <<w, name, dir>>
             gs == Put(hs, key, h)
             D == OtherSites(A, key)
  <1>1. \A where : Apart(key, where)
    BY ApartIs
  <1> HIDE DEF key
  <1>2. \A where, P : Exact(hs, where, P) => Exact(gs, where, P)
    BY <1>1, ExactPut
  <1>3. \A where, f, F : Dawns(hs, where, f, F) => Dawns(gs, where, f, F)
    BY <1>1, DawnsPut
  <1>4. \A a \in D : SiteExact(gs, a)
    BY SitePut DEF Good, OtherSites
  <1> HIDE DEF gs, D
  <1>5. Good(gs, C, R, D, B, E)
    BY <1>2, <1>3, <1>4 DEF Good
  <1> QED BY <1>5 DEF gs, key, D

LEMMA GoodSite ==
  ASSUME manifest \in Manifests, NEW hs, NEW C, NEW R, NEW A, NEW B, NEW E,
         Good(hs, C, R, A, B, E), NEW a \in DOMAIN Automata
  PROVE  Good(AssertionHook(hs, a), C, R, A \cup {a}, B, E)
  <1>1. PICK h : AssertionHook(hs, a) = Put(hs, SiteKey(a), h)
                 /\ SiteExact(Put(hs, SiteKey(a), h), a)
    BY SiteHooked
  <1> DEFINE gs == Put(hs, SiteKey(a), h)
             D == OtherSites(A, SiteKey(a))
  <1>2. Good(gs, C, R, D, B, E)
    BY GoodPut DEF SiteKey
  <1>3. A \cup {a} \subseteq D \cup {a}
    BY DEF SiteKey, OtherSites
  <1> HIDE DEF gs, D
  <1>4. \A b \in A \cup {a} : SiteExact(gs, b)
    BY <1>1, <1>2, <1>3 DEF gs, Good
  <1> QED BY <1>1, <1>2, <1>4 DEF Good, gs

LEMMA GoodField ==
  ASSUME NEW hs, NEW C, NEW R, NEW A, NEW B, NEW E,
         Good(hs, C, R, A, B, E), NEW m, NEW c
  PROVE  Good(FieldClass(hs, m, c), C, R, A, B, E)
  <1> DEFINE e == EventOf(c)
             name == e.field
             h == AppendInstrumentation(StructInstrumentation(hs, m, name), c)
             gs == Put(hs, <<m, name, "Store">>, h)
             D == OtherSites(A, <<m, name, "Store">>)
  <1>1. FieldClass(hs, m, c) = IF HasField(m, e) THEN gs ELSE hs
    BY DEF FieldClass
  <1> HIDE DEF h, name
  <1>2. Good(gs, C, R, D, B, E)
    BY GoodPut
  <1>3. D = A
    BY DEF SiteKey, OtherSites
  <1> HIDE DEF gs, D
  <1> QED BY <1>1, <1>2, <1>3

\* A hook of functions leaves those of the other places.
LEMMA FnHookGood ==
  ASSUME NEW hs, NEW w, NEW e, NEW call, e.dir \in {"Entry", "Exit"}
  PROVE  LET gs == FnHook(hs, w, e, call)
         IN /\ \A where, P : w # where /\ Exact(hs, where, P) => Exact(gs, where, P)
            /\ \A where, f, B : w # where /\ Dawns(hs, where, f, B) => Dawns(gs, where, f, B)
            /\ \A a : SiteExact(hs, a) => SiteExact(gs, a)
  <1> DEFINE gs == FnHook(hs, w, e, call)
             key == <<w, e.fn, e.dir>>
  <1>1. PICK h : gs = Put(hs, key, h)
    BY FnHookPuts
  <1>2. \A where : w # where => Apart(key, where)
    BY ApartIs
  <1>3. \A a : key # SiteKey(a)
    BY DEF SiteKey
  <1> HIDE DEF gs, key
  <1>4. \A where, P : w # where /\ Exact(hs, where, P) => Exact(gs, where, P)
    BY <1>1, <1>2, ExactPut
  <1>5. \A where, f, B : w # where /\ Dawns(hs, where, f, B) => Dawns(gs, where, f, B)
    BY <1>1, <1>2, DawnsPut
  <1>6. \A a : SiteExact(hs, a) => SiteExact(gs, a)
    BY <1>1, <1>3, SitePut
  <1> QED BY <1>4, <1>5, <1>6 DEF gs

-----------------------------------------------------------------------------
(* What each pass adds *)

Starts(m, l) == DefinedIn(m, manifest.lifetimes[l].init)
Stops(m, l) == Starts(m, l) /\ DefinedIn(m, manifest.lifetimes[l].cleanup)
CalleeOf(m, c) == IsFn(EventOf(c)) /\ ~IsBound(c) /\ DefinedIn(m, EventOf(c))
CallerOf(m, c) ==
  IsFn(EventOf(c)) /\ EventOf(c).ctx = "Caller" /\ EventOf(c).fn \in Modules[m].refs

Begun(m, B, q) == B \cup {l \in ToSet(q) : Starts(m, l)}
Ended(m, E, q) == E \cup {l \in ToSet(q) : Stops(m, l)}
Called(m, C, q) == C \cup {c \in ToSet(q) : CalleeOf(m, c)}
Calling(m, R, q) == [R EXCEPT ![m] = @ \cup {c \in ToSet(q) : CallerOf(m, c)}]

LEMMA PlacesDiffer ==
  /\ "callee" \notin DOMAIN Modules
  /\ \A m \in DOMAIN Modules : m # "callee"
  BY ProgramAssumption

LEMMA SunGood ==
  ASSUME manifest \in Manifests, NEW hs, NEW C, NEW R, NEW A, NEW B, NEW E,
         Good(hs, C, R, A, B, E), NEW m \in DOMAIN Modules,
         NEW l \in DOMAIN manifest.lifetimes, NEW g \in SunFns,
         g = "sunrise" => l \notin B, g = "sunset" => l \notin E
  PROVE  Good(FnHook(hs, "callee", Bound(g, l), Tells(g, l)), C, R, A,
              IF g = "sunrise" THEN B \cup {l} ELSE B, IF g = "sunset" THEN E \cup {l} ELSE E)
  <1> DEFINE e == Bound(g, l)
             call == Tells(g, l)
             gs == FnHook(hs, "callee", e, call)
  <1>1. IsFnEvent(e)
    <2>1. e \in {manifest.lifetimes[l].init, manifest.lifetimes[l].cleanup}
      BY DEF Bound
    <2> HIDE DEF e
    <2> QED BY <2>1, BoundIs
  <1>2. e.dir \in {"Entry", "Exit"}
    BY <1>1 DEF IsFnEvent
  <1>3. call.fn \in {"sunrise", "sunset"}
    BY SunIs DEF SunFns, Tells
  <1>4. /\ Exact(hs, "callee", C) /\ Dawns(hs, "callee", "sunrise", B)
        /\ Dawns(hs, "callee", "sunset", E)
    BY DEF Good
  <1>5. Exact(gs, "callee", C)
    <2> HIDE DEF e, call
    <2> QED BY <1>1, <1>3, <1>4, ExactSun
  <1>6. Dawns(gs, "callee", "sunrise", IF "sunrise" = g THEN B \cup {l} ELSE B)
    <2>1. "sunrise" \in SunFns
      BY DEF SunFns
    <2> QED BY <1>4, <2>1, DawnsSun DEF Starts
  <1>7. Dawns(gs, "callee", "sunset", IF "sunset" = g THEN E \cup {l} ELSE E)
    <2>1. "sunset" \in SunFns
      BY DEF SunFns
    <2> QED BY <1>4, <2>1, DawnsSun DEF Starts
  <1> HIDE DEF e, call
  <1>8. /\ \A where, P : "callee" # where /\ Exact(hs, where, P) => Exact(gs, where, P)
        /\ \A where, f, D : "callee" # where /\ Dawns(hs, where, f, D) => Dawns(gs, where, f, D)
        /\ \A a : SiteExact(hs, a) => SiteExact(gs, a)
    BY <1>2, FnHookGood
  <1> HIDE DEF gs
  <1>9. /\ \A n \in DOMAIN Modules : Exact(gs, n, R[n]) /\ \A f \in SunFns : Dawns(gs, n, f, {})
        /\ \A a \in A : SiteExact(gs, a)
    BY <1>8, PlacesDiffer DEF Good
  <1>10. Good(gs, C, R, A, IF g = "sunrise" THEN B \cup {l} ELSE B,
              IF g = "sunset" THEN E \cup {l} ELSE E)
    <2>1. (IF g = "sunrise" THEN B \cup {l} ELSE B) = (IF "sunrise" = g THEN B \cup {l} ELSE B)
      OBVIOUS
    <2>2. (IF g = "sunset" THEN E \cup {l} ELSE E) = (IF "sunset" = g THEN E \cup {l} ELSE E)
      OBVIOUS
    <2> QED BY <1>5, <1>6, <1>7, <1>9, <2>1, <2>2 DEF Good
  <1> QED BY <1>10 DEF gs, e, call

LEMMA GoodLifetime ==
  ASSUME manifest \in Manifests, NEW hs, NEW C, NEW R, NEW A, NEW B, NEW E,
         Good(hs, C, R, A, B, E), NEW m \in DOMAIN Modules,
         NEW l \in DOMAIN manifest.lifetimes, Starts(m, l) => l \notin B /\ l \notin E
  PROVE  Good(LifetimeHooks(hs, m, l), C, R, A, IF Starts(m, l) THEN B \cup {l} ELSE B,
              IF Stops(m, l) THEN E \cup {l} ELSE E)
  <1> DEFINE L == manifest.lifetimes[l]
             g == FnHook(hs, "callee", L.init, Tells("sunrise", l))
             f == FnHook(g, "callee", L.cleanup, Tells("sunset", l))
  <1>1. LifetimeHooks(hs, m, l) = IF ~Starts(m, l) THEN hs ELSE IF ~Stops(m, l) THEN g ELSE f
    BY DEF LifetimeHooks, Starts, Stops, Tells
  <1>2. CASE ~Starts(m, l)
    BY <1>1, <1>2 DEF Stops
  <1>3. CASE Starts(m, l)
    <2>1. Bound("sunrise", l) = L.init /\ Bound("sunset", l) = L.cleanup
      BY DEF Bound
    <2>2. "sunrise" \in SunFns /\ "sunset" \in SunFns
      BY DEF SunFns
    <2>3. Good(g, C, R, A, B \cup {l}, E)
      <3>1. Good(FnHook(hs, "callee", Bound("sunrise", l), Tells("sunrise", l)), C, R, A,
                 IF "sunrise" = "sunrise" THEN B \cup {l} ELSE B,
                 IF "sunrise" = "sunset" THEN E \cup {l} ELSE E)
        BY <1>3, <2>2, SunGood
      <3> QED BY <2>1, <3>1
    <2>4. Good(f, C, R, A, B \cup {l}, E \cup {l})
      <3> HIDE DEF g
      <3>1. Good(FnHook(g, "callee", Bound("sunset", l), Tells("sunset", l)), C, R, A,
                 IF "sunset" = "sunrise" THEN (B \cup {l}) \cup {l} ELSE B \cup {l},
                 IF "sunset" = "sunset" THEN E \cup {l} ELSE E)
        BY <1>3, <2>2, <2>3, SunGood
      <3> QED BY <2>1, <3>1
    <2> HIDE DEF g, f
    <2> QED BY <1>1, <1>3, <2>3, <2>4
  <1> QED BY <1>2, <1>3

LEMMA GoodCallee ==
  ASSUME manifest \in Manifests, NEW hs, NEW C, C \subseteq AllClasses, NEW R, NEW A, NEW B, NEW E,
         Good(hs, C, R, A, B, E), NEW m \in DOMAIN Modules,
         NEW c \in AllClasses, CalleeOf(m, c) => c \notin C
  PROVE  Good(CalleeClass(hs, m, c), IF CalleeOf(m, c) THEN C \cup {c} ELSE C, R, A, B, E)
  <1> DEFINE e == EventOf(c)
             call == Update(c[1], c[2], Patterns(e), TRUE, {})
             gs == ClassHook(hs, "callee", c)
  <1>1. CalleeClass(hs, m, c) = IF CalleeOf(m, c) THEN gs ELSE hs
    BY DEF CalleeClass, CalleeOf
  <1>2. CASE ~CalleeOf(m, c)
    BY <1>1, <1>2
  <1>3. CASE CalleeOf(m, c)
    <2>1. IsFn(e) /\ c \notin C
      BY <1>3 DEF CalleeOf
    <2>2. e.dir \in {"Entry", "Exit"}
      BY <2>1, EventIs DEF IsFnEvent
    <2>3. /\ Exact(hs, "callee", C) /\ Dawns(hs, "callee", "sunrise", B)
          /\ Dawns(hs, "callee", "sunset", E)
      BY DEF Good
    <2>4. Exact(gs, "callee", C \cup {c})
      BY <2>1, <2>3, ExactClass
    <2>5. "sunrise" \in SunFns /\ "sunset" \in SunFns
      BY DEF SunFns
    <2>6. Dawns(gs, "callee", "sunrise", B) /\ Dawns(gs, "callee", "sunset", E)
      BY <2>1, <2>3, <2>5, DawnsClass
    <2>7. gs = FnHook(hs, "callee", e, call)
      BY DEF ClassHook
    <2> HIDE DEF e, call, gs
    <2>8. /\ \A where, P : "callee" # where /\ Exact(hs, where, P) => Exact(gs, where, P)
          /\ \A where, f, D : "callee" # where /\ Dawns(hs, where, f, D) => Dawns(gs, where, f, D)
          /\ \A a : SiteExact(hs, a) => SiteExact(gs, a)
      BY <2>2, <2>7, FnHookGood
    <2>9. /\ \A n \in DOMAIN Modules : Exact(gs, n, R[n]) /\ \A f \in SunFns : Dawns(gs, n, f, {})
          /\ \A a \in A : SiteExact(gs, a)
      BY <2>8, PlacesDiffer DEF Good
    <2>10. Good(gs, C \cup {c}, R, A, B, E)
      BY <2>4, <2>6, <2>9 DEF Good
    <2> QED BY <1>1, <1>3, <2>10
  <1> QED BY <1>2, <1>3

LEMMA GoodCaller ==
  ASSUME manifest \in Manifests, NEW hs, NEW C, NEW R \in [DOMAIN Modules -> SUBSET AllClasses],
         NEW A, NEW B, NEW E, Good(hs, C, R, A, B, E), NEW m \in DOMAIN Modules,
         NEW c \in AllClasses, CallerOf(m, c) => c \notin R[m]
  PROVE  Good(CallerClass(hs, m, c), C,
              [R EXCEPT ![m] = IF CallerOf(m, c) THEN @ \cup {c} ELSE @], A, B, E)
  <1> DEFINE e == EventOf(c)
             call == Update(c[1], c[2], Patterns(e), TRUE, {})
             gs == ClassHook(hs, m, c)
             Q == [R EXCEPT ![m] = IF CallerOf(m, c) THEN @ \cup {c} ELSE @]
  <1>1. CallerClass(hs, m, c) = IF CallerOf(m, c) THEN gs ELSE hs
    BY DEF CallerClass, CallerOf
  <1>2. CASE ~CallerOf(m, c)
    <2>1. Q = R
      BY <1>2
    <2> HIDE DEF Q
    <2> QED BY <1>1, <1>2, <2>1 DEF Q
  <1>3. CASE CallerOf(m, c)
    <2>1. IsFn(e) /\ c \notin R[m] /\ R[m] \subseteq AllClasses
      BY <1>3 DEF CallerOf
    <2>2. e.dir \in {"Entry", "Exit"}
      BY <2>1, EventIs DEF IsFnEvent
    <2>3. Exact(hs, m, R[m]) /\ \A f \in SunFns : Dawns(hs, m, f, {})
      BY DEF Good
    <2>4. Exact(gs, m, R[m] \cup {c})
      BY <2>1, <2>3, ExactClass
    <2>5. \A f \in SunFns : Dawns(gs, m, f, {})
      BY <2>1, <2>3, DawnsClass
    <2>6. gs = FnHook(hs, m, e, call)
      BY DEF ClassHook
    <2>7. Q[m] = R[m] \cup {c} /\ \A n \in DOMAIN Modules : n # m => Q[n] = R[n]
      BY <1>3
    <2> HIDE DEF e, call, gs, Q
    <2>8. /\ \A where, P : m # where /\ Exact(hs, where, P) => Exact(gs, where, P)
          /\ \A where, f, D : m # where /\ Dawns(hs, where, f, D) => Dawns(gs, where, f, D)
          /\ \A a : SiteExact(hs, a) => SiteExact(gs, a)
      BY <2>2, <2>6, FnHookGood
    <2>9. /\ \A n \in DOMAIN Modules : Exact(gs, n, Q[n]) /\ \A f \in SunFns : Dawns(gs, n, f, {})
          /\ \A a \in A : SiteExact(gs, a)
      <3>1. ASSUME NEW n \in DOMAIN Modules
            PROVE  Exact(gs, n, Q[n]) /\ \A f \in SunFns : Dawns(gs, n, f, {})
        <4>1. CASE n = m
          BY <2>4, <2>5, <2>7, <4>1
        <4>2. CASE n # m
          BY <2>7, <2>8, <4>2 DEF Good
        <4> QED BY <4>1, <4>2
      <3> QED BY <2>8, <3>1 DEF Good
    <2>10. /\ Exact(gs, "callee", C) /\ Dawns(gs, "callee", "sunrise", B)
           /\ Dawns(gs, "callee", "sunset", E)
      BY <2>8, PlacesDiffer DEF Good
    <2>11. Good(gs, C, Q, A, B, E)
      BY <2>9, <2>10 DEF Good
    <2> QED BY <1>1, <1>3, <2>11 DEF Q
  <1> QED BY <1>2, <1>3

Distinct(p) == \A i, j \in DOMAIN p : p[i] = p[j] => i = j

LEMMA DistinctOne ==
  ASSUME NEW T, NEW q \in Seq(T), NEW x \in T, Distinct(Append(q, x))
  PROVE  Distinct(q) /\ x \notin ToSet(q) /\ ToSet(Append(q, x)) = ToSet(q) \cup {x}
         /\ Append(q, x) \in Seq(T)
  <1> DEFINE a == Append(q, x)
  <1>1. IsSeq(q)
    BY SeqOfMembers
  <1>2. /\ Len(q) \in Nat /\ DOMAIN q = 1 .. Len(q) /\ DOMAIN a = 1 .. Len(q) + 1
        /\ \A k \in 1 .. Len(q) : a[k] = q[k]
        /\ a[Len(q) + 1] = x
        /\ ToSet(a) = ToSet(q) \cup {x}
    BY <1>1, OneMore
  <1>3. a \in Seq(T)
    OBVIOUS
  <1> HIDE DEF a
  <1>4. \A i, j \in 1 .. Len(q) + 1 : a[i] = a[j] => i = j
    BY <1>2 DEF Distinct, a
  <1>5. Distinct(q)
    <2> SUFFICES ASSUME NEW i \in DOMAIN q, NEW j \in DOMAIN q, q[i] = q[j] PROVE i = j
      BY DEF Distinct
    <2>1. i \in 1 .. Len(q) + 1 /\ j \in 1 .. Len(q) + 1 /\ a[i] = a[j]
      BY <1>2
    <2> QED BY <1>4, <2>1
  <1>6. x \notin ToSet(q)
    <2> SUFFICES ASSUME NEW k \in DOMAIN q, q[k] = x PROVE FALSE
      BY DEF ToSet
    <2>1. k \in 1 .. Len(q) + 1 /\ Len(q) + 1 \in 1 .. Len(q) + 1 /\ a[k] = a[Len(q) + 1] /\ k # Len(q) + 1
      BY <1>2
    <2> QED BY <1>4, <2>1
  <1> QED BY <1>2, <1>3, <1>5, <1>6 DEF a

LEMMA AllDistinct ==
  ASSUME manifest \in Manifests
  PROVE  Classes \in Seq(AllClasses) /\ Distinct(Classes) /\ ToSet(Classes) = AllClasses
  <1>1. IsSeq(Classes) /\ ToSet(Classes) = AllClasses /\ Sorted(Classes)
    BY ClassesAre
  <1>2. Classes \in Seq(AllClasses)
    BY <1>1 DEF IsSeq
  <1>3. ASSUME NEW c \in AllClasses PROVE c[1] \in Nat /\ c[2] \in Nat
    <2>1. PICK a \in DOMAIN Automata : c \in {<<a, s>> : s \in DOMAIN Automata[a].classes}
      BY DEF AllClasses
    <2>2. PICK s \in DOMAIN Automata[a].classes : c = <<a, s>>
      BY <2>1
    <2>3. a \in Nat /\ IsAutomaton(Automata[a])
      BY AutomatonIs
    <2>4. Automata[a].classes \in Seq(ToSet(Automata[a].classes))
      BY <2>3 DEF IsAutomaton
    <2>5. s \in Nat
      BY <2>4
    <2> QED BY <2>2, <2>3, <2>5
  <1>4. DOMAIN Classes = 1 .. Len(Classes) /\ Len(Classes) \in Nat
    BY <1>2
  <1>5. ASSUME NEW i \in DOMAIN Classes, NEW j \in DOMAIN Classes, i < j
        PROVE  Classes[i] # Classes[j]
    <2>1. Classes[i] \in AllClasses /\ Classes[j] \in AllClasses
      BY <1>2
    <2>2. /\ Classes[i][1] \in Nat /\ Classes[i][2] \in Nat
          /\ Classes[j][1] \in Nat /\ Classes[j][2] \in Nat
      BY <1>3, <2>1
    <2>3. \/ Classes[i][1] < Classes[j][1]
          \/ Classes[i][1] = Classes[j][1] /\ Classes[i][2] < Classes[j][2]
      BY <1>1, <1>5 DEF Sorted
    <2>4. ASSUME Classes[i] = Classes[j] PROVE FALSE
      <3>1. Classes[i][1] = Classes[j][1] /\ Classes[i][2] = Classes[j][2]
        BY <2>4
      <3> QED BY ONLY <2>2, <2>3, <3>1
    <2> QED BY <2>4
  <1>6. Distinct(Classes)
    BY <1>4, <1>5 DEF Distinct
  <1> QED BY <1>1, <1>2, <1>6

\* The passes, one after another.
LEMMA SitesGood ==
  ASSUME manifest \in Manifests, NEW hs, NEW C, C \subseteq AllClasses,
         NEW R \in [DOMAIN Modules -> SUBSET AllClasses], NEW A, NEW B, NEW E,
         Good(hs, C, R, A, B, E), NEW m \in DOMAIN Modules,
         NEW p \in Seq(DOMAIN Automata), Distinct(p)
  PROVE  Good(SiteFold!Fold(m, hs, p), C, R, A \cup (ToSet(p) \cap Sites(m)), B, E)
  <1> DEFINE G(q) == SiteFold!Fold(m, hs, q)
             Nice(q) == Good(G(q), C, R, A \cup (ToSet(q) \cap Sites(m)), B, E)
             S == {q \in Seq(DOMAIN Automata) : Distinct(q) => Nice(q)}
  <1>1. <<>> \in S
    <2>1. G(<<>>) = hs /\ <<>> \in Seq(DOMAIN Automata) /\ ToSet(<<>>) = {}
      BY SiteFold!FoldNone, NoneIsSeq
    <2>2. A \cup (ToSet(<<>>) \cap Sites(m)) = A
      BY <2>1
    <2> HIDE DEF G
    <2> QED BY <2>1, <2>2
  <1>2. ASSUME NEW q \in Seq(DOMAIN Automata), NEW x \in DOMAIN Automata, q \in S
        PROVE  Append(q, x) \in S
    <2> SUFFICES ASSUME Distinct(Append(q, x)) PROVE Nice(Append(q, x)) /\ Append(q, x) \in Seq(DOMAIN Automata)
      OBVIOUS
    <2>1. /\ Distinct(q) /\ x \notin ToSet(q) /\ ToSet(Append(q, x)) = ToSet(q) \cup {x}
          /\ Append(q, x) \in Seq(DOMAIN Automata)
      BY DistinctOne
    <2>2. G(Append(q, x)) = SiteBody(m, G(q), x)
      BY SiteFold!FoldOne
    <2>3. Nice(q)
      BY <1>2, <2>1
    <2> HIDE DEF G
    <2> DEFINE D == A \cup (ToSet(q) \cap Sites(m))
               F == A \cup (ToSet(Append(q, x)) \cap Sites(m))
    <2>4. Good(G(q), C, R, D, B, E)
      BY <2>3
    <2>5. F = IF x \in Sites(m) THEN D \cup {x} ELSE D
      BY <2>1
    <2> HIDE DEF D, F
    <2>6. Good(SiteBody(m, G(q), x), C, R, F, B, E)
      BY <2>4, <2>5, GoodSite DEF SiteBody
    <2> QED BY <2>1, <2>2, <2>6 DEF F
  <1>3. Seq(DOMAIN Automata) \subseteq S
    <2> HIDE DEF S
    <2> QED BY <1>1, <1>2, SiteFold!SeqInduction
  <1> QED BY <1>3

LEMMA LifetimesGood ==
  ASSUME manifest \in Manifests, NEW hs, NEW C, C \subseteq AllClasses,
         NEW R \in [DOMAIN Modules -> SUBSET AllClasses], NEW A, NEW B, NEW E,
         Good(hs, C, R, A, B, E), NEW m \in DOMAIN Modules,
         NEW p \in Seq(DOMAIN manifest.lifetimes), Distinct(p),
         \A l \in DOMAIN manifest.lifetimes : Starts(m, l) => l \notin B /\ l \notin E
  PROVE  Good(LifetimeFold!Fold(m, hs, p), C, R, A, Begun(m, B, p), Ended(m, E, p))
  <1> DEFINE G(q) == LifetimeFold!Fold(m, hs, q)
             Nice(q) == Good(G(q), C, R, A, Begun(m, B, q), Ended(m, E, q))
             S == {q \in Seq(DOMAIN manifest.lifetimes) : Distinct(q) => Nice(q)}
  <1>1. <<>> \in S
    <2>1. G(<<>>) = hs /\ <<>> \in Seq(DOMAIN manifest.lifetimes) /\ ToSet(<<>>) = {}
      BY LifetimeFold!FoldNone, NoneIsSeq
    <2>2. Begun(m, B, <<>>) = B /\ Ended(m, E, <<>>) = E
      BY <2>1 DEF Begun, Ended
    <2> HIDE DEF G
    <2> QED BY <2>1, <2>2
  <1>2. ASSUME NEW q \in Seq(DOMAIN manifest.lifetimes), NEW x \in DOMAIN manifest.lifetimes, q \in S
        PROVE  Append(q, x) \in S
    <2> SUFFICES ASSUME Distinct(Append(q, x)) PROVE Nice(Append(q, x)) /\ Append(q, x) \in Seq(DOMAIN manifest.lifetimes)
      OBVIOUS
    <2>1. /\ Distinct(q) /\ x \notin ToSet(q) /\ ToSet(Append(q, x)) = ToSet(q) \cup {x}
          /\ Append(q, x) \in Seq(DOMAIN manifest.lifetimes)
      BY DistinctOne
    <2>2. G(Append(q, x)) = LifetimeBody(m, G(q), x)
      BY LifetimeFold!FoldOne
    <2>3. Nice(q)
      BY <1>2, <2>1
    <2> HIDE DEF G
    <2> DEFINE D == Begun(m, B, q)
               F == Ended(m, E, q)
    <2>4. Good(G(q), C, R, A, D, F)
      BY <2>3
    <2>5. /\ Begun(m, B, Append(q, x)) = IF Starts(m, x) THEN D \cup {x} ELSE D
          /\ Ended(m, E, Append(q, x)) = IF Stops(m, x) THEN F \cup {x} ELSE F
          /\ Starts(m, x) => x \notin D /\ x \notin F
      BY <2>1 DEF Begun, Ended
    <2> HIDE DEF D, F
    <2>6. Good(LifetimeBody(m, G(q), x), C, R, A, Begun(m, B, Append(q, x)),
               Ended(m, E, Append(q, x)))
      <3>1. Good(LifetimeHooks(G(q), m, x), C, R, A, IF Starts(m, x) THEN D \cup {x} ELSE D,
                 IF Stops(m, x) THEN F \cup {x} ELSE F)
        BY <2>4, <2>5, GoodLifetime
      <3> QED BY <2>5, <3>1 DEF LifetimeBody
    <2> QED BY <2>1, <2>2, <2>6
  <1>3. Seq(DOMAIN manifest.lifetimes) \subseteq S
    <2> HIDE DEF S
    <2> QED BY <1>1, <1>2, LifetimeFold!SeqInduction
  <1> QED BY <1>3

LEMMA CalleesGood ==
  ASSUME manifest \in Manifests, NEW hs, NEW C, C \subseteq AllClasses,
         NEW R \in [DOMAIN Modules -> SUBSET AllClasses], NEW A, NEW B, NEW E,
         Good(hs, C, R, A, B, E), NEW m \in DOMAIN Modules,
         NEW p \in Seq(AllClasses), Distinct(p),
         \A c \in AllClasses : CalleeOf(m, c) => c \notin C
  PROVE  Good(CalleeFold!Fold(m, hs, p), Called(m, C, p), R, A, B, E)
  <1> DEFINE G(q) == CalleeFold!Fold(m, hs, q)
             Nice(q) == Good(G(q), Called(m, C, q), R, A, B, E)
             S == {q \in Seq(AllClasses) : Distinct(q) => Nice(q)}
  <1>1. <<>> \in S
    <2>1. G(<<>>) = hs /\ <<>> \in Seq(AllClasses) /\ ToSet(<<>>) = {}
      BY CalleeFold!FoldNone, NoneIsSeq
    <2>2. Called(m, C, <<>>) = C
      BY <2>1 DEF Called
    <2> HIDE DEF G
    <2> QED BY <2>1, <2>2
  <1>2. ASSUME NEW q \in Seq(AllClasses), NEW x \in AllClasses, q \in S
        PROVE  Append(q, x) \in S
    <2> SUFFICES ASSUME Distinct(Append(q, x)) PROVE Nice(Append(q, x)) /\ Append(q, x) \in Seq(AllClasses)
      OBVIOUS
    <2>1. /\ Distinct(q) /\ x \notin ToSet(q) /\ ToSet(Append(q, x)) = ToSet(q) \cup {x}
          /\ Append(q, x) \in Seq(AllClasses)
      BY DistinctOne
    <2>2. G(Append(q, x)) = CalleeBody(m, G(q), x)
      BY CalleeFold!FoldOne
    <2>3. Nice(q)
      BY <1>2, <2>1
    <2> HIDE DEF G
    <2> DEFINE D == Called(m, C, q)
    <2>4. Good(G(q), D, R, A, B, E)
      BY <2>3
    <2>5. /\ Called(m, C, Append(q, x)) = IF CalleeOf(m, x) THEN D \cup {x} ELSE D
          /\ CalleeOf(m, x) => x \notin D
      BY <2>1 DEF Called
    <2>6. D \subseteq AllClasses
      <3>1. ToSet(q) \subseteq AllClasses
        BY SeqOfMembers
      <3> QED BY <3>1 DEF Called
    <2> HIDE DEF D
    <2>7. Good(CalleeBody(m, G(q), x), Called(m, C, Append(q, x)), R, A, B, E)
      <3>1. Good(CalleeClass(G(q), m, x), IF CalleeOf(m, x) THEN D \cup {x} ELSE D, R, A, B, E)
        BY <2>4, <2>5, <2>6, GoodCallee
      <3> QED BY <2>5, <3>1 DEF CalleeBody
    <2> QED BY <2>1, <2>2, <2>7
  <1>3. Seq(AllClasses) \subseteq S
    <2> HIDE DEF S
    <2> QED BY <1>1, <1>2, CalleeFold!SeqInduction
  <1> QED BY <1>3

LEMMA CallersGood ==
  ASSUME manifest \in Manifests, NEW hs, NEW C, C \subseteq AllClasses,
         NEW R \in [DOMAIN Modules -> SUBSET AllClasses], NEW A, NEW B, NEW E,
         Good(hs, C, R, A, B, E), NEW m \in DOMAIN Modules,
         NEW p \in Seq(AllClasses), Distinct(p),
         R[m] = {}
  PROVE  Good(CallerFold!Fold(m, hs, p), C, Calling(m, R, p), A, B, E)
  <1> DEFINE G(q) == CallerFold!Fold(m, hs, q)
             Nice(q) == Good(G(q), C, Calling(m, R, q), A, B, E)
             S == {q \in Seq(AllClasses) : Distinct(q) => Nice(q)}
  <1>1. <<>> \in S
    <2>1. G(<<>>) = hs /\ <<>> \in Seq(AllClasses) /\ ToSet(<<>>) = {}
      BY CallerFold!FoldNone, NoneIsSeq
    <2>2. Calling(m, R, <<>>) = R
      BY <2>1 DEF Calling
    <2> HIDE DEF G
    <2> QED BY <2>1, <2>2
  <1>2. ASSUME NEW q \in Seq(AllClasses), NEW x \in AllClasses, q \in S
        PROVE  Append(q, x) \in S
    <2> SUFFICES ASSUME Distinct(Append(q, x)) PROVE Nice(Append(q, x)) /\ Append(q, x) \in Seq(AllClasses)
      OBVIOUS
    <2>1. /\ Distinct(q) /\ x \notin ToSet(q) /\ ToSet(Append(q, x)) = ToSet(q) \cup {x}
          /\ Append(q, x) \in Seq(AllClasses)
      BY DistinctOne
    <2>2. G(Append(q, x)) = CallerBody(m, G(q), x)
      BY CallerFold!FoldOne
    <2>3. Nice(q)
      BY <1>2, <2>1
    <2> HIDE DEF G
    <2> DEFINE D == Calling(m, R, q)
    <2>4. Good(G(q), C, D, A, B, E)
      BY <2>3
    <2>5. ToSet(q) \subseteq AllClasses
      BY SeqOfMembers
    <2>6. /\ D \in [DOMAIN Modules -> SUBSET AllClasses]
          /\ D[m] = {c \in ToSet(q) : CallerOf(m, c)}
      BY <2>5 DEF Calling
    <2>7. Calling(m, R, Append(q, x)) =
            [D EXCEPT ![m] = IF CallerOf(m, x) THEN @ \cup {x} ELSE @]
      BY <2>1, <2>6 DEF Calling
    <2>8. CallerOf(m, x) => x \notin D[m]
      BY <2>1, <2>6
    <2> HIDE DEF D
    <2>9. Good(CallerBody(m, G(q), x), C, Calling(m, R, Append(q, x)), A, B, E)
      <3>1. Good(CallerClass(G(q), m, x), C,
                 [D EXCEPT ![m] = IF CallerOf(m, x) THEN @ \cup {x} ELSE @], A, B, E)
        BY <2>4, <2>6, <2>8, GoodCaller
      <3> QED BY <2>7, <3>1 DEF CallerBody
    <2> QED BY <2>1, <2>2, <2>9
  <1>3. Seq(AllClasses) \subseteq S
    <2> HIDE DEF S
    <2> QED BY <1>1, <1>2, CallerFold!SeqInduction
  <1> QED BY <1>3

LEMMA FieldsGood ==
  ASSUME manifest \in Manifests, NEW hs, NEW C, C \subseteq AllClasses,
         NEW R \in [DOMAIN Modules -> SUBSET AllClasses], NEW A, NEW B, NEW E,
         Good(hs, C, R, A, B, E), NEW m \in DOMAIN Modules,
         NEW p \in Seq(AllClasses), Distinct(p)
  PROVE  Good(FieldFold!Fold(m, hs, p), C, R, A, B, E)
  <1> DEFINE G(q) == FieldFold!Fold(m, hs, q)
             Nice(q) == Good(G(q), C, R, A, B, E)
             S == {q \in Seq(AllClasses) : Distinct(q) => Nice(q)}
  <1>1. <<>> \in S
    <2>1. G(<<>>) = hs /\ <<>> \in Seq(AllClasses) /\ ToSet(<<>>) = {}
      BY FieldFold!FoldNone, NoneIsSeq
    <2> HIDE DEF G
    <2> QED BY <2>1
  <1>2. ASSUME NEW q \in Seq(AllClasses), NEW x \in AllClasses, q \in S
        PROVE  Append(q, x) \in S
    <2> SUFFICES ASSUME Distinct(Append(q, x)) PROVE Nice(Append(q, x)) /\ Append(q, x) \in Seq(AllClasses)
      OBVIOUS
    <2>1. /\ Distinct(q) /\ x \notin ToSet(q) /\ ToSet(Append(q, x)) = ToSet(q) \cup {x}
          /\ Append(q, x) \in Seq(AllClasses)
      BY DistinctOne
    <2>2. G(Append(q, x)) = FieldBody(m, G(q), x)
      BY FieldFold!FoldOne
    <2>3. Nice(q)
      BY <1>2, <2>1
    <2> HIDE DEF G
    <2>4. Good(FieldBody(m, G(q), x), C, R, A, B, E)
      BY <2>3, GoodField DEF FieldBody
    <2> QED BY <2>1, <2>2, <2>4
  <1>3. Seq(AllClasses) \subseteq S
    <2> HIDE DEF S
    <2> QED BY <1>1, <1>2, FieldFold!SeqInduction
  <1> QED BY <1>3

\* The module's callees have no hooks yet.
Unseen(m, C, B, E) ==
  /\ \A c \in AllClasses : CalleeOf(m, c) => c \notin C
  /\ \A l \in DOMAIN manifest.lifetimes : Starts(m, l) => l \notin B /\ l \notin E

LEMMA PassGood ==
  ASSUME manifest \in Manifests, NEW hs, NEW C, C \subseteq AllClasses,
         NEW R \in [DOMAIN Modules -> SUBSET AllClasses], NEW A, NEW B, NEW E,
         Good(hs, C, R, A, B, E), NEW m \in DOMAIN Modules
  PROVE  /\ Good(Pass(hs, m, "assertion"), C, R, A \cup (DOMAIN Automata \cap Sites(m)), B, E)
         /\ Unseen(m, C, B, E) =>
              Good(Pass(hs, m, "callee"), Called(m, C, Classes), R, A,
                   Begun(m, B, [l \in DOMAIN manifest.lifetimes |-> l]),
                   Ended(m, E, [l \in DOMAIN manifest.lifetimes |-> l]))
         /\ R[m] = {} => Good(Pass(hs, m, "caller"), C, Calling(m, R, Classes), A, B, E)
         /\ Good(Pass(hs, m, "field"), C, R, A, B, E)
  <1> DEFINE X == [a \in DOMAIN Automata |-> a]
             Y == [l \in DOMAIN manifest.lifetimes |-> l]
             g == LifetimeFold!Fold(m, hs, Y)
  <1>1. IsSeq(Automata) /\ IsSeq(manifest.lifetimes)
    BY ManifestIs DEF IsManifest, Automata, IsSeq
  <1>2. X \in Seq(DOMAIN Automata) /\ ToSet(X) = DOMAIN Automata /\ Distinct(X)
    BY <1>1, Numbered DEF Distinct
  <1>3. Y \in Seq(DOMAIN manifest.lifetimes) /\ Distinct(Y)
    BY <1>1, Numbered DEF Distinct
  <1>4. Classes \in Seq(AllClasses) /\ Distinct(Classes)
    BY AllDistinct
  <1>5. /\ Pass(hs, m, "assertion") = SiteFold!Fold(m, hs, X)
        /\ Pass(hs, m, "callee") = CalleeFold!Fold(m, g, Classes)
        /\ Pass(hs, m, "caller") = CallerFold!Fold(m, hs, Classes)
        /\ Pass(hs, m, "field") = FieldFold!Fold(m, hs, Classes)
    BY PassIsFold
  <1> HIDE DEF X, Y
  <1>6. Good(SiteFold!Fold(m, hs, X), C, R, A \cup (ToSet(X) \cap Sites(m)), B, E)
    BY <1>2, SitesGood
  <1>7. ASSUME Unseen(m, C, B, E) PROVE Good(g, C, R, A, Begun(m, B, Y), Ended(m, E, Y))
    BY <1>3, <1>7, LifetimesGood DEF Unseen
  <1> HIDE DEF g
  <1>8. ASSUME Unseen(m, C, B, E)
        PROVE  Good(CalleeFold!Fold(m, g, Classes), Called(m, C, Classes), R, A, Begun(m, B, Y),
                    Ended(m, E, Y))
    BY <1>4, <1>7, <1>8, CalleesGood DEF Unseen
  <1>9. R[m] = {} => Good(CallerFold!Fold(m, hs, Classes), C, Calling(m, R, Classes), A, B, E)
    BY <1>4, CallersGood
  <1>10. Good(FieldFold!Fold(m, hs, Classes), C, R, A, B, E)
    BY <1>4, FieldsGood
  <1> QED BY <1>2, <1>5, <1>6, <1>8, <1>9, <1>10 DEF Y

-----------------------------------------------------------------------------
(* The hooks, whichever passes are done *)

Past(k) == {m \in DOMAIN Modules : <<m, k>> \notin todo}
SitesDone == UNION {DOMAIN Automata \cap Sites(m) : m \in Past(1)}
CalleesDone == {c \in AllClasses : \E m \in Past(2) : CalleeOf(m, c)}
Callers(m) == {c \in AllClasses : CallerOf(m, c)}
CallersDone == [m \in DOMAIN Modules |-> IF m \in Past(3) THEN Callers(m) ELSE {}]
BegunNow == {l \in DOMAIN manifest.lifetimes : \E m \in Past(2) : Starts(m, l)}
EndedNow == {l \in DOMAIN manifest.lifetimes : \E m \in Past(2) : Stops(m, l)}

HooksGood == Good(hooks, CalleesDone, CallersDone, SitesDone, BegunNow, EndedNow)

\* The manifest does not change, nor does what is said of hooks.
LEMMA EventsSame ==
  ASSUME manifest' = manifest
  PROVE  /\ Automata' = Automata /\ AllClasses' = AllClasses
         /\ \A c : EventOf(c)' = EventOf(c) /\ (IsBound(c)' <=> IsBound(c))
         /\ \A m : Sites(m)' = Sites(m)
         /\ \A f, l : Tells(f, l)' = Tells(f, l)
  BY DEF Automata, AllClasses, EventOf, IsBound, Sites, Tells, BuildLifetime

LEMMA GoodSame ==
  ASSUME manifest' = manifest, NEW hs, NEW C, NEW R, NEW A, NEW B, NEW E,
         Good(hs, C, R, A, B, E)
  PROVE  Good(hs, C, R, A, B, E)'
  <1>1. \A c : EventOf(c)' = EventOf(c)
    BY EventsSame
  <1>2. ASSUME NEW P, NEW fn, NEW dir, NEW vals
        PROVE  Reports(P, fn, dir, vals)' = Reports(P, fn, dir, vals)
    BY <1>1 DEF Reports, Said, Concerns
  <1>3. ASSUME NEW where, NEW P, Exact(hs, where, P) PROVE Exact(hs, where, P)'
    BY <1>2, <1>3 DEF Exact
  <1>4. \A f, l : Tells(f, l)' = Tells(f, l)
    BY EventsSame
  <1>5. \A f, l : Bound(f, l)' = Bound(f, l)
    BY DEF Bound
  <1>6. ASSUME NEW where, NEW f, NEW D, Dawns(hs, where, f, D) PROVE Dawns(hs, where, f, D)'
    BY <1>4, <1>5, <1>6 DEF Dawns
  <1>7. ASSUME NEW a, SiteExact(hs, a) PROVE SiteExact(hs, a)'
    <2>1. Known(a)' = Known(a)
      BY KnownSame
    <2>2. SitePatterns(a)' = SitePatterns(a)
      BY <2>1 DEF SitePatterns
    <2>3. \A vals : SiteReport(a, vals)' = SiteReport(a, vals)
      BY <2>2, EventsSame DEF SiteReport, AssertSymbol, AssertTrans, Min, FreeMask
    <2> QED BY <1>7, <2>3 DEF SiteExact
  <1> QED BY <1>3, <1>6, <1>7 DEF Good

LEMMA NoHooksGood ==
  Good(<< >>, {}, [m \in DOMAIN Modules |-> {}], {}, {}, {})
  <1>1. ASSUME NEW where PROVE Exact(<< >>, where, {})
    <2> SUFFICES ASSUME NEW fn, NEW dir \in {"Entry", "Exit"}
                 PROVE  /\ Speaks(<< >>, <<where, fn, dir>>)
                        /\ \A vals, x : x.fn = "update_state" =>
                             Number(<< >>, <<where, fn, dir>>, vals, x) =
                               IF x \in Reports({}, fn, dir, vals) THEN 1 ELSE 0
      BY DEF Exact
    <2> DEFINE k == <<where, fn, dir>>
    <2>1. k \notin DOMAIN << >>
      OBVIOUS
    <2> HIDE DEF k
    <2>2. Speaks(<< >>, k) /\ \A vals, x : x # [fn |-> "printf"] => Number(<< >>, k, vals, x) = 0
      BY <2>1, FreshSpeaks
    <2>3. \A x : x.fn = "update_state" => x # [fn |-> "printf"]
      OBVIOUS
    <2>4. \A vals : Reports({}, fn, dir, vals) = {}
      BY DEF Reports
    <2> QED BY <2>2, <2>3, <2>4 DEF k
  <1>2. ASSUME NEW where, NEW f \in SunFns PROVE Dawns(<< >>, where, f, {})
    <2> SUFFICES ASSUME NEW fn, NEW dir \in {"Entry", "Exit"}, NEW vals, NEW l
                 PROVE  Number(<< >>, <<where, fn, dir>>, vals, Tells(f, l)) = 0
      BY DEF Dawns
    <2> DEFINE k == <<where, fn, dir>>
    <2>1. k \notin DOMAIN << >>
      OBVIOUS
    <2> HIDE DEF k
    <2>2. Tells(f, l) # [fn |-> "printf"]
      BY SunIs DEF SunFns, Tells
    <2>3. Number(<< >>, k, vals, Tells(f, l)) = 0
      BY <2>1, <2>2, FreshSpeaks
    <2> QED BY <2>3 DEF k
  <1>3. "sunrise" \in SunFns /\ "sunset" \in SunFns
    BY DEF SunFns
  <1> QED BY <1>1, <1>2, <1>3 DEF Good

LEMMA DoneIs ==
  ASSUME manifest \in Manifests
  PROVE  CalleesDone \subseteq AllClasses /\ CallersDone \in [DOMAIN Modules -> SUBSET AllClasses]
  BY DEF CalleesDone, CallersDone, Callers

LEMMA InstrumentGood ==
  ASSUME TypesOK, HooksGood, NEW m \in DOMAIN Modules, NEW k \in DOMAIN Passes, Instrument(m, k)
  PROVE  HooksGood'
  <1> USE DEF TypesOK
  <1>0. /\ <<m, k>> \in todo /\ manifest' = manifest
        /\ hooks' = Pass(hooks, m, Passes[k]) /\ todo' = todo \ {<<m, k>>}
    BY DEF Instrument
  <1>1. k \in 1 .. 4
    BY PassesAre
  <1> DEFINE C == CalleesDone
             R == CallersDone
             A == SitesDone
             B == BegunNow
             E == EndedNow
             Y == [l \in DOMAIN manifest.lifetimes |-> l]
  <1>2. ASSUME NEW j \in 1 .. 4
        PROVE  Past(j)' = IF j = k THEN Past(j) \cup {m} ELSE Past(j)
    BY <1>0 DEF Past
  <1>3. /\ \A n, c : CalleeOf(n, c)' <=> CalleeOf(n, c)
        /\ \A n, c : CallerOf(n, c)' <=> CallerOf(n, c)
        /\ \A n, l : Starts(n, l)' <=> Starts(n, l)
        /\ \A n, l : Stops(n, l)' <=> Stops(n, l)
    BY <1>0, EventsSame DEF CalleeOf, CallerOf, Starts, Stops
  <1>4. Automata' = Automata /\ AllClasses' = AllClasses /\ \A n : Sites(n)' = Sites(n)
    BY <1>0, EventsSame
  <1>5. ToSet(Classes) = AllClasses /\ ToSet(Y) = DOMAIN manifest.lifetimes
    <2>1. IsSeq(manifest.lifetimes)
      BY ManifestIs DEF IsManifest, IsSeq
    <2> QED BY <2>1, ClassesAre, Numbered
  <1>6. C \subseteq AllClasses /\ R \in [DOMAIN Modules -> SUBSET AllClasses]
    BY DoneIs
  <1>7. Good(hooks, C, R, A, B, E)
    BY DEF HooksGood
  <1>8. SitesDone' = IF k = 1 THEN A \cup (DOMAIN Automata \cap Sites(m)) ELSE A
    BY <1>2, <1>4 DEF SitesDone
  <1>9. CalleesDone' = IF k = 2 THEN Called(m, C, Classes) ELSE C
    BY <1>2, <1>3, <1>4, <1>5 DEF CalleesDone, Called
  <1>10. CallersDone' = IF k = 3 THEN Calling(m, R, Classes) ELSE R
    <2>0. ASSUME NEW n PROVE Callers(n)' = Callers(n)
      BY <1>3, <1>4 DEF Callers
    <2>1. CallersDone' = [n \in DOMAIN Modules |-> IF n \in Past(3)' THEN Callers(n) ELSE {}]
      BY <2>0 DEF CallersDone
    <2>2. CASE k = 3
      <3>1. m \notin Past(3) /\ Past(3)' = Past(3) \cup {m}
        BY <1>0, <1>2, <2>2 DEF Past
      <3>2. Calling(m, R, Classes) = [R EXCEPT ![m] = {} \cup Callers(m)]
        BY <1>5, <1>6, <3>1 DEF Calling, CallersDone, Callers
      <3>3. [R EXCEPT ![m] = {} \cup Callers(m)] =
              [n \in DOMAIN Modules |-> IF n \in Past(3) \cup {m} THEN Callers(n) ELSE {}]
        BY DEF CallersDone
      <3> QED BY <2>1, <2>2, <3>1, <3>2, <3>3
    <2>3. CASE k # 3
      <3>1. Past(3)' = Past(3)
        BY <1>2, <2>3
      <3> QED BY <2>1, <2>3, <3>1 DEF CallersDone
    <2> QED BY <2>2, <2>3
  <1>11. BegunNow' = (IF k = 2 THEN Begun(m, B, Y) ELSE B)
         /\ EndedNow' = (IF k = 2 THEN Ended(m, E, Y) ELSE E)
    BY <1>0, <1>2, <1>3, <1>5 DEF BegunNow, EndedNow, Begun, Ended
  <1>12. Good(hooks', CalleesDone', CallersDone', SitesDone', BegunNow', EndedNow')
    <2>1. CASE k = 2
      <3>1. \A c \in AllClasses : CalleeOf(m, c) => c \notin C
        BY <1>0, <2>1, ProgramAssumption DEF CalleesDone, Past, CalleeOf, DefinedIn
      <3>2. \A l \in DOMAIN manifest.lifetimes : Starts(m, l) => l \notin B /\ l \notin E
        BY <1>0, <2>1, ProgramAssumption DEF BegunNow, EndedNow, Past, Starts, Stops, DefinedIn
      <3>3. Unseen(m, C, B, E)
        BY <3>1, <3>2 DEF Unseen
      <3> HIDE DEF C, R, A, B, E
      <3>4. Good(Pass(hooks, m, "callee"), Called(m, C, Classes), R, A, Begun(m, B, Y),
                 Ended(m, E, Y))
        BY <1>6, <1>7, <3>3, PassGood
      <3>5. hooks' = Pass(hooks, m, "callee")
        BY <1>0, <2>1, PassesAre
      <3> HIDE DEF Y
      <3> QED BY <2>1, <1>8, <1>9, <1>10, <1>11, <3>4, <3>5
    <2>2. CASE k = 1
      <3> HIDE DEF C, R, A, B, E
      <3>1. Good(Pass(hooks, m, "assertion"), C, R, A \cup (DOMAIN Automata \cap Sites(m)), B, E)
        BY <1>6, <1>7, PassGood
      <3>2. hooks' = Pass(hooks, m, "assertion")
        BY <1>0, <2>2, PassesAre
      <3> HIDE DEF Y
      <3> QED BY <2>2, <1>8, <1>9, <1>10, <1>11, <3>1, <3>2
    <2>3. CASE k = 3
      <3>1. R[m] = {}
        BY <1>0, <2>3 DEF CallersDone, Past
      <3> HIDE DEF C, R, A, B, E
      <3>2. Good(Pass(hooks, m, "caller"), C, Calling(m, R, Classes), A, B, E)
        BY <1>6, <1>7, <3>1, PassGood
      <3>3. hooks' = Pass(hooks, m, "caller")
        BY <1>0, <2>3, PassesAre
      <3> HIDE DEF Y
      <3> QED BY <2>3, <1>8, <1>9, <1>10, <1>11, <3>2, <3>3
    <2>4. CASE k = 4
      <3> HIDE DEF C, R, A, B, E
      <3>1. Good(Pass(hooks, m, "field"), C, R, A, B, E)
        BY <1>6, <1>7, PassGood
      <3>2. hooks' = Pass(hooks, m, "field")
        BY <1>0, <2>4, PassesAre
      <3> HIDE DEF Y
      <3> QED BY <2>4, <1>8, <1>9, <1>10, <1>11, <3>1, <3>2
    <2> QED BY <1>1, <2>1, <2>2, <2>3, <2>4
  <1> QED BY <1>0, <1>12, GoodSame DEF HooksGood

-----------------------------------------------------------------------------
(* What an event is told as *)

IsCall(x) == x.fn = "update_state"

\* Of the calls of tesla_update_state, those of T are made, each once.
Exactly(T, cs) ==
  /\ IsSeq(cs) /\ \A x \in T : IsCall(x)
  /\ \A x : IsCall(x) => Times(cs, x) = IF x \in T THEN 1 ELSE 0

CallsAt(cs) == {k \in DOMAIN cs : IsCall(cs[k])}

LEMMA ExactlyIs ==
  ASSUME NEW T, NEW cs, Exactly(T, cs)
  PROVE  /\ \A k, n \in CallsAt(cs) : cs[k] = cs[n] => k = n
         /\ {cs[k] : k \in CallsAt(cs)} = T
  <1>1. \A x : IsCall(x) => (Times(cs, x) = 0 <=> x \notin ToSet(cs))
    BY TimesIs DEF Exactly
  <1>2. ASSUME NEW k \in CallsAt(cs), NEW n \in CallsAt(cs), cs[k] = cs[n] PROVE k = n
    <2>1. IsCall(cs[k]) /\ k \in DOMAIN cs /\ n \in DOMAIN cs
      BY DEF CallsAt
    <2>2. Times(cs, cs[k]) <= 1
      BY <2>1 DEF Exactly
    <2> QED BY <1>2, <2>1, <2>2, TimesIs DEF Exactly
  <1>3. ToSet(cs) = {cs[k] : k \in DOMAIN cs}
    BY DEF ToSet
  <1>4. \A x : IsCall(x) => (x \in T <=> x \in ToSet(cs))
    BY <1>1 DEF Exactly
  <1>5. \A x : x \in {cs[k] : k \in CallsAt(cs)} <=> IsCall(x) /\ x \in ToSet(cs)
    BY <1>3 DEF CallsAt
  <1>6. \A x : x \in {cs[k] : k \in CallsAt(cs)} <=> x \in T
    BY <1>4, <1>5 DEF Exactly
  <1> QED BY <1>2, <1>6

\* The symbols an event of a function is an occurrence of.
Occurring(e) ==
  {c \in AllClasses : /\ IsBound(c) => EventOf(c).ctx = "Caller"
                      /\ OccursAs(EventOf(c), e)}
Told(e) == {Said(c, e.vals) : c \in Occurring(e)}

FnEvent(dir, fn, m, vals) ==
  [what |-> "Fn", dir |-> dir, fn |-> fn, from |-> m, vals |-> vals]

\* The values a function is called with, and what it returns.
Values(fn, dir) ==
  [1 .. Params[fn] + (IF dir = "Exit" /\ fn \notin Void THEN 1 ELSE 0) -> Ints]

LEMMA MatchesAre ==
  ASSUME NEW e, IsFnEvent(e), NEW vals \in Values(e.fn, e.dir)
  PROVE  Matches(e, vals) <=> \A k \in DOMAIN Patterns(e) : Agrees(Patterns(e)[k], vals[k])
  <1>1. /\ IsSeq(Patterns(e)) /\ Len(Patterns(e)) = HookParams(e)
        /\ \A p \in ToSet(Patterns(e)) : IsPattern(p)
    BY PatternsAre
  <1> DEFINE q == Patterns(e)
  <1> HIDE DEF q
  <1>2. DOMAIN q = 1 .. HookParams(e) /\ \A k \in DOMAIN q : IsPattern(q[k])
    BY <1>1 DEF q, IsSeq, ToSet
  <1>3. \A k \in DOMAIN q : vals[k] \in Ints
    BY <1>2 DEF Values, HookParams
  <1>4. \A k \in DOMAIN q : Fits(q[k], k, vals) <=> Agrees(q[k], vals[k])
    BY <1>2, <1>3, FitsAgrees
  <1> QED BY <1>4 DEF Matches, q

\* Everything has been instrumented.
LEMMA AllDone ==
  ASSUME manifest \in Manifests, todo = {}
  PROVE  /\ \A c \in AllClasses : c \in CalleesDone <=>
              /\ IsFn(EventOf(c)) /\ ~IsBound(c)
              /\ EventOf(c).ctx = "Callee" /\ EventOf(c).fn \in DefinedFns
         /\ \A m \in DOMAIN Modules : CallersDone[m] = Callers(m)
         /\ SitesDone = UNION {DOMAIN Automata \cap Sites(m) : m \in DOMAIN Modules}
  <1>1. \A k : Past(k) = DOMAIN Modules
    BY DEF Past
  <1>2. \A m \in DOMAIN Modules : CallersDone[m] = Callers(m)
    BY <1>1 DEF CallersDone
  <1>3. \A c \in AllClasses : c \in CalleesDone <=>
              /\ IsFn(EventOf(c)) /\ ~IsBound(c)
              /\ EventOf(c).ctx = "Callee" /\ EventOf(c).fn \in DefinedFns
    BY <1>1 DEF CalleesDone, CalleeOf, DefinedIn, DefinedFns
  <1>4. SitesDone = UNION {DOMAIN Automata \cap Sites(m) : m \in DOMAIN Modules}
    BY <1>1 DEF SitesDone
  <1> QED BY <1>2, <1>3, <1>4

\* A class concerns an event that it is a symbol of.
LEMMA ConcernsIs ==
  ASSUME manifest \in Manifests, NEW c \in AllClasses, IsFn(EventOf(c)), NEW m, NEW fn,
         NEW dir, NEW vals \in Values(fn, dir),
         EventOf(c).ctx = "Callee" => fn \in DefinedFns
  PROVE  Concerns(c, fn, dir, vals) <=> OccursAs(EventOf(c), FnEvent(dir, fn, m, vals))
  <1> DEFINE p == EventOf(c)
             e == FnEvent(dir, fn, m, vals)
  <1>1. IsFnEvent(p)
    BY EventIs
  <1>2. e.what = "Fn" /\ e.dir = dir /\ e.fn = fn /\ e.vals = vals
    BY DEF FnEvent
  <1> HIDE DEF p, e
  <1>3. p.kind = "Fn"
    BY DEF IsFn, p
  <1>4. OccursAs(p, e) <=> /\ fn = p.fn /\ dir = p.dir /\ (p.ctx = "Callee" => fn \in DefinedFns)
                           /\ \A k \in DOMAIN Patterns(p) : Agrees(Patterns(p)[k], vals[k])
    BY <1>2, <1>3 DEF OccursAs
  <1>5. fn = p.fn /\ dir = p.dir =>
          (Matches(p, vals) <=> \A k \in DOMAIN Patterns(p) : Agrees(Patterns(p)[k], vals[k]))
    BY <1>1, MatchesAre
  <1> QED BY <1>4, <1>5 DEF Concerns, p, e

\* What runs is the hook, or nothing.
LEMMA RunIs ==
  ASSUME NEW key, Speaks(hooks, key), NEW vals
  PROVE  /\ IsSeq(Run(key, vals))
         /\ \A x : x # [fn |-> "printf"] => Times(Run(key, vals), x) = Number(hooks, key, vals, x)
  <1>1. CASE key \in DOMAIN hooks
    <2>1. Run(key, vals) = Walk(At(hooks, key), vals)
      BY <1>1 DEF Run, At
    <2> QED BY <2>1, SaysIsWalk DEF Speaks, Number
  <1>2. CASE key \notin DOMAIN hooks
    <2>1. Run(key, vals) = <<>>
      BY <1>2 DEF Run
    <2> QED BY <1>2, <2>1, FreshSpeaks, NoneIsSeq, TimesOfNone
  <1> QED BY <1>1, <1>2

\* What the hooks of a place report.
LEMMA PlaceTold ==
  ASSUME manifest \in Manifests, NEW where, NEW P, P \subseteq AllClasses, Exact(hooks, where, P),
         NEW fn, NEW dir \in {"Entry", "Exit"}, NEW vals
  PROVE  Exactly(Reports(P, fn, dir, vals), Run(<<where, fn, dir>>, vals))
  <1> DEFINE k == <<where, fn, dir>>
             T == Reports(P, fn, dir, vals)
  <1>1. Speaks(hooks, k) /\ \A x : x.fn = "update_state" =>
          Number(hooks, k, vals, x) = IF x \in T THEN 1 ELSE 0
    BY DEF Exact
  <1>2. \A x \in T : x.fn = "update_state"
    BY ReportIs DEF Reports, Said
  <1> HIDE DEF k, T
  <1>3. /\ IsSeq(Run(k, vals))
        /\ \A x : x # [fn |-> "printf"] => Times(Run(k, vals), x) = Number(hooks, k, vals, x)
    BY <1>1, RunIs
  <1>4. \A x : IsCall(x) => x # [fn |-> "printf"]
    BY DEF IsCall
  <1>5. Exactly(T, Run(k, vals))
    BY <1>1, <1>2, <1>3, <1>4 DEF Exactly, IsCall
  <1> QED BY <1>5 DEF k, T

LEMMA NoneTold == Exactly({}, <<>>)
  BY NoneIsSeq, TimesOfNone DEF Exactly

LEMMA JoinTold ==
  ASSUME NEW S, NEW T, NEW p, NEW q, Exactly(S, p), Exactly(T, q), S \cap T = {}
  PROVE  Exactly(S \cup T, p \o q) /\ Exactly(S \cup T, q \o p)
  <1>1. IsSeq(p \o q) /\ IsSeq(q \o p)
    BY Joined DEF Exactly
  <1>2. \A x : Times(p \o q, x) = Times(p, x) + Times(q, x)
               /\ Times(q \o p, x) = Times(q, x) + Times(p, x)
    BY TimesJoined DEF Exactly
  <1>3. ASSUME NEW x, IsCall(x)
        PROVE  /\ Times(p \o q, x) = IF x \in S \cup T THEN 1 ELSE 0
               /\ Times(q \o p, x) = IF x \in S \cup T THEN 1 ELSE 0
    BY <1>2, <1>3 DEF Exactly
  <1> QED BY <1>1, <1>3 DEF Exactly

\* Both of its hooks report an event of a function.
LEMMA FnTold ==
  ASSUME TypesOK, HooksGood, todo = {}, NEW m \in DOMAIN Modules, NEW fn \in Modules[m].refs,
         NEW dir \in {"Entry", "Exit"}, NEW vals \in Values(fn, dir)
  PROVE  LET p == Run(<<m, fn, dir>>, vals)
             q == RunCallee(fn, dir, vals)
             T == Told(FnEvent(dir, fn, m, vals))
         IN Exactly(T, p \o q) /\ Exactly(T, q \o p)
  <1> DEFINE p == Run(<<m, fn, dir>>, vals)
             q == RunCallee(fn, dir, vals)
             e == FnEvent(dir, fn, m, vals)
             C == IF fn \in DefinedFns THEN CalleesDone ELSE {}
             R == Callers(m)
             S == Reports(R, fn, dir, vals)
             U == Reports(C, fn, dir, vals)
  <1>0. manifest \in Manifests /\ R \subseteq AllClasses /\ C \subseteq AllClasses
    BY DEF TypesOK, Callers, CalleesDone
  <1>1. Exact(hooks, "callee", CalleesDone) /\ Exact(hooks, m, R)
    BY <1>0, AllDone DEF HooksGood, Good
  <1>2. Exactly(S, p)
    BY <1>0, <1>1, PlaceTold
  <1>3. Exactly(U, q)
    <2>1. CASE fn \in DefinedFns
      BY <1>0, <1>1, <2>1, PlaceTold DEF RunCallee
    <2>2. CASE fn \notin DefinedFns
      <3>1. U = {}
        BY <2>2 DEF Reports
      <3> QED BY <2>2, <3>1, NoneTold DEF RunCallee
    <2> QED BY <2>1, <2>2
  <1>4. \A c \in R : c \in AllClasses /\ IsFn(EventOf(c)) /\ EventOf(c).ctx = "Caller"
    BY DEF Callers, CallerOf
  <1>5. \A c \in C : c \in AllClasses /\ IsFn(EventOf(c)) /\ EventOf(c).ctx = "Callee"
                     /\ fn \in DefinedFns /\ ~IsBound(c)
    BY <1>0, AllDone
  <1>6. S \cap U = {}
    <2>1. ASSUME NEW c \in R, NEW d \in C, Said(c, vals) = Said(d, vals) PROVE FALSE
      <3>1. c[1] = d[1] /\ c[2] = d[2]
        BY <2>1, ReportIs DEF Said
      <3>2. c = d
        BY <3>1, <1>4, <1>5, ClassIs
      <3> QED BY <3>2, <1>4, <1>5
    <2> QED BY <2>1 DEF Reports
  <1>7. Occurring(e) = {c \in R \cup C : Concerns(c, fn, dir, vals)}
    <2>1. ASSUME NEW c \in R \cup C
          PROVE  Concerns(c, fn, dir, vals) <=> OccursAs(EventOf(c), e)
      <3>1. c \in AllClasses /\ IsFn(EventOf(c)) /\ (EventOf(c).ctx = "Callee" => fn \in DefinedFns)
        BY <1>4, <1>5
      <3> QED BY <1>0, <3>1, ConcernsIs
    <2>2. ASSUME NEW c \in R \cup C PROVE IsBound(c) => EventOf(c).ctx = "Caller"
      BY <1>4, <1>5
    <2>3. ASSUME NEW c \in Occurring(e) PROVE c \in R \cup C
      <3> DEFINE ev == EventOf(c)
      <3>1. c \in AllClasses /\ (IsBound(c) => ev.ctx = "Caller") /\ OccursAs(ev, e)
        BY DEF Occurring
      <3>2. e.what = "Fn" /\ e.fn = fn
        BY DEF FnEvent
      <3> HIDE DEF ev, e
      <3>3. ev.kind = "Fn" /\ ev.fn = fn /\ (ev.ctx = "Callee" => fn \in DefinedFns)
        BY <3>1, <3>2 DEF OccursAs
      <3>4. IsFn(ev) /\ ev.ctx \in {"Callee", "Caller"}
        BY <1>0, <3>1, <3>3, EventIs DEF IsFn, IsFnEvent, ev
      <3>5. CASE ev.ctx = "Caller"
        BY <3>1, <3>3, <3>4, <3>5 DEF Callers, CallerOf, ev
      <3>6. CASE ev.ctx = "Callee"
        <4>1. c \in CalleesDone
          BY <1>0, <3>1, <3>3, <3>4, <3>6, AllDone DEF ev
        <4> QED BY <4>1, <3>3, <3>6
      <3> QED BY <3>4, <3>5, <3>6
    <2>4. R \cup C \subseteq AllClasses
      BY <1>0
    <2> HIDE DEF R, C, e
    <2> QED BY <2>1, <2>2, <2>3, <2>4 DEF Occurring
  <1>8. Told(e) = S \cup U
    <2>1. e.vals = vals
      BY DEF FnEvent
    <2> HIDE DEF e, R, C
    <2> QED BY <1>7, <2>1 DEF Told, Reports
  <1> HIDE DEF p, q, e, S, U
  <1>9. Exactly(Told(e), p \o q) /\ Exactly(Told(e), q \o p)
    BY <1>2, <1>3, <1>6, <1>8, JoinTold
  <1> QED BY <1>9 DEF p, q, e

\* The hook of an assertion reports that it was reached.
LEMMA SiteTold ==
  ASSUME TypesOK, HooksGood, todo = {}, NEW a \in DOMAIN Automata,
         a \in UNION {Sites(m) : m \in DOMAIN Modules}, NEW vals
  PROVE  Exactly({SiteReport(a, vals)}, Run(<<"assertion", a, "Reached">>, vals))
  <1>1. a \in SitesDone
    BY AllDone DEF TypesOK
  <1>2. SiteExact(hooks, a)
    BY <1>1 DEF HooksGood, Good
  <1> DEFINE k == SiteKey(a)
  <1>3. Speaks(hooks, k) /\ \A x : x # [fn |-> "printf"] =>
          Number(hooks, k, vals, x) = IF x = SiteReport(a, vals) THEN 1 ELSE 0
    BY <1>2 DEF SiteExact
  <1>4. k = <<"assertion", a, "Reached">> /\ IsCall(SiteReport(a, vals))
    BY ReportIs DEF SiteKey, SiteReport, IsCall
  <1> HIDE DEF k
  <1>5. /\ IsSeq(Run(k, vals))
        /\ \A x : x # [fn |-> "printf"] => Times(Run(k, vals), x) = Number(hooks, k, vals, x)
    BY <1>3, RunIs
  <1>6. \A x : IsCall(x) => x # [fn |-> "printf"]
    BY DEF IsCall
  <1>7. Exactly({SiteReport(a, vals)}, Run(k, vals))
    BY <1>3, <1>4, <1>5, <1>6 DEF Exactly
  <1> QED BY <1>4, <1>7

-----------------------------------------------------------------------------
(* The program runs *)

\* The last event has been told.
Heard(e, cs) ==
  /\ e.what = "Fn" => Exactly(Told(e), cs)
  /\ e.what = "Assert" => Exactly({SiteReport(e.automaton, e.vals)}, cs)

LEMMA HeardIsExact ==
  ASSUME manifest \in Manifests, Heard(event, calls) PROVE UpdatesAreExact
  <1> DEFINE F == {c \in ToSet(Classes) :
                     /\ IsBound(c) => EventOf(c).ctx = "Caller"
                     /\ OccursAs(EventOf(c), event)}
             K == [k \in DOMAIN Known(event.automaton) |->
                     [type |-> "Variable", index |-> Known(event.automaton)[k].index]]
             T == IF event.what = "Fn"
                  THEN {Report(c, Named(Patterns(EventOf(c)), event.vals), {}) : c \in F}
                  ELSE {Report(<<event.automaton, AssertSymbol(event.automaton)>>,
                               Named(K, event.vals), FreeMask(event.automaton))}
  <1>1. Updates = CallsAt(calls)
    BY DEF Updates, CallsAt, IsCall
  <1>2. F = Occurring(event)
    BY ClassesAre DEF Occurring
  <1>3. ASSUME event.what = "Fn" PROVE T = Told(event)
    <2> HIDE DEF F
    <2> QED BY <1>2, <1>3 DEF Told, Said
  <1>4. K = SitePatterns(event.automaton)
    BY DEF SitePatterns
  <1>5. ASSUME event.what = "Assert" PROVE T = {SiteReport(event.automaton, event.vals)}
    <2> HIDE DEF F, K
    <2> QED BY <1>4, <1>5 DEF SiteReport
  <1>6. ASSUME event.what \in {"Fn", "Assert"} PROVE Exactly(T, calls)
    <2> HIDE DEF T
    <2> QED BY <1>3, <1>5, <1>6 DEF Heard
  <1>7. ASSUME event.what \in {"Fn", "Assert"}
        PROVE  /\ \A k, n \in Updates : calls[k] = calls[n] => k = n
               /\ {calls[k] : k \in Updates} = T
    <2> HIDE DEF T
    <2> QED BY <1>1, <1>6, <1>7, ExactlyIs
  <1> QED BY <1>7 DEF UpdatesAreExact

LEMMA HeardSame ==
  ASSUME manifest' = manifest, NEW e, NEW cs, Heard(e, cs) PROVE Heard(e, cs)'
  <1>1. /\ AllClasses' = AllClasses /\ \A c : EventOf(c)' = EventOf(c)
        /\ \A c : IsBound(c)' <=> IsBound(c)
    BY EventsSame
  <1>2. Occurring(e)' = Occurring(e)
    BY <1>1 DEF Occurring
  <1>3. \A c : Said(c, e.vals)' = Said(c, e.vals)
    BY <1>1 DEF Said
  <1>4. Told(e)' = Told(e)
    BY <1>2, <1>3 DEF Told
  <1>5. SiteReport(e.automaton, e.vals)' = SiteReport(e.automaton, e.vals)
    <2> DEFINE a == e.automaton
    <2>1. Known(a)' = Known(a)
      BY KnownSame
    <2>2. SitePatterns(a)' = SitePatterns(a)
      BY <2>1 DEF SitePatterns
    <2> QED BY <2>2, EventsSame DEF SiteReport, AssertSymbol, AssertTrans, Min, FreeMask
  <1> QED BY <1>4, <1>5 DEF Heard

IsFrame(f) ==
  /\ f = [from |-> f.from, fn |-> f.fn, args |-> f.args]
  /\ f.from \in DOMAIN Modules /\ f.fn \in Modules[f.from].refs /\ f.fn \in DOMAIN Params
  /\ f.args \in [1 .. Params[f.fn] -> Ints]
StackOK == IsSeq(stack) /\ \A k \in DOMAIN stack : IsFrame(stack[k])

\* What is known of the program as it runs.
RunsOK == TypesOK /\ HooksOK /\ HooksGood /\ StackOK /\ Heard(event, calls)

LEMMA InitGood == ASSUME Init PROVE HooksGood
  <1>1. \A k \in 1 .. 4 : Past(k) = {}
    BY PassesAre DEF Init, Past
  <1>2. /\ CalleesDone = {} /\ CallersDone = [m \in DOMAIN Modules |-> {}] /\ SitesDone = {}
        /\ BegunNow = {} /\ EndedNow = {}
    BY <1>1 DEF CalleesDone, CallersDone, SitesDone, BegunNow, EndedNow
  <1>3. hooks = << >>
    BY DEF Init
  <1> QED BY <1>2, <1>3, NoHooksGood DEF HooksGood

LEMMA SameGood == ASSUME HooksGood, UNCHANGED Built PROVE HooksGood'
  <1>0. manifest' = manifest /\ todo' = todo /\ hooks' = hooks
    BY DEF Built
  <1>1. \A k : Past(k)' = Past(k)
    BY <1>0 DEF Past
  <1>2. /\ \A n, c : CalleeOf(n, c)' <=> CalleeOf(n, c)
        /\ \A n, c : CallerOf(n, c)' <=> CallerOf(n, c)
        /\ \A n, l : Starts(n, l)' <=> Starts(n, l)
        /\ \A n, l : Stops(n, l)' <=> Stops(n, l)
    BY <1>0, EventsSame DEF CalleeOf, CallerOf, Starts, Stops
  <1>3. Automata' = Automata /\ AllClasses' = AllClasses /\ \A n : Sites(n)' = Sites(n)
    BY <1>0, EventsSame
  <1>4. SitesDone' = SitesDone /\ CalleesDone' = CalleesDone
    BY <1>1, <1>2, <1>3 DEF SitesDone, CalleesDone
  <1>5. \A n : Callers(n)' = Callers(n)
    BY <1>2, <1>3 DEF Callers
  <1>6. CallersDone' = CallersDone
    BY <1>1, <1>5 DEF CallersDone
  <1>7. BegunNow' = BegunNow /\ EndedNow' = EndedNow
    BY <1>0, <1>1, <1>2 DEF BegunNow, EndedNow
  <1> QED BY <1>0, <1>4, <1>6, <1>7, GoodSame DEF HooksGood

LEMMA StackPush ==
  ASSUME StackOK, NEW f, IsFrame(f), stack' = Append(stack, f) PROVE StackOK'
  BY OneMore DEF StackOK

LEMMA StackPop ==
  ASSUME StackOK, stack # <<>>, stack' = Front(stack)
  PROVE  /\ StackOK' /\ IsFrame(Last(stack)) /\ Len(stack) \in Nat \ {0}
         /\ DOMAIN stack = 1 .. Len(stack) /\ DOMAIN stack' = 1 .. Len(stack) - 1
         /\ \A k \in DOMAIN stack' : stack'[k] = stack[k]
  <1>1. IsSeq(stack) /\ \A k \in DOMAIN stack : IsFrame(stack[k])
    BY DEF StackOK
  <1>2. Len(stack) \in Nat \ {0} /\ DOMAIN stack = 1 .. Len(stack)
    BY <1>1 DEF IsSeq
  <1>3. stack' = [k \in 1 .. Len(stack) - 1 |-> stack[k]]
    BY DEF Front
  <1>4. Last(stack) = stack[Len(stack)]
    BY DEF Last
  <1>5. DOMAIN stack' = 1 .. Len(stack) - 1 /\ \A k \in DOMAIN stack' : stack'[k] = stack[k]
    BY <1>3
  <1>6. stack' \in Seq(ToSet(stack'))
    BY <1>2, <1>3 DEF ToSet
  <1>7. IsSeq(stack')
    BY <1>6 DEF IsSeq
  <1>8. StackOK'
    BY <1>1, <1>2, <1>5, <1>7 DEF StackOK, IsSeq
  <1> QED BY <1>1, <1>2, <1>4, <1>5, <1>8

LEMMA BuiltKeeps ==
  ASSUME TypesOK, HooksOK, HooksGood, UNCHANGED Built PROVE TypesOK' /\ HooksOK' /\ HooksGood'
  <1>1. manifest' = manifest /\ todo' = todo /\ types' = types /\ hooks' = hooks /\ outcome' = outcome
    BY DEF Built
  <1>2. Reasons' <=> Reasons
    BY <1>1, ReasonsSame
  <1>3. TypesOK'
    BY <1>1 DEF TypesOK
  <1>4. HooksOK'
    BY <1>1, <1>2 DEF HooksOK, HooksAre, AllOk
  <1> QED BY <1>3, <1>4, SameGood

\* The calls of its hooks come with an event.
LEMMA HappensHeard ==
  ASSUME TypesOK, HooksOK, HooksGood, NEW e, NEW cs, Happens(e, cs), Heard(e, cs)
  PROVE  TypesOK' /\ HooksOK' /\ HooksGood' /\ Heard(event, calls)'
  <1>1. UNCHANGED Built
    BY HappensKeeps
  <1>2. manifest' = manifest /\ event' = e /\ calls' = cs
    BY <1>1 DEF Happens, Built
  <1>3. Heard(e, cs)'
    BY <1>2, HeardSame
  <1> QED BY <1>1, <1>2, <1>3, BuiltKeeps

LEMMA CallIs ==
  ASSUME RunsOK, NEW m \in DOMAIN Modules, NEW fn \in DOMAIN Params, NEW args,
         args \in [1 .. Params[fn] -> Ints], Call(m, fn, args)
  PROVE  /\ todo = {} /\ fn \in Modules[m].refs /\ args \in Values(fn, "Entry")
         /\ IsFrame([from |-> m, fn |-> fn, args |-> args])
         /\ Happens(FnEvent("Entry", fn, m, args),
                    Run(<<m, fn, "Entry">>, args) \o RunCallee(fn, "Entry", args))
  <1>1. /\ fn \in Modules[m].refs
        /\ Happens(FnEvent("Entry", fn, m, args),
                   Run(<<m, fn, "Entry">>, args) \o RunCallee(fn, "Entry", args))
    BY DEF Call, FnEvent
  <1>2. todo = {}
    BY <1>1 DEF Happens, Running
  <1>3. args \in Values(fn, "Entry")
    BY ProgramAssumption DEF Values
  <1>4. IsFrame([from |-> m, fn |-> fn, args |-> args])
    BY <1>1 DEF IsFrame
  <1> QED BY <1>1, <1>2, <1>3, <1>4

LEMMA ReturnIs ==
  ASSUME RunsOK, NEW ret, Return(ret)
  PROVE  LET f == Last(stack)
             vals == f.args \o ret
         IN /\ todo = {} /\ IsFrame(f) /\ vals \in Values(f.fn, "Exit")
            /\ Happens(FnEvent("Exit", f.fn, f.from, vals),
                       RunCallee(f.fn, "Exit", vals) \o Run(<<f.from, f.fn, "Exit">>, vals))
  <1> DEFINE f == Last(stack)
             vals == f.args \o ret
             n == Params[f.fn]
             j == IF f.fn \in Void THEN 0 ELSE 1
  <1>1. /\ ret \in [1 .. j -> Ints] /\ stack # <<>> /\ stack' = Front(stack)
        /\ Happens(FnEvent("Exit", f.fn, f.from, vals),
                   RunCallee(f.fn, "Exit", vals) \o Run(<<f.from, f.fn, "Exit">>, vals))
    BY DEF Return, FnEvent
  <1>2. todo = {}
    BY <1>1 DEF Happens, Running
  <1>3. IsFrame(f)
    BY <1>1, StackPop DEF RunsOK
  <1>4. f.args \in [1 .. n -> Ints] /\ n \in Nat
    BY <1>3, ProgramAssumption DEF IsFrame
  <1>5. ASSUME NEW p, p \in [1 .. n -> Ints], ret \in [1 .. j -> Ints]
        PROVE  p \o ret \in [1 .. n + j -> Ints]
    <2>1. p \in Seq(Ints) /\ ret \in Seq(Ints) /\ Len(p) = n /\ Len(ret) = j
      BY <1>4, <1>5
    <2>2. j \in Nat
      OBVIOUS
    <2> HIDE DEF n, j
    <2>3. p \o ret \in Seq(Ints) /\ Len(p \o ret) = n + j
      BY <1>4, <2>1, <2>2
    <2>4. ASSUME NEW q \in Seq(Ints) PROVE q \in [1 .. Len(q) -> Ints]
      OBVIOUS
    <2> QED BY <2>3, <2>4
  <1>6. vals \in [1 .. n + j -> Ints]
    BY <1>1, <1>4, <1>5
  <1>7. Values(f.fn, "Exit") = [1 .. n + j -> Ints]
    BY DEF Values
  <1> QED BY <1>1, <1>2, <1>3, <1>6, <1>7

LEMMA AssertionIs ==
  ASSUME NEW a, NEW vals, ReachAssertion(a, vals)
  PROVE  /\ todo = {} /\ a \in DOMAIN Automata /\ a \in UNION {Sites(m) : m \in DOMAIN Modules}
         /\ Happens([what |-> "Assert", automaton |-> a, vals |-> vals],
                    Run(<<"assertion", a, "Reached">>, vals))
         /\ stack' = stack
  <1>1. Happens([what |-> "Assert", automaton |-> a, vals |-> vals],
                Run(<<"assertion", a, "Reached">>, vals))
    BY DEF ReachAssertion
  <1>2. todo = {}
    BY <1>1 DEF Happens, Running
  <1>3. a \in UNION {Sites(m) : m \in DOMAIN Modules} /\ a \in DOMAIN Automata
    BY DEF ReachAssertion
  <1>4. stack' = stack
    BY DEF ReachAssertion
  <1> QED BY <1>1, <1>2, <1>3, <1>4

\* A step of Next, other than to do nothing.
LEMMA RunsStep ==
  ASSUME RunsOK, [Next]_vars PROVE RunsOK'
  <1> USE DEF RunsOK
  <1>1. ASSUME NEW m \in DOMAIN Modules, NEW k \in DOMAIN Passes, Instrument(m, k)
        PROVE  RunsOK'
    <2>1. TypesOK' /\ HooksOK' /\ HooksGood'
      BY <1>1, InstrumentKeeps, InstrumentGood
    <2>2. stack' = stack /\ manifest' = manifest /\ event' = event /\ calls' = calls
      BY <1>1 DEF Instrument
    <2>3. StackOK'
      BY <2>2 DEF StackOK
    <2>4. Heard(event, calls)'
      BY <2>2, HeardSame
    <2> QED BY <2>1, <2>3, <2>4
  <1>2. ASSUME NEW m \in DOMAIN Modules, NEW fn \in DOMAIN Params,
               NEW args \in [1 .. Params[fn] -> Ints], Call(m, fn, args)
        PROVE  RunsOK'
    <2> DEFINE e == FnEvent("Entry", fn, m, args)
               cs == Run(<<m, fn, "Entry">>, args) \o RunCallee(fn, "Entry", args)
    <2>1. /\ todo = {} /\ fn \in Modules[m].refs /\ args \in Values(fn, "Entry")
          /\ IsFrame([from |-> m, fn |-> fn, args |-> args]) /\ Happens(e, cs)
      BY <1>2, CallIs
    <2>2. Exactly(Told(e), cs)
      BY <2>1, FnTold
    <2>3. e.what = "Fn"
      BY DEF FnEvent
    <2> HIDE DEF e, cs
    <2>4. Heard(e, cs)
      BY <2>2, <2>3 DEF Heard
    <2>5. TypesOK' /\ HooksOK' /\ HooksGood' /\ Heard(event, calls)'
      BY <2>1, <2>4, HappensHeard
    <2>6. StackOK'
      BY <1>2, <2>1, StackPush DEF Call
    <2> QED BY <2>5, <2>6
  <1>3. ASSUME NEW ret, Return(ret) PROVE RunsOK'
    <2> DEFINE f == Last(stack)
               vals == f.args \o ret
               e == FnEvent("Exit", f.fn, f.from, vals)
               cs == RunCallee(f.fn, "Exit", vals) \o Run(<<f.from, f.fn, "Exit">>, vals)
    <2>1. todo = {} /\ IsFrame(f) /\ vals \in Values(f.fn, "Exit") /\ Happens(e, cs)
      BY <1>3, ReturnIs
    <2>2. f.from \in DOMAIN Modules /\ f.fn \in Modules[f.from].refs
      BY <2>1 DEF IsFrame
    <2> HIDE DEF f, vals
    <2>3. Exactly(Told(e), cs)
      BY <2>1, <2>2, FnTold
    <2>4. e.what = "Fn"
      BY DEF FnEvent
    <2> HIDE DEF e, cs
    <2>5. Heard(e, cs)
      BY <2>3, <2>4 DEF Heard
    <2>6. TypesOK' /\ HooksOK' /\ HooksGood' /\ Heard(event, calls)'
      BY <2>1, <2>5, HappensHeard
    <2>7. StackOK'
      BY <1>3, StackPop DEF Return
    <2> QED BY <2>6, <2>7
  <1>4. ASSUME NEW m \in DOMAIN Modules, NEW x, NEW s, NEW v, Store(m, x, s, v)
        PROVE  RunsOK'
    <2> DEFINE vals == <<s, v, fields[x.field]>>
               e == [what |-> "Field", access |-> x, field |-> x.field, vals |-> vals]
               cs == IF Instrumented(x) THEN Run(<<m, x.field, "Store">>, vals) ELSE <<>>
    <2>1. Happens(e, cs) /\ stack' = stack
      BY <1>4 DEF Store
    <2>2. e.what = "Field"
      OBVIOUS
    <2> HIDE DEF e, cs
    <2>3. Heard(e, cs)
      BY <2>2 DEF Heard
    <2>4. TypesOK' /\ HooksOK' /\ HooksGood' /\ Heard(event, calls)'
      BY <2>1, <2>3, HappensHeard
    <2>5. StackOK'
      BY <2>1 DEF StackOK
    <2> QED BY <2>4, <2>5
  <1>5. ASSUME NEW a, NEW vals, ReachAssertion(a, vals) PROVE RunsOK'
    <2> DEFINE e == [what |-> "Assert", automaton |-> a, vals |-> vals]
               cs == Run(<<"assertion", a, "Reached">>, vals)
    <2>1. /\ todo = {} /\ a \in DOMAIN Automata /\ a \in UNION {Sites(m) : m \in DOMAIN Modules}
          /\ Happens(e, cs) /\ stack' = stack
      BY <1>5, AssertionIs
    <2>2. Exactly({SiteReport(a, vals)}, cs)
      BY <2>1, SiteTold
    <2>3. e.what = "Assert" /\ e.automaton = a /\ e.vals = vals
      OBVIOUS
    <2> HIDE DEF e, cs
    <2>4. Heard(e, cs)
      BY <2>2, <2>3 DEF Heard
    <2>5. TypesOK' /\ HooksOK' /\ HooksGood' /\ Heard(event, calls)'
      BY <2>1, <2>4, HappensHeard
    <2>6. StackOK'
      BY <2>1 DEF StackOK
    <2> QED BY <2>5, <2>6
  <1>6. ASSUME UNCHANGED vars PROVE RunsOK'
    <2>1. UNCHANGED Built /\ stack' = stack /\ manifest' = manifest /\ event' = event
          /\ calls' = calls
      BY <1>6 DEF vars, Built
    <2>2. TypesOK' /\ HooksOK' /\ HooksGood'
      BY <2>1, BuiltKeeps
    <2>3. StackOK'
      BY <2>1 DEF StackOK
    <2>4. Heard(event, calls)'
      BY <2>1, HeardSame
    <2> QED BY <2>2, <2>3, <2>4
  <1> QED BY <1>1, <1>2, <1>3, <1>4, <1>5, <1>6 DEF Next, Finished

LEMMA RunsInit == ASSUME Init PROVE RunsOK
  <1>1. TypesOK
    BY PassesAre DEF Init, TypesOK
  <1>2. HooksOK
    BY DEF Init, HooksOK, HooksAre, AllOk
  <1>3. StackOK
    BY NoneIsSeq DEF Init, StackOK
  <1>4. Heard(event, calls)
    BY DEF Init, Nothing, Heard
  <1> QED BY <1>1, <1>2, <1>3, <1>4, InitGood DEF RunsOK

(***************************************************************************)
(* Whatever the manifest, the program and what it does: every call and     *)
(* return of a function, and every assertion that is reached, is told to   *)
(* libtesla as exactly the symbols it is an occurrence of, each once and   *)
(* with the variables it names (Spec => []UpdatesAreExact).  The invariant *)
(* is HooksGood: whichever passes are done, in whichever order of the      *)
(* modules, the hooks of a place make the calls of the classes that were   *)
(* given to them, each just if its patterns match.                         *)
(***************************************************************************)
THEOREM HooksTellExactly == Spec => []UpdatesAreExact
  <1>1. Init => RunsOK
    BY RunsInit
  <1>2. RunsOK /\ [Next]_vars => RunsOK'
    BY RunsStep
  <1>3. RunsOK => UpdatesAreExact
    BY HeardIsExact DEF RunsOK, TypesOK
  <1> QED BY <1>1, <1>2, <1>3, PTL DEF Spec

=============================================================================
