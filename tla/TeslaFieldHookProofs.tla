------------------------ MODULE TeslaFieldHookProofs ------------------------
(***************************************************************************)
(* The hooks of fields have a chain of blocks for each automaton, and tell *)
(* each of the first of its symbols that a store is an occurrence of       *)
(* (StoresReachEveryAutomaton).  Then the calls of all hooks are known, and*)
(* with them that lifetimes begin and end where the manifest says          *)
(* (LifetimesFollowBounds).                                                *)
(***************************************************************************)
EXTENDS TeslaHookProofs

-----------------------------------------------------------------------------
(* The chain of an automaton in the hook of a field *)

\* A block put before the end of the chain leaves the end as it is.
LEMMA EndStays ==
  ASSUME NEW h, IsHook(h), NEW i \in 1 .. Len(h.blocks), NEW call,
         h.blocks[i] = Block(NoTest, call, Exit, Exit), NEW j \in 1 .. Len(h.blocks),
         NEW x, IsBlock(x)
  PROVE  LET g == Before(h, j, x)
         IN /\ IsHook(g) /\ Len(g.blocks) = Len(h.blocks) + 1 /\ i \in 1 .. Len(g.blocks)
            /\ g.blocks[i] = Block(NoTest, call, Exit, Exit)
            /\ g.blocks[Len(h.blocks) + 1] = x /\ Len(h.blocks) \in Nat
  <1> DEFINE n == Len(h.blocks)
             g == Before(h, j, x)
  <1>1. /\ n \in Nat /\ IsHook(g) /\ Len(g.blocks) = n + 1
        /\ g.blocks[i] = Branches(h.blocks[i], j, n + 1) /\ g.blocks[n + 1] = x
    BY BeforeIs
  <1>2. To(j, n + 1, Exit) = Exit
    BY <1>1 DEF To, Exit
  <1>3. Branches(Block(NoTest, call, Exit, Exit), j, n + 1) = Block(NoTest, call, Exit, Exit)
    BY <1>2 DEF Branches, Block
  <1>4. i \in 1 .. n + 1
    BY <1>1
  <1> QED BY <1>1, <1>3, <1>4

\* A call is put before the end of a chain: it is made if the end was reached, and
\* then the end is not.
LEMMA ChainCall ==
  ASSUME NEW h, NEW vals, NEW i, NEW pre, NEW A, NEW q,
         Chained(h, vals, i, NoCall, pre, A, q), NEW call
  PROVE  Chained(Before(h, i, Block(NoTest, call, Exit, Exit)), vals, i, NoCall, pre, FALSE,
                 IF A THEN Made(call, vals) ELSE q)
  <1> DEFINE n == Len(h.blocks)
             x == Block(NoTest, call, Exit, Exit)
             g == Before(h, i, x)
             v == Made(call, vals)
  <1>1. IsHook(h) /\ i \in 1 .. n /\ h.blocks[i] = Block(NoTest, NoCall, Exit, Exit)
    BY DEF Chained
  <1>2. IsBlock(x) /\ x.yes = 0 /\ x.no = 0 /\ x.test = NoTest /\ x.call = call
    BY BlockIs DEF Block, Exit
  <1>3. /\ IsHook(g) /\ n \in Nat /\ i \in 1 .. Len(g.blocks)
        /\ g.blocks[i] = Block(NoTest, NoCall, Exit, Exit)
    <2> HIDE DEF x
    <2> QED BY <1>1, <1>2, EndStays
  <1>4. i # 0 /\ 0 \in 0 .. n /\ i \in 0 .. n
    BY <1>1, <1>3
  <1>5. IsSeq(v) /\ v \o <<>> = v /\ Holds(NoTest, vals)
    BY MadeIs, JoinNone DEF Holds, NoTest
  <1> HIDE DEF v
  <1>6. ASSUME NEW w, IsSeq(w)
        PROVE  \E E, p : /\ Wired(g, vals, {i}, E, p) /\ E[i] = w
                         /\ E[g.entry] = pre \o (IF FALSE THEN w ELSE IF A THEN v ELSE q)
    <2>1. PICK D, r : /\ Wired(h, vals, {i}, D, r) /\ D[i] = v
                      /\ D[h.entry] = pre \o (IF A THEN v ELSE q)
      BY <1>5 DEF Chained
    <2>2. D[0] = <<>> /\ DOMAIN D = 0 .. n /\ Ranked(h, r)
      BY <2>1 DEF Wired
    <2>3. r[0] = 0 /\ r[i] \in Nat
      BY <1>4, <2>2 DEF Ranked
    <2> DEFINE W == [D EXCEPT ![i] = w]
    <2>4. W[0] = <<>>
      BY <1>4, <2>2
    <2> HIDE DEF W
    <2>5. From(x, vals, W) = v
      BY <1>2, <1>5, <2>4 DEF From, v
    <2>6. Opened(h, i, x, vals, {i}, D, r, w)
      <3>1. /\ D[i] = From(x, vals, W) /\ r[x.yes] <= r[i] /\ r[x.no] <= r[i]
            /\ x.yes \in 0 .. n /\ x.no \in 0 .. n /\ i \in {i}
        BY <1>2, <1>4, <2>1, <2>3, <2>5
      <3> HIDE DEF x
      <3> QED BY <1>1, <1>2, <1>6, <2>1, <3>1, PutBefore DEF W
    <2>7. PICK E, p : Wired(g, vals, {i}, E, p) /\ E[g.entry] = D[h.entry] /\ E[i] = w
      BY <2>6 DEF Opened
    <2> QED BY <2>1, <2>7
  <1> HIDE DEF g, x
  <1>7. Chained(g, vals, i, NoCall, pre, FALSE, IF A THEN v ELSE q)
    BY <1>3, <1>6 DEF Chained
  <1> QED BY <1>7 DEF g, x, v

\* So is a call with a test before it, which goes on to the end if it fails.
LEMMA ChainTried ==
  ASSUME NEW h, NEW vals, NEW i, NEW pre, NEW A, NEW q,
         Chained(h, vals, i, NoCall, pre, A, q), NEW call, NEW t
  PROVE  LET j == Len(h.blocks) + 1
             g == Before(h, i, Block(NoTest, call, Exit, Exit))
         IN Chained(Before(g, j, Block(t, NoCall, j, i)), vals, i, NoCall, pre,
                    A /\ ~Holds(t, vals), IF A /\ Holds(t, vals) THEN Made(call, vals) ELSE q)
  <1> DEFINE n == Len(h.blocks)
             j == n + 1
             x == Block(NoTest, call, Exit, Exit)
             g == Before(h, i, x)
             y == Block(t, NoCall, j, i)
             f == Before(g, j, y)
             v == Made(call, vals)
             ok == Holds(t, vals)
             H == {i, j}
  <1>1. IsHook(h) /\ i \in 1 .. n /\ h.blocks[i] = Block(NoTest, NoCall, Exit, Exit)
    BY DEF Chained
  <1>2. IsBlock(x) /\ x.yes = 0 /\ x.no = 0 /\ x.test = NoTest /\ x.call = call
    BY BlockIs DEF Block, Exit
  <1>3. /\ IsHook(g) /\ n \in Nat /\ i \in 1 .. n + 1 /\ Len(g.blocks) = n + 1
        /\ g.blocks[i] = Block(NoTest, NoCall, Exit, Exit) /\ g.blocks[j] = x
    <2> HIDE DEF x
    <2> QED BY <1>1, <1>2, EndStays
  <1>4. i # 0 /\ i # j /\ j # 0 /\ 0 \in 0 .. n /\ i \in 0 .. n /\ i \in Nat /\ j \in Nat
        /\ j \in 1 .. n + 1 /\ j \in 0 .. n + 1 /\ i \in 0 .. n + 1 /\ 0 \in 0 .. n + 1
    BY <1>1, <1>3
  <1>5. IsBlock(y) /\ y.yes = j /\ y.no = i /\ y.test = t /\ y.call = NoCall
    BY <1>4, BlockIs DEF Block
  <1> HIDE DEF y, g
  <1>6. /\ IsHook(f) /\ i \in 1 .. Len(f.blocks) /\ Len(f.blocks) = n + 2
        /\ f.blocks[i] = Block(NoTest, NoCall, Exit, Exit) /\ f.blocks[j] = x
    <2>1. i \in 1 .. Len(g.blocks) /\ j \in 1 .. Len(g.blocks)
      BY <1>3, <1>4
    <2> HIDE DEF j
    <2>2. /\ IsHook(f) /\ Len(f.blocks) = Len(g.blocks) + 1 /\ i \in 1 .. Len(f.blocks)
          /\ f.blocks[i] = Block(NoTest, NoCall, Exit, Exit)
      <3>1. IsHook(g) /\ g.blocks[i] = Block(NoTest, NoCall, Exit, Exit) /\ IsBlock(y)
        BY <1>3, <1>5
      <3> HIDE DEF f
      <3> QED BY ONLY <2>1, <3>1, EndStays DEF f
    <2>3. f.blocks[j] = Block(NoTest, call, Exit, Exit)
      BY <1>3, <1>5, <2>1, EndStays
    <2>4. (n + 1) + 1 = n + 2
      BY <1>3
    <2> QED BY <1>3, <2>2, <2>3, <2>4
  <1>7. IsSeq(v) /\ v \o <<>> = v /\ Holds(NoTest, vals) /\ Made(NoCall, vals) = <<>>
    BY MadeIs, JoinNone DEF Holds, NoTest, Made, NoCall
  <1>8. <<>> \o v = v
    BY <1>7, JoinNone
  <1> HIDE DEF v, f, ok
  <1>9. ASSUME NEW w, IsSeq(w)
        PROVE  \E E, p : /\ Wired(f, vals, {i}, E, p) /\ E[i] = w
                         /\ E[f.entry] = pre \o (IF A /\ ~ok THEN w ELSE IF A /\ ok THEN v ELSE q)
    <2> DEFINE u == IF ok THEN v ELSE w
    <2>1. IsSeq(u)
      BY <1>7, <1>9
    <2>2. PICK D, r : /\ Wired(h, vals, {i}, D, r) /\ D[i] = u
                      /\ D[h.entry] = pre \o (IF A THEN u ELSE q)
      <3> HIDE DEF u
      <3> QED BY <2>1 DEF Chained
    <2>3. D[0] = <<>> /\ DOMAIN D = 0 .. n /\ Ranked(h, r) /\ Wired(h, vals, H, D, r)
      BY <2>2 DEF Wired
    <2>4. r[0] = 0 /\ r[i] \in Nat
      BY <1>4, <2>3 DEF Ranked
    <2> HIDE DEF u
    <2> DEFINE s == Raised(r, i, n)
    <2>5. Opened(h, i, x, vals, H, D, r, w)
      <3>1. /\ r[x.yes] <= r[i] /\ r[x.no] <= r[i]
            /\ x.yes \in 0 .. n /\ x.no \in 0 .. n /\ i \in H /\ Len(h.blocks) + 1 \in H
        BY <1>2, <1>4, <2>4
      <3> HIDE DEF x, H
      <3> QED BY <1>1, <1>2, <1>9, <2>3, <3>1, PutBefore
    <2>6. PICK F : /\ Wired(g, vals, H, F, s) /\ F[g.entry] = D[h.entry]
                   /\ F[i] = w /\ F[j] = u
      BY <2>2, <2>5 DEF Opened, g
    <2>7. s[j] \in Nat /\ s[i] <= s[j]
      <3>1. s[j] = r[i] + 1
        BY <1>4 DEF Raised
      <3>2. s[i] = r[i]
        <4>1. s[i] = IF i = n + 1 THEN r[i] + 1 ELSE IF r[i] > r[i] THEN r[i] + 1 ELSE r[i]
          BY <1>4 DEF Raised
        <4>2. ~(r[i] > r[i])
          BY <2>4
        <4> QED BY <1>4, <4>1, <4>2
      <3> HIDE DEF s
      <3> QED BY <2>4, <3>1, <3>2
    <2> HIDE DEF s
    <2>8. DOMAIN F = 0 .. n + 1 /\ F[0] = <<>>
      BY <1>3, <2>6 DEF Wired
    <2> DEFINE W == [F EXCEPT ![j] = v]
    <2>9. W[j] = v /\ W[i] = w
      BY <1>4, <2>6, <2>8
    <2> HIDE DEF W
    <2>10. From(y, vals, W) = u
      BY <1>5, <1>7, <1>8, <2>9 DEF From, u, ok
    <2>11. Opened(g, j, y, vals, H, F, s, v)
      <3>1. /\ F[j] = From(y, vals, W) /\ s[y.yes] <= s[j] /\ s[y.no] <= s[j]
            /\ y.yes \in 0 .. Len(g.blocks) /\ y.no \in 0 .. Len(g.blocks) /\ j \in H
            /\ j \in 1 .. Len(g.blocks)
        BY <1>3, <1>4, <1>5, <2>6, <2>7, <2>10
      <3> HIDE DEF j, H
      <3> QED BY <1>3, <1>5, <1>7, <2>6, <3>1, PutBefore DEF W
    <2>12. PICK E : /\ Wired(f, vals, H, E, Raised(s, j, n + 1)) /\ E[f.entry] = F[g.entry]
                    /\ E[j] = v /\ E[i] = w
      <3>1. Len(g.blocks) = n + 1
        BY <1>3
      <3>2. \E E : /\ Wired(f, vals, H, E, Raised(s, j, n + 1)) /\ E[f.entry] = F[g.entry]
                   /\ E[j] = v
                   /\ \A b \in 0 .. n + 1 : b # j => E[b] = F[b]
        BY <2>11, <3>1 DEF Opened, f
      <3> QED BY <1>4, <2>6, <3>2
    <2>13. E[0] = <<>>
      BY <2>12 DEF Wired
    <2>14. E[j] = From(f.blocks[j], vals, E)
      BY <1>2, <1>6, <1>7, <2>12, <2>13 DEF From, v
    <2>15. Wired(f, vals, {i}, E, Raised(s, j, n + 1))
      BY <2>12, <2>14 DEF Wired
    <2>16. (IF A THEN u ELSE q) = IF A /\ ~ok THEN w ELSE IF A /\ ok THEN v ELSE q
      BY DEF u
    <2> QED BY <2>2, <2>6, <2>12, <2>15, <2>16
  <1> HIDE DEF x, j
  <1>10. Chained(f, vals, i, NoCall, pre, A /\ ~ok, IF A /\ ok THEN v ELSE q)
    BY <1>6, <1>9 DEF Chained
  <1> QED BY <1>10 DEF f, g, y, x, j, v, ok

\* The names of blocks and whether the hook is of use do not matter.
LEMMA ChainedAnyway ==
  ASSUME NEW h, NEW g, IsHook(g), g.entry = h.entry, g.blocks = h.blocks,
         NEW vals, NEW i, NEW call, NEW pre, NEW A, NEW q, Chained(h, vals, i, call, pre, A, q)
  PROVE  Chained(g, vals, i, call, pre, A, q)
  <1>1. \A H, D, r : Wired(h, vals, H, D, r) => Wired(g, vals, H, D, r)
    BY DEF Wired, Ranked
  <1>2. /\ i \in 1 .. Len(g.blocks) /\ g.blocks[i] = Block(NoTest, call, Exit, Exit)
    BY DEF Chained
  <1>3. ASSUME NEW v, IsSeq(v)
        PROVE  \E D, r : /\ Wired(g, vals, {i}, D, r) /\ D[i] = v
                         /\ D[g.entry] = pre \o (IF A THEN v ELSE q)
    <2>1. PICK D, r : /\ Wired(h, vals, {i}, D, r) /\ D[i] = v
                      /\ D[h.entry] = pre \o (IF A THEN v ELSE q)
      BY <1>3 DEF Chained
    <2> QED BY <1>1, <2>1
  <1> QED BY <1>2, <1>3 DEF Chained

FieldCall(c) == [Update(c[1], c[2], <<>>, FALSE, {}) EXCEPT !.key = FieldKey(EventOf(c))]
FieldTest(e) == [match |-> e.how, param |-> 2, value |-> Trunc(e.value.value)]
Hits(c, vals) ==
  EventOf(c).value.type = "Constant" => Holds(FieldTest(EventOf(c)), vals)
FieldSaid(c, vals) == Report(c, ConstructKey(FieldCall(c), vals), {})

LEMMA FieldMade ==
  ASSUME NEW c, NEW vals PROVE Made(FieldCall(c), vals) = <<FieldSaid(c, vals)>>
  <1> DEFINE u == FieldCall(c)
  <1>1. u.fn = "update_state" /\ u.automaton = c[1] /\ u.symbol = c[2] /\ u.free = {}
    BY DEF FieldCall, Update
  <1> HIDE DEF u
  <1>2. Made(u, vals) = <<Report(c, ConstructKey(u, vals), {})>>
    BY <1>1 DEF Made, Report
  <1> QED BY <1>2 DEF u, FieldSaid

LEMMA ChainedAlso ==
  ASSUME NEW h, NEW vals, NEW i, NEW call, NEW pre, NEW A, NEW q,
         Chained(h, vals, i, call, pre, A, q), NEW B, NEW p, A <=> B, ~B => p = q
  PROVE  Chained(h, vals, i, call, pre, B, p)
  <1>1. ASSUME NEW v, IsSeq(v)
        PROVE  \E D, r : /\ Wired(h, vals, {i}, D, r) /\ D[i] = v
                         /\ D[h.entry] = pre \o (IF B THEN v ELSE p)
    <2>1. PICK D, r : /\ Wired(h, vals, {i}, D, r) /\ D[i] = v
                      /\ D[h.entry] = pre \o (IF A THEN v ELSE q)
      BY <1>1 DEF Chained
    <2>2. (IF B THEN v ELSE p) = (IF A THEN v ELSE q)
      OBVIOUS
    <2> QED BY <2>1, <2>2
  <1> QED BY <1>1 DEF Chained

\* The chain of the class's automaton is made longer.
LEMMA AppendChain ==
  ASSUME NEW h, IsHook(h), NEW c, NEW vals, NEW pre, NEW A, NEW q,
         Chained(NextInstrBlock(h, c[1]), vals, NextInstrBlock(h, c[1]).ends[c[1]], NoCall,
                 pre, A, q)
  PROVE  LET g == NextInstrBlock(h, c[1])
             f == AppendInstrumentation(h, c)
         IN /\ f.ends = g.ends
            /\ Chained(f, vals, g.ends[c[1]], NoCall, pre, A /\ ~Hits(c, vals),
                       IF A /\ Hits(c, vals) THEN <<FieldSaid(c, vals)>> ELSE q)
  <1> DEFINE e == EventOf(c)
             g == NextInstrBlock(h, c[1])
             okay == g.ok /\ \/ e.value.type = "Variable"
                             \/ e.value.type = "Constant" /\ <<e.field, 2>> \notin Pointers
             g0 == [g EXCEPT !.ok = okay]
             i == g.ends[c[1]]
             j == Len(g0.blocks) + 1
             b1 == Block(NoTest, FieldCall(c), Exit, Exit)
             g1 == Before(g0, i, b1)
             b2 == Block(FieldTest(e), NoCall, j, i)
             g2 == Before(g1, j, b2)
  <1>1. IsHook(g) /\ c[1] \in DOMAIN g.ends
    BY AppendedIs
  <1>2. AppendInstrumentation(h, c) =
          LET k == g0.ends[c[1]]
              l == Before(g0, k, b1)
          IN IF e.value.type # "Constant" THEN l
             ELSE Before(l, j, Block(FieldTest(e), NoCall, j, k))
    BY DEF AppendInstrumentation, FieldTest, FieldCall
  <1> HIDE DEF g, b1, b2
  <1>3. g0.ends = g.ends /\ g0.entry = g.entry /\ g0.blocks = g.blocks /\ IsHook(g0)
    <2>1. okay \in BOOLEAN
      BY <1>1 DEF IsHook
    <2> HIDE DEF okay
    <2>2. g0 = [entry |-> g.entry, blocks |-> g.blocks, ends |-> g.ends, ok |-> okay]
      BY <1>1 DEF IsHook
    <2> HIDE DEF g0
    <2> QED BY <1>1, <2>1, <2>2 DEF IsHook
  <1> HIDE DEF g0
  <1>4. AppendInstrumentation(h, c) = IF e.value.type # "Constant" THEN g1 ELSE g2
    BY <1>2, <1>3 DEF b2
  <1>5. Chained(g0, vals, i, NoCall, pre, A, q)
    <2>1. Chained(g, vals, i, NoCall, pre, A, q)
      BY DEF g
    <2> HIDE DEF i
    <2> QED BY <1>3, <2>1, ChainedAnyway
  <1>6. IsBlock(b1)
    BY BlockIs DEF b1, Exit
  <1>7. i \in Nat
    BY <1>1 DEF IsHook
  <1> HIDE DEF i
  <1>8. IsHook(g1) /\ g1.ends = g.ends /\ j \in Nat
    <2>1. IsHook(g1) /\ g1.ends = g0.ends /\ Len(g0.blocks) \in Nat
      BY <1>3, <1>6, BeforeIs
    <2> QED BY <1>3, <2>1
  <1>9. IsBlock(b2)
    BY <1>7, <1>8, BlockIs DEF b2
  <1>10. g2.ends = g.ends
    <2>1. g2.ends = g1.ends
      <3> HIDE DEF j, g1
      <3> QED BY <1>8, <1>9, BeforeIs
    <2> QED BY <1>8, <2>1
  <1> DEFINE v == Made(FieldCall(c), vals)
  <1>11. v = <<FieldSaid(c, vals)>>
    BY FieldMade
  <1>12. CASE e.value.type # "Constant"
    <2>1. Chained(g1, vals, i, NoCall, pre, FALSE, IF A THEN v ELSE q)
      BY <1>5, ChainCall DEF b1
    <2>2. Hits(c, vals)
      BY <1>12 DEF Hits
    <2> HIDE DEF g1, v
    <2>3. Chained(g1, vals, i, NoCall, pre, A /\ ~Hits(c, vals),
                  IF A /\ Hits(c, vals) THEN v ELSE q)
      BY <2>1, <2>2
    <2> QED BY <1>4, <1>8, <1>11, <1>12, <2>3 DEF i, g
  <1>13. CASE e.value.type = "Constant"
    <2> DEFINE ok == Holds(FieldTest(e), vals)
    <2>1. Chained(g2, vals, i, NoCall, pre, A /\ ~ok, IF A /\ ok THEN v ELSE q)
      BY <1>5, ChainTried DEF b1, b2
    <2>2. Hits(c, vals) <=> ok
      BY <1>13 DEF Hits
    <2> HIDE DEF g2, v, ok
    <2>3. Chained(g2, vals, i, NoCall, pre, A /\ ~Hits(c, vals),
                  IF A /\ Hits(c, vals) THEN v ELSE q)
      <3>1. (A /\ ~ok) <=> (A /\ ~Hits(c, vals))
        BY <2>2
      <3>2. (IF A /\ Hits(c, vals) THEN v ELSE q) = IF A /\ ok THEN v ELSE q
        BY <2>2
      <3> QED BY <2>1, <3>1, <3>2, ChainedAlso
    <2> QED BY <1>4, <1>10, <1>11, <1>13, <2>3 DEF i, g
  <1> QED BY <1>12, <1>13

-----------------------------------------------------------------------------
(* What the hook of a field says of the classes of P *)

Of(P, a) == {c \in P : c[1] = a}
Others(P, a) == {c \in P : c[1] # a}
Missed(P, vals) == \A c \in P : ~Hits(c, vals)

\* The first class of each automaton that is hit.
Firsts(P, vals) ==
  {c \in P : Hits(c, vals) /\ \A d \in P : d[1] = c[1] /\ Hits(d, vals) => c[2] <= d[2]}
Firstly(P, vals) == {FieldSaid(c, vals) : c \in Firsts(P, vals)}

\* Of all but printf, these calls are made.
Makes(q, T) ==
  IsSeq(q) /\ \A x : x # [fn |-> "printf"] => Times(q, x) = IF x \in T THEN 1 ELSE 0

Chain(h, vals, P, a) ==
  \E pre, q : /\ Chained(h, vals, h.ends[a], NoCall, pre, Missed(Of(P, a), vals), q)
              /\ Makes(pre, Firstly(Others(P, a), vals))
              /\ ~Missed(Of(P, a), vals) => Makes(q, Firstly(Of(P, a), vals))

Telling(h, vals, T) == \E out : Says(h, vals, out) /\ Makes(out, T)

IsLast(P, a) == (\E c \in P : c[1] = a) /\ \A c \in P : c[1] <= a

FieldGood(h, P) ==
  /\ IsHook(h) /\ (h.ok => \A c \in P : Supported(c))
  /\ \A a : a \in DOMAIN h.ends <=> \E c \in P : c[1] = a
  /\ P = {} => \A vals : Telling(h, vals, {})
  /\ P # {} => \E a : IsLast(P, a)
  /\ \A a : IsLast(P, a) => \A vals : Chain(h, vals, P, a)

\* The firsts of one automaton do not depend on the others.
LEMMA FirstsOf ==
  ASSUME NEW P, NEW a, NEW vals
  PROVE  /\ Firstly(P, vals) = Firstly(Others(P, a), vals) \cup Firstly(Of(P, a), vals)
         /\ Missed(Of(P, a), vals) => Firstly(Of(P, a), vals) = {}
         /\ Firstly(Others(P, a), vals) \cap Firstly(Of(P, a), vals) = {}
  <1>1. \A c \in P : c[1] = a => (c \in Firsts(P, vals) <=> c \in Firsts(Of(P, a), vals))
    BY DEF Firsts, Of
  <1>2. \A c \in P : c[1] # a => (c \in Firsts(P, vals) <=> c \in Firsts(Others(P, a), vals))
    BY DEF Firsts, Others
  <1>3. /\ Firsts(P, vals) \subseteq P /\ Firsts(Of(P, a), vals) \subseteq Of(P, a)
        /\ Firsts(Others(P, a), vals) \subseteq Others(P, a)
    BY DEF Firsts
  <1>4. \A c : c \in Firsts(P, vals) <=>
                 c \in Firsts(Others(P, a), vals) \/ c \in Firsts(Of(P, a), vals)
    BY <1>1, <1>2, <1>3 DEF Of, Others
  <1>5. Firstly(P, vals) = Firstly(Others(P, a), vals) \cup Firstly(Of(P, a), vals)
    BY <1>4 DEF Firstly
  <1>6. Missed(Of(P, a), vals) => Firstly(Of(P, a), vals) = {}
    BY DEF Missed, Firstly, Firsts
  <1>7. ASSUME NEW c \in Others(P, a), NEW d \in Of(P, a), FieldSaid(c, vals) = FieldSaid(d, vals)
        PROVE  FALSE
    <2>1. c[1] = d[1]
      BY <1>7, ReportIs DEF FieldSaid
    <2> QED BY <2>1 DEF Of, Others
  <1>8. Firstly(Others(P, a), vals) \cap Firstly(Of(P, a), vals) = {}
    BY <1>3, <1>7 DEF Firstly
  <1> QED BY <1>5, <1>6, <1>8

LEMMA MakesNone == Makes(<<>>, {})
  BY NoneIsSeq, TimesOfNone DEF Makes

LEMMA MakesOne == ASSUME NEW y PROVE Makes(<<y>>, {y})
  BY TimesOfOne DEF Makes

LEMMA MakesBoth ==
  ASSUME NEW p, NEW q, NEW S, NEW T, Makes(p, S), Makes(q, T), S \cap T = {}
  PROVE  Makes(p \o q, S \cup T)
  <1>1. IsSeq(p \o q)
    BY Joined DEF Makes
  <1>2. \A x : Times(p \o q, x) = Times(p, x) + Times(q, x)
    BY TimesJoined DEF Makes
  <1>3. ASSUME NEW x, x # [fn |-> "printf"]
        PROVE  Times(p \o q, x) = IF x \in S \cup T THEN 1 ELSE 0
    BY <1>2, <1>3 DEF Makes
  <1> QED BY <1>1, <1>3 DEF Makes

\* A chain has an end, and what it says is known.
LEMMA ChainTells ==
  ASSUME NEW h, NEW vals, NEW P, NEW a, Chain(h, vals, P, a)
  PROVE  Telling(h, vals, Firstly(P, vals))
  <1> DEFINE A == Missed(Of(P, a), vals)
             S == Firstly(Others(P, a), vals)
             T == Firstly(Of(P, a), vals)
  <1>1. PICK pre, q : /\ Chained(h, vals, h.ends[a], NoCall, pre, A, q) /\ Makes(pre, S)
                      /\ ~A => Makes(q, T)
    BY DEF Chain
  <1>2. Firstly(P, vals) = S \cup T /\ (A => T = {}) /\ S \cap T = {}
    BY FirstsOf
  <1> HIDE DEF A, S, T
  <1> DEFINE r == IF A THEN Made(NoCall, vals) ELSE q
  <1>3. Says(h, vals, pre \o r)
    BY <1>1, ChainEnd
  <1>4. Makes(r, T)
    <2>1. Made(NoCall, vals) = <<>>
      BY DEF Made, NoCall
    <2> QED BY <1>1, <1>2, <2>1, MakesNone
  <1> HIDE DEF r
  <1>5. Makes(pre \o r, S \cup T)
    BY <1>1, <1>2, <1>4, MakesBoth
  <1> QED BY <1>2, <1>3, <1>5 DEF Telling

LEMMA FieldTells ==
  ASSUME NEW h, NEW P, FieldGood(h, P), NEW vals
  PROVE  Telling(h, vals, Firstly(P, vals))
  <1>1. CASE P = {}
    <2>1. Firstly(P, vals) = {}
      BY <1>1 DEF Firstly, Firsts
    <2> QED BY <1>1, <2>1 DEF FieldGood
  <1>2. CASE P # {}
    <2>1. PICK a : IsLast(P, a)
      BY <1>2 DEF FieldGood
    <2>2. Chain(h, vals, P, a)
      BY <2>1 DEF FieldGood
    <2> QED BY <2>2, ChainTells
  <1> QED BY <1>1, <1>2

\* The automaton's chain, which may be new.
LEMMA NextChain ==
  ASSUME NEW h, NEW P, FieldGood(h, P), NEW a, \A d \in P : d[1] <= a, NEW vals
  PROVE  Chain(NextInstrBlock(h, a), vals, P, a)
  <1> DEFINE g == NextInstrBlock(h, a)
  <1>1. CASE a \in DOMAIN h.ends
    <2>1. g = h
      BY <1>1 DEF NextInstrBlock
    <2>2. IsLast(P, a)
      BY <1>1 DEF FieldGood, IsLast
    <2> QED BY <2>1, <2>2 DEF FieldGood
  <1>2. CASE a \notin DOMAIN h.ends
    <2> DEFINE nop == Block(NoTest, NoCall, Exit, Exit)
               f == Before(h, Exit, nop)
               i == Len(h.blocks) + 1
               ends == Put(f.ends, a, i)
    <2>1. IsHook(h)
      BY DEF FieldGood
    <2>2. IsBlock(nop)
      BY BlockIs DEF Exit
    <2>3. IsHook(f) /\ i \in Nat
      BY <2>1, <2>2, BeforeIs
    <2>4. g = [f EXCEPT !.ends = ends]
      BY <1>2 DEF NextInstrBlock
    <2>5. ends[a] = i /\ \A b \in DOMAIN ends : ends[b] \in Nat
      BY <2>3 DEF Put, IsHook
    <2> HIDE DEF ends
    <2>6. PICK out : Says(h, vals, out) /\ Makes(out, Firstly(P, vals))
      BY FieldTells DEF Telling
    <2>7. Chained(f, vals, i, NoCall, out, TRUE, <<>>)
      BY <2>6, ChainStart
    <2> HIDE DEF f, i, g
    <2>8. g = [entry |-> f.entry, blocks |-> f.blocks, ends |-> ends, ok |-> f.ok]
      BY <2>3, <2>4 DEF IsHook
    <2>9. g.entry = f.entry /\ g.blocks = f.blocks /\ g.ends[a] = i
      BY <2>5, <2>8
    <2>10. IsHook(g)
      BY <2>3, <2>5, <2>8 DEF IsHook
    <2>11. Of(P, a) = {} /\ Others(P, a) = P
      BY <1>2 DEF FieldGood, Of, Others
    <2>12. Missed(Of(P, a), vals)
      BY <2>11 DEF Missed
    <2>13. Chained(g, vals, g.ends[a], NoCall, out, TRUE, <<>>)
      BY <2>7, <2>9, <2>10, ChainedAnyway
    <2>14. Chained(g, vals, g.ends[a], NoCall, out, Missed(Of(P, a), vals), <<>>)
      BY <2>12, <2>13, ChainedAlso
    <2>15. Makes(out, Firstly(Others(P, a), vals))
      BY <2>6, <2>11
    <2>16. Chain(g, vals, P, a)
      BY <2>12, <2>14, <2>15 DEF Chain
    <2> QED BY <2>16 DEF g
  <1> QED BY <1>1, <1>2

Comes(d, c) == d[1] < c[1] \/ (d[1] = c[1] /\ d[2] < c[2])

LEMMA ChainMore ==
  ASSUME NEW h, IsHook(h), NEW P, NEW c, NEW vals, c[1] \in Nat, c[2] \in Nat,
         \A d \in P : d[1] \in Nat /\ d[2] \in Nat /\ Comes(d, c),
         Chain(NextInstrBlock(h, c[1]), vals, P, c[1])
  PROVE  Chain(AppendInstrumentation(h, c), vals, P \cup {c}, c[1])
  <1> DEFINE a == c[1]
             Q == P \cup {c}
             g == NextInstrBlock(h, a)
             f == AppendInstrumentation(h, c)
             A == Missed(Of(P, a), vals)
             B == Missed(Of(Q, a), vals)
             hit == Hits(c, vals)
  <1>1. PICK pre, q : /\ Chained(g, vals, g.ends[a], NoCall, pre, A, q)
                      /\ Makes(pre, Firstly(Others(P, a), vals))
                      /\ ~A => Makes(q, Firstly(Of(P, a), vals))
    BY DEF Chain
  <1> DEFINE p == IF A /\ hit THEN <<FieldSaid(c, vals)>> ELSE q
  <1>2. f.ends = g.ends /\ Chained(f, vals, g.ends[a], NoCall, pre, A /\ ~hit, p)
    <2> HIDE DEF A
    <2> QED BY <1>1, AppendChain
  <1>3. Of(Q, a) = Of(P, a) \cup {c} /\ Others(Q, a) = Others(P, a)
    BY DEF Of, Others
  <1>4. (A /\ ~hit) <=> B
    BY <1>3 DEF Missed
  <1>5. Chained(f, vals, f.ends[a], NoCall, pre, B, p)
    <2> HIDE DEF f, g, A, B, hit, p
    <2> QED BY <1>2, <1>4, ChainedAlso
  <1>6. ASSUME ~B PROVE Makes(p, Firstly(Of(Q, a), vals))
    <2>1. \A d \in Of(P, a) : d[2] < c[2] /\ d[1] = a /\ d[2] \in Nat
      BY DEF Of, Comes
    <2>2. CASE A /\ hit
      <3>1. Firsts(Of(Q, a), vals) = {c}
        <4>1. \A d \in Of(Q, a) : Hits(d, vals) <=> d = c
          BY <1>3, <2>2 DEF Missed
        <4>2. c \in Of(Q, a) /\ c[2] <= c[2]
          BY <1>3
        <4> HIDE DEF Q, hit
        <4> QED BY <4>1, <4>2 DEF Firsts
      <3>2. Firstly(Of(Q, a), vals) = {FieldSaid(c, vals)}
        BY <3>1 DEF Firstly
      <3> QED BY <2>2, <3>2, MakesOne
    <2>3. CASE ~A
      <3>1. PICK d \in Of(P, a) : Hits(d, vals)
        BY <2>3 DEF Missed
      <3>2. c \notin Firsts(Of(Q, a), vals)
        <4>1. d \in Of(Q, a) /\ d[1] = c[1] /\ d[2] < c[2] /\ d[2] \in Nat
          BY <1>3, <2>1
        <4>2. ~(c[2] <= d[2])
          BY <4>1
        <4> QED BY <3>1, <4>1, <4>2 DEF Firsts
      <3>3. \A x \in Of(P, a) : x[2] <= c[2]
        BY <2>1
      <3>4. \A x \in Of(P, a) : x \in Firsts(Of(Q, a), vals) <=> x \in Firsts(Of(P, a), vals)
        BY <1>3, <3>3 DEF Firsts
      <3>5. Firsts(Of(Q, a), vals) = Firsts(Of(P, a), vals)
        <4>1. Firsts(Of(Q, a), vals) \subseteq Of(P, a) \cup {c}
          BY <1>3 DEF Firsts
        <4>2. Firsts(Of(P, a), vals) \subseteq Of(P, a)
          BY DEF Firsts
        <4> QED BY <3>2, <3>4, <4>1, <4>2
      <3>6. Firstly(Of(Q, a), vals) = Firstly(Of(P, a), vals)
        BY <3>5 DEF Firstly
      <3> QED BY <1>1, <2>3, <3>6
    <2> QED BY <1>4, <1>6, <2>2, <2>3
  <1> HIDE DEF f, p
  <1>7. Chain(f, vals, Q, a)
    BY <1>1, <1>3, <1>5, <1>6 DEF Chain
  <1> QED BY <1>7 DEF f

LEMMA FieldMore ==
  ASSUME NEW h, NEW P, FieldGood(h, P), NEW c, c[1] \in Nat, c[2] \in Nat,
         \A d \in P : d[1] \in Nat /\ d[2] \in Nat /\ Comes(d, c)
  PROVE  FieldGood(AppendInstrumentation(h, c), P \cup {c})
  <1> DEFINE a == c[1]
             Q == P \cup {c}
             g == NextInstrBlock(h, a)
             f == AppendInstrumentation(h, c)
  <1>1. IsHook(h) /\ \A b : b \in DOMAIN h.ends <=> \E d \in P : d[1] = b
    BY DEF FieldGood
  <1>2. \A d \in P : d[1] <= a
    BY DEF Comes
  <1>3. ASSUME NEW vals PROVE Chain(g, vals, P, a)
    BY <1>2, NextChain
  <1>4. ASSUME NEW vals PROVE Chain(f, vals, Q, a)
    <2> HIDE DEF g, f, Q
    <2> QED BY <1>1, <1>3, ChainMore DEF g, f, Q
  <1>5. IsHook(f) /\ f.ok = (h.ok /\ Supported(c))
    BY <1>1, AppendedIs
  <1>6. f.ends = g.ends
    <2> DEFINE A == Missed(Of(P, a), <<>>)
    <2>1. PICK pre, q : Chained(g, <<>>, g.ends[a], NoCall, pre, A, q)
      BY <1>3 DEF Chain
    <2> HIDE DEF A
    <2> QED BY <1>1, <2>1, AppendChain
  <1>7. DOMAIN g.ends = DOMAIN h.ends \cup {a}
    <2>1. CASE a \in DOMAIN h.ends
      BY <2>1 DEF NextInstrBlock
    <2>2. CASE a \notin DOMAIN h.ends
      <3> DEFINE nop == Block(NoTest, NoCall, Exit, Exit)
                 k == Before(h, Exit, nop)
                 ends == Put(k.ends, a, Len(h.blocks) + 1)
      <3>1. IsBlock(nop)
        BY BlockIs DEF Exit
      <3>2. IsHook(k) /\ k.ends = h.ends
        BY <1>1, <3>1, BeforeIs
      <3>3. g = [k EXCEPT !.ends = ends]
        BY <2>2 DEF NextInstrBlock
      <3>4. DOMAIN ends = DOMAIN h.ends \cup {a}
        BY <3>2 DEF Put
      <3> HIDE DEF k, ends, g
      <3>5. k = [entry |-> k.entry, blocks |-> k.blocks, ends |-> k.ends, ok |-> k.ok]
        BY <3>2 DEF IsHook
      <3>6. g.ends = ends
        BY <3>3, <3>5
      <3> QED BY <3>4, <3>6
    <2> QED BY <2>1, <2>2
  <1> HIDE DEF f, g
  <1>8. \A b : b \in DOMAIN f.ends <=> \E d \in Q : d[1] = b
    BY <1>1, <1>6, <1>7
  <1>9. IsLast(Q, a)
    BY <1>2 DEF IsLast
  <1>10. ASSUME NEW b, IsLast(Q, b) PROVE b = a
    <2>1. PICK d \in Q : d[1] = b
      BY <1>10 DEF IsLast
    <2>2. d[1] \in Nat /\ d[1] <= a
      BY <1>2
    <2>3. a <= b
      BY <1>10 DEF IsLast
    <2> QED BY <2>1, <2>2, <2>3
  <1>11. f.ok => \A d \in Q : Supported(d)
    BY <1>5 DEF FieldGood, IsHook
  <1>12. FieldGood(f, Q)
    <2>1. Q # {} /\ \E b : IsLast(Q, b)
      BY <1>9
    <2>2. \A b : IsLast(Q, b) => \A vals : Chain(f, vals, Q, b)
      BY <1>4, <1>10
    <2> HIDE DEF Q
    <2> QED BY <1>5, <1>8, <1>11, <2>1, <2>2 DEF FieldGood
  <1> QED BY <1>12 DEF f

LEMMA FieldFresh == FieldGood(CreatePreamble(NewHook), {})
  <1> DEFINE h == CreatePreamble(NewHook)
  <1>1. IsHook(h)
    BY NewHookIs, PreambleIs
  <1>2. h.ends = << >>
    <2>1. NewHook.ends = << >> /\ IsHook(NewHook)
      BY NewHookIs DEF NewHook
    <2>2. \A t, y : IsBlock(Block(t, y, Exit, Exit))
      BY BlockIs DEF Exit
    <2>3. \A t, y : Before(NewHook, Exit, Block(t, y, Exit, Exit)).ends = NewHook.ends
      BY <2>1, <2>2, BeforeIs
    <2> QED BY <2>1, <2>3 DEF CreatePreamble
  <1>3. ASSUME NEW vals PROVE Telling(h, vals, {})
    <2>1. PICK out : Says(h, vals, out) /\ (out = <<>> \/ out = <<[fn |-> "printf"]>>)
      BY PreambleSays
    <2>2. IsSeq(out)
      BY <2>1, SaysIsWalk
    <2>3. \A x : x # [fn |-> "printf"] => Times(out, x) = 0
      BY <2>1, TimesOfNone, TimesOfOne
    <2>4. Makes(out, {})
      BY <2>2, <2>3 DEF Makes
    <2> QED BY <2>1, <2>4 DEF Telling
  <1> HIDE DEF h
  <1>4. FieldGood(h, {})
    BY <1>1, <1>2, <1>3 DEF FieldGood, IsLast
  <1> QED BY <1>4 DEF h

StoreKey(m, f) == <<m, f, "Store">>
StoreGood(hs, m, f, P) == FieldGood(At(hs, StoreKey(m, f)), P)
FieldsOf(m, f, q) == {c \in ToSet(q) : HasField(m, EventOf(c)) /\ EventOf(c).field = f}

\* The hooks of fields are as they were: those of all modules, or of the others.
SameStores(hs, gs) == \A m, f : At(gs, StoreKey(m, f)) = At(hs, StoreKey(m, f))
SameElsewhere(hs, gs, m) ==
  \A n, f : n # m => At(gs, StoreKey(n, f)) = At(hs, StoreKey(n, f))

LEMMA ClassNumbers ==
  ASSUME manifest \in Manifests, NEW c \in AllClasses PROVE c[1] \in Nat /\ c[2] \in Nat
  <1>1. PICK a \in DOMAIN Automata : c \in {<<a, s>> : s \in DOMAIN Automata[a].classes}
    BY DEF AllClasses
  <1>2. PICK s \in DOMAIN Automata[a].classes : c = <<a, s>>
    BY <1>1
  <1>3. a \in Nat /\ IsAutomaton(Automata[a])
    BY AutomatonIs
  <1>4. Automata[a].classes \in Seq(ToSet(Automata[a].classes))
    BY <1>3 DEF IsAutomaton
  <1>5. s \in Nat
    BY <1>4
  <1> QED BY <1>2, <1>3, <1>5

\* One class more.
LEMMA StoreMore ==
  ASSUME manifest \in Manifests, NEW hs, NEW m, NEW q \in Seq(AllClasses), NEW x \in AllClasses,
         \A f : StoreGood(hs, m, f, FieldsOf(m, f, q)), \A d \in ToSet(q) : Comes(d, x)
  PROVE  /\ \A f : StoreGood(FieldClass(hs, m, x), m, f, FieldsOf(m, f, Append(q, x)))
         /\ SameElsewhere(hs, FieldClass(hs, m, x), m)
  <1> DEFINE e == EventOf(x)
             gs == FieldClass(hs, m, x)
             key == StoreKey(m, e.field)
             g == AppendInstrumentation(At(hs, key), x)
  <1>1. gs = IF HasField(m, e) THEN Put(hs, key, g) ELSE hs
    BY DEF FieldClass, StructInstrumentation, CreateInstrPreamble, At, StoreKey
  <1>2. ToSet(Append(q, x)) = ToSet(q) \cup {x} /\ ToSet(q) \subseteq AllClasses
    BY SeqOfMembers, OneMore
  <1>3. \A f : FieldsOf(m, f, Append(q, x)) =
                 IF HasField(m, e) /\ e.field = f THEN FieldsOf(m, f, q) \cup {x}
                 ELSE FieldsOf(m, f, q)
    BY <1>2 DEF FieldsOf
  <1>4. FieldGood(g, FieldsOf(m, e.field, q) \cup {x})
    <2> DEFINE P == FieldsOf(m, e.field, q)
    <2>1. FieldGood(At(hs, key), P)
      BY DEF StoreGood
    <2>2. x[1] \in Nat /\ x[2] \in Nat
      BY ClassNumbers
    <2>3. \A d \in P : d[1] \in Nat /\ d[2] \in Nat /\ Comes(d, x)
      <3>1. \A d \in P : d \in ToSet(q) /\ d \in AllClasses
        BY <1>2 DEF FieldsOf
      <3> QED BY <3>1, ClassNumbers
    <2> HIDE DEF P, key
    <2> QED BY <2>1, <2>2, <2>3, FieldMore DEF P
  <1> HIDE DEF g, gs
  <1>5. CASE HasField(m, e)
    <2>1. gs = Put(hs, key, g)
      BY <1>1, <1>5
    <2>2. At(gs, key) = g /\ \A k : k # key => At(gs, k) = At(hs, k)
      <3> HIDE DEF key
      <3> QED BY <2>1, AtPut
    <2>3. ASSUME NEW f PROVE StoreGood(gs, m, f, FieldsOf(m, f, Append(q, x)))
      <3>1. CASE f = e.field
        BY <1>3, <1>4, <1>5, <2>2, <3>1 DEF StoreGood
      <3>2. CASE f # e.field
        <4>1. StoreKey(m, f) # key
          BY <3>2 DEF StoreKey
        <4>2. FieldsOf(m, f, Append(q, x)) = FieldsOf(m, f, q)
          BY <1>3, <3>2
        <4> HIDE DEF key
        <4> QED BY <2>2, <4>1, <4>2 DEF StoreGood
      <3> QED BY <3>1, <3>2
    <2>4. ASSUME NEW n, NEW f, n # m PROVE At(gs, StoreKey(n, f)) = At(hs, StoreKey(n, f))
      <3>1. StoreKey(n, f) # key
        BY <2>4 DEF StoreKey
      <3> HIDE DEF key
      <3> QED BY <2>2, <3>1
    <2> QED BY <2>3, <2>4 DEF SameElsewhere, gs
  <1>6. CASE ~HasField(m, e)
    <2>1. gs = hs
      BY <1>1, <1>6
    <2>2. \A f : StoreGood(gs, m, f, FieldsOf(m, f, Append(q, x)))
      BY <1>3, <1>6, <2>1
    <2> QED BY <2>1, <2>2 DEF SameElsewhere, gs
  <1> QED BY <1>5, <1>6

LEMMA SortedOne ==
  ASSUME NEW T, NEW q \in Seq(T), NEW x \in T, Sorted(Append(q, x))
  PROVE  Sorted(q) /\ (\A d \in ToSet(q) : Comes(d, x)) /\ Append(q, x) \in Seq(T)
  <1> DEFINE a == Append(q, x)
  <1>1. IsSeq(q)
    BY SeqOfMembers
  <1>2. /\ Len(q) \in Nat /\ DOMAIN q = 1 .. Len(q) /\ DOMAIN a = 1 .. Len(q) + 1
        /\ \A k \in 1 .. Len(q) : a[k] = q[k]
        /\ a[Len(q) + 1] = x
    BY <1>1, OneMore
  <1>3. a \in Seq(T)
    OBVIOUS
  <1> HIDE DEF a
  <1>4. \A i, j \in 1 .. Len(q) + 1 : i < j => Comes(a[i], a[j])
    BY <1>2 DEF Sorted, Comes, a
  <1>5. Sorted(q)
    <2> SUFFICES ASSUME NEW i \in DOMAIN q, NEW j \in DOMAIN q, i < j PROVE Comes(q[i], q[j])
      BY DEF Sorted, Comes
    <2>1. i \in 1 .. Len(q) + 1 /\ j \in 1 .. Len(q) + 1 /\ a[i] = q[i] /\ a[j] = q[j]
      BY <1>2
    <2>2. Comes(a[i], a[j])
      BY <1>4, <2>1
    <2> QED BY <2>1, <2>2
  <1>6. \A d \in ToSet(q) : Comes(d, x)
    <2> SUFFICES ASSUME NEW k \in DOMAIN q PROVE Comes(q[k], x)
      BY DEF ToSet
    <2>1. k \in 1 .. Len(q) + 1 /\ Len(q) + 1 \in 1 .. Len(q) + 1 /\ a[k] = q[k] /\ k < Len(q) + 1
      BY <1>2
    <2>2. Comes(a[k], a[Len(q) + 1])
      BY <1>4, <2>1
    <2> QED BY <1>2, <2>1, <2>2
  <1> QED BY <1>3, <1>5, <1>6 DEF a

\* The pass that looks at fields.
LEMMA FieldsStored ==
  ASSUME manifest \in Manifests, NEW hs, NEW m, NEW p \in Seq(AllClasses), Sorted(p),
         \A f : StoreGood(hs, m, f, {})
  PROVE  /\ \A f : StoreGood(FieldFold!Fold(m, hs, p), m, f, FieldsOf(m, f, p))
         /\ SameElsewhere(hs, FieldFold!Fold(m, hs, p), m)
  <1> DEFINE G(q) == FieldFold!Fold(m, hs, q)
             Nice(q) == /\ \A f : StoreGood(G(q), m, f, FieldsOf(m, f, q))
                        /\ SameElsewhere(hs, G(q), m)
             S == {q \in Seq(AllClasses) : Sorted(q) => Nice(q)}
  <1>1. <<>> \in S
    <2>1. G(<<>>) = hs /\ <<>> \in Seq(AllClasses) /\ ToSet(<<>>) = {}
      BY FieldFold!FoldNone, NoneIsSeq
    <2>2. \A f : FieldsOf(m, f, <<>>) = {}
      BY <2>1 DEF FieldsOf
    <2> HIDE DEF G
    <2> QED BY <2>1, <2>2 DEF SameElsewhere
  <1>2. ASSUME NEW q \in Seq(AllClasses), NEW x \in AllClasses, q \in S PROVE Append(q, x) \in S
    <2> SUFFICES ASSUME Sorted(Append(q, x)) PROVE Nice(Append(q, x)) /\ Append(q, x) \in Seq(AllClasses)
      OBVIOUS
    <2>1. Sorted(q) /\ (\A d \in ToSet(q) : Comes(d, x)) /\ Append(q, x) \in Seq(AllClasses)
      BY SortedOne
    <2>2. G(Append(q, x)) = FieldBody(m, G(q), x)
      BY FieldFold!FoldOne
    <2>3. Nice(q)
      BY <1>2, <2>1
    <2> HIDE DEF G
    <2>4. /\ \A f : StoreGood(FieldClass(G(q), m, x), m, f, FieldsOf(m, f, Append(q, x)))
          /\ SameElsewhere(G(q), FieldClass(G(q), m, x), m)
      BY <2>1, <2>3, StoreMore
    <2>5. SameElsewhere(hs, FieldClass(G(q), m, x), m)
      BY <2>3, <2>4 DEF SameElsewhere
    <2>6. Nice(Append(q, x))
      BY <2>2, <2>4, <2>5 DEF FieldBody
    <2> QED BY <2>1, <2>6
  <1>3. Seq(AllClasses) \subseteq S
    <2> HIDE DEF S
    <2> QED BY <1>1, <1>2, FieldFold!SeqInduction
  <1> QED BY <1>3

\* The other passes.
LEMMA FnStores ==
  ASSUME NEW hs, NEW where, NEW e, IsFnEvent(e), NEW call
  PROVE  SameStores(hs, FnHook(hs, where, e, call))
  <1> DEFINE key == <<where, e.fn, e.dir>>
  <1>1. PICK h : FnHook(hs, where, e, call) = Put(hs, key, h)
    BY FnHookPuts
  <1>2. e.dir # "Store"
    BY DEF IsFnEvent
  <1>3. \A m, f : StoreKey(m, f) # key
    BY <1>2 DEF StoreKey
  <1> HIDE DEF key
  <1> QED BY <1>1, <1>3, AtPut DEF SameStores

LEMMA SiteStores ==
  ASSUME manifest \in Manifests, NEW hs, NEW m, NEW a \in DOMAIN Automata
  PROVE  SameStores(hs, SiteBody(m, hs, a))
  <1> DEFINE key == SiteKey(a)
  <1>1. PICK h : AssertionHook(hs, a) = Put(hs, key, h)
    BY SiteHooked
  <1>2. \A n, f : StoreKey(n, f) # key
    BY DEF StoreKey, SiteKey
  <1> HIDE DEF key
  <1>3. SameStores(hs, AssertionHook(hs, a))
    BY <1>1, <1>2, AtPut DEF SameStores
  <1> QED BY <1>3 DEF SiteBody, SameStores

LEMMA LifetimeStores ==
  ASSUME manifest \in Manifests, NEW hs, NEW m, NEW l \in DOMAIN manifest.lifetimes
  PROVE  SameStores(hs, LifetimeBody(m, hs, l))
  <1> DEFINE L == manifest.lifetimes[l]
             g == FnHook(hs, "callee", L.init, Sun("sunrise", BuildLifetime(l)))
             f == FnHook(g, "callee", L.cleanup, Sun("sunset", BuildLifetime(l)))
  <1>1. LifetimeHooks(hs, m, l) = IF ~DefinedIn(m, L.init) THEN hs
                                  ELSE IF ~DefinedIn(m, L.cleanup) THEN g ELSE f
    BY DEF LifetimeHooks
  <1>2. IsFnEvent(L.init) /\ IsFnEvent(L.cleanup)
    BY BoundIs
  <1>3. SameStores(hs, g)
    BY <1>2, FnStores
  <1>4. SameStores(g, f)
    <2> HIDE DEF g
    <2> QED BY <1>2, FnStores
  <1> HIDE DEF g, f
  <1>5. SameStores(hs, f) /\ SameStores(hs, hs)
    BY <1>3, <1>4 DEF SameStores
  <1> QED BY <1>1, <1>3, <1>5 DEF LifetimeBody

LEMMA CalleeStores ==
  ASSUME manifest \in Manifests, NEW hs, NEW m, NEW c \in AllClasses
  PROVE  SameStores(hs, CalleeBody(m, hs, c)) /\ SameStores(hs, CallerBody(m, hs, c))
  <1>1. SameStores(hs, hs)
    BY DEF SameStores
  <1>2. IsFn(EventOf(c)) => \A where : SameStores(hs, ClassHook(hs, where, c))
    BY EventIs, FnStores DEF ClassHook
  <1> QED BY <1>1, <1>2 DEF CalleeBody, CallerBody, CalleeClass, CallerClass

LEMMA SitesStores ==
  ASSUME manifest \in Manifests, NEW hs, NEW m, NEW p \in Seq(DOMAIN Automata)
  PROVE  SameStores(hs, SiteFold!Fold(m, hs, p))
  <1> DEFINE G(q) == SiteFold!Fold(m, hs, q)
             S == {q \in Seq(DOMAIN Automata) : SameStores(hs, G(q))}
  <1>1. <<>> \in S
    <2>1. G(<<>>) = hs /\ <<>> \in Seq(DOMAIN Automata)
      BY SiteFold!FoldNone
    <2> QED BY <2>1 DEF SameStores
  <1>2. ASSUME NEW q \in Seq(DOMAIN Automata), NEW x \in DOMAIN Automata, q \in S PROVE Append(q, x) \in S
    <2>1. G(Append(q, x)) = SiteBody(m, G(q), x)
      BY SiteFold!FoldOne
    <2>2. Append(q, x) \in Seq(DOMAIN Automata)
      OBVIOUS
    <2> HIDE DEF G
    <2>3. SameStores(G(q), SiteBody(m, G(q), x))
      BY SiteStores
    <2>4. SameStores(hs, G(Append(q, x)))
      BY <1>2, <2>1, <2>3 DEF SameStores
    <2> QED BY <2>2, <2>4
  <1>3. Seq(DOMAIN Automata) \subseteq S
    <2> HIDE DEF S
    <2> QED BY <1>1, <1>2, SiteFold!SeqInduction
  <1> QED BY <1>3

LEMMA LifetimesStores ==
  ASSUME manifest \in Manifests, NEW hs, NEW m, NEW p \in Seq(DOMAIN manifest.lifetimes)
  PROVE  SameStores(hs, LifetimeFold!Fold(m, hs, p))
  <1> DEFINE G(q) == LifetimeFold!Fold(m, hs, q)
             S == {q \in Seq(DOMAIN manifest.lifetimes) : SameStores(hs, G(q))}
  <1>1. <<>> \in S
    <2>1. G(<<>>) = hs /\ <<>> \in Seq(DOMAIN manifest.lifetimes)
      BY LifetimeFold!FoldNone
    <2> QED BY <2>1 DEF SameStores
  <1>2. ASSUME NEW q \in Seq(DOMAIN manifest.lifetimes), NEW x \in DOMAIN manifest.lifetimes, q \in S PROVE Append(q, x) \in S
    <2>1. G(Append(q, x)) = LifetimeBody(m, G(q), x)
      BY LifetimeFold!FoldOne
    <2>2. Append(q, x) \in Seq(DOMAIN manifest.lifetimes)
      OBVIOUS
    <2> HIDE DEF G
    <2>3. SameStores(G(q), LifetimeBody(m, G(q), x))
      BY LifetimeStores
    <2>4. SameStores(hs, G(Append(q, x)))
      BY <1>2, <2>1, <2>3 DEF SameStores
    <2> QED BY <2>2, <2>4
  <1>3. Seq(DOMAIN manifest.lifetimes) \subseteq S
    <2> HIDE DEF S
    <2> QED BY <1>1, <1>2, LifetimeFold!SeqInduction
  <1> QED BY <1>3

LEMMA CalleesStores ==
  ASSUME manifest \in Manifests, NEW hs, NEW m, NEW p \in Seq(AllClasses)
  PROVE  SameStores(hs, CalleeFold!Fold(m, hs, p))
  <1> DEFINE G(q) == CalleeFold!Fold(m, hs, q)
             S == {q \in Seq(AllClasses) : SameStores(hs, G(q))}
  <1>1. <<>> \in S
    <2>1. G(<<>>) = hs /\ <<>> \in Seq(AllClasses)
      BY CalleeFold!FoldNone
    <2> QED BY <2>1 DEF SameStores
  <1>2. ASSUME NEW q \in Seq(AllClasses), NEW x \in AllClasses, q \in S PROVE Append(q, x) \in S
    <2>1. G(Append(q, x)) = CalleeBody(m, G(q), x)
      BY CalleeFold!FoldOne
    <2>2. Append(q, x) \in Seq(AllClasses)
      OBVIOUS
    <2> HIDE DEF G
    <2>3. SameStores(G(q), CalleeBody(m, G(q), x))
      BY CalleeStores
    <2>4. SameStores(hs, G(Append(q, x)))
      BY <1>2, <2>1, <2>3 DEF SameStores
    <2> QED BY <2>2, <2>4
  <1>3. Seq(AllClasses) \subseteq S
    <2> HIDE DEF S
    <2> QED BY <1>1, <1>2, CalleeFold!SeqInduction
  <1> QED BY <1>3

LEMMA CallersStores ==
  ASSUME manifest \in Manifests, NEW hs, NEW m, NEW p \in Seq(AllClasses)
  PROVE  SameStores(hs, CallerFold!Fold(m, hs, p))
  <1> DEFINE G(q) == CallerFold!Fold(m, hs, q)
             S == {q \in Seq(AllClasses) : SameStores(hs, G(q))}
  <1>1. <<>> \in S
    <2>1. G(<<>>) = hs /\ <<>> \in Seq(AllClasses)
      BY CallerFold!FoldNone
    <2> QED BY <2>1 DEF SameStores
  <1>2. ASSUME NEW q \in Seq(AllClasses), NEW x \in AllClasses, q \in S PROVE Append(q, x) \in S
    <2>1. G(Append(q, x)) = CallerBody(m, G(q), x)
      BY CallerFold!FoldOne
    <2>2. Append(q, x) \in Seq(AllClasses)
      OBVIOUS
    <2> HIDE DEF G
    <2>3. SameStores(G(q), CallerBody(m, G(q), x))
      BY CalleeStores
    <2>4. SameStores(hs, G(Append(q, x)))
      BY <1>2, <2>1, <2>3 DEF SameStores
    <2> QED BY <2>2, <2>4
  <1>3. Seq(AllClasses) \subseteq S
    <2> HIDE DEF S
    <2> QED BY <1>1, <1>2, CallerFold!SeqInduction
  <1> QED BY <1>3

-----------------------------------------------------------------------------
(* The hooks of fields, whichever passes are done *)

FieldsNow(m, f) == IF <<m, 4>> \notin todo THEN FieldsOf(m, f, Classes) ELSE {}
StoresGood == \A m \in DOMAIN Modules : \A f : StoreGood(hooks, m, f, FieldsNow(m, f))

\* Nothing has been given up.
OkayOK == outcome = "ok" => AllOk(hooks)

LEMMA StoresInit == ASSUME Init PROVE StoresGood /\ OkayOK
  <1>1. hooks = << >>
    BY DEF Init
  <1>2. \A m, f : At(hooks, StoreKey(m, f)) = CreatePreamble(NewHook)
    BY <1>1 DEF At
  <1>3. \A m \in DOMAIN Modules : \A f : FieldsNow(m, f) = {}
    BY PassesAre DEF Init, FieldsNow
  <1>4. StoresGood
    BY <1>2, <1>3, FieldFresh DEF StoresGood, StoreGood
  <1>5. OkayOK
    BY <1>1 DEF OkayOK, AllOk
  <1> QED BY <1>4, <1>5

\* The manifest does not change, nor does what is said of the hooks of fields.
LEMMA FieldSame ==
  ASSUME manifest' = manifest, NEW h, NEW P, FieldGood(h, P) PROVE FieldGood(h, P)'
  <1>1. \A c : EventOf(c)' = EventOf(c)
    BY EventsSame
  <1>2. \A c, vals : (Hits(c, vals)' <=> Hits(c, vals)) /\ FieldSaid(c, vals)' = FieldSaid(c, vals)
    BY <1>1 DEF Hits, FieldSaid, FieldCall
  <1>3. \A c : Supported(c)' <=> Supported(c)
    BY <1>1 DEF Supported
  <1>4. \A Q, vals : Missed(Q, vals)' <=> Missed(Q, vals)
    BY <1>2 DEF Missed
  <1>5. \A Q, vals : Firsts(Q, vals)' = Firsts(Q, vals)
    BY <1>2 DEF Firsts
  <1>6. \A Q, vals : Firstly(Q, vals)' = Firstly(Q, vals)
    BY <1>2, <1>5 DEF Firstly
  <1>7. ASSUME NEW vals, NEW a, Chain(h, vals, P, a) PROVE Chain(h, vals, P, a)'
    <2>1. PICK pre, q : /\ Chained(h, vals, h.ends[a], NoCall, pre, Missed(Of(P, a), vals), q)
                        /\ Makes(pre, Firstly(Others(P, a), vals))
                        /\ ~Missed(Of(P, a), vals) => Makes(q, Firstly(Of(P, a), vals))
      BY <1>7 DEF Chain
    <2>2. Chained(h, vals, h.ends[a], NoCall, pre, Missed(Of(P, a), vals)', q)
      <3>1. Missed(Of(P, a), vals) <=> Missed(Of(P, a), vals)'
        BY <1>4
      <3> QED BY <2>1, <3>1, ChainedAlso
    <2> QED BY <1>4, <1>6, <2>1, <2>2 DEF Chain
  <1> QED BY <1>3, <1>7 DEF FieldGood

LEMMA FieldsNowSame ==
  ASSUME manifest' = manifest, NEW m, NEW f
  PROVE  FieldsOf(m, f, Classes)' = FieldsOf(m, f, Classes)
  BY ClassesSame, EventsSame DEF FieldsOf, HasField

LEMMA StoresSame == ASSUME StoresGood, OkayOK, UNCHANGED Built PROVE StoresGood' /\ OkayOK'
  <1>1. manifest' = manifest /\ hooks' = hooks /\ todo' = todo /\ outcome' = outcome
    BY DEF Built
  <1>2. \A m, f : FieldsNow(m, f)' = FieldsNow(m, f)
    BY <1>1, FieldsNowSame DEF FieldsNow
  <1>3. StoresGood'
    BY <1>1, <1>2, FieldSame DEF StoresGood, StoreGood
  <1>4. OkayOK'
    BY <1>1 DEF OkayOK, AllOk
  <1> QED BY <1>3, <1>4

LEMMA OtherStores ==
  ASSUME manifest \in Manifests, NEW hs, NEW m \in DOMAIN Modules, NEW k \in 1 .. 3
  PROVE  SameStores(hs, Pass(hs, m, Passes[k]))
  <1>0. /\ IsSeq(manifest.lifetimes) /\ IsSeq(Automata)
        /\ Classes \in Seq(AllClasses)
    BY ManifestIs, AllDistinct DEF IsManifest, IsSeq, Automata
  <1>1. CASE k = 1
    BY <1>0, <1>1, PassesAre, PassIsFold, SitesStores, Numbered
  <1>2. CASE k = 2
    <2> DEFINE Y == [l \in DOMAIN manifest.lifetimes |-> l]
               gs == LifetimeFold!Fold(m, hs, Y)
    <2>1. Y \in Seq(DOMAIN manifest.lifetimes)
      BY <1>0, Numbered
    <2> HIDE DEF Y
    <2>2. SameStores(hs, gs)
      BY <2>1, LifetimesStores
    <2> HIDE DEF gs
    <2>3. SameStores(gs, CalleeFold!Fold(m, gs, Classes))
      BY <1>0, CalleesStores
    <2>4. Pass(hs, m, "callee") = CalleeFold!Fold(m, gs, Classes)
      BY PassIsFold DEF gs, Y
    <2> QED BY <1>2, <2>2, <2>3, <2>4, PassesAre DEF SameStores
  <1>3. CASE k = 3
    BY <1>0, <1>3, PassesAre, PassIsFold, CallersStores
  <1> QED BY <1>1, <1>2, <1>3

LEMMA InstrumentStores ==
  ASSUME TypesOK, StoresGood, OkayOK, NEW m \in DOMAIN Modules, NEW k \in DOMAIN Passes,
         Instrument(m, k)
  PROVE  StoresGood' /\ OkayOK'
  <1>0. /\ manifest \in Manifests /\ manifest' = manifest /\ <<m, k>> \in todo
        /\ hooks' = Pass(hooks, m, Passes[k]) /\ todo' = todo \ {<<m, k>>} /\ k \in 1 .. 4
    BY PassesAre DEF Instrument, TypesOK
  <1>1. OkayOK'
    BY DEF Instrument, OkayOK, AllOk
  <1>2. \A n, f : FieldsNow(n, f)' =
                    IF n = m /\ k = 4 THEN FieldsOf(m, f, Classes) ELSE FieldsNow(n, f)
    BY <1>0, FieldsNowSame DEF FieldsNow
  <1>3. ASSUME NEW n \in DOMAIN Modules, NEW f PROVE StoreGood(hooks', n, f, FieldsNow(n, f)')
    <2>1. CASE k = 4
      <3>1. \A g : StoreGood(hooks, m, g, {})
        BY <1>0, <2>1 DEF StoresGood, FieldsNow
      <3>2. Classes \in Seq(AllClasses) /\ Sorted(Classes)
        BY <1>0, AllDistinct, ClassesAre
      <3>3. hooks' = FieldFold!Fold(m, hooks, Classes)
        BY <1>0, <2>1, PassIsFold, PassesAre
      <3>4. /\ \A g : StoreGood(hooks', m, g, FieldsOf(m, g, Classes))
            /\ SameElsewhere(hooks, hooks', m)
        BY <1>0, <3>1, <3>2, <3>3, FieldsStored
      <3>5. CASE n = m
        BY <1>2, <2>1, <3>4, <3>5
      <3>6. CASE n # m
        <4>1. At(hooks', StoreKey(n, f)) = At(hooks, StoreKey(n, f))
          BY <3>4, <3>6 DEF SameElsewhere
        <4> QED BY <1>2, <3>6, <4>1 DEF StoresGood, StoreGood
      <3> QED BY <3>5, <3>6
    <2>2. CASE k # 4
      <3>1. k \in 1 .. 3
        BY <1>0, <2>2
      <3>2. SameStores(hooks, hooks')
        BY <1>0, <3>1, OtherStores
      <3>3. At(hooks', StoreKey(n, f)) = At(hooks, StoreKey(n, f))
        BY <3>2 DEF SameStores
      <3> QED BY <1>2, <2>2, <3>3 DEF StoresGood, StoreGood
    <2> QED BY <2>1, <2>2
  <1> QED BY <1>0, <1>1, <1>3, FieldSame DEF StoresGood, StoreGood

-----------------------------------------------------------------------------
(* Arithmetic modulo M *)

LEMMA ModIs ==
  ASSUME NEW M \in Nat \ {0}, NEW a \in Int
  PROVE  a % M \in 0 .. M - 1 /\ \E q \in Int : a = M * q + (a % M)
  <1>1. a = M * (a \div M) + (a % M) /\ a \div M \in Int /\ a % M \in 0 .. M - 1
    OBVIOUS
  <1> QED BY <1>1

LEMMA ModUnique ==
  ASSUME NEW M \in Nat \ {0}, NEW a \in Int, NEW r \in 0 .. M - 1, NEW q \in Int, a = M * q + r
  PROVE  a % M = r
  <1>1. a % M \in 0 .. M - 1 /\ \E p \in Int : a = M * p + (a % M)
    BY ModIs
  <1>2. PICK p \in Int : a = M * p + (a % M)
    BY <1>1
  <1>3. PICK s \in 0 .. M - 1 : s = a % M
    BY <1>1
  <1>4. M * p + s = M * q + r
    BY <1>2, <1>3
  <1>5. M * (p - q) = r - s
    BY ONLY <1>4, M \in Nat \ {0}, p \in Int, q \in Int, r \in 0 .. M - 1, s \in 0 .. M - 1
  <1>6. ASSUME p - q >= 1 PROVE FALSE
    <2>1. M * (p - q) >= M
      BY ONLY <1>6, M \in Nat \ {0}, p \in Int, q \in Int
    <2> QED BY ONLY <2>1, <1>5, M \in Nat \ {0}, r \in 0 .. M - 1, s \in 0 .. M - 1, p \in Int, q \in Int
  <1>7. ASSUME q - p >= 1 PROVE FALSE
    <2>1. M * (q - p) >= M
      BY ONLY <1>7, M \in Nat \ {0}, p \in Int, q \in Int
    <2>2. M * (q - p) = s - r
      BY ONLY <1>5, M \in Nat \ {0}, p \in Int, q \in Int, r \in 0 .. M - 1, s \in 0 .. M - 1
    <2> QED BY ONLY <2>1, <2>2, M \in Nat \ {0}, r \in 0 .. M - 1, s \in 0 .. M - 1, p \in Int, q \in Int
  <1>8. p = q
    BY ONLY <1>6, <1>7, p \in Int, q \in Int
  <1>9. s = r
    BY ONLY <1>4, <1>8, M \in Nat \ {0}, q \in Int, r \in 0 .. M - 1, s \in 0 .. M - 1
  <1> QED BY <1>3, <1>9

\* The value that is added may be taken modulo M.
LEMMA ModAdded ==
  ASSUME NEW M \in Nat \ {0}, NEW w \in Int, NEW v \in Int
  PROVE  (w + (v % M)) % M = (w + v) % M
  <1>1. PICK q \in Int : v = M * q + (v % M)
    BY ModIs
  <1>2. PICK t \in 0 .. M - 1 : t = v % M
    BY ModIs
  <1>3. PICK r \in 0 .. M - 1 : r = (w + t) % M
    BY ModIs
  <1>4. PICK p \in Int : w + t = M * p + ((w + t) % M)
    <2>1. w + t \in Int
      OBVIOUS
    <2> QED BY <2>1, ModIs
  <1>5. w + v = M * (p + q) + r
    <2>1. w + t = M * p + r /\ v = M * q + t
      BY <1>1, <1>2, <1>3, <1>4
    <2> QED BY ONLY <2>1, M \in Nat \ {0}, w \in Int, v \in Int, p \in Int, q \in Int,
                    r \in 0 .. M - 1, t \in 0 .. M - 1
  <1>6. (w + v) % M = r
    <2>1. p + q \in Int /\ w + v \in Int
      OBVIOUS
    <2> QED BY ONLY <2>1, <1>5, ModUnique, M \in Nat \ {0}, r \in 0 .. M - 1
  <1> QED BY <1>2, <1>3, <1>6

\* And so may the value that is taken away.
LEMMA ModTaken ==
  ASSUME NEW M \in Nat \ {0}, NEW w \in Int, NEW v \in Int
  PROVE  ((w + M) - (v % M)) % M = ((w + M) - v) % M
  <1>1. PICK q \in Int : v = M * q + (v % M)
    BY ModIs
  <1>2. PICK t \in 0 .. M - 1 : t = v % M
    BY ModIs
  <1>3. (w + M) - t \in Int /\ (w + M) - v \in Int
    OBVIOUS
  <1>4. PICK r \in 0 .. M - 1 : r = ((w + M) - t) % M
    BY <1>3, ModIs
  <1>5. PICK p \in Int : (w + M) - t = M * p + (((w + M) - t) % M)
    BY <1>3, ModIs
  <1>6. (w + M) - v = M * (p - q) + r
    <2>1. (w + M) - t = M * p + r /\ v = M * q + t
      BY <1>1, <1>2, <1>4, <1>5
    <2> QED BY ONLY <2>1, M \in Nat \ {0}, w \in Int, v \in Int, p \in Int, q \in Int,
                    r \in 0 .. M - 1, t \in 0 .. M - 1
  <1>7. ((w + M) - v) % M = r
    <2>1. p - q \in Int
      OBVIOUS
    <2> QED BY ONLY <2>1, <1>3, <1>6, ModUnique, M \in Nat \ {0}, r \in 0 .. M - 1
  <1> QED BY <1>2, <1>4, <1>7

-----------------------------------------------------------------------------
(* What a store is told as *)

\* The symbols that are assignments to the field.
Assigns(f) == {c \in AllClasses : EventOf(c).kind = "Field" /\ EventOf(c).field = f}

IsStore(e) == e.vals[2] \in Ints /\ e.vals[3] \in Ints

StoreHeard(e, cs) ==
  e.what = "Field" =>
    /\ IsStore(e)
    /\ e.access.note = "field" =>
         Makes(cs, Firstly(Assigns(e.field), e.vals)) /\ \A c \in Assigns(e.field) : Supported(c)
    /\ e.access.note # "field" => Makes(cs, {})

\* The instructions that compare find what the assignment means.
LEMMA HitsIs ==
  ASSUME NEW c, NEW vals, vals[2] \in Ints, vals[3] \in Ints, IsFieldEvent(EventOf(c))
  PROVE  LET p == EventOf(c)
         IN Hits(c, vals) <=>
              (p.value.type = "Constant" =>
                 vals[2] = Trunc(CASE p.how = "=" -> p.value.value
                                   [] p.how = "+=" -> vals[3] + p.value.value
                                   [] OTHER -> (vals[3] + 2 ^ Width) - p.value.value))
  <1> DEFINE p == EventOf(c)
             t == FieldTest(p)
             M == 2 ^ Width
  <1>1. t.match = p.how /\ t.param = 2 /\ t.value = Trunc(p.value.value)
    BY DEF FieldTest
  <1>2. CASE p.value.type = "Constant"
    <2>0. M \in Nat \ {0} /\ p.value.value \in Int /\ p.how \in {"=", "+=", "-="}
      BY <1>2, WidthAssumption DEF IsFieldEvent
    <2>1. vals[2] \in 0 .. M - 1 /\ vals[3] \in 0 .. M - 1
      BY DEF Ints
    <2>3. PICK w \in 0 .. M - 1 : w = vals[3]
      BY <2>1
    <2>4. PICK v \in Int : v = p.value.value
      BY <2>0
    <2>5. CASE p.how = "="
      BY <1>1, <1>2, <2>5 DEF Hits, Holds
    <2>6. CASE p.how = "+="
      <3>1. Hits(c, vals) <=> vals[2] = Trunc(vals[3] + Trunc(p.value.value))
        BY <1>1, <1>2, <2>6 DEF Hits, Holds
      <3>2. Trunc(vals[3] + Trunc(p.value.value)) = Trunc(vals[3] + p.value.value)
        <4>1. w \in Int
          BY <2>0
        <4> QED BY <2>0, <2>3, <2>4, <4>1, ModAdded DEF Trunc
      <3> QED BY <1>2, <2>6, <3>1, <3>2
    <2>7. CASE p.how = "-="
      <3>1. Hits(c, vals) <=> vals[2] = Trunc((vals[3] + 2 ^ Width) - Trunc(p.value.value))
        BY <1>1, <1>2, <2>7 DEF Hits, Holds
      <3>2. Trunc((vals[3] + M) - Trunc(p.value.value)) = Trunc((vals[3] + M) - p.value.value)
        <4>1. w \in Int
          BY <2>0
        <4> QED BY <2>0, <2>3, <2>4, <4>1, ModTaken DEF Trunc
      <3> QED BY <1>2, <2>7, <3>1, <3>2
    <2> QED BY <2>0, <2>5, <2>6, <2>7
  <1>3. CASE p.value.type # "Constant"
    BY <1>3 DEF Hits
  <1> QED BY <1>2, <1>3

LEMMA AssignIs ==
  ASSUME manifest \in Manifests, NEW c \in AllClasses, EventOf(c).kind = "Field"
  PROVE  IsFieldEvent(EventOf(c))
  <1>1. PICK a \in DOMAIN Automata : \E s \in DOMAIN Automata[a].classes : c = <<a, s>>
    BY DEF AllClasses
  <1>2. PICK s \in DOMAIN Automata[a].classes : c = <<a, s>>
    BY <1>1
  <1>3. IsAutomaton(Automata[a])
    BY AutomatonIs
  <1>4. EventOf(c) = Automata[a].classes[s] /\ EventOf(c) \in ToSet(Automata[a].classes)
    BY <1>2 DEF EventOf, ToSet
  <1> QED BY <1>3, <1>4 DEF IsAutomaton

\* An occurrence of a symbol is a hit.
LEMMA OccursIsHit ==
  ASSUME manifest \in Manifests, NEW c \in AllClasses, NEW e, e.what = "Field", IsStore(e)
  PROVE  OccursAs(EventOf(c), e) <=>
           e.access.note = "field" /\ c \in Assigns(e.field) /\ Hits(c, e.vals)
  <1> DEFINE p == EventOf(c)
  <1>1. CASE p.kind = "Field"
    <2>1. IsFieldEvent(p)
      BY <1>1, AssignIs
    <2>2. c \in Assigns(e.field) <=> e.field = p.field
      BY <1>1 DEF Assigns
    <2> DEFINE Q == p.value.type = "Constant" =>
                      e.vals[2] = Trunc(CASE p.how = "=" -> p.value.value
                                        [] p.how = "+=" -> e.vals[3] + p.value.value
                                        [] OTHER -> (e.vals[3] + 2 ^ Width) - p.value.value)
    <2>3. Hits(c, e.vals) <=> Q
      BY <2>1, HitsIs DEF IsStore
    <2>4. OccursAs(p, e) <=> e.field = p.field /\ e.access.note = "field" /\ Q
      BY <1>1 DEF OccursAs
    <2> QED BY <2>2, <2>3, <2>4
  <1>2. CASE p.kind # "Field"
    BY <1>2 DEF OccursAs, Assigns
  <1> QED BY <1>1, <1>2

LEMMA FieldSaidIs ==
  ASSUME NEW c, NEW vals
  PROVE  LET u == FieldSaid(c, vals)
         IN /\ u.fn = "update_state" /\ u.automaton = c[1] /\ u.symbol = c[2]
            /\ u.key = ConstructKey(FieldCall(c), vals) /\ u # [fn |-> "printf"]
  <1>1. FieldSaid(c, vals).fn = "update_state"
    BY DEF FieldSaid, Report
  <1>2. [fn |-> "printf"].fn = "printf"
    OBVIOUS
  <1> QED BY <1>1, <1>2 DEF FieldSaid, Report

\* The structure and the new value are named.
LEMMA FieldNames ==
  ASSUME NEW c, NEW vals, Supported(c), EventOf(c).base.type = "Variable",
         EventOf(c).base.index = 0,
         EventOf(c).value.type = "Variable" => EventOf(c).value.index = 1
  PROVE  ConstructKey(FieldCall(c), vals) = Named(<<EventOf(c).base, EventOf(c).value>>, vals)
  <1> DEFINE e == EventOf(c)
             q == <<e.base, e.value>>
  <1>1. FieldCall(c).key = FieldKey(e) /\ FieldCall(c).deref = FALSE
    BY DEF FieldCall, Update
  <1>2. DOMAIN q = {1, 2} /\ q[1] = e.base /\ q[2] = e.value
    OBVIOUS
  <1>3. HasIndex(q[1]) /\ q[1].type = "Variable" /\ q[1].index = 0
    BY <1>2 DEF HasIndex
  <1>4. ConstructKey(FieldCall(c), vals) = {<<k[1], vals[k[2]]>> : k \in FieldKey(e)}
    BY <1>1 DEF ConstructKey
  <1>5. CASE e.value.type = "Variable"
    <2>1. HasIndex(q[2]) /\ q[2].type = "Variable" /\ q[2].index = 1
      BY <1>2, <1>5 DEF HasIndex
    <2>2. {n \in DOMAIN q : HasIndex(q[n])} = {1, 2}
      BY <1>2, <1>3, <2>1
    <2>3. Named(q, vals) = {<<0, vals[1]>>, <<1, vals[2]>>}
      <3> HIDE DEF q
      <3> QED BY <1>3, <2>1, <2>2 DEF Named
    <2>4. FieldKey(e) = {<<0, 1, "Variable">>, <<1, 2, "Variable">>}
      BY <1>5 DEF FieldKey
    <2>5. {<<k[1], vals[k[2]]>> : k \in FieldKey(e)} = {<<0, vals[1]>>, <<1, vals[2]>>}
      BY <2>4
    <2> QED BY <1>4, <2>3, <2>5
  <1>6. CASE e.value.type # "Variable"
    <2>1. ~HasIndex(q[2])
      BY <1>2, <1>6 DEF HasIndex, Supported
    <2>2. {n \in DOMAIN q : HasIndex(q[n])} = {1}
      BY <1>2, <1>3, <2>1
    <2>3. Named(q, vals) = {<<0, vals[1]>>}
      <3> HIDE DEF q
      <3> QED BY <1>3, <2>2 DEF Named
    <2>4. FieldKey(e) = {<<0, 1, "Variable">>}
      BY <1>6 DEF FieldKey
    <2>5. {<<k[1], vals[k[2]]>> : k \in FieldKey(e)} = {<<0, vals[1]>>}
      BY <2>4
    <2> QED BY <1>4, <2>3, <2>5
  <1> QED BY <1>5, <1>6

\* Only the first symbol of an automaton is told.
LEMMA FirstIsOne ==
  ASSUME manifest \in Manifests, NEW P, P \subseteq AllClasses, NEW vals,
         NEW c \in Firsts(P, vals), NEW d \in Firsts(P, vals), c[1] = d[1]
  PROVE  c = d
  <1>1. c \in AllClasses /\ d \in AllClasses
    BY DEF Firsts
  <1>2. c[2] \in Nat /\ d[2] \in Nat
    BY <1>1, ClassNumbers
  <1>3. c[2] <= d[2] /\ d[2] <= c[2]
    BY DEF Firsts
  <1>4. c[2] = d[2]
    BY <1>2, <1>3
  <1> QED BY <1>1, <1>4, ClassIs

\* What is made is made at one place.
LEMMA MadeOnce ==
  ASSUME NEW cs, NEW T, Makes(cs, T)
  PROVE  /\ \A k \in DOMAIN cs : cs[k].fn = "update_state" => cs[k] \in T
         /\ \A x \in T : x.fn = "update_state" => \E k \in DOMAIN cs : cs[k] = x
         /\ \A k, n \in DOMAIN cs : cs[k].fn = "update_state" /\ cs[k] = cs[n] => k = n
  <1>0. IsSeq(cs) /\ [fn |-> "printf"].fn = "printf"
    BY DEF Makes
  <1>1. ASSUME NEW x, x.fn = "update_state"
        PROVE  /\ x \in ToSet(cs) <=> x \in T
               /\ \A i, j \in DOMAIN cs : cs[i] = x /\ cs[j] = x => i = j
    <2>1. x # [fn |-> "printf"]
      BY <1>0, <1>1
    <2>2. Times(cs, x) = IF x \in T THEN 1 ELSE 0
      BY <2>1 DEF Makes
    <2>3. /\ Times(cs, x) = 0 <=> x \notin ToSet(cs)
          /\ Times(cs, x) <= 1 => \A i, j \in DOMAIN cs : cs[i] = x /\ cs[j] = x => i = j
      BY <1>0, TimesIs
    <2> QED BY <2>2, <2>3
  <1> QED BY <1>1 DEF ToSet

\* One symbol of the automaton is told, the first that the store is.
ToldFirst(a) ==
  LET occurs == {s \in DOMAIN Automata[a].classes : OccursAs(EventOf(<<a, s>>), event)}
  IN IF occurs = {} THEN UpdatesOf(a) = {}
     ELSE \E k \in Updates :
            LET u == calls[k]
                e == EventOf(<<a, u.symbol>>)
            IN /\ UpdatesOf(a) = {k}
               /\ u.symbol \in occurs /\ \A s \in occurs : u.symbol <= s
               /\ /\ e.base.type = "Variable" /\ e.base.index = 0
                  /\ e.value.type = "Variable" => e.value.index = 1
                  => u.key = Named(<<e.base, e.value>>, event.vals)

LEMMA HeardFirst ==
  ASSUME manifest \in Manifests, StoreHeard(event, calls), event.what = "Field",
         NEW a \in DOMAIN Automata
  PROVE  ToldFirst(a)
  <1> DEFINE S == {s \in DOMAIN Automata[a].classes : OccursAs(EventOf(<<a, s>>), event)}
             P == Assigns(event.field)
  <1>0. IsStore(event)
    BY DEF StoreHeard
  <1>1. \A s \in DOMAIN Automata[a].classes : <<a, s>> \in AllClasses
    BY DEF AllClasses
  <1>2. ASSUME NEW s \in DOMAIN Automata[a].classes
        PROVE  s \in S <=> /\ event.access.note = "field" /\ <<a, s>> \in P
                           /\ Hits(<<a, s>>, event.vals)
    <2>1. <<a, s>> \in AllClasses
      BY <1>1
    <2> QED BY <1>0, <2>1, OccursIsHit
  <1>3. P \subseteq AllClasses
    BY DEF Assigns
  <1>4. \A k \in Updates : k \in DOMAIN calls /\ calls[k].fn = "update_state"
    BY DEF Updates
  <1>5. CASE event.access.note # "field"
    <2>1. S = {}
      BY <1>2, <1>5
    <2>2. Makes(calls, {})
      BY <1>5 DEF StoreHeard
    <2>3. UpdatesOf(a) = {}
      BY <1>4, <2>2, MadeOnce DEF UpdatesOf
    <2> QED BY <2>1, <2>3 DEF ToldFirst
  <1>6. CASE event.access.note = "field"
    <2>1. Makes(calls, Firstly(P, event.vals)) /\ \A c \in P : Supported(c)
      BY <1>6 DEF StoreHeard
    <2>2. ASSUME NEW k \in UpdatesOf(a)
          PROVE  \E c \in Firsts(P, event.vals) : c[1] = a /\ calls[k] = FieldSaid(c, event.vals)
      <3>1. k \in DOMAIN calls /\ calls[k].fn = "update_state" /\ calls[k].automaton = a
        BY <1>4 DEF UpdatesOf
      <3>2. calls[k] \in Firstly(P, event.vals)
        BY <2>1, <3>1, MadeOnce
      <3>3. PICK c \in Firsts(P, event.vals) : calls[k] = FieldSaid(c, event.vals)
        BY <3>2 DEF Firstly
      <3> QED BY <3>1, <3>3, FieldSaidIs
    <2>3. ASSUME NEW c \in Firsts(P, event.vals), c[1] = a
          PROVE  c[2] \in S /\ c = <<a, c[2]>>
      <3>1. c \in P /\ Hits(c, event.vals) /\ c \in AllClasses
        BY <1>3 DEF Firsts
      <3>2. c[2] \in DOMAIN Automata[a].classes /\ c = <<a, c[2]>>
        BY <2>3, <3>1 DEF AllClasses
      <3> QED BY <1>2, <1>6, <3>1, <3>2
    <2>4. CASE S = {}
      <3>1. UpdatesOf(a) = {}
        BY <2>2, <2>3, <2>4
      <3> QED BY <2>4, <3>1 DEF ToldFirst
    <2>5. CASE S # {}
      <3>1. S \subseteq Nat
        <4>1. IsSeq(Automata[a].classes)
          BY AutomatonIs DEF IsAutomaton, IsSeq
        <4>2. DOMAIN Automata[a].classes = 1 .. Len(Automata[a].classes)
              /\ Len(Automata[a].classes) \in Nat
          BY <4>1 DEF IsSeq
        <4> QED BY <4>2
      <3>2. PICK s \in S : \A t \in S : s <= t
        <4> HIDE DEF S
        <4> QED BY <2>5, <3>1, MinIs
      <3> DEFINE c == <<a, s>>
      <3>3. c \in P /\ Hits(c, event.vals) /\ c[1] = a /\ c[2] = s
        BY <1>2
      <3>4. c \in Firsts(P, event.vals)
        <4>1. ASSUME NEW d \in P, d[1] = c[1], Hits(d, event.vals) PROVE c[2] <= d[2]
          <5>1. d[2] \in DOMAIN Automata[a].classes /\ d = <<a, d[2]>>
            BY <1>3, <3>3, <4>1 DEF AllClasses
          <5>2. d[2] \in S
            BY <1>2, <1>6, <4>1, <5>1
          <5> QED BY <3>2, <3>3, <5>2
        <4> QED BY <3>3, <4>1 DEF Firsts
      <3> HIDE DEF c
      <3> DEFINE x == FieldSaid(c, event.vals)
      <3>5. x \in Firstly(P, event.vals)
        BY <3>4 DEF Firstly
      <3>6. /\ x.fn = "update_state" /\ x.automaton = a /\ x.symbol = s
            /\ x.key = ConstructKey(FieldCall(c), event.vals)
        BY <3>3, FieldSaidIs
      <3> HIDE DEF x
      <3>7. PICK k \in DOMAIN calls : calls[k] = x
        BY <2>1, <3>5, <3>6, MadeOnce
      <3>8. k \in Updates /\ k \in UpdatesOf(a)
        BY <3>6, <3>7 DEF Updates, UpdatesOf
      <3>9. ASSUME NEW n \in UpdatesOf(a) PROVE n = k
        <4>1. PICK d \in Firsts(P, event.vals) : d[1] = a /\ calls[n] = FieldSaid(d, event.vals)
          BY <2>2
        <4>2. d = c
          BY <1>3, <3>3, <3>4, <4>1, FirstIsOne
        <4>3. calls[n] = calls[k] /\ calls[k].fn = "update_state" /\ n \in DOMAIN calls
          BY <3>6, <3>7, <4>1, <4>2 DEF x, UpdatesOf, Updates
        <4> QED BY <2>1, <4>3, MadeOnce
      <3>10. UpdatesOf(a) = {k}
        BY <3>8, <3>9
      <3> DEFINE e == EventOf(<<a, calls[k].symbol>>)
      <3>11. ASSUME e.base.type = "Variable", e.base.index = 0,
                    e.value.type = "Variable" => e.value.index = 1
             PROVE  calls[k].key = Named(<<e.base, e.value>>, event.vals)
        <4>1. e = EventOf(c)
          BY <3>6, <3>7 DEF c
        <4>2. Supported(c)
          BY <2>1, <3>3
        <4> QED BY <3>6, <3>7, <3>11, <4>1, <4>2, FieldNames
      <3>12. calls[k].symbol \in S /\ \A t \in S : calls[k].symbol <= t
        BY <3>2, <3>6, <3>7
      <3> QED BY <2>5, <3>8, <3>10, <3>11, <3>12 DEF ToldFirst
    <2> QED BY <2>4, <2>5
  <1> QED BY <1>5, <1>6

LEMMA HeardReaches ==
  ASSUME manifest \in Manifests, StoreHeard(event, calls) PROVE StoresReachEveryAutomaton
  BY HeardFirst DEF StoresReachEveryAutomaton, ToldFirst

LEMMA StoreHeardSame ==
  ASSUME manifest' = manifest, NEW e, NEW cs, StoreHeard(e, cs) PROVE StoreHeard(e, cs)'
  <1>1. AllClasses' = AllClasses /\ \A c : EventOf(c)' = EventOf(c)
    BY EventsSame
  <1>2. \A f : Assigns(f)' = Assigns(f)
    BY <1>1 DEF Assigns
  <1>3. \A c, vals : (Hits(c, vals)' <=> Hits(c, vals)) /\ FieldSaid(c, vals)' = FieldSaid(c, vals)
    BY <1>1 DEF Hits, FieldSaid, FieldCall
  <1>4. \A c : Supported(c)' <=> Supported(c)
    BY <1>1 DEF Supported
  <1>5. \A Q, vals : Firsts(Q, vals)' = Firsts(Q, vals)
    BY <1>3 DEF Firsts
  <1>6. \A Q, vals : Firstly(Q, vals)' = Firstly(Q, vals)
    BY <1>3, <1>5 DEF Firstly
  <1> QED BY <1>2, <1>4, <1>6 DEF StoreHeard

\* What the hook of a field makes is known.
LEMMA StoreSpeaks ==
  ASSUME NEW h, NEW P, FieldGood(h, P), NEW vals
  PROVE  Says(h, vals, Walk(h, vals)) /\ Makes(Walk(h, vals), Firstly(P, vals))
  <1>1. PICK out : Says(h, vals, out) /\ Makes(out, Firstly(P, vals))
    BY FieldTells DEF Telling
  <1>2. Walk(h, vals) = out
    BY <1>1, SaysIsWalk
  <1> QED BY <1>1, <1>2

LEMMA StoreTold ==
  ASSUME TypesOK, HooksOK, StoresGood, OkayOK, todo = {}, outcome = "ok",
         NEW m \in DOMAIN Modules, NEW f \in Modules[m].fields, NEW vals
  PROVE  /\ Makes(Run(StoreKey(m, f), vals), Firstly(Assigns(f), vals))
         /\ \A c \in Assigns(f) : Supported(c)
  <1> DEFINE h == At(hooks, StoreKey(m, f))
             q == Run(StoreKey(m, f), vals)
  <1>0. manifest \in Manifests
    BY DEF TypesOK
  <1>1. FieldsNow(m, f) = Assigns(f)
    BY <1>0, ClassesAre DEF FieldsNow, FieldsOf, Assigns, HasField
  <1>2. FieldGood(h, Assigns(f))
    BY <1>1 DEF StoresGood, StoreGood
  <1>3. Speaks(hooks, StoreKey(m, f))
    <2> HIDE DEF h
    <2>1. \A v : Says(h, v, Walk(h, v))
      BY <1>2, StoreSpeaks
    <2> QED BY <2>1 DEF Speaks, h
  <1>4. /\ IsSeq(q)
        /\ \A x : x # [fn |-> "printf"] => Times(q, x) = Number(hooks, StoreKey(m, f), vals, x)
    BY <1>3, RunIs
  <1>5. Makes(Walk(h, vals), Firstly(Assigns(f), vals))
    BY <1>2, StoreSpeaks
  <1>6. Makes(q, Firstly(Assigns(f), vals))
    BY <1>4, <1>5 DEF Makes, Number
  <1>7. h.ok
    BY AtIs DEF HooksOK, OkayOK
  <1> QED BY <1>2, <1>6, <1>7 DEF FieldGood

FieldsOK == fields \in [Fields -> Ints]

\* What is known of the program as it runs, and of its stores.
StoresOK == RunsOK /\ StoresGood /\ OkayOK /\ FieldsOK /\ StoreHeard(event, calls)

LEMMA HappensStored ==
  ASSUME StoresOK, NEW e, NEW cs, Happens(e, cs), StoreHeard(e, cs)
  PROVE  StoresGood' /\ OkayOK' /\ StoreHeard(event, calls)'
  <1>1. UNCHANGED Built
    BY HappensKeeps
  <1>2. manifest' = manifest /\ event' = e /\ calls' = cs
    BY <1>1 DEF Happens, Built
  <1>3. StoreHeard(e, cs)'
    BY <1>2, StoreHeardSame
  <1>4. StoresGood' /\ OkayOK'
    BY <1>1, StoresSame DEF StoresOK
  <1> QED BY <1>2, <1>3, <1>4

LEMMA StoreIs ==
  ASSUME StoresOK, NEW m \in DOMAIN Modules, NEW x \in Modules[m].accesses, NEW s, NEW v \in Ints,
         Store(m, x, s, v)
  PROVE  FieldsOK' /\ \E e, cs : Happens(e, cs) /\ e.what = "Field" /\ StoreHeard(e, cs)
  <1> DEFINE vals == <<s, v, fields[x.field]>>
             e == [what |-> "Field", access |-> x, field |-> x.field, vals |-> vals]
             cs == IF Instrumented(x) THEN Run(<<m, x.field, "Store">>, vals) ELSE <<>>
  <1>1. /\ Happens(e, cs) /\ fields' = [fields EXCEPT ![x.field] = v] /\ x.op = "store"
        /\ todo = {} /\ outcome = "ok"
    BY DEF Store, Happens, Running
  <1>2. x.field \in Modules[m].fields /\ x.field \in Fields
    BY ProgramAssumption DEF Fields
  <1>3. fields[x.field] \in Ints
    BY <1>2 DEF StoresOK, FieldsOK
  <1>4. FieldsOK'
    BY <1>1, <1>2 DEF StoresOK, FieldsOK
  <1>5. Instrumented(x) <=> x.note = "field"
    BY <1>1 DEF Instrumented, Interpret, FieldAnnotation, RawAnnotation
  <1>6. vals[2] \in Ints /\ vals[3] \in Ints
    BY <1>3
  <1>7. /\ e.what = "Field" /\ e.access = x /\ e.field = x.field /\ e.vals = vals
    OBVIOUS
  <1>8. CASE x.note = "field"
    <2>1. cs = Run(StoreKey(m, x.field), vals)
      BY <1>5, <1>8 DEF StoreKey
    <2> HIDE DEF cs, e, vals
    <2>2. /\ Makes(cs, Firstly(Assigns(x.field), vals))
          /\ \A c \in Assigns(x.field) : Supported(c)
      BY <1>1, <1>2, <2>1, StoreTold DEF StoresOK, RunsOK
    <2>3. StoreHeard(e, cs)
      BY <1>6, <1>7, <1>8, <2>2 DEF StoreHeard, IsStore
    <2> QED BY <1>1, <1>4, <1>7, <2>3
  <1>9. CASE x.note # "field"
    <2>1. cs = <<>>
      BY <1>5, <1>9
    <2> HIDE DEF cs, e, vals
    <2>2. StoreHeard(e, cs)
      BY <1>6, <1>7, <1>9, <2>1, MakesNone DEF StoreHeard, IsStore
    <2> QED BY <1>1, <1>4, <1>7, <2>2
  <1> QED BY <1>8, <1>9

\* Other events are no stores.
LEMMA NotStored ==
  ASSUME StoresOK, NEW e, NEW cs, Happens(e, cs), e.what # "Field", fields' = fields
  PROVE  StoresGood' /\ OkayOK' /\ StoreHeard(event, calls)' /\ FieldsOK'
  <1>1. StoreHeard(e, cs)
    BY DEF StoreHeard
  <1>2. FieldsOK'
    BY DEF StoresOK, FieldsOK
  <1> QED BY <1>1, <1>2, HappensStored

LEMMA StoresStep ==
  ASSUME StoresOK, [Next]_vars PROVE StoresOK'
  <1>0. RunsOK'
    BY RunsStep DEF StoresOK
  <1> SUFFICES StoresGood' /\ OkayOK' /\ StoreHeard(event, calls)' /\ FieldsOK'
    BY <1>0 DEF StoresOK
  <1>1. ASSUME NEW m \in DOMAIN Modules, NEW k \in DOMAIN Passes, Instrument(m, k)
        PROVE  StoresGood' /\ OkayOK' /\ StoreHeard(event, calls)' /\ FieldsOK'
    <2>1. StoresGood' /\ OkayOK'
      BY <1>1, InstrumentStores DEF StoresOK, RunsOK
    <2>2. manifest' = manifest /\ event' = event /\ calls' = calls /\ fields' = fields
      BY <1>1 DEF Instrument
    <2>3. StoreHeard(event, calls)'
      BY <2>2, StoreHeardSame DEF StoresOK
    <2> QED BY <2>1, <2>2, <2>3 DEF StoresOK, FieldsOK
  <1>2. ASSUME NEW m \in DOMAIN Modules, NEW fn \in DOMAIN Params,
               NEW args \in [1 .. Params[fn] -> Ints], Call(m, fn, args)
        PROVE  StoresGood' /\ OkayOK' /\ StoreHeard(event, calls)' /\ FieldsOK'
    <2> DEFINE e == FnEvent("Entry", fn, m, args)
               cs == Run(<<m, fn, "Entry">>, args) \o RunCallee(fn, "Entry", args)
    <2>1. Happens(e, cs) /\ fields' = fields
      BY <1>2 DEF Call, FnEvent
    <2>2. e.what # "Field"
      BY DEF FnEvent
    <2> HIDE DEF e, cs
    <2> QED BY <2>1, <2>2, NotStored
  <1>3. ASSUME NEW ret, Return(ret)
        PROVE  StoresGood' /\ OkayOK' /\ StoreHeard(event, calls)' /\ FieldsOK'
    <2> DEFINE f == Last(stack)
               vals == f.args \o ret
               e == FnEvent("Exit", f.fn, f.from, vals)
               cs == RunCallee(f.fn, "Exit", vals) \o Run(<<f.from, f.fn, "Exit">>, vals)
    <2>1. Happens(e, cs) /\ fields' = fields
      BY <1>3 DEF Return, FnEvent
    <2>2. e.what # "Field"
      BY DEF FnEvent
    <2> HIDE DEF e, cs
    <2> QED BY <2>1, <2>2, NotStored
  <1>4. ASSUME NEW a, NEW vals, ReachAssertion(a, vals)
        PROVE  StoresGood' /\ OkayOK' /\ StoreHeard(event, calls)' /\ FieldsOK'
    <2> DEFINE e == [what |-> "Assert", automaton |-> a, vals |-> vals]
               cs == Run(<<"assertion", a, "Reached">>, vals)
    <2>1. Happens(e, cs) /\ fields' = fields
      BY <1>4 DEF ReachAssertion
    <2>2. e.what # "Field"
      OBVIOUS
    <2> HIDE DEF e, cs
    <2> QED BY <2>1, <2>2, NotStored
  <1>5. ASSUME UNCHANGED vars
        PROVE  StoresGood' /\ OkayOK' /\ StoreHeard(event, calls)' /\ FieldsOK'
    <2>1. /\ UNCHANGED Built /\ manifest' = manifest /\ event' = event
          /\ calls' = calls /\ fields' = fields
      BY <1>5 DEF vars, Built
    <2>2. StoreHeard(event, calls)'
      BY <2>1, StoreHeardSame DEF StoresOK
    <2>3. StoresGood' /\ OkayOK'
      BY <2>1, StoresSame DEF StoresOK
    <2> QED BY <2>1, <2>2, <2>3 DEF StoresOK, FieldsOK
  <1>6. ASSUME NEW m \in DOMAIN Modules, NEW x \in Modules[m].accesses, NEW s, NEW v \in Ints,
               Store(m, x, s, v)
        PROVE  StoresGood' /\ OkayOK' /\ StoreHeard(event, calls)' /\ FieldsOK'
    BY <1>6, StoreIs, HappensStored
  <1> QED BY <1>1, <1>2, <1>3, <1>4, <1>5, <1>6 DEF Next, Finished

LEMMA StoresBegin == ASSUME Init PROVE StoresOK
  <1>1. RunsOK
    BY RunsInit
  <1>2. FieldsOK
    BY WidthAssumption DEF Init, FieldsOK, Ints
  <1>3. StoreHeard(event, calls)
    BY DEF Init, Nothing, StoreHeard
  <1> QED BY <1>1, <1>2, <1>3, StoresInit DEF StoresOK

(***************************************************************************)
(* Whatever the manifest, the program and what it does: a store to a field *)
(* is told to every automaton with a symbol it is an occurrence of, once,  *)
(* as the first of these symbols, and to no other                          *)
(* (Spec => []StoresReachEveryAutomaton).  The invariant is StoresGood:    *)
(* in the hook of a field each automaton has a chain of its own, which     *)
(* leaves for the next automaton's whether or not one of its tests         *)
(* succeeded.                                                              *)
(***************************************************************************)
THEOREM StoresAreTold == Spec => []StoresReachEveryAutomaton
  <1>1. Init => StoresOK
    BY StoresBegin
  <1>2. StoresOK /\ [Next]_vars => StoresOK'
    BY StoresStep
  <1>3. StoresOK => StoresReachEveryAutomaton
    BY HeardReaches DEF StoresOK, RunsOK, TypesOK
  <1> QED BY <1>1, <1>2, <1>3, PTL DEF Spec

-----------------------------------------------------------------------------
(* Where lifetimes begin and end *)

\* The calls of fn among those in progress.
Depth(q, fn) == Cardinality({k \in DOMAIN q : q[k].fn = fn})

LEMMA DepthMore ==
  ASSUME NEW n \in Nat, NEW p, NEW q, DOMAIN p = 1 .. n, DOMAIN q = 1 .. n + 1,
         \A k \in 1 .. n : q[k] = p[k], NEW fn
  PROVE  /\ Depth(p, fn) \in Nat
         /\ Depth(q, fn) = Depth(p, fn) + (IF q[n + 1].fn = fn THEN 1 ELSE 0)
  <1> DEFINE S == {k \in DOMAIN p : p[k].fn = fn}
             T == {k \in DOMAIN q : q[k].fn = fn}
  <1>1. IsFiniteSet(S)
    <2>1. IsFiniteSet(1 .. n)
      BY FS_Interval
    <2> QED BY <2>1, FS_Subset
  <1>2. Cardinality(S) \in Nat
    BY <1>1, FS_CardinalityType
  <1>3. n + 1 \notin S /\ Depth(p, fn) = Cardinality(S) /\ Depth(q, fn) = Cardinality(T)
    BY DEF Depth
  <1>4. CASE q[n + 1].fn = fn
    <2>1. T = S \cup {n + 1}
      BY <1>4
    <2>2. Cardinality(S \cup {n + 1}) = Cardinality(S) + 1
      BY <1>1, <1>3, FS_AddElement
    <2> HIDE DEF S, T
    <2> QED BY <1>2, <1>3, <1>4, <2>1, <2>2
  <1>5. CASE q[n + 1].fn # fn
    <2>1. T = S
      BY <1>5
    <2> HIDE DEF S, T
    <2> QED BY <1>2, <1>3, <1>5, <2>1
  <1> QED BY <1>4, <1>5

LEMMA SunFnsAre == "sunrise" \in SunFns /\ "sunset" \in SunFns
  BY DEF SunFns

\* What an event is to a lifetime, and what libtesla is told.
Begins(l, e) ==
  manifest.lifetimes[l].init.ctx = "Callee" /\ OccursAs(manifest.lifetimes[l].init, e)
Ends(l, e) ==
  /\ \E m \in DOMAIN Modules : /\ DefinedIn(m, manifest.lifetimes[l].init)
                               /\ DefinedIn(m, manifest.lifetimes[l].cleanup)
  /\ OccursAs(manifest.lifetimes[l].cleanup, e)
Due(f, l, e) == IF f = "sunrise" THEN Begins(l, e) ELSE Ends(l, e)

FnOf(l) == manifest.lifetimes[l].init.fn

Rises(cs, l) == Times(cs, Tells("sunrise", l))
Sets(cs, l) == Times(cs, Tells("sunset", l))

SunHeard(e, cs) ==
  \A l \in DOMAIN manifest.lifetimes :
    /\ Rises(cs, l) = (IF Begins(l, e) THEN 1 ELSE 0)
    /\ Sets(cs, l) = (IF Ends(l, e) THEN 1 ELSE 0)

LEMMA SunNotPrinted ==
  ASSUME NEW f \in SunFns, NEW l
  PROVE  Tells(f, l) # [fn |-> "printf"] /\ Tells(f, l).fn # "update_state"
  <1>1. Tells(f, l).fn = f /\ f # "printf" /\ f # "update_state"
    BY SunIs DEF SunFns, Tells
  <1>2. [fn |-> "printf"].fn = "printf"
    OBVIOUS
  <1> QED BY <1>1, <1>2

\* Bounds are calls and returns.
LEMMA BoundOccurs ==
  ASSUME manifest \in Manifests, NEW l \in DOMAIN manifest.lifetimes,
         NEW p \in {manifest.lifetimes[l].init, manifest.lifetimes[l].cleanup}, NEW e
  PROVE  OccursAs(p, e) <=>
           /\ e.what = "Fn" /\ e.fn = p.fn /\ e.dir = p.dir
           /\ p.ctx = "Callee" => e.fn \in DefinedFns
           /\ \A k \in DOMAIN Patterns(p) : Agrees(Patterns(p)[k], e.vals[k])
  <1>1. p.kind = "Fn"
    BY BoundIs DEF IsFnEvent, IsFn
  <1> QED BY <1>1 DEF OccursAs

LEMMA NotDue ==
  ASSUME manifest \in Manifests, NEW l \in DOMAIN manifest.lifetimes, NEW e,
         e.what # "Fn" \/ e.fn \notin DefinedFns
  PROVE  ~Begins(l, e) /\ ~Ends(l, e)
  <1>1. ~Begins(l, e)
    BY BoundOccurs DEF Begins
  <1>2. ~Ends(l, e)
    BY BoundOccurs DEF Ends, DefinedIn
  <1> QED BY <1>1, <1>2

\* All modules have been instrumented: the bounds have their hooks.
LEMMA DueIs ==
  ASSUME manifest \in Manifests, todo = {}, NEW l \in DOMAIN manifest.lifetimes,
         NEW m, NEW fn \in DefinedFns, NEW dir, NEW vals \in Values(fn, dir), NEW f \in SunFns
  PROVE  Due(f, l, FnEvent(dir, fn, m, vals)) <=>
           /\ l \in (IF f = "sunrise" THEN BegunNow ELSE EndedNow)
           /\ Strikes(Bound(f, l), fn, dir, vals)
  <1> DEFINE i == manifest.lifetimes[l].init
             z == manifest.lifetimes[l].cleanup
             e == FnEvent(dir, fn, m, vals)
  <1>1. ASSUME NEW p \in {i, z}
        PROVE  (p.fn = fn /\ p.dir = dir /\ Matches(p, vals)) <=> OccursAs(p, e)
    <2>1. PICK c \in AllClasses : p = EventOf(c) /\ IsFnEvent(p)
      BY BoundIs
    <2>2. Concerns(c, fn, dir, vals) <=> OccursAs(EventOf(c), e)
      BY <2>1, ConcernsIs DEF IsFnEvent
    <2> HIDE DEF e
    <2> QED BY <2>1, <2>2 DEF Concerns
  <1>2. Past(2) = DOMAIN Modules
    BY DEF Past
  <1>3. e.fn = fn
    BY DEF FnEvent
  <1> HIDE DEF e
  <1>4. CASE f = "sunrise"
    <2>1. Strikes(Bound(f, l), fn, dir, vals) <=> OccursAs(i, e)
      BY <1>1, <1>4 DEF Strikes, Bound
    <2>2. OccursAs(i, e) => i.fn = fn
      BY <1>3, BoundOccurs
    <2>3. ASSUME OccursAs(i, e) PROVE i.ctx = "Callee" <=> l \in BegunNow
      <3>1. i.fn \in DefinedFns
        BY <2>2, <2>3
      <3> QED BY <1>2, <3>1 DEF BegunNow, Starts, DefinedIn, DefinedFns
    <2> QED BY <1>4, <2>1, <2>3 DEF Due, Begins, e
  <1>5. CASE f # "sunrise"
    <2>1. Strikes(Bound(f, l), fn, dir, vals) <=> OccursAs(z, e)
      BY <1>1, <1>5 DEF Strikes, Bound
    <2>2. l \in EndedNow <=> \E n \in DOMAIN Modules : DefinedIn(n, i) /\ DefinedIn(n, z)
      BY <1>2 DEF EndedNow, Starts, Stops
    <2> QED BY <1>5, <2>1, <2>2 DEF Due, Ends, e
  <1> QED BY <1>4, <1>5

\* The hooks of a function say what begins and ends with it.
LEMMA SunTold ==
  ASSUME TypesOK, HooksGood, todo = {}, NEW l \in DOMAIN manifest.lifetimes,
         NEW f \in SunFns, NEW m \in DOMAIN Modules, NEW fn, NEW dir \in {"Entry", "Exit"},
         NEW vals \in Values(fn, dir)
  PROVE  LET n == IF Due(f, l, FnEvent(dir, fn, m, vals)) THEN 1 ELSE 0
         IN /\ Times(Run(<<m, fn, dir>>, vals) \o RunCallee(fn, dir, vals), Tells(f, l)) = n
            /\ Times(RunCallee(fn, dir, vals) \o Run(<<m, fn, dir>>, vals), Tells(f, l)) = n
  <1> DEFINE p == Run(<<m, fn, dir>>, vals)
             q == RunCallee(fn, dir, vals)
             x == Tells(f, l)
             e == FnEvent(dir, fn, m, vals)
             n == IF Due(f, l, e) THEN 1 ELSE 0
  <1>0. manifest \in Manifests /\ x # [fn |-> "printf"]
    BY SunNotPrinted DEF TypesOK
  <1>1. /\ Exact(hooks, "callee", CalleesDone) /\ Dawns(hooks, "callee", "sunrise", BegunNow)
        /\ Dawns(hooks, "callee", "sunset", EndedNow)
        /\ Exact(hooks, m, CallersDone[m]) /\ Dawns(hooks, m, f, {})
    BY DEF HooksGood, Good
  <1>2. Speaks(hooks, <<m, fn, dir>>) /\ Speaks(hooks, <<"callee", fn, dir>>)
    BY <1>1 DEF Exact
  <1>3. IsSeq(p) /\ Times(p, x) = 0
    <2>1. Number(hooks, <<m, fn, dir>>, vals, x) = 0
      BY <1>1 DEF Dawns
    <2> HIDE DEF x
    <2> QED BY <1>0, <1>2, <2>1, RunIs
  <1>4. IsSeq(q) /\ Times(q, x) = n
    <2>1. CASE fn \in DefinedFns
      <3>1. Due(f, l, e) <=> /\ l \in (IF f = "sunrise" THEN BegunNow ELSE EndedNow)
                             /\ Strikes(Bound(f, l), fn, dir, vals)
        BY <1>0, <2>1, DueIs
      <3> HIDE DEF e
      <3>2. Number(hooks, <<"callee", fn, dir>>, vals, x) = n
        <4>1. CASE f = "sunrise"
          BY <1>1, <3>1, <4>1 DEF Dawns
        <4>2. CASE f = "sunset"
          BY <1>1, <3>1, <4>2 DEF Dawns
        <4> QED BY <4>1, <4>2 DEF SunFns
      <3>3. q = Run(<<"callee", fn, dir>>, vals)
        BY <2>1 DEF RunCallee
      <3> HIDE DEF x, q, n
      <3> QED BY <1>0, <1>2, <3>2, <3>3, RunIs
    <2>2. CASE fn \notin DefinedFns
      <3>1. e.fn = fn
        BY DEF FnEvent
      <3> HIDE DEF e
      <3>2. ~Due(f, l, e)
        BY <1>0, <2>2, <3>1, NotDue DEF Due
      <3>3. q = <<>> /\ n = 0
        BY <2>2, <3>2 DEF RunCallee
      <3> HIDE DEF x, q, n
      <3> QED BY <3>3, NoneIsSeq, TimesOfNone
    <2> QED BY <2>1, <2>2
  <1>5. n \in Nat
    OBVIOUS
  <1> HIDE DEF x, p, q, n
  <1>6. Times(p \o q, x) = n /\ Times(q \o p, x) = n
    BY <1>3, <1>4, <1>5, TimesJoined
  <1> QED BY <1>6 DEF x, p, q, n

\* The same of the calls that are made when a function is called or returns.
LEMMA FnSunHeard ==
  ASSUME TypesOK, HooksGood, todo = {}, NEW m \in DOMAIN Modules, NEW fn,
         NEW dir \in {"Entry", "Exit"}, NEW vals \in Values(fn, dir)
  PROVE  /\ SunHeard(FnEvent(dir, fn, m, vals), Run(<<m, fn, dir>>, vals) \o RunCallee(fn, dir, vals))
         /\ SunHeard(FnEvent(dir, fn, m, vals), RunCallee(fn, dir, vals) \o Run(<<m, fn, dir>>, vals))
  <1> DEFINE p == Run(<<m, fn, dir>>, vals)
             q == RunCallee(fn, dir, vals)
             e == FnEvent(dir, fn, m, vals)
  <1>1. ASSUME NEW l \in DOMAIN manifest.lifetimes, NEW f \in SunFns
        PROVE  /\ Times(p \o q, Tells(f, l)) = (IF Due(f, l, e) THEN 1 ELSE 0)
               /\ Times(q \o p, Tells(f, l)) = (IF Due(f, l, e) THEN 1 ELSE 0)
    BY SunTold
  <1> HIDE DEF p, q, e
  <1>2. ASSUME NEW l \in DOMAIN manifest.lifetimes
        PROVE  /\ Rises(p \o q, l) = (IF Begins(l, e) THEN 1 ELSE 0)
               /\ Rises(q \o p, l) = (IF Begins(l, e) THEN 1 ELSE 0)
    BY <1>1, SunFnsAre DEF Due, Rises
  <1>3. ASSUME NEW l \in DOMAIN manifest.lifetimes
        PROVE  /\ Sets(p \o q, l) = (IF Ends(l, e) THEN 1 ELSE 0)
               /\ Sets(q \o p, l) = (IF Ends(l, e) THEN 1 ELSE 0)
    BY <1>1, SunFnsAre DEF Due, Sets
  <1>4. SunHeard(e, p \o q) /\ SunHeard(e, q \o p)
    BY <1>2, <1>3 DEF SunHeard
  <1> QED BY <1>4 DEF p, q, e

\* A lifetime that is the calls of a function begins and ends with them.
LEMMA WithinIs ==
  ASSUME manifest \in Manifests, NEW l \in DOMAIN manifest.lifetimes, Within(l),
         NEW e, e.what = "Fn", e.dir \in {"Entry", "Exit"}
  PROVE  /\ Begins(l, e) <=> e.fn = FnOf(l) /\ e.dir = "Entry"
         /\ Ends(l, e) <=> e.fn = FnOf(l) /\ e.dir = "Exit"
  <1> DEFINE i == manifest.lifetimes[l].init
             z == manifest.lifetimes[l].cleanup
  <1>1. /\ i.ctx = "Callee" /\ z.ctx = "Callee" /\ i.dir = "Entry" /\ z.dir = "Exit"
        /\ i.fn = z.fn /\ i.fn \in DefinedFns
        /\ \A p \in ToSet(Patterns(i) \o Patterns(z)) : p.type # "Constant"
    BY DEF Within
  <1>2. IsSeq(Patterns(i)) /\ IsSeq(Patterns(z))
    BY BoundIs, PatternsAre
  <1>3. ToSet(Patterns(i) \o Patterns(z)) = ToSet(Patterns(i)) \cup ToSet(Patterns(z))
    BY <1>2, Joined
  <1>4. ASSUME NEW p \in {i, z}
        PROVE  \A k \in DOMAIN Patterns(p) : Agrees(Patterns(p)[k], e.vals[k])
    BY <1>1, <1>3 DEF Agrees, ToSet
  <1>5. PICK m \in DOMAIN Modules : i.fn \in Modules[m].defs
    BY <1>1 DEF DefinedFns
  <1>6. DefinedIn(m, i) /\ DefinedIn(m, z)
    BY <1>1, <1>5 DEF DefinedIn
  <1>7. OccursAs(i, e) <=> e.fn = i.fn /\ e.dir = "Entry"
    BY <1>1, <1>4, BoundOccurs
  <1>8. OccursAs(z, e) <=> e.fn = i.fn /\ e.dir = "Exit"
    BY <1>1, <1>4, BoundOccurs
  <1> QED BY <1>1, <1>6, <1>7, <1>8 DEF Begins, Ends, FnOf

LEMMA DepthIs ==
  ASSUME NEW q, IsSeq(q), NEW fn PROVE Depth(q, fn) \in Nat
  <1> DEFINE S == {k \in DOMAIN q : q[k].fn = fn}
  <1>1. Len(q) \in Nat /\ DOMAIN q = 1 .. Len(q)
    BY DEF IsSeq
  <1>2. IsFiniteSet(1 .. Len(q))
    BY <1>1, FS_Interval
  <1>3. IsFiniteSet(S)
    BY <1>1, <1>2, FS_Subset
  <1> QED BY <1>3, FS_CardinalityType DEF Depth

\* What is invariant of the lifetimes.
OpenOK ==
  /\ DOMAIN open = {BuildLifetime(l) : l \in DOMAIN manifest.lifetimes}
  /\ SunHeard(event, calls)
  /\ \A l \in DOMAIN manifest.lifetimes :
       Within(l) => open[BuildLifetime(l)] = Depth(stack, FnOf(l))

LEMMA OpenFollows == ASSUME OpenOK PROVE LifetimesFollowBounds
  <1> SUFFICES ASSUME NEW l \in DOMAIN manifest.lifetimes
               PROVE  /\ Signals("sunrise", l) = (IF Begins(l, event) THEN 1 ELSE 0)
                      /\ Signals("sunset", l) = (IF Ends(l, event) THEN 1 ELSE 0)
                      /\ Within(l) => open[BuildLifetime(l)] = Depth(stack, FnOf(l))
    BY DEF LifetimesFollowBounds, Begins, Ends, Depth, FnOf
  <1>1. Signals("sunrise", l) = Rises(calls, l) /\ Signals("sunset", l) = Sets(calls, l)
    BY DEF Signals, Rises, Sets, Times, Where, Tells
  <1> QED BY <1>1 DEF OpenOK, SunHeard

LEMMA LifetimesSame ==
  ASSUME manifest' = manifest, NEW l
  PROVE  /\ BuildLifetime(l)' = BuildLifetime(l) /\ FnOf(l)' = FnOf(l)
         /\ Within(l)' <=> Within(l)
         /\ \A e : (Begins(l, e)' <=> Begins(l, e)) /\ (Ends(l, e)' <=> Ends(l, e))
         /\ \A cs : Rises(cs, l)' = Rises(cs, l) /\ Sets(cs, l)' = Sets(cs, l)
  <1>1. BuildLifetime(l)' = BuildLifetime(l) /\ FnOf(l)' = FnOf(l)
    BY DEF BuildLifetime, FnOf
  <1>2. Within(l)' <=> Within(l)
    BY DEF Within
  <1>3. \A e : (Begins(l, e)' <=> Begins(l, e)) /\ (Ends(l, e)' <=> Ends(l, e))
    BY DEF Begins, Ends
  <1>4. \A cs : Rises(cs, l)' = Rises(cs, l) /\ Sets(cs, l)' = Sets(cs, l)
    BY <1>1 DEF Rises, Sets, Tells
  <1> QED BY <1>1, <1>2, <1>3, <1>4

LEMMA SunHeardSame ==
  ASSUME manifest' = manifest, NEW e, NEW cs, SunHeard(e, cs) PROVE SunHeard(e, cs)'
  BY LifetimesSame DEF SunHeard

\* The sunrises and sunsets of an event are those of the calls its hooks make.
LEMMA OpenMoves ==
  ASSUME OpenOK, NEW e, NEW cs, Happens(e, cs), SunHeard(e, cs),
         \A l \in DOMAIN manifest.lifetimes :
           Within(l) => Depth(stack', FnOf(l)) =
                          (Depth(stack, FnOf(l)) + Rises(cs, l)) - Sets(cs, l)
  PROVE  OpenOK'
  <1>1. manifest' = manifest /\ event' = e /\ calls' = cs
    BY DEF Happens
  <1>2. DOMAIN open' = DOMAIN open
    BY DEF Happens
  <1>3. ASSUME NEW l \in DOMAIN manifest.lifetimes
        PROVE  open'[BuildLifetime(l)] = (open[BuildLifetime(l)] + Rises(cs, l)) - Sets(cs, l)
    <2>1. BuildLifetime(l) \in DOMAIN open
      BY DEF OpenOK
    <2> QED BY <2>1 DEF Happens, Rises, Sets, Times, Where, Tells
  <1>4. ASSUME NEW l \in DOMAIN manifest.lifetimes, Within(l)
        PROVE  open'[BuildLifetime(l)] = Depth(stack', FnOf(l))
    <2>1. open[BuildLifetime(l)] = Depth(stack, FnOf(l))
      BY <1>4 DEF OpenOK
    <2> QED BY <1>3, <1>4, <2>1
  <1>5. SunHeard(event, calls)'
    <2>1. SunHeard(e, cs)'
      BY <1>1, SunHeardSame
    <2> QED BY <1>1, <2>1 DEF SunHeard
  <1>6. DOMAIN open' = {BuildLifetime(l)' : l \in DOMAIN manifest'.lifetimes}
    BY <1>1, <1>2, LifetimesSame DEF OpenOK
  <1>7. \A l \in DOMAIN manifest'.lifetimes :
          Within(l)' => open'[BuildLifetime(l)'] = Depth(stack', FnOf(l)')
    BY <1>1, <1>4, LifetimesSame
  <1>8. \A l : Depth(stack, FnOf(l))' = Depth(stack', FnOf(l)')
    BY DEF Depth
  <1> QED BY <1>5, <1>6, <1>7, <1>8 DEF OpenOK

\* What is neither a call nor a return is no bound.
LEMMA OpenStays ==
  ASSUME TypesOK, OpenOK, StackOK, NEW e, NEW cs, Happens(e, cs), stack' = stack,
         e.what # "Fn",
         \A l \in DOMAIN manifest.lifetimes : Rises(cs, l) = 0 /\ Sets(cs, l) = 0
  PROVE  OpenOK'
  <1>1. manifest \in Manifests
    BY DEF TypesOK
  <1>2. SunHeard(e, cs)
    BY <1>1, NotDue DEF SunHeard
  <1>3. \A l : Depth(stack, FnOf(l)) \in Nat
    BY DepthIs DEF StackOK
  <1>4. \A l \in DOMAIN manifest.lifetimes :
          Depth(stack', FnOf(l)) = (Depth(stack, FnOf(l)) + Rises(cs, l)) - Sets(cs, l)
    BY <1>3
  <1> QED BY <1>2, <1>4, OpenMoves

\* No sunrise or sunset is made.
LEMMA MakesNoSun ==
  ASSUME NEW cs, NEW T, Makes(cs, T), \A x \in T : x.fn = "update_state", NEW l
  PROVE  Rises(cs, l) = 0 /\ Sets(cs, l) = 0
  <1>1. \A f \in SunFns : Tells(f, l) # [fn |-> "printf"] /\ Tells(f, l) \notin T
    BY SunNotPrinted
  <1>2. \A f \in SunFns : Times(cs, Tells(f, l)) = 0
    BY <1>1 DEF Makes
  <1> QED BY <1>2 DEF Rises, Sets, SunFns

LEMMA StoreNoSun ==
  ASSUME NEW e, NEW cs, StoreHeard(e, cs), e.what = "Field", NEW l
  PROVE  Rises(cs, l) = 0 /\ Sets(cs, l) = 0
  <1>1. CASE e.access.note = "field"
    <2>1. Makes(cs, Firstly(Assigns(e.field), e.vals))
      BY <1>1 DEF StoreHeard
    <2>2. \A x \in Firstly(Assigns(e.field), e.vals) : x.fn = "update_state"
      BY FieldSaidIs DEF Firstly
    <2> QED BY <2>1, <2>2, MakesNoSun
  <1>2. CASE e.access.note # "field"
    <2>1. Makes(cs, {})
      BY <1>2 DEF StoreHeard
    <2> QED BY <2>1, MakesNoSun
  <1> QED BY <1>1, <1>2

LEMMA SiteNoSun ==
  ASSUME TypesOK, HooksGood, todo = {}, NEW a \in DOMAIN Automata,
         a \in UNION {Sites(m) : m \in DOMAIN Modules}, NEW vals, NEW l
  PROVE  LET cs == Run(<<"assertion", a, "Reached">>, vals)
         IN Rises(cs, l) = 0 /\ Sets(cs, l) = 0
  <1> DEFINE cs == Run(<<"assertion", a, "Reached">>, vals)
  <1>0. manifest \in Manifests
    BY DEF TypesOK
  <1>1. a \in SitesDone
    BY <1>0, AllDone
  <1>2. SiteExact(hooks, a)
    BY <1>1 DEF HooksGood, Good
  <1>3. Speaks(hooks, SiteKey(a))
    BY <1>2 DEF SiteExact
  <1>4. ASSUME NEW f \in SunFns PROVE Times(cs, Tells(f, l)) = 0
    <2>1. Tells(f, l) # [fn |-> "printf"] /\ Tells(f, l).fn # "update_state"
      BY SunNotPrinted
    <2>2. SiteReport(a, vals).fn = "update_state"
      BY ReportIs DEF SiteReport
    <2>3. Tells(f, l) # SiteReport(a, vals)
      BY <2>1, <2>2
    <2>4. Number(hooks, SiteKey(a), vals, Tells(f, l)) = 0
      BY <1>2, <2>1, <2>3 DEF SiteExact
    <2>5. cs = Run(SiteKey(a), vals)
      BY DEF SiteKey
    <2> HIDE DEF cs
    <2> QED BY <1>3, <2>1, <2>4, <2>5, RunIs
  <1> QED BY <1>4 DEF Rises, Sets, SunFns

\* A call of a function begins, or one ends.
LEMMA CallRises ==
  ASSUME RunsOK, OpenOK, NEW m \in DOMAIN Modules, NEW fn \in DOMAIN Params, NEW args,
         args \in [1 .. Params[fn] -> Ints], Call(m, fn, args)
  PROVE  OpenOK'
  <1> DEFINE e == FnEvent("Entry", fn, m, args)
             cs == Run(<<m, fn, "Entry">>, args) \o RunCallee(fn, "Entry", args)
             f == [from |-> m, fn |-> fn, args |-> args]
  <1>1. todo = {} /\ Happens(e, cs) /\ args \in Values(fn, "Entry")
    BY CallIs
  <1>2. stack' = Append(stack, f) /\ f.fn = fn
    BY DEF Call
  <1>3. TypesOK /\ HooksGood /\ IsSeq(stack) /\ manifest \in Manifests
    BY DEF RunsOK, StackOK, TypesOK
  <1>4. SunHeard(e, cs)
    BY <1>1, <1>3, FnSunHeard
  <1>5. e.what = "Fn" /\ e.fn = fn /\ e.dir = "Entry"
    BY DEF FnEvent
  <1> HIDE DEF e, cs, f
  <1>6. ASSUME NEW l \in DOMAIN manifest.lifetimes, Within(l)
        PROVE  Rises(cs, l) = (IF fn = FnOf(l) THEN 1 ELSE 0) /\ Sets(cs, l) = 0
    <2>1. (Begins(l, e) <=> fn = FnOf(l)) /\ ~Ends(l, e)
      BY <1>3, <1>5, <1>6, WithinIs
    <2> QED BY <1>4, <2>1 DEF SunHeard
  <1>7. ASSUME NEW l \in DOMAIN manifest.lifetimes, Within(l)
        PROVE  Depth(stack', FnOf(l)) = (Depth(stack, FnOf(l)) + Rises(cs, l)) - Sets(cs, l)
    <2>1. /\ Len(stack) \in Nat /\ DOMAIN stack = 1 .. Len(stack)
          /\ DOMAIN stack' = 1 .. Len(stack) + 1
          /\ \A k \in 1 .. Len(stack) : stack'[k] = stack[k]
          /\ stack'[Len(stack) + 1] = f
      BY <1>2, <1>3, OneMore
    <2>2. /\ Depth(stack, FnOf(l)) \in Nat
          /\ Depth(stack', FnOf(l)) =
               Depth(stack, FnOf(l)) + (IF stack'[Len(stack) + 1].fn = FnOf(l) THEN 1 ELSE 0)
      BY <2>1, DepthMore
    <2> QED BY <1>2, <1>6, <1>7, <2>1, <2>2
  <1> QED BY <1>1, <1>4, <1>7, OpenMoves

LEMMA ReturnSets ==
  ASSUME RunsOK, OpenOK, NEW ret, Return(ret)
  PROVE  OpenOK'
  <1> DEFINE f == Last(stack)
             vals == f.args \o ret
             e == FnEvent("Exit", f.fn, f.from, vals)
             cs == RunCallee(f.fn, "Exit", vals) \o Run(<<f.from, f.fn, "Exit">>, vals)
  <1>1. todo = {} /\ Happens(e, cs) /\ IsFrame(f) /\ vals \in Values(f.fn, "Exit")
    BY ReturnIs
  <1>2. stack # <<>> /\ stack' = Front(stack)
    BY DEF Return
  <1>3. /\ TypesOK /\ HooksGood /\ StackOK /\ f.from \in DOMAIN Modules
        /\ manifest \in Manifests
    BY <1>1 DEF RunsOK, IsFrame, TypesOK
  <1>4. f = stack[Len(stack)]
    BY DEF Last
  <1> HIDE DEF f, vals
  <1>5. SunHeard(e, cs)
    BY <1>1, <1>3, FnSunHeard
  <1>6. e.what = "Fn" /\ e.fn = f.fn /\ e.dir = "Exit"
    BY DEF FnEvent
  <1> HIDE DEF e, cs
  <1>7. ASSUME NEW l \in DOMAIN manifest.lifetimes, Within(l)
        PROVE  Rises(cs, l) = 0 /\ Sets(cs, l) = IF f.fn = FnOf(l) THEN 1 ELSE 0
    <2>1. ~Begins(l, e) /\ (Ends(l, e) <=> f.fn = FnOf(l))
      BY <1>3, <1>6, <1>7, WithinIs
    <2> QED BY <1>5, <2>1 DEF SunHeard
  <1>8. ASSUME NEW l \in DOMAIN manifest.lifetimes, Within(l)
        PROVE  Depth(stack', FnOf(l)) = (Depth(stack, FnOf(l)) + Rises(cs, l)) - Sets(cs, l)
    <2>1. /\ Len(stack) \in Nat \ {0}
          /\ DOMAIN stack = 1 .. Len(stack) /\ DOMAIN stack' = 1 .. Len(stack) - 1
          /\ \A k \in DOMAIN stack' : stack'[k] = stack[k]
      BY <1>2, <1>3, StackPop
    <2>2. PICK n \in Nat : Len(stack) = n + 1
      <3>1. Len(stack) - 1 \in Nat /\ Len(stack) = (Len(stack) - 1) + 1
        BY <2>1
      <3> QED BY <3>1
    <2>3. DOMAIN stack = 1 .. n + 1 /\ DOMAIN stack' = 1 .. n
          /\ \A k \in 1 .. n : stack[k] = stack'[k]
      BY <2>1, <2>2
    <2>4. /\ Depth(stack', FnOf(l)) \in Nat
          /\ Depth(stack, FnOf(l)) =
               Depth(stack', FnOf(l)) + (IF stack[n + 1].fn = FnOf(l) THEN 1 ELSE 0)
      BY <2>3, DepthMore
    <2> QED BY <1>4, <1>7, <1>8, <2>2, <2>4
  <1> QED BY <1>1, <1>5, <1>8, OpenMoves

(***************************************************************************)
(* Whatever the manifest, the program and what it does: libtesla is told   *)
(* of the beginning and of the end of every lifetime exactly when an event *)
(* is one of its bounds, as the callee sees it, and of no other lifetime's *)
(* (Spec => []LifetimesFollowBounds), so that an automaton which lives     *)
(* within a function is awake just while calls of the function are in      *)
(* progress.  The invariant OpenOK says so of the last event and counts    *)
(* the calls; it takes from HooksGood which hooks call libtesla for which  *)
(* lifetime, and from StoresGood that the hooks of fields do not.          *)
(***************************************************************************)
THEOREM LifetimesAreTold == Spec => []LifetimesFollowBounds
  <1>1. Init => StoresOK /\ OpenOK
    <2> SUFFICES ASSUME Init PROVE StoresOK /\ OpenOK
      OBVIOUS
    <2>1. StoresOK
      BY StoresBegin
    <2>2. \A fn : Depth(stack, fn) = 0
      <3>1. stack = <<>>
        BY DEF Init
      <3>2. \A fn : {k \in DOMAIN stack : stack[k].fn = fn} = {}
        BY <3>1, NoneIsSeq
      <3> QED BY <3>2, FS_EmptySet DEF Depth
    <2>3. SunHeard(event, calls)
      <3>1. manifest \in Manifests /\ calls = <<>> /\ event.what = "nothing"
        BY DEF Init, Nothing
      <3>2. \A l : Rises(calls, l) = 0 /\ Sets(calls, l) = 0
        BY <3>1, TimesOfNone DEF Rises, Sets
      <3>3. \A l \in DOMAIN manifest.lifetimes : ~Begins(l, event) /\ ~Ends(l, event)
        BY <3>1, NotDue
      <3> QED BY <3>2, <3>3 DEF SunHeard
    <2>4. /\ DOMAIN open = {BuildLifetime(l) : l \in DOMAIN manifest.lifetimes}
          /\ \A l \in DOMAIN manifest.lifetimes : open[BuildLifetime(l)] = 0
      BY DEF Init
    <2>5. OpenOK
      BY <2>2, <2>3, <2>4 DEF OpenOK
    <2> QED BY <2>1, <2>5
  <1>2. StoresOK /\ OpenOK /\ [Next]_vars => StoresOK' /\ OpenOK'
    <2> SUFFICES ASSUME StoresOK, OpenOK, [Next]_vars PROVE StoresOK' /\ OpenOK'
      OBVIOUS
    <2>0. StoresOK' /\ RunsOK /\ StackOK /\ TypesOK
      BY StoresStep DEF StoresOK, RunsOK
    <2>1. ASSUME UNCHANGED <<manifest, stack, open, event, calls>> PROVE OpenOK'
      <3>1. SunHeard(event, calls)'
        <4>1. SunHeard(event, calls)
          BY DEF OpenOK
        <4>2. \A l \in DOMAIN manifest.lifetimes :
                /\ Rises(calls, l)' = Rises(calls, l) /\ Sets(calls, l)' = Sets(calls, l)
                /\ Begins(l, event)' <=> Begins(l, event)
                /\ Ends(l, event)' <=> Ends(l, event)
          BY <2>1 DEF Rises, Sets, Tells, BuildLifetime, Begins, Ends
        <4> QED BY <2>1, <4>1, <4>2 DEF SunHeard
      <3>2. \A l : Depth(stack, FnOf(l))' = Depth(stack, FnOf(l))
        BY <2>1 DEF Depth, FnOf
      <3> QED BY <2>1, <3>1, <3>2, LifetimesSame DEF OpenOK
    <2>2. ASSUME NEW m \in DOMAIN Modules, NEW x \in Modules[m].accesses, NEW s, NEW v \in Ints,
                 Store(m, x, s, v)
          PROVE  OpenOK'
      <3>1. PICK e, cs : Happens(e, cs) /\ e.what = "Field" /\ StoreHeard(e, cs)
        BY <2>2, StoreIs
      <3>2. stack' = stack
        BY <2>2 DEF Store
      <3>3. \A l : Rises(cs, l) = 0 /\ Sets(cs, l) = 0
        BY <3>1, StoreNoSun
      <3>4. e.what # "Fn"
        BY <3>1
      <3> QED BY <2>0, <3>1, <3>2, <3>3, <3>4, OpenStays
    <2>3. ASSUME NEW a, NEW vals, ReachAssertion(a, vals) PROVE OpenOK'
      <3> DEFINE e == [what |-> "Assert", automaton |-> a, vals |-> vals]
                 cs == Run(<<"assertion", a, "Reached">>, vals)
      <3>1. /\ todo = {} /\ a \in DOMAIN Automata /\ a \in UNION {Sites(m) : m \in DOMAIN Modules}
            /\ Happens(e, cs) /\ stack' = stack
        BY <2>3, AssertionIs
      <3>2. \A l : Rises(cs, l) = 0 /\ Sets(cs, l) = 0
        BY <2>0, <3>1, SiteNoSun DEF RunsOK
      <3>3. e.what # "Fn"
        OBVIOUS
      <3> HIDE DEF e, cs
      <3> QED BY <2>0, <3>1, <3>2, <3>3, OpenStays
    <2>4. ASSUME NEW m \in DOMAIN Modules, NEW k \in DOMAIN Passes, Instrument(m, k) PROVE OpenOK'
      BY <2>1, <2>4 DEF Instrument
    <2>5. ASSUME UNCHANGED vars PROVE OpenOK'
      BY <2>1, <2>5 DEF vars
    <2>6. OpenOK'
      BY <2>0, <2>2, <2>3, <2>4, <2>5, CallRises, ReturnSets DEF Next, Finished
    <2> QED BY <2>0, <2>6
  <1>3. StoresOK /\ OpenOK => LifetimesFollowBounds
    BY OpenFollows
  <1> QED BY <1>1, <1>2, <1>3, PTL DEF Spec

=============================================================================
