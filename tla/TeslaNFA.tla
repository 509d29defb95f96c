------------------------------ MODULE TeslaNFA ------------------------------
(***************************************************************************)
(* How an assertion becomes a non-deterministic automaton (NFAParser in    *)
(* tesla/common/Automaton.cpp, with Transition.cpp and State.cpp).         *)
(*                                                                         *)
(* An event is a record: the kind of its transition, a name that stands    *)
(* for everything else the protocol buffer says of it, the variables it    *)
(* binds (constants and "any" bind none) and whether it is strict.  An     *)
(* automaton under construction is a record too: its states and            *)
(* transitions, in the order of their creation, and whether every          *)
(* assertion has held so far.  States are numbered from 1.                 *)
(***************************************************************************)
EXTENDS Naturals, Sequences, FiniteSets, SequencesExt

CONSTANT SuppressInclusiveOr   \* -tesla-xor-only

Event(kind, name, refs, strict) ==
  [kind |-> kind, name |-> name, refs |-> refs, strict |-> strict]
Epsilon == Event("Null", "epsilon", {}, FALSE)

\* Expressions; max = Infinite is __TESLA_INFINITE_REPETITIONS.
Infinite == 1000
Ev(e) == [op |-> "event", event |-> e]
NullExpr == [op |-> "null"]
BoolExpr(op, l, r) == [op |-> op, lhs |-> l, rhs |-> r]
Sequence(min, max, es) == [op |-> "seq", min |-> min, max |-> max, exprs |-> es]
SubAutomaton(id) == [op |-> "sub", id |-> id]

\* Protocol.cpp's comparison is of the whole message, strictness included.
EquivalentTo(e, f) ==
  e.kind = f.kind /\ (e.kind \in {"Null", "AssertSite"} \/ e = f)

-----------------------------------------------------------------------------
(* States and transitions *)

NoRefs == [set |-> FALSE, size |-> 0, vars |-> {}]
RefCount(n) == [set |-> TRUE, size |-> n, vars |-> {}]

Empty == [states |-> <<>>, trans |-> <<>>, ok |-> TRUE]

Build(b, start, accept, refs) ==
  [b EXCEPT !.states = Append(@, [start |-> start, accept |-> accept,
                                  refs |-> refs, out |-> <<>>])]
NewState(b) == Build(b, FALSE, FALSE, NoRefs)
Last_(b) == Len(b.states)

\* What an instance that takes transition t is named by.
ReferencesThusFar(b, t) ==
  LET from == b.states[t.from].refs
  IN [set |-> TRUE, size |-> from.size,
      vars |-> IF from.size = 0 THEN {} ELSE from.vars \cup t.event.refs]

\* A state is named by the first transition that reaches it.  to: what the
\* state is named by so far; new: what transition t names it by.
UpdateReferences(to, new) == IF to.set THEN to ELSE new

RegisterAs(b, t, to, new) ==
  [b EXCEPT
     !.trans = Append(@, t),
     !.states[t.to].refs = UpdateReferences(to, new),
     !.states[t.from].out = Append(@, Len(b.trans) + 1),
     !.ok = /\ @ /\ t.to # 1
            /\ \/ ~to.set \/ t.oos
               \/ new.vars = {} \/ to.size = new.size]

Register(b, t) == RegisterAs(b, t, b.states[t.to].refs, ReferencesThusFar(b, t))

Trans(from, to, event, init, cleanup) ==
  [from |-> from, to |-> to, event |-> event, init |-> init,
   cleanup |-> cleanup, oos |-> FALSE]

Create(b, from, to, event, init, cleanup) ==
  Register(b, Trans(from, to, event, init, cleanup))

CreateNull(b, from, to) == Create(b, from, to, Epsilon, FALSE, FALSE)

\* Faulty variant: a copy does not initialise.
CopyWithoutInit(b, from, to, t, oos) ==
  IF t.event.kind = "Null" THEN b
  ELSE Register(b, [t EXCEPT !.from = from, !.to = to, !.init = FALSE,
                             !.oos = @ \/ oos])

\* An epsilon transition is not copied.
Copy(b, from, to, t, oos) ==
  IF t.event.kind = "Null" THEN b
  ELSE Register(b, [t EXCEPT !.from = from, !.to = to, !.oos = @ \/ oos])

-----------------------------------------------------------------------------
(* Inclusive or: a grid whose rows are copies of the right-hand side, one   *)
(* for each transition of the left-hand side                                *)

RECURSIVE ReachableTransitions(_, _, _, _)
ReachableTransitions(b, from, to, ts) ==
  IF from = to THEN ts
  ELSE FoldLeft(LAMBDA seen, n :
                  IF n \in Range(seen) THEN seen
                  ELSE ReachableTransitions(b, b.trans[n].to, to,
                                            Append(seen, n)),
                ts, b.states[from].out)

\* acc: the automaton, the copies of the chain's states and the destinations of
\* the transitions copied so far.
Image(acc, s) ==
  IF s \in DOMAIN acc.map THEN acc
  ELSE [acc EXCEPT !.b = NewState(@),
                   !.map = [x \in DOMAIN @ \cup {s} |->
                              IF x = s THEN Last_(acc.b) + 1 ELSE @[x]]]
Clone(acc, t) ==
  [acc EXCEPT !.b = IF t.event.kind = "Null"
                    THEN CreateNull(@, acc.map[t.from], acc.map[t.to])
                    ELSE Copy(@, acc.map[t.from], acc.map[t.to], t, FALSE),
              !.dests = Append(@, acc.map[t.to])]

\* The chain, copied to start at newStart.
CreateTransitionChainCopy(b, chain, oldStart, newStart) ==
  FoldLeft(LAMBDA acc, n : LET t == b.trans[n]
                           IN Clone(Image(Image(acc, t.from), t.to), t),
           [b |-> b, dests |-> <<>>, map |-> [x \in {oldStart} |-> newStart]],
           chain)

\* A copy of t between two rows; in the last row or column the end follows.
Cell(b, t, from, to, last, end) ==
  LET b1 == Copy(b, from, to, t, FALSE)
  IN IF last THEN CreateNull(b1, to, end) ELSE b1

Row(t, last, row, copy, end) ==
  [b |-> FoldLeft(LAMBDA b, j : Cell(b, t, row[j], copy.dests[j],
                                     last \/ j = Len(row), end),
                  copy.b, [j \in 1 .. Len(row) |-> j]),
   row |-> copy.dests]

Grid(b, lhs, rhs, rstart, end) ==
  FoldLeft(LAMBDA acc, n :
             Row(b.trans[n], n = lhs[Len(lhs)], acc.row,
                 CreateTransitionChainCopy(acc.b, rhs, rstart, b.trans[n].to), end),
           [b |-> b, row |-> [j \in 1 .. Len(rhs) |-> b.trans[rhs[j]].to]],
           lhs).b

ConvertIncOrToExcOr(b, lstart, rstart, lfinal, rfinal, end) ==
  IF SuppressInclusiveOr THEN b
  ELSE Grid(b, ReachableTransitions(b, lstart, lfinal, <<>>),
            ReachableTransitions(b, rstart, rfinal, <<>>), rstart, end)

-----------------------------------------------------------------------------
(* NFAParser::Parse: adds the expression to b from state s on; at is the    *)
(* state it ends in.  c says what the assertion site binds and, when        *)
(* sub-automata are replaced (NFA::Link), what they are defined as.         *)

Panic(b, s) == [b |-> [b EXCEPT !.ok = FALSE], at |-> s]

ParseEvent(c, b, e, s, init, cleanup) ==
  LET event == IF e.kind = "AssertSite" THEN [e EXCEPT !.refs = c.site] ELSE e
      b1 == Build(b, FALSE, cleanup, NoRefs)
  IN [b |-> Create(b1, s, Last_(b1), event, init, cleanup), at |-> Last_(b1)]

RECURSIVE Parse(_, _, _, _)

\* The two sides meet in the state made last.
Join(b, e, ls, rs, lat, rat) ==
  LET join == Last_(b)
      b1 == CreateNull(CreateNull(b, lat, join), rat, join)
  IN [b |-> IF e.op = "or"
            THEN ConvertIncOrToExcOr(b1, ls, rs, lat, rat, join) ELSE b1,
      at |-> join]

ParseBoolean(c, b, e, s) ==
  LET ls == Last_(b) + 1
      rs == Last_(b) + 2
      l == Parse(c, NewState(NewState(b)), e.lhs, ls)
      r == Parse(c, l.b, e.rhs, rs)
  IN Join(NewState(CreateNull(CreateNull(r.b, s, ls), s, rs)), e, ls, rs, l.at, r.at)

\* Faulty variant: the last repetition loops back.
LoopsBackEarly(infinite, i, max) == infinite \/ i + 1 >= max

LoopsBack(infinite, i, max) == infinite \/ i > max

\* The i-th repetition, from q.at on.
Repetition(c, q, e, i, max, final) ==
  LET skip == IF i >= e.min THEN CreateNull(q.b, q.at, final) ELSE q.b
      r == FoldLeft(LAMBDA acc, x : Parse(c, acc.b, x, acc.at),
                    [b |-> skip, at |-> q.at], e.exprs)
  IN IF LoopsBack(e.max = Infinite, i, max)
     THEN [r EXCEPT !.b = CreateNull(@, r.at, q.at)] ELSE r

Close(q, final) == [b |-> CreateNull(q.b, q.at, final), at |-> final]

ParseSequence(c, b, e, s) ==
  LET final == Last_(b) + 1
      max == IF e.max = Infinite THEN 1 ELSE e.max
      reps == IF e.min > max THEN e.min ELSE max
  IN Close(FoldLeft(LAMBDA q, i : Repetition(c, q, e, i, max, final),
                    [b |-> NewState(b), at |-> s], [n \in 1 .. reps |-> n - 1]),
           final)

Parse(c, b, e, s) ==
  CASE e.op = "event" -> ParseEvent(c, b, e.event, s, FALSE, FALSE)
    [] e.op = "null" -> [b |-> b, at |-> s]
    [] e.op = "seq" -> ParseSequence(c, b, e, s)
    [] e.op = "sub" /\ ~c.link ->
         ParseEvent(c, b, Event("SubAutomaton", e.id, {}, FALSE), s,
                    FALSE, FALSE)
    [] e.op = "sub" /\ c.link ->
         IF e.id \in DOMAIN c.defs THEN Parse(c, b, c.defs[e.id], s)
         ELSE Panic(b, s)
    [] OTHER -> ParseBoolean(c, b, e, s)

\* The beginning and the end of the usage: only an event can do either.
ParseBound(c, b, e, s, init) ==
  IF e.op = "event" THEN ParseEvent(c, b, e.event, s, init, ~init)
  ELSE Panic(b, s)

\* Faulty variant: strict events may occur out of scope as well.
OutOfScopeAll(b) ==
  FoldLeft(LAMBDA seen, n :
             IF \/ \E m \in Range(seen) :
                     EquivalentTo(b.trans[m].event, b.trans[n].event)
                \/ b.trans[n].init
             THEN seen ELSE Append(seen, n),
           <<>>, [n \in 1 .. Len(b.trans) |-> n])

\* The first transition of each event that may also occur out of scope.
OutOfScope(b) ==
  FoldLeft(LAMBDA seen, n :
             LET t == b.trans[n] IN
             IF \/ \E m \in Range(seen) :
                     EquivalentTo(b.trans[m].event, t.event)
                \/ t.event.strict \/ t.init
             THEN seen ELSE Append(seen, n),
           <<>>, [n \in 1 .. Len(b.trans) |-> n])

\* An event out of scope stays in the state after initialisation; the end of
\* the bounds leads to the end.
AddOutOfScope(b, start, end) ==
  FoldLeft(LAMBDA b1, n :
             LET t == b.trans[n] IN
             IF t.event.kind \in {"Fn", "FieldAssign"}
             THEN Copy(b1, start, IF t.cleanup THEN end ELSE start, t, TRUE)
             ELSE b1,
           b, OutOfScope(b))

\* use: the empty set or {[begin, end]}.
ParseBegin(c, b, use) ==
  IF use = {} THEN [b |-> b, at |-> 1]
  ELSE ParseBound(c, b, (CHOOSE u \in use : TRUE).begin, 1, TRUE)
ParseEnd(c, x, use) ==
  IF use = {} THEN x
  ELSE ParseBound(c, x.b, (CHOOSE u \in use : TRUE).end, x.at, FALSE)

ParseScope(e, start) == AddOutOfScope(e.b, start, e.at)
ParseBody(c, d, s) ==
  ParseScope(ParseEnd(c, Parse(c, s.b, d.expr, s.at), d.use), s.at)

\* d: [args, site, expr, use].
ParseNFA(d, defs, link) ==
  LET c == [site |-> d.site, defs |-> defs, link |-> link]
  IN ParseBody(c, d, ParseBegin(c, Build(Empty, TRUE, FALSE, RefCount(d.args)), d.use))
=============================================================================
