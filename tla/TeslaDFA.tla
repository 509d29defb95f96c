------------------------------ MODULE TeslaDFA ------------------------------
(***************************************************************************)
(* How an automaton becomes deterministic (DFABuilder in Automaton.cpp),   *)
(* how its transitions are grouped into the symbols of the run-time        *)
(* automaton (Transition::GroupClasses) and what the instrumenter tells    *)
(* the run-time library about it (InstrContext.cpp).                       *)
(***************************************************************************)
EXTENDS TeslaNFA

-----------------------------------------------------------------------------
(* DFABuilder *)

NullSuccessors(b, S) ==
  {b.trans[n].to : n \in {k \in 1 .. Len(b.trans) :
     b.trans[k].from \in S /\ b.trans[k].event.kind = "Null"}}

RECURSIVE NullClosure(_, _)
NullClosure(b, S) ==
  LET T == S \cup NullSuccessors(b, S)
  IN IF T = S THEN S ELSE NullClosure(b, T)

\* Faulty variant: only one epsilon transition is followed.
ShallowFrontier(b, s) == {s} \cup NullSuccessors(b, {s})

collectFrontier(b, s) == NullClosure(b, {s})

\* collectFrontier follows epsilon transitions without looking where it has
\* been.
Unbounded(b, s) ==
  \E x \in collectFrontier(b, s) : x \in NullClosure(b, NullSuccessors(b, {x}))

\* acc: [d, sets, stack, done, from, start, final, state].  The flags belong
\* to the destination's own states, not to those reached by epsilon.
stateForNFAStates(acc, S, refcount) ==
  IF \E k \in 1 .. Len(acc.sets) : acc.sets[k] = S
  THEN [acc EXCEPT !.state = CHOOSE k \in 1 .. Len(acc.sets) : acc.sets[k] = S]
  ELSE LET k == Len(acc.sets) + 1 IN
       [acc EXCEPT
          !.d = Build(@, acc.start, acc.final,
                      IF acc.start THEN RefCount(refcount) ELSE NoRefs),
          !.sets = Append(@, S), !.stack = Append(@, k), !.state = k]

\* The first state: the frontier of the NFA's.
FirstState(nfa) ==
  stateForNFAStates([d |-> Empty, sets |-> <<>>, stack |-> <<>>, start |-> TRUE,
                     final |-> nfa.states[1].accept, state |-> 0],
                    collectFrontier(nfa, 1), nfa.states[1].refs.size)

\* The transitions out of a set of NFA states, in the order of the loops.
OutTransitions(nfa, S) ==
  FlattenSeq([s \in 1 .. Len(nfa.states) |->
                IF s \in S THEN nfa.states[s].out ELSE <<>>])

\* Faulty variant: a transition is not joined with its equivalents.
CompleteTransitionAlone(nfa, acc, n, later, ds) ==
  LET t == nfa.trans[n] IN
  IF t.event.kind = "Null" THEN acc
  ELSE LET a == stateForNFAStates([acc EXCEPT !.start = FALSE,
                                              !.final = nfa.states[t.to].accept],
                                  collectFrontier(nfa, t.to), 0)
       IN [a EXCEPT !.d = Copy(@, ds, a.state, t, FALSE)]

\* One transition of the DFA, for t and the equivalent ones after it.
CompleteTransition(nfa, acc, n, later, ds) ==
  LET t == nfa.trans[n]
      same == {n} \cup {m \in later : EquivalentTo(nfa.trans[m].event, t.event)}
      dests == {nfa.trans[m].to : m \in same}
      fresh == acc.from # t.from
      a == [acc EXCEPT !.from = t.from, !.done = @ \cup same,
                       !.start = (~fresh /\ @) \/ \E s \in dests : nfa.states[s].start,
                       !.final = (~fresh /\ @) \/ \E s \in dests : nfa.states[s].accept]
      b == stateForNFAStates(a, UNION {collectFrontier(nfa, s) : s \in dests}, 0)
  IN IF t.event.kind = "Null" \/ n \in acc.done THEN acc
     ELSE [b EXCEPT !.d = Copy(@, ds, b.state, t, FALSE)]

CompleteState(nfa, dfa, sets, ds, rest) ==
  LET ts == OutTransitions(nfa, sets[ds]) IN
  FoldLeft(LAMBDA acc, k : CompleteTransition(nfa, acc, ts[k],
                             {ts[m] : m \in k + 1 .. Len(ts)}, ds),
           [d |-> dfa, sets |-> sets, stack |-> rest, done |-> {}, from |-> 0,
            start |-> FALSE, final |-> FALSE, state |-> 0],
           [k \in 1 .. Len(ts) |-> k])

\* ConstructDFA's loop, from acc on.
RECURSIVE ConstructDFA(_, _)
ConstructDFA(nfa, acc) ==
  IF acc.stack = <<>> THEN acc.d
  ELSE ConstructDFA(nfa, CompleteState(nfa, acc.d, acc.sets, Last(acc.stack),
                                       Front(acc.stack)))

-----------------------------------------------------------------------------
(* Equivalence classes and lifetimes *)

\* Classes in the order of their first transitions.
GroupClasses(b) ==
  LET first == SelectSeq([n \in DOMAIN b.trans |-> n], LAMBDA n :
                 \A m \in 1 .. n - 1 : ~EquivalentTo(b.trans[m].event, b.trans[n].event))
  IN [k \in DOMAIN first |->
        SelectSeq(b.trans, LAMBDA t : EquivalentTo(b.trans[first[k]].event, t.event))]

\* A small set of pointers keeps four in order; a larger one is hashed by
\* address, so that any member may come first.
SmallSet == 4
Heads(c) == {[event |-> t.event, init |-> t.init, cleanup |-> t.cleanup] :
               t \in IF Len(c) <= SmallSet THEN {c[1]} ELSE Range(c)}

None == [none |-> TRUE]
FirstHead(heads, bound) ==
  LET k == SelectInSeq(heads, LAMBDA t : t[bound])
  IN IF k = 0 THEN None ELSE heads[k].event

\* Automaton::Init, Automaton::Cleanup: only the head of a class is asked.
getLifetime(context, heads) ==
  [context |-> context,
   init |-> FirstHead(heads, "init"),
   cleanup |-> FirstHead(heads, "cleanup")]

\* The classes and the lifetime of automaton b, for each order of pointers.
Results(nfa, b, context) ==
  LET cs == GroupClasses(b)
      orders == FoldLeft(LAMBDA hss, c : {Append(hs, h) : hs \in hss, h \in Heads(c)},
                         {<<>>}, cs)
  IN {[auto |-> b, nfa |-> nfa, classes |-> cs,
       lifetime |-> getLifetime(context, hs)] : hs \in orders}

-----------------------------------------------------------------------------
(* InstrContext: the description the run-time library works from; masks are *)
(* sets of variables.                                                       *)

StateMask(b, s) == b.states[s].refs.vars

\* Faulty variant: the masks are the wrong way round.
BuildTransitionSwapped(b, t) ==
  [from |-> t.from, from_mask |-> StateMask(b, t.to), to |-> t.to,
   to_mask |-> StateMask(b, t.from), init |-> t.init, cleanup |-> t.cleanup]

BuildTransition(b, t) ==
  [from |-> t.from, from_mask |-> StateMask(b, t.from), to |-> t.to,
   to_mask |-> StateMask(b, t.to), init |-> t.init, cleanup |-> t.cleanup]

BuildTransitions(b, c) == [k \in DOMAIN c |-> BuildTransition(b, c[k])]

\* The event that ends the lifetime is the last class Automaton::Cleanup finds.
BuildAutomatonDescription(r) ==
  [ta_transitions |-> [c \in DOMAIN r.classes |-> BuildTransitions(r.auto, r.classes[c])],
   ta_cleanup_symbol |->
     SelectInSeq(r.classes, LAMBDA c : c[1].event = r.lifetime.cleanup)]
=============================================================================
