--------------------------- MODULE MCTeslaUpdate ----------------------------
(***************************************************************************)
(* Automata and their events for model checking TeslaUpdate.  An automaton *)
(* is a sequence of symbols, a symbol a sequence of transitions.           *)
(***************************************************************************)
EXTENDS TeslaUpdate, TLC

CONSTANTS a1, a2, a3, a4, v1, v2, l1

Tr(from, from_mask, to, to_mask) ==
  [from |-> from, from_mask |-> from_mask, to |-> to, to_mask |-> to_mask,
   init |-> FALSE, cleanup |-> FALSE]
TrInit(to) == [Tr(0, {}, to, {}) EXCEPT !.init = TRUE]
TrCleanup(from, from_mask, to, to_mask) ==
  [Tr(from, from_mask, to, to_mask) EXCEPT !.cleanup = TRUE]

P0 == [key |-> EmptyKey, free |-> {}]
Named1 == {[key |-> [EmptyKey EXCEPT ![0] = v], free |-> {}] : v \in Values}
Named2 == {[key |-> [EmptyKey EXCEPT ![0] = v, ![1] = w], free |-> {}] :
             v, w \in Values}
In(s, ps) == {[symbol |-> s, pattern |-> p] : p \in ps}

\* The automaton of libtesla/test/repeat.cpp: its cleanup transition from
\* state 1 adds a word to the name, so cleanup forks the generic instance.
\* The cleanup symbol is also sent as an ordinary event, as that test does.
Repeat == <<
  << TrInit(1) >>,
  << Tr(1, {}, 2, {0}), Tr(2, {0}, 2, {0}) >>,
  << TrCleanup(1, {}, 3, {0}), TrCleanup(2, {0}, 3, {0}),
     TrCleanup(4, {0}, 3, {0}) >>,
  << Tr(2, {0}, 4, {0}) >> >>
RepeatIn == In(1, Named1) \cup In(3, Named1)
RepeatCleanupIn == RepeatIn \cup In(0, {P0}) \cup In(2, Named1 \cup {P0})

\* The same with a cleanup that forgets the name, possible from all states.
Plain == [Repeat EXCEPT ![3] =
  << TrCleanup(1, {}, 3, {}), TrCleanup(2, {0}, 3, {}),
     TrCleanup(4, {0}, 3, {}) >>]

\* An instance in state 2 has no cleanup transition: the automaton is not
\* satisfied when its lifetime ends there.  Symbol 2 forks.
Strict == <<
  << TrInit(1) >>,
  << Tr(1, {}, 2, {}) >>,
  << Tr(1, {}, 3, {0}) >>,
  << TrCleanup(1, {}, 4, {}), TrCleanup(3, {0}, 4, {}) >> >>
StrictIn == In(1, {P0}) \cup In(2, Named1)

\* An event without parameters moves the generic instance to state 3, which
\* the named ones join.
Joining == <<
  << TrInit(1) >>,
  << Tr(1, {}, 2, {0}) >>,
  << Tr(1, {}, 3, {}), Tr(2, {0}, 3, {}) >>,
  << TrCleanup(1, {}, 4, {}), TrCleanup(2, {0}, 4, {}),
     TrCleanup(3, {}, 4, {}) >> >>
JoiningIn == In(1, Named1) \cup In(2, {P0})

\* Two variables bound one after the other (libtesla/test/update.cpp); the
\* event may carry both words at once.
TwoVariables == <<
  << TrInit(1) >>,
  << Tr(1, {}, 2, {0}), Tr(2, {0}, 3, {0, 1}), Tr(3, {0, 1}, 4, {0, 1}) >>,
  << TrCleanup(1, {}, 5, {}), TrCleanup(2, {0}, 5, {}),
     TrCleanup(3, {0, 1}, 5, {}), TrCleanup(4, {0, 1}, 5, {}) >> >>
TwoVariablesIn == In(1, Named2)

\* An automaton without an init transition.
NoInit == << << Tr(1, {}, 2, {}) >>, << TrCleanup(2, {}, 3, {}) >> >>

-----------------------------------------------------------------------------
Numbered(t) == [s \in 0 .. Len(t) - 1 |-> t[s + 1]]

TwoVariablesOnly == a1 :> Numbered(TwoVariables)
TwoVariablesInputs == a1 :> TwoVariablesIn

JoiningPlain == a1 :> Numbered(Joining) @@ a2 :> Numbered(Plain)
JoiningPlainInputs == a1 :> JoiningIn @@ a2 :> RepeatIn \cup In(2, {P0})

KernelAutomata == a1 :> Numbered(Strict) @@ a2 :> Numbered(Repeat)
                    @@ a3 :> Numbered(Strict) @@ a4 :> Numbered(NoInit)
KernelInputs == a1 :> StrictIn @@ a2 :> RepeatCleanupIn @@ a3 :> StrictIn
                  @@ a4 :> In(0, {P0})

AlphabetSizes == [a \in Automata |-> Cardinality(DOMAIN ta_transitions[a])]
OneLifetime == [a \in Automata |-> l1]
CleanupSymbols == [a \in Automata |->
  CHOOSE s \in DOMAIN ta_transitions[a] : ta_transitions[a][s][1].cleanup]
NoGarbage == {{}}

ASSUME WellFormedAutomata ==
  StatesHaveMasks /\ EventsCarryNames /\ SunsetCleansUp /\ OneInitSymbol
AnyGarbage == SUBSET Slots
=============================================================================
