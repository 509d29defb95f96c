----------------------------- MODULE TeslaPrint -----------------------------
(***************************************************************************)
(* What `tesla print' (tesla/tools/print) says of the automata of a        *)
(* manifest, in each of its formats; layout and wording are left out, so   *)
(* that an event stands for its label.  r: an automaton as Manifest::load  *)
(* stores it.  PrintSources, which repeats the assertion's text, is not    *)
(* here.                                                                   *)
(***************************************************************************)
EXTENDS TeslaDFA

Formats == {"dot", "instr", "names", "summary", "text"}

\* The head of each class.
Labels(r) == [c \in DOMAIN r.classes |-> r.classes[c][1].event]

\* The events to instrument: each once, whatever automata share it.
PrintInstrPoints(rs) ==
  FoldLeft(LAMBDA ts, e : IF \E k \in DOMAIN ts : EquivalentTo(e, ts[k]) THEN ts
                          ELSE Append(ts, e),
           <<>>, FlattenSeq([k \in DOMAIN rs |-> Labels(rs[k])]))

PrintSummary(r) ==
  [states |-> Len(r.auto.states), transitions |-> Len(r.classes),
   events |-> Labels(r)]

\* What instances in a state are named by.
InstanceName(b, s) == StateMask(b, s)

\* Transition::String: what taking it adds to the name of an instance.
TransitionString(b, t) ==
  [label |-> t.event, new |-> t.event.refs \ StateMask(b, t.from),
   init |-> t.init, cleanup |-> t.cleanup, to |-> t.to]

\* State::String and Automaton::String.
StateString(b, s) ==
  [name |-> InstanceName(b, s),
   out |-> [k \in DOMAIN b.states[s].out |->
              TransitionString(b, b.trans[b.states[s].out[k]])]]
String(r) == [s \in DOMAIN r.auto.states |-> StateString(r.auto, s)]

\* State::Dot and Automaton::Dot: nodes, and the edges class by class.
Dot(r) ==
  [nodes |-> [s \in DOMAIN r.auto.states |->
                [name |-> InstanceName(r.auto, s),
                 double |-> r.auto.states[s].accept]],
   edges |-> [c \in DOMAIN r.classes |->
                [label |-> r.classes[c][1].event, init |-> r.classes[c][1].init,
                 cleanup |-> r.classes[c][1].cleanup,
                 ends |-> [k \in DOMAIN r.classes[c] |->
                             <<r.classes[c][k].from, r.classes[c][k].to>>]]]]

\* State::String and State::Dot assert that the state has a name, perhaps an
\* empty one.
Printable(format, r) ==
  format \in {"dot", "text"} => \A s \in DOMAIN r.auto.states : r.auto.states[s].refs.set

\* ids, rs: the identifiers and the automata, in the order of the map.
PrintAs(format, ids, rs) ==
  CASE format = "dot" -> [k \in DOMAIN rs |-> Dot(rs[k])]
    [] format = "instr" -> PrintInstrPoints(rs)
    [] format = "names" -> ids
    [] format = "summary" -> [k \in DOMAIN rs |-> PrintSummary(rs[k])]
    [] OTHER -> [k \in DOMAIN rs |-> String(rs[k])]
=============================================================================
