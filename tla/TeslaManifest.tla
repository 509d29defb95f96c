--------------------------- MODULE TeslaManifest ----------------------------
(***************************************************************************)
(* Manifest::load (tesla/common/Manifest.cpp): every automaton of a        *)
(* manifest is parsed, its sub-automata are linked, and it is made         *)
(* deterministic by DFABuilder (Automaton.cpp); its transitions are        *)
(* grouped into the classes that become the symbols of the run-time        *)
(* automaton, and its lifetime is noted.  One step is one automaton parsed,*)
(* one state of the DFA completed, or one automaton stored.  Then `tesla   *)
(* print' may show what was loaded.                                        *)
(***************************************************************************)
EXTENDS TeslaPrint

CONSTANTS Manifests,    \* the manifests to load
          MaxWord       \* words up to this length are compared

\* A manifest is [type, automata]: the type of automata asked for, and the
\* descriptions as [id, context, args, site, expr, use], in file order.
VARIABLES
  manifest,
  todo,         \* identifiers not yet loaded: the map is walked in order
  current,      \* the identifier being loaded, 0 if none
  nfa,          \* its NFA
  dfa,          \* its DFA so far
  sets,         \* the set of NFA states of each state of the DFA
  unfinished,   \* the stack of DFA states whose transitions are to be made
  automata,     \* the map being built
  lifetimes,
  outcome,      \* "ok", "panic" or "recursion" (the stack overflows)
  output        \* what was printed, and in which format

vars == <<manifest, todo, current, nfa, dfa, sets, unfinished, automata,
          lifetimes, outcome, output>>

Ids(m) == {m.automata[n].id : n \in 1 .. Len(m.automata)}
\* A later description of the same identifier replaces an earlier one.
Description(m, id) ==
  m.automata[CHOOSE n \in 1 .. Len(m.automata) :
               /\ m.automata[n].id = id
               /\ \A k \in n + 1 .. Len(m.automata) : m.automata[k].id # id]
Descriptions(m) == [id \in Ids(m) |-> Description(m, id).expr]

Init ==
  /\ manifest \in Manifests
  /\ todo = Ids(manifest)
  /\ current = 0
  /\ nfa = Empty /\ dfa = Empty
  /\ sets = <<>> /\ unfinished = <<>>
  /\ automata = <<>>
  /\ lifetimes = <<>>
  /\ outcome = "ok"
  /\ output = [format |-> "none"]

-----------------------------------------------------------------------------
Loading(id) == Description(manifest, id)

\* n: the automaton; first: what ConstructDFA starts from.
Construct(n, parsed, det, first) ==
  /\ outcome' = CASE ~(parsed /\ n.ok) -> "panic"
                  [] det /\ Unbounded(n, 1) -> "recursion"
                  [] OTHER -> "ok"
  /\ nfa' = n
  /\ dfa' = IF det THEN first.d ELSE n
  /\ sets' = IF det THEN first.sets ELSE <<>>
  /\ unfinished' = IF det THEN first.stack ELSE <<>>

Link(unlinked, linked) ==
  LET n == IF manifest.type = "Unlinked" THEN unlinked ELSE linked
  IN Construct(n, unlinked.ok, manifest.type = "Deterministic", FirstState(n))

\* NFA::Parse, NFA::Link, and the first state of the DFA.
ParseAndLink ==
  /\ outcome = "ok" /\ current = 0 /\ todo # {}
  /\ LET id == CHOOSE i \in todo : \A j \in todo : i <= j
     IN /\ todo' = todo \ {id} /\ current' = id
        /\ Link(ParseNFA(Loading(id), <<>>, FALSE),
                ParseNFA(Loading(id), Descriptions(manifest), TRUE))
  /\ UNCHANGED <<manifest, automata, lifetimes, output>>

\* One turn of ConstructDFA's loop.
BuildDFAState ==
  /\ outcome = "ok" /\ current # 0 /\ unfinished # <<>>
  /\ LET ds == Last(unfinished)
         ts == OutTransitions(nfa, sets[ds])
         acc == CompleteState(nfa, dfa, sets, ds, Front(unfinished))
     IN IF \E k \in 1 .. Len(ts) : /\ nfa.trans[ts[k]].event.kind # "Null"
                                   /\ Unbounded(nfa, nfa.trans[ts[k]].to)
        THEN outcome' = "recursion" /\ UNCHANGED <<dfa, sets, unfinished>>
        ELSE /\ outcome' = IF acc.d.ok THEN "ok" ELSE "panic"
             /\ dfa' = acc.d /\ sets' = acc.sets /\ unfinished' = acc.stack
  /\ UNCHANGED <<manifest, todo, current, nfa, automata, lifetimes, output>>

\* Automata[ID] = Result, and its lifetime if it is a new one.
Store ==
  /\ outcome = "ok" /\ current # 0 /\ unfinished = <<>>
  /\ \E r \in Results(nfa, dfa, Loading(current).context) :
       /\ automata' = [i \in DOMAIN automata \cup {current} |->
                         IF i = current THEN r ELSE automata[i]]
       /\ lifetimes' = IF r.lifetime.init = None \/ r.lifetime \in Range(lifetimes)
                       THEN lifetimes ELSE Append(lifetimes, r.lifetime)
  /\ current' = 0
  /\ UNCHANGED <<manifest, todo, nfa, dfa, sets, unfinished, outcome, output>>

\* The rest of tesla print: it is given what Manifest::load returned.
PrintAutomata(format) ==
  /\ outcome = "ok" /\ current = 0 /\ todo = {} /\ output.format = "none"
  /\ LET ids == SortSeq(SetToSeq(DOMAIN automata), <)
         rs == [k \in DOMAIN ids |-> automata[ids[k]]]
         ok == \A k \in DOMAIN rs : Printable(format, rs[k])
     IN /\ outcome' = IF ok THEN "ok" ELSE "panic"
        /\ output' = [format |-> format,
                      text |-> IF ok THEN PrintAs(format, ids, rs) ELSE <<>>]
  /\ UNCHANGED <<manifest, todo, current, nfa, dfa, sets, unfinished, automata, lifetimes>>

Finished == outcome # "ok" \/ (current = 0 /\ todo = {})

\* The loader returns, or the program has stopped.
Done == Finished /\ UNCHANGED vars

Next ==
  \/ ParseAndLink \/ BuildDFAState \/ Store \/ Done
  \/ \E format \in Formats : PrintAutomata(format)

Spec == Init /\ [][Next]_vars

-----------------------------------------------------------------------------
(* The words an expression stands for, up to length k.  full: the least     *)
(* that "or" must accept (one side, or both interleaved); otherwise the     *)
(* most it may accept (one side with any part of the other).  "&&" has no   *)
(* words here: NFAParser warns that it does not support it, and takes       *)
(* either side.                                                             *)

Concat(A, B, k) == {w \in {u \o v : u \in A, v \in B} : Len(w) <= k}
Parts(A) == UNION {Prefixes(w) : w \in A}

RECURSIVE Merge(_, _)
Merge(u, v) ==
  IF u = <<>> THEN {v} ELSE IF v = <<>> THEN {u}
  ELSE {<<Head(u)>> \o w : w \in Merge(Tail(u), v)}
       \cup {<<Head(v)>> \o w : w \in Merge(u, Tail(v))}
Shuffle(A, B, k) ==
  {w \in UNION {Merge(u, v) : u \in A, v \in B} : Len(w) <= k}

RECURSIVE Words(_, _, _, _)
RECURSIVE Power(_, _, _)
Power(A, n, k) == IF n = 0 THEN {<<>>} ELSE Concat(A, Power(A, n - 1, k), k)
Words(defs, e, k, full) ==
  CASE e.op = "event" -> {<<e.event>>}
    [] e.op = "null" -> {<<>>}
    [] e.op = "sub" -> Words(defs, defs[e.id], k, full)
    [] e.op = "seq" ->
         LET body == FoldLeft(LAMBDA A, x : Concat(A, Words(defs, x, k, full), k),
                              {<<>>}, e.exprs)
         IN UNION {Power(body, n, k) :
                     n \in e.min .. IF e.max = Infinite THEN e.min + k ELSE e.max}
    [] e.op \in {"xor", "or"} ->
         LET L == Words(defs, e.lhs, k, full)
             R == Words(defs, e.rhs, k, full)
         IN IF e.op = "xor" \/ SuppressInclusiveOr THEN L \cup R
            ELSE IF full THEN L \cup R \cup Shuffle(L, R, k)
            ELSE Shuffle(L, Parts(R), k) \cup Shuffle(Parts(L), R, k)

\* The events of a word, as the transitions carry them.
Symbols(b) == {t.event : t \in Range(b.trans)} \ {Epsilon}
Body(b) == {t.event : t \in {u \in Range(b.trans) :
                               ~u.init /\ ~u.cleanup /\ u.event # Epsilon}}

\* The states of automaton b after reading event e in one of S.
After(b, S, e) ==
  NullClosure(b, {b.trans[n].to : n \in {k \in 1 .. Len(b.trans) :
    b.trans[k].from \in S /\ EquivalentTo(b.trans[k].event, e)}})

\* Whether b can read word w between its bounds and end with a cleanup.
Accepts(b, use, w) ==
  LET S == FoldLeft(LAMBDA T, e : After(b, T, e), NullClosure(b, {1}),
                    <<use.begin.event>> \o w)
  IN \E n \in 1 .. Len(b.trans) :
       /\ b.trans[n].from \in S /\ b.trans[n].cleanup
       /\ EquivalentTo(b.trans[n].event, use.end.event)

\* Events out of scope may come first, or may be all there is.
InScopeOf(A, w, use) ==
  \E n \in 0 .. Len(w) :
    /\ \A k \in 1 .. n : ~w[k].strict /\ w[k].kind \in {"Fn", "FieldAssign"}
    /\ \/ SubSeq(w, n + 1, Len(w)) \in A
       \/ n = Len(w) /\ ~use.end.event.strict

\* The same up to what an assertion site binds.
Plain(A) == {[k \in 1 .. Len(w) |-> IF w[k].kind = "AssertSite"
                                    THEN [w[k] EXCEPT !.refs = {}] ELSE w[k]]
             : w \in A}

WordsUpTo(A, k) == UNION {[1 .. n -> A] : n \in 0 .. k}

-----------------------------------------------------------------------------
(* Properties *)

UseOf(id) == CHOOSE u \in Loading(id).use : TRUE

\* The assertions loaded whose bounds are not events of the assertion too: a
\* transition that stands for both would have to be a cleanup and not be one.
Loaded == {id \in DOMAIN automata :
             /\ Loading(id).use # {} /\ manifest.type # "Unlinked"
             /\ {UseOf(id).begin.event, UseOf(id).end.event}
                  \cap Body(automata[id].nfa) = {}}

RECURSIVE HasAnd(_, _)
HasAnd(defs, e) ==
  CASE e.op = "seq" -> \E x \in Range(e.exprs) : HasAnd(defs, x)
    [] e.op = "sub" -> HasAnd(defs, defs[e.id])
    [] e.op \in {"xor", "or"} -> HasAnd(defs, e.lhs) \/ HasAnd(defs, e.rhs)
    [] OTHER -> e.op = "and"

\* The automaton of an assertion accepts, between its bounds, what the
\* assertion says and nothing else: sequences and repetitions exactly, one of
\* the operands of "^", and for "||" at least each side and both interleaved
\* and at most one side with a part of the other.  Nothing is claimed of an
\* assertion with "&&" (Parse warns of an "unsupported AND feature").
AcceptsTheAssertion ==
  \A id \in {i \in Loaded : ~HasAnd(Descriptions(manifest), Loading(i).expr)} :
    LET d == Loading(id)
        defs == Descriptions(manifest)
        must == Plain(Words(defs, d.expr, MaxWord, TRUE))
        may == Plain(Words(defs, d.expr, MaxWord, FALSE))
        n == automata[id].nfa
    IN \A w \in WordsUpTo(Body(n), MaxWord) :
         LET p == CHOOSE v \in Plain({w}) : TRUE
             a == Accepts(n, UseOf(id), w)
         IN /\ a => InScopeOf(may, p, UseOf(id))
            /\ InScopeOf(must, p, UseOf(id)) => a

\* Making an automaton deterministic does not change what it accepts.
SameLanguage ==
  \A id \in Loaded :
    \A w \in WordsUpTo(Body(automata[id].nfa), MaxWord) :
      Accepts(automata[id].auto, UseOf(id), w)
        <=> Accepts(automata[id].nfa, UseOf(id), w)

\* The symbol of an event is unique and every event has one; and in a
\* deterministic automaton an event leads from a state to one state: otherwise
\* tesla_update_state would take whichever comes first.
Unambiguous(id) ==
  LET ts == automata[id].auto.trans
      cs == automata[id].classes
  IN /\ \A i, j \in 1 .. Len(cs) : \A t \in Range(cs[i]), u \in Range(cs[j]) :
          EquivalentTo(t.event, u.event) <=> i = j
     /\ manifest.type = "Deterministic" =>
          \A m, n \in 1 .. Len(ts) :
            ts[m].from = ts[n].from /\ EquivalentTo(ts[m].event, ts[n].event)
              => m = n

RECURSIVE Straight(_)
Straight(e) == \/ e.op \in {"event", "null"}
               \/ /\ e.op = "seq" /\ e.min = 1 /\ e.max = 1
                  /\ \A x \in Range(e.exprs) : Straight(x)

\* Automaton::Init and Cleanup, which ask only the head of each class, find the
\* bounds of an assertion, and equal lifetimes are noted once.
LifetimesAreFound ==
  /\ \A id \in Loaded :
       LET u == UseOf(id)
           l == automata[id].lifetime
       IN /\ l.init = u.begin.event /\ l.cleanup = u.end.event
          /\ l \in Range(lifetimes)
  /\ \A m, n \in 1 .. Len(lifetimes) : lifetimes[m] = lifetimes[n] => m = n

RECURSIVE Nullable(_), LoopsOnNothing(_)
Nullable(e) ==
  CASE e.op = "null" -> TRUE
    [] e.op = "seq" -> e.min = 0 \/ \A x \in Range(e.exprs) : Nullable(x)
    [] e.op \in {"xor", "or", "and"} -> Nullable(e.lhs) \/ Nullable(e.rhs)
    [] OTHER -> FALSE
LoopsOnNothing(e) ==
  CASE e.op = "seq" -> \/ e.max = Infinite /\ \A x \in Range(e.exprs) : Nullable(x)
                       \/ \E x \in Range(e.exprs) : LoopsOnNothing(x)
    [] e.op \in {"xor", "or", "and"} -> LoopsOnNothing(e.lhs) \/ LoopsOnNothing(e.rhs)
    [] OTHER -> FALSE

\* collectFrontier recurs for ever only where a repetition has no upper bound
\* and a body that may be empty.
RecursionOnlyOnEmptyLoops ==
  outcome = "recursion" => LoopsOnNothing(Loading(current).expr)

RECURSIVE Binds(_, _), Uniform(_, _)
Binds(c, e) ==
  CASE e.op = "event" -> IF e.event.kind = "AssertSite" THEN c.site ELSE e.event.refs
    [] e.op = "seq" -> UNION {Binds(c, x) : x \in Range(e.exprs)}
    [] e.op = "sub" -> Binds(c, c.defs[e.id])
    [] e.op = "null" -> {}
    [] OTHER -> Binds(c, e.lhs) \cup Binds(c, e.rhs)
\* Whichever alternative of e is taken, the same variables are bound.
Uniform(c, e) ==
  CASE e.op = "seq" -> /\ \A x \in Range(e.exprs) : Uniform(c, x)
                       /\ e.min = 0 => Binds(c, e) = {}
    [] e.op = "sub" -> Uniform(c, c.defs[e.id])
    [] e.op \in {"xor", "or", "and"} ->
         /\ Uniform(c, e.lhs) /\ Uniform(c, e.rhs)
         /\ Binds(c, e.lhs) = Binds(c, e.rhs)
    [] OTHER -> TRUE

\* The run-time library can work from the description of an assertion's
\* automaton.  Late initialisation, which only looks at the first transition of
\* the first symbol, finds the initialisation there, and the instance it makes,
\* without a name, has the mask of the state it starts in; nothing else leaves
\* the initial state.  A state has one mask, nothing leaves the state in which a
\* cleanup ends, and no other symbol begins with an initialisation.  The symbol
\* tesla_sunset sends cleans up in whatever state it is met.  (These are the
\* hypotheses under which TeslaUpdateProofs speaks of the engine.)
\* And if alternatives bind the same variables, an instance that is
\* updated or forked gets the mask of its new state from its name and the event
\* ("inst->ti_key.tk_mask == t->from_mask"); only a cleanup may do otherwise.
\* In a strict assertion without alternatives it is named by exactly what was
\* bound on the way.
EngineCanRunIt ==
  /\ \A id \in DOMAIN automata : Unambiguous(id)
  /\ \A id \in Loaded :
       LET r == automata[id]
           d == BuildAutomatonDescription(r)
           first == d.ta_transitions[1][1]
           c == [site |-> Loading(id).site, defs |-> Descriptions(manifest)]
           all == UNION {Range(ts) : ts \in Range(d.ta_transitions)}
       IN /\ first.init /\ first.from = 1 /\ first.to_mask = {}
          /\ \A s \in DOMAIN d.ta_transitions : d.ta_transitions[s][1].init => s = 1
          /\ \A t, u \in all :
               /\ t.from = u.from => t.from_mask = u.from_mask
               /\ t.to = u.from => ~t.cleanup /\ t.to_mask = u.from_mask
               /\ t.init => t.to_mask = {}
          /\ \A t \in Range(d.ta_transitions[d.ta_cleanup_symbol]) : t.cleanup
          /\ \A s \in DOMAIN r.classes : \A k \in DOMAIN r.classes[s] :
               LET t == d.ta_transitions[s][k] IN
               /\ t.from = 1 => t.init
               /\ Uniform(c, Loading(id).expr) /\ ~t.cleanup
                    => t.to_mask \subseteq t.from_mask \cup r.classes[s][k].event.refs
               /\ Straight(Loading(id).expr) /\ (\A e \in Symbols(r.auto) : e.strict)
                    => t.to_mask = t.from_mask \cup r.classes[s][k].event.refs
=============================================================================
