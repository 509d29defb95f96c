------------------------- MODULE TeslaInstrumenter --------------------------
(***************************************************************************)
(* The instrumenter (tesla/instrumenter) and what the code it generates    *)
(* does.  Every module of the program is put through the four passes of    *)
(* instrument.cpp: assertion sites, callees, callers, field assignments.   *)
(* A pass writes hooks: functions made of basic blocks that match values   *)
(* against the patterns of the manifest, build a struct tesla_key and call *)
(* libtesla.  Then the program runs: functions are called and return,      *)
(* fields are stored to, assertions are reached, and each event runs its   *)
(* hooks.                                                                  *)
(*                                                                         *)
(* A hook is a graph of numbered blocks, 0 being the exit block; LLVM's    *)
(* replaceAllUsesWith is Redirect.  Integers are Width bits wide.  Of the  *)
(* types only libtesla's structures are kept, which the passes look up in  *)
(* the module by name or create.  What is left out: linkage, and the hooks *)
(* of Objective-C messages (asking for one is an assert(false)).           *)
(***************************************************************************)
EXTENDS Integers, Sequences, FiniteSets, SequencesExt

CONSTANTS
  Manifests,   \* automata and their lifetimes, and the sites in each module
  Modules,     \* the program: [module -> [defs, refs, accesses, fields, sends]]
  Params,      \* [function -> number of parameters]
  Void,        \* the functions that return nothing
  Pointers,    \* what is no integer: <<function or field, parameter of its hook>>
  Width,       \* of an int, in bits
  BitAnd(_, _),         \* LLVM's and
  Content,     \* [address -> the int it points to]
  SuppressDebugInstr,   \* -suppress-debug-instrumentation
  Debugging,   \* whether TESLA_DEBUG asks for tesla.events when the program runs
  MaxDepth,    \* bound: calls in progress
  MaxEvents    \* bound: events of a run

VARIABLES
  manifest,
  todo,      \* the passes still to be run, <<module, pass>>
  types,     \* [module -> [structure -> its fields]]
  hooks,     \* [where, name, direction] -> the hook's blocks
  outcome,   \* "ok" or "crash" (an assertion, a NULL dereference)
  stack,     \* calls in progress: [from, fn, args]
  fields,    \* [field -> its value]
  event,     \* what happened last
  calls,     \* the calls of libtesla its hooks made, in their order
  open,      \* [lifetime, as libtesla knows it -> sunrises less sunsets]
  count      \* events so far

vars == <<manifest, todo, types, hooks, outcome, stack, fields, event, calls, open,
          count>>

Ints == 0 .. 2 ^ Width - 1
Trunc(v) == v % 2 ^ Width
Bit(v, b) == (v \div 2 ^ b) % 2
Bits == 0 .. Width - 1

\* w has all of its bits in v just if "and" leaves it as it is.
ASSUME WidthAssumption ==
  /\ Width \in Nat \ {0} /\ 2 ^ Width \in Nat \ {0}
  /\ \A v, w \in Ints :
       /\ BitAnd(v, w) = BitAnd(w, v)
       /\ BitAnd(v, w) = w <=> \A b \in Bits : Bit(w, b) = 1 => Bit(v, b) = 1

Fields == UNION {Modules[m].fields : m \in DOMAIN Modules}
Sites(m) == manifest.sites[m]

\* Faulty variant: fields are instrumented first.
PassesFieldFirst == <<"field", "assertion", "callee", "caller">>

Passes == <<"assertion", "callee", "caller", "field">>
Nothing == [what |-> "nothing"]

\* Faulty variant: an event is described by its function alone.
BuildLifetimeEventShort(e) == [repr |-> <<e.fn, e.dir>>]

\* A bound is described by the whole of its event, serialised (length and hash go
\* with it).  A module makes a description for every use it has of a lifetime:
\* the one it looks for by name has internal linkage and is never found.
BuildLifetimeEvent(e) == [repr |-> e]
BuildLifetime(l) ==
  [begin |-> BuildLifetimeEvent(manifest.lifetimes[l].init),
   end |-> BuildLifetimeEvent(manifest.lifetimes[l].cleanup)]

Init ==
  /\ manifest \in Manifests
  /\ todo = {<<m, k>> : m \in DOMAIN Modules, k \in DOMAIN Passes}
  /\ types = [m \in DOMAIN Modules |-> << >>]
  /\ hooks = << >>
  /\ outcome = "ok"
  /\ stack = <<>>
  /\ fields = [f \in Fields |-> 0]
  /\ event = Nothing /\ calls = <<>>
  /\ open = [b \in {BuildLifetime(l) : l \in DOMAIN manifest.lifetimes} |-> 0]
  /\ count = 0

-----------------------------------------------------------------------------
(* Basic blocks *)

Exit == 0
NoTest == [match |-> "none"]
NoCall == [fn |-> "none"]
NewHook == [entry |-> Exit, blocks |-> <<>>, ends |-> << >>, ok |-> TRUE]

Block(test, call, yes, no) == [test |-> test, call |-> call, yes |-> yes, no |-> no]
AddBlock(h, b) == [h EXCEPT !.blocks = Append(@, b)]

\* Every branch to block b becomes a branch to block c.
To(b, c, x) == IF x = b THEN c ELSE x
Branches(block, b, c) ==
  Block(block.test, block.call, To(b, c, block.yes), To(b, c, block.no))
Redirect(h, b, c) ==
  [h EXCEPT !.entry = To(b, c, @),
            !.blocks = [k \in DOMAIN @ |-> Branches(@[k], b, c)]]

\* A new block before block b.
Before(h, b, block) == AddBlock(Redirect(h, b, Len(h.blocks) + 1), block)

\* What a hook does first, if it is asked to: say what happened.
CreatePreamble(h) ==
  IF SuppressDebugInstr THEN h
  ELSE Before(h, Exit, Block([match |-> "debugging"], [fn |-> "printf"], Exit, Exit))

\* Match: values that do not match go on to the end.
Match(h, instr, param, pattern) ==
  IF pattern.type # "Constant" THEN h
  ELSE Before(h, instr,
         Block([match |-> pattern.match, param |-> param,
                value |-> Trunc(pattern.value)],
               NoCall, instr, Exit))

\* The parameters that go into the key: <<index, parameter, pattern type>>.
HasIndex(pattern) == pattern.type \in {"Variable", "Indirect"}
TESLA_KEY_SIZE == 4

\* Faulty variant: variables are put at the positions of the parameters.
KeyArgsByPosition(patterns) ==
  {<<k - 1, k, patterns[k].type>> :
     k \in {n \in DOMAIN patterns : HasIndex(patterns[n])}}

KeyArgs(patterns) ==
  {<<patterns[k].index, k, patterns[k].type>> :
     k \in {n \in DOMAIN patterns : HasIndex(patterns[n])}}

\* The new instrumentation goes to the end of the chain.
AddInstrumentation(h, patterns, params, call) ==
  LET instr == Len(h.blocks) + 1
      chained == Before(h, Exit, Block(NoTest, call, Exit, Exit))
      matched == FoldLeft(LAMBDA g, k : Match(g, instr, k, patterns[k]), chained,
                          [k \in 1 .. Len(patterns) |-> k])
      placed == /\ \A k, n \in DOMAIN patterns :
                     k # n /\ HasIndex(patterns[k]) /\ HasIndex(patterns[n])
                       => patterns[k].index # patterns[n].index
                /\ \A k \in DOMAIN patterns :
                     HasIndex(patterns[k]) => patterns[k].index < TESLA_KEY_SIZE
  IN [matched EXCEPT !.ok = @ /\ placed /\ Len(patterns) = params]

-----------------------------------------------------------------------------
(* Hooks.  hs: all the hooks made so far.                                   *)

At(hs, key) == IF key \in DOMAIN hs THEN hs[key] ELSE CreatePreamble(NewHook)
Put(hs, key, h) == [k \in DOMAIN hs \cup {key} |-> IF k = key THEN h ELSE hs[k]]

IsFn(e) == e.kind = "Fn"
Patterns(e) == e.args \o e.ret

\* The parameters of a function's hook: its own, and the value it returns.
HookParams(e) ==
  Params[e.fn] + IF e.dir = "Exit" /\ e.fn \notin Void THEN 1 ELSE 0

\* What the analyser writes: a pattern for every parameter and for the value that
\* is returned; the variables of an assertion in the order of their indices; the
\* bounds of a lifetime among the events of the automata; and no lifetime twice.
IsPattern(p) ==
  /\ p.type \in {"Any", "Constant", "Variable", "Indirect"}
  /\ p.type = "Constant" => p.match \in {"Exact", "Flags", "Mask"} /\ p.value \in Int
  /\ HasIndex(p) => p.index \in Nat
IsFnEvent(e) ==
  /\ IsFn(e) /\ e.fn \in DOMAIN Params
  /\ e.dir \in {"Entry", "Exit"} /\ e.ctx \in {"Callee", "Caller"}
  /\ e.args \in Seq(ToSet(e.args)) /\ e.ret \in Seq(ToSet(e.ret))
  /\ \A p \in ToSet(Patterns(e)) : IsPattern(p)
  /\ Len(Patterns(e)) = HookParams(e)
IsFieldEvent(e) ==
  /\ e.kind = "Field" /\ e.how \in {"=", "+=", "-="}
  /\ e.value.type = "Constant" => e.value.value \in Int
IsAutomaton(A) ==
  /\ A.classes \in Seq(ToSet(A.classes)) /\ A.bounds \subseteq DOMAIN A.classes
  /\ \A e \in ToSet(A.classes) :
       (IsFn(e) => IsFnEvent(e)) /\ (e.kind = "Field" => IsFieldEvent(e))
  /\ A.args \in Seq([index : Nat, free : BOOLEAN, visible : BOOLEAN])
  /\ \A k \in DOMAIN A.args : A.args[k].index = k - 1
IsManifest(M) ==
  /\ M.sites \in [DOMAIN Modules -> SUBSET Nat]
  /\ M.lifetimes \in Seq(ToSet(M.lifetimes)) /\ M.automata \in Seq(ToSet(M.automata))
  /\ \A A \in ToSet(M.automata) :
       /\ IsAutomaton(A) /\ A.lifetime \in DOMAIN M.lifetimes
       /\ \A s \in A.bounds : A.classes[s] \in {M.lifetimes[A.lifetime].init,
                                               M.lifetimes[A.lifetime].cleanup}
  /\ \A L \in ToSet(M.lifetimes) : \A e \in {L.init, L.cleanup} :
       IsFn(e) /\ \E A \in ToSet(M.automata) : e \in ToSet(A.classes)
  /\ \A j, k \in DOMAIN M.lifetimes :
       /\ M.lifetimes[j].init = M.lifetimes[k].init
       /\ M.lifetimes[j].cleanup = M.lifetimes[k].cleanup
       => j = k

\* A function is defined once, and a module knows the fields it uses.
ASSUME ManifestAssumption == \A M \in Manifests : IsManifest(M)
ASSUME ProgramAssumption ==
  /\ Params \in [DOMAIN Params -> Nat]
  /\ \A m, n \in DOMAIN Modules :
       m # n => Modules[m].defs \cap Modules[n].defs = {}
  /\ DOMAIN Modules \cap {"callee", "assertion"} = {}
  /\ \A m \in DOMAIN Modules : \A x \in Modules[m].accesses : x.field \in Modules[m].fields

\* Match makes a constant of the type of the value it is compared with.
ComparesInts(e) ==
  \A k \in DOMAIN Patterns(e) :
    Patterns(e)[k].type = "Constant" => <<e.fn, k>> \notin Pointers

FnHook(hs, where, e, call) ==
  LET key == <<where, e.fn, e.dir>>
  IN Put(hs, key, [AddInstrumentation(At(hs, key), Patterns(e), HookParams(e), call)
                     EXCEPT !.ok = @ /\ ComparesInts(e)])

Update(a, symbol, patterns, deref, free) ==
  [fn |-> "update_state", automaton |-> a, symbol |-> symbol,
   key |-> KeyArgs(patterns), deref |-> deref, free |-> free]
Sun(fn, lifetime) == [fn |-> fn, lifetime |-> lifetime]

\* A callee is instrumented in the module that defines it.
DefinedIn(m, e) == e.ctx = "Callee" /\ e.fn \in Modules[m].defs

\* A module that does not define the first event's function is left ("continue")
\* before the last event is looked at.
LifetimeHooks(hs, m, l) ==
  LET L == manifest.lifetimes[l]
      hs1 == FnHook(hs, "callee", L.init, Sun("sunrise", BuildLifetime(l)))
  IN IF ~DefinedIn(m, L.init) THEN hs
     ELSE IF ~DefinedIn(m, L.cleanup) THEN hs1
     ELSE FnHook(hs1, "callee", L.cleanup, Sun("sunset", BuildLifetime(l)))

Automata == manifest.automata

\* All classes of all automata, in the order the passes visit them: <<a, symbol>>.
ClassesOf(a) == [s \in DOMAIN Automata[a].classes |-> <<a, s>>]
Classes ==
  FoldLeft(LAMBDA cs, a : cs \o ClassesOf(a), <<>>, [a \in DOMAIN Automata |-> a])
EventOf(c) == Automata[c[1]].classes[c[2]]

\* The first transition of the class begins or ends the automaton's lifetime.
IsBound(c) == c[2] \in Automata[c[1]].bounds

ClassHook(hs, where, c) ==
  FnHook(hs, where, EventOf(c), Update(c[1], c[2], Patterns(EventOf(c)), TRUE, {}))

CalleeClass(hs, m, c) ==
  LET e == EventOf(c)
  IN IF IsFn(e) /\ ~IsBound(c) /\ DefinedIn(m, e)
     THEN ClassHook(hs, "callee", c) ELSE hs

\* Bounds are not left out here.
CallerClass(hs, m, c) ==
  LET e == EventOf(c)
  IN IF IsFn(e) /\ e.ctx = "Caller" /\ e.fn \in Modules[m].refs
     THEN ClassHook(hs, m, c) ELSE hs

-----------------------------------------------------------------------------
(* Field assignments: one chain of blocks per automaton. *)

\* Faulty variant: one chain for all automata.
OneChain(h, a) ==
  IF h.ends # << >> THEN h
  ELSE [Before(h, Exit, Block(NoTest, NoCall, Exit, Exit))
          EXCEPT !.ends = [x \in DOMAIN Automata |-> Len(h.blocks) + 1]]

\* The hook of a field, found in the module by its name or made, with its own
\* copy of CreatePreamble.
CreateInstrPreamble(h) == CreatePreamble(h)
StructInstrumentation(hs, m, field) ==
  LET key == <<m, field, "Store">>
  IN IF key \in DOMAIN hs THEN hs[key] ELSE CreateInstrPreamble(NewHook)

\* The automaton's last block, which goes on to the next automaton's.
NextInstrBlock(h, a) ==
  IF a \in DOMAIN h.ends THEN h
  ELSE [Before(h, Exit, Block(NoTest, NoCall, Exit, Exit))
          EXCEPT !.ends = Put(@, a, Len(h.blocks) + 1)]

\* The structure and, if it is a variable, the new value are put at positions 0
\* and 1, whatever the indices of the patterns.
FieldKey(e) ==
  {<<0, 1, "Variable">>}
    \cup IF e.value.type = "Variable" THEN {<<1, 2, "Variable">>} ELSE {}

\* Having called libtesla, the block leaves the automaton's chain.  The new value
\* is an integer to be matched with a constant or a variable; otherwise, panic.
AppendInstrumentation(h, c) ==
  LET e == EventOf(c)
      g == [NextInstrBlock(h, c[1])
              EXCEPT !.ok = @ /\ \/ e.value.type = "Variable"
                                 \/ /\ e.value.type = "Constant"
                                    /\ <<e.field, 2>> \notin Pointers]
      end == g.ends[c[1]]
      instr == Len(g.blocks) + 1
      g1 == Before(g, end,
              Block(NoTest, [Update(c[1], c[2], <<>>, FALSE, {}) EXCEPT !.key = FieldKey(e)],
                    Exit, Exit))
  IN IF e.value.type # "Constant" THEN g1
     ELSE Before(g1, instr,
            Block([match |-> e.how, param |-> 2, value |-> Trunc(e.value.value)],
                  NoCall, instr, end))

HasField(m, e) == e.kind = "Field" /\ e.field \in Modules[m].fields

FieldClass(hs, m, c) ==
  LET e == EventOf(c)
  IN IF HasField(m, e)
     THEN Put(hs, <<m, e.field, "Store">>,
              AppendInstrumentation(StructInstrumentation(hs, m, e.field), c))
     ELSE hs

\* Clang annotates the address of a field, and other things; only what begins
\* with "field:" is looked at.
FieldAnnotation(name) == [kind |-> "AK_FieldAnnotation", name |-> name]
RawAnnotation(name) == [kind |-> "AK_RawAnnotation", name |-> name]
Interpret(x) ==
  IF x.note = "field" THEN FieldAnnotation(x.field) ELSE RawAnnotation(x.note)

\* Loads are found too, and left alone.
Instrumented(x) == x.op = "store" /\ Interpret(x).kind = "AK_FieldAnnotation"

-----------------------------------------------------------------------------
(* Assertion sites *)

Known(a) ==
  FoldLeft(LAMBDA values, x : IF x.free THEN values ELSE Append(values, x), <<>>,
           Automata[a].args)
FreeMask(a) == {x.index : x \in {y \in ToSet(Automata[a].args) : y.free}}

ArgSize(a) ==
  FoldLeft(LAMBDA n, x : IF n + 1 > x.index THEN n + 1 ELSE x.index, 0, Known(a))

\* CollectArgs looks the variables up by name among what is visible at the site
\* and writes Args[index] in a vector of ArgSize, all of which CreateInstrFn
\* dereferences.
CollectArgs(a) ==
  /\ \A x \in ToSet(Known(a)) : x.visible
  /\ {x.index : x \in ToSet(Known(a))} = 0 .. ArgSize(a) - 1

\* The first class of assertion events; 0, with which nothing is done, is none.
AssertTrans(a) ==
  {s \in DOMAIN Automata[a].classes : Automata[a].classes[s].kind = "Assert"}
AssertSymbol(a) == IF AssertTrans(a) = {} THEN 0 ELSE Min(AssertTrans(a))

\* A site is known by its location, by which the manifest must name an automaton,
\* and one with an assertion event.
FindAutomaton(location) == {a \in DOMAIN Automata : a = location}
SitesAreKnown(m) == \A l \in Sites(m) : \E a \in FindAutomaton(l) : AssertTrans(a) # {}

AssertionHook(hs, a) ==
  LET patterns == [k \in DOMAIN Known(a) |->
                     [type |-> "Variable", index |-> Known(a)[k].index]]
  IN Put(hs, <<"assertion", a, "Reached">>,
         [AddInstrumentation(CreatePreamble(NewHook), patterns, ArgSize(a),
            Update(a, AssertSymbol(a), patterns, FALSE, FreeMask(a)))
          EXCEPT !.ok = @ /\ CollectArgs(a)])

-----------------------------------------------------------------------------
(* The passes *)

CalleePass(hs, m) ==
  FoldLeft(LAMBDA h, c : CalleeClass(h, m, c),
           FoldLeft(LAMBDA h, l : LifetimeHooks(h, m, l), hs,
                    [l \in DOMAIN manifest.lifetimes |-> l]),
           Classes)

Pass(hs, m, pass) ==
  CASE pass = "assertion" ->
         FoldLeft(LAMBDA h, a : IF a \in Sites(m) THEN AssertionHook(h, a) ELSE h, hs,
                  [a \in DOMAIN Automata |-> a])
    [] pass = "callee" -> CalleePass(hs, m)
    [] pass = "caller" ->
         FoldLeft(LAMBDA h, c : CallerClass(h, m, c), hs, Classes)
    [] OTHER -> FoldLeft(LAMBDA h, c : FieldClass(h, m, c), hs, Classes)

-----------------------------------------------------------------------------
(* libtesla's structures *)

\* struct tesla_key is some words and two masks, here and below.
KeyStruct == [n \in 1 .. TESLA_KEY_SIZE |-> "word"] \o <<"mask", "freemask">>
LifetimeEventStruct == <<"repr", "length", "hash">>
TransitionStruct == <<"from", "from_mask", "to", "to_mask", "flags">>
TransitionsStruct == <<"length", "transitions">>

\* What libtesla is compiled with.
libtesla ==
  [tesla_key |-> KeyStruct, tesla_lifetime_event |-> LifetimeEventStruct,
   tesla_lifetime |-> <<"begin", "end", "repr">>,
   tesla_transition |-> TransitionStruct, tesla_transitions |-> TransitionsStruct,
   tesla_automaton |-> <<"name", "alphabet_size", "cleanup_symbol", "transitions",
                         "description", "symbol_names", "lifetime">>]

\* A structure is looked up in the module by its name, and created if it is not
\* found.
StructTy(ts, structs) ==
  [n \in DOMAIN ts \cup DOMAIN structs |-> IF n \in DOMAIN ts THEN ts[n] ELSE structs[n]]

\* InstrContext::Create asks for all of them.
Create(ts) ==
  StructTy(ts,
    [tesla_key |-> KeyStruct, tesla_lifetime_event |-> LifetimeEventStruct,
     tesla_lifetime |-> <<"begin", "end", "repr">>,
     tesla_transition |-> TransitionStruct, tesla_transitions |-> TransitionsStruct,
     tesla_automaton |-> <<"name", "alphabet_size", "cleanup_symbol", "transitions",
                           "description", "symbol_names", "lifetime">>])

\* So do the functions of Instrumentation.cpp, with other ideas of a lifetime
\* and of an automaton; UpdateState is the one that needs them.
UpdateStateTypes(ts) ==
  StructTy(ts,
    [tesla_key |-> KeyStruct, tesla_lifetime_event |-> LifetimeEventStruct,
     tesla_lifetime |-> <<"begin", "end">>,
     tesla_transition |-> TransitionStruct, tesla_transitions |-> TransitionsStruct,
     tesla_automaton |-> <<"name", "alphabet_size", "transitions", "description",
                           "symbol_names", "lifetime">>])

TypesAfter(m, pass) ==
  IF pass # "field" THEN Create(types[m])
  ELSE IF \E c \in ToSet(Classes) : HasField(m, EventOf(c))
       THEN UpdateStateTypes(types[m]) ELSE types[m]

\* The structures a pass makes constants of: the descriptions of automata and
\* lifetimes.
Described(m, pass) ==
  CASE pass = "assertion" /\ Sites(m) \cap DOMAIN Automata # {} ->
         DOMAIN libtesla \ {"tesla_key"}
    [] pass = "callee" /\ (\E l \in DOMAIN manifest.lifetimes :
                             DefinedIn(m, manifest.lifetimes[l].init)) ->
         {"tesla_lifetime", "tesla_lifetime_event"}
    [] OTHER -> {}

\* A constant has as many values as its type has fields.
ConstantsFit(m, pass) ==
  \A n \in Described(m, pass) : Len(TypesAfter(m, pass)[n]) = Len(libtesla[n])

-----------------------------------------------------------------------------
(* Objective-C messages: [kind, fn (the selector), receiver, dir, ctx].     *)

Messages == {c \in ToSet(Classes) : EventOf(c).kind = "Message"}

\* ObjCInstrumentation::instrument: the selector's type is that of the first
\* message with it, to whatever receiver; in either context.
CalleeMessage(m, e) ==
  e.receiver = "super" \/ \E s \in Modules[m].sends : s[1] = e.fn

\* MsgSendInstrumenter: messages with the selector to this receiver.
CallerMessage(m, e) ==
  e.ctx = "Caller" /\ (e.receiver = "super" \/ <<e.fn, e.receiver>> \in Modules[m].sends)

\* Messages that are found have no instrumentation: assert(false).
MessageFails(m, pass) ==
  \E c \in Messages : \/ pass = "callee" /\ CalleeMessage(m, EventOf(c))
                      \/ pass = "caller" /\ CallerMessage(m, EventOf(c))

\* Modules are instrumented one by one, in any order, each by all the passes.
Instrument(m, k) ==
  /\ outcome = "ok" /\ <<m, k>> \in todo
  /\ \A n \in 1 .. k - 1 : <<m, n>> \notin todo
  /\ \A t \in todo : t[1] # m => <<t[1], 1>> \in todo
  /\ types' = [types EXCEPT ![m] = TypesAfter(m, Passes[k])]
  /\ hooks' = Pass(hooks, m, Passes[k])
  /\ todo' = todo \ {<<m, k>>}
  /\ outcome' = IF /\ \A h \in DOMAIN hooks' : hooks'[h].ok
                   /\ ConstantsFit(m, Passes[k]) /\ ~MessageFails(m, Passes[k])
                   /\ Passes[k] = "assertion" => SitesAreKnown(m)
                THEN "ok" ELSE "crash"
  /\ UNCHANGED <<manifest, stack, fields, event, calls, open, count>>

-----------------------------------------------------------------------------
(* Running a hook.  vals: its arguments; for a store, the structure, the new *)
(* value and what the field holds.                                           *)

Holds(t, vals) ==
  CASE t.match = "none" -> TRUE
    [] t.match = "debugging" -> Debugging
    [] t.match \in {"Exact", "="} -> vals[t.param] = t.value
    [] t.match = "Flags" -> BitAnd(vals[t.param], t.value) = t.value
    [] t.match = "Mask" -> BitAnd(vals[t.param], t.value) = vals[t.param]
    [] t.match = "+=" -> vals[t.param] = Trunc(vals[3] + t.value)
    [] OTHER -> vals[t.param] = Trunc((vals[3] + 2 ^ Width) - t.value)

\* ConstructKey, with the indirection a pattern asks for.
ConstructKey(call, vals) ==
  {<<k[1], IF call.deref /\ k[3] = "Indirect" THEN Content[vals[k[2]]]
           ELSE vals[k[2]]>> : k \in call.key}

Made(call, vals) ==
  CASE call.fn = "none" -> <<>>
    [] call.fn = "update_state" ->
         <<[fn |-> call.fn, automaton |-> call.automaton, symbol |-> call.symbol,
            key |-> ConstructKey(call, vals), free |-> call.free]>>
    [] OTHER -> <<call>>

\* One block, and on.
Step(h, vals, s) ==
  LET b == h.blocks[s.at]
  IN IF s.at = Exit THEN s
     ELSE IF Holds(b.test, vals)
          THEN [at |-> b.yes, made |-> s.made \o Made(b.call, vals)]
          ELSE [s EXCEPT !.at = b.no]

\* No branch goes back, so there are no more steps than blocks.
Walk(h, vals) ==
  FoldLeft(LAMBDA s, b : Step(h, vals, s), [at |-> h.entry, made |-> <<>>], h.blocks).made

\* What has no hook does nothing.
Run(key, vals) == IF key \in DOMAIN hooks THEN Walk(hooks[key], vals) ELSE <<>>

-----------------------------------------------------------------------------
(* The program.  Calls that are made: of functions the calling module knows; *)
(* their arguments are ints.                                                 *)

Running == todo = {} /\ outcome = "ok" /\ count < MaxEvents

Happens(e, cs) ==
  /\ Running
  /\ event' = e /\ calls' = cs /\ count' = count + 1
  /\ open' = [b \in DOMAIN open |->
                (open[b] + Cardinality({k \in DOMAIN cs : cs[k] = Sun("sunrise", b)}))
                  - Cardinality({k \in DOMAIN cs : cs[k] = Sun("sunset", b)})]
  /\ UNCHANGED <<manifest, todo, types, hooks, outcome>>

DefinedFns == UNION {Modules[m].defs : m \in DOMAIN Modules}
RunCallee(fn, dir, vals) ==
  IF fn \in DefinedFns THEN Run(<<"callee", fn, dir>>, vals) ELSE <<>>

Call(m, fn, args) ==
  /\ Len(stack) < MaxDepth
  /\ fn \in Modules[m].refs
  /\ args \in [1 .. Params[fn] -> Ints]
  /\ stack' = Append(stack, [from |-> m, fn |-> fn, args |-> args])
  /\ Happens([what |-> "Fn", dir |-> "Entry", fn |-> fn, from |-> m, vals |-> args],
             Run(<<m, fn, "Entry">>, args) \o RunCallee(fn, "Entry", args))
  /\ UNCHANGED fields

Return(ret) ==
  /\ stack # <<>>
  /\ LET f == Last(stack)
         vals == f.args \o ret
     IN /\ ret \in [1 .. IF f.fn \in Void THEN 0 ELSE 1 -> Ints]
        /\ Happens([what |-> "Fn", dir |-> "Exit", fn |-> f.fn, from |-> f.from,
                    vals |-> vals],
                   RunCallee(f.fn, "Exit", vals) \o Run(<<f.from, f.fn, "Exit">>, vals))
  /\ stack' = Front(stack)
  /\ UNCHANGED fields

\* The hook runs before the store.
Store(m, x, struct, new) ==
  LET vals == <<struct, new, fields[x.field]>>
  IN /\ x.op = "store"
     /\ Happens([what |-> "Field", access |-> x, field |-> x.field, vals |-> vals],
                IF Instrumented(x) THEN Run(<<m, x.field, "Store">>, vals) ELSE <<>>)
     /\ fields' = [fields EXCEPT ![x.field] = new]
     /\ UNCHANGED stack

ReachAssertion(a, vals) ==
  /\ a \in DOMAIN Automata /\ \E m \in DOMAIN Modules : a \in Sites(m)
  /\ vals \in [1 .. Len(Known(a)) -> Ints]
  /\ Happens([what |-> "Assert", automaton |-> a, vals |-> vals],
             Run(<<"assertion", a, "Reached">>, vals))
  /\ UNCHANGED <<stack, fields>>

Finished == (outcome = "crash" \/ count = MaxEvents) /\ UNCHANGED vars

Next ==
  \/ \E m \in DOMAIN Modules, k \in DOMAIN Passes : Instrument(m, k)
  \/ \E m \in DOMAIN Modules, fn \in DOMAIN Params :
       \E args \in [1 .. Params[fn] -> Ints] : Call(m, fn, args)
  \/ \E ret \in [1 .. 0 -> Ints] \cup [1 .. 1 -> Ints] : Return(ret)
  \/ \E m \in DOMAIN Modules : \E x \in Modules[m].accesses, s \in {1}, v \in Ints :
       Store(m, x, s, v)
  \/ \E a \in DOMAIN Automata :
       \E vals \in [1 .. Len(Known(a)) -> Ints] : ReachAssertion(a, vals)
  \/ Finished

Spec == Init /\ [][Next]_vars

-----------------------------------------------------------------------------
(* What an event of the program is to the manifest, said without hooks. *)

Agrees(p, v) ==
  \/ p.type # "Constant"
  \/ p.match = "Exact" /\ v = Trunc(p.value)
  \/ p.match = "Flags" /\ \A b \in Bits : Bit(Trunc(p.value), b) = 1 => Bit(v, b) = 1
  \/ p.match = "Mask" /\ \A b \in Bits : Bit(v, b) = 1 => Bit(Trunc(p.value), b) = 1

OccursAs(p, e) ==
  CASE p.kind = "Fn" ->
         /\ e.what = "Fn" /\ e.fn = p.fn /\ e.dir = p.dir
         /\ p.ctx = "Callee" => e.fn \in DefinedFns
         /\ \A k \in DOMAIN Patterns(p) : Agrees(Patterns(p)[k], e.vals[k])
    [] p.kind = "Field" ->
         /\ e.what = "Field" /\ e.field = p.field /\ e.access.note = "field"
         /\ p.value.type = "Constant" =>
              e.vals[2] = Trunc(CASE p.how = "=" -> p.value.value
                                [] p.how = "+=" -> e.vals[3] + p.value.value
                                [] OTHER -> (e.vals[3] + 2 ^ Width) - p.value.value)
    [] OTHER -> FALSE

\* The variables of a pattern list with the values they have in the event.
Named(patterns, vals) ==
  {<<patterns[k].index, IF patterns[k].type = "Indirect" THEN Content[vals[k]]
                        ELSE vals[k]>> :
     k \in {n \in DOMAIN patterns : HasIndex(patterns[n])}}

Report(c, key, free) ==
  [fn |-> "update_state", automaton |-> c[1], symbol |-> c[2], key |-> key,
   free |-> free]

\* Where libtesla is told of a symbol.
Updates == {k \in DOMAIN calls : calls[k].fn = "update_state"}
UpdatesOf(a) == {k \in Updates : calls[k].automaton = a}

(* For every call, return and assertion site reached, libtesla is told of   *)
(* exactly the symbols it is an occurrence of, each once, whatever other    *)
(* patterns share the hook and in whichever module the function is called,  *)
(* but for the bounds, which are a matter of sunrise and sunset unless it   *)
(* is the caller that is watched (FnCallerInstrumenter does not ask);       *)
(* the key names each variable, at the index the analyser gave it, by its   *)
(* value (TranslationFn::AddInstrumentation and its callers).               *)
UpdatesAreExact ==
  event.what \in {"Fn", "Assert"} =>
    LET fn == {c \in ToSet(Classes) :
                 /\ IsBound(c) => EventOf(c).ctx = "Caller"
                 /\ OccursAs(EventOf(c), event)}
        known == [k \in DOMAIN Known(event.automaton) |->
                    [type |-> "Variable", index |-> Known(event.automaton)[k].index]]
    IN /\ \A k, n \in Updates : calls[k] = calls[n] => k = n
       /\ {calls[k] : k \in Updates} =
            IF event.what = "Fn"
            THEN {Report(c, Named(Patterns(EventOf(c)), event.vals), {}) : c \in fn}
            ELSE {Report(<<event.automaton, AssertSymbol(event.automaton)>>,
                         Named(known, event.vals), FreeMask(event.automaton))}

(* An annotated store is reported to every automaton with a symbol it is an *)
(* occurrence of, once: the first such symbol in the order of the alphabet, *)
(* whichever automata come before it in the same hook and whether or not    *)
(* they matched (FieldInstrumentation::AppendInstrumentation,               *)
(* NextInstrBlock).  The report names the structure and the new value by    *)
(* their indices, provided that these are variables whose indices are 0 and *)
(* 1, where FieldReference.cpp puts them.                                   *)
StoresReachEveryAutomaton ==
  event.what = "Field" =>
    \A a \in DOMAIN Automata :
      LET occurs == {s \in DOMAIN Automata[a].classes :
                       OccursAs(EventOf(<<a, s>>), event)}
      IN IF occurs = {} THEN UpdatesOf(a) = {}
         ELSE \E k \in Updates :
                LET u == calls[k]
                    e == EventOf(<<a, u.symbol>>)
                IN /\ UpdatesOf(a) = {k}
                   /\ u.symbol \in occurs /\ \A s \in occurs : u.symbol <= s
                   /\ /\ e.base.type = "Variable" /\ e.base.index = 0
                      /\ e.value.type = "Variable" => e.value.index = 1
                      => u.key = Named(<<e.base, e.value>>, event.vals)

Within(l) ==
  LET L == manifest.lifetimes[l]
  IN /\ L.init.ctx = "Callee" /\ L.cleanup.ctx = "Callee"
     /\ L.init.dir = "Entry" /\ L.cleanup.dir = "Exit"
     /\ L.init.fn = L.cleanup.fn /\ L.init.fn \in DefinedFns
     /\ \A p \in ToSet(Patterns(L.init) \o Patterns(L.cleanup)) : p.type # "Constant"

\* How often the hooks of the last event called fn for a lifetime.
Signals(fn, l) == Cardinality({k \in DOMAIN calls : calls[k] = Sun(fn, BuildLifetime(l))})

(* A lifetime begins and ends where the manifest says, and no other does:   *)
(* of every event, libtesla is told once that a lifetime has begun if it is *)
(* an occurrence of the lifetime's first event as its callee sees it, and   *)
(* once that it has ended if it is one of the last, however many lifetimes  *)
(* and symbols share the hook and even if lifetimes differ in nothing but   *)
(* how strict their bounds are; not otherwise.  The last event only counts  *)
(* if one module defines the functions of both (runOnModule of              *)
(* FnCalleeInstrumenter leaves the lifetime at the first "continue").  An   *)
(* automaton that lives within a function is therefore awake exactly while  *)
(* calls of the function are in progress.                                   *)
LifetimesFollowBounds ==
  \A l \in DOMAIN manifest.lifetimes :
    LET L == manifest.lifetimes[l]
        oneModule == \E m \in DOMAIN Modules : DefinedIn(m, L.init) /\ DefinedIn(m, L.cleanup)
    IN /\ Signals("sunrise", l) =
            IF L.init.ctx = "Callee" /\ OccursAs(L.init, event) THEN 1 ELSE 0
       /\ Signals("sunset", l) = IF oneModule /\ OccursAs(L.cleanup, event) THEN 1 ELSE 0
       /\ Within(l) =>
            open[BuildLifetime(l)] =
              Cardinality({k \in DOMAIN stack : stack[k].fn = L.init.fn})

Repeats(patterns) ==
  \E k, n \in DOMAIN patterns :
    /\ k # n /\ HasIndex(patterns[k]) /\ HasIndex(patterns[n])
    /\ patterns[k].index = patterns[n].index

Beyond(patterns) ==
  \E k \in DOMAIN patterns : HasIndex(patterns[k]) /\ patterns[k].index >= TESLA_KEY_SIZE

\* What the passes do not support in an event of a function or of a field.
Refused(e) ==
  \/ IsFn(e) /\ (Repeats(Patterns(e)) \/ Beyond(Patterns(e)) \/ ~ComparesInts(e))
  \/ /\ e.kind = "Field" /\ e.value.type # "Variable"
     /\ e.value.type = "Constant" => <<e.field, 2>> \in Pointers

(* The instrumenter only gives up on what it does not support: an assertion *)
(* whose free variables come before others (CollectArgs), that names a      *)
(* variable twice in one event, has more variables than a key has words     *)
(* (AddInstrumentation), or one that is not visible at the site; a constant *)
(* for a value that is no integer, and an assignment of neither a constant  *)
(* nor a variable (AppendInstrumentation); Objective-C messages the program *)
(* sends; and a site of which the manifest has no automaton (FindAutomaton) *)
(* or one without an assertion event (AssertTrans).  And whichever module   *)
(* is being instrumented, the structures its code shares with libtesla are  *)
(* laid out as in libtesla.h, although two parts of the instrumenter have   *)
(* their own definitions of them and do not agree (InstrContext::Create,    *)
(* Instrumentation.cpp).  Values of types that the code cannot print or     *)
(* cast, and IR that Clang does not write, are not modelled.                *)
CrashIsExplained ==
  /\ \A m \in DOMAIN Modules : \A n \in DOMAIN types[m] : types[m][n] = libtesla[n]
  /\ outcome = "crash" =>
       \/ \E a \in DOMAIN Automata : \E x \in ToSet(Known(a)) :
            \/ \E i \in FreeMask(a) : i < x.index
            \/ x.index >= TESLA_KEY_SIZE \/ ~x.visible
       \/ \E c \in ToSet(Classes) : Refused(EventOf(c))
       \/ \E c \in Messages, m \in DOMAIN Modules : CalleeMessage(m, EventOf(c))
       \/ \E m \in DOMAIN Modules : \E l \in Sites(m) :
            \A a \in FindAutomaton(l) : AssertTrans(a) = {}

=============================================================================
