------------------------- MODULE MCTeslaInstrumenter ------------------------
(***************************************************************************)
(* A program of two modules: "m" defines work (the bound) and lookup, "n"  *)
(* defines check; ext is a library function.  The manifests together have  *)
(* every kind of pattern, hooks shared by several events of several        *)
(* automata, fields watched by several automata, a lifetime that starts in *)
(* one module and ends in the other, lifetimes that differ in strictness   *)
(* alone, and assertions that cannot be instrumented.                      *)
(***************************************************************************)
EXTENDS TeslaInstrumenter, Bitwise, TLC

MCModules ==
  [m |-> [defs |-> {"work", "lookup"}, refs |-> {"work", "lookup", "check"},
          fields |-> {"s.n", "s.p"}, sends |-> {},
          accesses |-> {[note |-> "field", field |-> "s.n", op |-> "store"]}],
   n |-> [defs |-> {"check"}, refs |-> {"lookup", "check", "ext"},
          fields |-> {"s.n"}, sends |-> {<<"init", "Window">>},
          accesses |-> {[note |-> n, field |-> "s.n", op |-> "store"] : n \in {"field", "var"}}
                         \cup {[note |-> "field", field |-> "s.n", op |-> "load"]}]]
MCParams == [work |-> 0, lookup |-> 1, check |-> 1, ext |-> 1]
MCVoid == {"work", "ext"}
MCPointers == {<<"check", 1>>, <<"s.p", 2>>}
MCBitAnd(v, w) == v & w
MCContent == <<2, 3, 1>> @@ (0 :> 0)

\* Assertion sites are in module "m".
InM(locations) == [m |-> locations, n |-> {}]

AnyValue == [type |-> "Any"]
Var(i) == [type |-> "Variable", index |-> i]
Ptr(i) == [type |-> "Indirect", index |-> i]
Const(m, v) == [type |-> "Constant", match |-> m, value |-> v]
Fn(fn, dir, ctx, args, ret) ==
  [kind |-> "Fn", fn |-> fn, dir |-> dir, ctx |-> ctx, args |-> args, ret |-> ret,
   strict |-> FALSE]
AssignTo(field, base, how, value) ==
  [kind |-> "Field", field |-> field, base |-> base, how |-> how, value |-> value]
Assign(base, how, value) == AssignTo("s.n", base, how, value)
Site == [kind |-> "Assert"]
Arg(i, free) == [index |-> i, free |-> free, visible |-> TRUE]
Hidden(i) == [Arg(i, FALSE) EXCEPT !.visible = FALSE]

WorkIn == Fn("work", "Entry", "Callee", <<>>, <<>>)
WorkOut == Fn("work", "Exit", "Callee", <<>>, <<>>)
InWork == [init |-> WorkIn, cleanup |-> WorkOut]
Across == [init |-> Fn("lookup", "Entry", "Callee", <<AnyValue>>, <<>>),
           cleanup |-> Fn("check", "Exit", "Callee", <<AnyValue>>, <<AnyValue>>)]

\* The bounds are the first and the last class.
Automaton(lifetime, args, classes) ==
  [lifetime |-> lifetime, args |-> args, classes |-> classes,
   bounds |-> {1, Len(classes)}]

Calls ==
  [sites |-> InM({1, 2}), lifetimes |-> <<InWork>>,
   automata |->
     <<Automaton(1, <<Arg(0, FALSE)>>,
         <<WorkIn, Fn("lookup", "Exit", "Callee", <<Var(0)>>, <<Const("Exact", 5)>>),
           Site, Fn("lookup", "Entry", "Callee", <<Const("Exact", 1)>>, <<>>),
           Fn("check", "Exit", "Callee", <<Ptr(0)>>, <<Const("Flags", 2)>>), WorkOut>>),
       Automaton(1, <<Arg(0, FALSE), Arg(1, TRUE)>>,
         <<WorkIn, Fn("check", "Entry", "Caller", <<Var(1)>>, <<>>), Site,
           Fn("ext", "Exit", "Caller", <<Const("Mask", 2)>>, <<>>),
           Fn("lookup", "Exit", "Callee", <<AnyValue>>, <<Var(0)>>),
           Fn("work", "Entry", "Caller", <<>>, <<>>), WorkOut>>)>>]

Stores ==
  [sites |-> InM({1, 2}), lifetimes |-> <<InWork>>,
   automata |->
     <<Automaton(1, <<Arg(0, FALSE)>>,
         <<WorkIn, Assign(Var(0), "+=", Const("Exact", 1)), Site,
           Assign(Var(0), "-=", Const("Exact", 3)), WorkOut>>),
       Automaton(1, <<Arg(0, FALSE), Arg(1, FALSE)>>,
         <<WorkIn, Assign(Var(0), "=", Var(1)), Site,
           Assign(Var(0), "=", Const("Exact", 2)), WorkOut>>),
       Automaton(1, <<Arg(0, TRUE), Arg(1, TRUE)>>,
         <<WorkIn, Fn("lookup", "Entry", "Callee", <<Var(0)>>, <<>>),
           Assign(Var(1), "=", Const("Exact", 6)), Site, WorkOut>>)>>]

TwoModules ==
  [sites |-> InM({1, 2}), lifetimes |-> <<InWork, Across>>,
   automata |->
     <<Automaton(2, <<>>, <<Across.init, Site, Across.cleanup>>),
       Automaton(1, <<>>,
         <<WorkIn, Fn("lookup", "Entry", "Callee", <<AnyValue>>, <<>>), Site, WorkOut>>)>>]

\* Two lifetimes that differ in strictness alone.  The class of the first bound
\* has another event's transition at its head in one of the automata.
Strictly(e) == [e EXCEPT !.strict = TRUE]
StrictWork == [init |-> Strictly(WorkIn), cleanup |-> Strictly(WorkOut)]
StrictAndNot ==
  [sites |-> InM({1, 2}), lifetimes |-> <<InWork, StrictWork>>,
   automata |->
     <<[Automaton(2, <<>>, <<StrictWork.init, Site, StrictWork.cleanup>>)
          EXCEPT !.bounds = {3}],
       Automaton(1, <<>>, <<WorkIn, Site, WorkOut>>)>>]

\* What cannot be instrumented, if it is what the name says.
InWorkOnly(args, classes) ==
  [sites |-> InM({1}), lifetimes |-> <<InWork>>,
   automata |-> <<Automaton(1, args, <<WorkIn>> \o classes \o <<WorkOut>>)>>]

FreeFirst == InWorkOnly(<<Arg(0, TRUE), Arg(1, FALSE)>>, <<Site>>)
Invisible == InWorkOnly(<<Hidden(0)>>, <<Site>>)
FifthVariable ==
  InWorkOnly([k \in 1 .. 5 |-> Arg(k - 1, TRUE)],
             <<Fn("lookup", "Entry", "Callee", <<Var(4)>>, <<>>), Site>>)
FifthArgument == InWorkOnly([k \in 1 .. 5 |-> Arg(k - 1, FALSE)], <<Site>>)
NoSite == InWorkOnly(<<>>, <<Fn("lookup", "Entry", "Callee", <<AnyValue>>, <<>>)>>)
Twice ==
  InWorkOnly(<<Arg(0, FALSE)>>,
             <<Fn("lookup", "Exit", "Callee", <<Var(0)>>, <<Var(0)>>), Site>>)
AnyStore == InWorkOnly(<<Arg(0, FALSE)>>, <<Site, Assign(Var(0), "=", AnyValue)>>)
NullStore ==
  InWorkOnly(<<Arg(0, FALSE)>>, <<Site, AssignTo("s.p", Var(0), "=", Const("Exact", 0))>>)
NullArgument ==
  InWorkOnly(<<>>, <<Fn("check", "Entry", "Callee", <<Const("Exact", 0)>>, <<>>), Site>>)

\* One message is sent by module "n", to another class, and one is not sent.
Message(selector, receiver, ctx) ==
  [kind |-> "Message", fn |-> selector, receiver |-> receiver, dir |-> "Entry", ctx |-> ctx]
Sending(e) == InWorkOnly(<<>>, <<e, Site>>)

\* The manifest is older than one of the assertions.
Stale == [InWorkOnly(<<>>, <<Site>>) EXCEPT !.sites = InM({1, 2})]

MCManifests ==
  {Calls, Stores, TwoModules, StrictAndNot, FreeFirst, Invisible, FifthVariable,
   FifthArgument, NoSite, Twice, AnyStore, NullStore, NullArgument, Stale,
   Sending(Message("init", "View", "Caller")), Sending(Message("draw", "View", "Caller"))}
=============================================================================
