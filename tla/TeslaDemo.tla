----------------------------- MODULE TeslaDemo ------------------------------
(***************************************************************************)
(* From an assertion to a verdict: the whole of TESLA applied to the demo  *)
(* programs.  Every assertion is parsed (TeslaParser), made an automaton   *)
(* (TeslaNFA), made deterministic and described to the run-time library    *)
(* (TeslaDFA); the program runs, its events are reported as the            *)
(* instrumenter's hooks do (TeslaInstrumenter shows that they do), and     *)
(* libtesla (TeslaUpdate), which stops the program when it finds a         *)
(* failure, says what it thinks of them.                                   *)
(***************************************************************************)
EXTENDS TeslaParser, TeslaDFA, DemoPrograms

CONSTANTS Demos,       \* [main, assertions, external]: the outcomes of a main,
                       \* the assertions in it, the functions of libraries
          Assertions,  \* the identifiers of all assertions
          Runs,        \* how often instrcost calls its function
          StackFree, NULL, AnyWord

Declarations ==
  SmoketestAssertions \cup {CryptoAssertion, OpensslAssertion, GotofailAssertion}
    \cup AuditAssertions \cup InstrcostAssertions(Runs)
Decl(id) == CHOOSE d \in Declarations : d.id = id

ASSUME AssertionsAssumption ==
  /\ Assertions = {d.id : d \in Declarations}
  /\ \A d \in Demos : d.assertions \subseteq Declarations

\* One automaton per assertion; a deterministic one is never unlinked.
Parsed(d) == ParseDeclaration(d, CHOOSE F \in RootFlags("assertion") : TRUE)
Description(p) == [p.automata[1] EXCEPT !.use = {p.roots[1]}]
Loaded(desc, nfa) ==
  CHOOSE r \in Results(nfa, ConstructDFA(nfa, FirstState(nfa) @@ [done |-> {}, from |-> 0]),
                       desc.context) : TRUE
Built(desc, r) ==
  [refs |-> desc.refs, classes |-> r.classes, lifetime |-> r.lifetime]
    @@ BuildAutomatonDescription(r)
Compiled(desc) == Built(desc, Loaded(desc, ParseNFA(desc, <<>>, TRUE)))

VARIABLES
  automaton,       \* what the tools have made of the assertions
  demo,            \* the program: its assertions, the functions it does not define
  history,         \* the events of its run
  at,              \* the next of them
  pending,         \* calls of libtesla still to be made for the last one
  reporting,       \* the automata told of it, in the call in progress
  inst, tc_free, lifetimes, tls_classes, tls_dyn_classes, tls_dyn_capacity,
  pc, class, symbol, pattern, cursor, expected, max_clones, clones,
  matched_something, cleanup_required, sunset, note

program == <<automaton, demo, history, at, pending, reporting>>
library == <<inst, tc_free, lifetimes, tls_classes, tls_dyn_classes,
             tls_dyn_capacity, pc, class, symbol, pattern, cursor, expected, max_clones,
             clones, matched_something, cleanup_required, sunset, note>>

-----------------------------------------------------------------------------
(* The tools, and what they tell the library *)

Alphabet(id) == 0 .. Len(automaton[id].classes) - 1
EventFor(id, s) == automaton[id].classes[s + 1][1].event

\* A lifetime goes by the first automaton that has it.
LifetimeOf(id) ==
  Min({d \in DOMAIN automaton : automaton[d].lifetime = automaton[id].lifetime})
Bounds(l) == automaton[l].lifetime

\* States are numbered from 0 in libtesla.
Described(t) == [t EXCEPT !.from = @ - 1, !.to = @ - 1]
Transitions(id) == [s \in Alphabet(id) |->
  [k \in DOMAIN automaton[id].ta_transitions[s + 1] |->
     Described(automaton[id].ta_transitions[s + 1][k])]]

\* struct tesla_automaton, for every assertion.
Constants ==
  [ta_alphabet_size |-> [id \in DOMAIN automaton |-> Len(automaton[id].classes)],
   ta_transitions |-> [id \in DOMAIN automaton |-> Transitions(id)],
   ta_cleanup_symbol |-> [id \in DOMAIN automaton |-> automaton[id].ta_cleanup_symbol - 1],
   ta_lifetime |-> [id \in DOMAIN automaton |-> LifetimeOf(id)]]

KeySlots == 0 .. 2

\* The library as it is compiled with constants c.
libtesla(c) == INSTANCE TeslaUpdate WITH
  Automata <- Assertions, Lifetimes <- Assertions,
  ta_alphabet_size <- c.ta_alphabet_size, ta_transitions <- c.ta_transitions,
  ta_cleanup_symbol <- c.ta_cleanup_symbol, ta_lifetime <- c.ta_lifetime,
  Inputs <- [a \in Assertions |-> {}],
  Limit <- 4, StoreLength <- 8, StaticClasses <- 32, DynInitial <- 8,
  CapacityModulus <- 65536, Kernel <- FALSE, FailStop <- TRUE, MaxDyn <- 2,
  Slots <- KeySlots, Values <- STRING, ANY <- AnyWord, i <- cursor

Init ==
  /\ \E d \in Demos :
       /\ demo = [assertions |-> {x.id : x \in d.assertions}, external |-> d.external]
       /\ \E o \in d.main : history = o.events
  /\ at = 1 /\ pending = <<>> /\ reporting = {}
  /\ automaton = <<>>
  /\ libtesla(<<>>)!Init

-----------------------------------------------------------------------------
(* What an event of the program is to an event of an automaton *)

Names(e) == e.name[1]   \* <<function or field, direction or operator, context>>

ValuesAgree(ps, vals) ==
  \A k \in DOMAIN ps : ps[k].arg.type = "Constant" => ps[k].arg.name = vals[k]

Number == [n \in {"0", "1"} |-> IF n = "0" THEN 0 ELSE 1]

\* Callees are instrumented where they are defined, callers where they call.
OccursAs(id, e, x) ==
  CASE e.kind = "Fn" ->
         /\ x.what = Names(e)[2] /\ x.fn = Names(e)[1]
         /\ Names(e)[3] = "caller" \/ x.fn \notin demo.external
         /\ ValuesAgree(e.name[2] \o e.name[3], x.vals)
    [] e.kind = "FieldAssign" ->
         /\ x.what = "Store" /\ x.field = Names(e)[1]
         /\ Names(e)[2] = "+=" => x.new = x.old + Number[e.name[2][2].arg.name]
    [] OTHER -> x.what = "Site" /\ x.id = id

\* The variables the event names: <<index, value>>.
Bindings(id, e, x) ==
  CASE e.kind = "Fn" ->
         LET ps == e.name[2] \o e.name[3]
         IN {<<ps[k].index, x.vals[k]>> : k \in {n \in DOMAIN ps : ps[n].index >= 0}}
    [] e.kind = "FieldAssign" -> {<<0, x.struct>>}
    [] OTHER -> LET refs == automaton[id].refs
                IN {<<k - 1, x.vals[refs[k].name]>> :
                      k \in {n \in DOMAIN refs : ~refs[n].free}}

KeyOf(B) == [s \in KeySlots |-> IF \E b \in B : b[1] = s
                                THEN (CHOOSE b \in B : b[1] = s)[2] ELSE AnyWord]
PatternOf(id, e, x) ==
  LET refs == automaton[id].refs
  IN [key |-> KeyOf(Bindings(id, e, x)),
      free |-> IF e.kind # "AssertSite" THEN {}
               ELSE {k - 1 : k \in {n \in DOMAIN refs : refs[n].free}}]

-----------------------------------------------------------------------------
(* The hooks: bounds of lifetimes first, then the other events, automaton by *)
(* automaton                                                                *)

Mine == demo.assertions
MyAssertions == SelectSeq([id \in 1 .. Max(Assertions) |-> id], LAMBDA id : id \in Mine)
MyLifetimes ==
  FoldLeft(LAMBDA ls, id : IF LifetimeOf(id) \in Range(ls) THEN ls
                           ELSE Append(ls, LifetimeOf(id)), <<>>, MyAssertions)

BoundCalls(x) ==
  FlattenSeq([n \in DOMAIN MyLifetimes |->
    LET l == MyLifetimes[n] IN
    (IF OccursAs(0, Bounds(l).init, x) THEN <<[fn |-> "sunrise", lifetime |-> l]>> ELSE <<>>)
    \o IF OccursAs(0, Bounds(l).cleanup, x)
       THEN <<[fn |-> "sunset", lifetime |-> l]>> ELSE <<>>])

SymbolsFor(id, x) ==
  LET bounds == {Bounds(id).init, Bounds(id).cleanup}
      all == SelectSeq([n \in 1 .. Len(automaton[id].classes) |-> n - 1],
               LAMBDA s : EventFor(id, s) \notin bounds /\ OccursAs(id, EventFor(id, s), x))
  IN IF x.what = "Store" /\ all # <<>> THEN <<all[1]>> ELSE all

UpdateCalls(x) ==
  FlattenSeq([n \in DOMAIN MyAssertions |->
    LET id == MyAssertions[n]
        ss == SymbolsFor(id, x)
    IN [k \in DOMAIN ss |-> [fn |-> "update_state", automaton |-> id,
          event |-> [symbol |-> ss[k], pattern |-> PatternOf(id, EventFor(id, ss[k]), x)]]]])

\* The tools make an automaton of the next assertion.
Compile ==
  /\ Mine \ DOMAIN automaton # {}
  /\ LET id == Min(Mine \ DOMAIN automaton)
     IN automaton' = automaton @@ (id :> Compiled(Description(Parsed(Decl(id)))))
  /\ UNCHANGED <<demo, history, at, pending, reporting, library>>

Idle == pc = "idle" /\ pending = <<>>

ProgramStep ==
  /\ DOMAIN automaton = Mine /\ Idle /\ at <= Len(history)
  /\ pending' = BoundCalls(history[at]) \o UpdateCalls(history[at])
  /\ at' = at + 1
  /\ UNCHANGED <<automaton, demo, history, reporting, library>>

CallLibrary ==
  /\ pc = "idle" /\ pending # <<>>
  /\ \E k \in {Constants}, c \in {Head(pending)} :
       CASE c.fn = "sunrise" -> libtesla(k)!tesla_sunrise(c.lifetime) /\ reporting' = {}
         [] c.fn = "sunset" -> /\ libtesla(k)!tesla_sunset(c.lifetime)
                               /\ reporting' = {id \in Mine : LifetimeOf(id) = c.lifetime}
         [] OTHER -> /\ libtesla(k)!tesla_update_state(c.automaton, c.event)
                     /\ reporting' = {c.automaton}
  /\ pending' = Tail(pending)
  /\ UNCHANGED <<automaton, demo, history, at>>

LibraryStep ==
  /\ \E k \in {Constants} : libtesla(k)!SunsetLoop \/ libtesla(k)!UpdateClassState
  /\ UNCHANGED program

Ended == /\ pc = "stopped" \/ (DOMAIN automaton = Mine /\ Idle /\ at > Len(history))
         /\ UNCHANGED <<program, library>>

Next == Compile \/ ProgramStep \/ CallLibrary \/ LibraryStep \/ Ended

Spec == Init /\ [][Next]_<<program, library>>

-----------------------------------------------------------------------------
(* What an assertion means, without automata: its expression is matched,    *)
(* event by later event, inside its bounds, for some value of the variables *)
(* that the site does not know.  Automata are less patient: an event of the *)
(* assertion that comes when it is not its turn makes them start again, so  *)
(* that nothing of the assertion may lie between two events of an exact     *)
(* match.                                                                   *)

RECURSIVE Parts(_, _), Ends(_, _, _)

\* The parts of an expression that are of the kind op.
Parts(e, op) ==
  (IF e.op = op THEN {e} ELSE {}) \cup
  CASE e.op \in {"modifier", "optional"} -> Parts(e.expr, op)
    [] e.op = "or" -> Parts(e.lhs, op) \cup Parts(e.rhs, op)
    [] e.op = "sequence" -> UNION {Parts(x, op) : x \in Range(e.exprs)}
    [] e.op = "block" -> UNION {Parts(x, op) : x \in Range(e.stmts)}
    [] OTHER -> {}
Atoms(e) == UNION {Parts(e, op) : op \in {"call", "return", "eq", "assign"}}

ValueIs(a, w, env) ==
  CASE a.v = "any" -> TRUE [] a.v = "const" -> w = a.name [] OTHER -> w = env[a.name]
Matches(e, x, env) ==
  CASE e.op = "assign" ->
         /\ x.what = "Store" /\ x.field = e.field /\ x.struct = env[e.base]
         /\ x.new = x.old + Number[e.value.name]
    [] OTHER ->
         LET as == e.args \o SetToSeq(e.ret)
         IN /\ x.what = (IF e.op = "call" THEN "Entry" ELSE "Exit") /\ x.fn = e.fn
            /\ \A k \in DOMAIN as : ValueIs(as[k], x.vals[k], env)

\* k can follow what was matched before one of the places in P; 0 if nothing was.
Follows(c, P, k) ==
  \E p \in P : /\ p <= k
               /\ p # 0 /\ c.exact =>
                    ~\E j \in p .. k - 1 : \E a \in c.atoms : Matches(a, history[j], c.env)
\* The places after the matches of e that go on from one of the places in P.
Ends(c, e, P) ==
  CASE e.op \in {"ignore", "declare"} -> P
    [] e.op = "site" -> {k + 1 : k \in {j \in {c.site} : Follows(c, P, j)}}
    [] e.op = "modifier" -> Ends(c, e.expr, P)
    [] e.op = "optional" -> P \cup Ends(c, e.expr, P)
    [] e.op = "or" -> Ends(c, e.lhs, P) \cup Ends(c, e.rhs, P)
    [] e.op = "sequence" -> FoldLeft(LAMBDA Q, x : Ends(c, x, Q), P, e.exprs)
    [] e.op = "block" -> FoldLeft(LAMBDA Q, x : Ends(c, x, Q), P, e.stmts)
    [] OTHER -> {k + 1 : k \in {j \in c.within :
                   Matches(e, history[j], c.env) /\ Follows(c, P, j)}}

\* The calls of the function that bounds d around place n.
BoundFn(d) == LET b == CHOOSE x \in d.begin : TRUE
              IN IF b.op = "modifier" THEN b.expr.fn ELSE b.fn
BoundBegin(d, n) ==
  Max({k \in 1 .. n : history[k].what = "Entry" /\ history[k].fn = BoundFn(d)})
BoundEnd(d, n) ==
  Min({k \in n .. Len(history) : history[k].what = "Exit" /\ history[k].fn = BoundFn(d)})

\* The values that occur in the run.
Words == UNION {{e.vals[k] : k \in DOMAIN e.vals} : e \in
            {x \in Range(history) : x.what \in {"Entry", "Exit", "Site"}}}

Holds(d, n, exact) ==
  LET root == CHOOSE e \in d.root : TRUE
  IN \E free \in [{v.name : v \in Parts(root, "declare")} -> Words] :
       LET c == [site |-> n, exact |-> exact, env |-> free @@ history[n].vals,
                 atoms |-> Atoms(root),
                 within |-> BoundBegin(d, n) + 1 .. BoundEnd(d, n) - 1]
       IN Ends(c, root, {0}) # {}

Sites(id) == {n \in 1 .. Len(history) : history[n].what = "Site" /\ history[n].id = id}

\* The site comes last: nothing can be made up for later.
AboutThePast(d) ==
  \E e \in d.root : e.op = "sequence" /\ Last(e.exprs).op = "site"

\* A program never goes on after an assertion of it has turned out to be false:
\* past the site if the assertion is about what was done "previously", past the
\* end of its bounds otherwise.  Here is all of TESLA at work: parser, automata,
\* hooks and library ("fail-stop").
ViolationsAreReported ==
  Idle => \A id \in Mine : \A n \in Sites(id) :
    n < at /\ (AboutThePast(Decl(id)) \/ BoundEnd(Decl(id), n) < at)
      => Holds(Decl(id), n, FALSE)

\* The functions whose own code should report an event of the assertion.
Callees(id) == {Names(EventFor(id, s))[1] : s \in {n \in Alphabet(id) :
                  /\ EventFor(id, n).kind = "Fn" /\ Names(EventFor(id, n))[3] = "callee"}}

\* A program is stopped only if an assertion of it does not hold, or only with
\* events of it in between (gotofail would be stopped without its bug too: the
\* hash is updated three times); or if the assertion is about the inside of a
\* function that is in a library and so reports nothing (openssl-api wants
\* X509_verify_cert, and does not say "caller"); or if tesla_sunset's key happened
\* to have free variables, since it does not initialise tk_freemask.
AlarmsAreExplained ==
  pc = "stopped" =>
    \/ \E id \in reporting :
         \/ \E n \in Sites(id) : n < at /\ ~Holds(Decl(id), n, TRUE)
         \/ Callees(id) \cap demo.external # {}
    \/ sunset.free # {}
=============================================================================
