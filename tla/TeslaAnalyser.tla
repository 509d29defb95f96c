--------------------------- MODULE TeslaAnalyser ----------------------------
(***************************************************************************)
(* The analyser (tesla/analyser): each translation unit is visited, every  *)
(* assertion, automaton and mapping in it is parsed (Parser.cpp) into a    *)
(* description and a usage, and the unit's manifest is written; tesla cat  *)
(* (tesla/tools/cat) then joins the manifests of the program.              *)
(***************************************************************************)
EXTENDS TeslaParser

CONSTANT Programs   \* programs: sequences of units, sequences of declarations

VARIABLES
  program,
  unit,      \* the unit being analysed, Len(program) + 1 when all have been
  next,      \* its next declaration
  automata,  \* TeslaVisitor::Automata of the unit
  roots,     \* TeslaVisitor::Roots
  written,   \* the manifests written so far
  merged,    \* cat's result: [automata, roots]
  outcome    \* "ok", "panic" (the analyser or cat gives up) or "done"

vars == <<program, unit, next, automata, roots, written, merged, outcome>>

Init ==
  /\ program \in Programs
  /\ unit = 1 /\ next = 1
  /\ automata = <<>> /\ roots = <<>>
  /\ written = <<>>
  /\ merged = [automata |-> <<>>, roots |-> <<>>]
  /\ outcome = "ok"

-----------------------------------------------------------------------------
\* What the parser makes of a declaration is added to the unit's.
AddParsed(r) ==
  /\ outcome' = IF r.ok THEN "ok" ELSE "panic"
  /\ automata' = IF r.ok THEN automata \o r.automata ELSE automata
  /\ roots' = IF r.ok THEN roots \o r.roots ELSE roots

\* TeslaVisitor: an error anywhere makes the analyser give up.
Visit ==
  /\ outcome = "ok" /\ unit <= Len(program) /\ next <= Len(program[unit])
  /\ \E F \in RootFlags(program[unit][next].kind) :
       AddParsed(ParseDeclaration(program[unit][next], F))
  /\ next' = next + 1
  /\ UNCHANGED <<program, unit, written, merged>>

\* TeslaConsumer::HandleTranslationUnit writes the unit's manifest.
HandleTranslationUnit ==
  /\ outcome = "ok" /\ unit <= Len(program) /\ next > Len(program[unit])
  /\ written' = Append(written, [automata |-> automata, roots |-> roots])
  /\ unit' = unit + 1 /\ next' = 1
  /\ automata' = <<>> /\ roots' = <<>>
  /\ UNCHANGED <<program, merged, outcome>>

-----------------------------------------------------------------------------
(* tesla cat *)

LastWithId(s, id) == s[CHOOSE n \in 1 .. Len(s) :
                         s[n].id = id /\ \A k \in n + 1 .. Len(s) : s[k].id # id]
IdsOf(s) == {s[n].id : n \in 1 .. Len(s)}
UseOf(m, id) == IF id \in IdsOf(m.roots) THEN {LastWithId(m.roots, id)} ELSE {}

\* Manifest::load parses every automaton of the file, unlinked.
Loads(m) ==
  \A id \in IdsOf(m.automata) :
    ParseNFA([LastWithId(m.automata, id) EXCEPT !.use = UseOf(m, id)],
             <<>>, FALSE).ok

\* Faulty variant: what is there already is added again.
MergeAll(old, s) == [all |-> old \o s, ok |-> TRUE]

\* Add the new ones of s; one seen before has to be the same.
Merge(old, s) ==
  FoldLeft(LAMBDA acc, x :
             LET same == SelectInSeq(acc.all, LAMBDA y : y.id = x.id)
             IN IF same = 0 THEN [acc EXCEPT !.all = Append(@, x)]
                ELSE [acc EXCEPT !.ok = @ /\ acc.all[same] = x],
           [all |-> old, ok |-> TRUE], s)

Cat ==
  /\ outcome = "ok" /\ unit > Len(program) /\ written # <<>>
  /\ LET m == Head(written)
         a == Merge(merged.automata, SelectSeq(m.automata,
                      LAMBDA x : x = LastWithId(m.automata, x.id)))
         r == Merge(merged.roots, m.roots)
     IN /\ merged' = [automata |-> a.all, roots |-> r.all]
        /\ outcome' = IF Loads(m) /\ a.ok /\ r.ok THEN "ok" ELSE "panic"
  /\ written' = Tail(written)
  /\ UNCHANGED <<program, unit, next, automata, roots>>

Done ==
  /\ outcome # "ok" \/ (unit > Len(program) /\ written = <<>>)
  /\ UNCHANGED vars

Next == Visit \/ HandleTranslationUnit \/ Cat \/ Done

Spec == Init /\ [][Next]_vars

-----------------------------------------------------------------------------
(* Properties *)

RECURSIVE EventsOf(_)
EventsOf(x) ==
  CASE x.op = "event" -> <<x.event>>
    [] x.op = "seq" -> FlattenSeq([k \in 1 .. Len(x.exprs) |-> EventsOf(x.exprs[k])])
    [] x.op \in {"or", "xor", "and"} -> EventsOf(x.lhs) \o EventsOf(x.rhs)
    [] OTHER -> <<>>

Used(x) == UNION {Range(e.name[2] \o e.name[3] \o e.name[4]) : e \in Range(EventsOf(x))}

\* Within one automaton and its bounds a variable has one index and an index
\* one variable: the index is the variable's place among the automaton's
\* arguments, and so its place in the key of every instance.
IndicesNameVariables ==
  \A n \in 1 .. Len(automata) :
    LET d == automata[n]
        bounds == {r \in Range(roots) : r.id = d.id}
        used == {a \in Used(d.expr) \cup UNION {Used(r.begin) \cup Used(r.end) :
                                                r \in bounds} : a.index >= 0}
    IN /\ \A a, b \in used : a.index = b.index <=> a.arg = b.arg
       /\ \A a \in used : a.index < d.args /\ d.refs[a.index + 1] = a.arg
       /\ \A i, j \in 1 .. d.args : d.refs[i] = d.refs[j] => i = j

\* The strictness of the events of e, in order, if the innermost modifier
\* around each of them decides.
RECURSIVE Strictness(_, _)
Strictness(e, strict) ==
  CASE e.op \in {"call", "return", "eq", "assign", "unary"} -> <<strict>>
    [] e.op = "modifier" ->
         Strictness(e.expr, CASE e.modifier = "strict" -> TRUE
                              [] e.modifier = "conditional" -> FALSE
                              [] OTHER -> strict)
    [] e.op = "optional" -> Strictness(e.expr, strict)
    [] e.op \in {"and", "or"} -> Strictness(e.lhs, strict) \o Strictness(e.rhs, strict)
    [] e.op \in {"sequence", "repeat"} ->
         FlattenSeq([k \in 1 .. Len(e.exprs) |-> Strictness(e.exprs[k], strict)])
    [] e.op = "block" ->
         FlattenSeq([k \in 1 .. Len(e.stmts) |-> Strictness(e.stmts[k], strict)])
    [] e.op = "site" -> <<FALSE>>
    [] OTHER -> <<>>

\* Each event is strict or not as the innermost modifier around it says, and
\* without one as its kind of declaration says: flags never leak.
InnermostModifierDecides ==
  \A n \in 1 .. Len(automata) :
    \E d \in Range(program[unit]) :
      /\ d.id = automata[n].id /\ d.root # {}
      /\ [k \in 1 .. Len(EventsOf(automata[n].expr)) |->
            EventsOf(automata[n].expr)[k].strict]
           = Strictness(CHOOSE x \in d.root : TRUE, d.kind = "automaton")

Declarations == UNION {Range(program[u]) : u \in 1 .. Len(program)}

\* When cat is done every automaton and every usage of the program is in its
\* result once, however many units declare it.
NothingIsLost ==
  outcome = "ok" /\ unit > Len(program) /\ written = <<>> =>
    /\ IdsOf(merged.automata) = {d.id : d \in {x \in Declarations : x.root # {}}}
    /\ IdsOf(merged.roots) = {d.id : d \in {x \in Declarations : x.begin # {}}}
    /\ \A s \in {merged.automata, merged.roots} :
         Cardinality(IdsOf(s)) = Len(s)

\* A bound that is a single event, and an automaton that can only be strict.
SimpleBound(b) == \A e \in b : e.op \in {"call", "return", "eq", "assign", "unary", "site"}
                              \/ (e.op = "modifier" /\ e.expr.op \in {"call", "return"})
Loadable(d) ==
  /\ SimpleBound(d.begin) /\ SimpleBound(d.end)
  /\ d.kind = "automaton" =>
       FALSE \notin Range(Strictness(CHOOSE x \in d.root : TRUE, TRUE))

\* cat gives up only on units that declare different things under one name, on
\* what no automaton can be made of, or because of a mapping that several
\* units share: its events are strict or not at random.
CatPanicIsExplained ==
  outcome = "panic" /\ unit > Len(program) =>
    \/ \E d, e \in Declarations : d # e /\ d.id = e.id /\ d.kind = e.kind
    \/ \E d \in Declarations : ~Loadable(d)
    \/ \E u, v \in 1 .. Len(program) :
         /\ u # v
         /\ \E d \in Range(program[u]) \cap Range(program[v]) : d.kind = "mapping"
=============================================================================
