---------------------------- MODULE TeslaParser -----------------------------
(***************************************************************************)
(* The parser of the analyser (tesla/analyser/Parser.cpp): a declaration   *)
(* of the assertion language becomes the description of an automaton and   *)
(* its usage.                                                              *)
(*                                                                         *)
(* C expressions are records.  Their wording and the checks on the         *)
(* arguments of macros are left out; what is kept is what the              *)
(* descriptions depend on: the modifiers in force (callee or caller,       *)
(* strict or conditional, what "or" means), the variables an automaton     *)
(* refers to and the index each one gets, free variables, and every way in *)
(* which parsing an expression of the language fails.                      *)
(***************************************************************************)
EXTENDS TeslaNFA, Integers

CONSTANT Prototypes   \* [function -> [params, void]]

-----------------------------------------------------------------------------
(* Arguments.  p: what one Parser remembers, [refs, free, assigned, ok].    *)

NewParser == [refs |-> <<>>, free |-> {}, assigned |-> <<>>, ok |-> TRUE]
Fail(p) == [p EXCEPT !.ok = FALSE]

Argument(type, name, field, match, free) ==
  [type |-> type, name |-> name, field |-> field, match |-> match, free |-> free]

IndexOf(refs, a) == SelectInSeq(refs, LAMBDA r : r = a)

\* Faulty variant: a reference is compared with the first one only.
RegisterFirst(p, a) ==
  IF p.refs # <<>> /\ p.refs[1] = a THEN p ELSE [p EXCEPT !.refs = Append(@, a)]

\* A variable that has been referred to keeps its index.
RegisterArg(p, a) ==
  IF IndexOf(p.refs, a) # 0 THEN p ELSE [p EXCEPT !.refs = Append(@, a)]

\* a: [v, ...] as written; any: the argument is a parameter of the function,
\* named for debugging only.
ArgumentOf(p, a) ==
  CASE a.v = "var" ->
         Argument("Variable", a.name, "", a.match, a.name \in p.free)
    [] a.v = "addr" -> Argument("Indirect", a.name, "", "none", FALSE)
    [] a.v = "field" -> Argument("Field", a.name, a.field, "none", FALSE)
    [] a.v = "const" -> Argument("Constant", a.name, "", a.match, FALSE)
    [] OTHER -> Argument("Any", "", "", "none", FALSE)

Registers(a) == a.v \in {"var", "addr", "field"}

\* acc: [p, args]; args: the arguments of the event with the position in refs.
AddArg(acc, arg, p, index) ==
  [p |-> p, args |-> Append(acc.args, [arg |-> arg, index |-> index])]
AddReference(acc, arg, p) == AddArg(acc, arg, p, IndexOf(p.refs, arg) - 1)
ParseArgAs(acc, a, arg) ==
  CASE a.v = "bad" -> [acc EXCEPT !.p = Fail(@)]
    [] Registers(a) -> AddReference(acc, arg, RegisterArg(acc.p, arg))
    [] OTHER -> AddArg(acc, arg, acc.p, -1)
ParseArg(acc, a) == ParseArgAs(acc, a, ArgumentOf(acc.p, a))

RECURSIVE ParseMoreArgs(_, _)
ParseMoreArgs(acc, as) ==
  IF as = <<>> THEN acc ELSE ParseMoreArgs(ParseArg(acc, Head(as)), Tail(as))
ParseArgs(p, as) == ParseMoreArgs([p |-> p, args |-> <<>>], as)

\* The event a transition carries.  The object a message is sent to counts among
\* what the transition refers to, the value a function returns does not.
Bound(args) == {args[k].index : k \in {n \in 1 .. Len(args) : args[n].index >= 0}}
EventOf(kind, name, args, ret, receiver, strict) ==
  Event(kind, <<name, args, ret, receiver>>, Bound(args \o receiver), strict)

-----------------------------------------------------------------------------
(* Events *)

Refused(p) == [p |-> Fail(p), expr |-> NullExpr]
FnEvent(e, dir, args, ret, receiver, F) ==
  Ev(EventOf("Fn", <<e.fn, dir, F.context>>, args, ret, receiver, F.strict))
RetVal(e) == IF e.ret = {} THEN [v |-> "any"] ELSE CHOOSE r \in e.ret : TRUE

\* A message has a receiver: an object, a class or "super".
IsMessage(e) == "receiver" \in DOMAIN e
ParseReceiver(e, r) ==
  LET o == ParseArgs(r.p, IF e.receiver.v \in {"class", "super"} THEN <<>>
                          ELSE <<e.receiver>>)
  IN [p |-> IF e.fn \in DOMAIN Prototypes THEN o.p ELSE Fail(o.p),
      args |-> r.args, receiver |-> o.args]
ParseObjCMessageSend(p, e) == ParseReceiver(e, ParseArgs(p, e.args))

ParseMessageIfAny(p, e) ==
  IF IsMessage(e) THEN ParseObjCMessageSend(p, e)
  ELSE [p |-> p, args |-> <<>>, receiver |-> <<>>]

ParseReturnValue(p, e) == ParseArgs(p, <<RetVal(e)>>)

\* f(x) == y, outside returnfrom: y, which was parsed first, has to be an
\* integer constant expression, so not flags() or bitmask() of one.  o: the
\* message, if it is one.
EqualsEvent(e, v, o, F) ==
  LET r == IF IsMessage(e) THEN [p |-> o.p, args |-> o.args] ELSE ParseArgs(o.p, e.args)
  IN [p |-> r.p, expr |-> FnEvent(e, "Exit", r.args, v.args, o.receiver, F)]
ParseEqualsLHS(e, v, F) == EqualsEvent(e, v, ParseMessageIfAny(v.p, e), F)
ParseFunctionEquals(p, e, F) ==
  IF RetVal(e).v # "const" \/ RetVal(e).match # "none" THEN Refused(p)
  ELSE ParseEqualsLHS(e, ParseReturnValue(p, e), F)

\* The arguments of a message, o, are added here once more.
DetailsEvent(e, dir, haveret, o, r, F) ==
  LET v == IF haveret THEN ParseReturnValue(r.p, e) ELSE [r EXCEPT !.args = <<>>]
  IN [p |-> v.p, expr |-> FnEvent(e, dir, r.args, v.args, o.receiver, F)]
ParseDetailsArgs(e, dir, haveret, o, given, F) ==
  DetailsEvent(e, dir, haveret, o, ParseMoreArgs([p |-> o.p, args |-> o.args], given), F)

\* A bare name says nothing about arguments; otherwise all of them are needed,
\* and one more if there is a value to return.
ParseFunctionDetails(p, e, dir, parseret, F) ==
  LET fn == Prototypes[e.fn]
      haveret == parseret /\ ~fn.void
      arity == fn.params + IF haveret THEN 1 ELSE 0
      given == IF e.args = <<>> THEN [k \in 1 .. fn.params |-> [v |-> "any"]]
               ELSE e.args
  IN IF \/ e.ret # {} /\ ~parseret
        \/ e.args # <<>> /\ Len(e.args) # arity
     THEN Refused(p)
     ELSE ParseDetailsArgs(e, dir, haveret, ParseMessageIfAny(p, e), given, F)

ParseFunctionCall(p, e, F) == ParseFunctionDetails(p, e, "Entry", FALSE, F)
ParseFunctionReturn(p, e, F) == ParseFunctionDetails(p, e, "Exit", TRUE, F)

\* Mixing simple and compound assignments to a field is only warned about,
\* but parsing fails.
CheckAssignmentKind(p, field, simple) ==
  LET old == SelectInSeq(p.assigned, LAMBDA a : a.field = field)
  IN IF old = 0
     THEN [p EXCEPT !.assigned = Append(@, [field |-> field, simple |-> simple])]
     ELSE IF p.assigned[old].simple = simple THEN p ELSE Fail(p)

\* The structure of a field is an argument like any other.
ParseStructField(p, base) ==
  ParseArgs(p, <<[v |-> "var", name |-> base, match |-> "none"]>>)

FieldEvent(e, s, F) ==
  LET r == ParseArgs(s.p, <<e.value>>)
  IN [p |-> r.p, expr |-> Ev(EventOf("FieldAssign", <<e.field, e.how, "">>,
                                     s.args \o r.args, <<>>, <<>>, F.strict))]
ParseFieldAssign(p, e, F) ==
  LET p1 == CheckAssignmentKind(p, e.field, e.how = "=")
  IN IF e.how \notin {"=", "+=", "-="} \/ ~p1.ok THEN Refused(p)
     ELSE FieldEvent(e, ParseStructField(p1, e.base), F)

\* s->n++ and s->n--, prefix or postfix, are s->n += 1 and s->n -= 1.
ParseUnary(p, e, F) ==
  IF e.how \notin {"++", "--"} THEN Refused(p)
  ELSE ParseFieldAssign(p, [e EXCEPT !.how = IF e.how = "++" THEN "+=" ELSE "-=",
                                     !.value = [v |-> "const", name |-> "1", match |-> "none"]],
                        F)

-----------------------------------------------------------------------------
(* Expressions.  F: the flags, passed by value. *)

RECURSIVE ParseExpr(_, _, _)

ParseList(p, es, F) ==
  FoldLeft(LAMBDA acc, e :
             LET r == ParseExpr(acc.p, e, F)
             IN IF acc.p.ok THEN [p |-> r.p, exprs |-> Append(acc.exprs, r.expr)]
                ELSE acc,
           [p |-> p, exprs |-> <<>>], es)

ParseSequenceOf(p, min, max, es, F) ==
  LET r == ParseList(p, es, F)
  IN [p |-> r.p, expr |-> Sequence(min, max, r.exprs)]

\* The body of an automaton: declarations make variables free from there on.
ParseCompound(p, stmts, F) ==
  LET r == FoldLeft(LAMBDA acc, s :
             CASE ~acc.p.ok -> acc
               [] s.op = "declare" -> [acc EXCEPT !.p.free = @ \cup {s.name}]
               [] s.op = "done" -> acc
               [] OTHER -> LET x == ParseExpr(acc.p, s, F) IN
                           [p |-> x.p, exprs |-> Append(acc.exprs, x.expr)],
             [p |-> p, exprs |-> <<>>], stmts)
  IN [p |-> r.p, expr |-> Sequence(1, 1, r.exprs)]

ParseBinary(p, op, l, r, F) ==
  LET a == ParseExpr(p, l, F)
      b == ParseExpr(a.p, r, F)
  IN IF a.p.ok THEN [p |-> b.p, expr |-> BoolExpr(op, a.expr, b.expr)] ELSE a

\* Faulty variant: "conditional" inside "strict" is forgotten.
FlagsSticky(F, modifier) ==
  CASE modifier = "strict" -> [F EXCEPT !.strict = TRUE]
    [] modifier = "conditional" -> F
    [] OTHER -> [F EXCEPT !.context = modifier]

FlagsUnder(F, modifier) ==
  CASE modifier = "strict" -> [F EXCEPT !.strict = TRUE]
    [] modifier = "conditional" -> [F EXCEPT !.strict = FALSE]
    [] OTHER -> [F EXCEPT !.context = modifier]

ParseModifier(p, e, F) ==
  CASE e.op = "call" -> ParseFunctionCall(p, e, F)
    [] e.op = "return" -> ParseFunctionReturn(p, e, F)
    [] e.op = "modifier" -> ParseExpr(p, e.expr, FlagsUnder(F, e.modifier))
    [] e.op = "sequence" -> ParseSequenceOf(p, 1, 1, e.exprs, F)
    [] e.op = "repeat" -> ParseSequenceOf(p, e.min, e.max, e.exprs, F)
    [] e.op = "optional" -> ParseBinary(p, "xor", [op |-> "ignore"], e.expr, F)
    [] OTHER -> Refused(p)

\* An automaton called by its name, or one of the magic functions.
ParseCallExpr(p, e, F) ==
  IF e.op = "automaton" THEN [p |-> p, expr |-> SubAutomaton(e.name)]
  ELSE ParseModifier(p, e, F)

\* What "or" means is asserted to be known, whatever the operator.
ParseBinaryOperator(p, e, F) ==
  CASE F.or = "invalid" -> Refused(p)
    [] e.op = "assign" -> ParseFieldAssign(p, e, F)
    [] e.op = "eq" -> ParseFunctionEquals(p, e, F)
    [] OTHER -> ParseBinary(p, IF e.op = "or" THEN F.or ELSE "and", e.lhs, e.rhs, F)

ParseDeclRef(p, e) ==
  IF e.op = "ignore" THEN [p |-> p, expr |-> NullExpr]
  ELSE [p |-> p, expr |-> Ev(Event("AssertSite", <<<<"now", "", "">>, <<>>, <<>>, <<>>>>, {}, FALSE))]

\* += and -= are not binary operators in this order of the tests.
ParseExpr(p, e, F) ==
  CASE e.op = "block" -> ParseCompound(p, e.stmts, F)
    [] e.op = "assign" /\ e.how # "=" -> ParseFieldAssign(p, e, F)
    [] e.op \in {"eq", "and", "or", "assign"} -> ParseBinaryOperator(p, e, F)
    [] e.op \in {"site", "ignore"} -> ParseDeclRef(p, e)
    [] e.op = "unary" -> ParseUnary(p, e, F)
    [] OTHER -> ParseCallExpr(p, e, F)

-----------------------------------------------------------------------------
(* Declarations.  d: [kind, id, context, begin, end, root]. *)

\* Faulty variant: no kind of declaration sets the strictness.
RootFlagsUnset(kind) ==
  [context : {"callee"}, or : {"or"}, strict : BOOLEAN]

\* The flags each kind of parser starts with.  MappingParser leaves two of them
\* uninitialised.
AssertionParser == {[context |-> "callee", or |-> "or", strict |-> FALSE]}
AutomatonParser == {[context |-> "callee", or |-> "xor", strict |-> TRUE]}
MappingParser ==
  [context : {"callee"}, or : {"or", "xor", "and", "invalid"}, strict : BOOLEAN]

RootFlags(kind) ==
  CASE kind = "assertion" -> AssertionParser
    [] kind = "automaton" -> AutomatonParser
    [] OTHER -> MappingParser

\* A location is a string and two integer literals; an identifier stands for it.
NoLocation == 0
ParseLocation(id) == id # NoLocation

\* The locality of a declaration.
Localities == {"__tesla_global", "__tesla_perthread"}
ParseContext(loc) == IF loc = "__tesla_global" THEN "Global" ELSE "ThreadLocal"

ParseOptionalBound(p, e, F) ==
  IF e = {} \/ ~p.ok THEN [p |-> p, expr |-> NullExpr]
  ELSE ParseExpr(p, CHOOSE x \in e : TRUE, F)

\* The bounds are parsed first; indices are given in that order.
ParseDeclaration(d, F) ==
  LET b == ParseOptionalBound(NewParser, d.begin, F)
      e == ParseOptionalBound(b.p, d.end, F)
      x == ParseOptionalBound(e.p, d.root, F)
      refs == x.p.refs
  IN [ok |-> x.p.ok /\ ParseLocation(d.id) /\ d.context \in Localities,
      automata |-> IF d.root = {} THEN <<>>
                   ELSE <<[id |-> d.id, context |-> ParseContext(d.context), refs |-> refs,
                           args |-> Len(refs), expr |-> x.expr, use |-> {},
                           site |-> {k - 1 : k \in {n \in 1 .. Len(refs) :
                                                     ~refs[n].free}}]>>,
      roots |-> IF d.begin = {} /\ d.end = {} THEN <<>>
                ELSE <<[id |-> d.id, begin |-> b.expr, end |-> e.expr]>>]
=============================================================================
