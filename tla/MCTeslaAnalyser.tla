-------------------------- MODULE MCTeslaAnalyser ---------------------------
(***************************************************************************)
(* Programs for TLC, with every form of expression the parser accepts and  *)
(* the ones it refuses.                                                    *)
(***************************************************************************)
EXTENDS TeslaAnalyser, TeslaLanguage, TLC

Protos == ("f" :> [params |-> 0, void |-> TRUE]) @@
          ("hold" :> [params |-> 1, void |-> TRUE]) @@
          ("get" :> [params |-> 2, void |-> FALSE])

Var(n) == [v |-> "var", name |-> n, match |-> "none"]
Addr(n) == [v |-> "addr", name |-> n]
FieldOf(n) == [v |-> "field", name |-> n, field |-> "state"]
Const(n) == [v |-> "const", name |-> n, match |-> "none"]
BadArg == [v |-> "bad"]

Assign(base, how, value) ==
  [op |-> "assign", field |-> "s.state", base |-> base, how |-> how, value |-> value]
Unary(base, how) ==
  [op |-> "unary", field |-> "s.state", base |-> base, how |-> how, value |-> ANY]
Or(l, r) == [op |-> "or", lhs |-> l, rhs |-> r]
And(l, r) == [op |-> "and", lhs |-> l, rhs |-> r]
Returning(e, r) == [e EXCEPT !.ret = {r}]
Declare(n) == [op |-> "declare", name |-> n]

EnterF == call("f", <<>>)
LeaveF == returnfrom("f", <<>>)
Hold(a) == returnfrom("hold", <<a>>)
Get(a, b, r) == [op |-> "eq", fn |-> "get", args |-> <<a, b>>, ret |-> {r}]

\* [receiver fn: args]
To(receiver, e) == e @@ [receiver |-> receiver]
Class == [v |-> "class"]
Super == [v |-> "super"]

Assertion(id, expr) == TESLA_WITHIN(id, "f", expr)
Mapping(id, b, e) == TESLA_STRUCT_AUTOMATON(id, __tesla_perthread, b, e)

Good == {
  previously(<<Hold(Var("o"))>>),
  previously(<<Hold(Var("o")), Get(Var("p"), Var("o"), Const("0"))>>),
  previously(<<Get(Addr("x"), flags(Var("x")), Const("1")), Hold(bitmask(Const("1")))>>),
  eventually(<<ATLEAST(1, <<Hold(Var("o"))>>), UPTO(2, <<caller(EnterF)>>)>>),
  Or(strict(TSEQUENCE(<<Hold(Var("o")), conditional(Hold(Var("p")))>>)),
     Hold(Var("p"))),
  caller(optional(REPEAT(0, 2, <<call("get", <<>>), callee(Hold(FieldOf("o")))>>))),
  And(Assign("o", "=", Var("q")), Assign("o", "=", Const("2"))),
  TSEQUENCE(<<Unary("o", "++"), Unary("q", "--"), Assign("q", "+=", Const("1"))>>),
  TSEQUENCE(<<Assign("q", "+=", Const("1")), Returning(returnfrom("get", <<>>), Var("q"))>>),
  TSEQUENCE(<<To(Var("o"), call("hold", <<Var("p")>>)), To(Class, Get(ANY, Var("p"), Const("0"))),
              To(Var("p"), Returning(returnfrom("get", <<>>), Var("o")))>>),
  TSEQUENCE(<<[op |-> "automaton", name |-> 2], Hold(ANY)>>) }

Bad == {
  returnfrom("get", <<Var("o"), Var("p")>>),
  Returning(call("f", <<>>), Const("0")),
  Get(Var("o"), Var("p"), Var("q")),
  Get(Var("o"), Var("p"), bitmask(Const("1"))),
  And(Assign("o", "=", Var("q")), Assign("o", "+=", Const("1"))),
  And(Assign("o", "=", Var("q")), Unary("q", "++")),
  Unary("o", "!"),
  Assign("o", "*=", Const("2")),
  Hold(BadArg),
  To(Super, Get(ANY, ANY, ANY)),
  [op |-> "unsupported"] }

Lock == __tesla_automaton(2, <<Declare("m"), Hold(Var("m")), Hold(Var("s")),
                               Or(Assign("s", "=", Var("m")), Hold(Var("s"))),
                               __tesla_automaton_done>>)
Loose == __tesla_automaton(2, <<conditional(Hold(Var("m"))), __tesla_automaton_done>>)

AllPrograms ==
  {<<<<Assertion(1, e)>>>> : e \in Good \cup Bad}
  \cup {<<<<Assertion(1, e), Assertion(4, e)>>, <<Assertion(3, e)>>>> : e \in Good}
  \cup {<<<<Assertion(1, e)>>, <<Assertion(1, e)>>>> : e \in Good}
  \cup { <<<<Assertion(NoLocation, TIGNORE)>>>>,
         <<<<Lock, Mapping(2, EnterF, LeaveF)>>, <<Assertion(1, Hold(Var("o")))>>>>,
         <<<<Lock, Mapping(2, EnterF, LeaveF)>>, <<Lock, Mapping(2, EnterF, LeaveF)>>>>,
         <<<<Lock>>, <<Lock, Mapping(2, EnterF, Get(ANY, ANY, Const("0")))>>>>,
         <<<<Lock, Mapping(2, EnterF, Or(EnterF, LeaveF))>>>>,
         <<<<Loose>>>>,
         <<<<__tesla_inline_assertion(5, "nowhere", EnterF, LeaveF, TIGNORE)>>>>,
         <<<<TESLA_GLOBAL(5, EnterF, LeaveF, Hold(Var("o")))>>>>,
         <<<<Assertion(1, Hold(Var("o")))>>, <<Assertion(1, Hold(Var("p")))>>>> }
=============================================================================
