-------------------------- MODULE MCTeslaManifest ---------------------------
(***************************************************************************)
(* Manifests for TLC: assertions over a few events, strict or not, with    *)
(* every operator of the assertion language.                               *)
(***************************************************************************)
EXTENDS TeslaManifest

Fn(name, refs, strict) == Ev(Event("Fn", name, refs, strict))
Site == Ev(Event("AssertSite", "now", {}, FALSE))
Field(strict) == Ev(Event("FieldAssign", "s.f = y", {1}, strict))

A(st) == Fn("a(x)", {0}, st)
B(st) == Fn("b(y)", {1}, st)
C(st) == Fn("c", {}, st)

Chain(es) == Sequence(1, 1, es)
Optional(e) == Sequence(0, 1, <<e>>)
AtLeast(n, e) == Sequence(n, Infinite, <<e>>)
UpTo(n, e) == Sequence(0, n, <<e>>)

\* The expressions, for events that are strict or not.
Exprs(st) ==
  LET a == A(st) b == B(st) c == C(st) f == Field(st)
      ab == Chain(<<a, b>>) bc == Chain(<<b, c>>)
  IN { a, ab, Chain(<<a, Site>>), Chain(<<Site, a>>), Chain(<<a, f, Site>>),
       Chain(<<Optional(Optional(a)), b>>), Chain(<<Optional(a), Site>>),
       Chain(<<AtLeast(0, a), b>>), Chain(<<AtLeast(2, a), c>>), UpTo(2, ab),
       Sequence(2, 3, <<a>>), Sequence(3, 3, <<c>>),
       BoolExpr("xor", a, b), BoolExpr("xor", ab, c), BoolExpr("and", a, c),
       Chain(<<BoolExpr("xor", a, b), c>>), BoolExpr("xor", NullExpr, a),
       BoolExpr("or", a, b), BoolExpr("or", ab, c), BoolExpr("or", c, ab),
       BoolExpr("or", Chain(<<a, c>>), bc), Chain(<<BoolExpr("or", a, b), Site>>),
       AtLeast(0, Optional(a)), Chain(<<a, AtLeast(1, NullExpr)>>),
       Chain(<<BoolExpr("xor", a, Chain(<<c, a>>)), b>>),
       Chain(<<BoolExpr("or", a, Chain(<<c, a>>)), b>>),
       Chain(<<AtLeast(1, BoolExpr("xor", ab, Chain(<<b, a>>))), c>>),
       AtLeast(0, BoolExpr("xor", a, c)), AtLeast(1, Chain(<<c, c>>)) }

Bounds(n, st) == {[begin |-> Fn("call(" \o n \o ")", {}, st),
                   end |-> Fn("return(" \o n \o ")", {}, st)]}
Describe(id, expr, use) ==
  [id |-> id, context |-> "Thread", args |-> 2, site |-> {0}, expr |-> expr,
   use |-> use]

One(type, expr, st) ==
  [type |-> type, automata |-> <<Describe(1, expr, Bounds("f", st))>>]

Simple ==
  {One("Deterministic", e, TRUE) : e \in Exprs(TRUE)}
  \cup {One("Deterministic", e, FALSE) : e \in Exprs(FALSE)}
  \cup {One("Linked", e, FALSE) : e \in {A(FALSE), BoolExpr("or", A(FALSE), C(TRUE))}}

\* Several automata: a sub-automaton, a shared lifetime, an identifier
\* described twice, an automaton that is not defined, bounds that are no
\* events, bounds that are events too, many ways to the end.
Several ==
  LET ab == Chain(<<A(TRUE), B(TRUE)>>)
      sub == Chain(<<SubAutomaton(2), C(TRUE)>>)
      f == Bounds("f", TRUE)
      many == BoolExpr("xor", A(FALSE), BoolExpr("xor", B(FALSE),
                BoolExpr("xor", C(FALSE), BoolExpr("xor", Field(FALSE),
                  Chain(<<C(FALSE), A(FALSE)>>)))))
  IN { [type |-> ty, automata |-> <<Describe(1, sub, f), Describe(2, ab, {})>>] :
         ty \in {"Deterministic", "Unlinked"} }
     \cup {
       [type |-> "Deterministic",
        automata |-> <<Describe(1, A(TRUE), f), Describe(2, C(TRUE), f),
                       Describe(3, C(TRUE), Bounds("g", TRUE))>>],
       [type |-> "Deterministic",
        automata |-> <<Describe(1, A(TRUE), f), Describe(1, C(TRUE), f)>>],
       [type |-> "Deterministic", automata |-> <<Describe(1, sub, f)>>],
       [type |-> "Deterministic",
        automata |-> <<Describe(1, C(FALSE), {}), Describe(2, A(TRUE), f)>>],
       [type |-> "Deterministic",
        automata |-> <<Describe(1, A(TRUE), {[begin |-> NullExpr, end |-> C(TRUE)]})>>],
       [type |-> "Deterministic",
        automata |-> <<Describe(1, Chain(<<Fn("return(f)", {}, FALSE), C(FALSE)>>),
                                Bounds("f", FALSE))>>],
       One("Deterministic", many, FALSE) }

AllManifests == Simple \cup Several
=============================================================================
