--------------------------- MODULE TeslaLanguage ----------------------------
(***************************************************************************)
(* The assertion language: the magic functions of include/tesla.h and the  *)
(* macros of include/tesla-macros.h, each as the expression the analyser   *)
(* sees after the preprocessor has run (__TESLA_ANALYSER__ is defined).    *)
(* An argument list is a sequence; an expression is a record with the      *)
(* field op.                                                               *)
(***************************************************************************)
EXTENDS TeslaNFA

(* tesla.h *)

__tesla_global == "__tesla_global"
__tesla_perthread == "__tesla_perthread"

__tesla_sequence(es) == [op |-> "sequence", exprs |-> es]
__tesla_repeat(min, max, es) ==
  [op |-> "repeat", min |-> min, max |-> max, exprs |-> es]

\* args = <<>>: the function is named without arguments.
__tesla_call(fn, args) == [op |-> "call", fn |-> fn, args |-> args, ret |-> {}]
__tesla_return(fn, args) == [op |-> "return", fn |-> fn, args |-> args, ret |-> {}]

Modifier(m, e) == [op |-> "modifier", modifier |-> m, expr |-> e]

__tesla_ignore == [op |-> "ignore"]
__tesla_assertion_site == [op |-> "site"]
__tesla_optional(e) == [op |-> "optional", expr |-> e]
__tesla_any == [v |-> "any"]

\* a: a variable or a constant, with what it is to be compared with it by.
__tesla_flags(a) == [a EXCEPT !.match = "flags"]
__tesla_mask(a) == [a EXCEPT !.match = "mask"]

__tesla_inline_assertion(id, loc, begin, end, e) ==
  [kind |-> "assertion", id |-> id, context |-> loc,
   begin |-> {begin}, end |-> {end}, root |-> {e}]
__tesla_automaton_done == [op |-> "done"]
__tesla_automaton(id, stmts) ==
  [kind |-> "automaton", id |-> id, context |-> __tesla_global, begin |-> {},
   end |-> {}, root |-> {[op |-> "block", stmts |-> stmts]}]
__tesla_struct_usage(id, loc, begin, end) ==
  [kind |-> "mapping", id |-> id, context |-> loc, begin |-> {begin},
   end |-> {end}, root |-> {}]

(* tesla-macros.h *)

TIGNORE == __tesla_ignore
TSEQUENCE(es) == __tesla_sequence(<<TIGNORE>> \o es)
TESLA_ASSERTION_SITE == __tesla_assertion_site

call(fn, args) == __tesla_call(fn, args)
returnfrom(fn, args) == __tesla_return(fn, args)

callee(e) == Modifier("callee", e)
caller(e) == Modifier("caller", e)
strict(e) == Modifier("strict", e)
conditional(e) == Modifier("conditional", e)

flags(a) == __tesla_flags(a)
bitmask(a) == __tesla_mask(a)

optional(e) == __tesla_optional(e)
ANY_REP == Infinite
REPEAT(m, n, es) == __tesla_repeat(m, n, es)
UPTO(n, es) == __tesla_repeat(1, n, es)
ATLEAST(n, es) == __tesla_repeat(n, ANY_REP, es)
ANY == __tesla_any

previously(es) == TSEQUENCE(Append(es, TESLA_ASSERTION_SITE))
eventually(es) == TSEQUENCE(<<TESLA_ASSERTION_SITE>> \o es)

TESLA_GLOBAL(id, begin, end, e) ==
  __tesla_inline_assertion(id, __tesla_global, begin, end, e)
TESLA_PERTHREAD(id, begin, end, e) ==
  __tesla_inline_assertion(id, __tesla_perthread, begin, end, e)
TESLA_WITHIN(id, fn, e) ==
  TESLA_PERTHREAD(id, callee(call(fn, <<>>)), callee(returnfrom(fn, <<>>)), e)
TESLA_STRUCT_AUTOMATON(id, loc, begin, end) == __tesla_struct_usage(id, loc, begin, end)
=============================================================================
