----------------------------- MODULE TeslaDebug -----------------------------
(***************************************************************************)
(* How libtesla prints (tesla_debug.c, SAFE_SPRINTF of tesla_internal.h):  *)
(* pieces of text are put one after another into a buffer of fixed size.   *)
(* A piece is its length; a buffer is                                      *)
(*   at:   how far "current" has moved from the start of the buffer,       *)
(*   kept: the pieces before it, in order,                                 *)
(*   lost: how many pieces did not fit,                                    *)
(*   tail: how much of the last piece, if it did not fit, is there all the *)
(*         same (a later piece overwrites it).                             *)
(* Masks are printed with %tx, a format for a wider type: how many digits  *)
(* come out (up to 16) is given with the mask.                             *)
(***************************************************************************)
EXTENDS Naturals, Sequences, SequencesExt

CONSTANT ERROR_BUFFER_LENGTH

\* 1024 in the code; at least the first words of print_no_instance fit.
ASSUME BufferAssumption == ERROR_BUFFER_LENGTH \in Nat /\ ERROR_BUFFER_LENGTH > 25

EmptyBuffer == [at |-> 0, kept |-> <<>>, lost |-> 0, tail |-> 0]

\* Faulty variant: no room is left for the terminating NUL.
SprintfToTheEnd(b, n) ==
  LET room == ERROR_BUFFER_LENGTH - b.at
  IN IF n > 0 /\ b.at + n <= ERROR_BUFFER_LENGTH
     THEN [b EXCEPT !.at = @ + n, !.kept = Append(@, n), !.tail = 0]
     ELSE [b EXCEPT !.lost = @ + 1, !.tail = IF n < room THEN n ELSE room]

SAFE_SPRINTF(b, n) ==
  LET room == ERROR_BUFFER_LENGTH - b.at
  IN IF n > 0 /\ b.at + n < ERROR_BUFFER_LENGTH
     THEN [b EXCEPT !.at = @ + n, !.kept = Append(@, n), !.tail = 0]
     ELSE [b EXCEPT !.lost = @ + 1, !.tail = IF n < room THEN n ELSE room - 1]

SprintAll(b, pieces) == FoldLeft(SAFE_SPRINTF, b, pieces)

\* A transition: the digits of its numbers, and its flags.
Transitions ==
  [from : Nat, from_mask : Nat, to : Nat, to_mask : Nat, init : BOOLEAN, clean : BOOLEAN]
TransitionPieces(t) ==
  <<2 + t.from, 2 + t.from_mask, 5 + t.to, 2 + t.to_mask>>
    \o (IF t.init THEN <<7>> ELSE <<>>) \o (IF t.clean THEN <<8>> ELSE <<>>)
    \o <<2>>

\* "[ ", each transition, "]"
AddTransition(pieces, t) == pieces \o TransitionPieces(t)
TransitionsPieces(ts) == FoldLeft(AddTransition, <<2>>, ts) \o <<1>>

sprint_transition(b, t) == SprintAll(b, TransitionPieces(t))
sprint_transitions(b, ts) ==
  SAFE_SPRINTF(FoldLeft(sprint_transition, SAFE_SPRINTF(b, 2), ts), 1)

\* "0x%tx [ ", each word or "X ", "]".  key: the digits of the mask and of the
\* words, 0 for one that is not set.
KeyPieces(key) ==
  <<5 + key.mask>>
    \o [k \in DOMAIN key.words |-> IF key.words[k] = 0 THEN 2 ELSE key.words[k] + 1]
    \o <<1>>
key_string(b, key) == SprintAll(b, KeyPieces(key))

-----------------------------------------------------------------------------
(* tesla_debugging.  A name is the sequence of its parts.                    *)
(* how: [debug, kernel, setuid, env]; env: TESLA_DEBUG, <<>> if it is not    *)
(* set or empty.                                                             *)

Libtesla(parts) == <<"libtesla">> \o parts

\* fnmatch: only a star at the end.
Fnmatch(env, name) ==
  \/ env = name
  \/ Last(env) = "*" /\ Len(name) >= Len(env) /\ IsPrefix(Front(env), name)

tesla_debugging(how, name) ==
  /\ how.debug
  /\ IF how.kernel
     THEN \E s \in {"event", "instance"} : IsPrefix(Libtesla(<<s>>), name)
     ELSE /\ ~how.setuid /\ how.env # <<>>
          /\ IsStrictPrefix(how.env, name) \/ Fnmatch(how.env, name)
=============================================================================
