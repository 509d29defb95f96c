----------------------------- MODULE ClassTable -----------------------------
(***************************************************************************)
(* What tesla_class_get promises to its callers (tesla_internal.h: "Look   *)
(* up a class in a store"): a map from automata to places, in which an     *)
(* automaton keeps the place that it was given by the first call.          *)
(***************************************************************************)
CONSTANTS Threads, Automata, Places, NULL

VARIABLES
  place,    \* [Automata -> Places or NULL]
  got,      \* what each caller has now: [automaton, place], or NULL
  refused   \* callers for whom there was no place

vars == <<place, got, refused>>

Init ==
  /\ place = [a \in Automata |-> NULL]
  /\ got = [t \in Threads |-> NULL]
  /\ refused = {}

Hand(t, a, p) == got' = [got EXCEPT ![t] = [automaton |-> a, place |-> p]]

\* The first call for an automaton takes a place nobody has.
Enter(t, a) ==
  /\ got[t] = NULL /\ place[a] = NULL
  /\ \E p \in Places :
       /\ \A b \in Automata : place[b] # p
       /\ place' = [place EXCEPT ![a] = p]
       /\ Hand(t, a, p)
  /\ UNCHANGED refused

\* A later one gets the same.
Find(t, a) ==
  /\ got[t] = NULL /\ place[a] # NULL
  /\ Hand(t, a, place[a])
  /\ UNCHANGED <<place, refused>>

Put(t) ==
  /\ got[t] # NULL
  /\ got' = [got EXCEPT ![t] = NULL]
  /\ UNCHANGED <<place, refused>>

\* TESLA_ERROR_ENOENT: no place is left for an automaton without one.
Refuse(t, a) ==
  /\ got[t] = NULL /\ place[a] = NULL
  /\ \A p \in Places : \E b \in Automata : place[b] = p
  /\ refused' = refused \cup {t}
  /\ UNCHANGED <<place, got>>

Next ==
  \E t \in Threads :
    Put(t) \/ \E a \in Automata : Enter(t, a) \/ Find(t, a) \/ Refuse(t, a)

Spec == Init /\ [][Next]_vars
=============================================================================
