------------------------------ MODULE TeslaKey ------------------------------
(***************************************************************************)
(* Keys, instances and transitions of libtesla, and the decision that      *)
(* tesla_update_class_state takes for one instance (tesla_action).         *)
(*                                                                         *)
(* A struct tesla_key is an array of TESLA_KEY_SIZE words, a mask of the   *)
(* words that are set and a mask of free variables.  A word outside the    *)
(* mask is never read, so the array and its mask are one function in which *)
(* an unset word is ANY.  Instance names never have a free mask (they grow *)
(* from the static empty key by tesla_key_union, which does not copy it),  *)
(* so only event patterns carry one.                                       *)
(***************************************************************************)
EXTENDS Naturals, Sequences

CONSTANTS Slots,      \* indices into tk_keys, 0 .. TESLA_KEY_SIZE - 1
          Values,     \* the words an event parameter can have
          ANY         \* "ANY matches 42 but not the other way around"

ASSUME AnyIsNoValue == ANY \notin Values

Key == [Slots -> Values \cup {ANY}]

Pattern == [key : Key, free : SUBSET Slots]

EmptyKey == [s \in Slots |-> ANY]

\* tk_mask
Mask(k) == {s \in Slots : k[s] # ANY}

\* tk_mask &= m
Masked(k, m) == [s \in Slots |-> IF s \in m THEN k[s] ELSE ANY]

\* Faulty variant: the values are not compared.
MatchesMasksOnly(p, k) == Mask(p.key) \cup p.free \subseteq Mask(k)

tesla_key_matches(p, k) ==
  /\ Mask(p.key) \cup p.free \subseteq Mask(k)
  /\ \A s \in Mask(p.key) : p.key[s] = k[s]

\* TESLA_ERROR_EINVAL: both keys set a word, to different values
UnionConflicts(dest, source) ==
  \E s \in Mask(dest) \cap Mask(source) : dest[s] # source[s]

tesla_key_union(dest, source) ==
  [s \in Slots |-> IF dest[s] = ANY THEN source[s] ELSE dest[s]]

-----------------------------------------------------------------------------
Instance == [state : Nat, key : Key]

\* What bzero leaves behind.
Inactive == [state |-> 0, key |-> EmptyKey]

tesla_instance_active(in) == in.state # 0 \/ Mask(in.key) # {}

Transition == [from : Nat, from_mask : SUBSET Slots,
               to : Nat, to_mask : SUBSET Slots,
               init : BOOLEAN, cleanup : BOOLEAN]

\* Losing part of the name, except when the automaton is being cleaned up.
IsJoin(t) == ~(t.from_mask \subseteq t.to_mask) /\ ~t.cleanup

\* Not a join, and no word is added to the name.
IsUpdate(t) == ~IsJoin(t) /\ t.to_mask \subseteq t.from_mask

IsFork(t) == ~IsJoin(t) /\ ~(t.to_mask \subseteq t.from_mask)

\* Faulty variant: a fork does not compare the event with the name.
TakesAnyFork(in, event, t) ==
  LET p == [event EXCEPT !.key = Masked(event.key, t.from_mask)]
  IN /\ t.from = in.state
     /\ \/ IsJoin(t)
        \/ /\ IsUpdate(t)
           /\ tesla_key_matches(p, Masked(in.key, Mask(p.key) \cup p.free))
        \/ IsFork(t)

\* tesla_action returns inside its loop when it meets t: note that a join is
\* taken before the event's parameters are compared with the name.
Takes(in, event, t) ==
  LET p == [event EXCEPT !.key = Masked(event.key, t.from_mask)]
  IN /\ t.from = in.state
     /\ \/ IsJoin(t)
        \/ /\ IsUpdate(t)
           /\ tesla_key_matches(p, Masked(in.key, Mask(p.key) \cup p.free))
        \/ /\ IsFork(t)
           /\ tesla_key_matches(p, in.key)

\* The transition that triggers the action: the first of trans that in takes,
\* as a set of at most one index.
Triggers(in, event, trans) ==
  {k \in DOMAIN trans :
     /\ tesla_instance_active(in)
     /\ Takes(in, event, trans[k])
     /\ \A j \in 1 .. k - 1 : ~Takes(in, event, trans[j])}

\* No transition is taken although the event names the instance: FAIL.
Fails(in, event, trans) ==
  /\ tesla_instance_active(in)
  /\ \A k \in DOMAIN trans : ~Takes(in, event, trans[k])
  /\ \E k \in DOMAIN trans : /\ trans[k].from # in.state
                             /\ tesla_key_matches(event, in.key)

\* No transition is taken and the instance is not concerned: IGNORE.
Ignores(in, event, trans) ==
  /\ ~Fails(in, event, trans)
  /\ \/ ~tesla_instance_active(in)
     \/ \A k \in DOMAIN trans : ~Takes(in, event, trans[k])
=============================================================================
