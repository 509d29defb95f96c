------------------------ MODULE MCTeslaNotification -------------------------
(***************************************************************************)
(* All builds, a notifier, an application with one complete vector, an     *)
(* incomplete one and a metahandler of three whose second one is disabled. *)
(* Failures with short and long texts: one that fits with nothing to       *)
(* spare in a buffer of 160, one that is a character too long, one with    *)
(* more transitions than fit and one with a name as long as the buffer.    *)
(***************************************************************************)
EXTENDS TeslaNotification

CONSTANT n1

MCBuilds ==
  {[kernel |-> k, dtrace |-> d, debug |-> g, setuid |-> u, env |-> v] :
     k \in BOOLEAN, d \in BOOLEAN, g \in BOOLEAN, u \in {FALSE},
     v \in {<<>>, Libtesla(<<"instance">>), Libtesla(<<"*">>)}}
  \cup {[kernel |-> FALSE, dtrace |-> FALSE, debug |-> TRUE, setuid |-> TRUE,
         env |-> Libtesla(<<"*">>)]}

Mine == Handler("mine", Events)
NoErr == Handler("no_err", Events \ {"err"})
MCVectors == {Mine, NoErr}
Three == [handlers |-> <<Mine, Handler("other", Events), Handler("last", Events)>>,
          mask |-> {0, 2}]
MCMetaVectors == {Three}

Transition(init, clean) ==
  [from |-> 1, from_mask |-> 1, to |-> 2, to_mask |-> 16, init |-> init, clean |-> clean]
Detail(name, words, transitions) ==
  [instance |-> 1, state |-> 1, name |-> name, key |-> [mask |-> 1, words |-> words],
   transitions |-> transitions]

One == <<Transition(TRUE, TRUE)>>
Two == <<Transition(TRUE, FALSE), Transition(FALSE, TRUE)>>
Four == <<Transition(TRUE, FALSE), Transition(FALSE, FALSE), Transition(FALSE, FALSE),
          Transition(FALSE, TRUE)>>

\* A bad transition with one transition takes 123 characters beside the name.
MCDetails == {Detail(36, <<16, 16, 0, 0>>, One), Detail(37, <<16, 16, 16, 16>>, One),
              Detail(10, <<8, 0, 0, 0>>, Four), Detail(160, <<0, 0, 0, 0>>, Two)}
=============================================================================
