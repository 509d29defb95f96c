------------------------- MODULE TeslaNotification --------------------------
(***************************************************************************)
(* Event notification (libtesla/src/tesla_notification.c, tesla_dtrace.c). *)
(* The engine's ev_* functions walk over the current handlers with the     *)
(* macro FOREACH_ERROR_HANDLER, which reads the variable event_handlers    *)
(* again for every test and every call; meanwhile another thread may       *)
(* install other handlers, and in the kernel sysctl may change the mask.   *)
(* Nothing is locked, so every read and every write is a step.             *)
(*                                                                         *)
(* A handler is a record: its name and the kinds of events it has a        *)
(* function for.  What libtesla's own handlers print is a text in a buffer *)
(* (TeslaDebug) or a line.                                                 *)
(***************************************************************************)
EXTENDS TeslaDebug

CONSTANTS
  Builds,      \* [kernel, dtrace, debug, setuid, env]: what to look at
  Notifiers,   \* threads that report events
  Reported,    \* the kinds of events they report
  Details,     \* what failures are about: [instance, state, name, key, transitions]
  Vectors,     \* handlers (tesla_event_handlers) the application has
  MetaVectors, \* metahandlers the application has: [handlers, mask]
  MaxSets      \* bound: how often handlers are installed

VARIABLES
  build,
  mask,              \* default_event_handlers.tem_mask, changed by sysctl
  event_handlers,    \* what it points to: [kind] and, for "meta", a metahandler
  singleton,         \* singleton[0] of tesla_set_event_handler
  have_transitions,
  pc,                \* where each notifier is in the macro
  at,                \* its event, what that is about and its loop counter
  called,            \* the handlers the current notification has called
  printed,           \* what they have printed
  disturbed,         \* what else happened during it: "no", "changed", "shrunk"
  installing,        \* the setter's call: [pc, what]
  sets,              \* installations so far
  panicked,          \* tesla_panic
  fault              \* what undefined behaviour a notifier ran into
vars == <<build, mask, event_handlers, singleton, have_transitions, pc, at,
          called, printed, disturbed, installing, sets, panicked, fault>>

Events == {"sunrise", "sunset", "init", "transition", "clone",
           "fail_no_instance", "bad_transition", "err", "accept", "ignored"}
Failures == {"fail_no_instance", "bad_transition", "err"}

\* The failures that come with a transition table and an instance or a key.
Detailed == {"fail_no_instance", "bad_transition"}
NoDetail == [name |-> 0]

Handler(name, fns) == [name |-> name, fns |-> fns]
NoHandler == Handler("none", {})

\* libtesla's own handlers and the application's.
Names == {"none", "printf", "printf_on_failure", "dtrace", "failstop"}
           \cup {h.name : h \in Vectors}
           \cup UNION {{m.handlers[k].name : k \in DOMAIN m.handlers} : m \in MetaVectors}
Handlers == [name : Names, fns : SUBSET Events]

ASSUME NotificationAssumption ==
  /\ Reported \subseteq Events
  /\ Vectors \subseteq Handlers
  /\ \A m \in MetaVectors : m.handlers \in Seq(Handlers)
  /\ Details \subseteq
       [instance : Nat, state : Nat, name : Nat, key : [mask : Nat, words : Seq(Nat)],
        transitions : Seq(Transitions)]

\* The vectors libtesla has itself.
printf_handlers == Handler("printf", Events)
printf_on_failure == Handler("printf_on_failure", Failures)
dtrace_handlers == Handler("dtrace", Events)
failstop_handlers == Handler("failstop", Failures)

\* Faulty variant: nothing for failures but printing.
PrintOnly == IF build.debug THEN <<printf_handlers, printf_on_failure>>
             ELSE <<printf_on_failure>>

default_handlers ==
  (IF build.debug THEN <<printf_handlers, printf_on_failure>> ELSE <<>>)
    \o (IF build.kernel /\ build.dtrace THEN <<dtrace_handlers>> ELSE <<>>)
    \o <<failstop_handlers>>

\* tem_mask as the set of its bits: TESLA_KERN_DTRACE_EV is 0x4.
DefaultMask == IF build.kernel /\ build.dtrace THEN {2} ELSE 0 .. 7

Init ==
  /\ build \in Builds
  /\ mask = DefaultMask
  /\ event_handlers = [kind |-> "default"]
  /\ singleton = NoHandler
  /\ have_transitions = build.debug
  /\ pc = [t \in Notifiers |-> "idle"]
  /\ at = [t \in Notifiers |-> [event |-> "none", about |-> NoDetail, i |-> 0]]
  /\ called = [t \in Notifiers |-> <<>>]
  /\ printed = [t \in Notifiers |-> <<>>]
  /\ disturbed = [t \in Notifiers |-> "no"]
  /\ installing = [pc |-> "idle", what |-> NoHandler]
  /\ sets = 0
  /\ panicked = FALSE /\ fault = "none"

\* What event_handlers points to at this moment; indices from 0.
tem_handlers ==
  CASE event_handlers.kind = "default" -> default_handlers
    [] event_handlers.kind = "singleton" -> <<singleton>>
    [] OTHER -> event_handlers.meta.handlers
tem_length == Len(tem_handlers)

tem_mask ==
  CASE event_handlers.kind = "default" -> mask
    [] event_handlers.kind = "singleton" -> {0}
    [] OTHER -> event_handlers.meta.mask

Alive == ~panicked /\ fault = "none"

-----------------------------------------------------------------------------
(* Notifications *)

\* ev_transition is only called by tesla_update_state if have_transitions.
Notify(t, e, about) ==
  /\ Alive /\ pc[t] = "idle"
  /\ about \in IF e \in Detailed THEN Details ELSE {NoDetail}
  /\ e = "transition" => have_transitions
  /\ pc' = [pc EXCEPT ![t] = "length"]
  /\ at' = [at EXCEPT ![t] = [event |-> e, about |-> about, i |-> 0]]
  /\ called' = [called EXCEPT ![t] = <<>>]
  /\ printed' = [printed EXCEPT ![t] = <<>>]
  /\ disturbed' = [disturbed EXCEPT ![t] = "no"]
  /\ UNCHANGED <<build, mask, event_handlers, singleton, have_transitions,
                 installing, sets, panicked, fault>>

Goto(t, from, to) == Alive /\ pc[t] = from /\ pc' = [pc EXCEPT ![t] = to]
Rest == <<build, mask, event_handlers, singleton, have_transitions, disturbed,
          installing, sets>>
Advance(t) == at' = [at EXCEPT ![t].i = @ + 1]

\* i < event_handlers->tem_length
TestLength(t) ==
  /\ Goto(t, "length", IF at[t].i < tem_length THEN "mask" ELSE "idle")
  /\ UNCHANGED <<Rest, at, called, printed, panicked, fault>>

\* event_handlers->tem_mask & (1 << i)
TestMask(t) ==
  /\ UNCHANGED <<Rest, called, printed, panicked, fault>>
  /\ \/ at[t].i \in tem_mask /\ Goto(t, "mask", "null") /\ UNCHANGED at
     \/ at[t].i \notin tem_mask /\ Goto(t, "mask", "length") /\ Advance(t)

Beyond(t) == at[t].i >= tem_length
HandlerAt(t) == tem_handlers[at[t].i + 1]

\* event_handlers->tem_handlers[i]->x; beyond the array anything may be read.
TestNull(t) ==
  /\ UNCHANGED <<Rest, called, printed, panicked>>
  /\ \/ /\ Beyond(t) /\ Goto(t, "null", "idle")
        /\ fault' = "beyond" /\ UNCHANGED at
     \/ /\ ~Beyond(t) /\ at[t].event \in HandlerAt(t).fns
        /\ Goto(t, "null", "call") /\ UNCHANGED <<at, fault>>
     \/ /\ ~Beyond(t) /\ at[t].event \notin HandlerAt(t).fns
        /\ Goto(t, "null", "length") /\ Advance(t) /\ UNCHANGED fault

-----------------------------------------------------------------------------
(* Handlers *)

\* print_no_instance
NoInstanceText(d) ==
  sprint_transitions(
    SAFE_SPRINTF(key_string(SAFE_SPRINTF(EmptyBuffer, 25), d.key), 20), d.transitions)

\* print_bad_transition: the first piece has the number of the instance, its
\* state and the name of the event.
BadTransitionHead(d) == 68 + d.instance + d.state + d.name
BadTransitionText(d) ==
  SAFE_SPRINTF(sprint_transitions(SAFE_SPRINTF(EmptyBuffer, BadTransitionHead(d)),
                                  d.transitions), 2)

\* The names under which the other handlers print, if debugging is on.
DebugName ==
  [sunrise |-> <<"sunrise">>, sunset |-> <<"sunset">>, init |-> <<"instance", "new">>,
   transition |-> <<"state", "transition">>, clone |-> <<"instance", "clone">>,
   err |-> <<"event">>, accept |-> <<"instance", "success">>, ignored |-> <<"event">>]

\* What a function of the printf handlers prints, and whether the assertion that
\* something has been put into the buffer holds.
Text(e, d) == IF e = "fail_no_instance" THEN NoInstanceText(d) ELSE BadTransitionText(d)
Prints(e, d) ==
  IF e \in Detailed THEN <<Text(e, d)>>
  ELSE IF tesla_debugging(build, Libtesla(DebugName[e])) THEN <<"line">> ELSE <<>>
AssertionFails(e, d) ==
  e = "bad_transition" /\ SAFE_SPRINTF(EmptyBuffer, BadTransitionHead(d)).at = 0

IsPrintf(h) == h \in {printf_handlers, printf_on_failure}

\* The loop goes on with the next handler, unless this one stops the program:
\* the fail-stop handlers panic, and the printing ones may fail an assertion.
Calls(t, h) ==
  LET e == at[t].event
      d == at[t].about
      fails == IsPrintf(h) /\ AssertionFails(e, d)
  IN /\ called' = [called EXCEPT ![t] = Append(@, h.name)]
     /\ printed' = IF ~IsPrintf(h) \/ fails THEN printed
                   ELSE [printed EXCEPT ![t] = @ \o Prints(e, d)]
     /\ panicked' = (h = failstop_handlers)
     /\ fault' = IF fails THEN "assert" ELSE fault

\* Faulty variant: the macro ends after the first handler it has called.
CallOnlyOne(t) ==
  /\ UNCHANGED Rest
  /\ Goto(t, "call", "length")
  /\ at' = [at EXCEPT ![t].i = 8]
  /\ Calls(t, HandlerAt(t))

\* event_handlers->tem_handlers[i]->x(...)
CallHandler(t) ==
  /\ UNCHANGED Rest
  /\ \/ /\ Beyond(t) /\ Goto(t, "call", "idle")
        /\ fault' = "beyond" /\ UNCHANGED <<at, called, printed, panicked>>
     \/ /\ ~Beyond(t) /\ at[t].event \notin HandlerAt(t).fns
        /\ Goto(t, "call", "idle")
        /\ fault' = "null" /\ UNCHANGED <<at, called, printed, panicked>>
     \/ /\ ~Beyond(t) /\ at[t].event \in HandlerAt(t).fns
        /\ Goto(t, "call", "length")
        /\ Advance(t)
        /\ Calls(t, HandlerAt(t))

Run(t) == TestLength(t) \/ TestMask(t) \/ TestNull(t) \/ CallHandler(t)

-----------------------------------------------------------------------------
(* Installation *)

Disturb(shrunk) ==
  disturbed' = [t \in Notifiers |->
                  IF pc[t] = "idle" THEN disturbed[t]
                  ELSE IF shrunk \/ disturbed[t] = "shrunk" THEN "shrunk"
                  ELSE "changed"]

\* Faulty variant: one of the functions is not looked at.
CheckAllButErr(h) == Events \ {"err"} \subseteq h.fns

check_event_handler(h) == Events \subseteq h.fns

HaveTransitions(hs) == \E k \in DOMAIN hs : "transition" \in hs[k].fns

\* tesla_set_event_handler, tesla_set_event_handlers: a vector that is not
\* complete is refused; then three, or two, writes.
Install(what, next, hs) ==
  /\ Alive /\ sets < MaxSets /\ installing.pc = "idle"
  /\ \A k \in DOMAIN hs : check_event_handler(hs[k])
  /\ sets' = sets + 1
  /\ have_transitions' = HaveTransitions(hs)
  /\ installing' = [pc |-> next, what |-> what]
  /\ UNCHANGED <<build, mask, event_handlers, singleton, pc, at, called, printed,
                 disturbed, panicked, fault>>

tesla_set_event_handler(h) == Install(h, "singleton", <<h>>)
tesla_set_event_handlers(m) == Install(m, "publish", m.handlers)

WriteSingleton ==
  /\ Alive /\ installing.pc = "singleton"
  /\ singleton' = installing.what
  /\ Disturb(FALSE)
  /\ installing' = [installing EXCEPT !.pc = "publish_singleton"]
  /\ UNCHANGED <<build, mask, event_handlers, have_transitions, pc, at, called, printed,
                 sets, panicked, fault>>

Publish ==
  /\ Alive /\ installing.pc \in {"publish", "publish_singleton"}
  /\ event_handlers' = IF installing.pc = "publish"
                       THEN [kind |-> "meta", meta |-> installing.what]
                       ELSE [kind |-> "singleton"]
  /\ installing' = [pc |-> "idle", what |-> NoHandler]
  /\ UNCHANGED <<build, mask, singleton, have_transitions, pc, at, called, printed, sets,
                 panicked, fault>>
  /\ Disturb(tem_length' < tem_length)

\* sysctl tesla.events.handlers: bits of default_event_handlers.tem_mask.
Sysctl(m) ==
  /\ Alive /\ build.kernel /\ sets < MaxSets
  /\ mask' = m /\ sets' = sets + 1
  /\ Disturb(FALSE)
  /\ UNCHANGED <<build, event_handlers, singleton, have_transitions, pc, at, called, printed,
                 installing, panicked, fault>>

Stopped == ~Alive /\ UNCHANGED vars

Next ==
  \/ \E t \in Notifiers, e \in Reported, d \in Details \cup {NoDetail} : Notify(t, e, d)
  \/ \E t \in Notifiers : Run(t)
  \/ \E h \in Vectors : tesla_set_event_handler(h)
  \/ \E m \in MetaVectors : tesla_set_event_handlers(m)
  \/ WriteSingleton \/ Publish
  \/ \E m \in {{0, 1}, {2, 3}} : Sysctl(m)
  \/ Stopped

Spec == Init /\ [][Next]_vars

-----------------------------------------------------------------------------
Ending(t) == pc[t] = "length" /\ at[t].i >= tem_length

\* The places, from 1, of the handlers that are on and have a function for e,
\* and that these, and no others, have been called once each and in order.
Enabled(e) == {k \in 1 .. tem_length : k - 1 \in tem_mask /\ e \in tem_handlers[k].fns}

CalledInOrder(names, places) ==
  \E f \in [1 .. Len(names) -> places] :
    /\ \A m, n \in 1 .. Len(names) : m < n => f[m] < f[n]
    /\ \A k \in places : \E n \in 1 .. Len(names) : f[n] = k
    /\ \A n \in 1 .. Len(names) : names[n] = tem_handlers[f[n]].name

(* "if bit 0 is set, tem_handler[0] is called, etc.": a notification during *)
(* which no handlers are installed calls every enabled handler that has a   *)
(* function for the event, once and in their order.                         *)
DeliveredToAll ==
  \A t \in Notifiers :
    Ending(t) /\ disturbed[t] = "no" => CalledInOrder(called[t], Enabled(at[t].event))

(* Every test and the call itself read event_handlers again, and what is    *)
(* read may belong to handlers installed in between.  The pointer called is *)
(* never NULL all the same, since only complete vectors can be installed    *)
(* (check_event_handler); and a notification only reads past the end of the *)
(* handlers if it was under way when fewer were installed than before.      *)
FaultNeedsShrinking ==
  /\ fault # "null"
  /\ fault = "beyond" => \E t \in Notifiers : disturbed[t] = "shrunk"

\* In a kernel with DTrace and without debugging the bit of the mask is the
\* third, and the handlers are two.
SilentBuild == build.kernel /\ build.dtrace /\ ~build.debug

DefaultsIn(t) ==
  /\ Ending(t) /\ disturbed[t] = "no" /\ at[t].event \in Failures
  /\ event_handlers.kind = "default" /\ mask = DefaultMask

(* "printf first [...], then either use DTrace or fail-stop if DTrace is    *)
(* not available": with the default handlers and mask, no failure goes by   *)
(* without one of the two, in every build but the silent one.               *)
FailuresAreHeardUnlessSilent ==
  SilentBuild \/ \A t \in Notifiers :
    DefaultsIn(t) => panicked \/ "dtrace" \in ToSet(called[t])

Whole(e, d) ==
  IF e = "bad_transition"
  THEN <<BadTransitionHead(d)>> \o TransitionsPieces(d.transitions) \o <<2>>
  ELSE <<25>> \o KeyPieces(d.key) \o <<20>> \o TransitionsPieces(d.transitions)
Total(pieces) == FoldLeft(+, 0, pieces)

\* b is what there is room for of the pieces.
SaysWhatFits(b, pieces) ==
  /\ b.at = Total(b.kept) /\ b.at + b.tail < ERROR_BUFFER_LENGTH
  /\ b.kept # <<>> /\ b.kept[1] = pieces[1]
  /\ Total(pieces) < ERROR_BUFFER_LENGTH => b.kept = pieces
  /\ Len(b.kept) + b.lost = Len(pieces)

(* What is said of a failure ends within the buffer, always has its first   *)
(* words (which instance, in which state, on which event) and leaves        *)
(* nothing out if it is shorter than the buffer; by default a debug build   *)
(* says it, twice, before it stops; and printing never stops the program    *)
(* itself, except for an event whose name alone fills the buffer            *)
(* (SAFE_SPRINTF, print_no_instance, print_bad_transition).                 *)
FailuresArePrinted ==
  /\ \A t \in Notifiers : at[t].event \in Detailed =>
       /\ \A k \in DOMAIN printed[t] :
            SaysWhatFits(printed[t][k], Whole(at[t].event, at[t].about))
       /\ "failstop" \in ToSet(called[t]) /\ build.debug /\ disturbed[t] = "no"
            /\ event_handlers.kind = "default" /\ mask = DefaultMask
            => Len(printed[t]) = 2
  /\ fault = "assert" => \E t \in Notifiers :
       at[t].event = "bad_transition" /\ BadTransitionHead(at[t].about) >= ERROR_BUFFER_LENGTH

=============================================================================
