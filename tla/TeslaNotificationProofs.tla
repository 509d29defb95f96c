----------------------- MODULE TeslaNotificationProofs ----------------------
(***************************************************************************)
(* Event notification, for any number of threads that report events, any   *)
(* handlers the application has and any number of installations: no NULL   *)
(* handler is called, the end of the handlers is only passed by a          *)
(* notification under which they became fewer, and the default handlers    *)
(* let no failure go by.                                                   *)
(*                                                                         *)
(* The inductive invariant says what is complete at each write of an       *)
(* installation, what each read of the macro has established that a later  *)
(* installation cannot undo, and how far a walk over the default handlers  *)
(* can be without having met the handler that matters.                     *)
(***************************************************************************)
EXTENDS TeslaNotification, SequenceTheorems, TLAPS

NotifyTypeOK ==
  /\ pc \in [Notifiers -> {"idle", "length", "mask", "null", "call"}]
  /\ at \in [Notifiers -> [event : Events \cup {"none"}, about : Details \cup {NoDetail}, i : Nat]]
  /\ called \in [Notifiers -> Seq(Names)]
  /\ disturbed \in [Notifiers -> {"no", "changed", "shrunk"}]
  /\ panicked \in BOOLEAN
  /\ singleton \in Handlers
  /\ \A t \in Notifiers : pc[t] # "idle" => at[t].event \in Events

AllComplete(m) == \A k \in DOMAIN m.handlers : check_event_handler(m.handlers[k])

\* What is published has been looked at; what is under way has, too.
PublishedOK ==
  /\ event_handlers.kind \in {"default", "singleton", "meta"}
  /\ event_handlers.kind = "singleton" => check_event_handler(singleton)
  /\ event_handlers.kind = "meta" =>
       event_handlers.meta \in MetaVectors /\ AllComplete(event_handlers.meta)

InstallingOK ==
  /\ installing = [pc |-> installing.pc, what |-> installing.what]
  /\ installing.pc \in {"idle", "singleton", "publish_singleton", "publish"}
  /\ installing.pc = "singleton" =>
       installing.what \in Vectors /\ check_event_handler(installing.what)
  /\ installing.pc = "publish_singleton" => check_event_handler(singleton)
  /\ installing.pc = "publish" =>
       installing.what \in MetaVectors /\ AllComplete(installing.what)

\* What the macro has tested holds when it is used, unless the handlers have
\* become fewer; a function that was there is there, whatever is installed.
WalkOK ==
  \A t \in Notifiers :
    /\ pc[t] \in {"mask", "null", "call"} /\ disturbed[t] # "shrunk" => at[t].i < tem_length
    /\ pc[t] = "call" /\ ~Beyond(t) => at[t].event \in HandlerAt(t).fns

\* A walk over the default handlers on a failure is not past the handler that
\* matters: it has called DTrace's, or the fail-stop one is still to come.
FailureUnderWay(t) ==
  /\ pc[t] # "idle" /\ disturbed[t] = "no" /\ at[t].event \in Failures
  /\ event_handlers.kind = "default" /\ mask = DefaultMask

HeardOK ==
  SilentBuild \/ \A t \in Notifiers :
    FailureUnderWay(t) /\ ~panicked =>
      IF build.kernel /\ build.dtrace
      THEN at[t].i > 2 => "dtrace" \in ToSet(called[t])
      ELSE at[t].i < tem_length

NotifyInv ==
  /\ NotifyTypeOK /\ PublishedOK /\ InstallingOK /\ WalkOK /\ HeardOK
  /\ FaultNeedsShrinking

-----------------------------------------------------------------------------
(* The handlers *)

\* libtesla's own handlers, build by build.
LEMMA DebugDefaults ==
  ASSUME build.debug
  PROVE  /\ default_handlers[1] = printf_handlers /\ default_handlers[2] = printf_on_failure
         /\ build.kernel /\ build.dtrace =>
              /\ Len(default_handlers) = 4 /\ default_handlers[3] = dtrace_handlers
              /\ default_handlers[4] = failstop_handlers
         /\ ~(build.kernel /\ build.dtrace) =>
              Len(default_handlers) = 3 /\ default_handlers[3] = failstop_handlers
  <1> DEFINE kd == build.kernel /\ build.dtrace
  <1>1. CASE kd
    BY <1>1 DEF default_handlers
  <1>2. CASE ~kd
    BY <1>2 DEF default_handlers
  <1>3. QED
    BY <1>1, <1>2

LEMMA OtherDefaults ==
  ASSUME ~build.debug
  PROVE  /\ build.kernel /\ build.dtrace =>
              /\ Len(default_handlers) = 2 /\ default_handlers[1] = dtrace_handlers
              /\ default_handlers[2] = failstop_handlers
         /\ ~(build.kernel /\ build.dtrace) =>
              Len(default_handlers) = 1 /\ default_handlers[1] = failstop_handlers
  <1> DEFINE kd == build.kernel /\ build.dtrace
  <1>1. CASE kd
    BY <1>1 DEF default_handlers
  <1>2. CASE ~kd
    BY <1>2 DEF default_handlers
  <1>3. QED
    BY <1>1, <1>2

\* Who is last, and who is third; all have functions for the failures.
LEMMA Defaults ==
  /\ Len(default_handlers) \in 1 .. 4
  /\ \A k \in 1 .. Len(default_handlers) : Failures \subseteq default_handlers[k].fns
  /\ build.kernel /\ build.dtrace /\ build.debug =>
       Len(default_handlers) = 4 /\ default_handlers[3] = dtrace_handlers
  /\ ~(build.kernel /\ build.dtrace) =>
       default_handlers[Len(default_handlers)] = failstop_handlers
  <1> DEFINE kd == build.kernel /\ build.dtrace
  <1>1. /\ Failures \subseteq printf_handlers.fns /\ Failures \subseteq printf_on_failure.fns
        /\ Failures \subseteq dtrace_handlers.fns /\ Failures \subseteq failstop_handlers.fns
    BY DEF printf_handlers, printf_on_failure, dtrace_handlers, failstop_handlers,
           Handler, Failures, Events
  <1>2. CASE build.debug /\ kd
    <2>1. /\ Len(default_handlers) = 4
          /\ default_handlers[1] = printf_handlers /\ default_handlers[2] = printf_on_failure
          /\ default_handlers[3] = dtrace_handlers /\ default_handlers[4] = failstop_handlers
      BY <1>2, DebugDefaults
    <2>2. \A k \in 1 .. 4 : k = 1 \/ k = 2 \/ k = 3 \/ k = 4
      OBVIOUS
    <2>3. \A k \in 1 .. 4 : Failures \subseteq default_handlers[k].fns
      BY <1>1, <2>1, <2>2
    <2>4. QED
      BY <1>2, <2>1, <2>3
  <1>3. CASE build.debug /\ ~kd
    BY <1>1, <1>3, DebugDefaults
  <1>4. CASE ~build.debug /\ kd
    BY <1>1, <1>4, OtherDefaults
  <1>5. CASE ~build.debug /\ ~kd
    BY <1>1, <1>5, OtherDefaults
  <1>6. QED
    BY <1>2, <1>3, <1>4, <1>5

\* How many there are.
LEMMA HowManyDefaults ==
  Len(default_handlers) \in Nat /\ 0 < Len(default_handlers) /\ Len(default_handlers) <= 4
  <1>1. Len(default_handlers) \in 1 .. 4
    BY Defaults
  <1>2. \A n \in 1 .. 4 : n \in Nat /\ 0 < n /\ n <= 4
    OBVIOUS
  <1>3. QED
    BY <1>1, <1>2

\* Whatever is published has a length, and what has been installed has a
\* function for every event.
LEMMA Published ==
  ASSUME NotifyTypeOK, PublishedOK
  PROVE  /\ tem_length \in Nat
         /\ event_handlers.kind # "default" =>
              \A j \in Nat : j < tem_length => Events \subseteq tem_handlers[j + 1].fns
  <1>1. CASE event_handlers.kind = "default"
    BY <1>1, Defaults DEF tem_length, tem_handlers
  <1>2. CASE event_handlers.kind = "singleton"
    BY <1>2 DEF PublishedOK, tem_length, tem_handlers, check_event_handler
  <1>3. CASE event_handlers.kind = "meta"
    <2>1. PICK h \in Seq(Handlers) : h = event_handlers.meta.handlers
      BY <1>3, NotificationAssumption DEF PublishedOK
    <2>2. \A k \in DOMAIN h : Events \subseteq h[k].fns
      BY <1>3, <2>1 DEF PublishedOK, AllComplete, check_event_handler
    <2>3. Len(h) \in Nat /\ DOMAIN h = 1 .. Len(h)
      OBVIOUS
    <2>4. tem_handlers = h
      BY <1>3, <2>1 DEF tem_handlers
    <2>5. QED
      BY <2>2, <2>3, <2>4 DEF tem_length
  <1>4. QED
    BY <1>1, <1>2, <1>3 DEF PublishedOK

\* The same after a step that has installed something.
LEMMA PublishedNext ==
  ASSUME PublishedOK', event_handlers'.kind # "default"
  PROVE  /\ tem_length' \in Nat
         /\ \A j \in Nat : j < tem_length' => Events \subseteq tem_handlers'[j + 1].fns
         /\ event_handlers'.kind = "singleton" => tem_length' = 1
  <1>1. CASE event_handlers'.kind = "singleton"
    BY <1>1 DEF PublishedOK, tem_length, tem_handlers, check_event_handler
  <1>2. CASE event_handlers'.kind = "meta"
    <2>1. PICK h \in Seq(Handlers) : h = event_handlers'.meta.handlers
      BY <1>2, NotificationAssumption DEF PublishedOK
    <2>2. \A k \in DOMAIN h : Events \subseteq h[k].fns
      BY <1>2, <2>1 DEF PublishedOK, AllComplete, check_event_handler
    <2>3. Len(h) \in Nat /\ DOMAIN h = 1 .. Len(h)
      OBVIOUS
    <2>4. tem_handlers' = h
      BY <1>2, <2>1 DEF tem_handlers
    <2>5. QED
      BY <1>2, <2>2, <2>3, <2>4 DEF tem_length
  <1>3. QED
    BY <1>1, <1>2 DEF PublishedOK

\* A step that installs nothing reads the same handlers.
LEMMA HandlersStand ==
  ASSUME UNCHANGED <<build, event_handlers, singleton>>
  PROVE  /\ UNCHANGED <<tem_handlers, tem_length, DefaultMask, SilentBuild>>
         /\ PublishedOK' = PublishedOK
  <1>1. default_handlers' = default_handlers
    BY DEF default_handlers
  <1>2. tem_handlers' = tem_handlers
    BY <1>1 DEF tem_handlers
  <1>3. tem_length' = tem_length
    BY <1>2 DEF tem_length
  <1>4. DefaultMask' = DefaultMask /\ SilentBuild' = SilentBuild
    BY DEF DefaultMask, SilentBuild
  <1>5. PublishedOK' = PublishedOK
    BY DEF PublishedOK
  <1>6. QED
    BY <1>2, <1>3, <1>4, <1>5

-----------------------------------------------------------------------------
(* Notifications *)

\* A notification begins.
LEMMA NotifyKeeps ==
  ASSUME NotifyInv, NEW t \in Notifiers, NEW e \in Reported, NEW d, Notify(t, e, d)
  PROVE  NotifyInv'
  <1>1. /\ fault = "none" /\ ~panicked
        /\ pc' = [pc EXCEPT ![t] = "length"]
        /\ at' = [at EXCEPT ![t] = [event |-> e, about |-> d, i |-> 0]]
        /\ called' = [called EXCEPT ![t] = <<>>]
        /\ disturbed' = [disturbed EXCEPT ![t] = "no"]
        /\ UNCHANGED <<build, mask, event_handlers, singleton, installing, panicked, fault>>
    BY DEF Notify, Alive
  <1>2. UNCHANGED <<tem_handlers, tem_length, DefaultMask, SilentBuild>> /\ PublishedOK'
    BY <1>1, HandlersStand DEF NotifyInv
  <1>3. e \in Events /\ d \in Details \cup {NoDetail}
    BY NotificationAssumption DEF Notify
  <1>4. NotifyTypeOK'
    BY <1>1, <1>3 DEF NotifyInv, NotifyTypeOK
  <1>5. InstallingOK' /\ FaultNeedsShrinking'
    BY <1>1 DEF NotifyInv, InstallingOK, FaultNeedsShrinking
  <1>6. \A u \in Notifiers : /\ u # t => /\ pc'[u] = pc[u] /\ at'[u] = at[u]
                                         /\ called'[u] = called[u] /\ disturbed'[u] = disturbed[u]
                             /\ u = t => pc'[u] = "length" /\ at'[u].i = 0
    BY <1>1 DEF NotifyInv, NotifyTypeOK
  <1>7. WalkOK'
    BY <1>2, <1>6 DEF NotifyInv, WalkOK, Beyond, HandlerAt
  <1>8. HeardOK'
    <2>1. event_handlers.kind = "default" => 0 < tem_length
      <3>1. 0 < Len(default_handlers)
        BY HowManyDefaults
      <3>2. QED
        BY <3>1 DEF tem_length, tem_handlers
    <2>2. QED
      BY <1>1, <1>2, <1>6, <2>1 DEF NotifyInv, HeardOK, FailureUnderWay
  <1>9. QED
    BY <1>2, <1>4, <1>5, <1>7, <1>8 DEF NotifyInv

\* What the steps of a walk leave alone.
LEMMA WalkLeaves ==
  ASSUME NotifyInv, NEW t \in Notifiers, Run(t)
  PROVE  /\ fault = "none" /\ ~panicked
         /\ UNCHANGED <<tem_handlers, tem_length, DefaultMask, SilentBuild>>
         /\ UNCHANGED <<build, mask, event_handlers, singleton, installing, disturbed>>
         /\ PublishedOK' /\ InstallingOK'
         /\ \A u \in Notifiers : u # t => /\ pc'[u] = pc[u] /\ at'[u] = at[u]
                                          /\ called'[u] = called[u]
         /\ pc[t] # "idle" /\ at[t].event \in Events
  <1>1. /\ UNCHANGED <<build, mask, event_handlers, singleton, installing, disturbed>>
        /\ fault = "none" /\ ~panicked /\ pc[t] # "idle"
    BY DEF Run, TestLength, TestMask, TestNull, CallHandler, Rest, Goto, Alive
  <1>2. \A u \in Notifiers : u # t => pc'[u] = pc[u]
    BY DEF Run, TestLength, TestMask, TestNull, CallHandler, Goto, NotifyInv, NotifyTypeOK
  <1>3. \A u \in Notifiers : u # t => at'[u] = at[u]
    BY DEF Run, TestLength, TestMask, TestNull, CallHandler, Advance, NotifyInv, NotifyTypeOK
  <1>4. \A u \in Notifiers : u # t => called'[u] = called[u]
    BY DEF Run, TestLength, TestMask, TestNull, CallHandler, Calls, NotifyInv, NotifyTypeOK
  <1>5. UNCHANGED <<tem_handlers, tem_length, DefaultMask, SilentBuild>> /\ PublishedOK'
    BY <1>1, HandlersStand DEF NotifyInv
  <1>6. InstallingOK'
    BY <1>1 DEF NotifyInv, InstallingOK
  <1>7. QED
    BY <1>1, <1>2, <1>3, <1>4, <1>5, <1>6 DEF NotifyInv, NotifyTypeOK

\* The handler that matters is on, has a function for every failure and, if it
\* is the fail-stop one, is the last.
LEMMA HandlerThatMatters ==
  ASSUME NotifyInv, NEW t \in Notifiers, FailureUnderWay(t), ~SilentBuild,
         at[t].i < tem_length, ~panicked
  PROVE  /\ at[t].event \in HandlerAt(t).fns
         /\ build.kernel /\ build.dtrace => /\ at[t].i = 2 => at[t].i \in tem_mask
                                            /\ at[t].i = 2 => HandlerAt(t).name = "dtrace"
         /\ ~(build.kernel /\ build.dtrace) =>
              /\ at[t].i \in tem_mask
              /\ at[t].i + 1 = tem_length => HandlerAt(t) = failstop_handlers
  <1>1. tem_handlers = default_handlers /\ tem_mask = DefaultMask
    BY DEF FailureUnderWay, tem_handlers, tem_mask
  <1>2. at[t].i \in Nat /\ at[t].i + 1 \in 1 .. Len(default_handlers)
    BY <1>1, Defaults DEF NotifyInv, NotifyTypeOK, tem_length
  <1>3. at[t].event \in HandlerAt(t).fns
    BY <1>1, <1>2, Defaults DEF HandlerAt, FailureUnderWay
  <1>4. ASSUME build.kernel, build.dtrace, at[t].i = 2
        PROVE  at[t].i \in tem_mask /\ HandlerAt(t).name = "dtrace"
    BY <1>1, <1>4, Defaults DEF DefaultMask, HandlerAt, SilentBuild, dtrace_handlers, Handler
  <1>5. ASSUME ~(build.kernel /\ build.dtrace)
        PROVE  /\ at[t].i \in tem_mask
               /\ at[t].i + 1 = tem_length => HandlerAt(t) = failstop_handlers
    <2>1. tem_mask = 0 .. 7
      BY <1>1, <1>5 DEF DefaultMask
    <2>2. at[t].i \in tem_mask
      <3>1. \A i, n \in Nat : n <= 4 /\ i + 1 \in 1 .. n => i \in 0 .. 7
        OBVIOUS
      <3>2. QED
        BY <1>2, <2>1, <3>1, HowManyDefaults
    <2>3. default_handlers[Len(default_handlers)] = failstop_handlers
      BY <1>5, Defaults
    <2>4. at[t].i + 1 = tem_length => HandlerAt(t) = failstop_handlers
      BY <1>1, <2>3 DEF HandlerAt, tem_length
    <2>5. QED
      BY <2>2, <2>4
  <1>6. QED
    BY <1>3, <1>4, <1>5

\* What Handler makes is one of the handlers.
LEMMA HandlerIsOne ==
  ASSUME NEW name \in Names, NEW fns \in SUBSET Events
  PROVE  Handler(name, fns) \in Handlers
  BY DEF Handler, Handlers

\* Every entry of the handlers is one.
LEMMA HandlersAreRecords ==
  ASSUME NotifyTypeOK, PublishedOK, NEW j \in Nat, j < tem_length
  PROVE  tem_handlers[j + 1] \in Handlers
  <1>1. CASE event_handlers.kind = "default"
    <2>1. /\ printf_handlers \in Handlers /\ printf_on_failure \in Handlers
          /\ dtrace_handlers \in Handlers /\ failstop_handlers \in Handlers
      <3>1. Failures \in SUBSET Events /\ Events \in SUBSET Events
        BY DEF Failures, Events
      <3>2. printf_handlers \in Handlers
        BY <3>1, HandlerIsOne DEF Names, printf_handlers
      <3>3. printf_on_failure \in Handlers
        BY <3>1, HandlerIsOne DEF Names, printf_on_failure
      <3>4. dtrace_handlers \in Handlers
        BY <3>1, HandlerIsOne DEF Names, dtrace_handlers
      <3>5. failstop_handlers \in Handlers
        BY <3>1, HandlerIsOne DEF Names, failstop_handlers
      <3>6. QED
        BY <3>2, <3>3, <3>4, <3>5
    <2>2. default_handlers \in Seq(Handlers)
      BY <2>1 DEF default_handlers
    <2>3. QED
      BY <1>1, <2>2 DEF tem_handlers, tem_length
  <1>2. CASE event_handlers.kind = "singleton"
    BY <1>2 DEF tem_handlers, tem_length, NotifyTypeOK
  <1>3. CASE event_handlers.kind = "meta"
    <2>1. event_handlers.meta.handlers \in Seq(Handlers)
      BY <1>3, NotificationAssumption DEF PublishedOK
    <2>2. QED
      BY <1>3, <2>1 DEF tem_handlers, tem_length
  <1>4. QED
    BY <1>1, <1>2, <1>3 DEF PublishedOK

\* What a sequence holds after Append.
LEMMA AppendAdds ==
  ASSUME NEW S, NEW s \in Seq(S), NEW x \in S
  PROVE  ToSet(Append(s, x)) = ToSet(s) \cup {x}
  <1>1. /\ Len(s) \in Nat /\ DOMAIN s = 1 .. Len(s)
        /\ DOMAIN Append(s, x) = 1 .. Len(s) + 1
        /\ Append(s, x)[Len(s) + 1] = x
        /\ \A k \in 1 .. Len(s) : Append(s, x)[k] = s[k]
    <2>1. Len(s) \in Nat /\ DOMAIN s = 1 .. Len(s)
      OBVIOUS
    <2>2. Append(s, x) \in Seq(S) /\ Len(Append(s, x)) = Len(s) + 1
      OBVIOUS
    <2>3. DOMAIN Append(s, x) = 1 .. Len(s) + 1
      BY <2>2
    <2>4. Append(s, x)[Len(s) + 1] = x /\ \A k \in 1 .. Len(s) : Append(s, x)[k] = s[k]
      BY AppendProperties
    <2>5. QED
      BY <2>1, <2>3, <2>4
  <1>2. 1 .. Len(s) + 1 = (1 .. Len(s)) \cup {Len(s) + 1}
    BY <1>1
  <1>3. QED
    BY <1>1, <1>2 DEF ToSet

\* The counter of a walk goes on.
LEMMA CounterAdvances ==
  ASSUME NEW N, NEW E, NEW D, NEW f \in [N -> [event : E, about : D, i : Nat]], NEW t \in N
  PROVE  [f EXCEPT ![t].i = @ + 1] \in [N -> [event : E, about : D, i : Nat]]
  OBVIOUS

\* A step that goes on with the handler it is at.
LEMMA GoOnKeeps ==
  ASSUME NotifyInv, NEW t \in Notifiers, Run(t), UNCHANGED <<called, panicked, at>>,
         NEW where \in {"idle", "length", "mask", "null", "call"},
         pc' = [pc EXCEPT ![t] = where],
         where = "mask" => at[t].i < tem_length,
         where \in {"null", "call"} => pc[t] \in {"mask", "null"},
         where = "call" => at[t].event \in HandlerAt(t).fns
  PROVE  NotifyTypeOK' /\ WalkOK' /\ HeardOK'
  <1> USE WalkLeaves
  <1>1. pc'[t] = where
    BY DEF NotifyInv, NotifyTypeOK
  <1>2. NotifyTypeOK'
    BY <1>1 DEF NotifyInv, NotifyTypeOK
  <1>3. WalkOK'
    <2> SUFFICES ASSUME NEW u \in Notifiers PROVE WalkOK!(u)'
      BY DEF WalkOK
    <2>1. WalkOK!(u)
      BY DEF NotifyInv, WalkOK
    <2>2. QED
      BY <1>1, <2>1 DEF Beyond, HandlerAt
  <1>4. HeardOK'
    <2>1. \A u \in Notifiers : FailureUnderWay(u)' => FailureUnderWay(u)
      BY <1>1 DEF FailureUnderWay
    <2>2. QED
      BY <2>1 DEF NotifyInv, HeardOK
  <1>5. QED
    BY <1>2, <1>3, <1>4

\* A step that leaves a handler out because it is off or has no function.
LEMMA SkipKeeps ==
  ASSUME NotifyInv, NEW t \in Notifiers, Run(t), UNCHANGED <<called, panicked>>,
         pc[t] \in {"mask", "null"}, pc' = [pc EXCEPT ![t] = "length"],
         at' = [at EXCEPT ![t].i = @ + 1],
         at[t].i \notin tem_mask \/ at[t].event \notin HandlerAt(t).fns
  PROVE  NotifyTypeOK' /\ WalkOK' /\ HeardOK'
  <1> USE WalkLeaves
  <1>1. /\ at[t].i \in Nat /\ at'[t].i = at[t].i + 1
        /\ at'[t].event = at[t].event /\ pc'[t] = "length"
    BY DEF NotifyInv, NotifyTypeOK
  <1>2. NotifyTypeOK'
    <2>1. at' \in [Notifiers -> [event : Events \cup {"none"}, about : Details \cup {NoDetail},
                                 i : Nat]]
      BY CounterAdvances DEF NotifyInv, NotifyTypeOK
    <2>2. QED
      BY <1>1, <2>1 DEF NotifyInv, NotifyTypeOK
  <1>3. WalkOK'
    BY <1>1 DEF NotifyInv, WalkOK, Beyond, HandlerAt
  <1>4. HeardOK'
    <2> SUFFICES ASSUME ~SilentBuild, NEW u \in Notifiers, FailureUnderWay(u)'
                 PROVE  IF build.kernel /\ build.dtrace
                        THEN at'[u].i > 2 => "dtrace" \in ToSet(called[u])
                        ELSE at'[u].i < tem_length
      BY DEF HeardOK
    <2>1. FailureUnderWay(u)
      BY <1>1 DEF FailureUnderWay
    <2>2. IF build.kernel /\ build.dtrace
          THEN at[u].i > 2 => "dtrace" \in ToSet(called[u])
          ELSE at[u].i < tem_length
      BY <2>1 DEF NotifyInv, HeardOK
    <2>3. CASE u # t
      BY <2>2, <2>3
    <2>4. CASE u = t
      <3>1. at[t].i < tem_length
        BY <2>1, <2>4 DEF FailureUnderWay, NotifyInv, WalkOK
      <3>2. build.kernel /\ build.dtrace /\ at[t].i # 2
        BY <2>1, <2>4, <3>1, HandlerThatMatters
      <3>3. QED
        BY <1>1, <2>2, <2>4, <3>2
    <2>5. QED
      BY <2>3, <2>4
  <1>5. QED
    BY <1>2, <1>3, <1>4

\* i < event_handlers->tem_length
LEMMA TestLengthKeeps ==
  ASSUME NotifyInv, NEW t \in Notifiers, TestLength(t)
  PROVE  NotifyInv'
  <1>1. Run(t)
    BY DEF Run
  <1>2. PICK where \in {"mask", "idle"} :
          where = (IF at[t].i < tem_length THEN "mask" ELSE "idle")
    OBVIOUS
  <1>3. /\ pc' = [pc EXCEPT ![t] = where] /\ UNCHANGED <<at, called, panicked, fault>>
    BY <1>2 DEF TestLength, Goto
  <1>4. NotifyTypeOK' /\ WalkOK' /\ HeardOK'
    BY <1>1, <1>2, <1>3, GoOnKeeps
  <1>5. QED
    BY <1>1, <1>3, <1>4, WalkLeaves DEF NotifyInv, FaultNeedsShrinking

\* event_handlers->tem_mask & (1 << i)
LEMMA TestMaskKeeps ==
  ASSUME NotifyInv, NEW t \in Notifiers, TestMask(t)
  PROVE  NotifyInv'
  <1>1. Run(t) /\ pc[t] = "mask" /\ UNCHANGED <<called, panicked, fault>>
    BY DEF Run, TestMask, Goto
  <1>2. NotifyTypeOK' /\ WalkOK' /\ HeardOK'
    <2>1. CASE pc' = [pc EXCEPT ![t] = "null"] /\ at' = at
      BY <1>1, <2>1, GoOnKeeps
    <2>2. CASE at[t].i \notin tem_mask /\ pc' = [pc EXCEPT ![t] = "length"]
               /\ at' = [at EXCEPT ![t].i = @ + 1]
      BY <1>1, <2>2, SkipKeeps
    <2>3. QED
      BY <2>1, <2>2 DEF TestMask, Goto, Advance
  <1>3. QED
    BY <1>1, <1>2, WalkLeaves DEF NotifyInv, FaultNeedsShrinking

\* Past the end of the handlers only if they have become fewer.
LEMMA BeyondNeedsShrinking ==
  ASSUME NotifyInv, NEW t \in Notifiers, pc[t] \in {"null", "call"}, Beyond(t)
  PROVE  disturbed[t] = "shrunk"
  <1>1. at[t].i \in Nat /\ tem_length \in Nat
    BY Published DEF NotifyInv, NotifyTypeOK
  <1>2. QED
    BY <1>1 DEF NotifyInv, WalkOK, Beyond

\* event_handlers->tem_handlers[i]->x
LEMMA TestNullKeeps ==
  ASSUME NotifyInv, NEW t \in Notifiers, TestNull(t)
  PROVE  NotifyInv'
  <1>1. Run(t) /\ pc[t] = "null" /\ UNCHANGED <<called, panicked>>
    BY DEF Run, TestNull, Goto
  <1>2. NotifyTypeOK' /\ WalkOK' /\ HeardOK'
    <2>1. CASE pc' = [pc EXCEPT ![t] = "idle"] /\ at' = at
      BY <1>1, <2>1, GoOnKeeps
    <2>2. CASE at[t].event \in HandlerAt(t).fns /\ pc' = [pc EXCEPT ![t] = "call"] /\ at' = at
      BY <1>1, <2>2, GoOnKeeps
    <2>3. CASE at[t].event \notin HandlerAt(t).fns /\ pc' = [pc EXCEPT ![t] = "length"]
               /\ at' = [at EXCEPT ![t].i = @ + 1]
      BY <1>1, <2>3, SkipKeeps
    <2>4. QED
      BY <2>1, <2>2, <2>3 DEF TestNull, Goto, Advance
  <1>3. fault' # "null" /\ (fault' = "beyond" => disturbed[t] = "shrunk")
    BY <1>1, WalkLeaves, BeyondNeedsShrinking DEF TestNull
  <1>4. FaultNeedsShrinking'
    BY <1>1, <1>3, WalkLeaves DEF FaultNeedsShrinking
  <1>5. QED
    BY <1>1, <1>2, <1>4, WalkLeaves DEF NotifyInv

\* event_handlers->tem_handlers[i]->x(...): the function is there.
LEMMA CallHandlerKeeps ==
  ASSUME NotifyInv, NEW t \in Notifiers, CallHandler(t)
  PROVE  NotifyInv'
  <1>1. Run(t) /\ pc[t] = "call"
    BY DEF Run, CallHandler, Goto
  <1> USE <1>1, WalkLeaves
  <1>2. CASE /\ Beyond(t) /\ pc' = [pc EXCEPT ![t] = "idle"] /\ fault' = "beyond"
             /\ UNCHANGED <<at, called, panicked>>
    <2>1. NotifyTypeOK' /\ WalkOK' /\ HeardOK'
      BY <1>2, GoOnKeeps
    <2>2. FaultNeedsShrinking'
      BY <1>2, BeyondNeedsShrinking DEF FaultNeedsShrinking
    <2>3. QED
      BY <2>1, <2>2 DEF NotifyInv
  <1>3. CASE ~Beyond(t) /\ at[t].event \notin HandlerAt(t).fns
    BY <1>3 DEF NotifyInv, WalkOK
  <1>4. CASE /\ ~Beyond(t) /\ pc' = [pc EXCEPT ![t] = "length"]
             /\ at' = [at EXCEPT ![t].i = @ + 1] /\ Calls(t, HandlerAt(t))
    <2>1. /\ called' = [called EXCEPT ![t] = Append(@, HandlerAt(t).name)]
          /\ panicked' = (HandlerAt(t) = failstop_handlers)
          /\ fault' \in {"assert", "none"}
      BY <1>4 DEF Calls
    <2>2. /\ at[t].i \in Nat /\ at'[t].i = at[t].i + 1 /\ at[t].i < tem_length
          /\ at'[t].event = at[t].event /\ pc'[t] = "length" /\ tem_length \in Nat
      BY <1>4, Published DEF NotifyInv, NotifyTypeOK, Beyond
    <2>3. HandlerAt(t).name \in Names
      BY <2>2, HandlersAreRecords DEF HandlerAt, NotifyInv, Handlers
    <2>4. /\ called'[t] = Append(called[t], HandlerAt(t).name) /\ called[t] \in Seq(Names)
          /\ called' \in [Notifiers -> Seq(Names)]
      BY <2>1, <2>3 DEF NotifyInv, NotifyTypeOK
    <2>5. NotifyTypeOK'
      <3>1. at' \in [Notifiers -> [event : Events \cup {"none"}, about : Details \cup {NoDetail},
                                   i : Nat]]
        BY <1>4, CounterAdvances DEF NotifyInv, NotifyTypeOK
      <3>2. QED
        BY <1>4, <2>1, <2>2, <2>4, <3>1 DEF NotifyInv, NotifyTypeOK
    <2>6. WalkOK'
      BY <2>2 DEF NotifyInv, WalkOK, Beyond, HandlerAt
    <2>7. FaultNeedsShrinking'
      BY <2>1 DEF FaultNeedsShrinking
    <2>8. HeardOK'
      <3> SUFFICES ASSUME ~SilentBuild, NEW u \in Notifiers, FailureUnderWay(u)', ~panicked'
                   PROVE  IF build.kernel /\ build.dtrace
                          THEN at'[u].i > 2 => "dtrace" \in ToSet(called'[u])
                          ELSE at'[u].i < tem_length
        BY DEF HeardOK
      <3>1. FailureUnderWay(u)
        BY <2>2 DEF FailureUnderWay
      <3>2. IF build.kernel /\ build.dtrace
            THEN at[u].i > 2 => "dtrace" \in ToSet(called[u])
            ELSE at[u].i < tem_length
        BY <3>1 DEF NotifyInv, HeardOK
      <3>3. CASE u # t
        BY <3>2, <3>3
      <3>4. CASE u = t /\ build.kernel /\ build.dtrace
        <4>1. at[t].i = 2 => HandlerAt(t).name = "dtrace"
          BY <2>2, <3>1, <3>4, HandlerThatMatters
        <4>2. ToSet(called'[t]) = ToSet(called[t]) \cup {HandlerAt(t).name}
          BY <2>3, <2>4, AppendAdds
        <4>3. QED
          BY <2>2, <3>2, <3>4, <4>1, <4>2
      <3>5. CASE u = t /\ ~(build.kernel /\ build.dtrace)
        <4>1. HandlerAt(t) # failstop_handlers
          BY <2>1
        <4>2. at[t].i + 1 # tem_length
          BY <2>2, <3>1, <3>5, <4>1, HandlerThatMatters
        <4>3. QED
          BY <2>2, <3>5, <4>2
      <3>6. QED
        BY <3>3, <3>4, <3>5
    <2>9. QED
      BY <2>5, <2>6, <2>7, <2>8 DEF NotifyInv
  <1>5. QED
    BY <1>2, <1>3, <1>4 DEF CallHandler, Goto, Advance

-----------------------------------------------------------------------------
(* Installation *)

\* The checks at the beginning of an installation; nothing is published yet.
LEMMA InstallKeeps ==
  ASSUME NotifyInv,
         \/ \E h \in Vectors : tesla_set_event_handler(h)
         \/ \E m \in MetaVectors : tesla_set_event_handlers(m)
  PROVE  NotifyInv'
  <1>1. /\ fault = "none"
        /\ UNCHANGED <<build, mask, event_handlers, singleton, pc, at, called, disturbed,
                       panicked, fault>>
    BY DEF tesla_set_event_handler, tesla_set_event_handlers, Install, Alive
  <1>2. UNCHANGED <<tem_handlers, tem_length, DefaultMask, SilentBuild>> /\ PublishedOK'
    BY <1>1, HandlersStand DEF NotifyInv
  <1>3. InstallingOK'
    <2>1. ASSUME NEW h \in Vectors, tesla_set_event_handler(h) PROVE InstallingOK'
      <3>1. installing' = [pc |-> "singleton", what |-> h] /\ check_event_handler(h)
        BY <2>1 DEF tesla_set_event_handler, Install
      <3>2. QED
        BY <3>1 DEF InstallingOK, check_event_handler
    <2>2. ASSUME NEW m \in MetaVectors, tesla_set_event_handlers(m) PROVE InstallingOK'
      <3>1. installing' = [pc |-> "publish", what |-> m] /\ AllComplete(m)
        BY <2>2 DEF tesla_set_event_handlers, Install, AllComplete
      <3>2. QED
        BY <3>1 DEF InstallingOK, AllComplete, check_event_handler
    <2>3. QED
      BY <2>1, <2>2
  <1>4. NotifyTypeOK' /\ FaultNeedsShrinking'
    BY <1>1 DEF NotifyInv, NotifyTypeOK, FaultNeedsShrinking
  <1>5. WalkOK' /\ HeardOK'
    BY <1>1, <1>2 DEF NotifyInv, WalkOK, Beyond, HandlerAt, HeardOK, FailureUnderWay
  <1>6. QED
    BY <1>2, <1>3, <1>4, <1>5 DEF NotifyInv

\* What a write does to the notifications that are under way: those that were
\* alone are not any more, and those that have met fewer handlers stay so.
LEMMA DisturbMarks ==
  ASSUME NotifyTypeOK, NEW shrunk, Disturb(shrunk)
  PROVE  /\ disturbed' \in [Notifiers -> {"no", "changed", "shrunk"}]
         /\ \A t \in Notifiers : pc[t] # "idle" =>
              /\ disturbed'[t] # "no"
              /\ shrunk \/ disturbed[t] = "shrunk" => disturbed'[t] = "shrunk"
  BY DEF Disturb, NotifyTypeOK

\* A write leaves no notification alone, so nothing is said of it any more.
LEMMA HeardAfterDisturb ==
  ASSUME NotifyInv, NEW shrunk, Disturb(shrunk), UNCHANGED pc
  PROVE  HeardOK'
  <1>1. \A t \in Notifiers : ~FailureUnderWay(t)'
    BY DisturbMarks DEF NotifyInv, FailureUnderWay
  <1>2. QED
    BY <1>1 DEF HeardOK

\* What has been installed has every function: a call that is due has one.
LEMMA DueCallsStand ==
  ASSUME NotifyInv, NotifyTypeOK', PublishedOK', event_handlers'.kind # "default",
         UNCHANGED <<pc, at>>, NEW t \in Notifiers, pc[t] = "call", ~Beyond(t)'
  PROVE  at[t].event \in HandlerAt(t)'.fns
  <1>1. at[t].i \in Nat /\ at[t].event \in Events /\ tem_length' \in Nat
    BY PublishedNext DEF NotifyInv, NotifyTypeOK
  <1>2. at[t].i < tem_length'
    BY <1>1 DEF Beyond
  <1>3. Events \subseteq HandlerAt(t)'.fns
    BY <1>1, <1>2, PublishedNext DEF HandlerAt
  <1>4. QED
    BY <1>1, <1>3

\* singleton[0] = handler: the walk over it, if any, meets a complete one.
LEMMA WriteSingletonKeeps ==
  ASSUME NotifyInv, WriteSingleton
  PROVE  NotifyInv'
  <1>1. /\ fault = "none" /\ installing.pc = "singleton" /\ singleton' = installing.what
        /\ installing' = [installing EXCEPT !.pc = "publish_singleton"]
        /\ Disturb(FALSE)
        /\ UNCHANGED <<build, mask, event_handlers, pc, at, called, panicked, fault>>
    BY DEF WriteSingleton, Alive
  <1>2. singleton' \in Handlers /\ check_event_handler(singleton')
    BY <1>1, NotificationAssumption DEF NotifyInv, InstallingOK
  <1>3. NotifyTypeOK'
    BY <1>1, <1>2, DisturbMarks DEF NotifyInv, NotifyTypeOK
  <1>4. PublishedOK'
    BY <1>1, <1>2 DEF NotifyInv, PublishedOK, check_event_handler
  <1>5. InstallingOK'
    <2>1. installing' = [pc |-> "publish_singleton", what |-> installing.what]
      BY <1>1 DEF NotifyInv, InstallingOK
    <2>2. QED
      BY <1>2, <2>1 DEF InstallingOK, check_event_handler
  <1>6. HeardOK' /\ FaultNeedsShrinking'
    BY <1>1, HeardAfterDisturb DEF NotifyInv, FaultNeedsShrinking
  <1>7. tem_length' = tem_length
    BY <1>1 DEF tem_length, tem_handlers, default_handlers
  <1>8. WalkOK'
    <2> SUFFICES ASSUME NEW t \in Notifiers PROVE WalkOK!(t)'
      BY DEF WalkOK
    <2>1. pc[t] \in {"mask", "null", "call"} /\ disturbed'[t] # "shrunk" => at[t].i < tem_length
      BY <1>1, DisturbMarks DEF NotifyInv, WalkOK
    <2>2. ASSUME pc[t] = "call", ~Beyond(t)' PROVE at[t].event \in HandlerAt(t)'.fns
      <3>1. CASE event_handlers.kind # "default"
        BY <1>1, <1>3, <1>4, <2>2, <3>1, DueCallsStand
      <3>2. CASE event_handlers.kind = "default"
        <4>1. tem_handlers' = tem_handlers
          BY <1>1, <3>2 DEF tem_handlers, default_handlers
        <4>2. QED
          BY <1>1, <1>7, <2>2, <4>1 DEF NotifyInv, WalkOK, Beyond, HandlerAt
      <3>3. QED
        BY <3>1, <3>2
    <2>3. QED
      BY <1>1, <1>7, <2>1, <2>2
  <1>9. QED
    BY <1>3, <1>4, <1>5, <1>6, <1>8 DEF NotifyInv

\* event_handlers = ...: walks that are under way read other handlers from now on.
LEMMA PublishKeeps ==
  ASSUME NotifyInv, Publish
  PROVE  NotifyInv'
  <1>1. /\ fault = "none" /\ installing.pc \in {"publish", "publish_singleton"}
        /\ event_handlers' = IF installing.pc = "publish"
                             THEN [kind |-> "meta", meta |-> installing.what]
                             ELSE [kind |-> "singleton"]
        /\ installing' = [pc |-> "idle", what |-> NoHandler]
        /\ Disturb(tem_length' < tem_length)
        /\ UNCHANGED <<build, mask, singleton, pc, at, called, panicked, fault>>
    BY DEF Publish, Alive
  <1>2. NotifyTypeOK'
    BY <1>1, DisturbMarks DEF NotifyInv, NotifyTypeOK
  <1>3. PublishedOK' /\ event_handlers'.kind # "default"
    <2>1. CASE installing.pc = "publish"
      BY <1>1, <2>1 DEF NotifyInv, InstallingOK, PublishedOK, AllComplete, check_event_handler
    <2>2. CASE installing.pc = "publish_singleton"
      BY <1>1, <2>2 DEF NotifyInv, InstallingOK, PublishedOK, check_event_handler
    <2>3. QED
      BY <1>1, <2>1, <2>2
  <1>4. InstallingOK'
    BY <1>1 DEF InstallingOK
  <1>5. HeardOK' /\ FaultNeedsShrinking'
    BY <1>1, HeardAfterDisturb DEF NotifyInv, FaultNeedsShrinking
  <1>6. WalkOK'
    <2> SUFFICES ASSUME NEW t \in Notifiers PROVE WalkOK!(t)'
      BY DEF WalkOK
    <2>1. ASSUME pc[t] \in {"mask", "null", "call"}, disturbed'[t] # "shrunk"
          PROVE  at[t].i < tem_length'
      <3>1. ~(tem_length' < tem_length) /\ disturbed[t] # "shrunk"
        BY <1>1, <2>1, DisturbMarks DEF NotifyInv
      <3>2. tem_length \in Nat /\ tem_length' \in Nat /\ at[t].i \in Nat
        BY <1>2, <1>3, Published, PublishedNext DEF NotifyInv, NotifyTypeOK
      <3>3. at[t].i < tem_length
        BY <2>1, <3>1 DEF NotifyInv, WalkOK
      <3>4. QED
        BY <3>1, <3>2, <3>3
    <2>2. ASSUME pc[t] = "call", ~Beyond(t)' PROVE at[t].event \in HandlerAt(t)'.fns
      BY <1>1, <1>2, <1>3, <2>2, DueCallsStand
    <2>3. QED
      BY <1>1, <2>1, <2>2
  <1>7. QED
    BY <1>2, <1>3, <1>4, <1>5, <1>6 DEF NotifyInv

\* The mask changes under the walks.
LEMMA SysctlKeeps ==
  ASSUME NotifyInv, NEW m, Sysctl(m)
  PROVE  NotifyInv'
  <1>1. /\ fault = "none" /\ Disturb(FALSE)
        /\ UNCHANGED <<build, event_handlers, singleton, pc, at, called, installing,
                       panicked, fault>>
    BY DEF Sysctl, Alive
  <1>2. UNCHANGED <<tem_handlers, tem_length, DefaultMask, SilentBuild>> /\ PublishedOK'
    BY <1>1, HandlersStand DEF NotifyInv
  <1>3. NotifyTypeOK'
    BY <1>1, DisturbMarks DEF NotifyInv, NotifyTypeOK
  <1>4. InstallingOK' /\ FaultNeedsShrinking' /\ HeardOK'
    BY <1>1, HeardAfterDisturb DEF NotifyInv, InstallingOK, FaultNeedsShrinking
  <1>5. WalkOK'
    BY <1>1, <1>2, DisturbMarks DEF NotifyInv, WalkOK, Beyond, HandlerAt
  <1>6. QED
    BY <1>2, <1>3, <1>4, <1>5 DEF NotifyInv

-----------------------------------------------------------------------------
(* The theorems *)

\* The invariant holds at the start ...
LEMMA NotifyInitInv == Init => NotifyInv
  <1> SUFFICES ASSUME Init PROVE NotifyInv
    OBVIOUS
  <1>1. NotifyTypeOK
    <2>1. NoHandler \in Handlers
      BY HandlerIsOne DEF NoHandler, Names
    <2>2. at \in [Notifiers -> [event : Events \cup {"none"}, about : Details \cup {NoDetail},
                               i : Nat]]
      BY DEF Init
    <2>3. called \in [Notifiers -> Seq(Names)]
      BY DEF Init
    <2>4. \A t \in Notifiers : pc[t] = "idle"
      BY DEF Init
    <2>5. QED
      BY <2>1, <2>2, <2>3, <2>4 DEF Init, NotifyTypeOK
  <1>2. PublishedOK /\ InstallingOK
    BY DEF Init, PublishedOK, InstallingOK
  <1>3. WalkOK /\ HeardOK /\ FaultNeedsShrinking
    BY DEF Init, WalkOK, HeardOK, FailureUnderWay, FaultNeedsShrinking
  <1>4. QED
    BY <1>1, <1>2, <1>3 DEF NotifyInv

\* ... and every step keeps it.
LEMMA NotifyNextInv == NotifyInv /\ [Next]_vars => NotifyInv'
  <1> SUFFICES ASSUME NotifyInv, [Next]_vars PROVE NotifyInv'
    OBVIOUS
  <1>1. CASE UNCHANGED vars
    <2>1. UNCHANGED <<tem_handlers, tem_length, DefaultMask, SilentBuild>> /\ PublishedOK'
      BY <1>1, HandlersStand DEF vars, NotifyInv
    <2>2. NotifyTypeOK' /\ InstallingOK' /\ FaultNeedsShrinking'
      BY <1>1 DEF vars, NotifyInv, NotifyTypeOK, InstallingOK, FaultNeedsShrinking
    <2>3. WalkOK' /\ HeardOK'
      BY <1>1, <2>1 DEF vars, NotifyInv, WalkOK, Beyond, HandlerAt, HeardOK, FailureUnderWay
    <2>4. QED
      BY <2>1, <2>2, <2>3 DEF NotifyInv
  <1>2. CASE \E t \in Notifiers, e \in Reported, d \in Details \cup {NoDetail} : Notify(t, e, d)
    BY <1>2, NotifyKeeps
  <1>3. CASE \E t \in Notifiers : Run(t)
    BY <1>3, TestLengthKeeps, TestMaskKeeps, TestNullKeeps, CallHandlerKeeps DEF Run
  <1>4. CASE \/ \E h \in Vectors : tesla_set_event_handler(h)
             \/ \E m \in MetaVectors : tesla_set_event_handlers(m)
    BY <1>4, InstallKeeps
  <1>5. CASE WriteSingleton \/ Publish
    BY <1>5, WriteSingletonKeeps, PublishKeeps
  <1>6. CASE \E m \in {{0, 1}, {2, 3}} : Sysctl(m)
    BY <1>6, SysctlKeeps
  <1>7. QED
    BY <1>1, <1>2, <1>3, <1>4, <1>5, <1>6 DEF Next, Stopped

LEMMA NotifyInvHolds == Spec => []NotifyInv
  BY NotifyInitInv, NotifyNextInv, PTL DEF Spec

\* However many threads report events while handlers are installed, and
\* whatever the application installs, no NULL function is called; and the end
\* of the handlers is only read past by a walk during which they became fewer.
THEOREM NoNullHandler == Spec => []FaultNeedsShrinking
  <1>1. NotifyInv => FaultNeedsShrinking
    BY DEF NotifyInv
  <1>2. QED
    BY <1>1, NotifyInvHolds, PTL

\* "printf first [...], then either use DTrace or fail-stop if DTrace is not
\* available": in every build but the silent one the default handlers tell
\* DTrace of a failure or stop the program.
THEOREM FailuresAreHeard == Spec => []FailuresAreHeardUnlessSilent
  <1>1. NotifyInv => FailuresAreHeardUnlessSilent
    <2> SUFFICES ASSUME NotifyInv, ~SilentBuild, NEW t \in Notifiers, DefaultsIn(t), ~panicked
                 PROVE  "dtrace" \in ToSet(called[t])
      BY DEF FailuresAreHeardUnlessSilent
    <2>1. FailureUnderWay(t) /\ at[t].i >= tem_length
      BY DEF DefaultsIn, Ending, FailureUnderWay
    <2>2. at[t].i \in Nat /\ tem_length \in Nat
      BY Published DEF NotifyInv, NotifyTypeOK
    <2>3. build.kernel /\ build.dtrace /\ (at[t].i > 2 => "dtrace" \in ToSet(called[t]))
      BY <2>1, <2>2 DEF NotifyInv, HeardOK
    <2>4. tem_length = 4
      BY <2>1, <2>3, Defaults DEF FailureUnderWay, tem_length, tem_handlers, SilentBuild
    <2>5. QED
      BY <2>1, <2>2, <2>3, <2>4
  <1>2. QED
    BY <1>1, NotifyInvHolds, PTL

-----------------------------------------------------------------------------
(* Delivery *)

\* While a notification is alone, it has called exactly the enabled handlers
\* up to the one it is at, in their order.
Behind(t) == {k \in Enabled(at[t].event) : k <= at[t].i}

DeliveredOK ==
  \A t \in Notifiers : pc[t] # "idle" /\ disturbed[t] = "no" =>
    /\ at[t].i <= tem_length
    /\ pc[t] \in {"null", "call"} => at[t].i \in tem_mask
    /\ CalledInOrder(called[t], Behind(t))

\* One more handler is called.
LEMMA OrderGrows ==
  ASSUME NEW names \in Seq(Names), NEW P, P \subseteq Nat, NEW x \in Nat, \A k \in P : k < x,
         CalledInOrder(names, P)
  PROVE  CalledInOrder(Append(names, tem_handlers[x].name), P \cup {x})
  <1> DEFINE more == Append(names, tem_handlers[x].name)
             l == Len(names)
  <1>1. PICK f \in [1 .. l -> P] :
          /\ \A m, n \in 1 .. l : m < n => f[m] < f[n]
          /\ \A k \in P : \E n \in 1 .. l : f[n] = k
          /\ \A n \in 1 .. l : names[n] = tem_handlers[f[n]].name
    BY DEF CalledInOrder
  <1>2. /\ l \in Nat /\ Len(more) = l + 1 /\ more[l + 1] = tem_handlers[x].name
        /\ \A n \in 1 .. l : more[n] = names[n]
    <2>1. l \in Nat /\ names \in [1 .. l -> Names]
      OBVIOUS
    <2>2. Len(more) = l + 1 /\ more = [n \in 1 .. l + 1 |-> IF n = l + 1 THEN tem_handlers[x].name
                                                           ELSE names[n]]
      BY <2>1
    <2>3. QED
      BY <2>1, <2>2
  <1> DEFINE g == [n \in 1 .. l + 1 |-> IF n = l + 1 THEN x ELSE f[n]]
  <1> HIDE DEF more, l
  <1>3. g \in [1 .. l + 1 -> P \cup {x}]
    BY <1>1, <1>2
  <1>4. \A m, n \in 1 .. l + 1 : m < n => g[m] < g[n]
    <2> SUFFICES ASSUME NEW m \in 1 .. l + 1, NEW n \in 1 .. l + 1, m < n PROVE g[m] < g[n]
      OBVIOUS
    <2>1. m \in 1 .. l /\ g[m] = f[m] /\ f[m] \in P
      BY <1>1, <1>2
    <2>2. CASE n = l + 1
      BY <1>2, <2>1, <2>2
    <2>3. CASE n # l + 1
      <3>1. n \in 1 .. l /\ g[n] = f[n]
        BY <1>2, <2>3
      <3>2. QED
        BY <1>1, <2>1, <3>1
    <2>4. QED
      BY <2>2, <2>3
  <1>5. \A k \in P \cup {x} : \E n \in 1 .. l + 1 : g[n] = k
    <2>1. l + 1 \in 1 .. l + 1 /\ g[l + 1] = x
      BY <1>2
    <2>2. ASSUME NEW k \in P PROVE \E n \in 1 .. l + 1 : g[n] = k
      <3>1. PICK n \in 1 .. l : f[n] = k
        BY <1>1
      <3>2. n \in 1 .. l + 1 /\ g[n] = f[n]
        BY <1>2
      <3>3. QED
        BY <3>1, <3>2
    <2>3. QED
      BY <2>1, <2>2
  <1>6. \A n \in 1 .. l + 1 : more[n] = tem_handlers[g[n]].name
    BY <1>1, <1>2
  <1> HIDE DEF g
  <1>7. \E h \in [1 .. Len(more) -> P \cup {x}] :
          /\ \A m, n \in 1 .. Len(more) : m < n => h[m] < h[n]
          /\ \A k \in P \cup {x} : \E n \in 1 .. Len(more) : h[n] = k
          /\ \A n \in 1 .. Len(more) : more[n] = tem_handlers[h[n]].name
    <2>1. Len(more) = l + 1
      BY <1>2
    <2>2. g \in [1 .. Len(more) -> P \cup {x}]
      BY <1>3, <2>1
    <2> WITNESS g \in [1 .. Len(more) -> P \cup {x}]
    <2>3. QED
      BY <1>4, <1>5, <1>6, <2>1
  <1>8. QED
    BY <1>7 DEF CalledInOrder, more

\* Nothing has been called yet.
LEMMA OrderBegins == CalledInOrder(<<>>, {})
  <1>1. Len(<<>>) = 0 /\ 1 .. 0 = {}
    OBVIOUS
  <1>2. [n \in {} |-> n] \in [{} -> {}]
    OBVIOUS
  <1>3. QED
    BY <1>1, <1>2 DEF CalledInOrder

\* What is behind a notification stays behind it while nothing is written.
LEMMA DeliveredStands ==
  ASSUME NEW t \in Notifiers, UNCHANGED <<tem_handlers, tem_length, tem_mask>>,
         at'[t] = at[t]
  PROVE  Behind(t)' = Behind(t) /\ \A n, p : CalledInOrder(n, p)' = CalledInOrder(n, p)
  BY DEF Behind, Enabled, CalledInOrder

\* A step that leaves the handler it is at out, or calls it.
LEMMA BehindGrows ==
  ASSUME NotifyInv, NEW t \in Notifiers, UNCHANGED <<tem_handlers, tem_length, tem_mask>>,
         at'[t].event = at[t].event, at'[t].i = at[t].i + 1, at[t].i < tem_length
  PROVE  /\ at[t].i \notin tem_mask \/ at[t].event \notin HandlerAt(t).fns =>
              Behind(t)' = Behind(t)
         /\ at[t].i \in tem_mask /\ at[t].event \in HandlerAt(t).fns =>
              Behind(t)' = Behind(t) \cup {at[t].i + 1}
         /\ Behind(t) \subseteq Nat /\ \A k \in Behind(t) : k < at[t].i + 1
  <1>1. at[t].i \in Nat /\ tem_length \in Nat
    BY Published DEF NotifyInv, NotifyTypeOK
  <1>2. Enabled(at[t].event)' = Enabled(at[t].event)
    BY DEF Enabled
  <1>3. at[t].i + 1 \in Enabled(at[t].event) <=>
          at[t].i \in tem_mask /\ at[t].event \in HandlerAt(t).fns
    BY <1>1 DEF Enabled, HandlerAt
  <1>4. \A k \in Enabled(at[t].event) : 
           k \in Nat /\ (k <= at[t].i + 1 <=> k <= at[t].i \/ k = at[t].i + 1)
    BY <1>1 DEF Enabled
  <1>5. QED
    BY <1>1, <1>2, <1>3, <1>4 DEF Behind

\* The steps of a walk that is alone call what they are to call.
LEMMA DeliveredWalk ==
  ASSUME NotifyInv, DeliveredOK, NEW t \in Notifiers, Run(t)
  PROVE  DeliveredOK'
  <1> USE WalkLeaves
  <1>1. UNCHANGED tem_mask
    BY DEF tem_mask
  <1> SUFFICES ASSUME NEW u \in Notifiers, pc'[u] # "idle", disturbed[u] = "no"
               PROVE  /\ at'[u].i <= tem_length
                      /\ pc'[u] \in {"null", "call"} => at'[u].i \in tem_mask
                      /\ CalledInOrder(called'[u], Behind(u)')
    BY <1>1 DEF DeliveredOK, CalledInOrder
  <1>2. CASE u # t
    BY <1>1, <1>2, DeliveredStands DEF DeliveredOK
  <1>3. CASE u = t
    <2>1. /\ at[t].i <= tem_length /\ at[t].i \in Nat /\ tem_length \in Nat
          /\ pc[t] \in {"null", "call"} => at[t].i \in tem_mask
          /\ CalledInOrder(called[t], Behind(t))
          /\ pc[t] \in {"mask", "null", "call"} => at[t].i < tem_length
      BY <1>3, Published DEF DeliveredOK, NotifyInv, NotifyTypeOK, WalkOK
    <2>2. ~Beyond(t) \/ pc[t] = "length"
      BY <2>1 DEF Beyond, NotifyInv, NotifyTypeOK
    <2>3. ASSUME at'[t] = at[t], called'[t] = called[t],
                 pc'[t] \in {"null", "call"} => at[t].i \in tem_mask
          PROVE  /\ at'[t].i <= tem_length
                 /\ pc'[t] \in {"null", "call"} => at'[t].i \in tem_mask
                 /\ CalledInOrder(called'[t], Behind(t)')
      BY <1>1, <2>1, <2>3, DeliveredStands
    <2>4. CASE TestLength(t)
      BY <1>3, <2>3, <2>4 DEF TestLength, Goto, NotifyInv, NotifyTypeOK
    <2>5. CASE TestMask(t) /\ at[t].i \in tem_mask
      <3>1. at' = at /\ called' = called
        BY <2>5 DEF TestMask
      <3>2. QED
        BY <1>3, <2>3, <2>5, <3>1
    <2>6. CASE TestNull(t) /\ at[t].event \in HandlerAt(t).fns
      <3>1. at' = at /\ called' = called /\ at[t].i \in tem_mask
        BY <2>1, <2>2, <2>6 DEF TestNull, Goto
      <3>2. QED
        BY <1>3, <2>3, <3>1
    <2>7. CASE \/ TestMask(t) /\ at[t].i \notin tem_mask
               \/ TestNull(t) /\ at[t].event \notin HandlerAt(t).fns
      <3>1. /\ at' = [at EXCEPT ![t].i = @ + 1] /\ called' = called
            /\ pc[t] \in {"mask", "null"} /\ pc' = [pc EXCEPT ![t] = "length"]
        BY <2>2, <2>7 DEF TestMask, TestNull, Goto, Advance
      <3>2. at'[t].i = at[t].i + 1 /\ at'[t].event = at[t].event /\ pc'[t] = "length"
        BY <3>1 DEF NotifyInv, NotifyTypeOK
      <3>3. Behind(t)' = Behind(t)
        BY <1>1, <2>1, <2>7, <3>1, <3>2, BehindGrows
      <3>4. QED
        BY <1>3, <2>1, <3>1, <3>2, <3>3
    <2>8. CASE CallHandler(t)
      <3>1. /\ at[t].event \in HandlerAt(t).fns /\ pc[t] = "call"
            /\ at' = [at EXCEPT ![t].i = @ + 1]
            /\ called' = [called EXCEPT ![t] = Append(@, HandlerAt(t).name)]
            /\ pc' = [pc EXCEPT ![t] = "length"]
        BY <2>2, <2>8 DEF CallHandler, Goto, Advance, Calls, NotifyInv, WalkOK
      <3>2. /\ at'[t].i = at[t].i + 1 /\ at'[t].event = at[t].event /\ pc'[t] = "length"
            /\ called'[t] = Append(called[t], HandlerAt(t).name) /\ called[t] \in Seq(Names)
        BY <3>1 DEF NotifyInv, NotifyTypeOK
      <3>3. /\ Behind(t)' = Behind(t) \cup {at[t].i + 1}
            /\ Behind(t) \subseteq Nat /\ \A k \in Behind(t) : k < at[t].i + 1
        BY <1>1, <2>1, <3>1, <3>2, BehindGrows
      <3>4. at[t].i + 1 \in Nat
        BY <2>1
      <3>5. PICK x \in Nat : x = at[t].i + 1
        BY <3>4
      <3>6. CalledInOrder(Append(called[t], tem_handlers[x].name), Behind(t) \cup {x})
        BY <2>1, <3>2, <3>3, <3>5, OrderGrows
      <3>7. called'[t] = Append(called[t], tem_handlers[x].name) /\ Behind(t)' = Behind(t) \cup {x}
        BY <3>2, <3>3, <3>5 DEF HandlerAt
      <3>8. CalledInOrder(called'[t], Behind(t)')
        BY <3>6, <3>7
      <3>9. at'[t].i <= tem_length /\ pc'[t] = "length"
        BY <2>1, <3>1, <3>2
      <3>10. QED
        BY <1>3, <3>8, <3>9
    <2>9. QED
      BY <1>3, <2>4, <2>5, <2>6, <2>7, <2>8 DEF Run
  <1>4. QED
    BY <1>2, <1>3

\* A write reaches only notifications that are not alone any more.
LEMMA DeliveredWrite ==
  ASSUME NotifyInv, NEW shrunk, Disturb(shrunk), UNCHANGED pc
  PROVE  DeliveredOK'
  BY DisturbMarks DEF NotifyInv, DeliveredOK

\* Every step keeps what has been delivered.
LEMMA DeliveredNext == NotifyInv /\ DeliveredOK /\ [Next]_vars => DeliveredOK'
  <1> SUFFICES ASSUME NotifyInv, DeliveredOK, [Next]_vars PROVE DeliveredOK'
    OBVIOUS
  <1>1. ASSUME UNCHANGED <<build, mask, event_handlers, singleton, pc, at, called, disturbed>>
        PROVE  DeliveredOK'
    <2>1. UNCHANGED <<tem_handlers, tem_length, tem_mask>>
      BY <1>1, HandlersStand DEF tem_mask
    <2>2. QED
      BY <1>1, <2>1, DeliveredStands DEF DeliveredOK
  <1>2. ASSUME NEW t \in Notifiers, NEW e \in Reported, NEW d, Notify(t, e, d)
        PROVE  DeliveredOK'
    <2>1. /\ pc' = [pc EXCEPT ![t] = "length"]
          /\ at' = [at EXCEPT ![t] = [event |-> e, about |-> d, i |-> 0]]
          /\ called' = [called EXCEPT ![t] = <<>>]
          /\ disturbed' = [disturbed EXCEPT ![t] = "no"]
          /\ UNCHANGED <<build, mask, event_handlers, singleton>>
      BY <1>2 DEF Notify
    <2>2. UNCHANGED <<tem_handlers, tem_length, tem_mask>> /\ tem_length \in Nat
      BY <2>1, HandlersStand, Published DEF tem_mask, NotifyInv
    <2>3. \A u \in Notifiers : u # t => /\ pc'[u] = pc[u] /\ at'[u] = at[u]
                                        /\ called'[u] = called[u] /\ disturbed'[u] = disturbed[u]
      BY <2>1 DEF NotifyInv, NotifyTypeOK
    <2>4. pc'[t] = "length" /\ at'[t].i = 0 /\ called'[t] = <<>>
      BY <2>1 DEF NotifyInv, NotifyTypeOK
    <2>5. Behind(t)' = {}
      BY <2>2, <2>4 DEF Behind, Enabled
    <2>6. CalledInOrder(called[t], Behind(t))'
      <3>1. CalledInOrder(called'[t], Behind(t)')
        BY <2>4, <2>5, OrderBegins
      <3>2. QED
        BY <2>2, <3>1 DEF CalledInOrder
    <2>7. QED
      BY <2>2, <2>3, <2>4, <2>6, DeliveredStands DEF DeliveredOK
  <1>3. ASSUME NEW t \in Notifiers, Run(t) PROVE DeliveredOK'
    BY <1>3, DeliveredWalk
  <1>4. CASE \/ \E h \in Vectors : tesla_set_event_handler(h)
             \/ \E m \in MetaVectors : tesla_set_event_handlers(m)
    BY <1>1, <1>4 DEF tesla_set_event_handler, tesla_set_event_handlers, Install
  <1>5. CASE WriteSingleton \/ Publish \/ \E m \in {{0, 1}, {2, 3}} : Sysctl(m)
    BY <1>5, DeliveredWrite DEF WriteSingleton, Publish, Sysctl
  <1>6. CASE UNCHANGED vars
    BY <1>1, <1>6 DEF vars
  <1>7. QED
    BY <1>2, <1>3, <1>4, <1>5, <1>6 DEF Next, Stopped

\* "if bit 0 is set, tem_handler[0] is called, etc.": a notification that no
\* installation disturbs calls every enabled handler that has a function for
\* the event, once and in order, however many handlers there are.
THEOREM EveryHandlerIsCalled == Spec => []DeliveredToAll
  <1>1. Init => DeliveredOK
    BY DEF Init, DeliveredOK
  <1>2. NotifyInv /\ DeliveredOK => DeliveredToAll
    <2> SUFFICES ASSUME NotifyInv, DeliveredOK, NEW t \in Notifiers, Ending(t), disturbed[t] = "no"
                 PROVE  CalledInOrder(called[t], Enabled(at[t].event))
      BY DEF DeliveredToAll
    <2>1. at[t].i >= tem_length /\ at[t].i \in Nat /\ tem_length \in Nat
      BY Published DEF Ending, NotifyInv, NotifyTypeOK
    <2>2. Behind(t) = Enabled(at[t].event)
      BY <2>1 DEF Behind, Enabled
    <2>3. QED
      BY <2>2 DEF DeliveredOK, Ending
  <1>3. QED
    BY <1>1, <1>2, DeliveredNext, NotifyInvHolds, PTL DEF Spec

-----------------------------------------------------------------------------
(* Texts *)

\* SAFE_SPRINTF, Total, sprint_transitions and TransitionsPieces are folds.
SprintBody(c, b, n) == SAFE_SPRINTF(b, n)
TotalBody(c, n, k) == n + k
TransitionBody(c, b, t) == sprint_transition(b, t)
PiecesBody(c, p, t) == AddTransition(p, t)
SprintFold == INSTANCE FoldProofs WITH Body <- SprintBody
TotalFold == INSTANCE FoldProofs WITH Body <- TotalBody
TransitionFold == INSTANCE FoldProofs WITH Body <- TransitionBody
PiecesFold == INSTANCE FoldProofs WITH Body <- PiecesBody

\* What a loop over pieces of text does, piece by piece.
LEMMA SprintAllSteps ==
  /\ \A b : SprintAll(b, <<>>) = b
  /\ \A b : \A p \in Seq(Nat), n \in Nat :
        SprintAll(b, Append(p, n)) = SAFE_SPRINTF(SprintAll(b, p), n)
  <1>1. ASSUME NEW b, NEW p PROVE SprintAll(b, p) = SprintFold!Fold(0, b, p)
    BY DEF SprintAll, SprintFold!Fold, FoldLeft, MapThenFoldSet, Max, SprintBody,
           SprintFold!FoldLeft, SprintFold!MapThenFoldSet, SprintFold!Max
  <1>2. ASSUME NEW b PROVE SprintAll(b, <<>>) = b
    BY <1>1, SprintFold!FoldNone
  <1>3. ASSUME NEW b, NEW p \in Seq(Nat), NEW n \in Nat
        PROVE  SprintAll(b, Append(p, n)) = SAFE_SPRINTF(SprintAll(b, p), n)
    <2>1. SprintFold!Fold(0, b, Append(p, n)) = SprintBody(0, SprintFold!Fold(0, b, p), n)
      BY SprintFold!FoldOne
    <2>2. QED
      BY <1>1, <2>1 DEF SprintBody
  <1>4. QED
    BY <1>2, <1>3

\* The length of a text, piece by piece.
LEMMA TotalSteps ==
  /\ Total(<<>>) = 0
  /\ \A p \in Seq(Nat), n \in Nat : Total(Append(p, n)) = Total(p) + n
  <1>1. ASSUME NEW p PROVE Total(p) = TotalFold!Fold(0, 0, p)
    BY DEF Total, TotalFold!Fold, FoldLeft, MapThenFoldSet, Max, TotalBody,
           TotalFold!FoldLeft, TotalFold!MapThenFoldSet, TotalFold!Max
  <1>2. Total(<<>>) = 0
    BY <1>1, TotalFold!FoldNone
  <1>3. ASSUME NEW p \in Seq(Nat), NEW n \in Nat PROVE Total(Append(p, n)) = Total(p) + n
    <2>1. TotalFold!Fold(0, 0, Append(p, n)) = TotalBody(0, TotalFold!Fold(0, 0, p), n)
      BY TotalFold!FoldOne
    <2>2. QED
      BY <1>1, <2>1 DEF TotalBody
  <1>4. QED
    BY <1>2, <1>3

\* The loop of sprint_transitions, and the pieces it prints.
PrintEach(b, ts) == FoldLeft(sprint_transition, b, ts)
PiecesOfEach(ts) == FoldLeft(AddTransition, <<2>>, ts)

\* Both loops over transitions, transition by transition.
LEMMA TransitionSteps ==
  /\ \A b : PrintEach(b, <<>>) = b
  /\ \A b : \A ts \in Seq(Transitions), t \in Transitions :
        PrintEach(b, Append(ts, t)) = sprint_transition(PrintEach(b, ts), t)
  /\ PiecesOfEach(<<>>) = <<2>>
  /\ \A ts \in Seq(Transitions), t \in Transitions :
        PiecesOfEach(Append(ts, t)) = PiecesOfEach(ts) \o TransitionPieces(t)
  <1>1. ASSUME NEW b, NEW ts PROVE PrintEach(b, ts) = TransitionFold!Fold(0, b, ts)
    BY DEF PrintEach, TransitionFold!Fold, FoldLeft, MapThenFoldSet, Max, TransitionBody,
           TransitionFold!FoldLeft, TransitionFold!MapThenFoldSet, TransitionFold!Max
  <1>2. ASSUME NEW ts PROVE PiecesOfEach(ts) = PiecesFold!Fold(0, <<2>>, ts)
    BY DEF PiecesOfEach, PiecesFold!Fold, FoldLeft, MapThenFoldSet, Max, PiecesBody,
           PiecesFold!FoldLeft, PiecesFold!MapThenFoldSet, PiecesFold!Max
  <1>3. PiecesOfEach(<<>>) = <<2>> /\ \A b : PrintEach(b, <<>>) = b
    BY <1>1, <1>2, TransitionFold!FoldNone, PiecesFold!FoldNone
  <1>4. ASSUME NEW b, NEW ts \in Seq(Transitions), NEW t \in Transitions
        PROVE  PrintEach(b, Append(ts, t)) = sprint_transition(PrintEach(b, ts), t)
    <2>1. TransitionFold!Fold(0, b, Append(ts, t))
            = TransitionBody(0, TransitionFold!Fold(0, b, ts), t)
      BY TransitionFold!FoldOne
    <2>2. QED
      BY <1>1, <2>1 DEF TransitionBody
  <1>5. ASSUME NEW ts \in Seq(Transitions), NEW t \in Transitions
        PROVE  PiecesOfEach(Append(ts, t)) = PiecesOfEach(ts) \o TransitionPieces(t)
    <2>1. PiecesFold!Fold(0, <<2>>, Append(ts, t))
            = PiecesBody(0, PiecesFold!Fold(0, <<2>>, ts), t)
      BY PiecesFold!FoldOne
    <2>2. QED
      BY <1>2, <2>1 DEF PiecesBody, AddTransition
  <1>6. QED
    BY <1>3, <1>4, <1>5

\* Printing one sequence of pieces after another prints them all.
LEMMA SprintConcat ==
  ASSUME NEW b, NEW p \in Seq(Nat), NEW q \in Seq(Nat)
  PROVE  SprintAll(b, p \o q) = SprintAll(SprintAll(b, p), q)
  <1> DEFINE S == {r \in Seq(Nat) : SprintAll(b, p \o r) = SprintAll(SprintAll(b, p), r)}
  <1>1. <<>> \in S
    <2>1. p \o <<>> = p /\ <<>> \in Seq(Nat)
      OBVIOUS
    <2>2. QED
      BY <2>1, SprintAllSteps
  <1>2. ASSUME NEW r \in Seq(Nat), NEW n \in Nat, r \in S PROVE Append(r, n) \in S
    <2>1. p \o Append(r, n) = Append(p \o r, n) /\ Append(r, n) \in Seq(Nat)
      OBVIOUS
    <2>2. p \o r \in Seq(Nat)
      OBVIOUS
    <2>3. PICK s \in Seq(Nat) : s = p \o r
      BY <2>2
    <2>4. SprintAll(b, Append(s, n)) = SAFE_SPRINTF(SprintAll(b, s), n)
      BY SprintAllSteps
    <2>5. SprintAll(SprintAll(b, p), Append(r, n)) = SAFE_SPRINTF(SprintAll(SprintAll(b, p), r), n)
      BY SprintAllSteps
    <2>6. QED
      BY <1>2, <2>1, <2>3, <2>5, <2>4
  <1>3. Seq(Nat) \subseteq S
    <2> HIDE DEF S
    <2>1. QED
      BY <1>1, <1>2, SprintFold!SeqInduction
  <1>4. QED
    BY <1>3

\* A piece alone.
LEMMA SprintOne ==
  ASSUME NEW b, NEW n \in Nat PROVE SprintAll(b, <<n>>) = SAFE_SPRINTF(b, n)
  <1>1. <<>> \in Seq(Nat)
    OBVIOUS
  <1>2. PICK e \in Seq(Nat) : e = <<>>
    BY <1>1
  <1>3. SprintAll(b, Append(e, n)) = SAFE_SPRINTF(SprintAll(b, e), n)
    BY SprintAllSteps
  <1>4. <<n>> = Append(e, n)
    BY <1>2
  <1>5. SprintAll(b, e) = b
    BY <1>2, SprintAllSteps
  <1>6. QED
    BY <1>3, <1>4, <1>5

\* No piece is empty.
Pieces == Nat \ {0}

\* The pieces of a transition.
LEMMA TransitionPiecesType ==
  ASSUME NEW t \in Transitions PROVE TransitionPieces(t) \in Seq(Pieces)
  <1>1. /\ 2 + t.from \in Pieces /\ 2 + t.from_mask \in Pieces
        /\ 5 + t.to \in Pieces /\ 2 + t.to_mask \in Pieces
    BY DEF Transitions, Pieces
  <1>2. /\ (IF t.init THEN <<7>> ELSE <<>>) \in Seq(Pieces)
        /\ (IF t.clean THEN <<8>> ELSE <<>>) \in Seq(Pieces) /\ <<2>> \in Seq(Pieces)
    <2>1. 7 \in Pieces /\ 8 \in Pieces /\ 2 \in Pieces
      BY DEF Pieces
    <2>2. QED
      BY <2>1
  <1>3. <<2 + t.from, 2 + t.from_mask, 5 + t.to, 2 + t.to_mask>> \in Seq(Pieces)
    BY <1>1
  <1>4. QED
    BY <1>2, <1>3 DEF TransitionPieces

\* Pieces are lengths.
LEMMA PiecesAreNats == Seq(Pieces) \subseteq Seq(Nat) /\ Pieces \subseteq Nat
  BY DEF Pieces

\* The loop of sprint_transitions prints the pieces of all the transitions.
LEMMA TransitionsAreTheirPieces ==
  ASSUME NEW b, NEW ts \in Seq(Transitions)
  PROVE  /\ TransitionsPieces(ts) \in Seq(Pieces)
         /\ sprint_transitions(b, ts) = SprintAll(b, TransitionsPieces(ts))
  <1> DEFINE b2 == SAFE_SPRINTF(b, 2)
             S == {us \in Seq(Transitions) :
                     /\ PiecesOfEach(us) \in Seq(Pieces)
                     /\ PrintEach(b2, us) = SprintAll(b, PiecesOfEach(us))}
  <1>1. <<>> \in S
    <2>1. <<>> \in Seq(Transitions) /\ <<2>> \in Seq(Pieces)
      BY DEF Pieces
    <2>2. QED
      BY <2>1, TransitionSteps, SprintOne
  <1>2. ASSUME NEW us \in Seq(Transitions), NEW t \in Transitions, us \in S
        PROVE  Append(us, t) \in S
    <2>1. TransitionPieces(t) \in Seq(Pieces) /\ TransitionPieces(t) \in Seq(Nat)
      BY TransitionPiecesType, PiecesAreNats
    <2>2. PiecesOfEach(us) \in Seq(Pieces) /\ PiecesOfEach(us) \in Seq(Nat)
      BY <1>2, PiecesAreNats
    <2>3. PiecesOfEach(Append(us, t)) \in Seq(Pieces)
      <3>1. PiecesOfEach(us) \o TransitionPieces(t) \in Seq(Pieces)
        BY <2>1, <2>2
      <3>2. QED
        BY <3>1, TransitionSteps
    <2>4. PrintEach(b2, Append(us, t)) = SprintAll(SprintAll(b, PiecesOfEach(us)), TransitionPieces(t))
      BY <1>2, TransitionSteps DEF sprint_transition
    <2>5. @ = SprintAll(b, PiecesOfEach(us) \o TransitionPieces(t))
      BY <2>1, <2>2, SprintConcat
    <2>6. Append(us, t) \in Seq(Transitions)
      OBVIOUS
    <2> HIDE DEF b2
    <2>7. QED
      BY <2>3, <2>4, <2>5, <2>6, TransitionSteps
  <1>3. Seq(Transitions) \subseteq S
    <2> HIDE DEF S
    <2>1. QED
      BY <1>1, <1>2, SprintFold!SeqInduction
  <1>4. PiecesOfEach(ts) \in Seq(Pieces) /\ PrintEach(b2, ts) = SprintAll(b, PiecesOfEach(ts))
    BY <1>3
  <1>5. TransitionsPieces(ts) = PiecesOfEach(ts) \o <<1>>
    BY DEF TransitionsPieces, PiecesOfEach
  <1>6. <<1>> \in Seq(Pieces)
    BY DEF Pieces
  <1>7. sprint_transitions(b, ts) = SAFE_SPRINTF(PrintEach(b2, ts), 1)
    BY DEF sprint_transitions, PrintEach
  <1>8. @ = SprintAll(SprintAll(b, PiecesOfEach(ts)), <<1>>)
    BY <1>4, SprintOne
  <1>9. @ = SprintAll(b, PiecesOfEach(ts) \o <<1>>)
    BY <1>4, <1>6, PiecesAreNats, SprintConcat
  <1>10. QED
    BY <1>4, <1>5, <1>6, <1>7, <1>8, <1>9

\* A sequence and the one with an element more.
LEMMA OneMore ==
  ASSUME NEW T, NEW p \in Seq(T), NEW x \in T
  PROVE  /\ Append(p, x) \in Seq(T) /\ Len(p) \in Nat /\ Len(Append(p, x)) = Len(p) + 1
         /\ Append(p, x) # <<>>
         /\ Append(p, x)[1] = IF p = <<>> THEN x ELSE p[1]
         /\ Len(p) = 0 => p = <<>>
  <1>1. Append(p, x) \in Seq(T) /\ Len(p) \in Nat /\ Len(Append(p, x)) = Len(p) + 1
    OBVIOUS
  <1>2. Len(<<>>) = 0 /\ (Len(p) = 0 => p = <<>>)
    BY EmptySeq
  <1>3. Append(p, x)[Len(p) + 1] = x /\ \A k \in 1 .. Len(p) : Append(p, x)[k] = p[k]
    BY AppendProperties
  <1>4. Append(p, x) # <<>>
    BY <1>1, <1>2
  <1>5. p # <<>> => 1 \in 1 .. Len(p)
    BY <1>1, <1>2
  <1>6. Append(p, x)[1] = IF p = <<>> THEN x ELSE p[1]
    <2>1. CASE p = <<>>
      BY <1>2, <1>3, <2>1
    <2>2. CASE p # <<>>
      BY <1>3, <1>5, <2>2
    <2>3. QED
      BY <2>1, <2>2
  <1>7. QED
    BY <1>1, <1>2, <1>4, <1>6

\* What a buffer holds of the pieces p printed into it so far.
Kept(a, k, l, u, p) ==
  /\ a \in Nat /\ k \in Seq(Nat) /\ l \in Nat /\ u \in Nat
  /\ a = Total(k) /\ a + u < ERROR_BUFFER_LENGTH
  /\ Len(k) + l = Len(p)
  /\ p # <<>> /\ p[1] < ERROR_BUFFER_LENGTH => k # <<>> /\ k[1] = p[1]
  /\ Total(p) \in Nat
  /\ Total(p) < ERROR_BUFFER_LENGTH => k = p
Holds(b, p) ==
  \E a, k, l, u : b = [at |-> a, kept |-> k, lost |-> l, tail |-> u] /\ Kept(a, k, l, u, p)

\* One more on both sides.
LEMMA OneMoreOnBoth ==
  \A x, y, l \in Nat : x + l = y => (x + 1) + l = y + 1 /\ x + (l + 1) = y + 1
  OBVIOUS

\* A piece that fits.
LEMMA PieceFits ==
  ASSUME NEW a, NEW k, NEW l, NEW u, NEW p \in Seq(Nat), Kept(a, k, l, u, p), NEW n \in Nat,
         a + n < ERROR_BUFFER_LENGTH, p # <<>> => p[1] < ERROR_BUFFER_LENGTH
  PROVE  Kept(a + n, Append(k, n), l, 0, Append(p, n))
  <1>1. /\ a \in Nat /\ k \in Seq(Nat) /\ l \in Nat /\ ERROR_BUFFER_LENGTH \in Nat
        /\ a = Total(k) /\ Len(k) + l = Len(p) /\ Total(p) \in Nat
        /\ Total(p) < ERROR_BUFFER_LENGTH => k = p
        /\ p # <<>> => k # <<>> /\ k[1] = p[1]
    BY BufferAssumption DEF Kept
  <1>2. /\ Total(Append(k, n)) = Total(k) + n /\ Total(Append(p, n)) = Total(p) + n
    BY <1>1, TotalSteps
  <1>3. /\ Append(k, n) \in Seq(Nat) /\ Len(k) \in Nat /\ Len(Append(k, n)) = Len(k) + 1
        /\ Append(k, n) # <<>> /\ Append(k, n)[1] = (IF k = <<>> THEN n ELSE k[1])
    BY <1>1, OneMore
  <1>4. /\ Len(p) \in Nat /\ Len(Append(p, n)) = Len(p) + 1
        /\ Append(p, n)[1] = (IF p = <<>> THEN n ELSE p[1]) /\ Len(<<>>) = 0
        /\ Len(k) = 0 => k = <<>>
    BY <1>1, OneMore
  <1>5. Append(k, n)[1] = Append(p, n)[1]
    <2>1. p = <<>> => k = <<>>
      BY <1>1, <1>3, <1>4
    <2>2. QED
      BY <1>1, <1>3, <1>4, <2>1
  <1>6. Total(Append(p, n)) < ERROR_BUFFER_LENGTH => Append(k, n) = Append(p, n)
    <2>1. Total(p) + n < ERROR_BUFFER_LENGTH => Total(p) < ERROR_BUFFER_LENGTH
      BY <1>1
    <2>2. QED
      BY <1>1, <1>2, <2>1
  <1>7. a + n \in Nat /\ 0 \in Nat /\ a + n + 0 < ERROR_BUFFER_LENGTH /\ Total(p) + n \in Nat
    BY <1>1
  <1>8. Len(Append(k, n)) + l = Len(Append(p, n))
    <2>1. l \in Nat /\ Len(k) \in Nat /\ Len(p) \in Nat /\ Len(k) + l = Len(p)
      BY <1>1, <1>3, <1>4
    <2>2. (Len(k) + 1) + l = Len(p) + 1
      BY ONLY <2>1, OneMoreOnBoth
    <2>3. QED
      BY <1>3, <1>4, <2>2
  <1>9. QED
    BY <1>1, <1>2, <1>3, <1>5, <1>6, <1>7, <1>8 DEF Kept

\* A piece that does not fit; something of it is there all the same.
LEMMA PieceIsLost ==
  ASSUME NEW a, NEW k, NEW l, NEW u, NEW p \in Seq(Nat), Kept(a, k, l, u, p), NEW n \in Nat,
         ~(a + n < ERROR_BUFFER_LENGTH), p # <<>> => p[1] < ERROR_BUFFER_LENGTH
  PROVE  Kept(a, k, l + 1, IF n < ERROR_BUFFER_LENGTH - a THEN n ELSE ERROR_BUFFER_LENGTH - a - 1,
              Append(p, n))
  <1>1. /\ a \in Nat /\ k \in Seq(Nat) /\ l \in Nat /\ ERROR_BUFFER_LENGTH \in Nat
        /\ a = Total(k) /\ Len(k) + l = Len(p) /\ Total(p) \in Nat
        /\ Total(p) < ERROR_BUFFER_LENGTH => k = p
        /\ p # <<>> => k # <<>> /\ k[1] = p[1]
        /\ u \in Nat /\ a + u < ERROR_BUFFER_LENGTH
    BY BufferAssumption DEF Kept
  <1>2. Total(Append(p, n)) = Total(p) + n
    BY TotalSteps
  <1>3. /\ Len(p) \in Nat /\ Len(k) \in Nat /\ Len(Append(p, n)) = Len(p) + 1
        /\ Append(p, n)[1] = (IF p = <<>> THEN n ELSE p[1]) /\ Len(<<>>) = 0
        /\ Len(k) = 0 => k = <<>>
    BY <1>1, OneMore
  <1>4. Append(p, n)[1] < ERROR_BUFFER_LENGTH => k # <<>> /\ k[1] = Append(p, n)[1]
    <2>1. p = <<>> => k = <<>>
      BY <1>1, <1>3
    <2>2. k = <<>> => ~(n < ERROR_BUFFER_LENGTH)
      <3>1. k = <<>> => a = 0
        BY <1>1, TotalSteps
      <3>2. QED
        BY <3>1
    <2>3. QED
      BY <1>1, <1>3, <2>1, <2>2
  <1>5. ~(Total(p) + n < ERROR_BUFFER_LENGTH) /\ Total(p) + n \in Nat
    <2>1. PICK x \in Nat : x = Total(p)
      BY <1>1
    <2>2. x < ERROR_BUFFER_LENGTH => x = a
      BY <1>1, <2>1
    <2>3. \A m \in Nat : m + n < ERROR_BUFFER_LENGTH => m < ERROR_BUFFER_LENGTH
      BY <1>1
    <2>4. x + n \in Nat
      OBVIOUS
    <2>5. QED
      BY <2>1, <2>2, <2>3, <2>4
  <1> DEFINE v == IF n < ERROR_BUFFER_LENGTH - a THEN n ELSE ERROR_BUFFER_LENGTH - a - 1
  <1>6. v \in Nat /\ a + v < ERROR_BUFFER_LENGTH
    <2>1. a < ERROR_BUFFER_LENGTH
      BY <1>1
    <2>2. a \in Nat /\ ERROR_BUFFER_LENGTH \in Nat
      BY <1>1
    <2>3. QED
      BY ONLY <2>1, <2>2, n \in Nat
  <1>7. Len(k) + (l + 1) = Len(Append(p, n)) /\ l + 1 \in Nat
    <2>1. l \in Nat /\ Len(k) \in Nat /\ Len(p) \in Nat /\ Len(k) + l = Len(p)
      BY <1>1, <1>3
    <2>2. Len(k) + (l + 1) = Len(p) + 1
      BY ONLY <2>1, OneMoreOnBoth
    <2>3. l + 1 \in Nat
      BY <2>1
    <2>4. QED
      BY <1>3, <2>2, <2>3
  <1> HIDE DEF v
  <1>8. Kept(a, k, l + 1, v, Append(p, n))
    BY <1>1, <1>2, <1>4, <1>5, <1>6, <1>7 DEF Kept
  <1>9. QED
    BY <1>8 DEF v

\* What SAFE_SPRINTF does to a buffer.
LEMMA SprintHolds ==
  ASSUME NEW b, NEW p \in Seq(Nat), Holds(b, p), NEW n \in Pieces,
         p # <<>> => p[1] < ERROR_BUFFER_LENGTH
  PROVE  Holds(SAFE_SPRINTF(b, n), Append(p, n))
  <1>1. PICK a, k, l, u :
          b = [at |-> a, kept |-> k, lost |-> l, tail |-> u] /\ Kept(a, k, l, u, p)
    BY DEF Holds
  <1>2. n \in Nat /\ n > 0
    BY DEF Pieces
  <1>3. CASE a + n < ERROR_BUFFER_LENGTH
    <2>1. SAFE_SPRINTF(b, n) = [at |-> a + n, kept |-> Append(k, n), lost |-> l, tail |-> 0]
      BY <1>1, <1>2, <1>3 DEF SAFE_SPRINTF
    <2>2. Kept(a + n, Append(k, n), l, 0, Append(p, n))
      BY <1>1, <1>2, <1>3, PieceFits
    <2>3. QED
      BY <2>1, <2>2 DEF Holds
  <1>4. CASE ~(a + n < ERROR_BUFFER_LENGTH)
    <2> DEFINE v == IF n < ERROR_BUFFER_LENGTH - a THEN n ELSE ERROR_BUFFER_LENGTH - a - 1
    <2>1. SAFE_SPRINTF(b, n) = [at |-> a, kept |-> k, lost |-> l + 1, tail |-> v]
      BY <1>1, <1>2, <1>4 DEF SAFE_SPRINTF
    <2>2. Kept(a, k, l + 1, v, Append(p, n))
      BY <1>1, <1>2, <1>4, PieceIsLost
    <2> HIDE DEF v
    <2>3. QED
      BY <2>1, <2>2 DEF Holds
  <1>5. QED
    BY <1>3, <1>4

\* What is in the buffer after any number of pieces.
LEMMA AllPiecesHold ==
  ASSUME NEW p \in Seq(Pieces), p # <<>> => p[1] < ERROR_BUFFER_LENGTH
  PROVE  Holds(SprintAll(EmptyBuffer, p), p)
  <1> DEFINE S == {q \in Seq(Pieces) : (q # <<>> => q[1] < ERROR_BUFFER_LENGTH) =>
                                         Holds(SprintAll(EmptyBuffer, q), q)}
  <1>1. <<>> \in S
    <2>1. SprintAll(EmptyBuffer, <<>>) = EmptyBuffer /\ Total(<<>>) = 0
      BY SprintAllSteps, TotalSteps
    <2>2. Kept(0, <<>>, 0, 0, <<>>)
      BY <2>1, BufferAssumption DEF Kept
    <2>3. Holds(EmptyBuffer, <<>>)
      BY <2>2 DEF Holds, EmptyBuffer
    <2>4. <<>> \in Seq(Pieces)
      OBVIOUS
    <2>5. QED
      BY <2>1, <2>3, <2>4
  <1>2. ASSUME NEW q \in Seq(Pieces), NEW n \in Pieces, q \in S PROVE Append(q, n) \in S
    <2> SUFFICES ASSUME Append(q, n)[1] < ERROR_BUFFER_LENGTH
                 PROVE  Holds(SprintAll(EmptyBuffer, Append(q, n)), Append(q, n))
      BY OneMore
    <2>1. q \in Seq(Nat) /\ n \in Nat
      BY PiecesAreNats
    <2>2. q # <<>> => q[1] < ERROR_BUFFER_LENGTH
      BY OneMore
    <2>3. Holds(SprintAll(EmptyBuffer, q), q)
      BY <1>2, <2>2
    <2>4. Holds(SAFE_SPRINTF(SprintAll(EmptyBuffer, q), n), Append(q, n))
      BY <2>1, <2>2, <2>3, SprintHolds
    <2>5. QED
      BY <2>1, <2>4, SprintAllSteps
  <1>3. Seq(Pieces) \subseteq S
    <2> HIDE DEF S
    <2>1. QED
      BY <1>1, <1>2, SprintFold!SeqInduction
  <1>4. QED
    BY <1>3

\* What a failure is about.
LEMMA DetailFields ==
  ASSUME NEW d \in Details
  PROVE  /\ d.instance \in Nat /\ d.state \in Nat /\ d.name \in Nat
         /\ d.key.mask \in Nat /\ d.key.words \in Seq(Nat) /\ d.transitions \in Seq(Transitions)
         /\ BadTransitionHead(d) \in Pieces
  <1>1. d \in [instance : Nat, state : Nat, name : Nat, key : [mask : Nat, words : Seq(Nat)],
               transitions : Seq(Transitions)]
    BY NotificationAssumption
  <1>2. d.instance \in Nat /\ d.state \in Nat /\ d.name \in Nat
        /\ d.key \in [mask : Nat, words : Seq(Nat)] /\ d.transitions \in Seq(Transitions)
    BY <1>1
  <1>3. d.key.mask \in Nat /\ d.key.words \in Seq(Nat)
    BY <1>2
  <1>4. BadTransitionHead(d) \in Pieces
    <2>1. \A i, s, n \in Nat : 68 + i + s + n \in Nat \ {0}
      OBVIOUS
    <2>2. QED
      BY <1>2, <2>1 DEF BadTransitionHead, Pieces
  <1>5. QED
    BY <1>2, <1>3, <1>4

\* The pieces of a key.
LEMMA KeyPiecesType ==
  ASSUME NEW d \in Details PROVE KeyPieces(d.key) \in Seq(Pieces)
  <1> DEFINE w == d.key.words
             each == [k \in DOMAIN w |-> IF w[k] = 0 THEN 2 ELSE w[k] + 1]
  <1>1. w \in Seq(Nat) /\ 5 + d.key.mask \in Pieces /\ 1 \in Pieces
    BY DetailFields DEF Pieces
  <1>2. each \in Seq(Pieces)
    <2>1. Len(w) \in Nat /\ DOMAIN w = 1 .. Len(w) /\ \A k \in DOMAIN w : w[k] \in Nat
      BY <1>1
    <2>2. \A k \in DOMAIN w : (IF w[k] = 0 THEN 2 ELSE w[k] + 1) \in Pieces
      BY <2>1 DEF Pieces
    <2> HIDE DEF w
    <2>3. QED
      BY <2>1, <2>2
  <1>3. KeyPieces(d.key) = <<5 + d.key.mask>> \o each \o <<1>>
    BY DEF KeyPieces
  <1>4. <<5 + d.key.mask>> \in Seq(Pieces) /\ <<1>> \in Seq(Pieces)
    BY <1>1
  <1> HIDE DEF each, w
  <1>5. QED
    BY <1>2, <1>3, <1>4

\* What print_no_instance and print_bad_transition put together are the pieces
\* of the whole, one after another.
LEMMA TextIsItsPieces ==
  ASSUME NEW e \in Detailed, NEW d \in Details
  PROVE  /\ Whole(e, d) \in Seq(Pieces) /\ Whole(e, d) # <<>>
         /\ Whole(e, d)[1] = IF e = "bad_transition" THEN BadTransitionHead(d) ELSE 25
         /\ Text(e, d) = SprintAll(EmptyBuffer, Whole(e, d))
  <1> DEFINE ts == TransitionsPieces(d.transitions)
             h == BadTransitionHead(d)
             k == KeyPieces(d.key)
  <1>1. /\ ts \in Seq(Pieces) /\ h \in Pieces /\ k \in Seq(Pieces)
        /\ \A b : sprint_transitions(b, d.transitions) = SprintAll(b, ts)
    BY DetailFields, KeyPiecesType, TransitionsAreTheirPieces
  <1>2. 2 \in Pieces /\ 25 \in Pieces /\ 20 \in Pieces
    BY DEF Pieces
  <1>3. CASE e = "bad_transition"
    <2>1. Whole(e, d) = <<h>> \o ts \o <<2>>
      BY <1>3 DEF Whole
    <2>2. Text(e, d) = SAFE_SPRINTF(sprint_transitions(SAFE_SPRINTF(EmptyBuffer, h), d.transitions), 2)
      BY <1>3 DEF Text, BadTransitionText
    <2> HIDE DEF h, ts
    <2>3. <<h>> \in Seq(Nat) /\ ts \in Seq(Nat) /\ <<2>> \in Seq(Nat) /\ h \in Nat
          /\ <<h>> \in Seq(Pieces) /\ <<2>> \in Seq(Pieces) /\ <<h>> \o ts \in Seq(Nat)
      BY <1>1, <1>2, PiecesAreNats
    <2>4. Text(e, d) = SprintAll(SprintAll(SprintAll(EmptyBuffer, <<h>>), ts), <<2>>)
      BY <1>1, <2>2, <2>3, SprintOne
    <2>5. @ = SprintAll(SprintAll(EmptyBuffer, <<h>> \o ts), <<2>>)
      BY <2>3, SprintConcat
    <2>6. @ = SprintAll(EmptyBuffer, <<h>> \o ts \o <<2>>)
      BY <2>3, SprintConcat
    <2>7. (<<h>> \o ts \o <<2>>) \in Seq(Pieces) /\ (<<h>> \o ts \o <<2>>)[1] = h
          /\ (<<h>> \o ts \o <<2>>) # <<>>
      BY <1>1, <2>3
    <2>8. QED
      BY <1>3, <2>1, <2>4, <2>5, <2>6, <2>7 DEF h
  <1>4. CASE e # "bad_transition"
    <2>1. e = "fail_no_instance"
      BY <1>4 DEF Detailed
    <2>2. Whole(e, d) = <<25>> \o k \o <<20>> \o ts
      BY <1>4 DEF Whole
    <2>3. Text(e, d) = sprint_transitions(
                         SAFE_SPRINTF(SprintAll(SAFE_SPRINTF(EmptyBuffer, 25), k), 20), d.transitions)
      BY <2>1 DEF Text, NoInstanceText, key_string
    <2> HIDE DEF k, ts
    <2>4. <<25>> \in Seq(Nat) /\ ts \in Seq(Nat) /\ <<20>> \in Seq(Nat) /\ k \in Seq(Nat)
          /\ <<25>> \in Seq(Pieces) /\ <<20>> \in Seq(Pieces)
      BY <1>1, <1>2, PiecesAreNats
    <2>5. <<25>> \o k \in Seq(Nat)
      BY <2>4
    <2>6. <<25>> \o k \o <<20>> \in Seq(Nat)
      BY <2>4, <2>5
    <2>7. PICK f \in Seq(Nat), g \in Seq(Nat), v \in Seq(Nat), w \in Seq(Nat) :
             f = <<25>> /\ g = <<20>> /\ v = <<25>> \o k /\ w = <<25>> \o k \o <<20>>
      BY <2>4, <2>5, <2>6
    <2>8. /\ \A b : SprintAll(b, f \o k) = SprintAll(SprintAll(b, f), k)
          /\ \A b : SprintAll(b, v \o g) = SprintAll(SprintAll(b, v), g)
          /\ \A b : SprintAll(b, w \o ts) = SprintAll(SprintAll(b, w), ts)
      BY <2>4, SprintConcat
    <2>9. Text(e, d) = SprintAll(SprintAll(SprintAll(SprintAll(EmptyBuffer, <<25>>), k), <<20>>), ts)
      BY <1>1, <2>3, SprintOne
    <2>10. @ = SprintAll(SprintAll(SprintAll(EmptyBuffer, <<25>> \o k), <<20>>), ts)
      BY <2>7, <2>8
    <2>11. @ = SprintAll(SprintAll(EmptyBuffer, <<25>> \o k \o <<20>>), ts)
      BY <2>7, <2>8
    <2>12. @ = SprintAll(EmptyBuffer, <<25>> \o k \o <<20>> \o ts)
      BY <2>7, <2>8
    <2>13. <<25>> \o k \o <<20>> \o ts \in Seq(Pieces)
      BY <1>1, <2>4
    <2>14. (<<25>> \o k \o <<20>> \o ts)[1] = 25 /\ <<25>> \o k \o <<20>> \o ts # <<>>
      BY <2>4
    <2>15. QED
      BY <1>4, <2>2, <2>9, <2>10, <2>11, <2>12, <2>13, <2>14
  <1>5. QED
    BY <1>3, <1>4

\* The assertion of print_bad_transition fails for a name that fills the buffer,
\* and for no other.
LEMMA AssertionFailsWhen ==
  ASSUME NEW e \in Detailed, NEW d \in Details
  PROVE  AssertionFails(e, d) <=>
           e = "bad_transition" /\ BadTransitionHead(d) >= ERROR_BUFFER_LENGTH
  <1>1. BadTransitionHead(d) \in Nat \ {0}
    BY DetailFields DEF Pieces
  <1>2. SAFE_SPRINTF(EmptyBuffer, BadTransitionHead(d)).at = 0
          <=> BadTransitionHead(d) >= ERROR_BUFFER_LENGTH
    BY <1>1, BufferAssumption DEF SAFE_SPRINTF, EmptyBuffer
  <1>3. QED
    BY <1>2 DEF AssertionFails

\* What is printed of a failure is what fits of it.
LEMMA TextFits ==
  ASSUME NEW e \in Detailed, NEW d \in Details, ~AssertionFails(e, d)
  PROVE  SaysWhatFits(Text(e, d), Whole(e, d))
  <1> DEFINE w == Whole(e, d)
  <1>1. w \in Seq(Pieces) /\ w # <<>> /\ w[1] < ERROR_BUFFER_LENGTH
        /\ Text(e, d) = SprintAll(EmptyBuffer, w)
    <2>1. BadTransitionHead(d) \in Nat
      BY DetailFields DEF Pieces
    <2>2. QED
      BY <2>1, TextIsItsPieces, AssertionFailsWhen, BufferAssumption
  <1> HIDE DEF w
  <1>2. Holds(Text(e, d), w)
    BY <1>1, AllPiecesHold
  <1>3. PICK a, k, l, u :
          Text(e, d) = [at |-> a, kept |-> k, lost |-> l, tail |-> u] /\ Kept(a, k, l, u, w)
    BY <1>2 DEF Holds
  <1>4. SaysWhatFits([at |-> a, kept |-> k, lost |-> l, tail |-> u], w)
    BY <1>1, <1>3 DEF Kept, SaysWhatFits
  <1>5. QED
    BY <1>3, <1>4 DEF w

-----------------------------------------------------------------------------
(* What is printed of a failure *)

\* The default handlers of a debug build, undisturbed.
ByDefault(t) ==
  build.debug /\ disturbed[t] = "no" /\ event_handlers.kind = "default" /\ mask = DefaultMask
KernelDTrace == build.kernel /\ build.dtrace

\* How many of the handlers a notification is past print: the first two do.
Printers(i) == IF i < 2 THEN i ELSE 2

\* With DTrace only its handler is called; without, all are, in order.
CountOK(t) ==
  IF KernelDTrace
  THEN /\ pc[t] \in {"null", "call"} => at[t].i = 2
       /\ "failstop" \notin ToSet(called[t])
  ELSE /\ "failstop" \in ToSet(called[t]) => at[t].i >= 3
       /\ \/ Len(printed[t]) = Printers(at[t].i)
          \/ fault = "assert" /\ "failstop" \notin ToSet(called[t])

SaidOK(t) ==
  /\ at[t].about \in Details
  /\ printed[t] \in Seq({Text(at[t].event, at[t].about)})
  /\ printed[t] # <<>> => ~AssertionFails(at[t].event, at[t].about)

PrintedOK ==
  /\ printed = [t \in Notifiers |-> printed[t]]
  /\ \A t \in Notifiers : at[t].event \in Detailed =>
       SaidOK(t) /\ (ByDefault(t) => CountOK(t))
  /\ fault = "assert" =>
       \E t \in Notifiers : /\ at[t].event \in Detailed /\ at[t].about \in Details
                            /\ AssertionFails(at[t].event, at[t].about)

\* libtesla's handlers are told apart by their names.
LEMMA OwnHandlers ==
  /\ printf_handlers.name = "printf" /\ printf_on_failure.name = "printf_on_failure"
  /\ dtrace_handlers.name = "dtrace" /\ failstop_handlers.name = "failstop"
  /\ IsPrintf(printf_handlers) /\ IsPrintf(printf_on_failure)
  /\ ~IsPrintf(dtrace_handlers) /\ ~IsPrintf(failstop_handlers)
  <1>1. /\ printf_handlers.name = "printf" /\ printf_on_failure.name = "printf_on_failure"
        /\ dtrace_handlers.name = "dtrace" /\ failstop_handlers.name = "failstop"
    BY DEF printf_handlers, printf_on_failure, dtrace_handlers, failstop_handlers, Handler
  <1>2. QED
    BY <1>1 DEF IsPrintf

\* The handler that an undisturbed notification of a failure has come to.
LEMMA DefaultHandlerAt ==
  ASSUME NotifyInv, NEW t \in Notifiers, ByDefault(t), at[t].event \in Detailed,
         pc[t] \in {"mask", "null", "call"}
  PROVE  /\ ~Beyond(t) /\ at[t].event \in HandlerAt(t).fns /\ at[t].i \in Nat
         /\ KernelDTrace /\ at[t].i = 2 => HandlerAt(t) = dtrace_handlers
         /\ ~KernelDTrace =>
              /\ at[t].i \in tem_mask /\ at[t].i \in {0, 1, 2}
              /\ at[t].i < 2 => IsPrintf(HandlerAt(t)) /\ HandlerAt(t).name # "failstop"
              /\ at[t].i = 2 => HandlerAt(t) = failstop_handlers
         /\ KernelDTrace => tem_mask = {2}
  <1>1. tem_handlers = default_handlers /\ tem_mask = DefaultMask
    BY DEF ByDefault, tem_handlers, tem_mask
  <1>2. at[t].i \in Nat /\ at[t].i < Len(default_handlers)
    BY <1>1 DEF ByDefault, NotifyInv, NotifyTypeOK, WalkOK, tem_length
  <1>3. Len(default_handlers) \in Nat
    BY Defaults
  <1>4. ~Beyond(t)
    BY <1>1, <1>2, <1>3 DEF Beyond, tem_length
  <1>5. HandlerAt(t) = default_handlers[at[t].i + 1] /\ at[t].i + 1 \in 1 .. Len(default_handlers)
    BY <1>1, <1>2, <1>3 DEF HandlerAt
  <1>6. at[t].event \in HandlerAt(t).fns
    <2>1. at[t].event \in Failures
      BY DEF Detailed, Failures
    <2>2. QED
      BY <1>5, <2>1, Defaults
  <1>7. build.debug
    BY DEF ByDefault
  <1> USE DEF KernelDTrace
  <1>8. KernelDTrace => tem_mask = {2}
    BY <1>1 DEF DefaultMask, KernelDTrace
  <1>9. KernelDTrace /\ at[t].i = 2 => HandlerAt(t) = dtrace_handlers
    BY <1>5, <1>7, DebugDefaults
  <1>10. ASSUME ~KernelDTrace
         PROVE  /\ at[t].i \in tem_mask /\ at[t].i \in {0, 1, 2}
                /\ at[t].i < 2 => IsPrintf(HandlerAt(t)) /\ HandlerAt(t).name # "failstop"
                /\ at[t].i = 2 => HandlerAt(t) = failstop_handlers
    <2>1. Len(default_handlers) = 3
      BY <1>7, <1>10, DebugDefaults
    <2>2. at[t].i \in {0, 1, 2}
      BY <1>2, <2>1
    <2>3. tem_mask = 0 .. 7
      BY <1>1, <1>10 DEF DefaultMask, KernelDTrace
    <2>4. at[t].i = 0 => HandlerAt(t) = printf_handlers
      BY <1>5, <1>7, DebugDefaults
    <2>5. at[t].i = 1 => HandlerAt(t) = printf_on_failure
      BY <1>5, <1>7, DebugDefaults
    <2>6. at[t].i = 2 => HandlerAt(t) = failstop_handlers
      BY <1>5, <1>7, <1>10, DebugDefaults
    <2>7. at[t].i \in tem_mask
      BY <2>2, <2>3
    <2>8. at[t].i < 2 => IsPrintf(HandlerAt(t)) /\ HandlerAt(t).name # "failstop"
      BY <2>2, <2>4, <2>5, OwnHandlers
    <2>9. QED
      BY <2>2, <2>6, <2>7, <2>8
  <1>11. QED
    BY <1>2, <1>4, <1>6, <1>8, <1>9, <1>10

\* A step of a walk that calls nothing.
LEMMA PrintedNoCall ==
  ASSUME NotifyInv, PrintedOK, NEW t \in Notifiers, Run(t), UNCHANGED <<called, printed>>,
         fault' # "assert", at'[t].event = at[t].event, at'[t].about = at[t].about,
         at[t].event \in Detailed /\ ByDefault(t) =>
           /\ ~KernelDTrace => at'[t].i = at[t].i
           /\ KernelDTrace => (pc'[t] \in {"null", "call"} => at'[t].i = 2)
  PROVE  PrintedOK'
  <1> USE WalkLeaves
  <1>1. UNCHANGED KernelDTrace /\ \A u \in Notifiers : ByDefault(u)' = ByDefault(u)
    BY DEF KernelDTrace, ByDefault
  <1>2. printed' = [u \in Notifiers |-> printed'[u]]
    BY DEF PrintedOK
  <1>3. ASSUME NEW u \in Notifiers, at'[u].event \in Detailed PROVE SaidOK(u)'
    <2>1. at'[u].event = at[u].event /\ at'[u].about = at[u].about
      OBVIOUS
    <2>2. QED
      BY <1>3, <2>1 DEF PrintedOK, SaidOK
  <1>4. ASSUME NEW u \in Notifiers, at'[u].event \in Detailed, ByDefault(u)' PROVE CountOK(u)'
    <2>1. CountOK(u)
      BY <1>1, <1>4 DEF PrintedOK
    <2>2. CASE u # t
      BY <1>1, <2>1, <2>2 DEF CountOK, Printers
    <2>3. CASE u = t /\ KernelDTrace
      BY <1>1, <1>4, <2>1, <2>3 DEF CountOK
    <2>4. CASE u = t /\ ~KernelDTrace
      <3>1. at'[u].i = at[u].i
        BY <1>1, <1>4, <2>4
      <3>2. QED
        BY <1>1, <2>1, <2>4, <3>1 DEF CountOK, Printers
    <2>5. QED
      BY <2>2, <2>3, <2>4
  <1>5. QED
    BY <1>2, <1>3, <1>4 DEF PrintedOK

\* A handler of libtesla or of the application is called.
LEMMA PrintedCall ==
  ASSUME NotifyInv, PrintedOK, NEW t \in Notifiers, Run(t), pc[t] = "call",
         at' = [at EXCEPT ![t].i = @ + 1], pc' = [pc EXCEPT ![t] = "length"],
         Calls(t, HandlerAt(t)), ~Beyond(t)
  PROVE  PrintedOK'
  <1> USE WalkLeaves
  <1> DEFINE h == HandlerAt(t)
             e == at[t].event
             d == at[t].about
             fails == IsPrintf(h) /\ AssertionFails(e, d)
  <1>1. /\ called' = [called EXCEPT ![t] = Append(@, h.name)]
        /\ printed' = IF ~IsPrintf(h) \/ fails THEN printed
                      ELSE [printed EXCEPT ![t] = @ \o Prints(e, d)]
        /\ fault' = IF fails THEN "assert" ELSE fault
    BY DEF Calls
  <1>2. /\ at'[t].i = at[t].i + 1 /\ at'[t].event = e /\ at'[t].about = d /\ pc'[t] = "length"
        /\ at[t].i \in Nat /\ called[t] \in Seq(Names) /\ h.name \in Names
        /\ called'[t] = Append(called[t], h.name)
    <2>1. at[t].i < tem_length /\ at[t].i \in Nat
      BY Published DEF Beyond, NotifyInv, NotifyTypeOK
    <2>2. h \in Handlers
      BY <2>1, HandlersAreRecords DEF NotifyInv, HandlerAt
    <2>3. h.name \in Names
      BY <2>2 DEF Handlers
    <2>4. called[t] \in Seq(Names) /\ called'[t] = Append(called[t], h.name)
      BY <1>1 DEF NotifyInv, NotifyTypeOK
    <2>5. /\ at'[t].i = at[t].i + 1 /\ at'[t].event = e /\ at'[t].about = d /\ pc'[t] = "length"
      BY DEF NotifyInv, NotifyTypeOK
    <2>6. QED
      BY <2>1, <2>3, <2>4, <2>5
  <1>3. printed = [u \in Notifiers |-> printed[u]]
    BY DEF PrintedOK
  <1>4. /\ printed' = [u \in Notifiers |-> printed'[u]]
        /\ \A u \in Notifiers : u # t => printed'[u] = printed[u]
        /\ printed'[t] = IF ~IsPrintf(h) \/ fails THEN printed[t] ELSE printed[t] \o Prints(e, d)
    <2> HIDE DEF h, e, d, fails
    <2>1. CASE ~IsPrintf(h) \/ fails
      BY <1>1, <1>3, <2>1
    <2>2. CASE ~(~IsPrintf(h) \/ fails)
      BY <1>1, <1>3, <2>2
    <2>3. QED
      BY <2>1, <2>2
  <1>5. UNCHANGED KernelDTrace /\ \A u \in Notifiers : ByDefault(u)' = ByDefault(u)
    BY DEF KernelDTrace, ByDefault
  <1>6. ToSet(called'[t]) = ToSet(called[t]) \cup {h.name}
    BY <1>2, AppendAdds
  <1> HIDE DEF h, e, d, fails
  <1>7. fault' = "assert" => fails
    BY <1>1
  <1>8. e \in Detailed => Prints(e, d) = <<Text(e, d)>>
    BY DEF Prints
  <1>9. ASSUME at'[t].event \in Detailed PROVE SaidOK(t)'
    <2>1. e \in Detailed /\ SaidOK(t)
      BY <1>2, <1>9 DEF PrintedOK, e
    <2>2. d \in Details /\ printed[t] \in Seq({Text(e, d)})
          /\ (printed[t] # <<>> => ~AssertionFails(e, d))
      BY <2>1 DEF SaidOK, e, d
    <2>3. CASE ~IsPrintf(h) \/ fails
      BY <1>2, <1>4, <2>2, <2>3 DEF SaidOK
    <2>4. CASE IsPrintf(h) /\ ~fails
      <3>1. ~AssertionFails(e, d)
        BY <2>4 DEF fails
      <3>2. printed'[t] = printed[t] \o <<Text(e, d)>>
        BY <1>4, <1>8, <2>1, <2>4
      <3>3. printed[t] \o <<Text(e, d)>> \in Seq({Text(e, d)})
        BY <2>2
      <3>4. QED
        BY <1>2, <2>2, <3>1, <3>2, <3>3 DEF SaidOK
    <2>5. QED
      BY <2>3, <2>4
  <1>10. ASSUME at'[t].event \in Detailed, ByDefault(t)' PROVE CountOK(t)'
    <2>1. e \in Detailed /\ ByDefault(t) /\ CountOK(t) /\ SaidOK(t)
      BY <1>2, <1>5, <1>10 DEF PrintedOK, e
    <2>2. printed[t] \in Seq({Text(e, d)})
      BY <2>1 DEF SaidOK, e, d
    <2>3. CASE KernelDTrace
      <3>1. h = dtrace_handlers
        BY <2>1, <2>3, DefaultHandlerAt DEF CountOK, h, e
      <3>2. "failstop" \notin ToSet(called'[t])
        BY <1>6, <2>1, <2>3, <3>1, OwnHandlers DEF CountOK
      <3>3. QED
        BY <1>2, <1>5, <2>3, <3>2 DEF CountOK
    <2>4. CASE ~KernelDTrace
      <3>1. /\ at[t].i \in {0, 1, 2}
            /\ at[t].i < 2 => IsPrintf(h) /\ h.name # "failstop"
            /\ at[t].i = 2 => h = failstop_handlers
        BY <2>1, <2>4, DefaultHandlerAt DEF h, e
      <3>2. "failstop" \notin ToSet(called[t])
        BY <1>2, <2>1, <2>4, <3>1 DEF CountOK
      <3>3. Len(printed[t]) = at[t].i
        <4>1. Len(printed[t]) = Printers(at[t].i)
          BY <2>1, <2>4 DEF CountOK
        <4>2. QED
          BY <3>1, <4>1 DEF Printers
      <3>4. CASE at[t].i < 2
        <4>1. IsPrintf(h) /\ "failstop" \notin ToSet(called'[t])
          BY <1>6, <3>1, <3>2, <3>4
        <4>2. CASE fails
          BY <1>1, <1>5, <2>4, <4>1, <4>2 DEF CountOK
        <4>3. CASE ~fails
          <5>1. printed'[t] = printed[t] \o <<Text(e, d)>>
            BY <1>4, <1>8, <2>1, <4>1, <4>3
          <5>2. Len(printed'[t]) = at[t].i + 1
            BY <2>2, <3>3, <5>1
          <5>3. at'[t].i \in {1, 2}
            BY <1>2, <3>1, <3>4
          <5>4. Len(printed'[t]) = Printers(at'[t].i)
            BY <1>2, <5>2, <5>3 DEF Printers
          <5>5. QED
            BY <1>5, <2>4, <4>1, <5>4 DEF CountOK
        <4>4. QED
          BY <4>2, <4>3
      <3>5. CASE at[t].i = 2
        <4>1. ~IsPrintf(h) /\ at'[t].i = 3
          BY <1>2, <3>1, <3>5, OwnHandlers
        <4>2. Len(printed'[t]) = Printers(at'[t].i)
          <5>1. printed'[t] = printed[t]
            BY <1>4, <4>1
          <5>2. Printers(3) = 2
            BY DEF Printers
          <5>3. QED
            BY <3>3, <3>5, <4>1, <5>1, <5>2
        <4>3. QED
          BY <1>5, <2>4, <4>1, <4>2 DEF CountOK
      <3>6. QED
        BY <3>1, <3>4, <3>5
    <2>5. QED
      BY <2>3, <2>4
  <1>11. ASSUME NEW u \in Notifiers, u # t, at'[u].event \in Detailed
         PROVE  SaidOK(u)' /\ (ByDefault(u)' => CountOK(u)')
    <2>1. at'[u] = at[u] /\ printed'[u] = printed[u] /\ called'[u] = called[u] /\ pc'[u] = pc[u]
      BY <1>4, <1>11
    <2>2. SaidOK(u) /\ (ByDefault(u) => CountOK(u))
      BY <1>11, <2>1 DEF PrintedOK
    <2>3. SaidOK(u)'
      BY <2>1, <2>2 DEF SaidOK
    <2>4. fault # "assert"
      OBVIOUS
    <2>5. CountOK(u) => CountOK(u)'
      BY <1>5, <2>1, <2>4 DEF CountOK, Printers
    <2>6. QED
      BY <1>5, <2>2, <2>3, <2>5
  <1>12. ASSUME fault' = "assert"
         PROVE  \E u \in Notifiers : /\ at'[u].event \in Detailed /\ at'[u].about \in Details
                                     /\ AssertionFails(at'[u].event, at'[u].about)
    <2>1. AssertionFails(e, d)
      BY <1>7, <1>12 DEF fails
    <2>2. e \in Detailed
      BY <2>1 DEF AssertionFails, Detailed
    <2>3. d \in Details
      BY <2>2 DEF PrintedOK, SaidOK, e, d
    <2>4. QED
      BY <1>2, <2>1, <2>2, <2>3
  <1>13. QED
    BY <1>4, <1>9, <1>10, <1>11, <1>12 DEF PrintedOK

\* The steps of a walk print what they are to print.
LEMMA PrintedWalk ==
  ASSUME NotifyInv, PrintedOK, NEW t \in Notifiers, Run(t)
  PROVE  PrintedOK'
  <1> USE WalkLeaves
  <1>1. ASSUME UNCHANGED <<at, called, printed>>, fault' # "assert", pc[t] = "length" \/ fault' # fault,
               pc'[t] \notin {"null", "call"}
        PROVE  PrintedOK'
    BY <1>1, PrintedNoCall
  <1>2. CASE TestLength(t)
    <2>1. /\ UNCHANGED <<at, called, printed, fault>> /\ pc[t] = "length"
          /\ pc'[t] \notin {"null", "call"}
      BY <1>2 DEF TestLength, Goto, NotifyInv, NotifyTypeOK
    <2>2. QED
      BY <1>1, <2>1
  <1>3. ASSUME UNCHANGED <<called, printed, fault>>, at' = [at EXCEPT ![t].i = @ + 1],
               pc' = [pc EXCEPT ![t] = "length"], pc[t] \in {"mask", "null"},
               at[t].i \notin tem_mask \/ at[t].event \notin HandlerAt(t).fns
        PROVE  PrintedOK'
    <2>1. at'[t].event = at[t].event /\ at'[t].about = at[t].about /\ pc'[t] = "length"
      BY <1>3 DEF NotifyInv, NotifyTypeOK
    <2>2. at[t].event \in Detailed /\ ByDefault(t) => KernelDTrace
      BY <1>3, DefaultHandlerAt
    <2>3. QED
      BY <1>3, <2>1, <2>2, PrintedNoCall
  <1>4. CASE TestMask(t)
    <2>1. UNCHANGED <<called, printed, fault>> /\ pc[t] = "mask"
      BY <1>4 DEF TestMask, Goto
    <2>2. CASE at[t].i \in tem_mask
      <3>1. at' = at
        BY <1>4, <2>2 DEF TestMask
      <3>2. at[t].event \in Detailed /\ ByDefault(t) /\ KernelDTrace => at[t].i = 2
        BY <2>1, <2>2, DefaultHandlerAt
      <3>3. QED
        BY <2>1, <3>1, <3>2, PrintedNoCall
    <2>3. CASE at[t].i \notin tem_mask
      BY <1>3, <1>4, <2>1, <2>3 DEF TestMask, Goto, Advance
    <2>4. QED
      BY <2>2, <2>3
  <1>5. CASE TestNull(t)
    <2>1. UNCHANGED <<called, printed>> /\ pc[t] = "null"
      BY <1>5 DEF TestNull, Goto
    <2>2. CASE Beyond(t)
      <3>1. fault' = "beyond" /\ at' = at /\ pc'[t] = "idle"
        BY <1>5, <2>2 DEF TestNull, Goto, NotifyInv, NotifyTypeOK
      <3>2. QED
        BY <1>1, <2>1, <3>1
    <2>3. CASE ~Beyond(t) /\ at[t].event \in HandlerAt(t).fns
      <3>1. at' = at /\ fault' = fault
        BY <1>5, <2>3 DEF TestNull
      <3>2. at[t].event \in Detailed /\ ByDefault(t) /\ KernelDTrace => at[t].i = 2
        BY <2>1 DEF PrintedOK, CountOK
      <3>3. QED
        BY <2>1, <3>1, <3>2, PrintedNoCall
    <2>4. CASE ~Beyond(t) /\ at[t].event \notin HandlerAt(t).fns
      BY <1>3, <1>5, <2>1, <2>4 DEF TestNull, Goto, Advance
    <2>5. QED
      BY <2>2, <2>3, <2>4
  <1>6. CASE CallHandler(t)
    <2>1. CASE Beyond(t) \/ at[t].event \notin HandlerAt(t).fns
      <3>1. UNCHANGED <<at, called, printed>> /\ fault' \in {"beyond", "null"} /\ pc'[t] = "idle"
        BY <1>6, <2>1 DEF CallHandler, Goto, NotifyInv, NotifyTypeOK
      <3>2. QED
        BY <1>1, <3>1
    <2>2. CASE ~Beyond(t) /\ at[t].event \in HandlerAt(t).fns
      <3>1. /\ pc[t] = "call" /\ at' = [at EXCEPT ![t].i = @ + 1]
            /\ pc' = [pc EXCEPT ![t] = "length"] /\ Calls(t, HandlerAt(t))
        BY <1>6, <2>2 DEF CallHandler, Goto, Advance
      <3>2. QED
        BY <2>2, <3>1, PrintedCall
    <2>3. QED
      BY <2>1, <2>2
  <1>7. QED
    BY <1>2, <1>4, <1>5, <1>6 DEF Run

\* What others write does not change what has been printed; the default handlers
\* and mask are not written again once they have been replaced.
LEMMA PrintedOthers ==
  ASSUME NotifyInv, PrintedOK, UNCHANGED <<build, pc, at, called, printed, fault>>,
         \A t \in Notifiers : ByDefault(t)' => ByDefault(t)
  PROVE  PrintedOK'
  <1>1. UNCHANGED KernelDTrace
    BY DEF KernelDTrace
  <1>2. \A t \in Notifiers : (SaidOK(t) => SaidOK(t)') /\ (CountOK(t) => CountOK(t)')
    BY <1>1 DEF SaidOK, CountOK
  <1>3. QED
    BY <1>2 DEF PrintedOK

\* Every step keeps what has been printed.
LEMMA PrintedNext == NotifyInv /\ PrintedOK /\ [Next]_vars => PrintedOK'
  <1> SUFFICES ASSUME NotifyInv, PrintedOK, [Next]_vars PROVE PrintedOK'
    OBVIOUS
  <1>1. ASSUME NEW t \in Notifiers, NEW e \in Reported, NEW d, Notify(t, e, d)
        PROVE  PrintedOK'
    <2>1. /\ fault = "none" /\ fault' = fault
          /\ d \in (IF e \in Detailed THEN Details ELSE {NoDetail})
          /\ pc' = [pc EXCEPT ![t] = "length"]
          /\ at' = [at EXCEPT ![t] = [event |-> e, about |-> d, i |-> 0]]
          /\ called' = [called EXCEPT ![t] = <<>>]
          /\ printed' = [printed EXCEPT ![t] = <<>>]
          /\ disturbed' = [disturbed EXCEPT ![t] = "no"]
          /\ UNCHANGED <<build, mask, event_handlers>>
      BY <1>1 DEF Notify, Alive
    <2>2. /\ pc'[t] = "length" /\ at'[t] = [event |-> e, about |-> d, i |-> 0]
          /\ called'[t] = <<>> /\ printed'[t] = <<>>
          /\ \A u \in Notifiers : u # t =>
               /\ pc'[u] = pc[u] /\ at'[u] = at[u] /\ called'[u] = called[u]
               /\ printed'[u] = printed[u] /\ disturbed'[u] = disturbed[u]
          /\ printed' = [u \in Notifiers |-> printed'[u]]
      BY <2>1 DEF NotifyInv, NotifyTypeOK, PrintedOK
    <2>3. UNCHANGED <<KernelDTrace, DefaultMask>>
      BY <2>1 DEF KernelDTrace, DefaultMask
    <2>4. ASSUME e \in Detailed PROVE SaidOK(t)' /\ CountOK(t)'
      <3>1. ToSet(<<>>) = {}
        BY DEF ToSet
      <3>2. d \in Details /\ at'[t].event = e /\ at'[t].about = d /\ at'[t].i = 0
        BY <2>1, <2>2, <2>4
      <3>3. SaidOK(t)'
        BY <2>2, <3>2 DEF SaidOK
      <3>4. Len(printed'[t]) = Printers(at'[t].i)
        BY <2>2, <3>2 DEF Printers
      <3>5. CountOK(t)'
        BY <2>2, <3>1, <3>4 DEF CountOK
      <3>6. QED
        BY <3>3, <3>5
    <2>5. ASSUME NEW u \in Notifiers, u # t, at'[u].event \in Detailed
          PROVE  SaidOK(u)' /\ (ByDefault(u)' => CountOK(u)')
      <3>1. at[u].event \in Detailed
        BY <2>2, <2>5
      <3>2. SaidOK(u) /\ (ByDefault(u) => CountOK(u))
        BY <3>1 DEF PrintedOK
      <3>3. SaidOK(u)'
        BY <2>2, <2>5, <3>2 DEF SaidOK
      <3>4. ByDefault(u)' => ByDefault(u)
        BY <2>1, <2>2, <2>3, <2>5 DEF ByDefault
      <3>5. CountOK(u) => CountOK(u)'
        BY <2>1, <2>2, <2>3, <2>5 DEF CountOK
      <3>6. QED
        BY <3>2, <3>3, <3>4, <3>5
    <2>6. at'[t].event = e
      BY <2>2
    <2>7. QED
      BY <2>1, <2>2, <2>4, <2>5, <2>6 DEF PrintedOK
  <1>2. ASSUME NEW t \in Notifiers, Run(t) PROVE PrintedOK'
    BY <1>2, PrintedWalk
  <1>3. CASE \/ \E h \in Vectors : tesla_set_event_handler(h)
             \/ \E m \in MetaVectors : tesla_set_event_handlers(m)
    <2>1. UNCHANGED <<build, mask, event_handlers, disturbed, pc, at, called, printed, fault>>
      BY <1>3 DEF tesla_set_event_handler, tesla_set_event_handlers, Install
    <2>2. \A t \in Notifiers : ByDefault(t)' => ByDefault(t)
      BY <2>1 DEF ByDefault, DefaultMask
    <2>3. QED
      BY <2>1, <2>2, PrintedOthers
  <1>4. CASE WriteSingleton \/ Publish \/ \E m \in {{0, 1}, {2, 3}} : Sysctl(m)
    <2>1. UNCHANGED <<build, pc, at, called, printed, fault>>
      BY <1>4 DEF WriteSingleton, Publish, Sysctl
    <2>2. ASSUME NEW t \in Notifiers, ByDefault(t)' PROVE ByDefault(t)
      <3>1. disturbed[t] = "no"
        <4>1. PICK shrunk : Disturb(shrunk)
          BY <1>4 DEF WriteSingleton, Publish, Sysctl
        <4>2. disturbed'[t] = IF pc[t] = "idle" THEN disturbed[t]
                              ELSE IF shrunk \/ disturbed[t] = "shrunk" THEN "shrunk" ELSE "changed"
          BY <4>1 DEF Disturb
        <4>3. QED
          BY <2>2, <4>2 DEF ByDefault
      <3>2. CASE WriteSingleton
        <4>1. UNCHANGED <<build, mask, event_handlers>>
          BY <3>2 DEF WriteSingleton
        <4>2. QED
          BY <2>2, <3>1, <4>1 DEF ByDefault, DefaultMask
      <3>3. CASE Publish
        BY <2>2, <3>3 DEF Publish, ByDefault
      <3>4. CASE \E m \in {{0, 1}, {2, 3}} : Sysctl(m)
        <4>1. mask' \in {{0, 1}, {2, 3}} /\ build' = build
          BY <3>4 DEF Sysctl
        <4>2. mask' # {2} /\ mask' # 0 .. 7
          <5>1. 7 \in 0 .. 7 /\ 7 \notin {0, 1} /\ 7 \notin {2, 3}
            OBVIOUS
          <5>2. 0 \in {0, 1} /\ 0 \notin {2} /\ 3 \in {2, 3} /\ 3 \notin {2}
            OBVIOUS
          <5>3. QED
            BY <4>1, <5>1, <5>2
        <4>3. QED
          BY <2>2, <4>1, <4>2 DEF ByDefault, DefaultMask
      <3>5. QED
        BY <1>4, <3>2, <3>3, <3>4
    <2>3. QED
      BY <2>1, <2>2, PrintedOthers
  <1>5. CASE UNCHANGED vars
    <2>1. UNCHANGED <<build, mask, event_handlers, disturbed, pc, at, called, printed, fault>>
      BY <1>5 DEF vars
    <2>2. \A t \in Notifiers : ByDefault(t)' => ByDefault(t)
      BY <2>1 DEF ByDefault, DefaultMask
    <2>3. QED
      BY <2>1, <2>2, PrintedOthers
  <1>6. QED
    BY <1>1, <1>2, <1>3, <1>4, <1>5 DEF Next, Stopped

\* What libtesla prints of a failure ends within the buffer, begins with what
\* matters and leaves nothing out if there is room for it, whatever the failure
\* is about and however many transitions the automaton has; a debug build has
\* printed it twice when it stops; and only a name as long as the buffer fails
\* the assertion of print_bad_transition.
THEOREM FailuresAreSaid == Spec => []FailuresArePrinted
  <1>1. Init => PrintedOK
    <2> SUFFICES ASSUME Init PROVE PrintedOK
      OBVIOUS
    <2>1. \A t \in Notifiers : at[t].event = "none"
      BY DEF Init
    <2>2. fault = "none" /\ printed = [t \in Notifiers |-> printed[t]]
      BY DEF Init
    <2>3. QED
      BY <2>1, <2>2 DEF PrintedOK, Detailed
  <1>2. NotifyInv /\ PrintedOK => FailuresArePrinted
    <2> SUFFICES ASSUME NotifyInv, PrintedOK PROVE FailuresArePrinted
      OBVIOUS
    <2>1. ASSUME NEW t \in Notifiers, at[t].event \in Detailed, NEW k \in DOMAIN printed[t]
          PROVE  SaysWhatFits(printed[t][k], Whole(at[t].event, at[t].about))
      <3>1. SaidOK(t)
        BY <2>1 DEF PrintedOK
      <3>2. PICK s \in Seq({Text(at[t].event, at[t].about)}) : s = printed[t]
        BY <3>1 DEF SaidOK
      <3>3. s # <<>> /\ s[k] = Text(at[t].event, at[t].about)
        BY <2>1, <3>2
      <3>4. at[t].about \in Details /\ ~AssertionFails(at[t].event, at[t].about)
        BY <3>1, <3>2, <3>3 DEF SaidOK
      <3>5. QED
        BY <2>1, <3>2, <3>3, <3>4, TextFits
    <2>2. ASSUME NEW t \in Notifiers, at[t].event \in Detailed, ByDefault(t),
                 "failstop" \in ToSet(called[t])
          PROVE  Len(printed[t]) = 2
      <3>1. CountOK(t)
        BY <2>2 DEF PrintedOK
      <3>2. Len(printed[t]) = Printers(at[t].i) /\ at[t].i >= 3 /\ at[t].i \in Nat
        BY <2>2, <3>1 DEF CountOK, NotifyInv, NotifyTypeOK
      <3>3. \A i \in Nat : i >= 3 => Printers(i) = 2
        BY DEF Printers
      <3>4. QED
        BY <3>2, <3>3
    <2>3. ASSUME fault = "assert"
          PROVE  \E t \in Notifiers : /\ at[t].event = "bad_transition"
                                      /\ BadTransitionHead(at[t].about) >= ERROR_BUFFER_LENGTH
      BY <2>3, AssertionFailsWhen DEF PrintedOK
    <2>4. QED
      BY <2>1, <2>2, <2>3 DEF FailuresArePrinted, ByDefault
  <1>3. QED
    BY <1>1, <1>2, PrintedNext, NotifyInvHolds, PTL DEF Spec
=============================================================================
