---------------------------- MODULE TeslaUpdate -----------------------------
(***************************************************************************)
(* The automaton engine of libtesla (tesla_update.c, tesla_class.c): one   *)
(* store used by one thread at a time, as TESLA_CONTEXT_THREAD guarantees. *)
(* Its operations are tesla_sunrise, tesla_sunset and tesla_update_state;  *)
(* tesla_update_class_state, which does the work of the last two, is       *)
(* modelled one loop iteration per step, so that what an early return      *)
(* leaves behind is visible.                                               *)
(*                                                                         *)
(* assert() is enabled, as it is in builds without NDEBUG: an assertion    *)
(* that a caller can make fail stops the program.                          *)
(***************************************************************************)
EXTENDS TeslaKey, Integers, FiniteSets

CONSTANTS
  Automata,            \* automata (and so classes) of the store
  Lifetimes,           \* distinct (begin, end) event pairs
  ta_alphabet_size,    \* [Automata -> Nat]
  ta_transitions,      \* [Automata -> [symbol -> Seq(Transition)]]
  ta_cleanup_symbol,   \* [Automata -> symbol]
  ta_lifetime,         \* [Automata -> Lifetimes]
  Inputs,              \* [Automata -> set of [symbol, pattern]]
  Limit,               \* tc_limit: TESLA_MAX_INSTANCES, 128
  StoreLength,         \* ts_length: TESLA_MAX_CLASSES, 128
  StaticClasses,       \* length of tls_classes: 32
  DynInitial,          \* first tls_dyn_capacity: 8
  CapacityModulus,     \* 2^32, tls_dyn_capacity is a uint32_t
  StackFree,           \* what the uninitialised tk_freemask of tesla_sunset's
                       \* empty_key can hold
  Kernel,              \* built with _KERNEL
  FailStop,            \* the failstop handlers are installed (the default)
  NULL,
  MaxDyn               \* bound of the model: no call starts when a lifetime
                       \* has this many dynamic registrations

Indices == 0 .. Limit - 1
Symbols(a) == 0 .. ta_alphabet_size[a] - 1
Trans(a, s) == ta_transitions[a][s]

ASSUME LimitAssumption == Limit \in Nat \ {0}

ASSUME AutomataAssumption ==
  /\ NULL \notin Automata /\ NULL \notin Lifetimes
  /\ ta_alphabet_size \in [Automata -> Nat \ {0}]
  /\ ta_lifetime \in [Automata -> Lifetimes]
  /\ \A a \in Automata :
       /\ ta_cleanup_symbol[a] \in Symbols(a)
       /\ \A s \in Symbols(a) : /\ Trans(a, s) \in Seq(Transition)
                                /\ Trans(a, s) # << >>

ASSUME InputsAssumption ==
  /\ \A a \in Automata : \A e \in Inputs[a] :
       e.symbol \in Symbols(a) /\ e.pattern \in Pattern
  /\ StackFree \subseteq SUBSET Slots

ASSUME SizesAssumption ==
  /\ StoreLength \in Nat /\ StaticClasses \in Nat \ {0}
  /\ DynInitial \in Nat \ {0} /\ CapacityModulus \in Nat \ {0}
  /\ Kernel \in BOOLEAN /\ FailStop \in BOOLEAN
  /\ MaxDyn \in Nat

VARIABLES
  inst,               \* tc_instances of every class
  tc_free,            \* "Unused instances."
  lifetimes,          \* ts_lifetimes[0 .. ts_lifetime_count - 1]
  tls_classes,        \* static registrations, up to the first NULL
  tls_dyn_classes,    \* dynamic registrations, tls_dyn_count of them
  tls_dyn_capacity,
  \* the frame of tesla_update_class_state
  pc, class, symbol, pattern, i, expected, max_clones, clones,
  matched_something, cleanup_required,
  \* the frame of tesla_sunset: its lifetime, loop, index and loop bound
  sunset,
  \* what the handlers were told (ev_*) since the library, or
  \* tesla_update_class_state for the next class of a sunset, was entered
  note

store == <<inst, tc_free, lifetimes, tls_classes, tls_dyn_classes,
           tls_dyn_capacity>>
locals == <<i, expected, max_clones, clones, matched_something,
            cleanup_required>>
call == <<class, symbol, pattern>>
vars == <<store, pc, call, locals, sunset, note>>

NoSunset == [life |-> NULL, loop |-> "none", i |-> 1, n |-> 0, free |-> {}]
NoPattern == [key |-> EmptyKey, free |-> {}]

Failures == {"no_instance", "bad_transition", "too_many_clones",
             "failed_to_clone", "failed_to_union", "failed_to_init",
             "no_init_transition", "out_of_static_space"}
Notes == Failures \cup {"sunrise", "sunset", "ignored", "new_instance",
                        "update", "join", "clone", "accept", "assert",
                        "no_dyn_space"}
PCs == {"idle", "lookup", "init", "scan", "move", "sunset", "stopped"}

ActiveSlots(a) == {j \in Indices : tesla_instance_active(inst[a][j])}
UnusedSlots(a) == Indices \ ActiveSlots(a)

\* The clone_info of a fork: the old instance and its transition.
CloneInfo == [old : Indices, transition : Transition]

-----------------------------------------------------------------------------
Init ==
  /\ inst = [a \in Automata |-> [j \in Indices |-> Inactive]]
  /\ tc_free = [a \in Automata |-> Limit]
  /\ lifetimes = {}
  /\ tls_classes = [l \in Lifetimes |-> << >>]
  /\ tls_dyn_classes = [l \in Lifetimes |-> << >>]
  /\ tls_dyn_capacity = [l \in Lifetimes |-> 0]
  /\ pc = "idle"
  /\ class = NULL /\ symbol = 0 /\ pattern = NoPattern
  /\ i = 0 /\ expected = 0 /\ max_clones = 0 /\ clones = << >>
  /\ matched_something = FALSE /\ cleanup_required = FALSE
  /\ sunset = NoSunset
  /\ note = {}

-----------------------------------------------------------------------------
\* The notifications e are delivered; with the failstop handlers a failure
\* ends the program, otherwise control goes on at next.
Notify(e, next) ==
  /\ note' = note \cup e
  /\ pc' = IF FailStop /\ e \cap Failures # {} THEN "stopped" ELSE next

\* Where control goes when tesla_update_class_state returns.
Caller == IF sunset.loop = "none" THEN "idle" ELSE "sunset"

\* Leave tesla_update_class_state: its locals are gone.
Return(e) ==
  /\ Notify(e, Caller)
  /\ class' = NULL /\ symbol' = 0 /\ pattern' = NoPattern
  /\ i' = 0 /\ expected' = 0 /\ max_clones' = 0 /\ clones' = << >>
  /\ matched_something' = FALSE /\ cleanup_required' = FALSE
  /\ UNCHANGED sunset

\* Enter tesla_update_class_state.
Enter(a, s, p) ==
  /\ pc' = "lookup"
  /\ class' = a /\ symbol' = s /\ pattern' = p
  /\ max_clones' = tc_free[a]
  /\ note' = {}
  /\ UNCHANGED <<i, expected, clones, matched_something, cleanup_required>>

\* An assertion of the library fails after the notifications e.
Abort(e) == /\ pc' = "stopped" /\ note' = e \cup {"assert"}
            /\ UNCHANGED <<store, call, locals, sunset>>

RoomForCall == \A l \in Lifetimes : Len(tls_dyn_classes[l]) < MaxDyn

-----------------------------------------------------------------------------
(* tesla_sunrise and tesla_sunset *)

LifetimeSpace == Cardinality(lifetimes) < StoreLength

tesla_sunrise(l) ==
  /\ pc = "idle"
  /\ IF LifetimeSpace
     THEN /\ lifetimes' = lifetimes \cup {l}
          /\ note' = {"sunrise"}
          /\ UNCHANGED <<inst, tc_free, tls_classes, tls_dyn_classes,
                         tls_dyn_capacity, pc, call, locals, sunset>>
     ELSE Abort({})

tesla_sunset(l) ==
  /\ pc = "idle" /\ RoomForCall
  /\ IF LifetimeSpace /\ l \in lifetimes
     THEN /\ pc' = "sunset" /\ note' = {"sunset"}
          /\ \E f \in StackFree :
               sunset' = [life |-> l, loop |-> "static", i |-> 1,
                          n |-> StaticClasses, free |-> f]
          /\ UNCHANGED <<store, call, locals>>
     ELSE Abort({"sunset"})

\* The registrations that the current loop of tesla_sunset walks.
SunsetList == IF sunset.loop = "static" THEN tls_classes[sunset.life]
              ELSE tls_dyn_classes[sunset.life]

\* Faulty variant: the loop stops one registration early.
SunsetHasClassOffByOne ==
  /\ sunset.i < sunset.n
  /\ sunset.i <= Len(SunsetList)
  /\ SunsetList[sunset.i] # NULL

\* Index and list agree on a class: not past the end, not NULL.
SunsetHasClass ==
  /\ sunset.i <= sunset.n
  /\ sunset.i <= Len(SunsetList)
  /\ SunsetList[sunset.i] # NULL

\* One iteration of either loop calls tesla_update_class_state.
SunsetClass ==
  /\ pc = "sunset" /\ SunsetHasClass
  /\ LET a == SunsetList[sunset.i]
     IN Enter(a, ta_cleanup_symbol[a], [key |-> EmptyKey, free |-> sunset.free])
  /\ sunset' = [sunset EXCEPT !.i = @ + 1]
  /\ UNCHANGED store

\* The static loop ends: bzero tls_classes, then walk the tls_dyn_count
\* classes that are registered dynamically at this point.
SunsetStaticDone ==
  /\ pc = "sunset" /\ sunset.loop = "static" /\ ~SunsetHasClass
  /\ tls_classes' = [tls_classes EXCEPT ![sunset.life] = << >>]
  /\ sunset' = [sunset EXCEPT !.loop = "dyn", !.i = 1,
                              !.n = Len(tls_dyn_classes[sunset.life])]
  /\ note' = {}
  /\ UNCHANGED <<inst, tc_free, lifetimes, tls_dyn_classes, tls_dyn_capacity,
                 pc, call, locals>>

\* The dynamic loop ends: bzero tls_dyn_classes, but keep tls_dyn_count.
SunsetReturn ==
  /\ pc = "sunset" /\ sunset.loop = "dyn" /\ ~SunsetHasClass
  /\ tls_dyn_classes' =
       [tls_dyn_classes EXCEPT
          ![sunset.life] = [j \in 1 .. Len(@) |-> NULL]]
  /\ pc' = "idle" /\ sunset' = NoSunset /\ note' = {}
  /\ UNCHANGED <<inst, tc_free, lifetimes, tls_classes, tls_dyn_capacity,
                 call, locals>>

-----------------------------------------------------------------------------
(* tesla_update_state, and the first part of tesla_update_class_state *)

tesla_update_state(a, e) ==
  /\ pc = "idle" /\ RoomForCall
  /\ Enter(a, e.symbol, e.pattern)
  /\ UNCHANGED <<store, sunset>>

\* The lifetime of the automaton has not begun.
Ignored ==
  /\ pc = "lookup" /\ ta_lifetime[class] \notin lifetimes
  /\ Return({"ignored"})
  /\ UNCHANGED store

\* Faulty variant: the instances are counted with the number of free slots
\* read on entry, before late initialisation took one.
StartScanStale ==
  /\ i' = 0
  /\ expected' = Limit - max_clones
  /\ UNCHANGED <<call, max_clones, clones, matched_something,
                 cleanup_required, sunset>>

\* Start the loop over the instances.
StartScan ==
  /\ i' = 0
  /\ expected' = Limit - tc_free'[class]
  /\ UNCHANGED <<call, max_clones, clones, matched_something,
                 cleanup_required, sunset>>

Initialised ==
  /\ pc = "lookup" /\ ta_lifetime[class] \in lifetimes
  /\ tc_free[class] # Limit
  /\ pc' = "scan"
  /\ UNCHANGED <<store, note>>
  /\ StartScan

LateInit ==
  /\ pc = "lookup" /\ ta_lifetime[class] \in lifetimes
  /\ tc_free[class] = Limit
  /\ pc' = "init"
  /\ UNCHANGED <<store, call, locals, sunset, note>>

\* tesla_instance_new: the lowest inactive slot gets the name and the state.
\* When tc_free is not 0 there must be one (FreeIsLowerBound).
tesla_instance_new(a, k, state) ==
  \E j \in Indices :
    /\ ~tesla_instance_active(inst[a][j])
    /\ \A m \in 0 .. j - 1 : tesla_instance_active(inst[a][m])
    /\ inst' = [inst EXCEPT ![a][j] = [state |-> state, key |-> k]]
    /\ tc_free' = [tc_free EXCEPT ![a] = @ - 1]

FirstIsInit(a, s) == Trans(a, s)[1].init

\* Faulty variant: a symbol that cannot be examined is not passed over.
InitStuck ==
  /\ pc = "init" /\ i < ta_alphabet_size[class]
  /\ LET n == Len(Trans(class, i))
     IN \/ i >= n /\ i' = i
        \/ i < n /\ ~FirstIsInit(class, i) /\ i' = n + 1
  /\ UNCHANGED <<store, pc, call, expected, max_clones, clones,
                 matched_something, cleanup_required, sunset, note>>

\* The search for the init transition.  Its inner loop advances and tests the
\* outer loop's index i, and only ever looks at the first transition of the
\* symbol the outer loop stopped at.
InitSkip ==
  /\ pc = "init" /\ i < ta_alphabet_size[class]
  /\ LET n == Len(Trans(class, i))
     IN \/ i >= n /\ i' = i + 1
        \/ i < n /\ ~FirstIsInit(class, i) /\ i' = n + 1
  /\ UNCHANGED <<store, pc, call, expected, max_clones, clones,
                 matched_something, cleanup_required, sunset, note>>

InitFound ==
  /\ pc = "init" /\ i < ta_alphabet_size[class]
  /\ i < Len(Trans(class, i)) /\ FirstIsInit(class, i)
  /\ LET to == Trans(class, i)[1].to
     IN IF to = 0 \/ tc_free[class] = 0
        THEN Return({"failed_to_init"}) /\ UNCHANGED store
        ELSE /\ tesla_instance_new(class, EmptyKey, to)
             /\ i' = i + 1
             /\ UNCHANGED <<lifetimes, tls_classes, tls_dyn_classes,
                            tls_dyn_capacity, pc, call, expected, max_clones,
                            clones, matched_something, cleanup_required,
                            sunset, note>>

\* The loop never set inst: tc_free is still what it was.
InitMissing ==
  /\ pc = "init" /\ i >= ta_alphabet_size[class]
  /\ tc_free[class] = Limit
  /\ Return({"no_init_transition"})
  /\ UNCHANGED store

NextCapacity(c) ==
  IF c = 0 THEN DynInitial % CapacityModulus ELSE (2 * c) % CapacityModulus

\* ev_new_instance, register the class for cleanup, go on to the scan.
InitDone ==
  /\ pc = "init" /\ i >= ta_alphabet_size[class]
  /\ tc_free[class] # Limit
  /\ UNCHANGED <<inst, tc_free, lifetimes>>
  /\ LET l == ta_lifetime[class]
         capacity == NextCapacity(tls_dyn_capacity[l])
     IN \/ /\ Len(tls_classes[l]) < StaticClasses
           /\ tls_classes' = [tls_classes EXCEPT ![l] = Append(@, class)]
           /\ Notify({"new_instance"}, "scan")
           /\ UNCHANGED <<tls_dyn_classes, tls_dyn_capacity>>
           /\ StartScan
        \/ /\ Len(tls_classes[l]) >= StaticClasses /\ Kernel
           /\ Notify({"new_instance", "out_of_static_space"}, "scan")
           /\ UNCHANGED <<tls_classes, tls_dyn_classes, tls_dyn_capacity>>
           /\ StartScan
        \/ /\ Len(tls_classes[l]) >= StaticClasses /\ ~Kernel
           /\ tls_dyn_capacity' = [tls_dyn_capacity EXCEPT ![l] = capacity]
           /\ UNCHANGED tls_classes
           /\ IF Len(tls_dyn_classes[l]) < capacity
              THEN /\ tls_dyn_classes' =
                        [tls_dyn_classes EXCEPT ![l] = Append(@, class)]
                   /\ Notify({"new_instance"}, "scan")
                   /\ StartScan
              ELSE /\ pc' = "stopped"
                   /\ note' = note \cup {"new_instance", "no_dyn_space"}
                   /\ UNCHANGED <<tls_dyn_classes, call, locals, sunset>>

-----------------------------------------------------------------------------
(* The loop over the instances: one action per outcome of tesla_action *)

Current == inst[class][i]
Scanning == pc = "scan" /\ expected > 0 /\ i < Limit
CurrentTriggers == Triggers(Current, pattern, Trans(class, symbol))

\* The rest of an iteration: the loop counters, and the cleanup flag.
EndIteration(counted, trigger_cleanup) ==
  /\ i' = i + 1
  /\ expected' = IF counted THEN expected - 1 ELSE expected
  /\ cleanup_required' = (cleanup_required \/ trigger_cleanup)
  /\ UNCHANGED <<lifetimes, tls_classes, tls_dyn_classes, tls_dyn_capacity,
                 tc_free, call, max_clones, sunset>>

Accept(t) == IF t.cleanup THEN {"accept"} ELSE {}

ScanIgnore ==
  /\ Scanning /\ Ignores(Current, pattern, Trans(class, symbol))
  /\ EndIteration(FALSE, FALSE)
  /\ UNCHANGED <<pc, inst, clones, matched_something, note>>

ScanFail ==
  /\ Scanning /\ Fails(Current, pattern, Trans(class, symbol))
  /\ EndIteration(TRUE, FALSE)
  /\ Notify({"bad_transition"}, "scan")
  /\ UNCHANGED <<inst, clones, matched_something>>

\* Faulty variant: matched_something is not set.
ScanUpdateUnmatched ==
  /\ Scanning
  /\ \E k \in CurrentTriggers :
       LET t == Trans(class, symbol)[k]
       IN /\ IsUpdate(t)
          /\ inst' = [inst EXCEPT ![class][i].state = t.to]
          /\ EndIteration(TRUE, t.cleanup)
          /\ note' = note \cup {"update"} \cup Accept(t)
  /\ UNCHANGED <<pc, clones, matched_something>>

ScanUpdate ==
  /\ Scanning
  /\ \E k \in CurrentTriggers :
       LET t == Trans(class, symbol)[k]
       IN /\ IsUpdate(t)
          /\ inst' = [inst EXCEPT ![class][i].state = t.to]
          /\ EndIteration(TRUE, t.cleanup)
          /\ note' = note \cup {"update"} \cup Accept(t)
  /\ matched_something' = TRUE
  /\ UNCHANGED <<pc, clones>>

\* Faulty variant: the bound max_clones is not tested.
ScanForkUnbounded ==
  /\ Scanning
  /\ \E k \in CurrentTriggers :
       LET t == Trans(class, symbol)[k]
       IN /\ IsFork(t)
          /\ clones' = Append(clones, [old |-> i, transition |-> t])
          /\ EndIteration(TRUE, t.cleanup)
  /\ matched_something' = TRUE
  /\ UNCHANGED <<pc, inst, note>>

ScanFork ==
  /\ Scanning
  /\ \E k \in CurrentTriggers :
       LET t == Trans(class, symbol)[k]
       IN /\ IsFork(t) /\ Len(clones) < max_clones
          /\ clones' = Append(clones, [old |-> i, transition |-> t])
          /\ EndIteration(TRUE, t.cleanup)
  /\ matched_something' = TRUE
  /\ UNCHANGED <<pc, inst, note>>

\* The early return: instances already updated stay updated, the clones
\* noted so far are dropped, and the class is not reset.
ScanTooManyClones ==
  /\ Scanning
  /\ \E k \in CurrentTriggers : IsFork(Trans(class, symbol)[k])
  /\ Len(clones) >= max_clones
  /\ Return({"too_many_clones"})
  /\ UNCHANGED store

\* tesla_instance_clear; neither tc_free nor matched_something is touched.
\* Before it, an assertion wants some instance in the target state.
ScanJoin ==
  /\ Scanning
  /\ \E k \in CurrentTriggers :
       LET t == Trans(class, symbol)[k]
       IN /\ IsJoin(t)
          /\ IF \E j \in Indices : inst[class][j].state = t.to
             THEN /\ inst' = [inst EXCEPT ![class][i] = Inactive]
                  /\ EndIteration(TRUE, t.cleanup)
                  /\ note' = note \cup {"join"}
                  /\ UNCHANGED <<pc, clones, matched_something>>
             ELSE Abort(note)

ScanDone ==
  /\ pc = "scan" /\ ~Scanning
  /\ pc' = "move" /\ i' = 1
  /\ UNCHANGED <<store, call, expected, max_clones, clones,
                 matched_something, cleanup_required, sunset, note>>

-----------------------------------------------------------------------------
(* The clones move into the class; then the call is wound up *)

Clone == clones[i]
\* Faulty variant: the whole event names the clone.
WholeEventName == pattern.key

NewName == Masked(pattern.key, Clone.transition.to_mask)
OldKey == inst[class][Clone.old].key

MoveClone ==
  /\ pc = "move" /\ i <= Len(clones)
  /\ tc_free[class] # 0
  /\ IF UnionConflicts(OldKey, NewName)
     THEN /\ tesla_instance_new(class, OldKey, inst[class][Clone.old].state)
          /\ Return({"failed_to_union"})
     ELSE /\ tesla_instance_new(class, tesla_key_union(OldKey, NewName),
                                Clone.transition.to)
          /\ i' = i + 1
          /\ note' = note \cup {"clone"} \cup Accept(Clone.transition)
          /\ UNCHANGED <<pc, call, expected, max_clones, clones,
                         matched_something, cleanup_required, sunset>>
  /\ UNCHANGED <<lifetimes, tls_classes, tls_dyn_classes, tls_dyn_capacity>>

MoveFails ==
  /\ pc = "move" /\ i <= Len(clones)
  /\ tc_free[class] = 0
  /\ Return({"failed_to_clone"})
  /\ UNCHANGED store

\* Faulty variant: the instances are not zeroed.
ResetKeepsInstances(a) ==
  /\ tc_free' = [tc_free EXCEPT ![a] = Limit]
  /\ UNCHANGED inst

\* Faulty variant: the slots are given back on top of the free ones.
ResetAddsFree(a) ==
  /\ inst' = [inst EXCEPT ![a] = [j \in Indices |-> Inactive]]
  /\ tc_free' = [tc_free EXCEPT ![a] = @ + Limit]

tesla_class_reset(a) ==
  /\ inst' = [inst EXCEPT ![a] = [j \in Indices |-> Inactive]]
  /\ tc_free' = [tc_free EXCEPT ![a] = Limit]

\* Faulty variant: an event that matches nothing is not reported.
FinishSilently ==
  /\ pc = "move" /\ i > Len(clones)
  /\ Return({})
  /\ IF cleanup_required
     THEN tesla_class_reset(class)
     ELSE UNCHANGED <<inst, tc_free>>
  /\ UNCHANGED <<lifetimes, tls_classes, tls_dyn_classes, tls_dyn_capacity>>

\* With the failstop handlers ev_no_instance does not return, so a class is
\* only reset after it when other handlers are installed.
Finish ==
  /\ pc = "move" /\ i > Len(clones)
  /\ Return(IF matched_something THEN {} ELSE {"no_instance"})
  /\ IF cleanup_required /\ pc' # "stopped"
     THEN tesla_class_reset(class)
     ELSE UNCHANGED <<inst, tc_free>>
  /\ UNCHANGED <<lifetimes, tls_classes, tls_dyn_classes, tls_dyn_capacity>>

\* A stopped program stays stopped.
Stopped == pc = "stopped" /\ UNCHANGED vars

-----------------------------------------------------------------------------
UpdateClassState ==
  \/ Ignored \/ Initialised \/ LateInit
  \/ InitSkip \/ InitFound \/ InitMissing \/ InitDone
  \/ ScanIgnore \/ ScanFail \/ ScanUpdate \/ ScanFork \/ ScanTooManyClones
  \/ ScanJoin \/ ScanDone
  \/ MoveClone \/ MoveFails \/ Finish

SunsetLoop == SunsetClass \/ SunsetStaticDone \/ SunsetReturn

Next ==
  \/ \E l \in Lifetimes : tesla_sunrise(l) \/ tesla_sunset(l)
  \/ \E a \in Automata : \E e \in Inputs[a] : tesla_update_state(a, e)
  \/ SunsetLoop
  \/ UpdateClassState
  \/ Stopped

Spec == Init /\ [][Next]_vars

\* A thread inside the library runs on: the library never waits.
FairSpec == Spec /\ WF_vars(SunsetLoop \/ UpdateClassState)
-----------------------------------------------------------------------------
(* What the engine needs of the automata and events it is given; the        *)
(* automata that the compiler makes are looked at in TeslaManifest.         *)

TransitionsOn(a, s) == {Trans(a, s)[k] : k \in DOMAIN Trans(a, s)}
TransitionsOf(a) == UNION {TransitionsOn(a, s) : s \in Symbols(a)}

\* A state has one mask, which all transitions into and out of it agree on,
\* and the first state the empty one; nothing leaves where a cleanup ends.
StatesHaveMasks ==
  \A a \in Automata : \A t, u \in TransitionsOf(a) :
    /\ t.from = u.from => t.from_mask = u.from_mask
    /\ t.to = u.from => ~t.cleanup /\ t.to_mask = u.from_mask
    /\ t.init => t.to_mask = {}

\* An event carries the words that its transitions add to a name.
EventsCarryNames ==
  \A a \in Automata : \A e \in Inputs[a] : \A t \in TransitionsOn(a, e.symbol) :
    ~t.cleanup => t.to_mask \ t.from_mask \subseteq Mask(e.pattern.key)

\* The symbol that tesla_sunset sends, without any words, only cleans up.
SunsetCleansUp ==
  \A a \in Automata : \A t \in TransitionsOn(a, ta_cleanup_symbol[a]) : t.cleanup

\* Late initialisation finds one symbol at most.
OneInitSymbol ==
  \A a \in Automata : \A s, u \in Symbols(a) :
    FirstIsInit(a, s) /\ FirstIsInit(a, u) => s = u

-----------------------------------------------------------------------------
(* Properties *)

InCall == pc \in {"lookup", "init", "scan", "move"}

StoreTypeOK ==
  /\ inst \in [Automata -> [Indices -> Instance]]
  /\ tc_free \in [Automata -> 0 .. Limit]
  /\ lifetimes \subseteq Lifetimes
  /\ tls_classes \in [Lifetimes -> Seq(Automata)]
  /\ tls_dyn_classes \in [Lifetimes -> Seq(Automata \cup {NULL})]
  /\ tls_dyn_capacity \in [Lifetimes -> Nat]

FrameTypeOK ==
  /\ pc \in PCs
  /\ class \in Automata \cup {NULL} /\ symbol \in Nat /\ pattern \in Pattern
  /\ i \in Nat /\ expected \in Int /\ max_clones \in 0 .. Limit
  /\ clones \in Seq(CloneInfo)
  /\ InCall => class \in Automata /\ symbol \in Symbols(class)
  /\ pc = "move" => i >= 1

FlagsTypeOK == matched_something \in BOOLEAN /\ cleanup_required \in BOOLEAN

SunsetTypeOK ==
  /\ sunset \in [life : Lifetimes \cup {NULL}, loop : {"none", "static", "dyn"},
                 i : Nat \ {0}, n : Nat, free : SUBSET Slots]
  /\ pc = "sunset" => sunset.loop # "none"
  /\ sunset.loop # "none" => sunset.life \in Lifetimes

\* Every variable has its type; inside a call the frame names a class and one
\* of its symbols, inside tesla_sunset the frame names a lifetime.
TypeOK == /\ StoreTypeOK /\ FrameTypeOK /\ FlagsTypeOK /\ SunsetTypeOK
          /\ note \subseteq Notes

\* tc_free never promises more slots than are unused, so the assertion "no
\* free instances but tc_free was > 0" of tesla_instance_new cannot fail,
\* although a join clears a slot without giving it back.
FreeIsLowerBound ==
  \A a \in Automata : tc_free[a] <= Cardinality(UnusedSlots(a))

\* The scan stops early once it has met as many instances as tc_free says are
\* in use (`expected`); it never stops before the last active one.
ScanCoversActive ==
  pc = "scan" =>
    Cardinality({j \in ActiveSlots(class) : j >= i}) <= expected

\* tesla_action asserts that an instance in the source state of a transition
\* has exactly the words of that transition's from_mask set, whatever forks,
\* joins, late initialisations and partial failures made the instance.
MaskMatchesState ==
  \A a \in Automata : \A j \in ActiveSlots(a) :
    \A s \in Symbols(a) : \A k \in DOMAIN Trans(a, s) :
      Trans(a, s)[k].from = inst[a][j].state
        => Trans(a, s)[k].from_mask = Mask(inst[a][j].key)

\* When the clones noted by the scan are moved, there is a slot for each of
\* those left: a clone cannot fail half way ("failed to clone instance"),
\* although max_clones was read before late initialisation took a slot.  (It
\* takes an automaton with one init symbol, and a second slot in the class.)
CloneSpaceReserved ==
  pc = "move" => Len(clones) - (i - 1) <= tc_free[class]

\* The name an instance had when the scan chose to fork it still agrees with
\* the event when the clone is made: tesla_key_union never fails.
UnionNeverFails == "failed_to_union" \notin note

\* "Update all automata instances that match a given key": an event never
\* moves an instance whose name it contradicts.  (A join, which ends the
\* instance, is taken before the names are compared; a class reset, which
\* ends them all, happens in the last step of a call.)
OnlyNamedChange ==
  [][pc = "scan" =>
       \A j \in ActiveSlots(class) :
         inst'[class][j] # inst[class][j] /\ tesla_instance_active(inst'[class][j])
           => \A w \in Mask(pattern.key) \cap Mask(inst[class][j].key) :
                pattern.key[w] = inst[class][j].key[w]]_vars

\* "No tesla_class instance was found to match a tesla_key": ev_no_instance
\* is reported only by a call that moved and cloned nothing.  (A join does
\* not count as a match: ScanJoin leaves matched_something alone.)
NoInstanceMeansNoMatch ==
  "no_instance" \in note => note \cap {"update", "clone"} = {}

\* When tesla_sunset returns, no automaton of that lifetime has an instance
\* left that could carry state into the next lifetime.
SunsetEmptiesClasses ==
  [][sunset.loop # "none" /\ sunset'.loop = "none"
       => \A a \in Automata :
            ta_lifetime[a] = sunset.life => ActiveSlots(a)' = {}]_vars

\* The classes that the next tesla_sunset for l will visit.
WillBeVisited(l) ==
  {tls_classes[l][k] : k \in 1 .. Len(tls_classes[l])}
    \cup {tls_dyn_classes[l][k] :
            k \in {m \in 1 .. Len(tls_dyn_classes[l]) :
                     \A p \in 1 .. m : tls_dyn_classes[l][p] # NULL}}

\* Between calls every class that has an instance is registered where the
\* sunset of its lifetime will find it ("Register this class for eventual
\* cleanup"), in the static or in the dynamic list, however often it was reset
\* and registered again since.  The one way to be passed over is that of
\* tls_dyn_count: an earlier sunset has zeroed the dynamic list without
\* resetting the count, and new entries come after the zeroes.
ActiveIsRegistered ==
  pc = "idle" =>
    \A a \in Automata :
      LET l == ta_lifetime[a]
      IN ActiveSlots(a) # {} =>
           \/ a \in WillBeVisited(l)
           \/ \E k \in DOMAIN tls_dyn_classes[l] : tls_dyn_classes[l][k] = NULL

\* Every call of the library returns (or stops the program), also when the
\* loops of tesla_sunset register classes in the lists they walk.
CallReturns == pc \notin {"idle", "stopped"} ~> pc \in {"idle", "stopped"}
=============================================================================
