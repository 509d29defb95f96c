------------------------- MODULE TeslaUpdateProofs --------------------------
(***************************************************************************)
(* Theorems about the automaton engine, for all automata, events and sizes *)
(* that satisfy the assumptions of TeslaUpdate: its types, the counters of *)
(* free slots, the names of instances, and the registrations of classes    *)
(* that a sunset resets.                                                   *)
(***************************************************************************)
EXTENDS TeslaUpdate, FiniteSetTheorems, TLAPS

-----------------------------------------------------------------------------
(* Keys *)

LEMMA EmptyKeyType == EmptyKey \in Key /\ NoPattern \in Pattern
  BY DEF EmptyKey, Key, NoPattern, Pattern

LEMMA MaskedType == ASSUME NEW k \in Key, NEW m PROVE Masked(k, m) \in Key
  BY DEF Masked, Key

LEMMA UnionType ==
  ASSUME NEW d \in Key, NEW s \in Key PROVE tesla_key_union(d, s) \in Key
  BY DEF tesla_key_union, Key

LEMMA InactiveType == Inactive \in Instance
  BY EmptyKeyType DEF Inactive, Instance

LEMMA InactiveIsInactive == ~tesla_instance_active(Inactive)
  BY DEF Inactive, tesla_instance_active, Mask, EmptyKey

LEMMA TransitionType ==
  ASSUME NEW a \in Automata, NEW s \in Symbols(a), NEW k \in DOMAIN Trans(a, s)
  PROVE  Trans(a, s)[k] \in Transition
  BY AutomataAssumption

LEMMA FirstTransitionType ==
  ASSUME NEW a \in Automata, NEW s \in Symbols(a)
  PROVE  Trans(a, s)[1] \in Transition /\ Len(Trans(a, s)) \in Nat
  BY AutomataAssumption

-----------------------------------------------------------------------------
(* Type correctness *)

LEMMA InitTypeOK == Init => TypeOK
  <1> SUFFICES ASSUME Init PROVE TypeOK
    OBVIOUS
  <1> USE DEF Init
  <1>1. StoreTypeOK
    BY InactiveType, LimitAssumption DEF StoreTypeOK
  <1>2. FrameTypeOK
    BY EmptyKeyType, LimitAssumption DEF FrameTypeOK, PCs, InCall
  <1>3. SunsetTypeOK
    BY DEF SunsetTypeOK, NoSunset
  <1>4. FlagsTypeOK
    BY DEF FlagsTypeOK
  <1>5. QED
    BY <1>1, <1>2, <1>3, <1>4 DEF TypeOK

\* Leaving tesla_update_class_state keeps the types of the frame.
LEMMA ReturnTypes ==
  ASSUME TypeOK, NEW e \in SUBSET Notes, Return(e)
  PROVE  FrameTypeOK' /\ FlagsTypeOK' /\ SunsetTypeOK' /\ note' \subseteq Notes
  <1> USE DEF TypeOK
  <1>1. pc' \in {"idle", "sunset", "stopped"}
    BY DEF Return, Notify, Caller
  <1>2. FrameTypeOK'
    BY <1>1, EmptyKeyType, LimitAssumption
    DEF Return, FrameTypeOK, PCs, InCall
  <1>3. FlagsTypeOK'
    BY DEF Return, FlagsTypeOK
  <1>4. SunsetTypeOK'
    BY DEF Return, Notify, Caller, SunsetTypeOK
  <1>5. note' \subseteq Notes
    BY DEF Return, Notify
  <1>6. QED
    BY <1>2, <1>3, <1>4, <1>5

\* A new instance takes a slot and a unit of tc_free.
LEMMA NewInstanceTypes ==
  ASSUME StoreTypeOK, NEW a \in Automata, NEW k \in Key, NEW st \in Nat,
         tc_free[a] # 0, tesla_instance_new(a, k, st)
  PROVE  /\ inst' \in [Automata -> [Indices -> Instance]]
         /\ tc_free' \in [Automata -> 0 .. Limit]
  BY LimitAssumption DEF StoreTypeOK, tesla_instance_new, Instance

\* Abbreviations of the groups of variables that most steps leave alone.
LEMMA StoreKept == ASSUME StoreTypeOK, UNCHANGED store PROVE StoreTypeOK'
  BY DEF StoreTypeOK, store

LEMMA EnterTypes ==
  ASSUME TypeOK, NEW a \in Automata, NEW s \in Symbols(a), NEW p \in Pattern,
         Enter(a, s, p)
  PROVE  FrameTypeOK' /\ FlagsTypeOK' /\ note' \subseteq Notes
  <1> USE DEF TypeOK, Enter
  <1>1. s \in Nat
    BY AutomataAssumption DEF Symbols
  <1>2. FrameTypeOK'
    BY <1>1 DEF FrameTypeOK, StoreTypeOK, PCs, InCall
  <1>3. FlagsTypeOK'
    BY DEF FlagsTypeOK
  <1>4. QED
    BY <1>2, <1>3

LEMMA AbortTypes ==
  ASSUME TypeOK, NEW e \in SUBSET Notes, Abort(e) PROVE TypeOK'
  <1> USE DEF TypeOK, Abort
  <1>1. StoreTypeOK'
    BY StoreKept
  <1>2. FrameTypeOK'
    BY DEF FrameTypeOK, PCs, InCall, call, locals
  <1>3. FlagsTypeOK'
    BY DEF FlagsTypeOK, locals
  <1>4. SunsetTypeOK'
    BY DEF SunsetTypeOK
  <1>5. note' \subseteq Notes
    BY DEF Notes
  <1>6. QED
    BY <1>1, <1>2, <1>3, <1>4, <1>5

LEMMA SunriseTypes ==
  ASSUME TypeOK, NEW l \in Lifetimes, tesla_sunrise(l) PROVE TypeOK'
  <1>1. CASE LifetimeSpace
    <2> USE <1>1 DEF TypeOK, tesla_sunrise
    <2>1. StoreTypeOK'
      BY DEF StoreTypeOK
    <2>2. FrameTypeOK'
      BY DEF FrameTypeOK, PCs, InCall, call, locals
    <2>3. FlagsTypeOK'
      BY DEF FlagsTypeOK, locals
    <2>4. SunsetTypeOK'
      BY DEF SunsetTypeOK
    <2>5. note' \subseteq Notes
      BY DEF Notes
    <2>6. QED
      BY <2>1, <2>2, <2>3, <2>4, <2>5
  <1>2. CASE ~LifetimeSpace
    BY <1>2, AbortTypes DEF tesla_sunrise, Notes
  <1>3. QED
    BY <1>1, <1>2

LEMMA SunsetTypes ==
  ASSUME TypeOK, NEW l \in Lifetimes, tesla_sunset(l) PROVE TypeOK'
  <1>1. CASE LifetimeSpace /\ l \in lifetimes
    <2> USE <1>1 DEF TypeOK, tesla_sunset
    <2>1. StoreTypeOK'
      BY StoreKept
    <2>2. FrameTypeOK'
      BY DEF FrameTypeOK, PCs, InCall, call, locals
    <2>3. FlagsTypeOK'
      BY DEF FlagsTypeOK, locals
    <2>4. SunsetTypeOK'
      BY InputsAssumption, SizesAssumption DEF SunsetTypeOK
    <2>5. note' \subseteq Notes
      BY DEF Notes
    <2>6. QED
      BY <2>1, <2>2, <2>3, <2>4, <2>5
  <1>2. CASE ~(LifetimeSpace /\ l \in lifetimes)
    BY <1>2, AbortTypes DEF tesla_sunset, Notes
  <1>3. QED
    BY <1>1, <1>2

LEMMA NextLoopTypes ==
  ASSUME SunsetTypeOK, sunset.loop # "none", NEW n \in Nat,
         sunset' = [sunset EXCEPT !.loop = "dyn", !.i = 1, !.n = n]
  PROVE  SunsetTypeOK'
  <1>1. sunset' = [life |-> sunset.life, loop |-> "dyn", i |-> 1, n |-> n,
                   free |-> sunset.free]
    BY DEF SunsetTypeOK
  <1>2. sunset'.loop = "dyn" /\ sunset'.life = sunset.life
    BY <1>1
  <1>3. sunset.life \in Lifetimes /\ sunset.free \in SUBSET Slots
    BY DEF SunsetTypeOK
  <1>4. QED
    BY <1>1, <1>2, <1>3 DEF SunsetTypeOK

LEMMA SunsetLoopTypes ==
  ASSUME TypeOK, SunsetLoop PROVE TypeOK'
  <1> USE DEF TypeOK
  <1>0. pc = "sunset" => sunset.life \in Lifetimes
    BY DEF SunsetTypeOK
  <1>1. CASE SunsetClass
    <2> DEFINE a == SunsetList[sunset.i]
               p == [key |-> EmptyKey, free |-> sunset.free]
    <2>1. a \in Automata
      BY <1>0, <1>1
      DEF SunsetClass, SunsetHasClass, SunsetList, StoreTypeOK, SunsetTypeOK
    <2>2. ta_cleanup_symbol[a] \in Symbols(a)
      BY <2>1, AutomataAssumption
    <2>3. p \in Pattern
      BY EmptyKeyType DEF SunsetTypeOK, Pattern
    <2>4. Enter(a, ta_cleanup_symbol[a], p)
      BY <1>1 DEF SunsetClass
    <2>5. FrameTypeOK' /\ FlagsTypeOK' /\ note' \subseteq Notes
      BY <2>1, <2>2, <2>3, <2>4, EnterTypes
    <2>6. SunsetTypeOK'
      BY <1>1 DEF SunsetClass, SunsetTypeOK, Enter
    <2>7. StoreTypeOK'
      BY <1>1, StoreKept DEF SunsetClass
    <2>8. QED
      BY <2>5, <2>6, <2>7
  <1>2. CASE SunsetStaticDone
    <2> USE <1>2 DEF SunsetStaticDone
    <2>1. tls_classes' \in [Lifetimes -> Seq(Automata)]
      <3>1. << >> \in Seq(Automata)
        OBVIOUS
      <3>2. QED
        BY <3>1 DEF StoreTypeOK
    <2>2. StoreTypeOK'
      BY <2>1 DEF StoreTypeOK
    <2>3. FrameTypeOK'
      BY DEF FrameTypeOK, InCall, call, locals
    <2>4. FlagsTypeOK'
      BY DEF FlagsTypeOK, locals
    <2> DEFINE n == Len(tls_dyn_classes[sunset.life])
    <2>5. n \in Nat
      BY <1>0 DEF StoreTypeOK
    <2>6. SunsetTypeOK'
      BY <2>5, NextLoopTypes
    <2>7. QED
      BY <2>2, <2>3, <2>4, <2>6
  <1>3. CASE SunsetReturn
    <2> USE <1>3 DEF SunsetReturn
    <2>1. StoreTypeOK'
      BY <1>0 DEF StoreTypeOK
    <2>2. FrameTypeOK'
      BY DEF FrameTypeOK, PCs, InCall, call, locals
    <2>3. FlagsTypeOK'
      BY DEF FlagsTypeOK, locals
    <2>4. SunsetTypeOK'
      BY DEF SunsetTypeOK, NoSunset
    <2>5. QED
      BY <2>1, <2>2, <2>3, <2>4
  <1>4. QED
    BY <1>1, <1>2, <1>3 DEF SunsetLoop

LEMMA UpdateStateTypes ==
  ASSUME TypeOK, NEW a \in Automata, NEW e \in Inputs[a],
         tesla_update_state(a, e)
  PROVE  TypeOK'
  <1> USE DEF TypeOK, tesla_update_state
  <1>1. FrameTypeOK' /\ FlagsTypeOK' /\ note' \subseteq Notes
    BY EnterTypes, InputsAssumption
  <1>2. StoreTypeOK'
    BY StoreKept
  <1>3. SunsetTypeOK'
    BY DEF SunsetTypeOK, Enter
  <1>4. QED
    BY <1>1, <1>2, <1>3

\* The steps that leave tesla_update_class_state and keep the store.
LEMMA LeaveTypes ==
  ASSUME TypeOK, NEW e \in SUBSET Notes, Return(e), UNCHANGED store
  PROVE  TypeOK'
  BY ReturnTypes, StoreKept DEF TypeOK

\* The frame of a step that goes on inside tesla_update_class_state.
LEMMA GoOnTypes ==
  ASSUME TypeOK, InCall, pc' \in {"init", "scan", "move", "stopped"},
         UNCHANGED <<call, max_clones, sunset>>,
         i' \in Nat, pc' = "move" => i' >= 1, expected' \in Int,
         clones' \in Seq(CloneInfo)
  PROVE  FrameTypeOK' /\ SunsetTypeOK'
  <1> USE DEF TypeOK
  <1>1. FrameTypeOK'
    BY DEF FrameTypeOK, PCs, InCall, call
  <1>2. SunsetTypeOK'
    BY DEF SunsetTypeOK
  <1>3. QED
    BY <1>1, <1>2

LEMMA StartScanTypes ==
  ASSUME TypeOK, InCall, StoreTypeOK', pc' \in {"scan", "stopped"}, StartScan
  PROVE  FrameTypeOK' /\ FlagsTypeOK' /\ SunsetTypeOK'
  <1>1. class \in Automata /\ clones' \in Seq(CloneInfo)
    BY DEF TypeOK, FrameTypeOK, StartScan
  <1>2. i' \in Nat /\ expected' \in Int
    BY <1>1, LimitAssumption DEF StartScan, StoreTypeOK
  <1>3. FrameTypeOK' /\ SunsetTypeOK'
    BY <1>1, <1>2, GoOnTypes DEF StartScan
  <1>4. FlagsTypeOK'
    BY DEF TypeOK, FlagsTypeOK, StartScan
  <1>5. QED
    BY <1>3, <1>4

LEMMA LookupTypes ==
  ASSUME TypeOK, Ignored \/ Initialised \/ LateInit PROVE TypeOK'
  <1>1. CASE Ignored
    BY <1>1, LeaveTypes DEF Ignored, Notes
  <1>2. CASE Initialised
    <2>1. StoreTypeOK'
      BY <1>2, StoreKept DEF Initialised, TypeOK
    <2>2. FrameTypeOK' /\ FlagsTypeOK' /\ SunsetTypeOK'
      BY <1>2, <2>1, StartScanTypes DEF Initialised, InCall
    <2>3. QED
      BY <1>2, <2>1, <2>2 DEF Initialised, TypeOK
  <1>3. CASE LateInit
    <2> USE <1>3 DEF LateInit, TypeOK
    <2>1. StoreTypeOK'
      BY StoreKept
    <2>2. FrameTypeOK'
      BY DEF FrameTypeOK, PCs, InCall, call, locals
    <2>3. FlagsTypeOK'
      BY DEF FlagsTypeOK, locals
    <2>4. SunsetTypeOK'
      BY DEF SunsetTypeOK
    <2>5. QED
      BY <2>1, <2>2, <2>3, <2>4
  <1>4. QED
    BY <1>1, <1>2, <1>3

LEMMA InitSearchTypes ==
  ASSUME TypeOK, InitSkip \/ InitFound \/ InitMissing PROVE TypeOK'
  <1> USE DEF TypeOK
  <1>0. /\ class \in Automata /\ i \in Nat /\ expected \in Int
        /\ clones \in Seq(CloneInfo)
    BY DEF FrameTypeOK, InCall, InitSkip, InitFound, InitMissing
  <1>1. ASSUME i < ta_alphabet_size[class]
        PROVE  Len(Trans(class, i)) \in Nat /\ Trans(class, i)[1] \in Transition
    <2>1. i \in Symbols(class)
      BY <1>0, <1>1, AutomataAssumption DEF Symbols
    <2>2. QED
      BY <1>0, <2>1, FirstTransitionType
  <1>2. CASE InitSkip
    <2> USE <1>2 DEF InitSkip
    <2>1. i' \in Nat
      BY <1>0, <1>1
    <2>2. StoreTypeOK'
      BY StoreKept
    <2>3. FrameTypeOK' /\ SunsetTypeOK'
      BY <1>0, <2>1, GoOnTypes DEF InCall
    <2>4. FlagsTypeOK'
      BY DEF FlagsTypeOK
    <2>5. QED
      BY <2>2, <2>3, <2>4
  <1>3. CASE InitFound
    <2> DEFINE to == Trans(class, i)[1].to
    <2>1. CASE to = 0 \/ tc_free[class] = 0
      BY <1>3, <2>1, LeaveTypes DEF InitFound, Notes, Failures
    <2>2. CASE ~(to = 0 \/ tc_free[class] = 0)
      <3>1. to \in Nat
        BY <1>1, <1>3 DEF InitFound, Transition
      <3>2. tesla_instance_new(class, EmptyKey, to)
        BY <1>3, <2>2 DEF InitFound
      <3>3. StoreTypeOK'
        BY <1>0, <1>3, <2>2, <3>1, <3>2, EmptyKeyType, NewInstanceTypes
        DEF InitFound, StoreTypeOK
      <3>4. FrameTypeOK' /\ SunsetTypeOK'
        BY <1>0, <1>3, <2>2, GoOnTypes DEF InitFound, InCall
      <3>5. FlagsTypeOK' /\ note' \subseteq Notes
        BY <1>3, <2>2 DEF InitFound, FlagsTypeOK
      <3>6. QED
        BY <3>3, <3>4, <3>5
    <2>3. QED
      BY <2>1, <2>2
  <1>4. CASE InitMissing
    BY <1>4, LeaveTypes DEF InitMissing, Notes, Failures
  <1>5. QED
    BY <1>2, <1>3, <1>4

LEMMA AppendTypes ==
  ASSUME NEW S, NEW f \in [Lifetimes -> Seq(S)], NEW l \in Lifetimes,
         NEW x \in S
  PROVE  [f EXCEPT ![l] = Append(@, x)] \in [Lifetimes -> Seq(S)]
  <1>1. Append(f[l], x) \in Seq(S)
    OBVIOUS
  <1>2. QED
    BY <1>1

LEMMA NextCapacityType ==
  ASSUME NEW c \in Nat PROVE NextCapacity(c) \in Nat
  BY SizesAssumption DEF NextCapacity

LEMMA InitDoneTypes ==
  ASSUME TypeOK, InitDone PROVE TypeOK'
  <1> DEFINE l == ta_lifetime[class]
             capacity == NextCapacity(tls_dyn_capacity[l])
  <1>1. class \in Automata /\ l \in Lifetimes /\ InCall
    BY AutomataAssumption DEF TypeOK, FrameTypeOK, InCall, InitDone
  <1>2. capacity \in Nat
    BY <1>1, NextCapacityType DEF TypeOK, StoreTypeOK
  <1>3. tls_classes' \in [Lifetimes -> Seq(Automata)]
    <2>1. CASE UNCHANGED tls_classes
      BY <2>1 DEF TypeOK, StoreTypeOK
    <2>2. CASE tls_classes' = [tls_classes EXCEPT ![l] = Append(@, class)]
      BY <1>1, <2>2, AppendTypes DEF TypeOK, StoreTypeOK
    <2>3. QED
      BY <2>1, <2>2 DEF InitDone
  <1>4. tls_dyn_classes' \in [Lifetimes -> Seq(Automata \cup {NULL})]
    <2>1. CASE UNCHANGED tls_dyn_classes
      BY <2>1 DEF TypeOK, StoreTypeOK
    <2>2. CASE tls_dyn_classes' =
                 [tls_dyn_classes EXCEPT ![l] = Append(@, class)]
      <3>1. class \in Automata \cup {NULL}
        BY <1>1
      <3>2. tls_dyn_classes \in [Lifetimes -> Seq(Automata \cup {NULL})]
        BY DEF TypeOK, StoreTypeOK
      <3>3. QED
        BY <1>1, <2>2, <3>1, <3>2, AppendTypes
    <2>3. QED
      BY <2>1, <2>2 DEF InitDone
  <1>5. tls_dyn_capacity' \in [Lifetimes -> Nat]
    <2>1. CASE UNCHANGED tls_dyn_capacity
      BY <2>1 DEF TypeOK, StoreTypeOK
    <2>2. CASE tls_dyn_capacity' = [tls_dyn_capacity EXCEPT ![l] = capacity]
      <3> HIDE DEF capacity
      <3> QED BY <1>1, <1>2, <2>2 DEF TypeOK, StoreTypeOK
    <2>3. QED
      BY <2>1, <2>2 DEF InitDone
  <1>6. StoreTypeOK'
    BY <1>3, <1>4, <1>5 DEF TypeOK, StoreTypeOK, InitDone
  <1>7. /\ pc' \in {"scan", "stopped"}
        /\ note' \subseteq Notes
    BY DEF InitDone, Notify, TypeOK, Notes, Failures
  <1>8. CASE StartScan
    BY <1>1, <1>6, <1>7, <1>8, StartScanTypes DEF TypeOK
  <1>9. CASE pc' = "stopped" /\ UNCHANGED <<call, locals, sunset>>
    <2> USE <1>9 DEF TypeOK
    <2>1. FrameTypeOK'
      BY DEF FrameTypeOK, PCs, InCall, call, locals
    <2>2. FlagsTypeOK'
      BY DEF FlagsTypeOK, locals
    <2>3. SunsetTypeOK'
      BY DEF SunsetTypeOK
    <2>4. QED
      BY <1>6, <1>7, <2>1, <2>2, <2>3
  <1>10. QED
    BY <1>8, <1>9 DEF InitDone

\* A transition that an instance takes is one of the automaton's.
LEMMA TriggerTypes ==
  ASSUME TypeOK, InCall, NEW k \in CurrentTriggers
  PROVE  Trans(class, symbol)[k] \in Transition
  <1>1. class \in Automata /\ symbol \in Symbols(class)
    BY DEF TypeOK, FrameTypeOK
  <1>2. k \in DOMAIN Trans(class, symbol)
    BY DEF CurrentTriggers, Triggers
  <1>3. QED
    BY <1>1, <1>2, TransitionType

\* An iteration of the scan, given the types of what it writes itself.
LEMMA EndIterationTypes ==
  ASSUME TypeOK, pc = "scan", NEW c, NEW t \in BOOLEAN, EndIteration(c, t),
         inst' \in [Automata -> [Indices -> Instance]],
         clones' \in Seq(CloneInfo), pc' \in {"scan", "stopped"},
         matched_something' \in BOOLEAN, note' \subseteq Notes
  PROVE  TypeOK'
  <1>1. StoreTypeOK'
    BY DEF TypeOK, StoreTypeOK, EndIteration
  <1>2. i' \in Nat /\ expected' \in Int
    <2>1. i \in Nat /\ expected \in Int
      BY DEF TypeOK, FrameTypeOK
    <2>2. i' = i + 1 /\ (expected' = expected - 1 \/ expected' = expected)
      BY DEF EndIteration
    <2>3. QED
      BY <2>1, <2>2
  <1>3. FrameTypeOK' /\ SunsetTypeOK'
    BY <1>2, GoOnTypes DEF EndIteration, InCall
  <1>4. FlagsTypeOK'
    <2>1. cleanup_required \in BOOLEAN
      BY DEF TypeOK, FlagsTypeOK
    <2>2. cleanup_required' = (cleanup_required \/ t)
      BY DEF EndIteration
    <2>3. QED
      BY <2>1, <2>2 DEF FlagsTypeOK
  <1>5. QED
    BY <1>1, <1>3, <1>4 DEF TypeOK

LEMMA NewStateTypes ==
  ASSUME NEW f \in [Automata -> [Indices -> Instance]], NEW a \in Automata,
         NEW j \in Indices, NEW st \in Nat
  PROVE  [f EXCEPT ![a][j].state = st] \in [Automata -> [Indices -> Instance]]
  <1> DEFINE x == [f[a][j] EXCEPT !.state = st]
             g == [f[a] EXCEPT ![j] = x]
  <1>1. x \in Instance
    BY DEF Instance
  <1>2. [f EXCEPT ![a][j].state = st] = [f EXCEPT ![a] = g]
    OBVIOUS
  <1> HIDE DEF x
  <1>3. g \in [Indices -> Instance]
    BY <1>1
  <1> HIDE DEF g
  <1>4. [f EXCEPT ![a] = g] \in [Automata -> [Indices -> Instance]]
    BY <1>3
  <1>5. QED
    BY <1>2, <1>4

LEMMA ScanTypes ==
  ASSUME TypeOK,
         \/ ScanIgnore \/ ScanFail \/ ScanUpdate \/ ScanFork
         \/ ScanTooManyClones \/ ScanJoin \/ ScanDone
  PROVE  TypeOK'
  <1>0. /\ pc = "scan" /\ InCall
        /\ inst \in [Automata -> [Indices -> Instance]]
        /\ class \in Automata /\ clones \in Seq(CloneInfo)
        /\ i \in Nat /\ expected \in Int /\ note \subseteq Notes
    <2>1. pc = "scan"
      BY DEF ScanIgnore, ScanFail, ScanUpdate, ScanFork, ScanTooManyClones,
             ScanJoin, ScanDone, Scanning
    <2>2. QED
      BY <2>1 DEF TypeOK, FrameTypeOK, StoreTypeOK, InCall
  <1>1. matched_something \in BOOLEAN
    BY DEF TypeOK, FlagsTypeOK
  <1>2. Scanning => i \in Indices
    BY <1>0, LimitAssumption DEF Scanning, Indices
  <1>3. CASE ScanIgnore
    BY <1>0, <1>1, <1>3, EndIterationTypes DEF ScanIgnore
  <1>4. CASE ScanFail
    <2>1. pc' \in {"scan", "stopped"} /\ note' \subseteq Notes
      BY <1>0, <1>4 DEF ScanFail, Notify, Notes, Failures
    <2>2. QED
      BY <1>0, <1>1, <1>4, <2>1, EndIterationTypes DEF ScanFail
  <1>5. CASE ScanUpdate
    <2>1. PICK k \in CurrentTriggers :
            LET t == Trans(class, symbol)[k]
            IN /\ inst' = [inst EXCEPT ![class][i].state = t.to]
               /\ EndIteration(TRUE, t.cleanup)
               /\ note' = note \cup {"update"} \cup Accept(t)
      BY <1>5 DEF ScanUpdate
    <2> DEFINE t == Trans(class, symbol)[k]
    <2>2. t \in Transition
      BY <1>0, TriggerTypes
    <2>3. t.to \in Nat /\ t.cleanup \in BOOLEAN
      BY <2>2 DEF Transition
    <2>4. inst' \in [Automata -> [Indices -> Instance]]
      <3>1. inst' = [inst EXCEPT ![class][i].state = t.to]
        BY <2>1
      <3> HIDE DEF t
      <3>2. i \in Indices
        BY <1>2, <1>5 DEF ScanUpdate
      <3>3. QED
        BY <1>0, <2>3, <3>1, <3>2, NewStateTypes
    <2>5. note' \subseteq Notes
      BY <1>0, <2>1 DEF Accept, Notes
    <2>6. matched_something' \in BOOLEAN /\ pc' = pc /\ clones' = clones
      BY <1>5 DEF ScanUpdate
    <2>7. QED
      BY <1>0, <2>1, <2>3, <2>4, <2>5, <2>6, EndIterationTypes
  <1>6. CASE ScanFork
    <2>1. PICK k \in CurrentTriggers :
            LET t == Trans(class, symbol)[k]
            IN /\ clones' = Append(clones, [old |-> i, transition |-> t])
               /\ EndIteration(TRUE, t.cleanup)
      BY <1>6 DEF ScanFork
    <2> DEFINE t == Trans(class, symbol)[k]
    <2>2. t \in Transition
      BY <1>0, TriggerTypes
    <2>3. t.cleanup \in BOOLEAN
      BY <2>2 DEF Transition
    <2>4. clones' \in Seq(CloneInfo)
      <3>1. clones' = Append(clones, [old |-> i, transition |-> t])
        BY <2>1
      <3>2. [old |-> i, transition |-> t] \in CloneInfo
        BY <1>2, <1>6, <2>2 DEF ScanFork, CloneInfo
      <3> HIDE DEF t
      <3>3. QED
        BY <1>0, <3>1, <3>2
    <2>5. /\ matched_something' \in BOOLEAN /\ pc' = pc /\ inst' = inst
          /\ note' = note
      BY <1>6 DEF ScanFork
    <2>6. QED
      BY <1>0, <2>1, <2>3, <2>4, <2>5, EndIterationTypes
  <1>7. CASE ScanTooManyClones
    BY <1>7, LeaveTypes DEF ScanTooManyClones, Notes, Failures
  <1>8. CASE ScanJoin
    <2> DEFINE Merged(t) == /\ inst' = [inst EXCEPT ![class][i] = Inactive]
                            /\ EndIteration(TRUE, t.cleanup)
                            /\ note' = note \cup {"join"}
                            /\ UNCHANGED <<pc, clones, matched_something>>
    <2>0. \/ Abort(note)
          \/ \E k \in CurrentTriggers : Merged(Trans(class, symbol)[k])
      BY <1>8 DEF ScanJoin
    <2>1. CASE Abort(note)
      BY <1>0, <2>1, AbortTypes
    <2>2. CASE \E k \in CurrentTriggers : Merged(Trans(class, symbol)[k])
      <3>1. PICK k \in CurrentTriggers :
              LET t == Trans(class, symbol)[k]
              IN /\ inst' = [inst EXCEPT ![class][i] = Inactive]
                 /\ EndIteration(TRUE, t.cleanup)
                 /\ note' = note \cup {"join"}
                 /\ UNCHANGED <<pc, clones, matched_something>>
        BY <2>2
      <3> DEFINE t == Trans(class, symbol)[k]
      <3>2. t \in Transition
        BY <1>0, TriggerTypes
      <3>3. t.cleanup \in BOOLEAN
        BY <3>2 DEF Transition
      <3>4. inst' \in [Automata -> [Indices -> Instance]]
        BY <1>0, <3>1, InactiveType
      <3>5. note' \subseteq Notes
        BY <1>0, <3>1 DEF Notes
      <3>6. QED
        BY <1>0, <1>1, <3>1, <3>3, <3>4, <3>5, EndIterationTypes
    <2>3. QED
      BY <2>0, <2>1, <2>2
  <1>9. CASE ScanDone
    <2> USE <1>9 DEF ScanDone, TypeOK
    <2>1. StoreTypeOK'
      BY StoreKept
    <2>2. FrameTypeOK' /\ SunsetTypeOK'
      BY <1>0, GoOnTypes
    <2>3. FlagsTypeOK'
      BY DEF FlagsTypeOK
    <2>4. QED
      BY <2>1, <2>2, <2>3
  <1>10. QED
    BY <1>3, <1>4, <1>5, <1>6, <1>7, <1>8, <1>9

LEMMA MoveTypes ==
  ASSUME TypeOK, MoveClone \/ MoveFails \/ Finish PROVE TypeOK'
  <1>0. /\ pc = "move" /\ class \in Automata /\ i \in Nat \ {0}
        /\ clones \in Seq(CloneInfo) /\ pattern \in Pattern
        /\ expected \in Int /\ InCall /\ StoreTypeOK
    BY DEF MoveClone, MoveFails, Finish, TypeOK, FrameTypeOK, InCall
  <1>1. CASE MoveClone
    <2>1. Clone.old \in Indices /\ Clone.transition.to \in Nat
      <3>1. Clone \in CloneInfo
        BY <1>0, <1>1 DEF MoveClone, Clone
      <3>2. QED
        BY <3>1 DEF CloneInfo, Transition
    <2>2. OldKey \in Key /\ inst[class][Clone.old].state \in Nat
      BY <1>0, <2>1 DEF OldKey, StoreTypeOK, Instance
    <2>3. tesla_key_union(OldKey, NewName) \in Key
      BY <1>0, <2>2, MaskedType, UnionType DEF NewName, Pattern
    <2>4. CASE UnionConflicts(OldKey, NewName)
      <3>1. /\ tesla_instance_new(class, OldKey, inst[class][Clone.old].state)
            /\ Return({"failed_to_union"})
            /\ tc_free[class] # 0
            /\ UNCHANGED <<lifetimes, tls_classes, tls_dyn_classes,
                           tls_dyn_capacity>>
        BY <1>1, <2>4 DEF MoveClone
      <3>2. StoreTypeOK'
        BY <1>0, <2>2, <3>1, NewInstanceTypes DEF StoreTypeOK
      <3>3. QED
        BY <3>1, <3>2, ReturnTypes DEF TypeOK, Notes, Failures
    <2>5. CASE ~UnionConflicts(OldKey, NewName)
      <3>1. /\ tesla_instance_new(class, tesla_key_union(OldKey, NewName),
                                  Clone.transition.to)
            /\ tc_free[class] # 0
            /\ i' = i + 1
            /\ note' = note \cup {"clone"} \cup Accept(Clone.transition)
            /\ UNCHANGED <<lifetimes, tls_classes, tls_dyn_classes,
                           tls_dyn_capacity>>
            /\ UNCHANGED <<pc, call, expected, max_clones, clones,
                           matched_something, cleanup_required, sunset>>
        BY <1>1, <2>5 DEF MoveClone
      <3>2. StoreTypeOK'
        BY <1>0, <2>1, <2>3, <3>1, NewInstanceTypes DEF StoreTypeOK
      <3>3. FrameTypeOK' /\ SunsetTypeOK'
        BY <1>0, <3>1, GoOnTypes
      <3>4. FlagsTypeOK'
        BY <3>1 DEF TypeOK, FlagsTypeOK
      <3>5. note' \subseteq Notes
        BY <3>1 DEF TypeOK, Accept, Notes
      <3>6. QED
        BY <3>2, <3>3, <3>4, <3>5 DEF TypeOK
    <2>6. QED
      BY <2>4, <2>5
  <1>2. CASE MoveFails
    BY <1>2, LeaveTypes DEF MoveFails, Notes, Failures
  <1>3. CASE Finish
    <2>1. PICK e \in SUBSET Notes : Return(e)
      BY <1>3 DEF Finish, Notes, Failures
    <2>2. CASE tesla_class_reset(class)
      BY <1>0, <1>3, <2>1, <2>2, InactiveType, ReturnTypes, LimitAssumption
      DEF Finish, tesla_class_reset, TypeOK, StoreTypeOK
    <2>3. CASE UNCHANGED <<inst, tc_free>>
      BY <1>0, <1>3, <2>1, <2>3, LeaveTypes DEF Finish, store
    <2>4. QED
      BY <1>3, <2>2, <2>3 DEF Finish
  <1>4. QED
    BY <1>1, <1>2, <1>3

LEMMA StutterTypes ==
  ASSUME TypeOK, UNCHANGED vars PROVE TypeOK'
  <1> USE DEF TypeOK, vars
  <1>1. StoreTypeOK'
    BY StoreKept
  <1>2. FrameTypeOK'
    BY DEF FrameTypeOK, InCall, call, locals
  <1>3. FlagsTypeOK'
    BY DEF FlagsTypeOK, locals
  <1>4. SunsetTypeOK'
    BY DEF SunsetTypeOK
  <1>5. QED
    BY <1>1, <1>2, <1>3, <1>4

\* TypeOK is inductive.
LEMMA NextTypeOK ==
  ASSUME TypeOK, [Next]_vars PROVE TypeOK'
  <1>1. CASE \E l \in Lifetimes : tesla_sunrise(l) \/ tesla_sunset(l)
    BY <1>1, SunriseTypes, SunsetTypes
  <1>2. CASE \E a \in Automata : \E e \in Inputs[a] : tesla_update_state(a, e)
    BY <1>2, UpdateStateTypes
  <1>3. CASE SunsetLoop
    BY <1>3, SunsetLoopTypes
  <1>4. CASE UpdateClassState
    BY <1>4, LookupTypes, InitSearchTypes, InitDoneTypes, ScanTypes, MoveTypes
    DEF UpdateClassState
  <1>5. CASE Stopped \/ UNCHANGED vars
    BY <1>5, StutterTypes DEF Stopped
  <1>6. QED
    BY <1>1, <1>2, <1>3, <1>4, <1>5 DEF Next

\* In every state of the engine, for all automata, events and sizes: the
\* store and the frames of tesla_update_class_state and tesla_sunset are
\* well formed; in particular tc_free stays between 0 and tc_limit.
THEOREM TypeCorrect == Spec => []TypeOK
  <1>1. Init => TypeOK
    BY InitTypeOK
  <1>2. TypeOK /\ [Next]_vars => TypeOK'
    BY NextTypeOK
  <1>3. QED
    BY <1>1, <1>2, PTL DEF Spec

-----------------------------------------------------------------------------
(* tc_free and the two decisions that rest on it: tesla_instance_new's     *)
(* assertion that a free slot exists, and the early end of the scan.       *)
(* TypeOK /\ FreeIsLowerBound /\ ScanCoversActive is inductive.            *)

-----------------------------------------------------------------------------
(* Counting slots *)

LEMMA IndicesFinite == IsFiniteSet(Indices) /\ Cardinality(Indices) = Limit
  BY FS_Interval, LimitAssumption DEF Indices

LEMMA SlotsFinite ==
  ASSUME NEW S, S \subseteq Indices
  PROVE  IsFiniteSet(S) /\ Cardinality(S) \in Nat
  BY IndicesFinite, FS_Subset, FS_CardinalityType

LEMMA FewerSlots ==
  ASSUME NEW S, NEW T, S \subseteq T, T \subseteq Indices
  PROVE  Cardinality(S) <= Cardinality(T)
  BY SlotsFinite, FS_Subset

LEMMA OneSlotLess ==
  ASSUME NEW S, S \subseteq Indices, NEW j \in S
  PROVE  Cardinality(S \ {j}) = Cardinality(S) - 1
  BY SlotsFinite, FS_RemoveElement

LEMMA Complement ==
  ASSUME NEW S, S \subseteq Indices
  PROVE  Cardinality(S) = Limit - Cardinality(Indices \ S)
  <1>1. Indices \cap S = S /\ Indices \ S \subseteq Indices
    OBVIOUS
  <1>2. Cardinality(Indices \ S) = Cardinality(Indices) - Cardinality(S)
    BY <1>1, IndicesFinite, FS_Difference
  <1>3. Cardinality(S) \in Nat /\ Cardinality(Indices \ S) \in Nat
    BY <1>1, SlotsFinite
  <1>4. QED
    BY <1>2, <1>3, IndicesFinite, LimitAssumption

-----------------------------------------------------------------------------
(* tc_free never promises more than is there *)

\* A step that fills no slot and leaves tc_free alone.
LEMMA NothingFilled ==
  ASSUME FreeIsLowerBound, TypeOK, UNCHANGED tc_free,
         \A a \in Automata : UnusedSlots(a) \subseteq UnusedSlots(a)'
  PROVE  FreeIsLowerBound'
  <1> SUFFICES ASSUME NEW a \in Automata
               PROVE  tc_free'[a] <= Cardinality(UnusedSlots(a)')
    BY DEF FreeIsLowerBound
  <1>1. /\ UnusedSlots(a) \subseteq Indices /\ UnusedSlots(a)' \subseteq Indices
        /\ UnusedSlots(a) \subseteq UnusedSlots(a)'
    BY DEF UnusedSlots
  <1>2. Cardinality(UnusedSlots(a)) <= Cardinality(UnusedSlots(a)')
    BY <1>1, FewerSlots
  <1>3. /\ Cardinality(UnusedSlots(a)) \in Nat
        /\ Cardinality(UnusedSlots(a)') \in Nat
    BY <1>1, SlotsFinite
  <1>4. tc_free[a] \in Nat
    BY LimitAssumption DEF TypeOK, StoreTypeOK
  <1>5. QED
    BY <1>2, <1>3, <1>4 DEF FreeIsLowerBound

\* tesla_instance_new takes one slot and one unit of tc_free.
LEMMA OneFilled ==
  ASSUME FreeIsLowerBound, TypeOK, NEW c \in Automata, NEW k, NEW st,
         tesla_instance_new(c, k, st)
  PROVE  FreeIsLowerBound'
  <1>0. PICK j \in Indices :
          /\ ~tesla_instance_active(inst[c][j])
          /\ inst' = [inst EXCEPT ![c][j] = [state |-> st, key |-> k]]
          /\ tc_free' = [tc_free EXCEPT ![c] = @ - 1]
    BY DEF tesla_instance_new
  <1>1. /\ inst \in [Automata -> [Indices -> Instance]]
        /\ tc_free \in [Automata -> 0 .. Limit]
    BY DEF TypeOK, StoreTypeOK
  <1> SUFFICES ASSUME NEW a \in Automata
               PROVE  tc_free'[a] <= Cardinality(UnusedSlots(a)')
    BY DEF FreeIsLowerBound
  <1>2. tc_free[a] <= Cardinality(UnusedSlots(a)) /\ tc_free[a] \in Int
    BY <1>1, LimitAssumption DEF FreeIsLowerBound
  <1>3. UnusedSlots(a) \subseteq Indices /\ UnusedSlots(a)' \subseteq Indices
    BY DEF UnusedSlots
  <1>4. CASE a # c
    <2>1. UnusedSlots(a)' = UnusedSlots(a) /\ tc_free'[a] = tc_free[a]
      BY <1>0, <1>1, <1>4 DEF UnusedSlots, ActiveSlots
    <2>2. QED
      BY <1>2, <2>1
  <1>5. CASE a = c
    <2>1. j \in UnusedSlots(a) /\ UnusedSlots(a) \ {j} \subseteq UnusedSlots(a)'
      BY <1>0, <1>1, <1>5 DEF UnusedSlots, ActiveSlots
    <2>2. Cardinality(UnusedSlots(a) \ {j}) = Cardinality(UnusedSlots(a)) - 1
      BY <1>3, <2>1, OneSlotLess
    <2>3. Cardinality(UnusedSlots(a) \ {j}) <= Cardinality(UnusedSlots(a)')
      BY <1>3, <2>1, FewerSlots
    <2>4. /\ Cardinality(UnusedSlots(a)) \in Nat
          /\ Cardinality(UnusedSlots(a)') \in Nat
      BY <1>3, SlotsFinite
    <2>5. tc_free'[a] = tc_free[a] - 1
      BY <1>0, <1>1, <1>5
    <2>6. QED
      BY <1>2, <2>2, <2>3, <2>4, <2>5
  <1>6. QED
    BY <1>4, <1>5

\* A step that rewrites one slot which was active.
LEMMA ActiveRewritten ==
  ASSUME TypeOK, NEW c \in Automata, NEW j \in ActiveSlots(c),
         \A a \in Automata : \A m \in Indices :
           <<a, m>> # <<c, j>> => inst'[a][m] = inst[a][m]
  PROVE  \A a \in Automata : UnusedSlots(a) \subseteq UnusedSlots(a)'
  <1> SUFFICES ASSUME NEW a \in Automata, NEW m \in UnusedSlots(a)
               PROVE  m \in UnusedSlots(a)'
    OBVIOUS
  <1>1. m \in Indices /\ ~tesla_instance_active(inst[a][m])
    BY DEF UnusedSlots, ActiveSlots
  <1>2. <<a, m>> # <<c, j>>
    BY <1>1 DEF ActiveSlots
  <1>3. inst'[a][m] = inst[a][m]
    BY <1>1, <1>2
  <1>4. QED
    BY <1>1, <1>3 DEF UnusedSlots, ActiveSlots

LEMMA SameSlots ==
  ASSUME UNCHANGED inst
  PROVE  \A a : UnusedSlots(a)' = UnusedSlots(a)
                /\ ActiveSlots(a)' = ActiveSlots(a)
  BY DEF UnusedSlots, ActiveSlots

\* A step that leaves instances and tc_free alone.
LEMMA SlotsKept ==
  ASSUME FreeIsLowerBound, UNCHANGED <<inst, tc_free>>
  PROVE  FreeIsLowerBound'
  BY SameSlots DEF FreeIsLowerBound

\* The steps that stay in the loop over the instances.
LEMMA ScanSteps ==
  ASSUME pc = "scan", Next, pc' = "scan"
  PROVE  ScanIgnore \/ ScanFail \/ ScanUpdate \/ ScanFork \/ ScanJoin
  <1>1. ~ScanTooManyClones
    BY DEF ScanTooManyClones, Return, Notify, Caller
  <1>2. QED
    BY <1>1
    DEF Next, tesla_sunrise, tesla_sunset, tesla_update_state, SunsetLoop,
        SunsetClass, SunsetStaticDone, SunsetReturn, UpdateClassState,
        Ignored, Initialised, LateInit, InitSkip, InitFound, InitMissing,
        InitDone, ScanDone, MoveClone, MoveFails, Finish, Stopped

\* What the scan does to the instances: it rewrites the current, active one,
\* or nothing.
LEMMA ScanRewritesCurrent ==
  ASSUME TypeOK, pc = "scan", Next, pc' = "scan"
  PROVE  /\ Scanning /\ UNCHANGED <<tc_free, class>>
         /\ i \in Indices /\ class \in Automata
         /\ i' = i + 1
         /\ \/ UNCHANGED inst /\ expected' = expected
            \/ /\ i \in ActiveSlots(class)
               /\ expected' = expected - 1
               /\ \A a \in Automata : \A m \in Indices :
                    <<a, m>> # <<class, i>> => inst'[a][m] = inst[a][m]
  <1>0. /\ class \in Automata /\ i \in Nat
        /\ inst \in [Automata -> [Indices -> Instance]]
    BY DEF TypeOK, FrameTypeOK, StoreTypeOK, InCall
  <1>1. \/ ScanIgnore \/ ScanFail \/ ScanUpdate \/ ScanFork \/ ScanJoin
    BY ScanSteps
  <1>2. Scanning /\ i \in Indices
    <2>1. Scanning
      BY <1>1 DEF ScanIgnore, ScanFail, ScanUpdate, ScanFork, ScanJoin
    <2>2. QED
      BY <1>0, <2>1, LimitAssumption DEF Scanning, Indices
  <1>3. CASE ScanIgnore
    BY <1>0, <1>2, <1>3 DEF ScanIgnore, EndIteration, call
  <1>4. ASSUME NEW k \in CurrentTriggers PROVE i \in ActiveSlots(class)
    BY <1>2 DEF CurrentTriggers, Triggers, Current, ActiveSlots
  <1>5. CASE ScanFail
    <2>1. i \in ActiveSlots(class)
      BY <1>2, <1>5 DEF ScanFail, Fails, Current, ActiveSlots
    <2>2. QED
      BY <1>0, <1>2, <1>5, <2>1 DEF ScanFail, EndIteration, call
  <1>6. CASE ScanFork
    BY <1>0, <1>2, <1>4, <1>6 DEF ScanFork, EndIteration, call
  <1>7. CASE ScanUpdate
    BY <1>0, <1>2, <1>4, <1>7 DEF ScanUpdate, EndIteration, call
  <1>8. CASE ScanJoin
    BY <1>0, <1>2, <1>4, <1>8 DEF ScanJoin, EndIteration, call, Abort
  <1>9. QED
    BY <1>1, <1>3, <1>5, <1>6, <1>7, <1>8

LEMMA NewInClassFrame ==
  ASSUME TypeOK, InitFound \/ MoveClone
  PROVE  \/ UNCHANGED <<inst, tc_free>>
         \/ /\ class \in Automata
            /\ \E k, st : tesla_instance_new(class, k, st)
  <1>1. class \in Automata
    BY DEF TypeOK, FrameTypeOK, InCall, InitFound, MoveClone
  <1>2. CASE InitFound
    BY <1>1, <1>2 DEF InitFound, store
  <1>3. CASE MoveClone
    BY <1>1, <1>3 DEF MoveClone
  <1>4. QED
    BY <1>2, <1>3

LEMMA NextFree ==
  ASSUME TypeOK, FreeIsLowerBound, [Next]_vars PROVE FreeIsLowerBound'
  <1>1. CASE UNCHANGED <<inst, tc_free>>
    BY <1>1, SlotsKept
  <1>2. CASE InitFound \/ MoveClone
    BY <1>1, <1>2, NewInClassFrame, OneFilled
  <1>3. CASE Finish
    <2>1. class \in Automata
      BY <1>3 DEF TypeOK, FrameTypeOK, InCall, Finish
    <2>2. CASE tesla_class_reset(class)
      <3> SUFFICES ASSUME NEW a \in Automata
                   PROVE  tc_free'[a] <= Cardinality(UnusedSlots(a)')
        BY DEF FreeIsLowerBound
      <3>1. /\ inst \in [Automata -> [Indices -> Instance]]
            /\ tc_free \in [Automata -> 0 .. Limit]
        BY DEF TypeOK, StoreTypeOK
      <3>2. CASE a # class
        <4>1. UnusedSlots(a)' = UnusedSlots(a) /\ tc_free'[a] = tc_free[a]
          BY <2>2, <3>1, <3>2
          DEF tesla_class_reset, UnusedSlots, ActiveSlots
        <4>2. QED
          BY <4>1 DEF FreeIsLowerBound
      <3>3. CASE a = class
        <4>1. UnusedSlots(a)' = Indices
          BY <2>1, <2>2, <3>1, <3>3, InactiveIsInactive
          DEF tesla_class_reset, UnusedSlots, ActiveSlots
        <4>2. tc_free'[a] = Limit
          BY <2>1, <2>2, <3>1, <3>3 DEF tesla_class_reset
        <4>3. QED
          BY <4>1, <4>2, IndicesFinite, LimitAssumption
      <3>4. QED
        BY <3>2, <3>3
    <2>3. QED
      BY <1>1, <1>3, <2>2 DEF Finish
  <1>4. CASE pc = "scan" /\ pc' = "scan" /\ Next
    <2>1. CASE UNCHANGED inst
      BY <1>1, <1>4, <2>1, ScanRewritesCurrent
    <2>2. CASE ~UNCHANGED inst
      BY <1>4, <2>2, ScanRewritesCurrent, ActiveRewritten, NothingFilled
    <2>3. QED
      BY <2>1, <2>2
  <1>5. QED
    <2>1. CASE \E l \in Lifetimes : tesla_sunrise(l) \/ tesla_sunset(l)
      BY <1>1, <2>1 DEF tesla_sunrise, tesla_sunset, Abort, store
    <2>2. CASE \E a \in Automata : \E e \in Inputs[a] : tesla_update_state(a, e)
      BY <1>1, <2>2 DEF tesla_update_state, store
    <2>3. CASE SunsetLoop
      BY <1>1, <2>3
      DEF SunsetLoop, SunsetClass, SunsetStaticDone, SunsetReturn, store
    <2>4. CASE \/ Ignored \/ Initialised \/ LateInit \/ InitSkip \/ InitMissing
               \/ InitDone \/ ScanTooManyClones \/ ScanDone \/ MoveFails
      BY <1>1, <2>4
      DEF Ignored, Initialised, LateInit, InitSkip, InitMissing, InitDone,
          ScanTooManyClones, ScanDone, MoveFails, store
    <2>5. CASE \/ ScanIgnore \/ ScanFail \/ ScanFork
      BY <1>1, <2>5 DEF ScanIgnore, ScanFail, ScanFork, EndIteration
    <2>6. CASE ScanUpdate
      BY <1>4, <2>6 DEF ScanUpdate, Scanning, Next, UpdateClassState
    <2>7. CASE ScanJoin
      <3>1. CASE Abort(note)
        BY <1>1, <3>1 DEF Abort, store
      <3>2. CASE pc' = pc
        BY <1>4, <2>7, <3>2 DEF ScanJoin, Scanning, Next, UpdateClassState
      <3>3. QED
        BY <2>7, <3>1, <3>2 DEF ScanJoin
    <2>8. CASE Stopped \/ UNCHANGED vars
      BY <1>1, <2>8 DEF Stopped, vars, store
    <2>9. QED
      BY <1>2, <1>3, <2>1, <2>2, <2>3, <2>4, <2>5, <2>6, <2>7, <2>8
      DEF Next, UpdateClassState

-----------------------------------------------------------------------------
(* The scan does not stop before the last active instance *)

\* The active slots that the scan has still to visit.
Ahead == {j \in ActiveSlots(class) : j >= i}

\* A step that starts the scan: everything is ahead, and FreeIsLowerBound
\* bounds it.
LEMMA ScanStarts ==
  ASSUME TypeOK, FreeIsLowerBound', TypeOK', pc' = "scan", StartScan
  PROVE  ScanCoversActive'
  <1>1. class' = class /\ class' \in Automata
    BY DEF StartScan, call, TypeOK, FrameTypeOK, InCall
  <1>2. /\ expected' = Limit - tc_free'[class'] /\ tc_free'[class'] \in Nat
        /\ tc_free'[class'] <= Cardinality(UnusedSlots(class)')
    BY <1>1, LimitAssumption
    DEF StartScan, FreeIsLowerBound, TypeOK, StoreTypeOK, UnusedSlots,
        ActiveSlots
  <1>3. Cardinality(ActiveSlots(class)')
          = Limit - Cardinality(UnusedSlots(class)')
    <2>1. /\ ActiveSlots(class)' \subseteq Indices
          /\ UnusedSlots(class)' = Indices \ ActiveSlots(class)'
      BY DEF ActiveSlots, UnusedSlots
    <2>2. QED
      BY <2>1, Complement
  <1>4. /\ Ahead' \subseteq ActiveSlots(class)'
        /\ ActiveSlots(class)' \subseteq Indices
        /\ UnusedSlots(class)' \subseteq Indices
    BY <1>1 DEF Ahead, ActiveSlots, UnusedSlots
  <1>5. Cardinality(Ahead') <= Cardinality(ActiveSlots(class)')
    BY <1>4, FewerSlots
  <1>6. /\ Cardinality(Ahead') \in Nat
        /\ Cardinality(ActiveSlots(class)') \in Nat
        /\ Cardinality(UnusedSlots(class)') \in Nat
    BY <1>4, SlotsFinite
  <1>7. Cardinality(Ahead') <= expected'
    BY <1>2, <1>3, <1>5, <1>6, LimitAssumption
  <1>8. QED
    BY <1>7 DEF ScanCoversActive, Ahead

\* A step inside the scan: the slot it leaves behind is counted exactly when
\* it was active and concerned.
LEMMA ScanGoesOn ==
  ASSUME TypeOK, ScanCoversActive, pc = "scan", Next, pc' = "scan"
  PROVE  ScanCoversActive'
  <1>1. /\ UNCHANGED class /\ i \in Indices /\ class \in Automata
        /\ i' = i + 1
    BY ScanRewritesCurrent
  <1>2. i \in Int /\ expected \in Int /\ Indices \subseteq Int
    BY LimitAssumption DEF TypeOK, FrameTypeOK, Indices
  <1>3. /\ Cardinality(Ahead) <= expected
        /\ Ahead \subseteq Indices /\ Ahead' \subseteq Indices
    BY DEF ScanCoversActive, Ahead, ActiveSlots
  <1>4. Cardinality(Ahead) \in Nat /\ Cardinality(Ahead') \in Nat
    BY <1>3, SlotsFinite
  <1>5. CASE UNCHANGED inst /\ expected' = expected
    <2>1. Ahead' \subseteq Ahead
      <3> SUFFICES ASSUME NEW m \in Ahead' PROVE m \in Ahead
        OBVIOUS
      <3>1. /\ m \in Indices /\ m \in Int /\ m >= i + 1
            /\ tesla_instance_active(inst[class][m])
        BY <1>1, <1>2, <1>5 DEF Ahead, ActiveSlots
      <3>2. m >= i
        BY <1>2, <3>1
      <3>3. QED
        BY <3>1, <3>2 DEF Ahead, ActiveSlots
    <2>2. Cardinality(Ahead') <= Cardinality(Ahead)
      BY <1>3, <2>1, FewerSlots
    <2>3. QED
      BY <1>2, <1>3, <1>4, <1>5, <2>2 DEF ScanCoversActive, Ahead
  <1>6. CASE /\ i \in ActiveSlots(class)
             /\ expected' = expected - 1
             /\ \A a \in Automata : \A m \in Indices :
                  <<a, m>> # <<class, i>> => inst'[a][m] = inst[a][m]
    <2>1. Ahead' \subseteq Ahead \ {i}
      <3> SUFFICES ASSUME NEW m \in Ahead' PROVE m \in Ahead \ {i}
        OBVIOUS
      <3>1. /\ m \in Indices /\ m \in Int /\ m >= i + 1
            /\ tesla_instance_active(inst'[class][m])
        BY <1>1, <1>2 DEF Ahead, ActiveSlots
      <3>2. m >= i /\ m # i
        BY <1>2, <3>1
      <3>3. inst'[class][m] = inst[class][m]
        BY <1>1, <1>6, <3>1, <3>2
      <3>4. QED
        BY <3>1, <3>2, <3>3 DEF Ahead, ActiveSlots
    <2>2. i \in Ahead
      BY <1>2, <1>6 DEF Ahead
    <2>3. Cardinality(Ahead \ {i}) = Cardinality(Ahead) - 1
      BY <1>3, <2>2, OneSlotLess
    <2>4. Cardinality(Ahead') <= Cardinality(Ahead \ {i})
      BY <1>3, <2>1, FewerSlots
    <2>5. Cardinality(Ahead') <= expected'
      BY <1>2, <1>3, <1>4, <1>6, <2>3, <2>4
    <2>6. QED
      BY <2>5 DEF ScanCoversActive, Ahead
  <1>7. QED
    BY <1>5, <1>6, ScanRewritesCurrent

\* The scan is entered from the lookup or from late initialisation only.
LEMMA ScanBegins ==
  ASSUME Next, pc # "scan", pc' = "scan" PROVE Initialised \/ InitDone
  BY DEF Next, tesla_sunrise, tesla_sunset, tesla_update_state, SunsetLoop,
         SunsetClass, SunsetStaticDone, SunsetReturn, UpdateClassState,
         Ignored, LateInit, InitSkip, InitFound, InitMissing,
         ScanIgnore, ScanFail, ScanUpdate, ScanFork, ScanTooManyClones,
         ScanJoin, ScanDone, MoveClone, MoveFails, Finish, Stopped,
         Scanning, Return, Notify, Caller, Abort, Enter, vars

LEMMA NextScan ==
  ASSUME TypeOK, TypeOK', FreeIsLowerBound', ScanCoversActive, [Next]_vars
  PROVE  ScanCoversActive'
  <1>1. CASE pc' # "scan"
    BY <1>1 DEF ScanCoversActive
  <1>2. CASE pc = "scan" /\ pc' = "scan" /\ Next
    BY <1>2, ScanGoesOn
  <1>3. CASE pc # "scan" /\ pc' = "scan" /\ Next
    <2>1. Initialised \/ InitDone
      BY <1>3, ScanBegins
    <2>2. StartScan
      BY <1>3, <2>1 DEF Initialised, InitDone
    <2>3. QED
      BY <1>3, <2>2, ScanStarts
  <1>4. CASE UNCHANGED vars
    BY <1>4 DEF vars, store, call, locals, ScanCoversActive, ActiveSlots
  <1>5. QED
    BY <1>1, <1>2, <1>3, <1>4

-----------------------------------------------------------------------------
CountersInv == TypeOK /\ FreeIsLowerBound /\ ScanCoversActive

LEMMA InitCounters == Init => CountersInv
  <1> SUFFICES ASSUME Init PROVE CountersInv
    OBVIOUS
  <1>1. FreeIsLowerBound
    <2>1. \A a \in Automata : UnusedSlots(a) = Indices
      BY InactiveIsInactive DEF Init, UnusedSlots, ActiveSlots
    <2>2. QED
      BY <2>1, IndicesFinite, LimitAssumption DEF Init, FreeIsLowerBound
  <1>2. ScanCoversActive
    BY DEF Init, ScanCoversActive
  <1>3. QED
    BY <1>1, <1>2, InitTypeOK DEF CountersInv

LEMMA CountersInvariant == Spec => []CountersInv
  <1>1. CountersInv /\ [Next]_vars => CountersInv'
    BY NextTypeOK, NextFree, NextScan DEF CountersInv
  <1>2. QED
    BY <1>1, InitCounters, PTL DEF Spec

\* tc_free, which a join leaves too small, is never too large: whenever the
\* engine decides to create an instance, a slot is there for it.
THEOREM FreeNeverOverstates == Spec => []FreeIsLowerBound
  <1>1. CountersInv => FreeIsLowerBound
    BY DEF CountersInv
  <1>2. QED
    BY <1>1, CountersInvariant, PTL

\* The early end of the scan (`expected` reaches 0) never skips an active
\* instance, whatever mixture of joins, updates and forks came before.
THEOREM ScanMissesNothing == Spec => []ScanCoversActive
  <1>1. CountersInv => ScanCoversActive
    BY DEF CountersInv
  <1>2. QED
    BY <1>1, CountersInvariant, PTL

-----------------------------------------------------------------------------
(* The names of instances: that tesla_action's assertion about masks       *)
(* holds, that a clone which the scan has noted can be made (its name does *)
(* not contradict the event, and there is a slot for it), that an event    *)
(* only moves instances it names, and what ev_no_instance means.           *)

\* A clone that the scan noted: its transition is a fork of the event's, and
\* the instance it forks is still in the state and has the name that the
\* scan saw.
ClonePending(c) ==
  /\ c.transition \in TransitionsOn(class, symbol)
  /\ IsFork(c.transition)
  /\ tesla_instance_active(inst[class][c.old])
  /\ Takes(inst[class][c.old], pattern, c.transition)

\* The scan is past every instance it noted.
ClonesPending ==
  /\ pc \notin {"scan", "move", "stopped"} => clones = << >>
  /\ pc \in {"scan", "move"} => \A n \in 1 .. Len(clones) : ClonePending(clones[n])
  /\ pc = "scan" => \A n \in 1 .. Len(clones) : clones[n].old < i

\* The event of the call carries the words that its transitions add.
EventFits ==
  InCall => \A t \in TransitionsOn(class, symbol) :
              ~t.cleanup => t.to_mask \ t.from_mask \subseteq Mask(pattern.key)

\* What the call has moved or noted so far counts as a match.
MatchIsKept ==
  /\ InCall => "no_instance" \notin note
  /\ pc \in {"lookup", "init"} => note = {}
  /\ pc \in {"scan", "move"} /\ (clones # << >> \/ note \cap {"update", "clone"} # {})
       => matched_something

\* Clones are counted against max_clones and against the instances met.
ClonesCounted ==
  /\ pc = "lookup" => max_clones = tc_free[class]
  /\ pc = "init" =>
       \/ tc_free[class] = Limit
       \/ /\ tc_free[class] = Limit - 1
          /\ \A s \in Symbols(class) : s >= i => ~FirstIsInit(class, s)
  /\ pc = "scan" =>
       /\ expected >= 0
       /\ Len(clones) + expected <= Limit - tc_free[class]
       /\ Len(clones) <= max_clones
       /\ max_clones = tc_free[class] \/ tc_free[class] = Limit - 1

-----------------------------------------------------------------------------
(* What steps leave alone *)

LEMMA ReturnLeaves ==
  ASSUME NEW e, Return(e)
  PROVE  ~InCall' /\ clones' = << >> /\ note' = note \cup e
  BY DEF Return, Notify, Caller, InCall

\* Inside a call its arguments stay what they are.
LEMMA CallFrame ==
  ASSUME [Next]_vars, InCall'
  PROVE  \/ InCall /\ UNCHANGED call
         \/ \E a \in Automata : \E e \in Inputs[a] : tesla_update_state(a, e)
         \/ SunsetClass
  <1>1. CASE \E l \in Lifetimes : tesla_sunrise(l) \/ tesla_sunset(l)
    BY <1>1 DEF tesla_sunrise, tesla_sunset, Abort, InCall
  <1>2. CASE SunsetStaticDone \/ SunsetReturn
    BY <1>2 DEF SunsetStaticDone, SunsetReturn, InCall
  <1>3. CASE Ignored \/ InitMissing \/ ScanTooManyClones \/ MoveFails \/ Finish
    BY <1>3, ReturnLeaves
    DEF Ignored, InitMissing, ScanTooManyClones, MoveFails, Finish
  <1>4. CASE Initialised \/ LateInit \/ InitSkip \/ InitDone
    BY <1>4 DEF Initialised, LateInit, InitSkip, InitDone, StartScan, InCall
  <1>5. CASE InitFound \/ MoveClone
    BY <1>5, ReturnLeaves DEF InitFound, MoveClone, InCall
  <1>6. CASE ScanIgnore \/ ScanFail \/ ScanUpdate \/ ScanFork \/ ScanDone
    BY <1>6 DEF ScanIgnore, ScanFail, ScanUpdate, ScanFork, ScanDone, Scanning,
                EndIteration, InCall
  <1>7. CASE ScanJoin
    BY <1>7 DEF ScanJoin, Scanning, EndIteration, Abort, InCall
  <1>8. CASE Stopped \/ UNCHANGED vars
    BY <1>8 DEF Stopped, vars, call, InCall
  <1>9. QED
    BY <1>1, <1>2, <1>3, <1>4, <1>5, <1>6, <1>7, <1>8
    DEF Next, SunsetLoop, UpdateClassState

\* The steps that write instances.
LEMMA InstancesChange ==
  ASSUME [Next]_vars
  PROVE  \/ UNCHANGED inst
         \/ InitFound \/ ScanUpdate \/ ScanJoin \/ MoveClone \/ Finish
  <1>1. CASE \E l \in Lifetimes : tesla_sunrise(l) \/ tesla_sunset(l)
    BY <1>1 DEF tesla_sunrise, tesla_sunset, Abort, store
  <1>2. CASE \E a \in Automata : \E e \in Inputs[a] : tesla_update_state(a, e)
    BY <1>2 DEF tesla_update_state, store
  <1>3. CASE SunsetLoop
    BY <1>3 DEF SunsetLoop, SunsetClass, SunsetStaticDone, SunsetReturn, store
  <1>4. CASE UpdateClassState
    BY <1>4
    DEF UpdateClassState, Ignored, Initialised, LateInit, InitSkip, InitMissing,
        InitDone, ScanIgnore, ScanFail, ScanFork, ScanTooManyClones, ScanDone,
        MoveFails, store
  <1>5. CASE Stopped \/ UNCHANGED vars
    BY <1>5 DEF Stopped, vars, store
  <1>6. QED
    BY <1>1, <1>2, <1>3, <1>4, <1>5 DEF Next

LEMMA TransitionsInvolved ==
  ASSUME NEW a \in Automata, NEW s \in Symbols(a)
  PROVE  /\ TransitionsOn(a, s) \subseteq TransitionsOf(a)
         /\ TransitionsOf(a) \subseteq Transition
  BY AutomataAssumption DEF TransitionsOn, TransitionsOf

LEMMA NextEventFits ==
  ASSUME EventsCarryNames, SunsetCleansUp, TypeOK, EventFits, [Next]_vars
  PROVE  EventFits'
  <1> SUFFICES ASSUME InCall'
               PROVE  \A t \in TransitionsOn(class', symbol') :
                        ~t.cleanup => t.to_mask \ t.from_mask
                                        \subseteq Mask(pattern'.key)
    BY DEF EventFits, TransitionsOn
  <1>1. CASE InCall /\ UNCHANGED call
    BY <1>1 DEF EventFits, call
  <1>2. ASSUME NEW a \in Automata, NEW e \in Inputs[a], tesla_update_state(a, e)
        PROVE  \A t \in TransitionsOn(class', symbol') :
                 ~t.cleanup => t.to_mask \ t.from_mask
                                 \subseteq Mask(pattern'.key)
    <2>1. class' = a /\ symbol' = e.symbol /\ pattern' = e.pattern
      BY <1>2 DEF tesla_update_state, Enter
    <2>2. QED
      BY <2>1 DEF EventsCarryNames
  <1>3. CASE SunsetClass
    <2>1. class' \in Automata /\ symbol' = ta_cleanup_symbol[class']
      <3>1. class' \in Automata
        BY NextTypeOK DEF TypeOK, FrameTypeOK
      <3>2. QED
        BY <1>3, <3>1 DEF SunsetClass, Enter
    <2>2. QED
      BY <2>1 DEF SunsetCleansUp
  <1>4. QED
    BY <1>1, <1>2, <1>3, CallFrame

-----------------------------------------------------------------------------
(* Noted clones stay possible *)

LEMMA PendingKept ==
  ASSUME NEW c, UNCHANGED call, ClonePending(c),
         inst'[class][c.old] = inst[class][c.old]
  PROVE  ClonePending(c)'
  BY DEF ClonePending, call

\* What an iteration of the scan does to the list of clones.
LEMMA ScanNotes ==
  ASSUME TypeOK, pc = "scan", Next, pc' = "scan"
  PROVE  /\ UNCHANGED call
         /\ \/ clones' = clones
            \/ UNCHANGED inst /\ \E c \in CloneInfo :
                 /\ clones' = Append(clones, c)
                 /\ c.old = i /\ ClonePending(c)
  <1>0. Scanning /\ i \in Indices /\ class \in Automata /\ symbol \in Symbols(class)
    BY ScanRewritesCurrent DEF TypeOK, FrameTypeOK, InCall
  <1>1. UNCHANGED call
    BY CallFrame DEF InCall, tesla_update_state, SunsetClass
  <1>2. CASE ScanFork
    <2>1. PICK k \in CurrentTriggers :
            /\ IsFork(Trans(class, symbol)[k])
            /\ clones' = Append(clones, [old |-> i,
                                         transition |-> Trans(class, symbol)[k]])
      BY <1>2 DEF ScanFork
    <2>2. PICK t \in Transition : t = Trans(class, symbol)[k]
      BY TriggerTypes DEF InCall
    <2>3. PICK c \in CloneInfo : c = [old |-> i, transition |-> t]
      BY <1>0 DEF CloneInfo
    <2>4. /\ t \in TransitionsOn(class, symbol) /\ IsFork(t)
          /\ tesla_instance_active(inst[class][i]) /\ Takes(inst[class][i], pattern, t)
      BY <2>1, <2>2 DEF CurrentTriggers, Triggers, Current, TransitionsOn
    <2>5. c.old = i /\ c.transition = t
      BY <2>3
    <2>6. ClonePending(c)
      BY <2>4, <2>5 DEF ClonePending
    <2>7. clones' = Append(clones, c)
      BY <2>1, <2>2, <2>3
    <2>8. UNCHANGED inst
      BY <1>2 DEF ScanFork
    <2>9. QED
      BY <1>1, <2>5, <2>6, <2>7, <2>8
  <1>3. CASE ~ScanFork
    <2>1. clones' = clones
      <3>1. ScanIgnore \/ ScanFail \/ ScanUpdate \/ ScanJoin
        BY <1>3, ScanSteps
      <3>2. QED
        BY <3>1 DEF ScanIgnore, ScanFail, ScanUpdate, ScanJoin, Abort
    <2>2. QED
      BY <1>1, <2>1
  <1>4. QED
    BY <1>2, <1>3

\* Outside the scan and the moves there are no clones.
LEMMA NoClonesOutside ==
  ASSUME TypeOK, ClonesPending, [Next]_vars,
         pc' \notin {"scan", "move", "stopped"}
  PROVE  clones' = << >>
  <1> USE DEF ClonesPending
  <1>1. CASE \E l \in Lifetimes : tesla_sunrise(l) \/ tesla_sunset(l)
    BY <1>1 DEF tesla_sunrise, tesla_sunset, Abort, locals
  <1>2. CASE \E a \in Automata : \E e \in Inputs[a] : tesla_update_state(a, e)
    BY <1>2 DEF tesla_update_state, Enter
  <1>3. CASE SunsetLoop
    BY <1>3 DEF SunsetLoop, SunsetClass, SunsetStaticDone, SunsetReturn, Enter,
                locals
  <1>4. CASE Ignored \/ InitMissing \/ ScanTooManyClones \/ MoveFails \/ Finish
    BY <1>4, ReturnLeaves
    DEF Ignored, InitMissing, ScanTooManyClones, MoveFails, Finish
  <1>5. CASE LateInit \/ InitSkip \/ InitFound
    BY <1>5, ReturnLeaves DEF LateInit, InitSkip, InitFound, locals
  <1>6. CASE MoveClone
    BY <1>6, ReturnLeaves DEF MoveClone
  <1>7. CASE Initialised \/ InitDone \/ ScanDone
    BY <1>7 DEF Initialised, InitDone, ScanDone, Notify
  <1>8. CASE ScanIgnore \/ ScanFail \/ ScanUpdate \/ ScanFork \/ ScanJoin
    BY <1>8 DEF ScanIgnore, ScanFail, ScanUpdate, ScanFork, ScanJoin, Notify,
                Abort, Scanning
  <1>9. CASE Stopped \/ UNCHANGED vars
    BY <1>9 DEF Stopped, vars, locals
  <1>10. QED
    BY <1>1, <1>2, <1>3, <1>4, <1>5, <1>6, <1>7, <1>8, <1>9
    DEF Next, UpdateClassState

\* The steps that end in the loop over the clones.
LEMMA MoveSteps ==
  ASSUME Next, pc' = "move"
  PROVE  ScanDone \/ (MoveClone /\ ~UnionConflicts(OldKey, NewName))
  <1>1. \A e : ~Return(e)
    BY DEF Return, Notify, Caller
  <1>2. QED
    BY <1>1
    DEF Next, tesla_sunrise, tesla_sunset, tesla_update_state, SunsetLoop,
        SunsetClass, SunsetStaticDone, SunsetReturn, UpdateClassState, Enter,
        Ignored, Initialised, LateInit, InitSkip, InitFound, InitMissing,
        InitDone, ScanIgnore, ScanFail, ScanUpdate, ScanFork, ScanJoin,
        ScanTooManyClones, MoveClone, MoveFails, Finish, Stopped, Abort,
        Notify, Scanning, vars

\* tesla_instance_new leaves the active instances alone.
LEMMA NewKeepsActive ==
  ASSUME TypeOK, NEW c \in Automata, NEW k, NEW st, tesla_instance_new(c, k, st),
         NEW a \in Automata, NEW j \in Indices, tesla_instance_active(inst[a][j])
  PROVE  inst'[a][j] = inst[a][j]
  BY DEF tesla_instance_new, TypeOK, StoreTypeOK

LEMMA NextClonesPending ==
  ASSUME TypeOK, ClonesPending, [Next]_vars PROVE ClonesPending'
  <1> SUFFICES ASSUME pc' \in {"scan", "move"}
               PROVE  \A n \in 1 .. Len(clones') :
                        /\ ClonePending(clones[n])'
                        /\ pc' = "scan" => clones'[n].old < i'
    BY NoClonesOutside DEF ClonesPending
  <1>0. clones \in Seq(CloneInfo) /\ i \in Nat /\ Indices \subseteq Int
    BY LimitAssumption DEF TypeOK, FrameTypeOK, Indices
  <1>1. CASE UNCHANGED vars
    BY <1>1 DEF vars, store, call, locals, ClonesPending, ClonePending
  <1>2. CASE Next /\ pc # "scan" /\ pc' = "scan"
    <2>1. Initialised \/ InitDone
      BY <1>2, ScanBegins
    <2>2. clones' = clones /\ clones = << >>
      BY <1>2, <2>1 DEF Initialised, InitDone, StartScan, ClonesPending
    <2>3. QED
      BY <2>2
  <1>3. CASE Next /\ pc = "scan" /\ pc' = "scan"
    <2> SUFFICES ASSUME NEW n \in 1 .. Len(clones')
                 PROVE  ClonePending(clones[n])' /\ clones'[n].old < i'
      OBVIOUS
    <2>1. i' = i + 1 /\ class \in Automata /\ i \in Indices
      BY <1>3, ScanRewritesCurrent
    <2>2. ASSUME n \in 1 .. Len(clones), clones'[n] = clones[n]
          PROVE  ClonePending(clones[n])' /\ clones'[n].old < i'
      <3>1. PICK c \in CloneInfo : c = clones[n]
        BY <1>0, <2>2
      <3>2. ClonePending(c) /\ c.old < i /\ c.old \in Indices
        BY <1>3, <2>2, <3>1 DEF ClonesPending, CloneInfo
      <3>3. inst'[class][c.old] = inst[class][c.old]
        BY <1>0, <1>3, <2>1, <3>2, ScanRewritesCurrent
      <3>4. ClonePending(c)'
        BY <1>3, <3>2, <3>3, PendingKept, ScanNotes
      <3>5. c.old \in Int
        BY <1>0, <3>2
      <3>6. c.old < i'
        BY <1>0, <2>1, <3>2, <3>5
      <3>7. QED
        BY <2>2, <3>1, <3>4, <3>6
    <2>3. CASE clones' = clones
      BY <2>2, <2>3
    <2>4. ASSUME NEW c \in CloneInfo, UNCHANGED inst, clones' = Append(clones, c),
                 c.old = i, ClonePending(c)
          PROVE  ClonePending(clones[n])' /\ clones'[n].old < i'
      <3>1. CASE n \in 1 .. Len(clones)
        BY <1>0, <2>2, <2>4, <3>1
      <3>2. CASE n = Len(clones) + 1
        <4>1. clones'[n] = c
          BY <1>0, <2>4, <3>2
        <4>2. ClonePending(c)'
          BY <1>3, <2>4, PendingKept, ScanNotes
        <4>3. c.old < i'
          BY <1>0, <2>1, <2>4
        <4>4. QED
          BY <4>1, <4>2, <4>3
      <3>3. QED
        BY <1>0, <2>4, <3>1, <3>2
    <2>5. QED
      BY <1>3, <2>3, <2>4, ScanNotes
  <1>4. CASE Next /\ pc' = "move"
    <2> SUFFICES ASSUME NEW n \in 1 .. Len(clones')
                 PROVE  ClonePending(clones[n])'
      BY <1>4
    <2>1. CASE ScanDone
      BY <2>1 DEF ScanDone, ClonesPending, ClonePending, store, call
    <2>2. CASE MoveClone /\ ~UnionConflicts(OldKey, NewName)
      <3>0. class \in Automata
        BY <2>2 DEF MoveClone, TypeOK, FrameTypeOK, InCall
      <3>1. /\ clones' = clones /\ UNCHANGED call /\ pc = "move"
            /\ \E k, st : tesla_instance_new(class, k, st)
        BY <2>2 DEF MoveClone
      <3>2. PICK c \in CloneInfo : c = clones[n]
        BY <1>0, <3>1
      <3>3. ClonePending(c)
        BY <3>1, <3>2 DEF ClonesPending
      <3>4. inst'[class][c.old] = inst[class][c.old]
        BY <3>0, <3>1, <3>3, NewKeepsActive DEF ClonePending, CloneInfo
      <3>5. ClonePending(c)'
        BY <3>1, <3>3, <3>4, PendingKept
      <3>6. QED
        BY <3>1, <3>2, <3>5
    <2>3. QED
      BY <1>4, <2>1, <2>2, MoveSteps
  <1>5. QED
    BY <1>1, <1>2, <1>3, <1>4

-----------------------------------------------------------------------------
(* Masks *)

\* The name of x has the words that go with its state.
Fits(a, x) ==
  \A t \in TransitionsOf(a) : t.from = x.state => t.from_mask = Mask(x.key)

LEMMA MasksByInstance ==
  MaskMatchesState <=>
    \A a \in Automata : \A j \in ActiveSlots(a) : Fits(a, inst[a][j])
  BY DEF MaskMatchesState, Fits, TransitionsOf, TransitionsOn

LEMMA MasksByInstancePrimed ==
  MaskMatchesState' <=>
    \A a \in Automata : \A j \in ActiveSlots(a)' : Fits(a, inst'[a][j])
  BY DEF MaskMatchesState, Fits, TransitionsOf, TransitionsOn

LEMMA MaskOfMasked ==
  ASSUME NEW k \in Key, NEW m PROVE Mask(Masked(k, m)) = Mask(k) \cap m
  BY DEF Mask, Masked, Key

LEMMA MaskOfUnion ==
  ASSUME NEW d \in Key, NEW s \in Key
  PROVE  Mask(tesla_key_union(d, s)) = Mask(d) \cup Mask(s)
  BY DEF Mask, tesla_key_union, Key

\* Late initialisation.
LEMMA FirstFits ==
  ASSUME StatesHaveMasks, NEW a \in Automata, NEW t \in TransitionsOf(a), t.init
  PROVE  Fits(a, [state |-> t.to, key |-> EmptyKey])
  <1>1. Mask(EmptyKey) = {}
    BY DEF Mask, EmptyKey
  <1>2. QED
    BY <1>1 DEF StatesHaveMasks, Fits

\* An update keeps the name; it is no join, so the mask stays the same too,
\* unless the class is being cleaned up and the new state is left by nothing.
LEMMA UpdatedFits ==
  ASSUME StatesHaveMasks, NEW a \in Automata, NEW t \in TransitionsOf(a),
         NEW x, Fits(a, x), t.from = x.state, IsUpdate(t),
         NEW y, y.state = t.to, y.key = x.key
  PROVE  Fits(a, y)
  <1> SUFFICES ASSUME NEW u \in TransitionsOf(a), u.from = t.to
               PROVE  u.from_mask = Mask(x.key)
    BY DEF Fits
  <1>1. ~t.cleanup /\ t.to_mask = u.from_mask
    BY DEF StatesHaveMasks
  <1>2. t.from_mask = t.to_mask
    BY <1>1 DEF IsUpdate, IsJoin
  <1>3. QED
    BY <1>1, <1>2 DEF Fits

\* A fork adds the words of the event that the new state's mask has.
LEMMA CloneFits ==
  ASSUME StatesHaveMasks, NEW a \in Automata, NEW t \in TransitionsOf(a),
         NEW x \in Instance, Fits(a, x), t.from = x.state, IsFork(t),
         NEW k \in Key, ~t.cleanup => t.to_mask \ t.from_mask \subseteq Mask(k),
         NEW y, y.state = t.to, y.key = tesla_key_union(x.key, Masked(k, t.to_mask))
  PROVE  Fits(a, y)
  <1> SUFFICES ASSUME NEW u \in TransitionsOf(a), u.from = t.to
               PROVE  u.from_mask = Mask(y.key)
    BY DEF Fits
  <1>1. ~t.cleanup /\ t.to_mask = u.from_mask
    BY DEF StatesHaveMasks
  <1>2. t.from_mask \subseteq t.to_mask
    BY <1>1 DEF IsFork, IsJoin
  <1>3. t.from_mask = Mask(x.key)
    BY DEF Fits
  <1>4. x.key \in Key /\ Masked(k, t.to_mask) \in Key
    BY MaskedType DEF Instance
  <1>5. Mask(y.key) = Mask(x.key) \cup (Mask(k) \cap t.to_mask)
    BY <1>4, MaskOfMasked, MaskOfUnion
  <1>6. QED
    BY <1>1, <1>2, <1>3, <1>5

\* Where the name of an instance and an event both have a word, the scan has
\* compared them: tesla_key_union finds no conflict.
LEMMA NoConflict ==
  ASSUME NEW a \in Automata, NEW t \in TransitionsOf(a), NEW x \in Instance,
         Fits(a, x), NEW p \in Pattern, IsFork(t), Takes(x, p, t)
  PROVE  ~UnionConflicts(x.key, Masked(p.key, t.to_mask))
  <1> DEFINE q == [p EXCEPT !.key = Masked(p.key, t.from_mask)]
  <1>1. t.from_mask = Mask(x.key) /\ p.key \in Key /\ x.key \in Key
    BY DEF Fits, Takes, Pattern, Instance
  <1>2. tesla_key_matches(q, x.key)
    BY DEF Takes, IsFork, IsUpdate, IsJoin
  <1>3. q.key = Masked(p.key, t.from_mask)
    BY DEF Pattern
  <1>4. \A s \in Mask(p.key) \cap Mask(x.key) : p.key[s] = x.key[s]
    <2> SUFFICES ASSUME NEW s \in Mask(p.key) \cap Mask(x.key)
                 PROVE  p.key[s] = x.key[s]
      OBVIOUS
    <2>1. s \in Slots /\ Masked(p.key, t.from_mask)[s] = p.key[s]
      BY <1>1 DEF Mask, Masked
    <2>2. s \in Mask(q.key)
      BY <1>1, <1>3, MaskOfMasked
    <2>3. QED
      BY <1>2, <1>3, <2>1, <2>2 DEF tesla_key_matches
  <1>5. \A s \in Mask(Masked(p.key, t.to_mask)) :
          s \in Mask(p.key) /\ Masked(p.key, t.to_mask)[s] = p.key[s]
    BY <1>1, MaskOfMasked DEF Masked, Mask
  <1>6. QED
    BY <1>4, <1>5 DEF UnionConflicts

\* A step that writes x into one slot.
LEMMA OneWritten ==
  ASSUME TypeOK, MaskMatchesState, NEW c \in Automata, NEW j \in Indices, NEW x,
         inst' = [inst EXCEPT ![c][j] = x],
         tesla_instance_active(x) => Fits(c, x)
  PROVE  MaskMatchesState'
  <1> SUFFICES ASSUME NEW a \in Automata, NEW m \in ActiveSlots(a)'
               PROVE  Fits(a, inst'[a][m])
    BY MasksByInstancePrimed
  <1>1. m \in Indices /\ tesla_instance_active(inst'[a][m])
    BY DEF ActiveSlots
  <1>2. inst \in [Automata -> [Indices -> Instance]]
    BY DEF TypeOK, StoreTypeOK
  <1>3. CASE a = c /\ m = j
    BY <1>1, <1>2, <1>3
  <1>4. CASE ~(a = c /\ m = j)
    <2>1. inst'[a][m] = inst[a][m]
      BY <1>1, <1>2, <1>4
    <2>2. QED
      BY <1>1, <2>1, MasksByInstance DEF ActiveSlots
  <1>5. QED
    BY <1>3, <1>4

LEMMA InitFoundMasks ==
  ASSUME StatesHaveMasks, TypeOK, MaskMatchesState, InitFound
  PROVE  MaskMatchesState'
  <1>1. CASE UNCHANGED inst
    BY <1>1 DEF MaskMatchesState, ActiveSlots
  <1>2. CASE ~UNCHANGED inst
    <2>1. class \in Automata /\ i \in Symbols(class)
      BY AutomataAssumption DEF InitFound, TypeOK, FrameTypeOK, InCall, Symbols
    <2>2. PICK t : t = Trans(class, i)[1]
      OBVIOUS
    <2>3. t \in TransitionsOf(class)
      <3>1. 1 \in DOMAIN Trans(class, i)
        BY <2>1, AutomataAssumption
      <3>2. QED
        BY <2>1, <2>2, <3>1 DEF TransitionsOf, TransitionsOn
    <2>4. t.init /\ tesla_instance_new(class, EmptyKey, t.to)
      BY <1>2, <2>2 DEF InitFound, FirstIsInit, store
    <2>5. Fits(class, [state |-> t.to, key |-> EmptyKey])
      BY <2>1, <2>3, <2>4, FirstFits
    <2>6. QED
      BY <2>1, <2>4, <2>5, OneWritten DEF tesla_instance_new
  <1>3. QED
    BY <1>1, <1>2

LEMMA ScanUpdateMasks ==
  ASSUME StatesHaveMasks, TypeOK, MaskMatchesState, ScanUpdate
  PROVE  MaskMatchesState'
  <1>1. /\ class \in Automata /\ symbol \in Symbols(class) /\ i \in Indices
        /\ inst \in [Automata -> [Indices -> Instance]]
    BY LimitAssumption
    DEF ScanUpdate, Scanning, TypeOK, FrameTypeOK, StoreTypeOK, InCall, Indices
  <1>2. PICK k \in CurrentTriggers :
          /\ IsUpdate(Trans(class, symbol)[k])
          /\ inst' = [inst EXCEPT ![class][i].state = Trans(class, symbol)[k].to]
    BY DEF ScanUpdate
  <1>3. PICK t : t = Trans(class, symbol)[k]
    OBVIOUS
  <1>4. /\ t \in TransitionsOf(class) /\ t.from = inst[class][i].state
        /\ i \in ActiveSlots(class)
    BY <1>1, <1>2, <1>3
    DEF CurrentTriggers, Triggers, Takes, Current, TransitionsOf, TransitionsOn,
        ActiveSlots
  <1>5. PICK y : y = [inst[class][i] EXCEPT !.state = t.to]
    OBVIOUS
  <1>6. y.state = t.to /\ y.key = inst[class][i].key
    BY <1>1, <1>5 DEF Instance
  <1>7. Fits(class, inst[class][i])
    BY <1>1, <1>4, MasksByInstance
  <1>8. PICK x : x = inst[class][i]
    OBVIOUS
  <1>9. Fits(class, y)
    BY <1>1, <1>2, <1>3, <1>4, <1>6, <1>7, <1>8, UpdatedFits
  <1>10. inst' = [inst EXCEPT ![class][i] = y]
    BY <1>1, <1>2, <1>3, <1>5
  <1>11. QED
    BY <1>1, <1>9, <1>10, OneWritten

\* The clone that is moved next: an active instance forks, and its name does
\* not contradict the event.
LEMMA NextClone ==
  ASSUME TypeOK, MaskMatchesState, ClonesPending, MoveClone
  PROVE  /\ class \in Automata /\ Clone \in CloneInfo /\ ClonePending(Clone)
         /\ Clone.transition \in TransitionsOf(class)
         /\ Fits(class, inst[class][Clone.old])
         /\ inst[class][Clone.old] \in Instance
         /\ ~UnionConflicts(OldKey, NewName)
  <1>1. /\ class \in Automata /\ symbol \in Symbols(class) /\ pattern \in Pattern
        /\ clones \in Seq(CloneInfo) /\ i \in Nat /\ i >= 1 /\ i <= Len(clones)
        /\ inst \in [Automata -> [Indices -> Instance]] /\ pc = "move"
    BY DEF MoveClone, TypeOK, FrameTypeOK, StoreTypeOK, InCall
  <1>2. i \in 1 .. Len(clones)
    BY <1>1
  <1>3. Clone \in CloneInfo /\ ClonePending(Clone)
    BY <1>1, <1>2 DEF Clone, ClonesPending
  <1>4. PICK t : t = Clone.transition
    OBVIOUS
  <1>5. PICK x : x = inst[class][Clone.old]
    OBVIOUS
  <1>6. t \in TransitionsOf(class) /\ IsFork(t) /\ Takes(x, pattern, t)
    BY <1>1, <1>3, <1>4, <1>5, TransitionsInvolved DEF ClonePending
  <1>7. Clone.old \in ActiveSlots(class)
    BY <1>3 DEF ClonePending, CloneInfo, ActiveSlots
  <1>8. Fits(class, x) /\ x \in Instance
    BY <1>1, <1>5, <1>7, MasksByInstance DEF ActiveSlots
  <1>9. ~UnionConflicts(x.key, Masked(pattern.key, t.to_mask))
    BY <1>1, <1>6, <1>8, NoConflict
  <1>10. QED
    BY <1>1, <1>3, <1>4, <1>5, <1>6, <1>8, <1>9 DEF OldKey, NewName

LEMMA MoveCloneMasks ==
  ASSUME StatesHaveMasks, TypeOK, MaskMatchesState, ClonesPending, EventFits,
         MoveClone
  PROVE  MaskMatchesState'
  <1>1. PICK t : t = Clone.transition
    OBVIOUS
  <1>2. PICK x : x = inst[class][Clone.old]
    OBVIOUS
  <1>3. PICK y : y = [state |-> t.to,
                      key |-> tesla_key_union(x.key, Masked(pattern.key, t.to_mask))]
    OBVIOUS
  <1>4. /\ class \in Automata /\ t \in TransitionsOf(class) /\ x \in Instance
        /\ Fits(class, x) /\ t.from = x.state /\ IsFork(t)
        /\ t \in TransitionsOn(class, symbol)
    BY <1>1, <1>2, NextClone DEF ClonePending, Takes
  <1>5. /\ pattern.key \in Key
        /\ ~t.cleanup => t.to_mask \ t.from_mask \subseteq Mask(pattern.key)
    BY <1>4 DEF EventFits, MoveClone, InCall, TypeOK, FrameTypeOK, Pattern
  <1>6. Fits(class, y)
    BY <1>3, <1>4, <1>5, CloneFits
  <1>7. \E j \in Indices : inst' = [inst EXCEPT ![class][j] = y]
    BY <1>1, <1>2, <1>3, NextClone
    DEF MoveClone, OldKey, NewName, tesla_instance_new
  <1>8. QED
    BY <1>4, <1>6, <1>7, OneWritten

LEMMA NextMasks ==
  ASSUME StatesHaveMasks, TypeOK, MaskMatchesState, ClonesPending, EventFits,
         [Next]_vars
  PROVE  MaskMatchesState'
  <1>1. CASE UNCHANGED inst
    BY <1>1 DEF MaskMatchesState, ActiveSlots
  <1>2. CASE InitFound \/ ScanUpdate \/ MoveClone
    BY <1>2, InitFoundMasks, ScanUpdateMasks, MoveCloneMasks
  <1>3. CASE ScanJoin
    <2>1. class \in Automata /\ i \in Indices
      BY <1>3, LimitAssumption
      DEF ScanJoin, Scanning, TypeOK, FrameTypeOK, InCall, Indices
    <2>2. UNCHANGED inst \/ inst' = [inst EXCEPT ![class][i] = Inactive]
      BY <1>3 DEF ScanJoin, Abort, store
    <2>3. QED
      BY <1>1, <2>1, <2>2, OneWritten, InactiveIsInactive
  <1>4. CASE Finish
    <2>1. class \in Automata
      BY <1>4 DEF Finish, TypeOK, FrameTypeOK, InCall
    <2>2. CASE inst' = [inst EXCEPT ![class] = [j \in Indices |-> Inactive]]
      <3> SUFFICES ASSUME NEW a \in Automata, NEW m \in ActiveSlots(a)'
                   PROVE  Fits(a, inst'[a][m])
        BY MasksByInstancePrimed
      <3>1. inst \in [Automata -> [Indices -> Instance]] /\ m \in Indices
        BY DEF TypeOK, StoreTypeOK, ActiveSlots
      <3>2. a # class
        BY <2>1, <2>2, <3>1, InactiveIsInactive DEF ActiveSlots
      <3>3. inst'[a][m] = inst[a][m]
        BY <2>2, <3>1, <3>2
      <3>4. QED
        BY <3>3, MasksByInstance DEF ActiveSlots
    <2>3. QED
      BY <1>1, <1>4, <2>2 DEF Finish, tesla_class_reset
  <1>5. QED
    BY <1>1, <1>2, <1>3, <1>4, InstancesChange

-----------------------------------------------------------------------------
(* The theorems about names *)

\* What a step adds to the notifications; a call starts without any.
LEMMA NextUnion ==
  ASSUME TypeOK, MaskMatchesState, ClonesPending, UnionNeverFails, [Next]_vars
  PROVE  UnionNeverFails'
  <1> USE DEF UnionNeverFails
  <1>1. CASE \E l \in Lifetimes : tesla_sunrise(l) \/ tesla_sunset(l)
    BY <1>1 DEF tesla_sunrise, tesla_sunset, Abort
  <1>2. CASE \E a \in Automata : \E e \in Inputs[a] : tesla_update_state(a, e)
    BY <1>2 DEF tesla_update_state, Enter
  <1>3. CASE SunsetLoop
    BY <1>3 DEF SunsetLoop, SunsetClass, SunsetStaticDone, SunsetReturn, Enter
  <1>4. CASE Ignored \/ InitMissing \/ ScanTooManyClones \/ MoveFails
    BY <1>4, ReturnLeaves DEF Ignored, InitMissing, ScanTooManyClones, MoveFails
  <1>5. CASE Finish
    BY <1>5, ReturnLeaves DEF Finish
  <1>6. CASE InitFound
    BY <1>6, ReturnLeaves DEF InitFound
  <1>7. CASE Initialised \/ LateInit \/ InitSkip \/ InitDone \/ ScanDone
    BY <1>7 DEF Initialised, LateInit, InitSkip, InitDone, ScanDone, Notify
  <1>8. CASE ScanIgnore \/ ScanFail \/ ScanUpdate \/ ScanFork \/ ScanJoin
    <2>1. CASE ScanIgnore \/ ScanFork
      BY <2>1 DEF ScanIgnore, ScanFork
    <2>2. CASE ScanFail
      BY <2>2 DEF ScanFail, Notify
    <2>3. CASE ScanUpdate
      BY <2>3 DEF ScanUpdate, Accept
    <2>4. CASE ScanJoin
      <3>1. note' = note \cup {"join"} \/ note' = note \cup {"assert"}
        BY <2>4 DEF ScanJoin, Abort
      <3>2. QED
        BY <3>1
    <2>5. QED
      BY <1>8, <2>1, <2>2, <2>3, <2>4
  <1>9. CASE MoveClone
    BY <1>9, NextClone DEF MoveClone, Accept
  <1>10. CASE Stopped \/ UNCHANGED vars
    BY <1>10 DEF Stopped, vars
  <1>11. QED
    BY <1>1, <1>2, <1>3, <1>4, <1>5, <1>6, <1>7, <1>8, <1>9, <1>10
    DEF Next, UpdateClassState

NamesInv == /\ TypeOK /\ ClonesPending /\ EventFits
            /\ MaskMatchesState /\ UnionNeverFails

LEMMA InitNames == Init => NamesInv
  <1> SUFFICES ASSUME Init PROVE NamesInv
    OBVIOUS
  <1>1. MaskMatchesState
    <2>1. \A a \in Automata : ActiveSlots(a) = {}
      BY InactiveIsInactive DEF Init, ActiveSlots
    <2>2. QED
      BY <2>1 DEF MaskMatchesState
  <1>2. ClonesPending /\ EventFits /\ UnionNeverFails
    BY DEF Init, ClonesPending, EventFits, InCall, UnionNeverFails
  <1>3. QED
    BY <1>1, <1>2, InitTypeOK DEF NamesInv

LEMMA NamesInvariant ==
  ASSUME StatesHaveMasks, EventsCarryNames, SunsetCleansUp
  PROVE  Spec => []NamesInv
  <1>1. NamesInv /\ [Next]_vars => NamesInv'
    BY NextTypeOK, NextClonesPending, NextEventFits, NextMasks, NextUnion
    DEF NamesInv
  <1>2. QED
    BY <1>1, InitNames, PTL DEF Spec

\* The assertion of tesla_action, for all well-formed automata: an instance in
\* the source state of a transition has exactly the words of its from_mask.
THEOREM NamesMatchStates ==
  ASSUME StatesHaveMasks, EventsCarryNames, SunsetCleansUp
  PROVE  Spec => []MaskMatchesState
  <1>1. NamesInv => MaskMatchesState
    BY DEF NamesInv
  <1>2. QED
    BY <1>1, NamesInvariant, PTL

\* A clone is always given its name: between the scan that notes the fork and
\* the step that makes it, nothing renames the instance it comes from.
THEOREM ClonesGetNames ==
  ASSUME StatesHaveMasks, EventsCarryNames, SunsetCleansUp
  PROVE  Spec => []UnionNeverFails
  <1>1. NamesInv => UnionNeverFails
    BY DEF NamesInv
  <1>2. QED
    BY <1>1, NamesInvariant, PTL

\* No step of the scan moves an instance that the event contradicts.
LEMMA ScanMovesNamed ==
  ASSUME TypeOK, MaskMatchesState, Next, pc = "scan", NEW j \in ActiveSlots(class),
         inst'[class][j] # inst[class][j], tesla_instance_active(inst'[class][j]),
         NEW w \in Mask(pattern.key) \cap Mask(inst[class][j].key)
  PROVE  pattern.key[w] = inst[class][j].key[w]
  <1>1. /\ class \in Automata /\ symbol \in Symbols(class) /\ j \in Indices
        /\ inst \in [Automata -> [Indices -> Instance]] /\ i \in Nat
        /\ pattern \in Pattern
    BY DEF TypeOK, FrameTypeOK, StoreTypeOK, InCall, ActiveSlots
  <1>2. ScanUpdate /\ j = i
    <2>1. CASE ScanUpdate
      BY <1>1, <2>1 DEF ScanUpdate
    <2>2. CASE ScanJoin
      <3>1. inst' = inst \/ inst' = [inst EXCEPT ![class][i] = Inactive]
        BY <2>2 DEF ScanJoin, Abort, store
      <3>2. QED
        BY <1>1, <3>1, InactiveIsInactive
    <2>3. QED
      BY <2>1, <2>2, InstancesChange DEF InitFound, MoveClone, Finish
  <1>3. PICK k \in CurrentTriggers : IsUpdate(Trans(class, symbol)[k])
    BY <1>2 DEF ScanUpdate
  <1>4. PICK t : t = Trans(class, symbol)[k]
    OBVIOUS
  <1>5. PICK x \in Instance : x = inst[class][j]
    BY <1>1
  <1>6. t \in TransitionsOf(class) /\ Takes(x, pattern, t) /\ IsUpdate(t)
    BY <1>1, <1>2, <1>3, <1>4, <1>5
    DEF CurrentTriggers, Triggers, Current, TransitionsOf, TransitionsOn
  <1>7. t.from_mask = Mask(x.key)
    BY <1>1, <1>5, <1>6, MasksByInstance DEF Fits, Takes
  <1>8. PICK p \in Pattern : p = [pattern EXCEPT !.key = Masked(pattern.key, t.from_mask)]
    BY <1>1, MaskedType DEF Pattern
  <1>9. tesla_key_matches(p, Masked(x.key, Mask(p.key) \cup p.free))
    BY <1>6, <1>8 DEF Takes, IsUpdate, IsFork
  <1>10. p.key = Masked(pattern.key, t.from_mask) /\ pattern.key \in Key /\ x.key \in Key
    BY <1>1, <1>8 DEF Pattern, Instance
  <1>11. w \in Mask(p.key) /\ w \in Slots /\ p.key[w] = pattern.key[w]
    BY <1>5, <1>7, <1>10, MaskOfMasked DEF Mask, Masked
  <1>12. Masked(x.key, Mask(p.key) \cup p.free)[w] = x.key[w]
    BY <1>11 DEF Masked
  <1>13. QED
    BY <1>5, <1>9, <1>11, <1>12 DEF tesla_key_matches

\* "Update all automata instances that match a given key", and move no other.
THEOREM OnlyNamedMove ==
  ASSUME StatesHaveMasks, EventsCarryNames, SunsetCleansUp
  PROVE  Spec => OnlyNamedChange
  <1>1. NamesInv /\ [Next]_vars =>
          [pc = "scan" =>
             \A j \in ActiveSlots(class) :
               inst'[class][j] # inst[class][j]
                 /\ tesla_instance_active(inst'[class][j])
               => \A w \in Mask(pattern.key) \cap Mask(inst[class][j].key) :
                    pattern.key[w] = inst[class][j].key[w]]_vars
    BY ScanMovesNamed DEF NamesInv
  <1>2. QED
    BY <1>1, NamesInvariant, PTL DEF Spec, OnlyNamedChange

-----------------------------------------------------------------------------
(* What ev_no_instance means *)

\* Inside tesla_update_class_state nothing has been matched that the flag does
\* not know of, and ev_no_instance has not been reported.
MatchInv == TypeOK /\ ClonesPending /\ MatchIsKept /\ NoInstanceMeansNoMatch

LEMMA ScanMatches ==
  ASSUME TypeOK, MatchIsKept, pc = "scan", Next, pc' = "scan"
  PROVE  MatchIsKept' /\ "no_instance" \notin note'
  <1>0. "no_instance" \notin note
    BY DEF MatchIsKept, InCall
  <1>1. CASE ScanIgnore
    BY <1>0, <1>1 DEF ScanIgnore, MatchIsKept, InCall
  <1>2. CASE ScanFail
    <2>1. /\ note' = note \cup {"bad_transition"}
          /\ UNCHANGED <<clones, matched_something>>
      BY <1>2 DEF ScanFail, Notify
    <2>2. "no_instance" \notin note'
      BY <1>0, <2>1
    <2>3. note' \cap {"update", "clone"} = note \cap {"update", "clone"}
      BY <2>1
    <2>4. QED
      BY <2>1, <2>2, <2>3 DEF MatchIsKept, InCall
  <1>3. CASE ScanUpdate
    <2>1. matched_something' = TRUE
      BY <1>3 DEF ScanUpdate
    <2>2. "no_instance" \notin note'
      BY <1>0, <1>3 DEF ScanUpdate, Accept
    <2>3. QED
      BY <2>1, <2>2 DEF MatchIsKept
  <1>4. CASE ScanFork
    BY <1>0, <1>4 DEF ScanFork, MatchIsKept
  <1>5. CASE ScanJoin
    <2>1. note' = note \cup {"join"} /\ UNCHANGED <<clones, matched_something>>
      BY <1>5 DEF ScanJoin, Abort
    <2>2. "no_instance" \notin note'
      BY <1>0, <2>1
    <2>3. note' \cap {"update", "clone"} = note \cap {"update", "clone"}
      BY <2>1
    <2>4. QED
      BY <2>1, <2>2, <2>3 DEF MatchIsKept, InCall
  <1>6. QED
    BY <1>1, <1>2, <1>3, <1>4, <1>5, ScanSteps

\* A step that reports e and leaves the call.
LEMMA LeaveMatches ==
  ASSUME NoInstanceMeansNoMatch, MatchIsKept, InCall, NEW e, Return(e),
         e \cap {"no_instance", "update", "clone"} = {}
  PROVE  MatchIsKept' /\ NoInstanceMeansNoMatch'
  <1>1. ~InCall' /\ note' = note \cup e
    BY ReturnLeaves
  <1>2. "no_instance" \notin note'
    BY <1>1 DEF MatchIsKept
  <1>3. QED
    BY <1>1, <1>2 DEF MatchIsKept, NoInstanceMeansNoMatch, InCall

LEMMA EnterMatches ==
  ASSUME NEW a, NEW s, NEW p, Enter(a, s, p)
  PROVE  MatchIsKept' /\ NoInstanceMeansNoMatch'
  BY DEF Enter, MatchIsKept, NoInstanceMeansNoMatch, InCall

LEMMA NextMatches ==
  ASSUME TypeOK, ClonesPending, MatchIsKept, NoInstanceMeansNoMatch, [Next]_vars
  PROVE  MatchIsKept' /\ NoInstanceMeansNoMatch'
  <1>1. CASE \E l \in Lifetimes : tesla_sunrise(l) \/ tesla_sunset(l)
    BY <1>1 DEF tesla_sunrise, tesla_sunset, Abort, MatchIsKept, InCall,
                NoInstanceMeansNoMatch
  <1>2. CASE \E a \in Automata : \E e \in Inputs[a] : tesla_update_state(a, e)
    BY <1>2, EnterMatches DEF tesla_update_state
  <1>3. CASE SunsetLoop
    BY <1>3, EnterMatches
    DEF SunsetLoop, SunsetClass, SunsetStaticDone, SunsetReturn, MatchIsKept,
        InCall, NoInstanceMeansNoMatch
  <1>4. CASE Ignored \/ InitMissing \/ ScanTooManyClones \/ MoveFails
    BY <1>4, LeaveMatches
    DEF Ignored, InitMissing, ScanTooManyClones, MoveFails, InCall, Scanning
  <1>5. CASE InitFound
    <2>1. CASE Return({"failed_to_init"})
      BY <1>5, <2>1, LeaveMatches DEF InitFound, InCall
    <2>2. CASE UNCHANGED <<pc, clones, matched_something, note>>
      BY <2>2 DEF MatchIsKept, NoInstanceMeansNoMatch, InCall
    <2>3. QED
      BY <1>5, <2>1, <2>2 DEF InitFound
  <1>6. CASE Initialised \/ LateInit \/ InitSkip
    <2>1. pc \in {"lookup", "init"} /\ note' = note
      BY <1>6 DEF Initialised, LateInit, InitSkip
    <2>2. clones' = clones /\ clones = << >> /\ note = {}
      BY <1>6, <2>1
      DEF Initialised, LateInit, InitSkip, StartScan, locals, ClonesPending,
          MatchIsKept
    <2>3. QED
      BY <2>1, <2>2 DEF MatchIsKept, NoInstanceMeansNoMatch
  <1>7. CASE InitDone
    <2>1. pc = "init" /\ note = {} /\ clones = << >> /\ clones' = clones
          /\ pc' \in {"scan", "stopped"}
      BY <1>7 DEF InitDone, StartScan, locals, ClonesPending, MatchIsKept, Notify
    <2>2. note' \subseteq {"new_instance", "out_of_static_space", "no_dyn_space"}
      BY <1>7, <2>1 DEF InitDone, Notify
    <2>3. QED
      BY <2>1, <2>2 DEF MatchIsKept, NoInstanceMeansNoMatch, InCall
  <1>8. CASE pc = "scan" /\ pc' = "scan" /\ Next
    BY <1>8, ScanMatches DEF NoInstanceMeansNoMatch
  <1>9. CASE ScanFail \/ ScanJoin
    <2>1. CASE pc' = "scan"
      BY <1>8, <1>9, <2>1 DEF ScanFail, ScanJoin, Scanning, Next, UpdateClassState
    <2>2. CASE pc' # "scan"
      <3>1. /\ pc' = "stopped" /\ "no_instance" \notin note
            /\ note' \in {note \cup {"bad_transition"}, note \cup {"assert"}}
        BY <1>9, <2>2 DEF ScanFail, ScanJoin, Scanning, Notify, Abort, MatchIsKept,
                          InCall
      <3>2. "no_instance" \notin note'
        BY <3>1
      <3>3. QED
        BY <3>1, <3>2 DEF MatchIsKept, NoInstanceMeansNoMatch, InCall
    <2>3. QED
      BY <2>1, <2>2
  <1>10. CASE ScanIgnore \/ ScanUpdate \/ ScanFork
    BY <1>8, <1>10
    DEF ScanIgnore, ScanUpdate, ScanFork, Scanning, Next, UpdateClassState
  <1>11. CASE ScanDone
    BY <1>11 DEF ScanDone, MatchIsKept, NoInstanceMeansNoMatch, InCall
  <1>12. CASE MoveClone
    <2>1. CASE Return({"failed_to_union"})
      BY <1>12, <2>1, LeaveMatches DEF MoveClone, InCall
    <2>2. CASE ~Return({"failed_to_union"})
      <3>1. clones # << >> /\ pc = "move" /\ "no_instance" \notin note
        BY <1>12 DEF MoveClone, MatchIsKept, InCall, TypeOK, FrameTypeOK
      <3>2. /\ matched_something /\ matched_something' = matched_something
            /\ pc' = pc /\ note' = note \cup {"clone"} \cup Accept(Clone.transition)
        BY <1>12, <2>2, <3>1 DEF MoveClone, MatchIsKept
      <3>3. "no_instance" \notin note'
        BY <3>1, <3>2 DEF Accept
      <3>4. QED
        BY <3>1, <3>2, <3>3 DEF MatchIsKept, NoInstanceMeansNoMatch, InCall
    <2>3. QED
      BY <2>1, <2>2
  <1>13. CASE Finish
    <2>1. CASE matched_something
      BY <1>13, <2>1, LeaveMatches DEF Finish, InCall
    <2>2. CASE ~matched_something
      <3>1. ~InCall' /\ note' = note \cup {"no_instance"}
        BY <1>13, <2>2, ReturnLeaves DEF Finish
      <3>2. note \cap {"update", "clone"} = {}
        BY <1>13, <2>2 DEF Finish, MatchIsKept
      <3>3. QED
        BY <3>1, <3>2 DEF MatchIsKept, NoInstanceMeansNoMatch, InCall
    <2>3. QED
      BY <2>1, <2>2
  <1>14. CASE Stopped \/ UNCHANGED vars
    BY <1>14
    DEF Stopped, vars, locals, MatchIsKept, NoInstanceMeansNoMatch, InCall
  <1>15. QED
    BY <1>1, <1>2, <1>3, <1>4, <1>5, <1>6, <1>7, <1>9, <1>10, <1>11, <1>12,
       <1>13, <1>14
    DEF Next, UpdateClassState

\* For all automata and events: a call that has moved or cloned an instance
\* does not report that there was none.
THEOREM NoInstanceIsTrue == Spec => []NoInstanceMeansNoMatch
  <1>1. Init => MatchInv
    BY InitTypeOK
    DEF Init, MatchInv, ClonesPending, MatchIsKept, NoInstanceMeansNoMatch, InCall
  <1>2. MatchInv /\ [Next]_vars => MatchInv'
    BY NextTypeOK, NextClonesPending, NextMatches DEF MatchInv
  <1>3. MatchInv => NoInstanceMeansNoMatch
    BY DEF MatchInv
  <1>4. QED
    BY <1>1, <1>2, <1>3, PTL DEF Spec

-----------------------------------------------------------------------------
(* A slot for every clone *)

\* Late initialisation goes forward, and takes one slot at most.
LEMMA InitSearchCounts ==
  ASSUME OneInitSymbol, TypeOK, ClonesCounted, InitSkip \/ InitFound
  PROVE  ClonesCounted'
  <1>0. /\ class \in Automata /\ i \in Symbols(class) /\ i \in Nat /\ pc = "init"
        /\ tc_free \in [Automata -> 0 .. Limit]
    BY AutomataAssumption
    DEF InitSkip, InitFound, TypeOK, FrameTypeOK, StoreTypeOK, InCall, Symbols
  <1>1. Len(Trans(class, i)) \in Nat /\ Symbols(class) \subseteq Int
    BY <1>0, FirstTransitionType, AutomataAssumption DEF Symbols
  <1>2. CASE InitSkip
    <2>1. i' > i /\ UNCHANGED <<pc, tc_free, call>>
      BY <1>0, <1>1, <1>2 DEF InitSkip, store
    <2>2. \A s \in Symbols(class) : s >= i' => s >= i
      BY <1>0, <1>1, <1>2 DEF InitSkip
    <2>3. QED
      BY <1>0, <2>1, <2>2 DEF ClonesCounted, call
  <1>3. CASE InitFound
    <2>1. CASE \E e : Return(e)
      <3>1. ~InCall'
        BY <2>1, ReturnLeaves
      <3>2. QED
        BY <3>1 DEF ClonesCounted, InCall
    <2>2. CASE ~\E e : Return(e)
      <3>1. /\ tesla_instance_new(class, EmptyKey, Trans(class, i)[1].to)
            /\ i' = i + 1 /\ UNCHANGED <<pc, call>> /\ FirstIsInit(class, i)
        BY <1>3, <2>2 DEF InitFound
      <3>2. tc_free'[class] = tc_free[class] - 1
        BY <1>0, <3>1 DEF tesla_instance_new
      <3>3. tc_free[class] = Limit
        BY <1>0, <3>1 DEF ClonesCounted
      <3>4. \A s \in Symbols(class) : s >= i + 1 => ~FirstIsInit(class, s)
        BY <1>0, <1>1, <3>1 DEF OneInitSymbol
      <3>5. QED
        BY <1>0, <3>1, <3>2, <3>3, <3>4 DEF ClonesCounted, call
    <2>3. QED
      BY <2>1, <2>2
  <1>4. QED
    BY <1>2, <1>3

LEMMA ScanStartCounts ==
  ASSUME TypeOK, ClonesPending, ClonesCounted, Initialised \/ InitDone,
         pc' = "scan"
  PROVE  ClonesCounted'
  <1>1. /\ class \in Automata /\ UNCHANGED <<call, tc_free, max_clones, clones>>
        /\ expected' = Limit - tc_free'[class] /\ clones = << >>
        /\ tc_free[class] # Limit
    BY DEF Initialised, InitDone, StartScan, TypeOK, FrameTypeOK, InCall, store,
           ClonesPending
  <1>2. tc_free[class] \in 0 .. Limit /\ max_clones \in 0 .. Limit
    BY <1>1 DEF TypeOK, StoreTypeOK, FrameTypeOK
  <1>3. max_clones = tc_free[class] \/ tc_free[class] = Limit - 1
    BY <1>1 DEF Initialised, InitDone, ClonesCounted
  <1>4. Len(clones) = 0
    BY <1>1
  <1>5. QED
    BY <1>1, <1>2, <1>3, <1>4, LimitAssumption DEF ClonesCounted, call

\* In the scan a clone is only noted for an instance that is counted.
LEMMA ScanCounts ==
  ASSUME TypeOK, ClonesCounted, pc = "scan", Next, pc' = "scan"
  PROVE  ClonesCounted'
  <1>1. /\ Scanning /\ UNCHANGED <<tc_free, class>> /\ class \in Automata
        /\ expected' = expected \/ expected' = expected - 1
    BY ScanRewritesCurrent
  <1>2. /\ tc_free[class] \in 0 .. Limit /\ max_clones \in 0 .. Limit
        /\ clones \in Seq(CloneInfo) /\ expected \in Int /\ expected > 0
        /\ Len(clones) \in Nat
    BY <1>1 DEF TypeOK, StoreTypeOK, FrameTypeOK, Scanning
  <1>3. CASE ScanFork
    <2>1. /\ \E c : clones' = Append(clones, c)
          /\ Len(clones) < max_clones /\ max_clones' = max_clones
          /\ expected' = expected - 1
      BY <1>3 DEF ScanFork, EndIteration
    <2>2. Len(clones') = Len(clones) + 1
      BY <1>2, <2>1
    <2>3. QED
      BY <1>1, <1>2, <2>1, <2>2, LimitAssumption DEF ClonesCounted
  <1>4. CASE ~ScanFork
    <2>1. clones' = clones /\ max_clones' = max_clones
      <3>1. ScanIgnore \/ ScanFail \/ ScanUpdate \/ ScanJoin
        BY <1>4, ScanSteps
      <3>2. QED
        BY <3>1 DEF ScanIgnore, ScanFail, ScanUpdate, ScanJoin, Abort,
                    EndIteration
    <2>2. QED
      BY <1>1, <1>2, <2>1, LimitAssumption DEF ClonesCounted
  <1>5. QED
    BY <1>3, <1>4

\* tesla_update_class_state is entered by its two callers.
LEMMA LookupIsEntry ==
  ASSUME Next, pc' = "lookup" PROVE pc \in {"idle", "sunset"}
  BY DEF Next, tesla_sunrise, tesla_sunset, tesla_update_state, SunsetLoop,
         SunsetClass, SunsetStaticDone, SunsetReturn, UpdateClassState,
         Ignored, Initialised, LateInit, InitSkip, InitFound, InitMissing,
         InitDone, ScanIgnore, ScanFail, ScanUpdate, ScanFork,
         ScanTooManyClones, ScanJoin, ScanDone, MoveClone, MoveFails, Finish,
         Stopped, Scanning, Return, Notify, Caller, Abort, vars

LEMMA NextCounts ==
  ASSUME OneInitSymbol, TypeOK, ClonesPending, ClonesCounted, [Next]_vars
  PROVE  ClonesCounted'
  <1>1. CASE pc' \notin {"lookup", "init", "scan"}
    BY <1>1 DEF ClonesCounted
  <1>2. CASE pc = "scan" /\ pc' = "scan" /\ Next
    BY <1>2, ScanCounts
  <1>3. CASE pc # "scan" /\ pc' = "scan" /\ Next
    BY <1>3, ScanBegins, ScanStartCounts
  <1>4. CASE UNCHANGED vars
    BY <1>4 DEF vars, store, call, locals, ClonesCounted
  <1>5. CASE pc' = "lookup" /\ Next
    <2>1. \E a, s, p : Enter(a, s, p) /\ UNCHANGED tc_free
      <3>1. SunsetClass \/ \E a \in Automata : \E e \in Inputs[a] : tesla_update_state(a, e)
        BY <1>5, CallFrame, LookupIsEntry DEF InCall
      <3>2. QED
        BY <3>1 DEF SunsetClass, tesla_update_state, store
    <2>2. QED
      BY <1>5, <2>1 DEF Enter, ClonesCounted
  <1>6. CASE pc' = "init" /\ Next
    <2>1. LateInit \/ InitSkip \/ InitFound
      BY <1>6
      DEF Next, tesla_sunrise, tesla_sunset, tesla_update_state, SunsetLoop,
          SunsetClass, SunsetStaticDone, SunsetReturn, UpdateClassState,
          Ignored, Initialised, InitMissing, InitDone,
          ScanIgnore, ScanFail, ScanUpdate, ScanFork, ScanTooManyClones,
          ScanJoin, ScanDone, MoveClone, MoveFails, Finish, Stopped,
          Scanning, Return, Notify, Caller, Abort, Enter, vars
    <2>2. CASE LateInit
      BY <2>2 DEF LateInit, ClonesCounted, call, store
    <2>3. QED
      BY <2>1, <2>2, InitSearchCounts
  <1>7. QED
    BY <1>1, <1>2, <1>3, <1>4, <1>5, <1>6

CloneSpaceInv == TypeOK /\ ClonesPending /\ ClonesCounted /\ CloneSpaceReserved

LEMMA NextCloneSpace ==
  ASSUME Limit >= 2, TypeOK, ClonesCounted, CloneSpaceReserved, [Next]_vars
  PROVE  CloneSpaceReserved'
  <1> SUFFICES ASSUME pc' = "move"
               PROVE  Len(clones') - (i' - 1) <= tc_free'[class']
    BY DEF CloneSpaceReserved
  <1>1. /\ class \in Automata \cup {NULL} /\ i \in Nat
        /\ clones \in Seq(CloneInfo) /\ Len(clones) \in Nat
    BY DEF TypeOK, FrameTypeOK
  <1>2. CASE UNCHANGED vars
    BY <1>2 DEF vars, store, call, locals, CloneSpaceReserved
  <1>3. CASE ScanDone
    <2>1. /\ class \in Automata /\ pc = "scan" /\ i' = 1
          /\ UNCHANGED <<clones, class, tc_free>>
      BY <1>3 DEF ScanDone, TypeOK, FrameTypeOK, InCall, call, store
    <2>2. /\ tc_free[class] \in 0 .. Limit /\ max_clones \in 0 .. Limit
          /\ expected \in Int
      BY <2>1 DEF TypeOK, StoreTypeOK, FrameTypeOK
    <2>3. Len(clones) <= tc_free[class]
      BY <1>1, <2>1, <2>2, LimitAssumption DEF ClonesCounted
    <2>4. QED
      BY <1>1, <2>1, <2>2, <2>3, LimitAssumption
  <1>4. CASE MoveClone /\ ~UnionConflicts(OldKey, NewName)
    <2>1. /\ class \in Automata /\ i' = i + 1 /\ UNCHANGED <<clones, class>>
          /\ \E k, st : tesla_instance_new(class, k, st)
          /\ pc = "move"
      BY <1>4 DEF MoveClone, TypeOK, FrameTypeOK, InCall, call
    <2>2. tc_free[class] \in 0 .. Limit /\ tc_free'[class] = tc_free[class] - 1
      BY <2>1 DEF TypeOK, StoreTypeOK, tesla_instance_new
    <2>3. Len(clones) - (i - 1) <= tc_free[class]
      BY <2>1 DEF CloneSpaceReserved
    <2>4. QED
      BY <1>1, <2>1, <2>2, <2>3, LimitAssumption
  <1>5. QED
    BY <1>2, <1>3, <1>4, MoveSteps

\* "failed to clone instance" is never reported when a class has room for two
\* instances and its automaton one symbol that initialises it: what the scan
\* has noted, after late initialisation too, has a slot waiting.
THEOREM ClonesHaveSlots ==
  ASSUME Limit >= 2, OneInitSymbol
  PROVE  Spec => []CloneSpaceReserved
  <1>1. Init => CloneSpaceInv
    BY InitTypeOK
    DEF Init, CloneSpaceInv, ClonesPending, ClonesCounted, CloneSpaceReserved
  <1>2. CloneSpaceInv /\ [Next]_vars => CloneSpaceInv'
    BY NextTypeOK, NextClonesPending, NextCounts, NextCloneSpace DEF CloneSpaceInv
  <1>3. CloneSpaceInv => CloneSpaceReserved
    BY DEF CloneSpaceInv
  <1>4. QED
    BY <1>1, <1>2, <1>3, PTL DEF Spec

-----------------------------------------------------------------------------
(* The registrations of classes, and that tesla_sunset leaves no instance  *)
(* of its lifetime behind.  Both rest on the failstop handlers: an early   *)
(* return of tesla_update_class_state, which would leave a class without a *)
(* registration or not reset, is a failure and stops the program.  They    *)
(* are for the kernel, where a full list is such a failure too; in         *)
(* userspace the classes that did not fit are registered dynamically, and  *)
(* forgotten after the first sunset (SunsetReturn keeps tls_dyn_count).    *)

NoDynamicClasses == \A l \in Lifetimes : tls_dyn_classes[l] = << >>

\* A lifetime's list holds classes of that lifetime, and no more than fit.
ListsFit ==
  \A l \in Lifetimes :
    /\ Len(tls_classes[l]) <= StaticClasses
    /\ \A k \in 1 .. Len(tls_classes[l]) : ta_lifetime[tls_classes[l][k]] = l

\* tesla_sunset walks the list of a lifetime that has begun, and the call it
\* makes is for a class of that list and its cleanup symbol.
SunsetFrameFits ==
  /\ pc = "idle" => sunset.loop = "none"
  /\ sunset.loop # "none" => sunset.life \in lifetimes
  /\ sunset.loop = "static" => sunset.n = StaticClasses
  /\ InCall /\ sunset.loop # "none" =>
       /\ sunset.loop = "static"
       /\ ta_lifetime[class] = sunset.life
       /\ symbol = ta_cleanup_symbol[class]

\* Whatever matches the cleanup symbol makes the class be reset.
CleanupIsRequired ==
  /\ pc \in {"idle", "sunset", "lookup", "init"} => ~matched_something
  /\ InCall /\ symbol = ta_cleanup_symbol[class] /\ matched_something
       => cleanup_required

\* The sunset of its lifetime has still to come to class a: it is in the list,
\* ahead of the loop if that is under way; or it is the class of the sunset's
\* current call, or late initialisation is about to register it.
FirstToCome(a) == IF sunset.loop = "static" /\ sunset.life = ta_lifetime[a]
            THEN sunset.i ELSE 1
InList(a) == \E k \in FirstToCome(a) .. Len(tls_classes[ta_lifetime[a]]) :
               tls_classes[ta_lifetime[a]][k] = a
SunsetToCome(a) ==
  /\ ~(sunset.loop = "dyn" /\ sunset.life = ta_lifetime[a])
  /\ \/ InList(a)
     \/ InCall /\ class = a /\ (pc = "init" \/ sunset.loop # "none")

ActiveAreAhead ==
  pc # "stopped" =>
    \A a \in Automata : ActiveSlots(a) # {} => SunsetToCome(a)

RegistrationInv ==
  /\ TypeOK /\ ClonesPending /\ NoDynamicClasses /\ ListsFit
  /\ SunsetFrameFits /\ CleanupIsRequired /\ ActiveAreAhead

-----------------------------------------------------------------------------
(* The lists *)

\* The steps that write the lists, or the lifetimes.
LEMMA ListsChange ==
  ASSUME [Next]_vars
  PROVE  \/ UNCHANGED <<tls_classes, tls_dyn_classes>> /\ lifetimes \subseteq lifetimes'
         \/ InitDone /\ UNCHANGED lifetimes
         \/ SunsetStaticDone \/ SunsetReturn
  <1>1. CASE \E l \in Lifetimes : tesla_sunrise(l) \/ tesla_sunset(l)
    BY <1>1 DEF tesla_sunrise, tesla_sunset, Abort, store
  <1>2. CASE \E a \in Automata : \E e \in Inputs[a] : tesla_update_state(a, e)
    BY <1>2 DEF tesla_update_state, store
  <1>3. CASE SunsetLoop
    BY <1>3 DEF SunsetLoop, SunsetClass, store
  <1>4. CASE UpdateClassState
    <2>1. CASE ScanIgnore \/ ScanFail \/ ScanUpdate \/ ScanFork
      BY <2>1 DEF ScanIgnore, ScanFail, ScanUpdate, ScanFork, EndIteration
    <2>2. CASE ScanJoin
      BY <2>2 DEF ScanJoin, EndIteration, Abort, store
    <2>3. CASE InitFound
      BY <2>3 DEF InitFound, store
    <2>4. QED
      BY <1>4, <2>1, <2>2, <2>3
      DEF UpdateClassState, Ignored, Initialised, LateInit, InitSkip, InitMissing,
          InitDone, ScanTooManyClones, ScanDone, MoveClone, MoveFails, Finish,
          store
  <1>5. CASE Stopped \/ UNCHANGED vars
    BY <1>5 DEF Stopped, vars, store
  <1>6. QED
    BY <1>1, <1>2, <1>3, <1>4, <1>5 DEF Next

\* In the kernel, with the failstop handlers, late initialisation registers
\* the class in the static list or stops the program.
LEMMA RegistersOrStops ==
  ASSUME Kernel, FailStop, TypeOK, InitDone
  PROVE  /\ UNCHANGED tls_dyn_classes
         /\ \/ /\ Len(tls_classes[ta_lifetime[class]]) < StaticClasses
               /\ tls_classes' = [tls_classes EXCEPT
                                    ![ta_lifetime[class]] = Append(@, class)]
               /\ pc' = "scan"
            \/ UNCHANGED tls_classes /\ pc' = "stopped"
  BY DEF InitDone, Notify, Failures

LEMMA NextLists ==
  ASSUME Kernel, FailStop, TypeOK, NoDynamicClasses, ListsFit, [Next]_vars
  PROVE  NoDynamicClasses' /\ ListsFit'
  <1>0. /\ tls_classes \in [Lifetimes -> Seq(Automata)]
        /\ tls_dyn_classes \in [Lifetimes -> Seq(Automata \cup {NULL})]
    BY DEF TypeOK, StoreTypeOK
  <1>1. CASE UNCHANGED <<tls_classes, tls_dyn_classes>>
    BY <1>1 DEF NoDynamicClasses, ListsFit
  <1>2. CASE InitDone
    <2>1. class \in Automata
      BY <1>2 DEF InitDone, TypeOK, FrameTypeOK, InCall
    <2>2. PICK l \in Lifetimes : l = ta_lifetime[class]
      BY <2>1, AutomataAssumption
    <2>3. NoDynamicClasses'
      BY <1>2, RegistersOrStops DEF NoDynamicClasses
    <2>4. CASE UNCHANGED tls_classes
      BY <2>3, <2>4 DEF ListsFit
    <2>5. CASE /\ Len(tls_classes[l]) < StaticClasses
               /\ tls_classes' = [tls_classes EXCEPT ![l] = Append(@, class)]
      <3> SUFFICES ASSUME NEW m \in Lifetimes
                   PROVE  /\ Len(tls_classes'[m]) <= StaticClasses
                          /\ \A k \in 1 .. Len(tls_classes'[m]) :
                               ta_lifetime[tls_classes'[m][k]] = m
        BY <2>3 DEF ListsFit
      <3>1. CASE m # l
        BY <1>0, <2>5, <3>1 DEF ListsFit
      <3>2. CASE m = l
        <4>1. PICK q \in Seq(Automata) : q = tls_classes[l]
          BY <1>0
        <4>2. tls_classes'[m] = Append(q, class)
          BY <1>0, <2>5, <3>2, <4>1
        <4>3. Len(q) < StaticClasses /\ \A k \in 1 .. Len(q) : ta_lifetime[q[k]] = l
          BY <2>5, <4>1 DEF ListsFit
        <4>4. /\ Len(Append(q, class)) = Len(q) + 1 /\ Len(q) \in Nat
              /\ \A k \in 1 .. Len(q) : Append(q, class)[k] = q[k]
              /\ Append(q, class)[Len(q) + 1] = class
          BY <2>1, <4>1
        <4>5. Len(q) + 1 <= StaticClasses
          BY <4>3, <4>4, SizesAssumption
        <4>6. ASSUME NEW k \in 1 .. Len(q) + 1
              PROVE  ta_lifetime[Append(q, class)[k]] = l
          <5>1. CASE k = Len(q) + 1
            BY <2>2, <4>4, <5>1
          <5>2. CASE k # Len(q) + 1
            <6>1. k \in 1 .. Len(q)
              BY <4>4, <5>2
            <6>2. QED
              BY <4>3, <4>4, <6>1
          <5>3. QED
            BY <5>1, <5>2
        <4>7. QED
          BY <3>2, <4>2, <4>4, <4>5, <4>6
      <3>3. QED
        BY <3>1, <3>2
    <2>6. QED
      BY <1>2, <2>2, <2>3, <2>4, <2>5, RegistersOrStops
  <1>3. CASE SunsetStaticDone
    <2> SUFFICES ASSUME NEW m \in Lifetimes
                 PROVE  /\ Len(tls_classes'[m]) <= StaticClasses
                        /\ \A k \in 1 .. Len(tls_classes'[m]) :
                             ta_lifetime[tls_classes'[m][k]] = m
      BY <1>3 DEF SunsetStaticDone, NoDynamicClasses, ListsFit
    <2>1. tls_classes'[m] = tls_classes[m] \/ tls_classes'[m] = << >>
      BY <1>0, <1>3 DEF SunsetStaticDone
    <2>2. CASE tls_classes'[m] = << >>
      BY <2>2, SizesAssumption
    <2>3. QED
      BY <2>1, <2>2 DEF ListsFit
  <1>4. CASE SunsetReturn
    <2>1. UNCHANGED tls_classes
      BY <1>4 DEF SunsetReturn
    <2>2. sunset.life \in Lifetimes
      BY <1>4 DEF SunsetReturn, TypeOK, SunsetTypeOK
    <2>3. ASSUME NEW m \in Lifetimes PROVE tls_dyn_classes'[m] = << >>
      <3>1. tls_dyn_classes[m] = << >> /\ Len(tls_dyn_classes[sunset.life]) = 0
        BY <2>2 DEF NoDynamicClasses
      <3>2. CASE m # sunset.life
        BY <1>0, <1>4, <2>2, <3>1, <3>2 DEF SunsetReturn
      <3>3. CASE m = sunset.life
        <4>1. tls_dyn_classes'[m] = [j \in 1 .. 0 |-> NULL]
          BY <1>0, <1>4, <2>2, <3>1, <3>3 DEF SunsetReturn
        <4>2. QED
          BY <4>1
      <3>4. QED
        BY <3>2, <3>3
    <2>4. QED
      BY <2>1, <2>3 DEF NoDynamicClasses, ListsFit
  <1>5. QED
    BY <1>1, <1>2, <1>3, <1>4, ListsChange

-----------------------------------------------------------------------------
(* The frames of tesla_sunset and of its calls *)

\* With the failstop handlers a call that reports a failure does not return.
LEMMA FailuresStop ==
  ASSUME FailStop, NEW e, e \cap Failures # {}, Return(e)
  PROVE  pc' = "stopped"
  BY DEF Return, Notify

LEMMA CallSteps == UpdateClassState => InCall
  BY DEF UpdateClassState, Ignored, Initialised, LateInit, InitSkip, InitFound,
         InitMissing, InitDone, ScanIgnore, ScanFail, ScanUpdate, ScanFork,
         ScanTooManyClones, ScanJoin, ScanDone, MoveClone, MoveFails, Finish,
         Scanning, InCall

\* tesla_update_class_state does not touch the frame of tesla_sunset.
LEMMA CallKeepsSunset == UpdateClassState => UNCHANGED sunset
  <1>1. CASE ScanIgnore \/ ScanFail \/ ScanUpdate \/ ScanFork
    BY <1>1 DEF ScanIgnore, ScanFail, ScanUpdate, ScanFork, EndIteration
  <1>2. CASE ScanJoin
    BY <1>2 DEF ScanJoin, EndIteration, Abort
  <1>3. CASE InitFound \/ MoveClone
    BY <1>3 DEF InitFound, MoveClone, Return
  <1>4. CASE Initialised \/ LateInit \/ InitSkip \/ InitDone \/ ScanDone
    BY <1>4 DEF Initialised, LateInit, InitSkip, InitDone, ScanDone, StartScan
  <1>5. CASE Ignored \/ InitMissing \/ ScanTooManyClones \/ MoveFails \/ Finish
    BY <1>5 DEF Ignored, InitMissing, ScanTooManyClones, MoveFails, Finish, Return
  <1>6. QED
    BY <1>1, <1>2, <1>3, <1>4, <1>5 DEF UpdateClassState

\* A step inside a call is a step of tesla_update_class_state.
LEMMA StepInCall == ASSUME Next, InCall PROVE UpdateClassState
  BY DEF Next, InCall, tesla_sunrise, tesla_sunset, tesla_update_state,
         SunsetLoop, SunsetClass, SunsetStaticDone, SunsetReturn, Stopped

\* How a call goes on: it returns only from Ignored and from Finish, and
\* leaves late initialisation only through InitDone.
LEMMA CallGoesOn ==
  ASSUME FailStop, Next, InCall, pc' # "stopped"
  PROVE  /\ UNCHANGED sunset
         /\ \/ Ignored \/ Finish
            \/ /\ InCall' /\ UNCHANGED call
               /\ pc = "init" => pc' = "init" \/ InitDone
  <1>1. UpdateClassState
    BY StepInCall
  <1>2. CASE Ignored \/ Finish
    BY <1>2 DEF Ignored, Finish, Return
  <1>3. CASE InitMissing \/ ScanTooManyClones \/ MoveFails
    BY <1>3, FailuresStop DEF InitMissing, ScanTooManyClones, MoveFails, Failures
  <1>4. CASE InitFound
    <2>1. ~Return({"failed_to_init"})
      BY FailuresStop DEF Failures
    <2>2. QED
      BY <1>4, <2>1 DEF InitFound, InCall
  <1>5. CASE MoveClone
    <2>1. ~Return({"failed_to_union"})
      BY FailuresStop DEF Failures
    <2>2. QED
      BY <1>5, <2>1 DEF MoveClone, InCall
  <1>6. CASE Initialised \/ LateInit \/ InitSkip \/ InitDone \/ ScanDone
    BY <1>6
    DEF Initialised, LateInit, InitSkip, InitDone, ScanDone, StartScan, Notify,
        InCall
  <1>7. CASE ScanIgnore \/ ScanFail \/ ScanUpdate \/ ScanFork
    BY <1>7
    DEF ScanIgnore, ScanFail, ScanUpdate, ScanFork, EndIteration, Notify,
        Scanning, InCall
  <1>8. CASE ScanJoin
    BY <1>8 DEF ScanJoin, EndIteration, Abort, Scanning, InCall
  <1>9. QED
    BY <1>1, <1>2, <1>3, <1>4, <1>5, <1>6, <1>7, <1>8 DEF UpdateClassState

\* The class that tesla_sunset visits next.
LEMMA SunsetVisits ==
  ASSUME TypeOK, NoDynamicClasses, ListsFit, SunsetClass
  PROVE  /\ sunset.loop = "static" /\ sunset.life \in Lifetimes
         /\ sunset.i \in 1 .. Len(tls_classes[sunset.life])
         /\ class' = tls_classes[sunset.life][sunset.i] /\ class' \in Automata
         /\ ta_lifetime[class'] = sunset.life
         /\ symbol' = ta_cleanup_symbol[class']
         /\ sunset' = [sunset EXCEPT !.i = @ + 1]
         /\ UNCHANGED store
  <1>1. /\ sunset.life \in Lifetimes /\ sunset.loop \in {"static", "dyn"}
        /\ sunset.i \in Nat \ {0}
    BY DEF SunsetClass, TypeOK, SunsetTypeOK
  <1>2. sunset.loop = "static"
    <2>1. Len(tls_dyn_classes[sunset.life]) = 0
      BY <1>1 DEF NoDynamicClasses
    <2>2. QED
      BY <1>1, <2>1 DEF SunsetClass, SunsetHasClass, SunsetList
  <1>3. tls_classes[sunset.life] \in Seq(Automata)
    BY <1>1 DEF TypeOK, StoreTypeOK
  <1>4. /\ sunset.i \in 1 .. Len(tls_classes[sunset.life])
        /\ class' = tls_classes[sunset.life][sunset.i]
        /\ symbol' = ta_cleanup_symbol[class']
    BY <1>1, <1>2, <1>3 DEF SunsetClass, SunsetHasClass, SunsetList, Enter
  <1>5. QED
    BY <1>1, <1>2, <1>3, <1>4 DEF ListsFit, SunsetClass

LEMMA NextSunsetFrame ==
  ASSUME FailStop, TypeOK, NoDynamicClasses, ListsFit, SunsetFrameFits,
         [Next]_vars
  PROVE  SunsetFrameFits'
  <1>0. lifetimes \subseteq lifetimes'
    BY ListsChange DEF SunsetStaticDone, SunsetReturn
  <1>1. CASE \E l \in Lifetimes : tesla_sunrise(l)
    BY <1>0, <1>1 DEF tesla_sunrise, Abort, SunsetFrameFits, InCall
  <1>2. CASE \E l \in Lifetimes : tesla_sunset(l)
    BY <1>0, <1>2 DEF tesla_sunset, Abort, SunsetFrameFits, InCall, store
  <1>3. CASE \E a \in Automata : \E e \in Inputs[a] : tesla_update_state(a, e)
    BY <1>0, <1>3 DEF tesla_update_state, Enter, SunsetFrameFits, InCall
  <1>4. CASE SunsetClass
    <2>1. /\ sunset'.loop = sunset.loop /\ sunset'.life = sunset.life
          /\ sunset'.n = sunset.n
      BY <1>4, SunsetVisits DEF TypeOK, SunsetTypeOK
    <2>2. pc' = "lookup"
      BY <1>4 DEF SunsetClass, Enter
    <2>3. QED
      BY <1>0, <1>4, <2>1, <2>2, SunsetVisits DEF SunsetFrameFits
  <1>5. CASE SunsetStaticDone
    <2>1. sunset'.loop = "dyn" /\ sunset'.life = sunset.life /\ pc' = "sunset"
      BY <1>5 DEF SunsetStaticDone, TypeOK, SunsetTypeOK
    <2>2. QED
      BY <1>0, <1>5, <2>1 DEF SunsetFrameFits, InCall, SunsetStaticDone
  <1>6. CASE SunsetReturn
    BY <1>6 DEF SunsetReturn, SunsetFrameFits, NoSunset, InCall
  <1>7. CASE InCall /\ Next /\ pc' # "stopped"
    <2>1. UNCHANGED sunset
      BY <1>7, CallGoesOn
    <2>2. pc' = "idle" => sunset.loop = "none"
      <3>1. CASE Ignored \/ Finish
        BY <3>1 DEF Ignored, Finish, Return, Notify, Caller
      <3>2. QED
        BY <1>7, <3>1, CallGoesOn DEF InCall
    <2>3. CASE ~InCall'
      BY <1>0, <2>1, <2>2, <2>3 DEF SunsetFrameFits
    <2>4. CASE InCall'
      <3>1. UNCHANGED call
        BY <1>7, <2>4, CallFrame DEF InCall, tesla_update_state, SunsetClass
      <3>2. QED
        BY <1>0, <1>7, <2>1, <2>2, <2>4, <3>1 DEF SunsetFrameFits, call
    <2>5. QED
      BY <2>3, <2>4
  <1>8. CASE InCall /\ Next /\ pc' = "stopped"
    <2>1. UNCHANGED sunset
      BY <1>8, StepInCall, CallKeepsSunset
    <2>2. QED
      BY <1>0, <1>8, <2>1 DEF SunsetFrameFits, InCall
  <1>9. CASE Stopped \/ UNCHANGED vars
    BY <1>9 DEF Stopped, vars, call, store, SunsetFrameFits, InCall
  <1>10. QED
    BY <1>1, <1>2, <1>3, <1>4, <1>5, <1>6, <1>7, <1>8, <1>9, CallSteps
    DEF Next, SunsetLoop

\* A match of the cleanup symbol is a match of a cleanup transition.
LEMMA ScanRequiresCleanup ==
  ASSUME SunsetCleansUp, TypeOK, CleanupIsRequired, pc = "scan", Next,
         pc' = "scan"
  PROVE  CleanupIsRequired'
  <1>0. class \in Automata /\ symbol \in Symbols(class) /\ UNCHANGED call
    BY ScanNotes DEF TypeOK, FrameTypeOK, InCall
  <1>1. CASE ScanIgnore \/ ScanFail
    <2>1. UNCHANGED matched_something /\ (cleanup_required => cleanup_required')
      BY <1>1 DEF ScanIgnore, ScanFail, EndIteration
    <2>2. QED
      BY <1>0, <2>1 DEF CleanupIsRequired, InCall, call
  <1>2. CASE ScanJoin
    BY <1>0, <1>2
    DEF ScanJoin, EndIteration, Abort, CleanupIsRequired, InCall, call
  <1>3. CASE ScanUpdate \/ ScanFork
    <2>1. PICK k \in CurrentTriggers :
            cleanup_required' = (cleanup_required \/ Trans(class, symbol)[k].cleanup)
      BY <1>3 DEF ScanUpdate, ScanFork, EndIteration
    <2>2. Trans(class, symbol)[k] \in TransitionsOn(class, symbol)
      BY <2>1 DEF CurrentTriggers, Triggers, TransitionsOn
    <2>3. symbol = ta_cleanup_symbol[class] => cleanup_required'
      BY <1>0, <2>1, <2>2 DEF SunsetCleansUp
    <2>4. QED
      BY <1>0, <2>3 DEF CleanupIsRequired, call
  <1>4. QED
    BY <1>1, <1>2, <1>3, ScanSteps

LEMMA NextCleanup ==
  ASSUME SunsetCleansUp, TypeOK, CleanupIsRequired, [Next]_vars
  PROVE  CleanupIsRequired'
  <1> USE DEF CleanupIsRequired
  <1>1. CASE \E l \in Lifetimes : tesla_sunrise(l) \/ tesla_sunset(l)
    BY <1>1 DEF tesla_sunrise, tesla_sunset, Abort, InCall, locals
  <1>2. CASE \E a \in Automata : \E e \in Inputs[a] : tesla_update_state(a, e)
    BY <1>2 DEF tesla_update_state, Enter
  <1>3. CASE SunsetLoop
    BY <1>3 DEF SunsetLoop, SunsetClass, SunsetStaticDone, SunsetReturn, Enter,
                InCall, locals
  <1>4. CASE \E e : Return(e)
    BY <1>4, ReturnLeaves DEF Return
  <1>5. CASE Initialised \/ LateInit \/ InitSkip \/ InitDone \/ ScanDone
    BY <1>5
    DEF Initialised, LateInit, InitSkip, InitDone, ScanDone, StartScan, InCall,
        locals, call, Notify
  <1>6. CASE (InitFound \/ MoveClone) /\ ~\E e : Return(e)
    BY <1>6 DEF InitFound, MoveClone, InCall, call
  <1>7. CASE pc = "scan" /\ pc' = "scan" /\ Next
    BY <1>7, ScanRequiresCleanup
  <1>8. CASE pc' = "stopped"
    BY <1>8 DEF InCall
  <1>9. CASE ScanIgnore \/ ScanFail \/ ScanUpdate \/ ScanFork \/ ScanJoin
    <2>1. pc = "scan" /\ pc' \in {"scan", "stopped"} /\ Next
      BY <1>9
      DEF ScanIgnore, ScanFail, ScanUpdate, ScanFork, ScanJoin, Abort, Notify,
          Scanning, Next, UpdateClassState
    <2>2. QED
      BY <1>7, <1>8, <2>1
  <1>10. CASE Stopped \/ UNCHANGED vars
    BY <1>10 DEF Stopped, vars, call, locals, InCall
  <1>11. QED
    BY <1>1, <1>2, <1>3, <1>4, <1>5, <1>6, <1>9, <1>10
    DEF Next, UpdateClassState, Ignored, InitMissing, ScanTooManyClones,
        MoveFails, Finish

-----------------------------------------------------------------------------
(* Classes with instances *)

\* Only late initialisation gives instances to a class that has none: a clone
\* is made of an active instance.
LEMMA OnlyInitActivates ==
  ASSUME TypeOK, ClonesPending, [Next]_vars, ~InitFound, NEW a \in Automata,
         ActiveSlots(a)' # {}
  PROVE  ActiveSlots(a) # {}
  <1>0. inst \in [Automata -> [Indices -> Instance]]
    BY DEF TypeOK, StoreTypeOK
  <1>1. PICK m \in Indices : tesla_instance_active(inst'[a][m])
    BY DEF ActiveSlots
  <1>2. CASE UNCHANGED inst
    BY <1>2 DEF ActiveSlots
  <1>3. CASE ScanUpdate
    <2>1. /\ class \in Automata /\ i \in Indices
          /\ tesla_instance_active(inst[class][i])
      BY <1>3, LimitAssumption
      DEF ScanUpdate, Scanning, CurrentTriggers, Triggers, Current, TypeOK,
          FrameTypeOK, InCall, Indices
    <2>2. <<a, m>> # <<class, i>> => inst'[a][m] = inst[a][m]
      BY <1>0, <1>3, <2>1 DEF ScanUpdate
    <2>3. QED
      BY <1>1, <2>1, <2>2 DEF ActiveSlots
  <1>4. CASE ScanJoin
    <2>1. class \in Automata /\ i \in Indices
      BY <1>4, LimitAssumption
      DEF ScanJoin, Scanning, TypeOK, FrameTypeOK, InCall, Indices
    <2>2. UNCHANGED inst \/ inst' = [inst EXCEPT ![class][i] = Inactive]
      BY <1>4 DEF ScanJoin, Abort, store
    <2>3. inst'[a][m] = inst[a][m]
      BY <1>0, <1>1, <2>1, <2>2, InactiveIsInactive
    <2>4. QED
      BY <1>1, <2>3 DEF ActiveSlots
  <1>5. CASE MoveClone
    <2>1. class \in Automata
      BY <1>5 DEF MoveClone, TypeOK, FrameTypeOK, InCall
    <2>2. ActiveSlots(class) # {}
      <3>1. i \in 1 .. Len(clones) /\ clones \in Seq(CloneInfo) /\ pc = "move"
        BY <1>5 DEF MoveClone, TypeOK, FrameTypeOK
      <3>2. clones[i] \in CloneInfo /\ ClonePending(clones[i])
        BY <3>1 DEF ClonesPending
      <3>3. QED
        BY <3>2 DEF ClonePending, CloneInfo, ActiveSlots
    <2>3. a # class => inst'[a][m] = inst[a][m]
      BY <1>0, <1>5, <2>1 DEF MoveClone, tesla_instance_new
    <2>4. QED
      BY <1>1, <2>2, <2>3 DEF ActiveSlots
  <1>6. CASE Finish
    <2>1. class \in Automata
      BY <1>6 DEF Finish, TypeOK, FrameTypeOK, InCall
    <2>2. \/ UNCHANGED inst
          \/ inst' = [inst EXCEPT ![class] = [j \in Indices |-> Inactive]]
      BY <1>6 DEF Finish, tesla_class_reset
    <2>3. inst'[a][m] = inst[a][m]
      BY <1>0, <1>1, <2>1, <2>2, InactiveIsInactive
    <2>4. QED
      BY <1>1, <2>3 DEF ActiveSlots
  <1>7. QED
    BY <1>2, <1>3, <1>4, <1>5, <1>6, InstancesChange

\* A step that leaves the lists and the frame of tesla_sunset alone.
LEMMA InListKept ==
  ASSUME NEW a, UNCHANGED <<tls_classes, sunset>> PROVE InList(a)' <=> InList(a)
  BY DEF InList, FirstToCome

\* A class that the sunset of its lifetime has still to come to stays one, or
\* is visited.
LEMMA NextActiveAhead ==
  ASSUME Kernel, FailStop, RegistrationInv, [Next]_vars
  PROVE  ActiveAreAhead'
  <1> USE DEF RegistrationInv
  <1> SUFFICES ASSUME pc' # "stopped", NEW a \in Automata, ActiveSlots(a)' # {}
               PROVE  SunsetToCome(a)'
    BY DEF ActiveAreAhead
  <1>0. /\ inst \in [Automata -> [Indices -> Instance]]
        /\ tls_classes \in [Lifetimes -> Seq(Automata)]
        /\ sunset.i \in Nat \ {0} /\ sunset.n \in Nat
        /\ sunset.loop # "none" => sunset.life \in Lifetimes
        /\ ta_lifetime[a] \in Lifetimes
    BY AutomataAssumption DEF TypeOK, StoreTypeOK, SunsetTypeOK
  <1>00. pc # "stopped"
    BY DEF Next, SunsetLoop, UpdateClassState, tesla_sunrise, tesla_sunset,
           tesla_update_state, SunsetClass, SunsetStaticDone, SunsetReturn,
           Ignored, Initialised, LateInit, InitSkip, InitFound, InitMissing,
           InitDone, ScanIgnore, ScanFail, ScanUpdate, ScanFork,
           ScanTooManyClones, ScanJoin, ScanDone, MoveClone, MoveFails, Finish,
           Scanning, Stopped, vars
  <1>1. CASE UNCHANGED vars
    BY <1>1, <1>00 DEF vars, store, call, ActiveAreAhead, ActiveSlots, SunsetToCome,
                 InList, FirstToCome, InCall
  <1>2. CASE InitFound
    <2>1. /\ pc = "init" /\ pc' = "init" /\ class \in Automata
          /\ UNCHANGED <<class, tls_classes, sunset>>
          /\ \A b \in Automata \ {class} : inst'[b] = inst[b]
      <3>1. ~Return({"failed_to_init"})
        BY FailuresStop DEF Failures
      <3>2. class \in Automata
        BY <1>2 DEF InitFound, TypeOK, FrameTypeOK, InCall
      <3>3. QED
        BY <1>0, <1>2, <3>1, <3>2 DEF InitFound, tesla_instance_new, call
    <2>2. ~(sunset'.loop = "dyn")
      BY <2>1 DEF SunsetFrameFits, InCall
    <2>3. CASE a = class
      BY <2>1, <2>2, <2>3 DEF SunsetToCome, InCall
    <2>4. CASE a # class
      <3>1. ActiveSlots(a) # {}
        BY <2>1, <2>4 DEF ActiveSlots
      <3>2. InList(a)
        BY <1>00, <2>4, <3>1 DEF ActiveAreAhead, SunsetToCome
      <3>3. QED
        BY <2>1, <2>2, <3>2, InListKept DEF SunsetToCome
    <2>5. QED
      BY <2>3, <2>4
  <1> SUFFICES ASSUME Next, ~InitFound PROVE SunsetToCome(a)'
    BY <1>1, <1>2
  <1>3. SunsetToCome(a)
    BY <1>00, OnlyInitActivates DEF ActiveAreAhead
  <1>4. CASE \E l \in Lifetimes : tesla_sunrise(l)
    <2>1. pc = "idle" /\ UNCHANGED <<tls_classes, sunset>>
      BY <1>4 DEF tesla_sunrise, Abort
    <2>2. QED
      BY <1>3, <2>1, InListKept DEF SunsetToCome, InCall
  <1>5. CASE \E l \in Lifetimes : tesla_sunset(l)
    <2>1. /\ pc = "idle" /\ UNCHANGED tls_classes
          /\ sunset'.loop = "static" /\ sunset'.i = 1
      BY <1>5 DEF tesla_sunset, Abort, store
    <2>2. sunset.loop = "none"
      BY <2>1 DEF SunsetFrameFits
    <2>3. InList(a)'
      BY <1>3, <2>1, <2>2 DEF SunsetToCome, InList, FirstToCome, InCall
    <2>4. QED
      BY <2>1, <2>3 DEF SunsetToCome
  <1>6. CASE \E b \in Automata : \E e \in Inputs[b] : tesla_update_state(b, e)
    <2>1. pc = "idle" /\ UNCHANGED <<tls_classes, sunset>>
      BY <1>6 DEF tesla_update_state, store
    <2>2. QED
      BY <1>3, <2>1, InListKept DEF SunsetToCome, InCall
  <1>7. CASE SunsetClass
    <2>1. /\ sunset.loop = "static" /\ sunset.life \in Lifetimes
          /\ class' = tls_classes[sunset.life][sunset.i]
          /\ UNCHANGED tls_classes
          /\ sunset' = [sunset EXCEPT !.i = @ + 1]
          /\ pc = "sunset" /\ pc' = "lookup"
      BY <1>7, SunsetVisits DEF SunsetClass, Enter, store
    <2>2. /\ sunset'.loop = "static" /\ sunset'.life = sunset.life
          /\ sunset'.i = sunset.i + 1
      BY <2>1 DEF TypeOK, SunsetTypeOK
    <2>3. PICK k \in FirstToCome(a) .. Len(tls_classes[ta_lifetime[a]]) :
            tls_classes[ta_lifetime[a]][k] = a
      BY <1>3, <2>1 DEF SunsetToCome, InList, InCall
    <2>4. FirstToCome(a) \in Nat /\ Len(tls_classes[ta_lifetime[a]]) \in Nat
      BY <1>0 DEF FirstToCome
    <2>5. CASE sunset.life = ta_lifetime[a] /\ k = sunset.i
      BY <2>1, <2>2, <2>3, <2>5 DEF SunsetToCome, InCall
    <2>6. CASE ~(sunset.life = ta_lifetime[a] /\ k = sunset.i)
      <3>1. k \in FirstToCome(a)' .. Len(tls_classes[ta_lifetime[a]])
        BY <1>0, <2>1, <2>2, <2>3, <2>4, <2>6 DEF FirstToCome
      <3>2. InList(a)'
        BY <2>1, <2>3, <3>1 DEF InList
      <3>3. QED
        BY <2>2, <3>2 DEF SunsetToCome
    <2>7. QED
      BY <2>5, <2>6
  <1>8. CASE SunsetStaticDone
    <2>1. /\ pc = "sunset" /\ sunset.loop = "static" /\ ~SunsetHasClass
          /\ sunset'.loop = "dyn" /\ sunset'.life = sunset.life
          /\ tls_classes' = [tls_classes EXCEPT ![sunset.life] = << >>]
      BY <1>8 DEF SunsetStaticDone, TypeOK, SunsetTypeOK
    <2>2. InList(a)
      BY <1>3, <2>1 DEF SunsetToCome, InCall
    <2>3. sunset.life # ta_lifetime[a]
      <3> SUFFICES ASSUME sunset.life = ta_lifetime[a] PROVE FALSE
        OBVIOUS
      <3>1. PICK k \in sunset.i .. Len(tls_classes[sunset.life]) : TRUE
        BY <2>1, <2>2 DEF InList, FirstToCome
      <3>2. PICK q \in Seq(Automata) : q = tls_classes[sunset.life]
        BY <1>0
      <3>3. Len(q) \in Nat /\ Len(q) <= StaticClasses /\ sunset.n = StaticClasses
        BY <1>0, <2>1, <3>2 DEF ListsFit, SunsetFrameFits
      <3>4. sunset.i <= Len(q) /\ sunset.i <= sunset.n
        BY <1>0, <3>1, <3>2, <3>3, SizesAssumption
      <3>5. q[sunset.i] \in Automata
        BY <1>0, <3>2, <3>3, <3>4
      <3>6. QED
        BY <2>1, <3>2, <3>4, <3>5, AutomataAssumption
        DEF SunsetHasClass, SunsetList
    <2>4. tls_classes'[ta_lifetime[a]] = tls_classes[ta_lifetime[a]]
      BY <1>0, <2>1, <2>3
    <2>5. InList(a)'
      BY <2>1, <2>2, <2>3, <2>4 DEF InList, FirstToCome
    <2>6. QED
      BY <2>1, <2>3, <2>5 DEF SunsetToCome
  <1>9. CASE SunsetReturn
    <2>1. /\ pc = "sunset" /\ sunset.loop = "dyn" /\ sunset'.loop = "none"
          /\ UNCHANGED tls_classes
      BY <1>9 DEF SunsetReturn, NoSunset
    <2>2. InList(a)'
      BY <1>3, <2>1 DEF SunsetToCome, InList, FirstToCome, InCall
    <2>3. QED
      BY <2>1, <2>2 DEF SunsetToCome
  <1>10. CASE InCall
    <2>1. UNCHANGED sunset /\ sunset.loop # "dyn"
      BY <1>10, CallGoesOn DEF SunsetFrameFits
    <2>2. CASE Ignored
      <3>1. sunset.loop = "none" /\ pc = "lookup" /\ UNCHANGED tls_classes
        BY <1>10, <2>2 DEF Ignored, SunsetFrameFits, store
      <3>2. QED
        BY <1>3, <2>1, <3>1, InListKept DEF SunsetToCome
    <2>3. CASE Finish
      <3>1. pc = "move" /\ UNCHANGED tls_classes /\ class \in Automata
        BY <2>3 DEF Finish, TypeOK, FrameTypeOK, InCall
      <3>2. matched_something
        BY <2>3, FailuresStop DEF Finish, Failures
      <3>3. CASE sunset.loop = "none"
        BY <1>3, <2>1, <3>1, <3>3, InListKept DEF SunsetToCome
      <3>4. CASE sunset.loop # "none"
        <4>1. cleanup_required
          BY <1>10, <3>2, <3>4 DEF SunsetFrameFits, CleanupIsRequired
        <4>2. inst' = [inst EXCEPT ![class] = [j \in Indices |-> Inactive]]
          BY <2>3, <4>1 DEF Finish, tesla_class_reset
        <4>3. PICK m \in Indices : tesla_instance_active(inst'[a][m])
          BY DEF ActiveSlots
        <4>4. a # class
          BY <1>0, <3>1, <4>2, <4>3, InactiveIsInactive
        <4>5. QED
          BY <1>3, <2>1, <3>1, <4>4, InListKept DEF SunsetToCome
      <3>5. QED
        BY <3>3, <3>4
    <2>4. CASE InitDone
      <3>1. class \in Automata /\ UNCHANGED class /\ InCall'
        BY <1>10, <2>4, CallGoesOn
        DEF InitDone, Ignored, Finish, call, TypeOK, FrameTypeOK, InCall
      <3>2. PICK l \in Lifetimes : l = ta_lifetime[class]
        BY <3>1, AutomataAssumption
      <3>3. tls_classes' = [tls_classes EXCEPT ![l] = Append(@, class)]
        BY <2>4, <3>2, RegistersOrStops
      <3>4. PICK q \in Seq(Automata) : q = tls_classes[ta_lifetime[a]]
        BY <1>0
      <3>5. /\ Len(q) \in Nat /\ Len(Append(q, class)) = Len(q) + 1
            /\ \A k \in 1 .. Len(q) : Append(q, class)[k] = q[k]
            /\ Append(q, class)[Len(q) + 1] = class
        BY <3>1, <3>4
      <3>6. tls_classes'[ta_lifetime[a]] =
              IF ta_lifetime[a] = l THEN Append(q, class) ELSE q
        BY <1>0, <3>3, <3>4
      <3>7. FirstToCome(a) \in Nat \ {0} /\ UNCHANGED FirstToCome(a)
        BY <1>0, <2>1 DEF FirstToCome
      <3>8. CASE a = class /\ sunset.loop # "none"
        BY <2>1, <3>1, <3>8 DEF SunsetToCome
      <3>9. CASE a = class /\ sunset.loop = "none"
        <4>1. FirstToCome(a)' = 1
          BY <2>1, <3>9 DEF FirstToCome
        <4>2. InList(a)'
          BY <3>2, <3>5, <3>6, <3>9, <4>1 DEF InList
        <4>3. QED
          BY <2>1, <4>2 DEF SunsetToCome
      <3>10. CASE a # class
        <4>1. PICK k \in FirstToCome(a) .. Len(q) : q[k] = a
          BY <1>3, <3>4, <3>10 DEF SunsetToCome, InList
        <4>2. k \in 1 .. Len(q) /\ k \in FirstToCome(a) .. Len(q) + 1
          BY <3>5, <3>7, <4>1
        <4>3. InList(a)'
          BY <3>5, <3>6, <3>7, <4>1, <4>2 DEF InList
        <4>4. QED
          BY <2>1, <4>3 DEF SunsetToCome
      <3>11. QED
        BY <3>8, <3>9, <3>10
    <2>5. CASE ~Ignored /\ ~Finish /\ ~InitDone
      <3>1. InCall' /\ UNCHANGED call /\ (pc = "init" => pc' = "init")
        BY <1>10, <2>5, CallGoesOn
      <3>2. UNCHANGED tls_classes
        BY <1>10, <2>5, ListsChange DEF SunsetStaticDone, SunsetReturn, InCall
      <3>3. QED
        BY <1>3, <2>1, <3>1, <3>2, InListKept DEF SunsetToCome, call
    <2>6. QED
      BY <2>2, <2>3, <2>4, <2>5
  <1>11. ~Stopped
    BY DEF Stopped, vars
  <1>12. QED
    BY <1>4, <1>5, <1>6, <1>7, <1>8, <1>9, <1>10, <1>11, CallSteps
    DEF Next, SunsetLoop

-----------------------------------------------------------------------------
(* The theorems *)

LEMMA InitRegistration == Init => RegistrationInv
  <1> SUFFICES ASSUME Init PROVE RegistrationInv
    OBVIOUS
  <1>1. TypeOK /\ ClonesPending
    BY InitTypeOK DEF Init, ClonesPending
  <1>2. NoDynamicClasses /\ ListsFit
    BY SizesAssumption DEF Init, NoDynamicClasses, ListsFit
  <1>3. SunsetFrameFits /\ CleanupIsRequired
    BY DEF Init, SunsetFrameFits, NoSunset, CleanupIsRequired, InCall
  <1>4. ActiveAreAhead
    BY InactiveIsInactive DEF Init, ActiveAreAhead, ActiveSlots
  <1>5. QED
    BY <1>1, <1>2, <1>3, <1>4 DEF RegistrationInv

LEMMA RegistrationInvariant ==
  ASSUME Kernel, FailStop, SunsetCleansUp
  PROVE  Spec => []RegistrationInv
  <1>1. RegistrationInv /\ [Next]_vars => RegistrationInv'
    <2> SUFFICES ASSUME RegistrationInv, [Next]_vars PROVE RegistrationInv'
      OBVIOUS
    <2>1. TypeOK' /\ ClonesPending'
      BY NextTypeOK, NextClonesPending DEF RegistrationInv
    <2>2. NoDynamicClasses' /\ ListsFit' /\ SunsetFrameFits' /\ CleanupIsRequired'
      BY NextLists, NextSunsetFrame, NextCleanup DEF RegistrationInv
    <2>3. QED
      BY <2>1, <2>2, NextActiveAhead DEF RegistrationInv
  <1>2. QED
    BY <1>1, InitRegistration, PTL DEF Spec

\* In the kernel, with the failstop handlers, and for automata whose cleanup
\* symbol only cleans up, every class that has an instance between two calls
\* is in the list that the sunset of its lifetime walks: a kernel has no
\* dynamic list, whose zeroes could stand in the way.
THEOREM ClassesAreRegistered ==
  ASSUME Kernel, FailStop, SunsetCleansUp
  PROVE  Spec => [](ActiveIsRegistered /\ NoDynamicClasses)
  <1>1. RegistrationInv => ActiveIsRegistered /\ NoDynamicClasses
    <2> SUFFICES ASSUME RegistrationInv, pc = "idle", NEW a \in Automata,
                        ActiveSlots(a) # {}
                 PROVE  a \in WillBeVisited(ta_lifetime[a])
      BY DEF ActiveIsRegistered, RegistrationInv
    <2>1. InList(a) /\ sunset.loop = "none"
      BY DEF RegistrationInv, ActiveAreAhead, SunsetToCome, InCall, SunsetFrameFits
    <2>2. PICK k \in 1 .. Len(tls_classes[ta_lifetime[a]]) :
            tls_classes[ta_lifetime[a]][k] = a
      BY <2>1 DEF InList, FirstToCome
    <2>3. QED
      BY <2>2 DEF WillBeVisited
  <1>2. QED
    BY <1>1, RegistrationInvariant, PTL

\* Under the same hypotheses tesla_sunset leaves no instance of its lifetime:
\* when its second loop ends, no class of that lifetime is still ahead of it.
THEOREM NothingOutlivesSunset ==
  ASSUME Kernel, FailStop, SunsetCleansUp
  PROVE  Spec => SunsetEmptiesClasses
  <1> DEFINE Empties ==
        sunset.loop # "none" /\ sunset'.loop = "none"
          => \A a \in Automata :
               ta_lifetime[a] = sunset.life => ActiveSlots(a)' = {}
  <1>1. RegistrationInv /\ [Next]_vars => [Empties]_vars
    <2> SUFFICES ASSUME RegistrationInv, Next, sunset.loop # "none",
                        sunset'.loop = "none", NEW a \in Automata,
                        ta_lifetime[a] = sunset.life
                 PROVE  ActiveSlots(a)' = {}
      OBVIOUS
    <2>1. SunsetReturn
      <3>1. ~\E l \in Lifetimes : tesla_sunrise(l) \/ tesla_sunset(l)
        BY DEF RegistrationInv, SunsetFrameFits, tesla_sunrise, tesla_sunset
      <3>2. ~\E b \in Automata : \E e \in Inputs[b] : tesla_update_state(b, e)
        BY DEF tesla_update_state
      <3>3. ~SunsetClass /\ ~SunsetStaticDone
        <4>1. sunset \in [life : Lifetimes \cup {NULL},
                          loop : {"none", "static", "dyn"},
                          i : Nat \ {0}, n : Nat, free : SUBSET Slots]
          BY DEF RegistrationInv, TypeOK, SunsetTypeOK
        <4>2. QED
          BY <4>1 DEF SunsetClass, SunsetStaticDone
      <3>4. ~UpdateClassState /\ ~Stopped
        BY CallKeepsSunset DEF Stopped, vars
      <3>5. QED
        BY <3>1, <3>2, <3>3, <3>4 DEF Next, SunsetLoop
    <2>2. pc = "sunset" /\ sunset.loop = "dyn" /\ UNCHANGED inst
      BY <2>1 DEF SunsetReturn
    <2>3. ActiveSlots(a) = {}
      BY <2>2 DEF RegistrationInv, ActiveAreAhead, SunsetToCome
    <2>4. QED
      BY <2>2, <2>3 DEF ActiveSlots
  <1>2. QED
    BY <1>1, RegistrationInvariant, PTL DEF Spec, SunsetEmptiesClasses

=============================================================================
