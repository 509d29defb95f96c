-------------------------- MODULE TeslaStoreProofs --------------------------
(***************************************************************************)
(* The global store, for any number of threads, automata and buckets: who  *)
(* initialises it, that nobody meets it half made, that the lock of a      *)
(* class keeps the calls of the class and of its automaton apart whatever  *)
(* sunsets do beside them, and that classes are registered for cleanup.    *)
(* All of it is said of the executions in which no call came while the     *)
(* store was being initialised (~raced), like the properties themselves.   *)
(***************************************************************************)
EXTENDS TeslaStore, FiniteSetTheorems, TLAPS

PCs == {"idle", "init_length", "init_table", "init_classes", "probe", "claim",
        "acquire", "update", "find", "register", "scan", "sunset", "crashed",
        "no_entry"}

SharedTypeOK ==
  /\ length_set \in BOOLEAN /\ ts_classes \in Tables \cup {NULL} /\ tables \in Nat
  /\ class_inited \in [Classes -> BOOLEAN]
  /\ tc_automaton \in [Classes -> Automata \cup {NULL}]
  /\ tc_lock \in [Classes -> Threads \cup {NULL}]
  /\ has_instances \in [Classes -> BOOLEAN]
  /\ tls_classes \in [1 .. StaticClasses -> Classes \cup {NULL}]

FrameTypeOK ==
  /\ pc \in [Threads -> PCs]
  /\ autom \in [Threads -> Automata \cup {NULL}]
  /\ i \in [Threads -> Nat] /\ slot \in [Threads -> Nat]
  /\ tclass \in [Threads -> Classes \cup {NULL}]

\* What a thread has at hand where it is.
FrameFits(t) ==
  /\ Initialising(t) \/ pc[t] \in {"probe", "claim", "acquire"}
       => autom[t] \in Automata
  /\ pc[t] \in {"idle", "sunset"} => autom[t] = NULL
  /\ pc[t] = "init_length" => i[t] = 0
  /\ pc[t] = "init_table" => i[t] = 0
  /\ pc[t] = "init_classes" => i[t] \in Buckets
  /\ pc[t] \in {"claim", "acquire"} \/ Working(t) => tclass[t] \in Classes
  /\ pc[t] = "sunset" => i[t] # 0
  /\ pc[t] = "find" => slot[t] # 0
  /\ pc[t] = "register" => slot[t] \in 1 .. StaticClasses

TypeOK == SharedTypeOK /\ FrameTypeOK /\ \A t \in Threads : FrameFits(t)

\* The store has its table, and all of the classes in it are initialised.
StoreReady ==
  /\ ts_classes # NULL
  /\ \A b \in Buckets : class_inited[<<ts_classes, b>>]

\* Nothing has happened to the store yet.
StoreUntouched ==
  /\ tables = 0 /\ ts_classes = NULL
  /\ \A t \in Threads : pc[t] \in {"idle", "init_length"}

\* Whoever initialises the store is alone with it: other threads are outside,
\* or at a sunset that finds nothing registered.
InitialisesAlone(t) ==
  Initialising(t) =>
    /\ \A u \in Threads \ {t} : pc[u] \in {"idle", "sunset"}
    /\ \A n \in 1 .. StaticClasses : tls_classes[n] = NULL

\* How far the initialisation is.
InitPhase(t) ==
  /\ pc[t] = "init_length" => ~length_set
  /\ pc[t] = "init_table" => tables = 0
  /\ pc[t] = "init_classes" =>
       /\ ts_classes # NULL
       /\ \A b \in Buckets : b < i[t] => class_inited[<<ts_classes, b>>]

StorePhases ==
  /\ ~length_set => StoreUntouched
  /\ length_set /\ (\A t \in Threads : ~Initialising(t)) => StoreReady
  /\ \A t \in Threads : InitialisesAlone(t) /\ InitPhase(t)
  /\ ~length_set => \A n \in 1 .. StaticClasses : tls_classes[n] = NULL
  /\ \A t \in Threads :
       pc[t] \in {"claim", "acquire"} => tclass[t][1] = ts_classes

Sound == TypeOK /\ StorePhases /\ \A t \in Threads : pc[t] # "crashed"
StoreInv == ~raced => Sound

-----------------------------------------------------------------------------
(* Types *)

LEMMA TablesFact == 1 \in Tables /\ Tables \subseteq Nat /\ NULL \notin Tables
  <1>1. Cardinality(Threads) \in Nat
    BY StoreAssumption, FS_CardinalityType
  <1>2. QED
    BY <1>1, StoreAssumption DEF Tables

LEMMA BucketType ==
  ASSUME NEW a \in Automata, NEW n \in Nat PROVE (hash[a] + n) % ts_length \in Buckets
  BY StoreAssumption DEF Buckets

LEMMA InitTypeOK == Init => TypeOK
  <1> SUFFICES ASSUME Init PROVE TypeOK
    OBVIOUS
  <1>1. SharedTypeOK
    BY StoreAssumption, TablesFact DEF Init, SharedTypeOK
  <1>2. FrameTypeOK /\ \A t \in Threads : FrameFits(t)
    BY DEF Init, FrameTypeOK, FrameFits, PCs, Initialising, Working
  <1>3. QED
    BY <1>1, <1>2 DEF TypeOK

\* A thread writes only its own frame.
LEMMA OthersStay ==
  ASSUME TypeOK, NEW t \in Threads,
         (\E a \in Automata : tesla_store_get(t, a)) \/ Run(t) \/ Sunset(t),
         NEW u \in Threads \ {t}
  PROVE  /\ pc'[u] = pc[u] /\ autom'[u] = autom[u] /\ i'[u] = i[u]
         /\ slot'[u] = slot[u] /\ tclass'[u] = tclass[u]
  <1>0. FrameTypeOK
    BY DEF TypeOK
  <1>1. CASE \E a \in Automata : tesla_store_get(t, a)
    BY <1>0, <1>1 DEF tesla_store_get, Goto, FrameTypeOK
  <1>2. CASE Run(t)
    BY <1>0, <1>2
    DEF Run, InitLength, InitTable, InitClass, ProbeFaults, ProbeCollision,
        ProbeFound, ProbeEmpty, Claim, ProbeFull, AcquireUninitialised, Acquire,
        UpdateExisting, LateInit, FindTaken, FindFree, FindNone, Register,
        Release, Goto, frame, FrameTypeOK
  <1>3. CASE Sunset(t)
    BY <1>0, <1>3
    DEF Sunset, SunsetBegin, SunsetVisit, SunsetLeave, SunsetEnd, Goto, FrameTypeOK
  <1>4. QED
    BY <1>1, <1>2, <1>3

\* The types after a step of thread t.
LEMMA StepTypes ==
  ASSUME TypeOK, StorePhases, NEW t \in Threads,
         (\E a \in Automata : tesla_store_get(t, a)) \/ Run(t) \/ Sunset(t)
  PROVE  TypeOK'
  <1>0. SharedTypeOK /\ FrameTypeOK /\ FrameFits(t)
    BY DEF TypeOK
  <1>1. SharedTypeOK' /\ FrameTypeOK' /\ FrameFits(t)'
    <2>1. CASE \E a \in Automata : tesla_store_get(t, a)
      BY <1>0, <2>1 
      DEF tesla_store_get, Goto, classes, SharedTypeOK, FrameTypeOK, FrameFits,
          PCs, Initialising, Working
    <2>2. CASE InitLength(t)
      BY <1>0, <2>2
      DEF InitLength, Goto, classes, frame, SharedTypeOK, FrameTypeOK, FrameFits,
          PCs, Initialising, Working
    <2>3. CASE InitTable(t)
      <3>1. tables = 0 /\ 0 \in Buckets
        BY <1>0, <2>3, StoreAssumption
        DEF InitTable, Goto, StorePhases, InitPhase, Buckets
      <3>2. QED
        BY <1>0, <2>3, <3>1, TablesFact
        DEF InitTable, Goto, classes, frame, SharedTypeOK, FrameTypeOK,
            FrameFits, PCs, Initialising, Working
    <2>4. CASE InitClass(t)
      <3>1. <<ts_classes, i[t]>> \in Classes /\ i[t] \in Buckets
        BY <1>0, <2>4
        DEF InitClass, StorePhases, InitPhase, FrameFits, SharedTypeOK, Classes
      <3>2. SharedTypeOK'
        BY <1>0, <2>4, <3>1
        DEF InitClass, tesla_class_global_postinit, tesla_class_global_lock_init,
            table, SharedTypeOK
      <3>3. FrameTypeOK' /\ FrameFits(t)'
        BY <1>0, <2>4, <3>1, StoreAssumption
        DEF InitClass, FrameTypeOK, FrameFits, PCs, Initialising, Working, Buckets
      <3>4. QED
        BY <3>2, <3>3
    <2>5. CASE ProbeFaults(t) \/ ProbeCollision(t) \/ ProbeFull(t)
                 \/ AcquireUninitialised(t) \/ UpdateExisting(t)
      <3>1. SharedTypeOK'
        BY <1>0, <2>5
        DEF ProbeFaults, ProbeCollision, ProbeFull, AcquireUninitialised,
            UpdateExisting, shared, table, classes, SharedTypeOK
      <3>2. FrameTypeOK' /\ FrameFits(t)'
        BY <1>0, <2>5
        DEF ProbeFaults, ProbeCollision, ProbeFull, AcquireUninitialised,
            UpdateExisting, Goto, frame, FrameTypeOK, FrameFits, PCs,
            Initialising, Working
      <3>3. QED
        BY <3>1, <3>2
    <2>6. CASE ProbeFound(t) \/ ProbeEmpty(t)
      <3>1. Probed(t) \in Classes
        BY <1>0, <2>6, BucketType
        DEF ProbeFound, ProbeEmpty, Goto, Probed, Bucket, SharedTypeOK, Classes,
            FrameTypeOK, FrameFits
      <3>2. SharedTypeOK'
        BY <1>0, <2>6
        DEF ProbeFound, ProbeEmpty, shared, table, classes, SharedTypeOK
      <3>3. FrameTypeOK' /\ FrameFits(t)'
        BY <1>0, <2>6, <3>1
        DEF ProbeFound, ProbeEmpty, Goto, FrameTypeOK, FrameFits, PCs,
            Initialising, Working
      <3>4. QED
        BY <3>2, <3>3
    <2>7. CASE Claim(t) \/ Acquire(t) \/ LateInit(t)
      <3>1. tclass[t] \in Classes
        BY <1>0, <2>7 DEF Claim, Acquire, LateInit, Goto, FrameFits, Working
      <3>2. SharedTypeOK'
        BY <1>0, <2>7, <3>1
        DEF Claim, Acquire, LateInit, tesla_class_global_acquire, table, classes,
            FrameTypeOK, SharedTypeOK
      <3>3. FrameTypeOK' /\ FrameFits(t)'
        <4>1. CASE Claim(t) \/ Acquire(t)
          BY <1>0, <4>1, <3>1
          DEF Claim, Acquire, Goto, frame, FrameTypeOK, FrameFits, PCs,
              Initialising, Working
        <4>2. CASE LateInit(t)
          BY <1>0, <4>2, <3>1
          DEF LateInit, Goto, frame, FrameTypeOK, FrameFits, PCs, Initialising, Working
        <4>3. QED
          BY <2>7, <4>1, <4>2
      <3>4. QED
        BY <3>2, <3>3
    <2>8. CASE FindTaken(t) \/ FindFree(t) \/ FindNone(t)
      <3>1. SharedTypeOK'
        BY <1>0, <2>8
        DEF FindTaken, FindFree, FindNone, shared, table, classes, SharedTypeOK
      <3>2. FrameTypeOK' /\ FrameFits(t)'
        <4>1. CASE FindTaken(t)
          BY <1>0, <4>1, StoreAssumption
          DEF FindTaken, FrameTypeOK, FrameFits, PCs, Initialising, Working
        <4>2. CASE FindFree(t) \/ FindNone(t)
          <5>1. /\ pc[t] = "find" /\ pc'[t] \in {"register", "scan"}
                /\ pc' \in [Threads -> PCs] /\ UNCHANGED <<autom, i, slot, tclass>>
                /\ pc'[t] = "register" => slot[t] <= StaticClasses
            BY <1>0, <4>2 DEF FindFree, FindNone, Goto, frame, FrameTypeOK, PCs
          <5>2. pc'[t] = "register" => slot[t] \in 1 .. StaticClasses
            BY <1>0, <5>1, StoreAssumption DEF FrameTypeOK, FrameFits
          <5>3. QED
            BY <1>0, <5>1, <5>2 DEF FrameTypeOK, FrameFits, Initialising, Working
        <4>3. QED
          BY <2>8, <4>1, <4>2
      <3>3. QED
        BY <3>1, <3>2
    <2>9. CASE Register(t) \/ Release(t)
      <3>1. tclass[t] \in Classes
        BY <1>0, <2>9 DEF Register, Release, Goto, FrameFits, Working
      <3>2. SharedTypeOK'
        BY <1>0, <2>9, <3>1
        DEF Register, Release, Goto, tesla_class_global_release, table, classes,
            FrameFits, SharedTypeOK
      <3>3. FrameTypeOK' /\ FrameFits(t)'
        BY <1>0, <2>9, <3>1
        DEF Register, Release, Goto, frame, FrameTypeOK, FrameFits,
            PCs, Initialising, Working
      <3>4. QED
        BY <3>2, <3>3
    <2>10. CASE Sunset(t)
      <3>1. pc[t] = "scan" => tclass[t] \in Classes
        BY <1>0 DEF FrameFits, Working
      <3>2. pc[t] = "sunset" /\ i[t] <= StaticClasses => i[t] \in 1 .. StaticClasses
        BY <1>0, StoreAssumption DEF FrameFits, FrameTypeOK
      <3>3. SharedTypeOK'
        BY <1>0, <2>10, <3>1
        DEF Sunset, SunsetBegin, SunsetVisit, SunsetLeave, SunsetEnd, Goto,
            shared, table, classes, SharedTypeOK
      <3>4. FrameTypeOK' /\ FrameFits(t)'
        <4>1. CASE SunsetVisit(t)
          <5>1. tls_classes[i[t]] \in Classes
            BY <1>0, <3>2, <4>1 DEF SunsetVisit, Goto, SharedTypeOK
          <5>2. QED
            BY <1>0, <4>1, <5>1
            DEF SunsetVisit, Goto, FrameTypeOK, FrameFits, PCs, Initialising, Working
        <4>2. CASE SunsetBegin(t)
          <5>1. FrameTypeOK' /\ pc'[t] = "sunset" /\ i'[t] = 1 /\ autom'[t] = NULL
            BY <1>0, <4>2 DEF SunsetBegin, Goto, FrameTypeOK, FrameFits, PCs
          <5>2. QED
            BY <5>1 DEF FrameFits, Initialising, Working
        <4>3. CASE SunsetEnd(t)
          <5>1. FrameTypeOK' /\ pc'[t] = "idle" /\ autom'[t] = NULL
            BY <1>0, <4>3 DEF SunsetEnd, Goto, FrameTypeOK, FrameFits, PCs
          <5>2. QED
            BY <5>1 DEF FrameFits, Initialising, Working
        <4>4. CASE SunsetLeave(t)
          BY <1>0, <4>4
          DEF SunsetLeave, Goto, FrameTypeOK, FrameFits, PCs, Initialising, Working
        <4>5. QED
          BY <2>10, <4>1, <4>2, <4>3, <4>4 DEF Sunset
      <3>5. QED
        BY <3>3, <3>4
    <2>11. QED
      BY <2>1, <2>2, <2>3, <2>4, <2>5, <2>6, <2>7, <2>8, <2>9, <2>10 DEF Run
  <1>2. ASSUME NEW u \in Threads \ {t} PROVE FrameFits(u)'
    BY <1>2, OthersStay DEF TypeOK, FrameFits, Initialising, Working
  <1>3. QED
    BY <1>1, <1>2 DEF TypeOK

-----------------------------------------------------------------------------
(* Initialisation *)

LEMMA InitPhases == Init => StorePhases
  <1> SUFFICES ASSUME Init PROVE StorePhases
    OBVIOUS
  <1>1. \A t \in Threads : pc[t] = "idle"
    BY DEF Init
  <1>2. ~length_set => StoreUntouched
    BY <1>1 DEF Init, StoreUntouched
  <1>3. length_set => StoreReady
    BY TablesFact DEF Init, StoreReady, Classes
  <1>4. \A n \in 1 .. StaticClasses : tls_classes[n] = NULL
    BY DEF Init
  <1>5. QED
    BY <1>1, <1>2, <1>3, <1>4
    DEF StorePhases, InitialisesAlone, InitPhase, Initialising

Step(t) == (\E a \in Automata : tesla_store_get(t, a)) \/ Run(t) \/ Sunset(t)

\* Only the three steps of the initialisation make the store.
LEMMA WhoMakesTheStore ==
  ASSUME NEW t \in Threads, Step(t)
  PROVE  \/ InitLength(t) \/ InitTable(t) \/ InitClass(t)
         \/ UNCHANGED <<length_set, ts_classes, tables, class_inited>>
  <1>1. CASE \E a \in Automata : tesla_store_get(t, a)
    BY <1>1 DEF tesla_store_get, classes
  <1>2. CASE Run(t)
    BY <1>2
    DEF Run, ProbeFaults, ProbeCollision, ProbeFound, ProbeEmpty, Claim,
        ProbeFull, AcquireUninitialised, Acquire, UpdateExisting, LateInit,
        FindTaken, FindFree, FindNone, Register, Release, shared, table, classes
  <1>3. CASE Sunset(t)
    BY <1>3
    DEF Sunset, SunsetBegin, SunsetVisit, SunsetLeave, SunsetEnd, shared, table,
        classes
  <1>4. QED
    BY <1>1, <1>2, <1>3 DEF Step

\* Only Register and the end of a sunset write the registrations.
LEMMA WhoRegisters ==
  ASSUME NEW t \in Threads, Step(t)
  PROVE  Register(t) \/ SunsetEnd(t) \/ UNCHANGED tls_classes
  <1>1. CASE \E a \in Automata : tesla_store_get(t, a)
    BY <1>1 DEF tesla_store_get
  <1>2. CASE Run(t)
    BY <1>2
    DEF Run, InitLength, InitTable, InitClass, ProbeFaults, ProbeCollision,
        ProbeFound, ProbeEmpty, Claim, ProbeFull, AcquireUninitialised, Acquire,
        UpdateExisting, LateInit, FindTaken, FindFree, FindNone, Release, shared
  <1>3. CASE Sunset(t)
    BY <1>3 DEF Sunset, SunsetBegin, SunsetVisit, SunsetLeave, shared
  <1>4. QED
    BY <1>1, <1>2, <1>3 DEF Step

\* Where the steps lead.
LEMMA WhereStepsLead ==
  ASSUME TypeOK, NEW t \in Threads, Step(t)
  PROVE  \/ \E a \in Automata : tesla_store_get(t, a)
         \/ InitLength(t) \/ InitTable(t) \/ InitClass(t)
         \/ SunsetBegin(t) \/ SunsetVisit(t) \/ SunsetEnd(t)
         \/ /\ pc[t] \in {"probe", "claim", "acquire"} \/ Working(t)
            /\ ~Initialising(t)' 
  <1> USE DEF Initialising, Working, Goto, TypeOK, FrameTypeOK
  <1>1. CASE Run(t)
    BY <1>1
    DEF Run, ProbeFaults, ProbeCollision, ProbeFound, ProbeEmpty, Claim,
        ProbeFull, AcquireUninitialised, Acquire, UpdateExisting, LateInit,
        FindTaken, FindFree, FindNone, Register, Release
  <1>2. CASE SunsetLeave(t)
    BY <1>2 DEF SunsetLeave
  <1>3. QED
    BY <1>1, <1>2 DEF Step, Sunset

\* Nobody disturbs the thread u that initialises the store.
LEMMA Undisturbed ==
  ASSUME TypeOK, StorePhases, NEW t \in Threads, Step(t), ~raced',
         NEW u \in Threads \ {t}, Initialising(u)
  PROVE  /\ pc'[t] \in {"idle", "sunset"}
         /\ UNCHANGED <<length_set, ts_classes, tables, class_inited>>
         /\ \A n \in 1 .. StaticClasses : tls_classes'[n] = NULL
  <1>1. /\ pc[t] \in {"idle", "sunset"}
        /\ \A n \in 1 .. StaticClasses : tls_classes[n] = NULL
    BY DEF StorePhases, InitialisesAlone
  <1>2. ~\E a \in Automata : tesla_store_get(t, a)
    BY DEF tesla_store_get
  <1>3. ~SunsetVisit(t)
    <2>1. pc[t] = "sunset" /\ i[t] <= StaticClasses => i[t] \in 1 .. StaticClasses
      BY StoreAssumption DEF TypeOK, FrameFits, FrameTypeOK
    <2>2. QED
      BY <1>1, <2>1 DEF SunsetVisit, Goto
  <1>4. SunsetBegin(t) \/ SunsetEnd(t)
    BY <1>1, <1>2, <1>3, WhereStepsLead
    DEF InitLength, InitTable, InitClass, Goto, Working
  <1>5. QED
    BY <1>1, <1>4
    DEF SunsetBegin, SunsetEnd, Goto, shared, table, classes, TypeOK, FrameTypeOK

LEMMA StepPhases ==
  ASSUME TypeOK, StorePhases, NEW t \in Threads, Step(t), ~raced'
  PROVE  StorePhases'
  <1> DEFINE NoneRegistered == \A n \in 1 .. StaticClasses : tls_classes[n] = NULL
  <1>0. /\ pc \in [Threads -> PCs] /\ i \in [Threads -> Nat]
        /\ class_inited \in [Classes -> BOOLEAN]
        /\ FrameFits(t) /\ TypeOK'
    BY StepTypes DEF TypeOK, FrameTypeOK, SharedTypeOK, Step
  <1>1. ASSUME NEW u \in Threads \ {t}
        PROVE  /\ pc'[u] = pc[u] /\ tclass'[u] = tclass[u] /\ i'[u] = i[u]
               /\ Initialising(u)' <=> Initialising(u)
    BY OthersStay DEF Step, Initialising
  <1>2. ASSUME ~length_set' PROVE StoreUntouched' /\ NoneRegistered'
    <2>1. ~length_set /\ StoreUntouched /\ NoneRegistered
      BY <1>2, WhoMakesTheStore
      DEF StorePhases, InitLength, InitTable, InitClass, table
    <2>2. pc[t] \in {"idle", "init_length"}
      BY <2>1 DEF StoreUntouched
    <2>3. \E a \in Automata : tesla_store_get(t, a)
      BY <1>2, <2>1, <2>2, WhereStepsLead
      DEF InitLength, InitTable, InitClass, SunsetBegin, SunsetVisit, SunsetEnd,
          Goto, Working
    <2>4. QED
      BY <1>0, <1>1, <2>1, <2>3 DEF tesla_store_get, Goto, StoreUntouched
  <1>3. ASSUME length_set', \A u \in Threads : ~Initialising(u)'
        PROVE  StoreReady'
    <2>1. CASE Initialising(t)
      <3>1. InitClass(t) /\ i[t] = ts_length - 1
        BY <1>0, <1>3, <2>1, WhereStepsLead
        DEF Initialising, InitLength, InitTable, InitClass, SunsetBegin, SunsetVisit,
            SunsetEnd, tesla_store_get, Goto, Working
      <3>2. /\ ts_classes # NULL
            /\ \A b \in Buckets : b < i[t] => class_inited[<<ts_classes, b>>]
        BY <3>1 DEF InitClass, StorePhases, InitPhase
      <3>3. ts_classes \in Tables
        BY <3>2 DEF TypeOK, SharedTypeOK
      <3>4. ASSUME NEW b \in Buckets PROVE class_inited'[<<ts_classes, b>>]
        <4>1. <<ts_classes, b>> \in Classes /\ (b = i[t] \/ b < i[t])
          BY <3>1, <3>3, StoreAssumption DEF Classes, Buckets
        <4>2. QED
          BY <1>0, <3>1, <3>2, <4>1 DEF InitClass
      <3>5. QED
        BY <3>1, <3>2, <3>4 DEF InitClass, table, StoreReady
    <2>2. CASE ~Initialising(t)
      <3>1. UNCHANGED <<length_set, ts_classes, class_inited>>
        BY <2>2, WhoMakesTheStore
        DEF InitLength, InitTable, InitClass, Initialising, Goto
      <3>2. StoreReady
        BY <1>1, <1>3, <2>2, <3>1 DEF StorePhases
      <3>3. QED
        BY <3>1, <3>2 DEF StoreReady
    <2>3. QED
      BY <2>1, <2>2
  <1>4. ASSUME NEW u \in Threads, Initialising(u)'
        PROVE  /\ \A v \in Threads \ {u} : pc'[v] \in {"idle", "sunset"}
               /\ NoneRegistered'
    <2>1. CASE u # t
      <3>1. Initialising(u)
        BY <1>1, <1>4, <2>1
      <3>2. \A v \in Threads \ {u} : pc[v] \in {"idle", "sunset"}
        BY <3>1 DEF StorePhases, InitialisesAlone
      <3>3. QED
        BY <1>1, <2>1, <3>1, <3>2, Undisturbed
    <2>2. CASE u = t /\ Initialising(t)
      <3>1. (\A v \in Threads \ {t} : pc[v] \in {"idle", "sunset"}) /\ NoneRegistered
        BY <2>2 DEF StorePhases, InitialisesAlone
      <3>2. UNCHANGED tls_classes
        BY <2>2, WhoRegisters DEF Initialising, Register, SunsetEnd, Goto
      <3>3. QED
        BY <1>1, <2>2, <3>1, <3>2
    <2>3. CASE u = t /\ ~Initialising(t)
      <3>1. PICK a \in Automata : tesla_store_get(t, a)
        BY <1>0, <1>4, <2>3, WhereStepsLead
        DEF Initialising, InitLength, InitTable, InitClass, SunsetBegin, SunsetVisit,
            SunsetEnd, Goto
      <3>2. ~length_set /\ UNCHANGED tls_classes /\ \A v \in Threads : ~Initialising(v)
        BY <1>0, <1>4, <2>3, <3>1 DEF tesla_store_get, Goto, Initialising
      <3>3. StoreUntouched /\ NoneRegistered
        BY <3>2 DEF StorePhases
      <3>4. ASSUME NEW v \in Threads \ {t} PROVE pc[v] = "idle"
        BY <3>2, <3>3 DEF StoreUntouched, Initialising
      <3>5. QED
        BY <1>1, <2>3, <3>2, <3>3, <3>4
    <2>4. QED
      BY <2>1, <2>2, <2>3
  <1>5. ASSUME NEW u \in Threads PROVE InitPhase(u)'
    <2>1. CASE u # t
      <3>1. CASE Initialising(u)
        BY <1>1, <2>1, <3>1, Undisturbed DEF StorePhases, InitPhase
      <3>2. CASE ~Initialising(u)
        BY <1>1, <2>1, <3>2 DEF InitPhase, Initialising
      <3>3. QED
        BY <3>1, <3>2
    <2>2. CASE u = t
      <3>1. CASE \E a \in Automata : tesla_store_get(t, a)
        BY <1>0, <2>2, <3>1 DEF tesla_store_get, Goto, InitPhase
      <3>2. CASE InitLength(t)
        <4>1. tables = 0 /\ pc'[t] = "init_table" /\ UNCHANGED tables
          BY <1>0, <3>2 DEF InitLength, Goto, StorePhases, InitPhase, StoreUntouched
        <4>2. QED
          BY <2>2, <4>1 DEF InitPhase
      <3>3. CASE InitTable(t)
        <4>1. pc'[t] = "init_classes" /\ i'[t] = 0 /\ ts_classes' = 1
          BY <1>0, <3>3 DEF InitTable, Goto, StorePhases, InitPhase, FrameFits, frame
        <4>2. QED
          BY <2>2, <4>1, TablesFact, StoreAssumption DEF InitPhase, Buckets
      <3>4. CASE InitClass(t)
        <4>1. /\ ts_classes # NULL /\ i[t] \in Buckets
              /\ \A b \in Buckets : b < i[t] => class_inited[<<ts_classes, b>>]
              /\ UNCHANGED ts_classes
          BY <1>0, <3>4 DEF InitClass, StorePhases, InitPhase, FrameFits, table
        <4>2. ts_classes \in Tables
          BY <4>1 DEF TypeOK, SharedTypeOK
        <4>3. pc'[t] \in {"init_classes", "probe"}
          BY <1>0, <3>4 DEF InitClass
        <4>4. ASSUME NEW b \in Buckets, pc'[t] = "init_classes", b < i'[t]
              PROVE  class_inited'[<<ts_classes, b>>]
          <5>1. i'[t] = i[t] + 1
            BY <1>0, <3>4, <4>4 DEF InitClass
          <5>2. <<ts_classes, b>> \in Classes /\ (b = i[t] \/ b < i[t])
            BY <4>1, <4>2, <4>4, <5>1, StoreAssumption DEF Classes, Buckets
          <5>3. QED
            BY <1>0, <3>4, <4>1, <5>2 DEF InitClass
        <4>5. QED
          BY <2>2, <4>1, <4>3, <4>4 DEF InitPhase
      <3>5. CASE SunsetBegin(t) \/ SunsetVisit(t) \/ SunsetEnd(t)
        BY <1>0, <2>2, <3>5 DEF SunsetBegin, SunsetVisit, SunsetEnd, Goto, InitPhase
      <3>6. CASE ~Initialising(t)'
        BY <2>2, <3>6 DEF Initialising, InitPhase
      <3>7. QED
        BY <3>1, <3>2, <3>3, <3>4, <3>5, <3>6, WhereStepsLead
    <2>3. QED
      BY <2>1, <2>2
  <1>6. ASSUME NEW u \in Threads, pc'[u] \in {"claim", "acquire"}
        PROVE  tclass'[u][1] = ts_classes'
    <2>1. CASE u # t
      <3>1. tclass'[u][1] = ts_classes
        BY <1>1, <1>6, <2>1 DEF StorePhases
      <3>2. ~Initialising(t)
        BY <1>1, <1>6, <2>1 DEF StorePhases, InitialisesAlone
      <3>3. UNCHANGED ts_classes
        BY <3>2, WhoMakesTheStore
        DEF InitLength, InitTable, InitClass, Initialising, Goto
      <3>4. QED
        BY <3>1, <3>3
    <2>2. CASE u = t
      <3>1. CASE ProbeFound(t) \/ ProbeEmpty(t)
        <4>1. tclass'[t] = Probed(t) /\ UNCHANGED ts_classes
          BY <3>1
          DEF ProbeFound, ProbeEmpty, shared, table, TypeOK, FrameTypeOK
        <4>2. QED
          BY <2>2, <4>1 DEF Probed
      <3>2. CASE Claim(t)
        BY <2>2, <3>2
        DEF Claim, Goto, StorePhases, table, frame, TypeOK, FrameTypeOK
      <3>3. ProbeFound(t) \/ ProbeEmpty(t) \/ Claim(t)
        <4>1. CASE Run(t)
          BY <1>0, <1>6, <2>2, <4>1
          DEF Run, InitLength, InitTable, InitClass, ProbeFaults, ProbeCollision,
              ProbeFull, AcquireUninitialised, Acquire, UpdateExisting, LateInit,
              FindTaken, FindFree, FindNone, Register, Release, Goto
        <4>2. CASE Sunset(t)
          BY <1>0, <1>6, <2>2, <4>2
          DEF Sunset, SunsetBegin, SunsetVisit, SunsetLeave, SunsetEnd, Goto
        <4>3. CASE \E a \in Automata : tesla_store_get(t, a)
          BY <1>0, <1>6, <2>2, <4>3 DEF tesla_store_get, Goto
        <4>4. QED
          BY <4>1, <4>2, <4>3 DEF Step
      <3>4. QED
        BY <3>1, <3>2, <3>3
    <2>3. QED
      BY <2>1, <2>2
  <1>7. QED
    BY <1>2, <1>3, <1>4, <1>5, <1>6 DEF StorePhases, InitialisesAlone

LEMMA StepCrashes ==
  ASSUME TypeOK, StorePhases, NEW t \in Threads, Step(t),
         \A u \in Threads : pc[u] # "crashed"
  PROVE  \A u \in Threads : pc'[u] # "crashed"
  <1>0. pc \in [Threads -> PCs]
    BY DEF TypeOK, FrameTypeOK
  <1>1. ASSUME pc[t] \in {"probe", "acquire"} PROVE StoreReady
    <2>1. length_set
      BY <1>1 DEF StorePhases, StoreUntouched
    <2>2. \A u \in Threads : ~Initialising(u)
      BY <1>1 DEF StorePhases, InitialisesAlone, Initialising
    <2>3. QED
      BY <2>1, <2>2 DEF StorePhases
  <1>2. ~ProbeFaults(t)
    BY <1>1 DEF ProbeFaults, Goto, StoreReady
  <1>3. ~AcquireUninitialised(t)
    <2> SUFFICES ASSUME pc[t] = "acquire" PROVE class_inited[tclass[t]]
      BY DEF AcquireUninitialised, Goto
    <2>1. tclass[t] \in Classes /\ tclass[t][1] = ts_classes
      BY DEF TypeOK, FrameFits, StorePhases
    <2>2. tclass[t] = <<ts_classes, tclass[t][2]>> /\ tclass[t][2] \in Buckets
      BY <2>1 DEF Classes
    <2>3. QED
      BY <1>1, <2>2 DEF StoreReady
  <1>4. pc'[t] # "crashed"
    <2>1. CASE Run(t)
      BY <1>0, <1>2, <1>3, <2>1
      DEF Run, InitLength, InitTable, InitClass, ProbeCollision, ProbeFound,
          ProbeEmpty, Claim, ProbeFull, Acquire, UpdateExisting, LateInit,
          FindTaken, FindFree, FindNone, Register, Release, Goto
    <2>2. CASE Sunset(t)
      BY <1>0, <2>2
      DEF Sunset, SunsetBegin, SunsetVisit, SunsetLeave, SunsetEnd, Goto
    <2>3. CASE \E a \in Automata : tesla_store_get(t, a)
      BY <1>0, <2>3 DEF tesla_store_get, Goto
    <2>4. QED
      BY <2>1, <2>2, <2>3 DEF Step
  <1>5. QED
    BY <1>4, OthersStay DEF Step

LEMMA Steps == ASSUME [Next]_vars PROVE (\E t \in Threads : Step(t)) \/ UNCHANGED vars
  BY StoreAssumption DEF Next, Step, Stopped

\* raced is a history variable: once set, it stays set.
LEMMA RacedStays == ASSUME [Next]_vars, raced PROVE raced'
  <1>1. ASSUME NEW t \in Threads, Step(t) PROVE raced'
    <2>1. CASE \E a \in Automata : tesla_store_get(t, a)
      BY <2>1 DEF tesla_store_get
    <2>2. CASE InitLength(t) \/ InitTable(t) \/ InitClass(t)
      BY <2>2 DEF InitLength, InitTable, InitClass, table
    <2>3. CASE Run(t)
      BY <2>2, <2>3
      DEF Run, ProbeFaults, ProbeCollision, ProbeFound, ProbeEmpty, Claim,
          ProbeFull, AcquireUninitialised, Acquire, UpdateExisting, LateInit,
          FindTaken, FindFree, FindNone, Register, Release, shared, table
    <2>4. CASE Sunset(t)
      BY <2>4
      DEF Sunset, SunsetBegin, SunsetVisit, SunsetLeave, SunsetEnd, shared, table
    <2>5. QED
      BY <1>1, <2>1, <2>3, <2>4 DEF Step
  <1>2. QED
    BY <1>1, Steps DEF vars, shared, table

\* So is contended: what it has recorded stays recorded.
LEMMA ContendedStays == ASSUME [Next]_vars, NEW k, k \in contended PROVE k \in contended'
  <1>1. ASSUME NEW t \in Threads, Step(t) PROVE k \in contended'
    <2>1. CASE \E a \in Automata : tesla_store_get(t, a)
      BY <2>1 DEF tesla_store_get
    <2>2. CASE InitLength(t) \/ InitTable(t) \/ InitClass(t)
      BY <2>2 DEF InitLength, InitTable, InitClass, table
    <2>3. CASE ProbeEmpty(t) \/ LateInit(t) \/ FindFree(t) \/ SunsetBegin(t)
      BY <2>3 DEF ProbeEmpty, LateInit, FindFree, SunsetBegin, Contend
    <2>4. CASE Run(t)
      BY <2>2, <2>3, <2>4
      DEF Run, ProbeFaults, ProbeCollision, ProbeFound, Claim, ProbeFull,
          AcquireUninitialised, Acquire, UpdateExisting, FindTaken, FindNone,
          Register, Release, shared, table
    <2>5. CASE Sunset(t)
      BY <2>3, <2>5 DEF Sunset, SunsetVisit, SunsetLeave, SunsetEnd, shared, table
    <2>6. QED
      BY <1>1, <2>1, <2>4, <2>5 DEF Step
  <1>2. QED
    BY <1>1, Steps DEF vars, shared, table

LEMMA UnchangedSound == ASSUME Sound, UNCHANGED vars PROVE Sound'
  <1>1. TypeOK'
    BY DEF Sound, vars, shared, table, classes, frame, TypeOK, SharedTypeOK,
           FrameTypeOK, FrameFits, Initialising, Working
  <1>2. StorePhases'
    BY DEF Sound, vars, shared, table, classes, frame, StorePhases,
           StoreUntouched, StoreReady, InitialisesAlone, InitPhase, Initialising
  <1>3. QED
    BY <1>1, <1>2 DEF Sound, vars

LEMMA StoreInvariant == Spec => []StoreInv
  <1>1. Init => StoreInv
    BY InitTypeOK, InitPhases DEF Init, StoreInv, Sound
  <1>2. StoreInv /\ [Next]_vars => StoreInv'
    <2> SUFFICES ASSUME StoreInv, [Next]_vars, ~raced' PROVE Sound'
      BY DEF StoreInv
    <2>1. Sound
      BY RacedStays DEF StoreInv
    <2>2. ASSUME NEW t \in Threads, Step(t) PROVE Sound'
      BY <2>1, <2>2, StepTypes, StepPhases, StepCrashes DEF Sound, Step
    <2>3. QED
      BY <2>1, <2>2, Steps, UnchangedSound
  <1>3. QED
    BY <1>1, <1>2, PTL DEF Spec

\* "If the tesla_store does not exist yet, it will be created": however many
\* threads, classes and sunsets there are, no thread finds the table of
\* classes missing or a class of it not initialised, provided that no call
\* came while the store was being initialised.
THEOREM StoreIsThere == Spec => []NoFault
  <1>1. StoreInv => NoFault
    BY DEF StoreInv, Sound, NoFault
  <1>2. QED
    BY <1>1, StoreInvariant, PTL

-----------------------------------------------------------------------------
(* Locks *)

\* A call that works on a class has its lock.
Locked == \A t \in Threads : Working(t) /\ ~AtSunset(t) => tc_lock[tclass[t]] = t

\* A step takes a lock that is free, gives back the thread's own, or makes the
\* locks of a store that nobody uses yet; a sunset leaves them alone.
LEMMA StepLocked ==
  ASSUME TypeOK, StorePhases, Locked, NEW t \in Threads, Step(t)
  PROVE  Locked'
  <1> DEFINE Calling(u) == Working(u) /\ ~AtSunset(u)
  <1>0. /\ pc \in [Threads -> PCs] /\ tclass \in [Threads -> Classes \cup {NULL}]
        /\ autom \in [Threads -> Automata \cup {NULL}]
        /\ tc_lock \in [Classes -> Threads \cup {NULL}]
        /\ \A u \in Threads : Working(u) => tclass[u] \in Classes
        /\ FrameFits(t)
    BY DEF TypeOK, FrameTypeOK, SharedTypeOK, FrameFits
  <1>1. ASSUME NEW u \in Threads \ {t}
        PROVE  /\ Working(u)' <=> Working(u)
               /\ Calling(u)' <=> Calling(u)
               /\ tclass'[u] = tclass[u]
    BY OthersStay DEF Step, Working, AtSunset
  <1>2. CASE InitClass(t)
    <2>1. ~\E u \in Threads : Working(u)'
      BY <1>0, <1>1, <1>2 DEF InitClass, StorePhases, InitialisesAlone, Initialising,
                        Working
    <2>2. QED
      BY <2>1 DEF Locked
  <1>3. CASE Acquire(t)
    <2>1. tc_lock[tclass[t]] = NULL /\ tc_lock' = [tc_lock EXCEPT ![tclass[t]] = t]
          /\ UNCHANGED tclass /\ tclass[t] \in Classes
      BY <1>0, <1>3 DEF Acquire, Goto, tesla_class_global_acquire, frame, FrameFits
    <2>2. ASSUME NEW u \in Threads \ {t}, Calling(u) PROVE tclass[u] # tclass[t]
      BY <2>1, <2>2, StoreAssumption DEF Locked
    <2>3. QED
      BY <1>0, <1>1, <2>1, <2>2 DEF Locked
  <1>4. CASE Release(t)
    <2>1. Calling(t) /\ tc_lock' = [tc_lock EXCEPT ![tclass[t]] = NULL]
          /\ pc'[t] = "idle"
      BY <1>0, <1>4 DEF Release, Goto, Working, AtSunset, tesla_class_global_release
    <2>2. ASSUME NEW u \in Threads \ {t}, Calling(u) PROVE tclass[u] # tclass[t]
      BY <2>1, <2>2 DEF Locked
    <2>3. ~Working(t)'
      BY <2>1 DEF Working
    <2>4. QED
      BY <1>0, <1>1, <2>1, <2>2, <2>3 DEF Locked
  <1>5. CASE ~InitClass(t) /\ ~Acquire(t) /\ ~Release(t)
    <2>1. UNCHANGED tc_lock /\ (Calling(t)' => Calling(t) /\ tclass'[t] = tclass[t])
      <3>1. CASE \E a \in Automata : tesla_store_get(t, a)
        BY <1>0, <3>1 DEF tesla_store_get, Goto, Working
      <3>2. CASE Run(t)
        BY <1>0, <1>5, <3>2
        DEF Run, InitLength, InitTable, ProbeFaults, ProbeCollision, ProbeFound,
            ProbeEmpty, Claim, ProbeFull, AcquireUninitialised, UpdateExisting,
            LateInit, FindTaken, FindFree, FindNone, Register, Goto, shared,
            frame, Working, AtSunset
      <3>3. CASE Sunset(t)
        <4>1. autom[t] = NULL /\ UNCHANGED <<tc_lock, autom>>
          BY <1>0, <3>3
          DEF Sunset, SunsetBegin, SunsetVisit, SunsetLeave, SunsetEnd, Goto,
              shared, FrameFits
        <4>2. QED
          BY <4>1 DEF AtSunset
      <3>4. QED
        BY <3>1, <3>2, <3>3 DEF Step
    <2>2. QED
      BY <1>1, <2>1 DEF Locked
  <1>6. QED
    BY <1>2, <1>3, <1>4, <1>5

LEMMA LockInvariant == Spec => [](~raced => Locked)
  <1> DEFINE Inv == StoreInv /\ (~raced => Locked)
  <1>1. Init => Inv
    BY InitTypeOK, InitPhases DEF Init, StoreInv, Sound, Locked, Working
  <1>2. Inv /\ [Next]_vars /\ StoreInv' => Inv'
    <2> SUFFICES ASSUME Inv, [Next]_vars, ~raced' PROVE Locked'
      OBVIOUS
    <2>1. Sound /\ Locked
      BY RacedStays DEF StoreInv
    <2>2. CASE UNCHANGED vars
      BY <2>1, <2>2 DEF vars, shared, frame, Locked, Working, AtSunset
    <2>3. ASSUME NEW t \in Threads, Step(t) PROVE Locked'
      BY <2>1, <2>3, StepLocked DEF Sound
    <2>4. QED
      BY <2>2, <2>3, Steps
  <1>3. QED
    BY <1>1, <1>2, StoreInvariant, PTL DEF Spec

-----------------------------------------------------------------------------
(* The table of classes and the registrations, as long as no two threads    *)
(* take the same empty bucket, or the same free registration.               *)

SingleThread == \E t : Threads = {t}

\* The bucket that tesla_class_get looks at after k others.
Way(a, k) == (hash[a] + k) % ts_length

\* An automaton is in one bucket, and no bucket on the way to it is empty.
Reachable(b) ==
  Contents(b) # NULL =>
    \E k \in Buckets : /\ b = Way(Contents(b), k)
                       /\ \A m \in Buckets : m < k => Contents(Way(Contents(b), m)) # NULL
MapOK ==
  /\ ts_classes = NULL \/ (\E t \in Threads : Initialising(t))
       => \A c \in Classes : tc_automaton[c] = NULL
  /\ ts_classes # NULL =>
       /\ \A b, c \in Buckets : Contents(b) = Contents(c) /\ Contents(b) # NULL => b = c
       /\ \A b \in Buckets : Reachable(b)

\* A call has passed only buckets of other automata, claims an empty one, and
\* gets the one of its automaton.
CallOK(t) ==
  /\ pc[t] \in {"probe", "claim"} =>
       /\ i[t] <= ts_length
       /\ \A m \in Buckets : m < i[t] =>
            Contents(Way(autom[t], m)) \notin {NULL, autom[t]}
  /\ pc[t] = "claim" =>
       /\ i[t] \in Buckets
       /\ tclass[t] = <<ts_classes, Way(autom[t], i[t])>>
       /\ Contents(Way(autom[t], i[t])) = NULL
  /\ Has(t) => tclass[t][1] = ts_classes /\ Contents(tclass[t][2]) = autom[t]

\* No two threads are about to claim the same bucket.
ClaimsApart ==
  \A t, u \in Threads :
    pc[t] = "claim" /\ pc[u] = "claim" /\ tclass[t] = tclass[u] => t = u

MapInv == Sound /\ MapOK /\ ClaimsApart /\ \A t \in Threads : CallOK(t)

Listed(c) == \E n \in 1 .. StaticClasses : tls_classes[n] = c

\* The list has no gaps, and each class of the table once.
ListOK ==
  /\ \A m, n \in 1 .. StaticClasses :
       tls_classes[n] # NULL =>
         /\ m < n => tls_classes[m] # NULL
         /\ m # n => tls_classes[m] # tls_classes[n]
  /\ \A n \in 1 .. StaticClasses :
       tls_classes[n] # NULL => /\ tls_classes[n][1] = ts_classes
                                /\ tc_automaton[tls_classes[n]] # NULL

Registering(t) == pc[t] \in {"find", "register"}

\* A sunset is at the class of its place in the list; a class that is being
\* registered is not in the list yet, and its place is the first free one.
RegistersOK(t) ==
  /\ AtSunset(t) /\ pc[t] # "sunset" =>
       i[t] \in 1 .. StaticClasses /\ tclass[t] = tls_classes[i[t]]
  /\ Registering(t) =>
       /\ autom[t] # NULL /\ ~Listed(tclass[t]) /\ has_instances[tclass[t]]
       /\ \A m \in 1 .. StaticClasses : m < slot[t] => tls_classes[m] # NULL
  /\ pc[t] = "register" => tls_classes[slot[t]] = NULL

\* The classes with instances are those of the list that a sunset has not come
\* to yet, and those that are being registered.
InstancesOK ==
  /\ \A c \in Classes : has_instances[c] =>
       Listed(c) \/ \E t \in Threads : Registering(t) /\ tclass[t] = c
  /\ \A n \in 1 .. StaticClasses : tls_classes[n] # NULL =>
       (has_instances[tls_classes[n]] <=> \A t \in Threads : AtSunset(t) => n >= i[t])

\* A sunset meets neither another nor a registration, and no two threads have
\* found the free place.
RegistersApart ==
  \A t \in Threads : \A u \in Threads \ {t} :
    /\ AtSunset(t) => ~AtSunset(u) /\ ~Registering(u)
    /\ pc[t] = "register" => pc[u] # "register"

RegistrationOK ==
  InstancesOK /\ RegistersApart /\ \A t \in Threads : RegistersOK(t)

ListInv == MapInv /\ Locked /\ ListOK /\ RegistrationOK

\* The list has room for all classes of the store, or for all automata.
RoomToRegister ==
  \/ ts_length <= StaticClasses
  \/ IsFiniteSet(Automata) /\ Cardinality(Automata) <= StaticClasses

-----------------------------------------------------------------------------
(* Probing *)

\* Division with remainder: what the remainder of a sum is.
LEMMA Quotient ==
  ASSUME NEW L \in Int, L > 0, NEW h \in Int
  PROVE  /\ h = L * (h \div L) + (h % L) /\ h \div L \in Int
         /\ h % L \in 0 .. L - 1
  OBVIOUS

LEMMA SmallMultiple ==
  ASSUME NEW L \in Int, L > 0, NEW d \in Int, L * d < L, L * d > -L PROVE d = 0
  <1>1. CASE d >= 1
    <2>1. L * d >= L
      BY <1>1
    <2>2. QED
      BY <2>1
  <1>2. CASE d <= -1
    <2>1. L * d <= -L
      BY <1>2
    <2>2. QED
      BY <2>1
  <1>3. QED
    BY <1>1, <1>2

LEMMA RemainderIs ==
  ASSUME NEW L \in Int, L > 0, NEW h \in Int, NEW q \in Int, NEW r \in 0 .. L - 1,
         h = L * q + r
  PROVE  h % L = r
  <1>1. PICK p \in Int, s \in 0 .. L - 1 : h = L * p + s /\ s = h % L
    BY Quotient
  <1>2. L * (q - p) = s - r
    BY <1>1
  <1>3. q - p = 0
    BY <1>2, SmallMultiple
  <1>4. QED
    BY <1>1, <1>2, <1>3

\* Within ts_length probes, tesla_class_get comes to every bucket.
LEMMA WaysCover ==
  ASSUME NEW a \in Automata, NEW b \in Buckets
  PROVE  \E k \in Buckets : Way(a, k) = b
  <1>1. PICK L \in Nat \ {0} : L = ts_length
    BY StoreAssumption
  <1>2. PICK h \in Nat : h = hash[a]
    BY StoreAssumption
  <1>3. PICK q \in Int, r \in 0 .. L - 1 : h = L * q + r
    <2>1. L \in Int /\ L > 0 /\ h \in Int
      OBVIOUS
    <2>2. h = L * (h \div L) + (h % L) /\ h \div L \in Int /\ h % L \in 0 .. L - 1
      BY <2>1, Quotient
    <2>3. QED
      BY <2>2
  <1>4. b \in 0 .. L - 1
    BY <1>1 DEF Buckets
  <1>5. CASE r <= b
    <2>1. PICK k \in 0 .. L - 1 : k = b - r
      BY <1>3, <1>4, <1>5
    <2>2. h + k = L * q + b
      BY <1>3, <1>4, <2>1
    <2>3. (h + k) % L = b
      BY <1>1, <1>2, <1>3, <1>4, <2>1, <2>2, RemainderIs
    <2>4. QED
      BY <1>1, <1>2, <2>1, <2>3 DEF Way, Buckets
  <1>6. CASE r > b
    <2>1. PICK k \in 0 .. L - 1 : k = b - r + L
      BY <1>3, <1>4, <1>6
    <2>2. h + k = L * (q + 1) + b
      BY <1>3, <1>4, <2>1
    <2>3. (h + k) % L = b
      BY <1>1, <1>2, <1>3, <1>4, <2>1, <2>2, RemainderIs
    <2>4. QED
      BY <1>1, <1>2, <2>1, <2>3 DEF Way, Buckets
  <1>7. QED
    BY <1>3, <1>4, <1>5, <1>6

LEMMA WayType == ASSUME NEW a \in Automata, NEW k \in Nat PROVE Way(a, k) \in Buckets
  BY BucketType DEF Way

LEMMA ContentsType ==
  ASSUME SharedTypeOK, ts_classes # NULL, NEW b \in Buckets
  PROVE  <<ts_classes, b>> \in Classes /\ Contents(b) \in Automata \cup {NULL}
  BY DEF SharedTypeOK, Classes, Contents

\* Where the way of an automaton comes to an empty bucket, the automaton is
\* nowhere in the table.
LEMMA NotFurther ==
  ASSUME SharedTypeOK, MapOK, ts_classes # NULL, NEW a \in Automata, NEW n \in Buckets,
         \A m \in Buckets : m < n => Contents(Way(a, m)) \notin {NULL, a},
         Contents(Way(a, n)) = NULL
  PROVE  \A b \in Buckets : Contents(b) # a
  <1> SUFFICES ASSUME NEW b \in Buckets, Contents(b) = a PROVE FALSE
    OBVIOUS
  <1>1. a # NULL
    BY StoreAssumption
  <1>2. PICK k \in Buckets : /\ b = Way(a, k)
                             /\ \A m \in Buckets : m < k => Contents(Way(a, m)) # NULL
    BY <1>1 DEF MapOK, Reachable
  <1>3. k = n \/ k < n \/ n < k
    BY StoreAssumption DEF Buckets
  <1>4. QED
    BY <1>1, <1>2, <1>3

\* Nor is it when all buckets have been looked at, and none of them is empty.
LEMMA NowhereElse ==
  ASSUME NEW a \in Automata,
         \A m \in Buckets : m < ts_length => Contents(Way(a, m)) \notin {NULL, a}
  PROVE  \A b \in Buckets : Contents(b) \notin {NULL, a}
  <1> SUFFICES ASSUME NEW b \in Buckets PROVE Contents(b) \notin {NULL, a}
    OBVIOUS
  <1>1. PICK k \in Buckets : Way(a, k) = b
    BY WaysCover
  <1>2. k < ts_length
    BY StoreAssumption DEF Buckets
  <1>3. QED
    BY <1>1, <1>2

LEMMA WhoClaims ==
  ASSUME NEW t \in Threads, Step(t) PROVE Claim(t) \/ UNCHANGED tc_automaton
  <1>1. CASE \E a \in Automata : tesla_store_get(t, a)
    BY <1>1 DEF tesla_store_get, classes
  <1>2. CASE Run(t)
    BY <1>2
    DEF Run, InitLength, InitTable, InitClass, ProbeFaults, ProbeCollision,
        ProbeFound, ProbeEmpty, ProbeFull, AcquireUninitialised, Acquire,
        UpdateExisting, LateInit, FindTaken, FindFree, FindNone, Register,
        Release, shared, classes
  <1>3. CASE Sunset(t)
    BY <1>3
    DEF Sunset, SunsetBegin, SunsetVisit, SunsetLeave, SunsetEnd, shared, classes
  <1>4. QED
    BY <1>1, <1>2, <1>3 DEF Step

\* Outside of the initialisation the table is there.
LEMMA TableIsThere ==
  ASSUME StorePhases, NEW t \in Threads,
         pc[t] \in {"probe", "claim", "acquire"} \/ Working(t)
  PROVE  ts_classes # NULL /\ ~\E u \in Threads : Initialising(u)
  <1>1. length_set /\ ~\E u \in Threads : Initialising(u)
    BY DEF StorePhases, StoreUntouched, InitialisesAlone, Initialising, Working
  <1>2. QED
    BY <1>1 DEF StorePhases, StoreReady

-----------------------------------------------------------------------------
(* The table stays a map *)

LEMMA ClaimMaps ==
  ASSUME TypeOK, StorePhases, MapOK, NEW t \in Threads, CallOK(t), Claim(t)
  PROVE  MapOK'
  <1>1. PICK a \in Automata : a = autom[t]
    BY DEF Claim, Goto, TypeOK, FrameFits
  <1>2. /\ ts_classes # NULL /\ UNCHANGED ts_classes /\ SharedTypeOK
        /\ ~\E u \in Threads : Initialising(u)
    BY TableIsThere DEF Claim, Goto, table, TypeOK
  <1>3. PICK n \in Buckets :
          /\ n = i[t] /\ tclass[t] = <<ts_classes, Way(a, n)>>
          /\ Contents(Way(a, n)) = NULL
          /\ \A m \in Buckets : m < n => Contents(Way(a, m)) \notin {NULL, a}
    BY <1>1 DEF Claim, Goto, CallOK
  <1>4. PICK h \in Buckets : h = Way(a, n)
    BY WayType, StoreAssumption DEF Buckets
  <1>5. a # NULL
    BY StoreAssumption
  <1>6. \A b \in Buckets : Contents(b)' = IF b = h THEN a ELSE Contents(b)
    <2> SUFFICES ASSUME NEW b \in Buckets
                 PROVE  Contents(b)' = IF b = h THEN a ELSE Contents(b)
      OBVIOUS
    <2>1. /\ <<ts_classes, b>> \in Classes /\ <<ts_classes, h>> \in Classes
          /\ tc_automaton \in [Classes -> Automata \cup {NULL}]
      BY <1>2, ContentsType DEF SharedTypeOK
    <2>2. tc_automaton' = [tc_automaton EXCEPT ![<<ts_classes, h>>] = a]
      BY <1>1, <1>3, <1>4 DEF Claim
    <2>3. QED
      BY <1>2, <2>1, <2>2 DEF Contents
  <1>7. \A b \in Buckets : Contents(b) # a
    BY <1>2, <1>3, NotFurther
  <1>8. \A b, c \in Buckets : Contents(b)' = Contents(c)' /\ Contents(b)' # NULL => b = c
    BY <1>2, <1>6, <1>7 DEF MapOK
  <1>9. \A b \in Buckets : Contents(b) # NULL => Contents(b)' = Contents(b)
    BY <1>3, <1>4, <1>6
  <1>10. \A x \in Automata, m \in Buckets : Way(x, m) \in Buckets
    BY WayType, StoreAssumption DEF Buckets
  <1>11. ASSUME NEW b \in Buckets PROVE Reachable(b)'
    <2>1. CASE b = h
      <3>1. Contents(b)' = a
        BY <1>6, <2>1
      <3>2. \A m \in Buckets : m < n => Contents(Way(a, m))' # NULL
        BY <1>3, <1>9, <1>10
      <3>3. QED
        BY <1>4, <2>1, <3>1, <3>2 DEF Reachable, Way
    <2>2. CASE b # h /\ Contents(b) # NULL
      <3>1. PICK x \in Automata : x = Contents(b)
        BY <1>2, <2>2, ContentsType
      <3>2. PICK k \in Buckets : /\ b = Way(x, k)
                                 /\ \A m \in Buckets : m < k => Contents(Way(x, m)) # NULL
        BY <1>2, <2>2, <3>1 DEF MapOK, Reachable
      <3>3. Contents(b)' = x
        BY <1>6, <2>2, <3>1
      <3>4. \A m \in Buckets : m < k => Contents(Way(x, m))' # NULL
        BY <1>9, <1>10, <3>2
      <3>5. QED
        BY <3>2, <3>3, <3>4 DEF Reachable, Way
    <2>3. CASE b # h /\ Contents(b) = NULL
      BY <1>6, <2>3 DEF Reachable
    <2>4. QED
      BY <2>1, <2>2, <2>3
  <1>12. ~\E u \in Threads : Initialising(u)'
    <2>1. pc'[t] = "acquire" /\ \A u \in Threads \ {t} : pc'[u] = pc[u]
      BY DEF Claim, Goto, TypeOK, FrameTypeOK
    <2>2. QED
      BY <1>2, <2>1 DEF Initialising
  <1>13. QED
    BY <1>2, <1>8, <1>11, <1>12 DEF MapOK

LEMMA StepMaps ==
  ASSUME TypeOK, StorePhases, MapOK, NEW t \in Threads, CallOK(t), Step(t)
  PROVE  MapOK'
  <1>1. \A u \in Threads \ {t} : Initialising(u)' <=> Initialising(u)
    BY OthersStay DEF Step, Initialising
  <1>2. CASE Claim(t)
    BY <1>2, ClaimMaps
  <1>3. CASE InitTable(t)
    <2>1. \A c \in Classes : tc_automaton[c] = NULL
      BY <1>3 DEF InitTable, Goto, MapOK, Initialising
    <2>2. UNCHANGED tc_automaton /\ ts_classes' = 1
      BY <1>3 DEF InitTable, Goto, StorePhases, InitPhase, classes
    <2>3. \A b \in Buckets : Contents(b)' = NULL
      BY <2>1, <2>2, TablesFact DEF Contents, Classes
    <2>4. QED
      BY <2>1, <2>2, <2>3 DEF MapOK, Reachable
  <1>4. CASE ~Claim(t) /\ ~InitTable(t)
    <2>1. UNCHANGED <<tc_automaton, ts_classes>>
      BY <1>4, WhoClaims, WhoMakesTheStore DEF InitLength, InitClass, table
    <2>2. ASSUME ts_classes' = NULL \/ Initialising(t)'
          PROVE  ts_classes = NULL \/ Initialising(t)
      <3>1. CASE \E a \in Automata : tesla_store_get(t, a)
        BY <2>1, <2>2, <3>1
        DEF tesla_store_get, Goto, StorePhases, StoreUntouched, Initialising,
            TypeOK, FrameTypeOK
      <3>2. CASE SunsetBegin(t) \/ SunsetVisit(t) \/ SunsetEnd(t)
        BY <2>1, <2>2, <3>2
        DEF SunsetBegin, SunsetVisit, SunsetEnd, Goto, Initialising, TypeOK, FrameTypeOK
      <3>3. QED
        BY <1>4, <2>1, <2>2, <3>1, <3>2, WhereStepsLead
        DEF InitLength, InitClass, Initialising, Goto
    <2>3. ASSUME ts_classes' = NULL \/ \E u \in Threads : Initialising(u)'
          PROVE  \A c \in Classes : tc_automaton'[c] = NULL
      <3>1. ts_classes = NULL \/ \E u \in Threads : Initialising(u)
        BY <1>1, <2>1, <2>2, <2>3
      <3>2. QED
        BY <2>1, <3>1 DEF MapOK
    <2>4. \A b \in Buckets : Contents(b)' = Contents(b)
      BY <2>1 DEF Contents
    <2>6. ts_classes' # NULL => \A b \in Buckets : Reachable(b)'
      <3> SUFFICES ASSUME ts_classes # NULL, NEW b \in Buckets PROVE Reachable(b)'
        BY <2>1
      <3>1. SharedTypeOK /\ Reachable(b)
        BY DEF TypeOK, MapOK
      <3>2. CASE Contents(b) = NULL
        BY <2>4, <3>2 DEF Reachable
      <3>3. CASE Contents(b) # NULL
        <4>1. PICK x \in Automata : x = Contents(b)
          BY <3>1, <3>3, ContentsType
        <4>2. \A m \in Buckets : Contents(Way(x, m))' = Contents(Way(x, m))
          BY <2>1 DEF Contents, Way
        <4>3. QED
          BY <2>4, <3>1, <4>1, <4>2 DEF Reachable, Way
      <3>4. QED
        BY <3>2, <3>3
    <2>7. ts_classes' # NULL => \A b, c \in Buckets :
            Contents(b)' = Contents(c)' /\ Contents(b)' # NULL => b = c
      BY <2>1, <2>4 DEF MapOK
    <2>8. QED
      BY <2>3, <2>6, <2>7 DEF MapOK
  <1>5. QED
    BY <1>2, <1>3, <1>4

LEMMA StepCalls ==
  ASSUME TypeOK, StorePhases, MapOK, NEW t \in Threads, CallOK(t), Step(t)
  PROVE  CallOK(t)'
  <1>0. /\ pc \in [Threads -> PCs] /\ autom \in [Threads -> Automata \cup {NULL}]
        /\ i \in [Threads -> Nat] /\ tclass \in [Threads -> Classes \cup {NULL}]
        /\ FrameFits(t) /\ SharedTypeOK
    BY DEF TypeOK, FrameTypeOK
  <1>1. CASE \E a \in Automata : tesla_store_get(t, a)
    <2>1. /\ pc'[t] \in {"probe", "init_length"} /\ i'[t] = 0
      BY <1>0, <1>1 DEF tesla_store_get, Goto
    <2>2. QED
      BY <2>1, StoreAssumption DEF CallOK, Has, Working, Buckets
  <1>2. CASE InitLength(t) \/ InitTable(t) \/ InitClass(t)
    <2>1. /\ pc'[t] \in {"init_table", "init_classes", "probe"}
          /\ pc'[t] = "probe" => i'[t] = 0
      BY <1>0, <1>2 DEF InitLength, InitTable, InitClass, Goto
    <2>2. QED
      BY <2>1, StoreAssumption DEF CallOK, Has, Working, Buckets
  <1>3. CASE ProbeFaults(t) \/ ProbeFull(t) \/ AcquireUninitialised(t)
    BY <1>0, <1>3
    DEF ProbeFaults, ProbeFull, AcquireUninitialised, Goto, CallOK, Has, Working
  <1>4. CASE ProbeCollision(t)
    <2>1. PICK a \in Automata : a = autom[t]
      BY <1>0, <1>4 DEF ProbeCollision, FrameFits
    <2>2. /\ pc[t] = "probe" /\ pc'[t] = "probe" /\ i[t] < ts_length
          /\ i'[t] = i[t] + 1 /\ autom'[t] = a
          /\ UNCHANGED <<ts_classes, tc_automaton>>
          /\ Contents(Way(a, i[t])) \notin {NULL, a}
      BY <1>0, <1>4, <2>1
      DEF ProbeCollision, shared, table, classes, Probed, Bucket, Way, Contents
    <2>3. \A m \in Buckets : m < i[t] => Contents(Way(a, m)) \notin {NULL, a}
      BY <2>1, <2>2 DEF CallOK
    <2>4. \A m \in Buckets : Contents(Way(a, m))' = Contents(Way(a, m))
      BY <2>2 DEF Contents, Way
    <2>5. \A m \in Buckets : m < i[t] + 1 => m < i[t] \/ m = i[t]
      BY <1>0, StoreAssumption DEF Buckets
    <2>6. \A m \in Buckets : m < i'[t] => Contents(Way(a, m))' \notin {NULL, a}
      BY <2>2, <2>3, <2>4, <2>5
    <2>7. i'[t] <= ts_length
      BY <1>0, <2>2, StoreAssumption
    <2>8. QED
      BY <2>2, <2>6, <2>7 DEF CallOK, Has, Working, Way
  <1>5. CASE ProbeFound(t)
    <2>1. /\ pc[t] = "probe" /\ pc'[t] = "acquire" /\ autom'[t] = autom[t]
          /\ tclass'[t] = Probed(t) /\ UNCHANGED <<ts_classes, tc_automaton>>
          /\ tc_automaton[Probed(t)] = autom[t]
      BY <1>0, <1>5 DEF ProbeFound, Goto, shared, table, classes
    <2>2. QED
      BY <2>1 DEF CallOK, Has, Working, Probed, Contents
  <1>6. CASE ProbeEmpty(t)
    <2>1. PICK a \in Automata : a = autom[t]
      BY <1>0, <1>6 DEF ProbeEmpty, Goto, FrameFits
    <2>2. /\ pc[t] = "probe" /\ pc'[t] = "claim" /\ i[t] < ts_length
          /\ i'[t] = i[t] /\ autom'[t] = a /\ tclass'[t] = Probed(t)
          /\ UNCHANGED <<ts_classes, tc_automaton>>
          /\ Probed(t) = <<ts_classes, Way(a, i[t])>>
          /\ Contents(Way(a, i[t])) = NULL
      BY <1>0, <1>6, <2>1
      DEF ProbeEmpty, Goto, shared, table, classes, Probed, Bucket, Way, Contents
    <2>3. \A m \in Buckets : m < i[t] => Contents(Way(a, m)) \notin {NULL, a}
      BY <2>1, <2>2 DEF CallOK
    <2>4. \A m : Contents(Way(a, m))' = Contents(Way(a, m))
      BY <2>2 DEF Contents, Way
    <2>5. i[t] \in Buckets
      BY <1>0, <2>2, StoreAssumption DEF Buckets
    <2>6. QED
      BY <2>2, <2>3, <2>4, <2>5, StoreAssumption DEF CallOK, Has, Working, Way, Buckets
  <1>7. CASE Claim(t)
    <2>1. /\ pc[t] = "claim" /\ pc'[t] = "acquire" /\ autom'[t] = autom[t]
          /\ tclass'[t] = tclass[t] /\ UNCHANGED ts_classes
          /\ tclass[t] \in Classes
          /\ tc_automaton' = [tc_automaton EXCEPT ![tclass[t]] = autom[t]]
      BY <1>0, <1>7 DEF Claim, Goto, table, frame, FrameFits
    <2>2. tclass[t] = <<ts_classes, tclass[t][2]>>
      BY <2>1 DEF CallOK
    <2>3. Contents(tclass[t][2])' = autom[t]
      BY <1>0, <2>1, <2>2 DEF Contents, SharedTypeOK
    <2>4. QED
      BY <2>1, <2>2, <2>3 DEF CallOK, Has, Working
  <1>8. CASE Acquire(t) \/ UpdateExisting(t) \/ LateInit(t) \/ FindTaken(t)
               \/ FindFree(t) \/ FindNone(t) \/ Register(t)
    <2>1. /\ Working(t)' /\ (pc[t] = "acquire" \/ Working(t))
          /\ autom'[t] = autom[t] /\ tclass'[t] = tclass[t]
          /\ UNCHANGED <<ts_classes, tc_automaton>>
      BY <1>0, <1>8
      DEF Acquire, UpdateExisting, LateInit, FindTaken, FindFree, FindNone,
          Register, Goto, shared, table, classes, frame, Working
    <2>2. QED
      BY <2>1 DEF CallOK, Has, Working, Contents
  <1>9. CASE Release(t)
    BY <1>0, <1>9 DEF Release, Goto, CallOK, Has, Working
  <1>10. CASE Sunset(t)
    <2>1. autom[t] = NULL
      BY <1>0, <1>10
      DEF Sunset, SunsetBegin, SunsetVisit, SunsetLeave, SunsetEnd, Goto, FrameFits
    <2>2. autom'[t] = NULL /\ pc'[t] \in {"idle", "sunset", "update"}
      BY <1>0, <1>10, <2>1
      DEF Sunset, SunsetBegin, SunsetVisit, SunsetLeave, SunsetEnd, Goto
    <2>3. QED
      BY <2>2 DEF CallOK, Has
  <1>11. QED
    BY <1>1, <1>2, <1>3, <1>4, <1>5, <1>6, <1>7, <1>8, <1>9, <1>10 DEF Step, Run

\* What a step of t leaves to the call of another thread: entries of the table
\* are never overwritten, and the bucket that t fills is not claimed by it.
LEMMA OtherCalls ==
  ASSUME TypeOK, StorePhases, ClaimsApart, NEW t \in Threads, CallOK(t), Step(t),
         NEW u \in Threads \ {t}, CallOK(u)
  PROVE  CallOK(u)'
  <1>0. /\ pc'[u] = pc[u] /\ autom'[u] = autom[u] /\ i'[u] = i[u]
        /\ tclass'[u] = tclass[u] /\ SharedTypeOK /\ FrameFits(u)
        /\ i \in [Threads -> Nat]
    BY OthersStay DEF Step, TypeOK, FrameTypeOK
  <1>1. Has(u)' <=> Has(u)
    BY <1>0 DEF Has, Working
  <1>2. CASE ~(pc[u] \in {"probe", "claim"} \/ Has(u))
    BY <1>0, <1>1, <1>2 DEF CallOK
  <1>3. CASE pc[u] \in {"probe", "claim"} \/ Has(u)
    <2>1. ts_classes # NULL /\ ~Initialising(t)
      BY <1>3, TableIsThere DEF Has
    <2>2. UNCHANGED ts_classes
      BY <2>1, WhoMakesTheStore DEF InitLength, InitTable, InitClass, Initialising, Goto
    <2>3. PICK a \in Automata : a = autom[u]
      BY <1>0, <1>3 DEF FrameFits, Has, TypeOK, FrameTypeOK
    <2>4. CASE UNCHANGED tc_automaton
      <3>1. \A b : Contents(b)' = Contents(b)
        BY <2>2, <2>4 DEF Contents
      <3>2. QED
        BY <1>0, <1>1, <2>2, <2>4 DEF CallOK, Contents, Way
    <2>5. CASE Claim(t)
      <3>1. PICK h \in Buckets : tclass[t] = <<ts_classes, h>> /\ Contents(h) = NULL
        <4>1. i[t] \in Buckets /\ autom[t] \in Automata
          BY <2>5 DEF Claim, Goto, CallOK, TypeOK, FrameFits
        <4>2. Way(autom[t], i[t]) \in Buckets
          BY <4>1, WayType, StoreAssumption DEF Buckets
        <4>3. QED
          BY <2>5, <4>2 DEF Claim, Goto, CallOK
      <3>2. ASSUME NEW b \in Buckets, b # h PROVE Contents(b)' = Contents(b)
        <4>1. <<ts_classes, b>> # <<ts_classes, h>> /\ <<ts_classes, b>> \in Classes
          BY <1>0, <2>1, <3>2, ContentsType
        <4>2. QED
          BY <1>0, <2>2, <2>5, <3>1, <4>1 DEF Claim, Contents, SharedTypeOK
      <3>3. \A b \in Buckets : Contents(b) # NULL => Contents(b)' = Contents(b)
        BY <3>1, <3>2
      <3>4. \A m \in Buckets : Way(a, m) \in Buckets
        BY WayType, StoreAssumption DEF Buckets
      <3>5. ASSUME pc[u] \in {"probe", "claim"}
            PROVE  \A m \in Buckets : m < i[u] => Contents(Way(a, m))' \notin {NULL, a}
        BY <2>3, <3>3, <3>4, <3>5 DEF CallOK
      <3>6. ASSUME pc[u] = "claim" PROVE Contents(Way(a, i[u]))' = NULL
        <4>1. tclass[u] # tclass[t]
          BY <2>5, <3>6 DEF ClaimsApart, Claim, Goto
        <4>2. /\ i[u] \in Buckets /\ tclass[u] = <<ts_classes, Way(a, i[u])>>
              /\ Contents(Way(a, i[u])) = NULL
          BY <2>3, <3>6 DEF CallOK
        <4>3. Way(a, i[u]) \in Buckets /\ Way(a, i[u]) # h
          BY <3>1, <3>4, <4>1, <4>2
        <4>4. QED
          <5>1. PICK b \in Buckets : b = Way(a, i[u])
            BY <4>3
          <5>2. Contents(b)' = NULL
            BY <3>2, <4>2, <4>3, <5>1
          <5>3. QED
            BY <1>0, <5>1, <5>2 DEF Contents, Way
      <3>7. ASSUME Has(u) PROVE Contents(tclass[u][2])' = a
        <4>1. tclass[u] \in Classes /\ a # NULL
          BY <1>0, <3>7, StoreAssumption DEF FrameFits, Has
        <4>2. PICK b \in Buckets : b = tclass[u][2]
          BY <4>1 DEF Classes
        <4>3. Contents(b) = a
          BY <2>3, <3>7, <4>2 DEF CallOK
        <4>4. Contents(b)' = a
          BY <3>3, <4>1, <4>3
        <4>5. QED
          BY <1>0, <4>2, <4>4 DEF Contents
      <3>8. /\ Way(a, i[u])' = Way(a, i[u])
            /\ \A m : Way(a, m)' = Way(a, m)
        BY <1>0 DEF Way
      <3>9. CASE pc[u] = "probe"
        <4>1. i[u] <= ts_length /\ ~Has(u)
          BY <3>9 DEF CallOK, Has, Working
        <4>2. \A m \in Buckets : m < i'[u] => Contents(Way(autom[u], m))' \notin {NULL, autom'[u]}
          BY <1>0, <2>3, <3>5, <3>9
        <4>3. QED
          BY <1>0, <1>1, <3>9, <4>1, <4>2 DEF CallOK, Way
      <3>10. CASE pc[u] = "claim"
        <4>1. i[u] <= ts_length /\ ~Has(u) /\ i[u] \in Buckets
              /\ tclass[u] = <<ts_classes, Way(a, i[u])>>
          BY <2>3, <3>10 DEF CallOK, Has, Working
        <4>2. \A m \in Buckets : m < i'[u] => Contents(Way(autom[u], m))' \notin {NULL, autom'[u]}
          BY <1>0, <2>3, <3>5, <3>10
        <4>3. Contents(Way(autom[u], i[u]))' = NULL
          BY <1>0, <2>3, <3>6, <3>10 DEF Contents, Way
        <4>4. QED
          BY <1>0, <1>1, <2>2, <2>3, <3>10, <4>1, <4>2, <4>3 DEF CallOK, Way
      <3>11. CASE Has(u)
        <4>1. tclass[u][1] = ts_classes /\ Contents(tclass[u][2])' = a
              /\ pc[u] \notin {"probe", "claim"}
          BY <3>7, <3>11 DEF CallOK, Has, Working
        <4>2. QED
          BY <1>0, <1>1, <2>2, <2>3, <4>1 DEF CallOK, Contents
      <3>12. QED
        BY <1>3, <3>9, <3>10, <3>11
    <2>6. QED
      BY <2>4, <2>5, WhoClaims
  <1>4. QED
    BY <1>2, <1>3

\* A thread that finds an empty bucket is the only one that wants it, unless
\* that is on record.
LEMMA StepClaims ==
  ASSUME TypeOK, ClaimsApart, NEW t \in Threads, Step(t), "bucket" \notin contended'
  PROVE  ClaimsApart'
  <1>0. pc \in [Threads -> PCs] /\ tclass \in [Threads -> Classes \cup {NULL}]
    BY DEF TypeOK, FrameTypeOK
  <1>1. \A u \in Threads \ {t} : pc'[u] = pc[u] /\ tclass'[u] = tclass[u]
    BY OthersStay DEF Step
  <1>2. CASE ProbeEmpty(t)
    <2>1. tclass'[t] = Probed(t)
      BY <1>0, <1>2 DEF ProbeEmpty
    <2>2. \A u \in Threads \ {t} : ~(pc[u] = "claim" /\ tclass[u] = Probed(t))
      BY <1>2 DEF ProbeEmpty, Contend
    <2>3. QED
      BY <1>1, <2>1, <2>2 DEF ClaimsApart
  <1>3. CASE ~ProbeEmpty(t)
    <2>1. pc'[t] # "claim"
      <3>1. CASE Run(t)
        BY <1>0, <1>3, <3>1
        DEF Run, InitLength, InitTable, InitClass, ProbeFaults, ProbeCollision,
            ProbeFound, Claim, ProbeFull, AcquireUninitialised, Acquire,
            UpdateExisting, LateInit, FindTaken, FindFree, FindNone, Register,
            Release, Goto
      <3>2. CASE Sunset(t) \/ \E a \in Automata : tesla_store_get(t, a)
        BY <1>0, <3>2
        DEF Sunset, SunsetBegin, SunsetVisit, SunsetLeave, SunsetEnd,
            tesla_store_get, Goto
      <3>3. QED
        BY <3>1, <3>2 DEF Step
    <2>2. QED
      BY <1>1, <2>1 DEF ClaimsApart
  <1>4. QED
    BY <1>2, <1>3

LEMMA StepMapInv ==
  ASSUME MapInv, NEW t \in Threads, Step(t), ~raced', "bucket" \notin contended'
  PROVE  MapInv'
  <1>1. Sound'
    BY StepTypes, StepPhases, StepCrashes DEF MapInv, Sound, Step
  <1>2. MapOK' /\ CallOK(t)'
    BY StepMaps, StepCalls DEF MapInv, Sound
  <1>3. ClaimsApart'
    BY StepClaims DEF MapInv, Sound
  <1>4. \A u \in Threads \ {t} : CallOK(u)'
    BY OtherCalls DEF MapInv, Sound
  <1>5. QED
    BY <1>1, <1>2, <1>3, <1>4 DEF MapInv

LEMMA InitMapInv == Init => MapInv
  <1> SUFFICES ASSUME Init PROVE MapInv
    OBVIOUS
  <1>1. Sound /\ ClaimsApart
    BY InitTypeOK, InitPhases DEF Init, Sound, ClaimsApart
  <1>2. MapOK
    <2>1. \A c \in Classes : tc_automaton[c] = NULL
      BY DEF Init
    <2>2. ts_classes # NULL => \A b \in Buckets : Contents(b) = NULL
      BY <1>1, <2>1, ContentsType DEF Contents, Sound, TypeOK
    <2>3. QED
      BY <2>1, <2>2 DEF MapOK, Reachable
  <1>3. \A t \in Threads : CallOK(t)
    BY DEF Init, CallOK, Has, Working
  <1>4. QED
    BY <1>1, <1>2, <1>3 DEF MapInv

LEMMA UnchangedMapInv == ASSUME MapInv, UNCHANGED vars PROVE MapInv'
  <1>1. Sound' /\ ClaimsApart'
    BY UnchangedSound DEF MapInv, vars, frame, ClaimsApart
  <1>2. /\ UNCHANGED <<tc_automaton, ts_classes, pc, autom, i, tclass>>
    BY DEF vars, shared, table, classes, frame
  <1>3. \A b : Contents(b)' = Contents(b)
    BY <1>2 DEF Contents
  <1>4. MapOK'
    BY <1>2, <1>3 DEF MapInv, MapOK, Reachable, Way, Contents, Initialising
  <1>5. \A t \in Threads : CallOK(t)'
    BY <1>2, <1>3 DEF MapInv, CallOK, Way, Has, Working, Contents
  <1>6. QED
    BY <1>1, <1>4, <1>5 DEF MapInv

LEMMA MapInvariant == Spec => [](~raced /\ "bucket" \notin contended => MapInv)
  <1> DEFINE Inv == ~raced /\ "bucket" \notin contended => MapInv
  <1>1. Inv /\ [Next]_vars => Inv'
    <2> SUFFICES ASSUME Inv, [Next]_vars, ~raced', "bucket" \notin contended'
                 PROVE  MapInv'
      OBVIOUS
    <2>1. MapInv
      BY RacedStays, ContendedStays
    <2>2. QED
      BY <2>1, StepMapInv, UnchangedMapInv, Steps
  <1>2. QED
    BY <1>1, InitMapInv, PTL DEF Spec

\* One thread meets nobody.
LEMMA NobodyMet == ASSUME SingleThread PROVE Spec => [](~raced /\ contended = {})
  <1> DEFINE Inv == ~raced /\ contended = {}
  <1>1. Init => Inv
    BY DEF Init
  <1>2. Inv /\ [Next]_vars => Inv'
    <2> SUFFICES ASSUME Inv, [Next]_vars PROVE Inv'
      OBVIOUS
    <2>1. ASSUME NEW t \in Threads, Step(t) PROVE Inv'
      <3>0. \A u \in Threads : u = t
        BY DEF SingleThread
      <3>1. CASE \E a \in Automata : tesla_store_get(t, a)
        BY <3>0, <3>1 DEF tesla_store_get, Goto, Initialising
      <3>2. CASE InitLength(t) \/ InitTable(t) \/ InitClass(t)
        BY <3>2 DEF InitLength, InitTable, InitClass, table
      <3>3. CASE ProbeEmpty(t) \/ LateInit(t) \/ FindFree(t) \/ SunsetBegin(t)
        BY <3>0, <3>3 DEF ProbeEmpty, LateInit, FindFree, SunsetBegin, Contend
      <3>4. CASE Run(t)
        BY <3>2, <3>3, <3>4
        DEF Run, ProbeFaults, ProbeCollision, ProbeFound, Claim, ProbeFull,
            AcquireUninitialised, Acquire, UpdateExisting, FindTaken, FindNone,
            Register, Release, shared, table
      <3>5. CASE Sunset(t)
        BY <3>3, <3>5 DEF Sunset, SunsetVisit, SunsetLeave, SunsetEnd, shared, table
      <3>6. QED
        BY <2>1, <3>1, <3>4, <3>5 DEF Step
    <2>2. QED
      BY <2>1, Steps DEF vars, shared, table
  <1>3. QED
    BY <1>1, <1>2, PTL DEF Spec

\* "Modifications to this structure should only be made while a lock is held":
\* whatever sunsets do beside them, no two calls of any number of threads work
\* on one class, nor on one automaton, if no call came while the store was
\* being initialised and, for the automata, no bucket was claimed twice.
THEOREM LocksExclude == Spec => []ClassExclusive
  <1>1. /\ ~raced => Locked
        /\ ~raced /\ "bucket" \notin contended => MapInv
        => ClassExclusive
    <2> SUFFICES ASSUME ~raced, Locked, "bucket" \notin contended => MapInv,
                        NEW t \in Threads, NEW u \in Threads, t # u,
                        Working(t), Working(u), ~AtSunset(t), ~AtSunset(u)
                 PROVE  /\ tclass[t] # tclass[u]
                        /\ "bucket" \notin contended => autom[t] # autom[u]
      BY DEF ClassExclusive
    <2>1. tclass[t] # tclass[u]
      BY DEF Locked
    <2>2. ASSUME "bucket" \notin contended, autom[t] = autom[u] PROVE FALSE
      <3>1. Has(t) /\ Has(u)
        BY DEF Has, AtSunset
      <3>2. /\ tclass[t][1] = ts_classes /\ Contents(tclass[t][2]) = autom[t]
            /\ tclass[u][1] = ts_classes /\ Contents(tclass[u][2]) = autom[t]
        BY <2>2, <3>1 DEF MapInv, CallOK
      <3>3. tclass[t] \in Classes /\ tclass[u] \in Classes /\ autom[t] # NULL
        BY <2>2, <3>1 DEF MapInv, Sound, TypeOK, FrameFits, Has
      <3>4. ts_classes # NULL
        BY <2>2, TableIsThere DEF MapInv, Sound
      <3>5. tclass[t][2] = tclass[u][2]
        BY <2>2, <3>2, <3>3, <3>4 DEF MapInv, MapOK, Classes
      <3>6. QED
        BY <2>1, <3>2, <3>3, <3>5 DEF Classes
    <2>3. QED
      BY <2>1, <2>2
  <1>2. QED
    BY <1>1, LockInvariant, MapInvariant, PTL

-----------------------------------------------------------------------------
(* It implements the map of ClassTable *)

\* The place of an automaton, in a state and in the one after a step.
LEMMA PlaceIs ==
  ASSUME SharedTypeOK, MapOK, NEW x \in Automata
  PROVE  /\ ts_classes = NULL \/ (\A b \in Buckets : Contents(b) # x) => PlaceOf[x] = NULL
         /\ \A b \in Buckets : ts_classes # NULL /\ Contents(b) = x => PlaceOf[x] = b
  <1>1. x # NULL
    BY StoreAssumption
  <1>2. ASSUME NEW b \in Buckets, ts_classes # NULL, Contents(b) = x
        PROVE  PlaceOf[x] = b
    <2>1. \A c \in Buckets : Contents(c) = x => c = b
      BY <1>1, <1>2 DEF MapOK
    <2>2. (CHOOSE c \in Buckets : Contents(c) = x) = b
      BY <1>2, <2>1
    <2>3. QED
      BY <1>2, <2>2 DEF PlaceOf
  <1>3. QED
    BY <1>2 DEF PlaceOf

LEMMA PlaceIsPrimed ==
  ASSUME SharedTypeOK', MapOK', NEW x \in Automata
  PROVE  /\ ts_classes' = NULL \/ (\A b \in Buckets : Contents(b)' # x)
              => PlaceOf'[x] = NULL
         /\ \A b \in Buckets : ts_classes' # NULL /\ Contents(b)' = x => PlaceOf'[x] = b
  <1>1. x # NULL
    BY StoreAssumption
  <1>2. ASSUME NEW b \in Buckets, ts_classes' # NULL, Contents(b)' = x
        PROVE  PlaceOf'[x] = b
    <2>1. \A c \in Buckets : Contents(c)' = x => c = b
      BY <1>1, <1>2 DEF MapOK
    <2>2. (CHOOSE c \in Buckets : Contents(c)' = x) = b
      BY <1>2, <2>1
    <2>3. QED
      BY <1>2, <2>2 DEF PlaceOf
  <1>3. QED
    BY <1>2 DEF PlaceOf

\* Only a claim gives an automaton a place.
LEMMA PlacesKept ==
  ASSUME SingleThread, MapInv, MapInv', NEW t \in Threads, Step(t), ~Claim(t)
  PROVE  PlaceOf' = PlaceOf
  <1> SUFFICES ASSUME NEW x \in Automata PROVE PlaceOf'[x] = PlaceOf[x]
    BY DEF PlaceOf
  <1>0. SharedTypeOK /\ SharedTypeOK' /\ MapOK /\ MapOK'
    BY DEF MapInv, Sound, TypeOK
  <1>1. CASE InitTable(t)
    <2>1. \A c \in Classes : tc_automaton[c] = NULL
      BY <1>1 DEF InitTable, Goto, MapInv, MapOK, Initialising
    <2>2. UNCHANGED tc_automaton /\ x # NULL
      BY <1>1, StoreAssumption DEF InitTable, classes
    <2>3. ts_classes = NULL \/ \A b \in Buckets : Contents(b) # x
      BY <1>0, <2>1, <2>2, ContentsType DEF Contents
    <2>4. ts_classes' # NULL => \A b \in Buckets : <<ts_classes', b>> \in Classes
      BY <1>0 DEF SharedTypeOK, Classes
    <2>5. ts_classes' = NULL \/ \A b \in Buckets : Contents(b)' # x
      BY <2>1, <2>2, <2>4 DEF Contents
    <2>6. QED
      BY <1>0, <2>3, <2>5, PlaceIs, PlaceIsPrimed
  <1>2. CASE ~InitTable(t)
    <2>1. UNCHANGED <<tc_automaton, ts_classes>>
      BY <1>2, WhoClaims, WhoMakesTheStore DEF InitLength, InitClass, table
    <2>2. \A b \in Buckets : Contents(b)' = Contents(b)
      BY <2>1 DEF Contents
    <2>3. CASE ts_classes # NULL /\ \E b \in Buckets : Contents(b) = x
      BY <1>0, <2>1, <2>2, <2>3, PlaceIs, PlaceIsPrimed
    <2>4. CASE ~(ts_classes # NULL /\ \E b \in Buckets : Contents(b) = x)
      BY <1>0, <2>1, <2>2, <2>4, PlaceIs, PlaceIsPrimed
    <2>5. QED
      BY <2>3, <2>4
  <1>3. QED
    BY <1>1, <1>2

\* A claim is the first call for an automaton.
LEMMA ClaimEnters ==
  ASSUME SingleThread, MapInv, MapInv', NEW t \in Threads, Claim(t)
  PROVE  \E a \in Automata : Table!Enter(t, a)
  <1>0. /\ SharedTypeOK /\ SharedTypeOK' /\ MapOK /\ MapOK' /\ TypeOK /\ StorePhases
        /\ CallOK(t) /\ FrameTypeOK /\ \A u \in Threads : u = t
    BY DEF MapInv, Sound, TypeOK, SingleThread
  <1>1. PICK a \in Automata : a = autom[t]
    BY <1>0 DEF Claim, Goto, TypeOK, FrameFits
  <1>2. ts_classes # NULL /\ UNCHANGED ts_classes /\ a # NULL
    BY <1>0, TableIsThere, StoreAssumption DEF Claim, Goto, table
  <1>3. PICK n \in Buckets :
          /\ n = i[t] /\ tclass[t] = <<ts_classes, Way(a, n)>>
          /\ Contents(Way(a, n)) = NULL
          /\ \A m \in Buckets : m < n => Contents(Way(a, m)) \notin {NULL, a}
    BY <1>0, <1>1 DEF Claim, Goto, CallOK
  <1>4. PICK h \in Buckets : h = Way(a, n)
    BY WayType, StoreAssumption DEF Buckets
  <1>5. \A b \in Buckets : Contents(b) # a
    BY <1>0, <1>2, <1>3, NotFurther
  <1>6. \A b \in Buckets : Contents(b)' = IF b = h THEN a ELSE Contents(b)
    <2>1. tc_automaton' = [tc_automaton EXCEPT ![<<ts_classes, h>>] = a]
      BY <1>1, <1>3, <1>4 DEF Claim
    <2>2. \A b \in Buckets : <<ts_classes, b>> \in Classes
      BY <1>0, <1>2, ContentsType
    <2>3. QED
      BY <1>0, <1>2, <2>1, <2>2 DEF Contents, SharedTypeOK
  <1>7. PlaceOf[a] = NULL
    BY <1>0, <1>5, PlaceIs
  <1>8. ASSUME NEW x \in Automata PROVE PlaceOf[x] # h
    <2>1. CASE \E b \in Buckets : Contents(b) = x
      <3>1. PICK b \in Buckets : Contents(b) = x
        BY <2>1
      <3>2. PlaceOf[x] = b /\ b # h
        BY <1>0, <1>2, <1>3, <1>4, <3>1, PlaceIs, StoreAssumption
      <3>3. QED
        BY <3>2
    <2>2. CASE \A b \in Buckets : Contents(b) # x
      <3>1. PlaceOf[x] = NULL
        BY <1>0, <2>2, PlaceIs
      <3>2. QED
        BY <3>1, StoreAssumption DEF Buckets
    <2>3. QED
      BY <2>1, <2>2
  <1>9. PlaceOf' = [PlaceOf EXCEPT ![a] = h]
    <2>1. ASSUME NEW x \in Automata
          PROVE  PlaceOf'[x] = IF x = a THEN h ELSE PlaceOf[x]
      <3>1. CASE x = a
        BY <1>0, <1>2, <1>6, <3>1, PlaceIsPrimed
      <3>2. CASE x # a /\ \E b \in Buckets : Contents(b) = x
        <4>1. PICK b \in Buckets : Contents(b) = x
          BY <3>2
        <4>2. Contents(b)' = x
          BY <1>3, <1>4, <1>6, <4>1, StoreAssumption
        <4>3. QED
          BY <1>0, <1>2, <3>2, <4>1, <4>2, PlaceIs, PlaceIsPrimed
      <3>3. CASE x # a /\ \A b \in Buckets : Contents(b) # x
        BY <1>0, <1>6, <3>3, PlaceIs, PlaceIsPrimed
      <3>4. QED
        BY <3>1, <3>2, <3>3
    <2>2. QED
      BY <2>1 DEF PlaceOf
  <1>10. Got[t] = NULL /\ Got' = [Got EXCEPT ![t] = [automaton |-> a, place |-> h]]
    <2>1. ~Has(t) /\ Has(t)' /\ autom'[t] = a /\ tclass'[t][2] = h
      BY <1>0, <1>1, <1>2, <1>3, <1>4
      DEF Claim, Goto, Has, Working, frame, FrameTypeOK
    <2>2. QED
      BY <1>0, <2>1 DEF Got
  <1>11. Refused' = Refused
    BY <1>0 DEF Claim, Goto, Refused, FrameTypeOK
  <1>12. QED
    BY <1>7, <1>8, <1>9, <1>10, <1>11 DEF Table!Enter, Table!Hand

\* Every step is one of the map, or none.
LEMMA StepRefines ==
  ASSUME SingleThread, MapInv, MapInv', NEW t \in Threads, Step(t)
  PROVE  Table!Next \/ UNCHANGED <<PlaceOf, Got, Refused>>
  <1>0. /\ FrameTypeOK /\ SharedTypeOK /\ MapOK /\ TypeOK /\ StorePhases
        /\ CallOK(t) /\ FrameFits(t) /\ \A u \in Threads : u = t
    BY DEF MapInv, Sound, TypeOK, SingleThread
  <1>1. CASE Claim(t)
    BY <1>1, ClaimEnters DEF Table!Next
  <1>2. CASE ProbeFound(t)
    <2>1. PICK a \in Automata : a = autom[t]
      BY <1>0, <1>2 DEF ProbeFound, Goto, FrameFits
    <2>2. PICK b \in Buckets : b = Bucket(t)
      BY <1>0, <2>1, BucketType DEF Bucket, FrameTypeOK
    <2>3. Contents(b) = a /\ ts_classes # NULL
      BY <1>2, <2>1, <2>2 DEF ProbeFound, Probed, Contents
    <2>4. PlaceOf[a] = b /\ b # NULL
      BY <1>0, <2>3, PlaceIs, StoreAssumption DEF Buckets
    <2>5. Got[t] = NULL /\ Got' = [Got EXCEPT ![t] = [automaton |-> a, place |-> b]]
      <3>1. ~Has(t) /\ Has(t)' /\ autom'[t] = a /\ tclass'[t][2] = b
        BY <1>0, <1>2, <2>1, <2>2, StoreAssumption
        DEF ProbeFound, Goto, Probed, Has, Working, FrameTypeOK
      <3>2. QED
        BY <1>0, <3>1 DEF Got
    <2>6. Refused' = Refused
      BY <1>0, <1>2 DEF ProbeFound, Goto, Refused, FrameTypeOK
    <2>7. PlaceOf' = PlaceOf
      BY <1>2, PlacesKept DEF ProbeFound, Claim, Goto
    <2>8. Table!Find(t, a)
      BY <2>4, <2>5, <2>6, <2>7 DEF Table!Find, Table!Hand
    <2>9. QED
      BY <2>8 DEF Table!Next
  <1>3. CASE Release(t)
    <2>1. Has(t) /\ ~Has(t)' 
      BY <1>0, <1>3 DEF Release, Goto, Has, Working, FrameTypeOK
    <2>2. Got[t] # NULL /\ Got' = [Got EXCEPT ![t] = NULL]
      <3>1. Contents(tclass[t][2]) = autom[t] /\ tclass[t][1] = ts_classes
        BY <1>0, <2>1 DEF CallOK
      <3>2. Got[t] = [automaton |-> autom[t], place |-> tclass[t][2]]
        BY <2>1 DEF Got
      <3>3. Got[t] # NULL
        <4>1. autom[t] \in Automata /\ tclass[t][2] \in Buckets
          BY <1>0, <2>1 DEF Has, FrameTypeOK, FrameFits, Working, Classes
        <4>2. QED
          BY <3>2, <4>1, StoreAssumption
      <3>4. QED
        BY <1>0, <2>1, <3>3 DEF Got
    <2>3. Refused' = Refused
      BY <1>0, <1>3 DEF Release, Goto, Refused, FrameTypeOK
    <2>4. PlaceOf' = PlaceOf
      BY <1>3, PlacesKept DEF Release, Claim, Goto
    <2>5. QED
      BY <2>2, <2>3, <2>4 DEF Table!Put, Table!Next
  <1>4. CASE ProbeFull(t)
    <2>1. PICK a \in Automata : a = autom[t]
      BY <1>0, <1>4 DEF ProbeFull, Goto, FrameFits
    <2>2. ts_classes # NULL /\ i[t] = ts_length /\ pc[t] = "probe"
      BY <1>4 DEF ProbeFull, Goto
    <2>3. \A b \in Buckets : Contents(b) \notin {NULL, a}
      BY <1>0, <2>1, <2>2, NowhereElse DEF CallOK
    <2>4. PlaceOf[a] = NULL
      BY <1>0, <2>3, PlaceIs
    <2>5. \A b \in Buckets : \E x \in Automata : PlaceOf[x] = b
      BY <1>0, <2>2, <2>3, ContentsType, PlaceIs
    <2>6. ~Has(t) /\ ~Has(t)' /\ pc'[t] = "no_entry"
      BY <1>0, <1>4 DEF ProbeFull, Goto, Has, Working, FrameTypeOK
    <2>7. Got[t] = NULL /\ Got' = Got
      BY <1>0, <2>6 DEF Got
    <2>8. Refused' = Refused \cup {t}
      BY <1>0, <2>6 DEF Refused
    <2>9. PlaceOf' = PlaceOf
      BY <1>4, PlacesKept DEF ProbeFull, Claim, Goto
    <2>10. Table!Refuse(t, a)
      BY <2>4, <2>5, <2>7, <2>8, <2>9 DEF Table!Refuse
    <2>11. QED
      BY <2>10 DEF Table!Next
  <1>5. CASE ~Claim(t) /\ ~ProbeFound(t) /\ ~Release(t) /\ ~ProbeFull(t)
    <2>1. /\ pc[t] # "no_entry" /\ pc'[t] # "no_entry"
          /\ Has(t)' <=> Has(t)
          /\ Has(t) => autom'[t] = autom[t] /\ tclass'[t] = tclass[t]
      <3>1. CASE \E a \in Automata : tesla_store_get(t, a)
        BY <1>0, <3>1
        DEF tesla_store_get, Goto, Has, Working, FrameTypeOK
      <3>2. CASE InitLength(t) \/ InitTable(t) \/ InitClass(t)
        BY <1>0, <3>2 DEF InitLength, InitTable, InitClass, Goto, Has, Working, FrameTypeOK
      <3>3. CASE AcquireUninitialised(t) \/ ProbeFaults(t)
        <4>1. pc'[t] = "crashed"
          BY <1>0, <3>3 DEF AcquireUninitialised, ProbeFaults, Goto, FrameTypeOK
        <4>2. QED
          BY <4>1 DEF MapInv, Sound
      <3>4. CASE Sunset(t)
        <4>1. autom[t] = NULL
          BY <1>0, <3>4
          DEF Sunset, SunsetBegin, SunsetVisit, SunsetLeave, SunsetEnd, Goto, FrameFits
        <4>2. /\ autom'[t] = NULL
              /\ pc[t] # "no_entry" /\ pc'[t] # "no_entry"
          BY <1>0, <3>4, <4>1
          DEF Sunset, SunsetBegin, SunsetVisit, SunsetLeave, SunsetEnd, Goto,
              FrameTypeOK
        <4>3. QED
          BY <4>1, <4>2 DEF Has
      <3>5. CASE ProbeCollision(t) \/ ProbeEmpty(t)
        BY <1>0, <3>5 DEF ProbeCollision, ProbeEmpty, Goto, Has, Working, FrameTypeOK
      <3>6. CASE Acquire(t) \/ UpdateExisting(t) \/ LateInit(t) \/ FindTaken(t)
                   \/ FindFree(t) \/ FindNone(t) \/ Register(t)
        BY <1>0, <3>6
        DEF Acquire, UpdateExisting, LateInit, FindTaken, FindFree, FindNone,
            Register, Goto, frame, Has, Working, FrameTypeOK
      <3>7. QED
        BY <1>5, <3>1, <3>2, <3>3, <3>4, <3>5, <3>6 DEF Step, Run
    <2>2. Got' = Got
      <3>1. CASE Has(t)
        BY <1>0, <2>1, <3>1 DEF Got
      <3>2. CASE ~Has(t)
        BY <1>0, <2>1, <3>2 DEF Got
      <3>3. QED
        BY <3>1, <3>2
    <2>3. Refused' = Refused
      BY <1>0, <2>1 DEF Refused
    <2>4. QED
      BY <1>5, <2>2, <2>3, PlacesKept
  <1>6. QED
    BY <1>1, <1>2, <1>3, <1>4, <1>5

LEMMA InitRefines == Init => Table!Init
  <1> SUFFICES ASSUME Init PROVE Table!Init
    OBVIOUS
  <1>1. PlaceOf = [a \in Automata |-> NULL]
    <2>1. SharedTypeOK /\ MapOK /\ \A c \in Classes : tc_automaton[c] = NULL
      BY InitMapInv DEF MapInv, Sound, TypeOK, Init
    <2>2. ts_classes = NULL \/ \A b \in Buckets : Contents(b) = NULL
      BY <2>1, ContentsType DEF Contents
    <2>3. ASSUME NEW a \in Automata PROVE PlaceOf[a] = NULL
      BY <2>1, <2>2, PlaceIs, StoreAssumption
    <2>4. QED
      BY <2>3 DEF PlaceOf
  <1>2. Got = [t \in Threads |-> NULL] /\ Refused = {}
    BY DEF Init, Got, Refused, Has
  <1>3. QED
    BY <1>1, <1>2 DEF Table!Init

\* Linear probing implements a map: for one thread, and any number of buckets,
\* automata and hash values, an automaton keeps the class it was given first,
\* no two automata get the same, and none is refused while a class is free.
THEOREM ProbingIsAMap == ASSUME SingleThread PROVE Spec => IsAMap
  <1>1. MapInv /\ MapInv' /\ [Next]_vars => [Table!Next]_(Table!vars)
    <2> SUFFICES ASSUME MapInv, MapInv', [Next]_vars PROVE [Table!Next]_(Table!vars)
      OBVIOUS
    <2>1. CASE UNCHANGED vars
      BY <2>1
      DEF vars, shared, table, classes, frame, Table!vars, PlaceOf, Got, Refused,
          Contents, Has, Working
    <2>2. QED
      BY <2>1, Steps, StepRefines DEF Table!vars
  <1>2. Spec => []MapInv
    <2>1. contended = {} => "bucket" \notin contended
      OBVIOUS
    <2>2. QED
      BY <2>1, MapInvariant, NobodyMet, PTL
  <1>3. QED
    BY <1>1, <1>2, InitRefines, PTL DEF Spec, IsAMap, Table!Spec

-----------------------------------------------------------------------------
(* The registrations *)

\* More registrations than there are others to register: one of them is twice
\* in the list.
LEMMA TooManyOthers ==
  ASSUME NEW T, IsFiniteSet(T), Cardinality(T) <= StaticClasses, NEW x \in T,
         NEW f \in [1 .. StaticClasses -> T], \A n \in 1 .. StaticClasses : f[n] # x
  PROVE  \E m, n \in 1 .. StaticClasses : m # n /\ f[m] = f[n]
  <1>1. StaticClasses \in Int /\ StaticClasses >= 1
    BY StoreAssumption
  <1>2. IsFiniteSet(1 .. StaticClasses) /\ Cardinality(1 .. StaticClasses) = StaticClasses
    BY <1>1, FS_Interval
  <1>3. PICK U : U = T \ {x}
    OBVIOUS
  <1>4. IsFiniteSet(U) /\ Cardinality(U) = Cardinality(T) - 1
    BY <1>3, FS_RemoveElement
  <1>5. Cardinality(T) \in Nat
    BY FS_CardinalityType
  <1>6. Cardinality(U) < Cardinality(1 .. StaticClasses)
    BY <1>1, <1>2, <1>4, <1>5
  <1>7. f \in [1 .. StaticClasses -> U]
    BY <1>3
  <1>8. QED
    BY <1>2, <1>4, <1>6, <1>7, FS_PigeonHole

\* There is a free registration for a class that is not registered.
LEMMA NeverFull ==
  ASSUME RoomToRegister, MapInv, ListOK, NEW t \in Threads, RegistersOK(t),
         pc[t] = "find"
  PROVE  \E n \in 1 .. StaticClasses : tls_classes[n] = NULL
  <1> SUFFICES ASSUME \A n \in 1 .. StaticClasses : tls_classes[n] # NULL PROVE FALSE
    OBVIOUS
  <1> DEFINE D == 1 .. StaticClasses
  <1>0. /\ tls_classes \in [D -> Classes \cup {NULL}] /\ SharedTypeOK
        /\ tclass[t] \in Classes
    BY DEF MapInv, Sound, TypeOK, SharedTypeOK, FrameFits, Working
  <1>1. \A m, n \in D : m # n => tls_classes[m] # tls_classes[n]
    BY DEF ListOK
  <1>2. \A n \in D : /\ tls_classes[n] \in Classes /\ tls_classes[n] # tclass[t]
                     /\ tls_classes[n][1] = ts_classes
                     /\ tc_automaton[tls_classes[n]] # NULL
    BY <1>0 DEF ListOK, RegistersOK, Registering, Listed
  <1>3. /\ tclass[t][1] = ts_classes /\ Contents(tclass[t][2]) = autom[t]
        /\ autom[t] # NULL
    BY DEF MapInv, CallOK, Has, Working, RegistersOK, Registering
  <1>4. \A c \in Classes : c = <<c[1], c[2]>> /\ c[2] \in Buckets
    BY DEF Classes
  <1>5. ts_classes # NULL
    BY TableIsThere DEF MapInv, Sound, Working
  <1>6. CASE ts_length <= StaticClasses
    <2> DEFINE f == [n \in D |-> tls_classes[n][2]]
    <2>1. f \in [D -> Buckets \ {tclass[t][2]}]
      BY <1>0, <1>2, <1>3, <1>4
    <2>2. IsFiniteSet(Buckets) /\ Cardinality(Buckets) <= StaticClasses
      <3>1. 0 \in Int /\ ts_length - 1 \in Int /\ ts_length >= 1 /\ ts_length \in Int
        BY StoreAssumption
      <3>2. /\ IsFiniteSet(0 .. ts_length - 1)
            /\ Cardinality(0 .. ts_length - 1) = IF 0 > ts_length - 1 THEN 0
                                                 ELSE (ts_length - 1) - 0 + 1
        BY <3>1, FS_Interval
      <3>3. QED
        BY <1>6, <3>1, <3>2, StoreAssumption DEF Buckets
    <2>3. PICK m, n \in D : m # n /\ f[m] = f[n]
      <3>1. PICK x \in Buckets : x = tclass[t][2]
        BY <1>0, <1>4
      <3>2. PICK g \in [1 .. StaticClasses -> Buckets] :
              g = f /\ \A n \in 1 .. StaticClasses : g[n] # x
        BY <2>1, <3>1
      <3>3. \E m, n \in 1 .. StaticClasses : m # n /\ g[m] = g[n]
        BY <2>2, <3>1, <3>2, TooManyOthers
      <3>4. QED
        BY <3>2, <3>3
    <2>4. tls_classes[m] = tls_classes[n]
      BY <1>2, <1>4, <2>3
    <2>5. QED
      BY <1>1, <2>3, <2>4
  <1>7. CASE IsFiniteSet(Automata) /\ Cardinality(Automata) <= StaticClasses
    <2> DEFINE f == [n \in D |-> tc_automaton[tls_classes[n]]]
    <2>1. \A b, c \in Buckets : Contents(b) = Contents(c) /\ Contents(b) # NULL => b = c
      BY <1>5 DEF MapInv, MapOK
    <2>2. \A n \in D : f[n] = Contents(tls_classes[n][2]) /\ tls_classes[n][2] \in Buckets
      BY <1>2, <1>4 DEF Contents
    <2>3. f \in [D -> Automata \ {autom[t]}]
      <3>1. ASSUME NEW n \in D PROVE f[n] \in Automata /\ f[n] # autom[t]
        <4>1. f[n] \in Automata
          BY <1>0, <1>2 DEF SharedTypeOK
        <4>2. f[n] = autom[t] => tls_classes[n][2] = tclass[t][2]
          BY <1>0, <1>3, <1>4, <2>1, <2>2
        <4>3. QED
          BY <1>0, <1>2, <1>3, <1>4, <4>1, <4>2
      <3>2. QED
        BY <3>1
    <2>4. autom[t] \in Automata
      BY <1>3 DEF MapInv, Sound, TypeOK, FrameTypeOK
    <2>5. PICK m, n \in D : m # n /\ f[m] = f[n]
      <3>1. PICK x \in Automata : x = autom[t]
        BY <2>4
      <3>2. PICK g \in [1 .. StaticClasses -> Automata] :
              g = f /\ \A n \in 1 .. StaticClasses : g[n] # x
        BY <2>3, <3>1
      <3>3. \E m, n \in 1 .. StaticClasses : m # n /\ g[m] = g[n]
        BY <1>7, <3>1, <3>2, TooManyOthers
      <3>4. QED
        BY <3>2, <3>3
    <2>6. tls_classes[m][2] = tls_classes[n][2]
      BY <1>2, <2>1, <2>2, <2>5
    <2>7. tls_classes[m] = tls_classes[n]
      BY <1>2, <1>4, <2>6
    <2>8. QED
      BY <1>1, <2>5, <2>7
  <1>8. QED
    BY <1>6, <1>7 DEF RoomToRegister

LEMMA StepListOK ==
  ASSUME MapInv, ListOK, NEW t \in Threads, RegistersOK(t), Step(t)
  PROVE  ListOK'
  <1>0. /\ SharedTypeOK /\ FrameTypeOK /\ FrameFits(t) /\ StorePhases /\ CallOK(t)
    BY DEF MapInv, Sound, TypeOK
  <1>1. CASE Register(t)
    <2>1. PICK s \in 1 .. StaticClasses : s = slot[t]
      BY <1>0, <1>1 DEF Register, Goto, FrameFits
    <2>2. PICK c \in Classes : c = tclass[t]
      BY <1>0, <1>1 DEF Register, Goto, FrameFits, Working
    <2>3. /\ tls_classes' = [tls_classes EXCEPT ![s] = c]
          /\ UNCHANGED <<ts_classes, tc_automaton>>
      BY <1>1, <2>1, <2>2 DEF Register, table, classes
    <2>4. /\ tls_classes[s] = NULL /\ c # NULL
          /\ \A m \in 1 .. StaticClasses : m < s => tls_classes[m] # NULL
          /\ \A m \in 1 .. StaticClasses : tls_classes[m] # c
      BY <1>1, <2>1, <2>2, StoreAssumption 
         DEF Register, Goto, RegistersOK, Registering, Listed
    <2>5. c[1] = ts_classes /\ tc_automaton[c] # NULL
      <3>1. /\ autom[t] # NULL /\ c[1] = ts_classes /\ Contents(c[2]) = autom[t]
        BY <1>0, <1>1, <2>2
        DEF Register, Goto, RegistersOK, Registering, CallOK, Has, Working
      <3>2. c = <<c[1], c[2]>>
        BY DEF Classes
      <3>3. QED
        BY <3>1, <3>2 DEF Contents
    <2>6. \A m \in 1 .. StaticClasses :
            tls_classes'[m] = IF m = s THEN c ELSE tls_classes[m]
      BY <1>0, <2>3 DEF SharedTypeOK
    <2>7. ASSUME NEW m \in 1 .. StaticClasses, NEW n \in 1 .. StaticClasses,
                 tls_classes'[n] # NULL
          PROVE  /\ m < n => tls_classes'[m] # NULL
                 /\ m # n => tls_classes'[m] # tls_classes'[n]
      <3>1. CASE n = s
        BY <2>4, <2>6, <3>1, StoreAssumption
      <3>2. CASE n # s
        <4>1. tls_classes[n] # NULL /\ tls_classes'[n] = tls_classes[n]
          BY <2>6, <2>7, <3>2
        <4>2. /\ m < n => tls_classes[m] # NULL
              /\ m # n => tls_classes[m] # tls_classes[n]
          BY <4>1 DEF ListOK
        <4>3. QED
          BY <2>4, <2>6, <4>1, <4>2
      <3>3. QED
        BY <3>1, <3>2
    <2>8. QED
      BY <2>3, <2>5, <2>6, <2>7 DEF ListOK
  <1>2. CASE SunsetEnd(t)
    BY <1>2 DEF SunsetEnd, ListOK
  <1>3. CASE UNCHANGED tls_classes
    <2>1. CASE Initialising(t)
      BY <1>0, <1>3, <2>1 DEF StorePhases, InitialisesAlone, ListOK
    <2>2. CASE ~Initialising(t)
      <3>1. UNCHANGED ts_classes
        BY <2>2, WhoMakesTheStore
        DEF InitLength, InitTable, InitClass, Initialising, Goto
      <3>2. ASSUME NEW c \in Classes, tc_automaton[c] # NULL
            PROVE  tc_automaton'[c] # NULL
        <4>1. CASE Claim(t)
          <5>1. tclass[t] \in Classes /\ autom[t] \in Automata
            BY <1>0, <4>1 DEF Claim, Goto, FrameFits
          <5>2. QED
            BY <1>0, <3>2, <4>1, <5>1, StoreAssumption DEF Claim, SharedTypeOK
        <4>2. QED
          BY <3>2, <4>1, WhoClaims
      <3>3. \A n \in 1 .. StaticClasses : tls_classes[n] \in Classes \cup {NULL}
        BY <1>0 DEF SharedTypeOK
      <3>4. QED
        BY <1>3, <3>1, <3>2, <3>3 DEF ListOK
    <2>3. QED
      BY <2>1, <2>2
  <1>4. QED
    BY <1>1, <1>2, <1>3, WhoRegisters

\* A step that writes neither the list nor the instances, outside of a
\* registration, and moves no sunset along.
LEMMA RegistrationKept ==
  ASSUME RegistrationOK, UNCHANGED <<tls_classes, has_instances>>, NEW t \in Threads,
         \A u \in Threads \ {t} :
           /\ pc'[u] = pc[u] /\ autom'[u] = autom[u] /\ i'[u] = i[u]
           /\ slot'[u] = slot[u] /\ tclass'[u] = tclass[u]
           /\ AtSunset(u)' <=> AtSunset(u)
           /\ Registering(u)' <=> Registering(u),
         AtSunset(t)' <=> AtSunset(t), ~Registering(t), ~Registering(t)',
         AtSunset(t) => /\ i'[t] = i[t] /\ tclass'[t] = tclass[t]
                        /\ pc'[t] # "sunset" => pc[t] # "sunset"
  PROVE  RegistrationOK'
  <1>1. \A c : Listed(c)' <=> Listed(c)
    BY DEF Listed
  <1>2. InstancesOK'
    <2>1. ASSUME NEW c \in Classes, has_instances'[c]
          PROVE  Listed(c)' \/ \E u \in Threads : Registering(u)' /\ tclass'[u] = c
      <3>1. CASE Listed(c)
        BY <1>1, <3>1
      <3>2. CASE ~Listed(c)
        <4>1. PICK u \in Threads : Registering(u) /\ tclass[u] = c
          BY <2>1, <3>2 DEF RegistrationOK, InstancesOK
        <4>2. u # t
          BY <4>1
        <4>3. QED
          BY <4>1, <4>2
      <3>3. QED
        BY <3>1, <3>2
    <2>2. ASSUME NEW n \in 1 .. StaticClasses, tls_classes'[n] # NULL
          PROVE  has_instances'[tls_classes'[n]]
                   <=> \A u \in Threads : AtSunset(u)' => n >= i'[u]
      <3>1. ASSUME NEW u \in Threads
            PROVE  (AtSunset(u)' => n >= i'[u]) <=> (AtSunset(u) => n >= i[u])
        BY DEF RegistrationOK
      <3>2. has_instances[tls_classes[n]] <=> \A u \in Threads : AtSunset(u) => n >= i[u]
        BY <2>2 DEF RegistrationOK, InstancesOK
      <3>3. QED
        BY <3>1, <3>2
    <2>3. QED
      BY <2>1, <2>2 DEF InstancesOK
  <1>3. RegistersApart'
    <2>1. \A u \in Threads : (AtSunset(u)' <=> AtSunset(u)) /\ (Registering(u)' <=> Registering(u))
      OBVIOUS
    <2>2. \A u \in Threads : pc'[u] = "register" => pc[u] = "register"
      BY DEF Registering
    <2>3. QED
      BY <2>1, <2>2 DEF RegistrationOK, RegistersApart
  <1>4. RegistersOK(t)'
    <2>1. pc'[t] # "register"
      BY DEF Registering
    <2>2. QED
      BY <2>1 DEF RegistrationOK, RegistersOK
  <1>5. ASSUME NEW u \in Threads \ {t} PROVE RegistersOK(u)'
    <2>1. RegistersOK(u) /\ (Listed(tclass[u])' <=> Listed(tclass[u]))
      BY <1>5 DEF RegistrationOK, Listed
    <2>2. QED
      BY <2>1 DEF RegistersOK
  <1>6. QED
    BY <1>2, <1>3, <1>4, <1>5 DEF RegistrationOK

LEMMA StepRegistration ==
  ASSUME RoomToRegister, ListInv, NEW t \in Threads, Step(t), contended' = {}
  PROVE  RegistrationOK'
  <1> DEFINE D == 1 .. StaticClasses
  <1>0. /\ SharedTypeOK /\ FrameTypeOK /\ FrameFits(t) /\ StorePhases /\ CallOK(t)
        /\ pc \in [Threads -> PCs] /\ i \in [Threads -> Nat]
        /\ autom \in [Threads -> Automata \cup {NULL}] /\ slot \in [Threads -> Nat]
        /\ tclass \in [Threads -> Classes \cup {NULL}]
        /\ has_instances \in [Classes -> BOOLEAN]
        /\ tls_classes \in [D -> Classes \cup {NULL}]
        /\ MapInv /\ ListOK /\ TypeOK /\ Locked
    BY DEF ListInv, MapInv, Sound, TypeOK, FrameTypeOK, SharedTypeOK
  <1>1. /\ RegistrationOK /\ InstancesOK /\ RegistersApart
        /\ \A u \in Threads : RegistersOK(u)
    BY DEF ListInv, RegistrationOK
  <1>2. \A u \in Threads \ {t} :
          /\ pc'[u] = pc[u] /\ autom'[u] = autom[u] /\ i'[u] = i[u]
          /\ slot'[u] = slot[u] /\ tclass'[u] = tclass[u]
          /\ AtSunset(u)' <=> AtSunset(u)
          /\ Registering(u)' <=> Registering(u)
    BY <1>0, OthersStay DEF Step, AtSunset, Working, Registering
  <1>3. CASE \/ \E a \in Automata : tesla_store_get(t, a)
             \/ InitLength(t) \/ InitTable(t) \/ ProbeFaults(t) \/ ProbeCollision(t)
             \/ ProbeFound(t) \/ ProbeEmpty(t) \/ Claim(t) \/ ProbeFull(t)
             \/ AcquireUninitialised(t)
    <2>1. /\ pc[t] \notin {"update", "find", "register", "scan", "sunset"}
          /\ pc'[t] \notin {"update", "find", "register", "scan", "sunset"}
          /\ UNCHANGED <<tls_classes, has_instances>>
      BY <1>0, <1>3
      DEF tesla_store_get, InitLength, InitTable, ProbeFaults, ProbeCollision,
          ProbeFound, ProbeEmpty, Claim, ProbeFull, AcquireUninitialised, Goto,
          shared, classes
    <2>2. /\ ~AtSunset(t) /\ ~AtSunset(t)' /\ ~Registering(t) /\ ~Registering(t)'
      BY <2>1 DEF AtSunset, Working, Registering
    <2>3. QED
      BY <1>1, <1>2, <2>1, <2>2, RegistrationKept
  <1>4. CASE InitClass(t)
    <2>1. /\ pc[t] = "init_classes" /\ pc'[t] \in {"init_classes", "probe"}
          /\ UNCHANGED tls_classes
          /\ \A n \in D : tls_classes[n] = NULL
          /\ \A u \in Threads \ {t} : pc[u] \in {"idle", "sunset"}
      BY <1>0, <1>4 DEF InitClass, StorePhases, InitialisesAlone, Initialising
    <2>2. \A u \in Threads : pc[u] \notin {"find", "register"}
      BY <2>1
    <2>3. \A c \in Classes : ~has_instances[c]
      BY <1>1, <2>1, <2>2, StoreAssumption DEF InstancesOK, Listed, Registering
    <2>4. \A c \in Classes : ~has_instances'[c]
      BY <1>0, <1>4, <2>3 DEF InitClass
    <2>5. \A u \in Threads : ~Registering(u)' /\ pc'[u] # "register"
      BY <1>2, <2>1, <2>2 DEF Registering
    <2>6. InstancesOK'
      BY <2>1, <2>4 DEF InstancesOK
    <2>7. ~AtSunset(t)'
      BY <2>1 DEF AtSunset, Working
    <2>8. RegistersApart'
      BY <1>1, <1>2, <2>5, <2>7 DEF RegistersApart
    <2>9. \A u \in Threads : AtSunset(u)' => pc'[u] = "sunset"
      BY <1>2, <2>1, <2>7 DEF AtSunset, Working
    <2>10. \A u \in Threads : RegistersOK(u)'
      BY <2>5, <2>9 DEF RegistersOK
    <2>11. QED
      BY <2>6, <2>8, <2>10 DEF RegistrationOK
  <1>5. CASE Acquire(t) \/ UpdateExisting(t) \/ Release(t)
    <2>1. /\ pc[t] \in {"acquire", "update", "scan"}
          /\ pc'[t] \in {"update", "scan", "idle"}
          /\ UNCHANGED <<tls_classes, has_instances>>
      BY <1>0, <1>5 DEF Acquire, UpdateExisting, Release, Goto, shared, classes
    <2>2. ~Registering(t) /\ ~Registering(t)'
      BY <2>1 DEF Registering
    <2>3. CASE UpdateExisting(t)
      <3>1. /\ pc[t] = "update" /\ pc'[t] = "scan" /\ autom'[t] = autom[t]
            /\ i'[t] = i[t] /\ tclass'[t] = tclass[t]
        BY <1>0, <2>3 DEF UpdateExisting, Goto, frame
      <3>2. AtSunset(t)' <=> AtSunset(t)
        BY <3>1 DEF AtSunset, Working
      <3>3. QED
        BY <1>1, <1>2, <2>1, <2>2, <3>1, <3>2, RegistrationKept
    <2>4. CASE Acquire(t)
      <3>1. pc[t] = "acquire" /\ autom'[t] = autom[t] /\ autom[t] # NULL /\ pc'[t] = "update"
        BY <1>0, <2>4, StoreAssumption DEF Acquire, Goto, frame, FrameFits
      <3>2. ~AtSunset(t) /\ ~AtSunset(t)'
        BY <3>1 DEF AtSunset, Working
      <3>3. QED
        BY <1>1, <1>2, <2>1, <2>2, <3>2, RegistrationKept
    <2>5. CASE Release(t)
      <3>1. pc[t] = "scan" /\ autom[t] # NULL /\ pc'[t] = "idle"
        BY <1>0, <2>5 DEF Release, Goto
      <3>2. ~AtSunset(t) /\ ~AtSunset(t)'
        BY <3>1 DEF AtSunset, Working
      <3>3. QED
        BY <1>1, <1>2, <2>1, <2>2, <3>2, RegistrationKept
    <2>6. QED
      BY <1>5, <2>3, <2>4, <2>5
  <1>6. CASE LateInit(t)
    <2>1. PICK c \in Classes : c = tclass[t]
      BY <1>0, <1>6 DEF LateInit, Goto, FrameFits, Working
    <2>2. /\ pc[t] = "update" /\ pc'[t] = "find" /\ UNCHANGED tls_classes
          /\ has_instances' = [has_instances EXCEPT ![c] = TRUE] /\ ~has_instances[c]
          /\ slot'[t] = 1 /\ autom'[t] = autom[t] /\ tclass'[t] = c
      BY <1>0, <1>6, <2>1 DEF LateInit, Goto
    <2>3. \A u \in Threads \ {t} : ~AtSunset(u)
      BY <1>6 DEF LateInit, Contend
    <2>4. ~AtSunset(t)
      <3> SUFFICES ASSUME AtSunset(t) PROVE FALSE
        OBVIOUS
      <3>1. i[t] \in D /\ c = tls_classes[i[t]]
        BY <1>1, <2>1, <2>2 DEF RegistersOK
      <3>2. c # NULL /\ \A u \in Threads : AtSunset(u) => i[t] >= i[u]
        BY <1>0, <2>3, <3>1, StoreAssumption
      <3>3. has_instances[c]
        BY <1>1, <3>1, <3>2 DEF InstancesOK
      <3>4. QED
        BY <2>2, <3>3
    <2>5. autom[t] # NULL /\ ~AtSunset(t)' /\ Registering(t)' /\ ~Registering(t)
      BY <2>2, <2>4 DEF AtSunset, Working, Registering
    <2>6. \A u \in Threads : ~AtSunset(u) /\ ~AtSunset(u)'
      BY <1>2, <2>3, <2>4, <2>5
    <2>7. ~Listed(c)
      BY <1>1, <2>2, <2>6, StoreAssumption DEF InstancesOK, Listed
    <2>8. \A d \in Classes : has_instances'[d] = IF d = c THEN TRUE ELSE has_instances[d]
      BY <1>0, <2>2
    <2>9. \A d : Listed(d)' <=> Listed(d)
      BY <2>2 DEF Listed
    <2>10. InstancesOK'
      <3>1. ASSUME NEW d \in Classes, has_instances'[d]
            PROVE  Listed(d)' \/ \E u \in Threads : Registering(u)' /\ tclass'[u] = d
        <4>1. CASE d = c
          BY <2>2, <2>5, <4>1
        <4>2. CASE d # c
          <5>1. Listed(d) \/ \E u \in Threads : Registering(u) /\ tclass[u] = d
            BY <1>1, <2>8, <3>1, <4>2 DEF InstancesOK
          <5>2. QED
            BY <1>2, <2>5, <2>9, <5>1
        <4>3. QED
          BY <4>1, <4>2
      <3>2. \A n \in D : tls_classes'[n] # NULL => has_instances'[tls_classes'[n]]
        BY <1>0, <1>1, <2>2, <2>6, <2>8 DEF InstancesOK
      <3>3. QED
        BY <2>6, <3>1, <3>2 DEF InstancesOK
    <2>11. RegistersApart'
      BY <1>1, <1>2, <2>2, <2>6 DEF RegistersApart
    <2>12. RegistersOK(t)'
      <3>1. ~Listed(tclass[t])' /\ has_instances'[tclass'[t]]
        BY <2>2, <2>7, <2>8 DEF Listed
      <3>2. \A m \in D : ~(m < slot'[t])
        BY <2>2, StoreAssumption
      <3>3. QED
        BY <2>2, <2>5, <3>1, <3>2 DEF RegistersOK
    <2>13. ASSUME NEW u \in Threads \ {t} PROVE RegistersOK(u)'
      <3>1. RegistersOK(u) /\ (Listed(tclass[u])' <=> Listed(tclass[u]))
        BY <1>1, <1>2, <2>2 DEF Listed
      <3>2. Registering(u) => tclass[u] \in Classes /\ has_instances'[tclass[u]]
        <4>1. Registering(u) => tclass[u] \in Classes
          BY <1>0 DEF TypeOK, FrameFits, Working, Registering
        <4>2. QED
          BY <2>8, <3>1, <4>1 DEF RegistersOK
      <3>3. QED
        BY <1>2, <2>2, <2>6, <3>1, <3>2 DEF RegistersOK
    <2>14. QED
      BY <2>10, <2>11, <2>12, <2>13 DEF RegistrationOK
  <1>7. CASE FindTaken(t) \/ FindFree(t)
    <2>1. /\ pc[t] = "find" /\ pc'[t] \in {"find", "register"}
          /\ slot[t] \in D /\ autom'[t] = autom[t] /\ tclass'[t] = tclass[t]
          /\ i'[t] = i[t] /\ UNCHANGED <<tls_classes, has_instances>>
          /\ pc'[t] = "find" => slot'[t] = slot[t] + 1 /\ tls_classes[slot[t]] # NULL
          /\ pc'[t] = "register" => /\ slot'[t] = slot[t] /\ tls_classes[slot[t]] = NULL
                                    /\ FindFree(t)
      <3>1. pc[t] = "find" /\ slot[t] <= StaticClasses
        BY <1>7 DEF FindTaken, FindFree, Goto
      <3>2. slot[t] \in D
        BY <1>0, <3>1, StoreAssumption DEF FrameFits
      <3>3. CASE FindTaken(t)
        BY <1>0, <3>2, <3>3 DEF FindTaken, shared, classes
      <3>4. CASE FindFree(t)
        BY <1>0, <3>2, <3>4 DEF FindFree, Goto, classes, frame
      <3>5. QED
        BY <1>7, <3>3, <3>4
    <2>2. \A m \in D : m < slot'[t] => m < slot[t] \/ (m = slot[t] /\ pc'[t] = "find")
      BY <2>1, StoreAssumption
    <2>3. \A m \in D : m < slot[t] => tls_classes[m] # NULL
      BY <1>1, <2>1 DEF RegistersOK, Registering
    <2>4. Registering(t) /\ Registering(t)' /\ autom[t] # NULL
      BY <1>1, <2>1 DEF Registering, RegistersOK
    <2>5. ~AtSunset(t) /\ ~AtSunset(t)'
      BY <2>1, <2>4 DEF AtSunset
    <2>6. \A u \in Threads :
            /\ (AtSunset(u)' <=> AtSunset(u)) /\ (Registering(u)' <=> Registering(u))
            /\ tclass'[u] = tclass[u] /\ i'[u] = i[u]
      BY <1>2, <2>1, <2>4, <2>5
    <2>7. InstancesOK'
      <3>1. \A c : Listed(c)' <=> Listed(c)
        BY <2>1 DEF Listed
      <3>2. QED
        BY <1>1, <2>1, <2>6, <3>1 DEF InstancesOK
    <2>8. ASSUME pc'[t] = "register", NEW u \in Threads \ {t}, pc[u] = "register"
          PROVE  FALSE
      <3>1. slot[u] # slot[t]
        BY <2>1, <2>8 DEF FindFree, Contend
      <3>2. slot[u] \in D /\ tls_classes[slot[u]] = NULL
            /\ \A m \in D : m < slot[u] => tls_classes[m] # NULL
        BY <1>0, <1>1, <2>8 DEF RegistersOK, Registering, TypeOK, FrameFits
      <3>3. slot[u] < slot[t] \/ slot[t] < slot[u]
        BY <2>1, <3>1, <3>2, StoreAssumption
      <3>4. QED
        BY <2>1, <2>3, <2>8, <3>2, <3>3
    <2>9. RegistersApart'
      BY <1>1, <1>2, <2>6, <2>8 DEF RegistersApart
    <2>10. RegistersOK(t)'
      <3>1. \A m \in D : m < slot'[t] => tls_classes'[m] # NULL
        BY <2>1, <2>2, <2>3
      <3>2. ~Listed(tclass[t])' /\ has_instances'[tclass'[t]]
        BY <1>1, <2>1, <2>4 DEF RegistersOK, Listed
      <3>3. QED
        BY <2>1, <2>4, <2>5, <3>1, <3>2 DEF RegistersOK
    <2>11. ASSUME NEW u \in Threads \ {t} PROVE RegistersOK(u)'
      <3>1. RegistersOK(u) /\ (Listed(tclass[u])' <=> Listed(tclass[u]))
        BY <1>1, <1>2, <2>1 DEF Listed
      <3>2. QED
        BY <1>2, <2>1, <3>1 DEF RegistersOK
    <2>12. QED
      BY <2>7, <2>9, <2>10, <2>11 DEF RegistrationOK
  <1>8. ~FindNone(t)
    <2> SUFFICES ASSUME pc[t] = "find", slot[t] > StaticClasses PROVE FALSE
      BY DEF FindNone, Goto
    <2>1. PICK n \in D : tls_classes[n] = NULL
      BY <1>0, <1>1, NeverFull
    <2>2. n < slot[t]
      BY <1>0, StoreAssumption
    <2>3. QED
      BY <1>1, <2>1, <2>2 DEF RegistersOK, Registering
  <1>9. CASE Register(t)
    <2>1. PICK s \in D : s = slot[t]
      BY <1>0, <1>9 DEF Register, Goto, FrameFits
    <2>2. PICK c \in Classes : c = tclass[t]
      BY <1>0, <1>9 DEF Register, Goto, FrameFits, Working
    <2>3. /\ pc[t] = "register" /\ pc'[t] = "scan" /\ autom'[t] = autom[t]
          /\ tls_classes' = [tls_classes EXCEPT ![s] = c]
          /\ UNCHANGED has_instances
      BY <1>0, <1>9, <2>1, <2>2 DEF Register, Goto, classes, frame
    <2>4. tls_classes[s] = NULL /\ has_instances[c] /\ autom[t] # NULL /\ Registering(t)
      BY <1>1, <2>1, <2>2, <2>3 DEF RegistersOK, Registering
    <2>5. \A u \in Threads : ~AtSunset(u) /\ ~AtSunset(u)'
      <3>1. ~AtSunset(t) /\ ~AtSunset(t)'
        BY <2>3, <2>4 DEF AtSunset
      <3>2. \A u \in Threads \ {t} : ~AtSunset(u)
        BY <1>1, <2>4 DEF RegistersApart
      <3>3. QED
        BY <1>2, <3>1, <3>2
    <2>6. \A n \in D : tls_classes'[n] = IF n = s THEN c ELSE tls_classes[n]
      BY <1>0, <2>3
    <2>7. \A n \in D : tls_classes'[n] # NULL => has_instances[tls_classes'[n]]
      BY <1>1, <2>4, <2>5, <2>6 DEF InstancesOK
    <2>8. \A d \in Classes : Listed(d) => Listed(d)'
      BY <2>4, <2>6, StoreAssumption DEF Listed
    <2>9. ASSUME NEW d \in Classes, has_instances[d]
          PROVE  Listed(d)' \/ \E u \in Threads : Registering(u)' /\ tclass'[u] = d
      <3>1. CASE d = c
        BY <2>6, <3>1 DEF Listed
      <3>2. CASE d # c /\ ~Listed(d)
        <4>1. PICK u \in Threads : Registering(u) /\ tclass[u] = d
          BY <1>1, <2>9, <3>2 DEF InstancesOK
        <4>2. u # t
          BY <2>2, <3>2, <4>1
        <4>3. QED
          BY <1>2, <4>1, <4>2
      <3>3. QED
        BY <2>8, <3>1, <3>2
    <2>10. InstancesOK'
      BY <2>3, <2>5, <2>7, <2>9 DEF InstancesOK
    <2>11. RegistersApart'
      BY <1>1, <1>2, <2>3, <2>5 DEF RegistersApart
    <2>12. RegistersOK(t)'
      BY <2>3, <2>5 DEF RegistersOK, Registering
    <2>13. ASSUME NEW u \in Threads \ {t} PROVE RegistersOK(u)'
      <3>1. RegistersOK(u) /\ pc[u] # "register"
        BY <1>1, <2>3 DEF RegistersApart
      <3>2. ASSUME Registering(u) PROVE ~Listed(tclass[u])'
        <4>1. tc_lock[tclass[u]] = u /\ tc_lock[tclass[t]] = t
          BY <1>0, <2>4, <2>5, <3>2 DEF Locked, Working, Registering
        <4>2. tclass[u] # c /\ ~Listed(tclass[u])
          BY <2>2, <3>1, <3>2, <4>1 DEF RegistersOK
        <4>3. QED
          BY <1>2, <2>6, <4>2 DEF Listed
      <3>3. ASSUME Registering(u), NEW m \in D, m < slot[u] PROVE tls_classes'[m] # NULL
        BY <2>2, <2>6, <3>1, <3>3, StoreAssumption DEF RegistersOK
      <3>4. QED
        BY <1>2, <2>3, <2>5, <3>1, <3>2, <3>3 DEF RegistersOK
    <2>14. QED
      BY <2>10, <2>11, <2>12, <2>13 DEF RegistrationOK
  <1>10. CASE SunsetBegin(t)
    <2>1. /\ pc[t] = "idle" /\ pc'[t] = "sunset" /\ i'[t] = 1
          /\ UNCHANGED <<tls_classes, has_instances>>
      BY <1>0, <1>10 DEF SunsetBegin, Goto, classes
    <2>2. \A u \in Threads \ {t} : ~AtSunset(u) /\ ~Registering(u)
      BY <1>10 DEF SunsetBegin, Contend, Registering
    <2>3. \A u \in Threads : ~AtSunset(u) /\ ~Registering(u)
      BY <2>1, <2>2 DEF AtSunset, Working, Registering
    <2>4. \A u \in Threads : ~Registering(u)' /\ (AtSunset(u)' <=> u = t)
      BY <1>2, <2>1, <2>2 DEF AtSunset, Registering
    <2>5. \A n \in D : n >= i'[t]
      BY <2>1, StoreAssumption
    <2>6. InstancesOK'
      <3>1. \A c \in Classes : has_instances[c] => Listed(c)'
        BY <1>1, <2>1, <2>3 DEF InstancesOK, Listed
      <3>2. \A n \in D : tls_classes[n] # NULL => has_instances[tls_classes[n]]
        BY <1>1, <2>3 DEF InstancesOK
      <3>3. QED
        BY <2>1, <2>4, <2>5, <3>1, <3>2 DEF InstancesOK
    <2>7. RegistersApart'
      BY <2>4 DEF RegistersApart, Registering
    <2>8. \A u \in Threads : RegistersOK(u)'
      BY <2>1, <2>4 DEF RegistersOK, Registering
    <2>9. QED
      BY <2>6, <2>7, <2>8 DEF RegistrationOK
  <1>11. CASE SunsetVisit(t)
    <2>1. /\ pc[t] = "sunset" /\ pc'[t] = "update" /\ i'[t] = i[t]
          /\ i[t] \in D /\ tclass'[t] = tls_classes[i[t]]
          /\ autom[t] = NULL /\ autom'[t] = NULL
          /\ UNCHANGED <<tls_classes, has_instances>>
      BY <1>0, <1>11, StoreAssumption
      DEF SunsetVisit, Goto, shared, classes, FrameFits
    <2>2. AtSunset(t) /\ AtSunset(t)' /\ ~Registering(t) /\ ~Registering(t)'
      BY <2>1 DEF AtSunset, Working, Registering
    <2>3. \A u \in Threads \ {t} : ~AtSunset(u) /\ ~Registering(u)
      BY <1>1, <2>2 DEF RegistersApart
    <2>4. \A u \in Threads : ~Registering(u)' /\ (AtSunset(u)' <=> u = t)
      BY <1>2, <2>2, <2>3
    <2>5. InstancesOK'
      <3>1. \A c \in Classes : has_instances[c] => Listed(c)'
        BY <1>1, <2>1, <2>2, <2>3 DEF InstancesOK, Listed
      <3>2. \A n \in D : tls_classes[n] # NULL => (has_instances[tls_classes[n]] <=> n >= i[t])
        BY <1>1, <2>2, <2>3 DEF InstancesOK
      <3>3. QED
        BY <2>1, <2>4, <3>1, <3>2 DEF InstancesOK
    <2>6. RegistersApart'
      BY <2>4 DEF RegistersApart, Registering
    <2>7. \A u \in Threads : RegistersOK(u)'
      BY <2>1, <2>4 DEF RegistersOK, Registering
    <2>8. QED
      BY <2>5, <2>6, <2>7 DEF RegistrationOK
  <1>12. CASE SunsetLeave(t)
    <2>1. /\ pc[t] = "scan" /\ pc'[t] = "sunset" /\ i'[t] = i[t] + 1
          /\ autom[t] = NULL /\ UNCHANGED tls_classes
          /\ has_instances' = [has_instances EXCEPT ![tclass[t]] = FALSE]
      BY <1>0, <1>12 DEF SunsetLeave, Goto
    <2>2. AtSunset(t) /\ AtSunset(t)' /\ ~Registering(t) /\ ~Registering(t)'
      BY <2>1 DEF AtSunset, Working, Registering
    <2>3. \A u \in Threads \ {t} : ~AtSunset(u) /\ ~Registering(u)
      BY <1>1, <2>2 DEF RegistersApart
    <2>4. \A u \in Threads : ~Registering(u)' /\ (AtSunset(u)' <=> u = t)
      BY <1>2, <2>2, <2>3
    <2>5. i[t] \in D /\ tclass[t] = tls_classes[i[t]] /\ tclass[t] \in Classes
      BY <1>0, <1>1, <2>1, <2>2 DEF RegistersOK, FrameFits, Working
    <2>6. \A d \in Classes :
            has_instances'[d] = IF d = tclass[t] THEN FALSE ELSE has_instances[d]
      BY <1>0, <2>1, <2>5
    <2>7. ASSUME NEW n \in D, tls_classes[n] # NULL
          PROVE  has_instances'[tls_classes[n]] <=> n >= i'[t]
      <3>1. tls_classes[n] \in Classes
        BY <1>0, <2>7
      <3>2. CASE n = i[t]
        <4>1. has_instances'[tls_classes[n]] = FALSE
          BY <2>5, <2>6, <3>1, <3>2
        <4>2. ~(n >= i'[t])
          BY <2>1, <2>5, <3>2, StoreAssumption
        <4>3. QED
          BY <4>1, <4>2
      <3>3. CASE n # i[t]
        <4>1. tls_classes[n] # tclass[t]
          BY <1>0, <2>5, <2>7, <3>3 DEF ListOK
        <4>2. has_instances[tls_classes[n]] <=> n >= i[t]
          BY <1>1, <2>2, <2>3, <2>7 DEF InstancesOK
        <4>3. n >= i[t] <=> n >= i[t] + 1
          BY <2>5, <3>3, StoreAssumption
        <4>4. QED
          BY <2>1, <2>6, <3>1, <4>1, <4>2, <4>3
      <3>4. QED
        BY <3>2, <3>3
    <2>8. \A d \in Classes : has_instances'[d] => Listed(d)'
      BY <1>1, <2>1, <2>2, <2>3, <2>6 DEF InstancesOK, Listed
    <2>9. InstancesOK'
      BY <2>1, <2>4, <2>7, <2>8 DEF InstancesOK
    <2>10. RegistersApart'
      BY <2>4 DEF RegistersApart, Registering
    <2>11. \A u \in Threads : RegistersOK(u)'
      BY <2>1, <2>4 DEF RegistersOK, Registering
    <2>12. QED
      BY <2>9, <2>10, <2>11 DEF RegistrationOK
  <1>13. CASE SunsetEnd(t)
    <2>1. /\ pc[t] = "sunset" /\ pc'[t] = "idle" /\ UNCHANGED has_instances
          /\ \A n \in D : tls_classes'[n] = NULL
          /\ ~(i[t] <= StaticClasses /\ tls_classes[i[t]] # NULL)
      BY <1>0, <1>13 DEF SunsetEnd, Goto, classes
    <2>2. /\ i[t] \in Nat /\ i[t] # 0 /\ AtSunset(t) /\ ~AtSunset(t)'
          /\ ~Registering(t) /\ ~Registering(t)'
      BY <1>0, <2>1 DEF FrameFits, AtSunset, Working, Registering
    <2>3. \A u \in Threads \ {t} : ~AtSunset(u) /\ ~Registering(u)
      BY <1>1, <2>2 DEF RegistersApart
    <2>4. \A u \in Threads : ~Registering(u)' /\ ~AtSunset(u)'
      BY <1>2, <2>2, <2>3
    <2>5. ASSUME NEW d \in Classes, has_instances[d] PROVE FALSE
      <3>1. PICK n \in D : tls_classes[n] = d
        BY <1>1, <2>2, <2>3, <2>5 DEF InstancesOK, Listed
      <3>2. d # NULL /\ n >= i[t]
        BY <1>1, <2>2, <2>5, <3>1, StoreAssumption DEF InstancesOK
      <3>3. i[t] \in D
        BY <2>2, <3>2, StoreAssumption
      <3>4. i[t] < n \/ i[t] = n
        BY <3>2, <3>3, StoreAssumption
      <3>5. tls_classes[i[t]] # NULL
        BY <1>0, <3>1, <3>2, <3>3, <3>4 DEF ListOK
      <3>6. QED
        BY <2>1, <3>3, <3>5, StoreAssumption
    <2>6. InstancesOK'
      BY <2>1, <2>5 DEF InstancesOK
    <2>7. RegistersApart'
      BY <2>4 DEF RegistersApart, Registering
    <2>8. \A u \in Threads : RegistersOK(u)'
      BY <2>4 DEF RegistersOK, Registering
    <2>9. QED
      BY <2>6, <2>7, <2>8 DEF RegistrationOK
  <1>14. QED
    BY <1>3, <1>4, <1>5, <1>6, <1>7, <1>8, <1>9, <1>10, <1>11, <1>12, <1>13
    DEF Step, Run, Sunset

LEMMA ListInvariant ==
  ASSUME RoomToRegister PROVE Spec => [](~raced /\ contended = {} => ListInv)
  <1> DEFINE Inv == ~raced /\ contended = {} => ListInv
  <1>1. Init => Inv
    <2> SUFFICES ASSUME Init PROVE ListInv
      OBVIOUS
    <2>1. ListOK /\ Locked
      BY DEF Init, ListOK, Locked, Working
    <2>2. \A t \in Threads : ~AtSunset(t) /\ ~Registering(t)
      BY DEF Init, AtSunset, Registering, Working
    <2>3. InstancesOK /\ RegistersApart
      BY <2>2 DEF Init, InstancesOK, RegistersApart
    <2>4. \A t \in Threads : RegistersOK(t)
      BY <2>2 DEF Init, RegistersOK
    <2>5. QED
      BY <2>1, <2>3, <2>4, InitMapInv DEF ListInv, RegistrationOK
  <1>2. Inv /\ [Next]_vars => Inv'
    <2> SUFFICES ASSUME Inv, [Next]_vars, ~raced', contended' = {} PROVE ListInv'
      OBVIOUS
    <2>1. ListInv
      BY RacedStays, ContendedStays
    <2>2. ASSUME NEW t \in Threads, Step(t) PROVE ListInv'
      <3>1. MapInv' /\ RegistrationOK'
        BY <2>1, <2>2, StepMapInv, StepRegistration DEF ListInv
      <3>2. Locked'
        BY <2>1, <2>2, StepLocked DEF ListInv, MapInv, Sound
      <3>3. ListOK'
        BY <2>1, <2>2, StepListOK DEF ListInv, RegistrationOK
      <3>4. QED
        BY <3>1, <3>2, <3>3 DEF ListInv
    <2>3. CASE UNCHANGED vars
      <3>1. UNCHANGED <<tls_classes, has_instances, ts_classes, tc_automaton, pc,
                        autom, i, slot, tclass, tc_lock>>
        BY <2>3 DEF vars, shared, table, classes, frame
      <3>2. ListOK' /\ Locked'
        BY <2>1, <3>1 DEF ListInv, ListOK, Locked, AtSunset, Working
      <3>3. RegistrationOK'
        BY <2>1, <3>1
        DEF ListInv, RegistrationOK, InstancesOK, RegistersApart, RegistersOK,
            Registering, Listed, AtSunset, Working
      <3>4. QED
        BY <2>1, <2>3, <3>2, <3>3, UnchangedMapInv DEF ListInv
    <2>4. QED
      BY <2>2, <2>3, Steps
  <1>3. QED
    BY <1>1, <1>2, PTL DEF Spec

\* "Register this class for eventual cleanup": for any number of threads, and a
\* list that has room for the classes or for the automata, every class that
\* has instances while no call is under way is in the list, and none of the
\* entries before it is empty, which is where tesla_sunset would stop; unless
\* two threads met in one of the ways that contended records.
THEOREM RegisteredForCleanup ==
  ASSUME RoomToRegister
  PROVE  Spec => []InstancesAreRegistered
  <1>1. (~raced /\ contended = {} => ListInv) => InstancesAreRegistered
    <2> SUFFICES ASSUME ListInv, \A t \in Threads : pc[t] = "idle",
                        NEW c \in Classes, has_instances[c]
                 PROVE  \E n \in 1 .. StaticClasses :
                          tls_classes[n] = c /\ \A m \in 1 .. n - 1 : tls_classes[m] # NULL
      BY DEF InstancesAreRegistered
    <2>1. Listed(c)
      BY DEF ListInv, RegistrationOK, InstancesOK, Registering
    <2>2. PICK n \in 1 .. StaticClasses : tls_classes[n] = c
      BY <2>1 DEF Listed
    <2>3. c # NULL
      BY StoreAssumption
    <2>4. ASSUME NEW m \in 1 .. n - 1 PROVE tls_classes[m] # NULL
      <3>1. m \in 1 .. StaticClasses /\ m < n
        BY StoreAssumption
      <3>2. QED
        BY <2>2, <2>3, <3>1 DEF ListInv, ListOK
    <2>5. QED
      BY <2>2, <2>4
  <1>2. QED
    BY <1>1, ListInvariant, PTL
=============================================================================
