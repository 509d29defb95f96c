------------------------- MODULE ThreadStoreProofs --------------------------
(***************************************************************************)
(* The stores of threads, for any finite set of threads and any number of  *)
(* rounds of destructors: a thread has one store at a time, what can go    *)
(* wrong is what FaultIsExplained says, and only tables of classes leak.   *)
(*                                                                         *)
(* The inductive invariant extends that of pthread_key (IInv): where a     *)
(* thread is in tesla_store_get and what it knows then, that the live      *)
(* stores are exactly the registered ones, what the cache may still hold,  *)
(* and how many stores the rounds of destructors can have made.            *)
(***************************************************************************)
EXTENDS ThreadStore, FiniteSetTheorems, TLAPS

-----------------------------------------------------------------------------
(* pthread_key(), for any set of threads *)

LEMMA InitIInv == Init => IInv
  BY DEF Init, IInv, TypeOK, CriticalSection, KeyFollowsPhase, ReturnsTheKey

\* Every step of every thread preserves the inductive invariant.
LEMMA NextIInv == IInv /\ [Next]_vars => IInv'
  <1> SUFFICES ASSUME IInv, [Next]_vars
               PROVE  IInv'
    OBVIOUS
  <1> USE ThreadsAssumption
  <1>1. CASE UNCHANGED vars
    BY <1>1 DEF vars, IInv, TypeOK, CriticalSection, KeyFollowsPhase,
                ReturnsTheKey
  <1>2. ASSUME NEW t \in Threads, Call(t) \/ Run(t)
        PROVE  IInv'
    <2> USE DEF IInv, TypeOK, CriticalSection, KeyFollowsPhase,
                ReturnsTheKey, Goto, ReturnKey
    <2>1. CASE Call(t)               BY <2>1 DEF Call
    <2>2. CASE CheckInitialised(t)   BY <2>2 DEF CheckInitialised
    <2>3. CASE CheckFails(t)         BY <2>3 DEF CheckFails
    <2>4. CASE Lock(t)               BY <2>4 DEF Lock
    <2>5. CASE RecheckInitialised(t) BY <2>5 DEF RecheckInitialised
    <2>6. CASE RecheckFails(t)       BY <2>6 DEF RecheckFails
    <2>7. CASE pthread_key_create(t) BY <2>7 DEF pthread_key_create
    <2>8. CASE Publish(t)            BY <2>8 DEF Publish
    <2>9. CASE Unlock(t)             BY <2>9 DEF Unlock
    <2>10. QED
      BY <1>2, <2>1, <2>2, <2>3, <2>4, <2>5, <2>6, <2>7, <2>8, <2>9 DEF Run
  <1>3. QED
    BY <1>1, <1>2 DEF Next

LEMMA InvariantHolds == Spec => []IInv
  BY InitIInv, NextIInv, PTL DEF Spec

\* "Multiple initialisations are prevented by the critical section": however
\* many threads race, pthread_key_create is called at most once.
THEOREM KeyCreatedOnce == Spec => []CreatedOnce
  <1>1. IInv => CreatedOnce
    <2> SUFFICES ASSUME IInv PROVE CreatedOnce
      OBVIOUS
    <2>1. CASE \E t \in Threads : pc[t] = "publish"
      BY <2>1 DEF IInv, KeyFollowsPhase, CreatedOnce
    <2>2. CASE \A t \in Threads : pc[t] # "publish"
      BY <2>2 DEF IInv, TypeOK, KeyFollowsPhase, CreatedOnce
    <2>3. QED
      BY <2>1, <2>2
  <1>2. QED
    BY <1>1, InvariantHolds, PTL

\* Every call of pthread_key() returns the one key that was created, whether
\* it took the fast path without the lock or the slow one.
THEOREM CallsReturnTheKey == Spec => []ReturnsTheKey
  <1>1. IInv => ReturnsTheKey
    BY DEF IInv
  <1>2. QED
    BY <1>1, InvariantHolds, PTL

-----------------------------------------------------------------------------
(* The invariant *)

ThreadTypeOK ==
  /\ kernel \in BOOLEAN
  /\ specific \in [Threads -> [Keys -> Stores \cup {NULL}]]
  /\ cache \in [Threads -> Stores \cup {NULL}]
  /\ heap \in [Stores -> [Blocks -> {"none", "live", "freed"}]]
  /\ instances \subseteq Stores
  /\ at \in [Threads -> {"idle", "key", "create", "found"}]
  /\ phase \in [Threads -> {"none", "running", "exiting", "dead"}]
  /\ round \in [Threads -> [n : 0 .. Iterations, tesla : BOOLEAN, app : BOOLEAN]]
  /\ calls \in [Threads -> 0 .. 2]
  /\ fault \in {"none", "memory", "use_after_free", "null"}

\* Where stores hang: td_tesla, or the one key there is.
Slot == IF kernel THEN 0 ELSE 1
Mine(t) == specific[t][Slot]

\* What a thread knows at each place of tesla_store_get.
CallPhases ==
  \A t \in Threads :
    /\ kernel => at[t] = "idle" /\ cache[t] = NULL
    /\ (at[t] = "key") <=> (pc[t] # "idle")
    /\ at[t] \in {"key", "create"} => cache[t] = NULL
    /\ at[t] = "create" => Mine(t) = NULL
    /\ at[t] = "found" => cache[t] # NULL \/ Mine(t) # NULL
    /\ at[t] # "idle" => phase[t] \in {"running", "exiting"}

\* Nothing but the initialised key is ever used.
KeyInUse ==
  \A t \in Threads :
    /\ ~kernel /\ (at[t] \in {"create", "found"} \/ cache[t] # NULL \/ Mine(t) # NULL)
         => key_initialised = 1
    /\ \A k \in Keys : k # Slot => specific[t][k] = NULL

\* What is registered is the thread's own live store, and what is cached is a
\* store of its own, the registered one if there is one.
RegisteredOK ==
  \A t \in Threads :
    /\ Mine(t) # NULL => Mine(t)[1] = t /\ heap[Mine(t)]["store"] = "live"
    /\ cache[t] # NULL => /\ cache[t][1] = t /\ heap[cache[t]]["store"] # "none"
                          /\ Mine(t) \in {NULL, cache[t]}

\* A live store is registered, and the other blocks live with it, except for
\* tables of classes, which stay.
HeapOK ==
  \A s \in Stores :
    /\ heap[s]["store"] = "live" => Mine(s[1]) = s
    /\ heap[s]["store"] = "none" => heap[s] = NoBlocks
    /\ heap[s]["store"] = "freed" =>
         /\ \A b \in Blocks : heap[s][b] = "live" => b \in {"ts_classes", "tls_dyn_classes"}
         /\ phase[s[1]] \in {"exiting", "dead"} /\ (kernel => phase[s[1]] = "dead")
    /\ s \in instances => heap[s]["store"] = "live"
    /\ kernel => heap[s]["tls_dyn_classes"] # "live"

\* The stores that have been made for t, and how many of them the destructor
\* has freed at most.
Made(t) == {s \in Stores : s[1] = t /\ heap[s] # NoBlocks}
Done(t) == IF round[t].tesla THEN round[t].n ELSE round[t].n - 1

Turns ==
  \A t \in Threads :
    /\ kernel \/ phase[t] = "running" => round[t].n = 0 /\ round[t].tesla
    /\ ~round[t].tesla => round[t].n > 0
    /\ phase[t] = "none" => kernel /\ Mine(t) = NULL
    /\ phase[t] = "dead" => Mine(t) = NULL \/ round[t].n = Iterations

\* Stores are numbered as they are made: one for the thread, and one more for
\* every time the destructor has run.
MadeOK ==
  \A t \in Threads : \E n \in 0 .. Iterations + 1 :
    /\ Made(t) = {t} \X (1 .. n)
    /\ n <= Done(t) + 1
    /\ Mine(t) = NULL /\ ~(kernel /\ phase[t] = "dead") => n <= Done(t)

\* The first call registers the store, the second one fills the cache.
CallsOK ==
  \A t \in Threads :
    /\ ~kernel /\ Mine(t) # NULL /\ at[t] # "found" => calls[t] > 0
    /\ cache[t] # NULL =>
         calls[t] = 2 \/ (at[t] = "found" /\ calls[t] > 0 /\ Mine(t) = cache[t])
    /\ kernel /\ Mine(t) = NULL /\ phase[t] \in {"running", "exiting"} =>
         t \in EarlyThreads

ThreadInv ==
  /\ IInv /\ ThreadTypeOK /\ CallPhases /\ KeyInUse /\ RegisteredOK /\ HeapOK
  /\ Turns /\ MadeOK /\ CallsOK /\ FaultIsExplained

-----------------------------------------------------------------------------
(* Keys and the numbers of stores *)

\* There is a key for td_tesla, and one for pthread_key_create.
LEMMA KeysThere == ASSUME NEW t \in Threads PROVE 0 \in Keys /\ 1 \in Keys
  <1>1. Cardinality(Threads) \in Nat /\ Cardinality(Threads) # 0
    BY ThreadStoreAssumption, FS_CardinalityType, FS_EmptySet
  <1>2. QED
    BY <1>1 DEF Keys

\* As many stores as numbers.
LEMMA PrefixCard ==
  ASSUME NEW t, NEW n \in Nat
  PROVE  Cardinality({t} \X (1 .. n)) = n
  <1>1. IsFiniteSet({t}) /\ Cardinality({t}) = 1
    BY FS_Singleton
  <1>2. IsFiniteSet(1 .. n) /\ Cardinality(1 .. n) = n
    BY FS_Interval
  <1>3. Cardinality({t} \X (1 .. n)) = Cardinality({t}) * Cardinality(1 .. n)
    BY <1>1, <1>2, FS_Product
  <1>4. QED
    BY <1>1, <1>2, <1>3

\* The next store of a thread is one that has not been made.
LEMMA NextStoreIs ==
  ASSUME NEW t \in Threads, NEW n \in 0 .. Iterations, Made(t) = {t} \X (1 .. n),
         ThreadTypeOK
  PROVE  /\ NextStore(t) = <<t, n + 1>> /\ NextStore(t) \in Stores
         /\ heap[NextStore(t)] = NoBlocks
  <1>1. n \in Nat /\ n + 1 \in 1 .. Iterations + 1
    BY ThreadStoreAssumption
  <1>2. NextStore(t) = <<t, n + 1>>
    <2>1. Cardinality(Made(t)) = n
      BY <1>1, PrefixCard
    <2>2. NextStore(t) = <<t, 1 + Cardinality(Made(t))>>
      BY DEF NextStore, Made
    <2>3. QED
      BY <1>1, <2>1, <2>2
  <1>3. <<t, n + 1>> \in Stores
    BY <1>1 DEF Stores
  <1>4. <<t, n + 1>> \notin Made(t)
    BY <1>1
  <1>5. QED
    BY <1>2, <1>3, <1>4 DEF Made

\* A store is used that has been made by the time.
LEMMA MadeGrows ==
  ASSUME NEW t \in Threads, NEW n \in 0 .. Iterations, Made(t) = {t} \X (1 .. n),
         ThreadTypeOK, ThreadTypeOK', NextStore(t) = <<t, n + 1>>, NextStore(t) \in Stores,
         heap'[NextStore(t)] # NoBlocks,
         \A s \in Stores : s # NextStore(t) => heap'[s] = heap[s]
  PROVE  /\ Made(t)' = {t} \X (1 .. n + 1)
         /\ \A u \in Threads : u # t => Made(u)' = Made(u)
  <1>1. Made(t)' = Made(t) \cup {NextStore(t)}
    BY DEF Made
  <1>2. 1 .. n + 1 = (1 .. n) \cup {n + 1}
    BY ThreadStoreAssumption
  <1>3. Made(t)' = {t} \X (1 .. n + 1)
    BY <1>1, <1>2
  <1>4. ASSUME NEW u \in Threads, u # t PROVE Made(u)' = Made(u)
    BY <1>4 DEF Made
  <1>5. QED
    BY <1>3, <1>4

-----------------------------------------------------------------------------
(* What every step of pthread_key leaves *)

\* The invariant of pthread_key, and that an initialised key stays as it is.
LEMMA KeySteps ==
  ASSUME IInv, [Next]_vars
  PROVE  /\ IInv'
         /\ key_initialised = 1 => key_initialised' = 1 /\ key' = key /\ key = 1
  <1>1. IInv'
    BY NextIInv
  <1>2. ASSUME key_initialised = 1
        PROVE  key_initialised' = 1 /\ key' = key /\ key = 1
    <2>1. CASE UNCHANGED vars
      BY <1>2, <2>1 DEF vars, IInv, KeyFollowsPhase
    <2>2. ASSUME NEW t \in Threads, Call(t) \/ Run(t)
          PROVE  key_initialised' = 1 /\ key' = key /\ key = 1
      BY <1>2, <2>2 DEF IInv, KeyFollowsPhase, Call, Run, CheckInitialised, CheckFails,
           Lock, RecheckInitialised, RecheckFails, pthread_key_create, Publish, Unlock,
           Goto, ReturnKey
    <2>3. QED
      BY <2>1, <2>2 DEF Next
  <1>3. QED
    BY <1>1, <1>2

\* A step that leaves pthread_key alone.
LEMMA KeyStands ==
  ASSUME IInv, UNCHANGED vars
  PROVE  IInv' /\ (key_initialised = 1 => key_initialised' = 1 /\ key' = key /\ key = 1)
  BY KeySteps DEF vars

\* A step that makes no store, and at most runs the destructor.
LEMMA MadeSame ==
  ASSUME MadeOK,
         \A u \in Threads : /\ Made(u)' = Made(u)
                            /\ Done(u) \in Int /\ Done(u)' \in Int /\ Done(u) <= Done(u)'
                            /\ Mine(u)' = NULL /\ ~(kernel /\ phase[u] = "dead")' =>
                                 \/ Mine(u) = NULL /\ ~(kernel /\ phase[u] = "dead")
                                 \/ Done(u) < Done(u)'
  PROVE  MadeOK'
  <1> SUFFICES ASSUME NEW u \in Threads
               PROVE  \E n \in 0 .. Iterations + 1 :
                        /\ Made(u)' = {u} \X (1 .. n)
                        /\ n <= Done(u)' + 1
                        /\ Mine(u)' = NULL /\ ~(kernel /\ phase[u] = "dead")' => n <= Done(u)'
    BY DEF MadeOK
  <1>1. PICK n \in 0 .. Iterations + 1 :
               /\ Made(u) = {u} \X (1 .. n)
               /\ n <= Done(u) + 1
               /\ Mine(u) = NULL /\ ~(kernel /\ phase[u] = "dead") => n <= Done(u)
    BY DEF MadeOK
  <1>2. n \in Int
    BY ThreadStoreAssumption
  <1>3. QED
    BY <1>1, <1>2

\* A step that leaves the heap alone.
LEMMA MadeStands ==
  ASSUME MadeOK, UNCHANGED heap,
         \A u \in Threads : /\ Done(u) \in Int /\ Done(u)' \in Int /\ Done(u) <= Done(u)'
                            /\ Mine(u)' = NULL /\ ~(kernel /\ phase[u] = "dead")' =>
                                 Mine(u) = NULL /\ ~(kernel /\ phase[u] = "dead")
  PROVE  MadeOK'
  <1>1. \A u \in Threads : Made(u)' = Made(u)
    BY DEF Made
  <1>2. QED
    BY <1>1, MadeSame

\* An event in userspace looks at the cache.
LEMMA GetKeeps ==
  ASSUME ThreadInv, NEW t \in Threads, Get(t)
  PROVE  ThreadInv'
  <1> USE ThreadStoreAssumption DEF ThreadInv, Get, MayRun, TakeTurn, Stay, Call, Goto, Alive
  <1>1. IInv' /\ (key_initialised = 1 => key_initialised' = 1 /\ key' = key /\ key = 1)
    <2>1. [Next]_vars
      BY DEF Next, Run, vars
    <2>2. QED
      BY <2>1, KeySteps
  <1> USE <1>1, KeysThere
  <1>2. ThreadTypeOK'
    BY DEF ThreadTypeOK
  <1>3. CallPhases'
    <2>1. CASE cache[t] = NULL
      BY <2>1 DEF IInv, TypeOK, ThreadTypeOK, CallPhases, Mine, Slot
    <2>2. CASE cache[t] # NULL
      BY <2>2 DEF vars, IInv, TypeOK, ThreadTypeOK, CallPhases, Mine, Slot
    <2>3. QED
      BY <2>1, <2>2
  <1>4. KeyInUse'
    BY DEF ThreadTypeOK, KeyInUse, CallPhases, Mine, Slot
  <1>5. RegisteredOK'
    BY DEF ThreadTypeOK, RegisteredOK, KeyInUse, CallPhases, Mine, Slot
  <1>6. HeapOK'
    BY DEF ThreadTypeOK, HeapOK, NoBlocks, Mine, Slot
  <1>7. Turns'
    BY DEF ThreadTypeOK, Turns, Mine, Slot, CallPhases
  <1>8. MadeOK'
    <2>1. \A u \in Threads : Mine(u)' = Mine(u)
      BY DEF Mine, Slot
    <2>2. \A u \in Threads : /\ Done(u) \in Int /\ Done(u)' \in Int /\ Done(u) <= Done(u)'
                             /\ kernel /\ phase[u] = "dead" => (kernel /\ phase[u] = "dead")'
      BY DEF ThreadTypeOK, Done, Turns
    <2>3. QED
      BY <2>1, <2>2, MadeStands
  <1>9. CallsOK'
    BY DEF ThreadTypeOK, CallsOK, CallPhases, KeyInUse, RegisteredOK, Mine, Slot
  <1>10. FaultIsExplained'
    BY DEF ThreadTypeOK, FaultIsExplained, StoresOf
  <1>11. QED
    BY <1>1, <1>2, <1>3, <1>4, <1>5, <1>6, <1>7, <1>8, <1>9, <1>10

\* A step inside pthread_key().
LEMMA KeyStepKeeps ==
  ASSUME ThreadInv, NEW t \in Threads, KeyStep(t)
  PROVE  ThreadInv'
  <1> USE ThreadStoreAssumption DEF ThreadInv, KeyStep, tvars, CheckFails, Lock,
      RecheckFails, pthread_key_create, Publish, Goto, Alive
  <1>1. IInv' /\ (key_initialised = 1 => key_initialised' = 1 /\ key' = key /\ key = 1)
    <2>1. [Next]_vars
      BY DEF Next, Run, vars
    <2>2. QED
      BY <2>1, KeySteps
  <1> USE <1>1, KeysThere
  <1>2. ThreadTypeOK'
    BY DEF ThreadTypeOK
  <1>3. CallPhases'
    BY DEF IInv, TypeOK, ThreadTypeOK, CallPhases, KeyInUse, Mine, Slot
  <1>4. KeyInUse'
    BY DEF ThreadTypeOK, KeyInUse, CallPhases, Mine, Slot
  <1>5. RegisteredOK'
    BY DEF ThreadTypeOK, RegisteredOK, KeyInUse, CallPhases, Mine, Slot
  <1>6. HeapOK'
    BY DEF ThreadTypeOK, HeapOK, NoBlocks, Mine, Slot
  <1>7. Turns'
    BY DEF ThreadTypeOK, Turns, Mine, Slot, CallPhases
  <1>8. MadeOK'
    <2>1. \A u \in Threads : Mine(u)' = Mine(u)
      BY DEF Mine, Slot
    <2>2. \A u \in Threads : /\ Done(u) \in Int /\ Done(u)' \in Int /\ Done(u) <= Done(u)'
                             /\ kernel /\ phase[u] = "dead" => (kernel /\ phase[u] = "dead")'
      BY DEF ThreadTypeOK, Done, Turns
    <2>3. QED
      BY <2>1, <2>2, MadeStands
  <1>9. CallsOK'
    BY DEF ThreadTypeOK, CallsOK, CallPhases, KeyInUse, RegisteredOK, Mine, Slot
  <1>10. FaultIsExplained'
    BY DEF ThreadTypeOK, FaultIsExplained, StoresOf
  <1>11. QED
    BY <1>1, <1>2, <1>3, <1>4, <1>5, <1>6, <1>7, <1>8, <1>9, <1>10

\* pthread_key() returns, and what hangs off the key is cached.
LEMMA KeyReturnsKeeps ==
  ASSUME ThreadInv, NEW t \in Threads, KeyReturns(t)
  PROVE  ThreadInv'
  <1> USE ThreadStoreAssumption DEF ThreadInv, KeyReturns, Stay, CheckInitialised,
      RecheckInitialised, Unlock, ReturnKey, Goto, Alive
  <1>1. IInv' /\ (key_initialised = 1 => key_initialised' = 1 /\ key' = key /\ key = 1)
    <2>1. [Next]_vars
      BY DEF Next, Run, vars
    <2>2. QED
      BY <2>1, KeySteps
  <1>k. /\ ~kernel /\ key = 1 /\ key_initialised = 1 /\ specific[t][key] = Mine(t)
         /\ specific[t][key] \in Stores \cup {NULL}
    BY KeysThere DEF IInv, KeyFollowsPhase, CallPhases, ThreadTypeOK, Mine, Slot
  <1> USE <1>1, <1>k, KeysThere
  <1>2. ThreadTypeOK'
    BY DEF ThreadTypeOK
  <1>3. CallPhases'
    BY DEF IInv, TypeOK, ThreadTypeOK, CallPhases, KeyInUse, Mine, Slot
  <1>4. KeyInUse'
    BY DEF ThreadTypeOK, KeyInUse, CallPhases, Mine, Slot
  <1>5. RegisteredOK'
    BY DEF ThreadTypeOK, RegisteredOK, KeyInUse, CallPhases, Mine, Slot
  <1>6. HeapOK'
    BY DEF ThreadTypeOK, HeapOK, NoBlocks, Mine, Slot
  <1>7. Turns'
    BY DEF ThreadTypeOK, Turns, Mine, Slot, CallPhases
  <1>8. MadeOK'
    <2>1. \A u \in Threads : Mine(u)' = Mine(u)
      BY DEF Mine, Slot
    <2>2. \A u \in Threads : /\ Done(u) \in Int /\ Done(u)' \in Int /\ Done(u) <= Done(u)'
                             /\ kernel /\ phase[u] = "dead" => (kernel /\ phase[u] = "dead")'
      BY DEF ThreadTypeOK, Done, Turns
    <2>3. QED
      BY <2>1, <2>2, MadeStands
  <1>9. CallsOK'
    BY DEF ThreadTypeOK, CallsOK, CallPhases, KeyInUse, RegisteredOK, Mine, Slot
  <1>10. FaultIsExplained'
    BY DEF ThreadTypeOK, FaultIsExplained, StoresOf
  <1>11. QED
    BY <1>1, <1>2, <1>3, <1>4, <1>5, <1>6, <1>7, <1>8, <1>9, <1>10

\* An allocation fails.
LEMMA OutOfMemoryKeeps ==
  ASSUME ThreadInv, NEW t \in Threads, OutOfMemory(t)
  PROVE  ThreadInv'
  <1> USE ThreadStoreAssumption DEF ThreadInv, OutOfMemory, Crash, Stay, vars, Alive
  <1>1. IInv' /\ (key_initialised = 1 => key_initialised' = 1 /\ key' = key /\ key = 1)
    BY KeyStands
  <1> USE <1>1, KeysThere
  <1>2. ThreadTypeOK'
    BY DEF ThreadTypeOK
  <1>3. CallPhases'
    BY DEF IInv, TypeOK, ThreadTypeOK, CallPhases, KeyInUse, Mine, Slot
  <1>4. KeyInUse'
    BY DEF ThreadTypeOK, KeyInUse, CallPhases, Mine, Slot
  <1>5. RegisteredOK'
    BY DEF ThreadTypeOK, RegisteredOK, KeyInUse, CallPhases, Mine, Slot
  <1>6. HeapOK'
    BY DEF ThreadTypeOK, HeapOK, NoBlocks, Mine, Slot
  <1>7. Turns'
    BY DEF ThreadTypeOK, Turns, Mine, Slot, CallPhases
  <1>8. MadeOK'
    <2>1. \A u \in Threads : Mine(u)' = Mine(u)
      BY DEF Mine, Slot
    <2>2. \A u \in Threads : /\ Done(u) \in Int /\ Done(u)' \in Int /\ Done(u) <= Done(u)'
                             /\ kernel /\ phase[u] = "dead" => (kernel /\ phase[u] = "dead")'
      BY DEF ThreadTypeOK, Done, Turns
    <2>3. QED
      BY <2>1, <2>2, MadeStands
  <1>9. CallsOK'
    BY DEF ThreadTypeOK, CallsOK, CallPhases, KeyInUse, RegisteredOK, Mine, Slot
  <1>10. FaultIsExplained'
    BY DEF ThreadTypeOK, FaultIsExplained, StoresOf
  <1>11. QED
    BY <1>1, <1>2, <1>3, <1>4, <1>5, <1>6, <1>7, <1>8, <1>9, <1>10

\* A thread begins to end.
LEMMA ExitKeeps ==
  ASSUME ThreadInv, NEW t \in Threads, Exit(t)
  PROVE  ThreadInv'
  <1> USE ThreadStoreAssumption DEF ThreadInv, Exit, Stay, vars, Alive
  <1>1. IInv' /\ (key_initialised = 1 => key_initialised' = 1 /\ key' = key /\ key = 1)
    BY KeyStands
  <1> USE <1>1, KeysThere
  <1>2. ThreadTypeOK'
    BY DEF ThreadTypeOK
  <1>3. CallPhases'
    BY DEF IInv, TypeOK, ThreadTypeOK, CallPhases, KeyInUse, Mine, Slot
  <1>4. KeyInUse'
    BY DEF ThreadTypeOK, KeyInUse, CallPhases, Mine, Slot
  <1>5. RegisteredOK'
    BY DEF ThreadTypeOK, RegisteredOK, KeyInUse, CallPhases, Mine, Slot
  <1>6. HeapOK'
    BY DEF ThreadTypeOK, HeapOK, NoBlocks, Mine, Slot
  <1>7. Turns'
    BY DEF ThreadTypeOK, Turns, Mine, Slot, CallPhases
  <1>8. MadeOK'
    <2>1. \A u \in Threads : Mine(u)' = Mine(u)
      BY DEF Mine, Slot
    <2>2. \A u \in Threads : /\ Done(u) \in Int /\ Done(u)' \in Int /\ Done(u) <= Done(u)'
                             /\ kernel /\ phase[u] = "dead" => (kernel /\ phase[u] = "dead")'
      BY DEF ThreadTypeOK, Done, Turns
    <2>3. QED
      BY <2>1, <2>2, MadeStands
  <1>9. CallsOK'
    BY DEF ThreadTypeOK, CallsOK, CallPhases, KeyInUse, RegisteredOK, Mine, Slot
  <1>10. FaultIsExplained'
    BY DEF ThreadTypeOK, FaultIsExplained, StoresOf
  <1>11. QED
    BY <1>1, <1>2, <1>3, <1>4, <1>5, <1>6, <1>7, <1>8, <1>9, <1>10

\* A round of destructors is over: there is another one, or the thread is gone.
LEMMA EndRoundKeeps ==
  ASSUME ThreadInv, NEW t \in Threads, EndRound(t)
  PROVE  ThreadInv'
  <1> USE ThreadStoreAssumption DEF ThreadInv
  <1>1. IInv' /\ (key_initialised = 1 => key_initialised' = 1 /\ key' = key /\ key = 1)
    BY KeyStands DEF EndRound
  <1>a. /\ fault = "none" /\ ~kernel /\ phase[t] = "exiting" /\ at[t] = "idle" /\ round[t].tesla
        /\ UNCHANGED <<kernel, specific, cache, heap, instances, at, calls, fault>>
        /\ UNCHANGED <<key, key_initialised, lock, pc, returned>>
    BY DEF EndRound, Stay, vars, Alive
  <1>b. \/ /\ round[t].n < Iterations /\ phase' = phase
           /\ \E app \in BOOLEAN : round' = [round EXCEPT ![t] =
                            [n |-> @.n + 1, tesla |-> FALSE, app |-> ~app]]
        \/ /\ round' = round /\ phase' = [phase EXCEPT ![t] = "dead"]
           /\ round[t].n = Iterations \/ \A k \in Keys : specific[t][k] = NULL
    BY DEF EndRound, Stay, vars, Alive
  <1>c. (\A k \in Keys : specific[t][k] = NULL) => Mine(t) = NULL
    BY KeysThere DEF Mine, Slot, ThreadTypeOK
  <1>d. \A u \in Threads : phase'[u] = phase[u] \/ (u = t /\ phase'[u] = "dead")
    BY <1>b DEF ThreadTypeOK
  <1>e. ASSUME NEW app \in BOOLEAN, round[t].n < Iterations,
               round' = [round EXCEPT ![t] = [n |-> @.n + 1, tesla |-> FALSE, app |-> ~app]]
        PROVE  /\ round'[t].n = round[t].n + 1 /\ ~round'[t].tesla
               /\ \A u \in Threads : u # t => round'[u] = round[u]
    BY <1>e DEF ThreadTypeOK
  <1>f. \A u \in Threads : u # t => round'[u] = round[u]
    BY <1>b, <1>e
  <1>g. \/ phase' = phase /\ round'[t].n = round[t].n + 1 /\ ~round'[t].tesla
        \/ round' = round /\ (round[t].n = Iterations \/ Mine(t) = NULL)
    <2>1. CASE round[t].n < Iterations /\ phase' = phase
                 /\ \E app \in BOOLEAN : round' = [round EXCEPT ![t] =
                            [n |-> @.n + 1, tesla |-> FALSE, app |-> ~app]]
      <3>1. PICK app \in BOOLEAN : round' = [round EXCEPT ![t] =
                            [n |-> @.n + 1, tesla |-> FALSE, app |-> ~app]]
        BY <2>1
      <3>2. QED
        BY <2>1, <3>1, <1>e
    <2>2. CASE /\ round' = round
               /\ round[t].n = Iterations \/ \A k \in Keys : specific[t][k] = NULL
      BY <2>2, <1>c
    <2>3. QED
      BY <1>b, <2>1, <2>2
  <1>h. \A u \in Threads : round[u].n \in Nat /\ Mine(u)' = Mine(u)
    BY <1>a DEF ThreadTypeOK, Mine, Slot
  <1>2. ThreadTypeOK'
    <2>1. ASSUME NEW app \in BOOLEAN, round[t].n < Iterations,
                 round' = [round EXCEPT ![t] = [n |-> @.n + 1, tesla |-> FALSE, app |-> ~app]]
          PROVE  round' \in [Threads -> [n : 0 .. Iterations, tesla : BOOLEAN, app : BOOLEAN]]
      BY <2>1 DEF ThreadTypeOK
    <2>2. round' \in [Threads -> [n : 0 .. Iterations, tesla : BOOLEAN, app : BOOLEAN]]
      BY <1>b, <2>1 DEF ThreadTypeOK
    <2>3. phase' \in [Threads -> {"none", "running", "exiting", "dead"}]
      BY <1>b DEF ThreadTypeOK
    <2>4. QED
      BY <1>a, <2>2, <2>3 DEF ThreadTypeOK
  <1>3. CallPhases'
    BY <1>a, <1>b, <1>c, <1>1 DEF IInv, TypeOK, ThreadTypeOK, CallPhases, KeyInUse, Mine, Slot
  <1>4. KeyInUse'
    BY <1>a, <1>b, <1>c, <1>1 DEF ThreadTypeOK, KeyInUse, CallPhases, Mine, Slot
  <1>5. RegisteredOK'
    BY <1>a, <1>b, <1>c, <1>1 DEF ThreadTypeOK, RegisteredOK, KeyInUse, CallPhases, Mine, Slot
  <1>6. HeapOK'
    BY <1>a, <1>d, <1>h DEF Stores, HeapOK, NoBlocks
  <1>7. Turns'
    BY <1>a, <1>d, <1>f, <1>g, <1>h DEF Turns
  <1>8. MadeOK'
    <2>1. \A u \in Threads : Mine(u)' = Mine(u)
      BY <1>a DEF Mine, Slot
    <2>2. \A u \in Threads : /\ Done(u) \in Int /\ Done(u)' \in Int /\ Done(u) <= Done(u)'
                             /\ kernel /\ phase[u] = "dead" => (kernel /\ phase[u] = "dead")'
      BY <1>a, <1>d, <1>f, <1>g, <1>h DEF Done
    <2>3. QED
      BY <1>a, <2>1, <2>2, MadeStands
  <1>9. CallsOK'
    BY <1>a, <1>b, <1>c, <1>1 DEF ThreadTypeOK, CallsOK, CallPhases, KeyInUse, RegisteredOK,
         Mine, Slot
  <1>10. FaultIsExplained'
    BY <1>a DEF FaultIsExplained
  <1>11. QED
    BY <1>1, <1>2, <1>3, <1>4, <1>5, <1>6, <1>7, <1>8, <1>9, <1>10

\* A process of the kernel ends: its thread's store is reset.
LEMMA ProcessDtorKeeps ==
  ASSUME ThreadInv, NEW t \in Threads, tesla_perthread_process_dtor(t)
  PROVE  ThreadInv'
  <1> USE ThreadStoreAssumption DEF ThreadInv, tesla_perthread_process_dtor,
      tesla_store_reset, Stay, vars, Alive
  <1>1. IInv' /\ (key_initialised = 1 => key_initialised' = 1 /\ key' = key /\ key = 1)
    BY KeyStands
  <1> USE <1>1, KeysThere
  <1>2. ThreadTypeOK'
    BY DEF ThreadTypeOK
  <1>3. CallPhases'
    BY DEF IInv, TypeOK, ThreadTypeOK, CallPhases, KeyInUse, Mine, Slot
  <1>4. KeyInUse'
    BY DEF ThreadTypeOK, KeyInUse, CallPhases, Mine, Slot
  <1>5. RegisteredOK'
    BY DEF ThreadTypeOK, RegisteredOK, KeyInUse, CallPhases, Mine, Slot
  <1>6. HeapOK'
    BY DEF ThreadTypeOK, HeapOK, NoBlocks, Mine, Slot
  <1>7. Turns'
    BY DEF ThreadTypeOK, Turns, Mine, Slot, CallPhases
  <1>8. MadeOK'
    <2>1. \A u \in Threads : Mine(u)' = Mine(u)
      BY DEF Mine, Slot
    <2>2. \A u \in Threads : /\ Done(u) \in Int /\ Done(u)' \in Int /\ Done(u) <= Done(u)'
                             /\ kernel /\ phase[u] = "dead" => (kernel /\ phase[u] = "dead")'
      BY DEF ThreadTypeOK, Done, Turns
    <2>3. QED
      BY <2>1, <2>2, MadeStands
  <1>9. CallsOK'
    BY DEF ThreadTypeOK, CallsOK, CallPhases, KeyInUse, RegisteredOK, Mine, Slot
  <1>10. FaultIsExplained'
    BY DEF ThreadTypeOK, FaultIsExplained, StoresOf
  <1>11. QED
    BY <1>1, <1>2, <1>3, <1>4, <1>5, <1>6, <1>7, <1>8, <1>9, <1>10

-----------------------------------------------------------------------------
(* Steps that make a store *)

\* There is a number left for the store of a thread that has none.
LEMMA RoomForStore ==
  ASSUME ThreadInv, NEW t \in Threads, Mine(t) = NULL, ~(kernel /\ phase[t] = "dead")
  PROVE  /\ NextStore(t) \in Stores /\ NextStore(t)[1] = t /\ heap[NextStore(t)] = NoBlocks
         /\ NextStore(t) # NULL /\ heap[NextStore(t)]["store"] = "none"
         /\ \E n \in 0 .. Iterations : /\ n <= Done(t) /\ Made(t) = {t} \X (1 .. n)
                                       /\ NextStore(t) = <<t, n + 1>>
  <1>1. PICK n \in 0 .. Iterations + 1 : Made(t) = {t} \X (1 .. n) /\ n <= Done(t)
    BY DEF ThreadInv, MadeOK
  <1>2. n \in 0 .. Iterations
    BY <1>1, ThreadStoreAssumption DEF ThreadInv, ThreadTypeOK, Done
  <1>3. /\ NextStore(t) = <<t, n + 1>> /\ NextStore(t) \in Stores
        /\ heap[NextStore(t)] = NoBlocks
    BY <1>1, <1>2, NextStoreIs DEF ThreadInv
  <1>4. heap[NextStore(t)]["store"] = "none"
    BY <1>3 DEF NoBlocks, Blocks
  <1>5. QED
    BY <1>1, <1>2, <1>3, <1>4, ThreadStoreAssumption

\* ... and making it leaves one for every round of destructors to come.
LEMMA StoreIsCounted ==
  ASSUME ThreadInv, ThreadTypeOK', NEW t \in Threads, Mine(t) = NULL,
         ~(kernel /\ phase[t] = "dead"), heap'[NextStore(t)]["store"] = "live",
         \A s \in Stores : s # NextStore(t) => heap'[s] = heap[s],
         Mine(t)' # NULL, UNCHANGED <<kernel, round>>,
         \A u \in Threads : u # t => Mine(u)' = Mine(u) /\ phase'[u] = phase[u]
  PROVE  MadeOK'
  <1>1. PICK n \in 0 .. Iterations : /\ n <= Done(t) /\ Made(t) = {t} \X (1 .. n)
                                     /\ NextStore(t) = <<t, n + 1>>
    BY RoomForStore
  <1>2. heap'[NextStore(t)] # NoBlocks
    BY DEF NoBlocks, Blocks
  <1>3. NextStore(t) \in Stores
    BY RoomForStore
  <1>4. /\ Made(t)' = {t} \X (1 .. n + 1)
        /\ \A u \in Threads : u # t => Made(u)' = Made(u)
    BY <1>1, <1>2, <1>3, MadeGrows DEF ThreadInv
  <1>5. \A u \in Threads : Done(u)' = Done(u) /\ Done(u) \in Int
    BY DEF Done, ThreadInv, ThreadTypeOK
  <1> SUFFICES ASSUME NEW u \in Threads
               PROVE  \E m \in 0 .. Iterations + 1 :
                        /\ Made(u)' = {u} \X (1 .. m)
                        /\ m <= Done(u)' + 1
                        /\ Mine(u)' = NULL /\ ~(kernel /\ phase[u] = "dead")' => m <= Done(u)'
    BY DEF MadeOK
  <1>6. CASE u = t
    <2>1. n + 1 \in 0 .. Iterations + 1 /\ n + 1 <= Done(t) + 1
      BY <1>1, <1>5, ThreadStoreAssumption
    <2>2. QED
      BY <1>4, <1>5, <1>6, <2>1
  <1>7. CASE u # t
    BY <1>4, <1>5, <1>7 DEF ThreadInv, MadeOK
  <1>8. QED
    BY <1>6, <1>7

\* What a new store keeps, whoever makes it.
LEMMA NewStoreKeeps ==
  ASSUME ThreadInv, ThreadTypeOK', NEW t \in Threads, Mine(t) = NULL, cache[t] = NULL,
         ~(kernel /\ phase[t] = "dead"), heap'[NextStore(t)]["store"] = "live",
         kernel => heap'[NextStore(t)]["tls_dyn_classes"] # "live",
         \A s \in Stores : s # NextStore(t) => heap'[s] = heap[s],
         Mine(t)' = NextStore(t), UNCHANGED <<kernel, cache, round>>,
         instances' \subseteq instances \cup {NextStore(t)},
         phase[t] \in {"exiting", "dead"} => phase'[t] = phase[t],
         \A u \in Threads : u # t => Mine(u)' = Mine(u) /\ phase'[u] = phase[u]
  PROVE  RegisteredOK' /\ HeapOK' /\ MadeOK'
  <1> DEFINE new == NextStore(t)
  <1>1. /\ new \in Stores /\ new[1] = t /\ heap[new]["store"] = "none" /\ new # NULL
    BY RoomForStore
  <1>2. MadeOK'
    BY <1>1, StoreIsCounted
  <1> HIDE DEF new
  <1>3. HeapOK'
    <2> SUFFICES ASSUME NEW s \in Stores PROVE HeapOK!(s)'
      BY DEF HeapOK
    <2>1. s[1] \in Threads /\ s # NULL
      BY ThreadStoreAssumption DEF Stores
    <2>2. CASE s = new
      BY <1>1, <2>2 DEF new
    <2>3. CASE s # new
      <3>1. heap'[s] = heap[s] /\ HeapOK!(s) /\ (s \in instances' => s \in instances)
        BY <2>3 DEF ThreadInv, HeapOK, new
      <3>2. heap[s]["store"] = "live" => Mine(s[1])' = s
        BY <2>1, <3>1
      <3>3. phase[s[1]] \in {"exiting", "dead"} => phase'[s[1]] = phase[s[1]]
        BY <2>1
      <3>4. QED
        BY <3>1, <3>2, <3>3 DEF NoBlocks
    <2>4. QED
      BY <2>2, <2>3
  <1>4. RegisteredOK'
    <2> SUFFICES ASSUME NEW u \in Threads PROVE RegisteredOK!(u)'
      BY DEF RegisteredOK
    <2>1. CASE u = t
      BY <1>1, <2>1 DEF new
    <2>2. CASE u # t
      <3>1. Mine(u)' = Mine(u) /\ RegisteredOK!(u)
        BY <2>2 DEF ThreadInv, RegisteredOK
      <3>2. \A s \in Stores : heap[s]["store"] # "none" => heap'[s] = heap[s]
        BY <1>1 DEF new
      <3>3. Mine(u) # NULL => Mine(u) \in Stores
        BY KeysThere DEF ThreadInv, ThreadTypeOK, Mine, Slot
      <3>4. cache[u] # NULL => cache[u] \in Stores
        BY DEF ThreadInv, ThreadTypeOK
      <3>5. QED
        BY <3>1, <3>2, <3>3, <3>4
    <2>3. QED
      BY <2>1, <2>2
  <1>5. QED
    BY <1>2, <1>3, <1>4

\* tesla_store_get makes and registers a store in userspace.
LEMMA CreateKeeps ==
  ASSUME ThreadInv, NEW t \in Threads, Create(t)
  PROVE  ThreadInv'
  <1> DEFINE new == NextStore(t)
  <1>1. IInv' /\ (key_initialised = 1 => key_initialised' = 1)
    BY KeyStands DEF ThreadInv, Create
  <1>2. /\ fault = "none" /\ at[t] = "create" /\ at' = [at EXCEPT ![t] = "found"]
        /\ heap' = [heap EXCEPT ![new]["store"] = "live"]
        /\ specific' = [specific EXCEPT ![t][key] = new]
        /\ UNCHANGED <<kernel, cache, instances, phase, round, calls, fault, pc>>
    BY DEF Create, Alive, Stay, vars
  <1>3. ~kernel /\ Mine(t) = NULL /\ cache[t] = NULL /\ key = 1 /\ key_initialised = 1
    BY <1>2 DEF ThreadInv, CallPhases, KeyInUse, IInv, KeyFollowsPhase
  <1>4. /\ new \in Stores /\ new[1] = t /\ heap[new]["store"] = "none" /\ new # NULL
        /\ heap[new] = NoBlocks
    BY <1>3, RoomForStore
  <1>5. /\ heap'[new]["store"] = "live"
        /\ \A s \in Stores : s # new => heap'[s] = heap[s]
    BY <1>2, <1>4 DEF ThreadInv, ThreadTypeOK, Blocks
  <1>6. Mine(t)' = new /\ \A u \in Threads : u # t => Mine(u)' = Mine(u)
    BY <1>2, <1>3, KeysThere DEF ThreadInv, ThreadTypeOK, Mine, Slot
  <1> HIDE DEF new
  <1>7. ThreadTypeOK'
    BY <1>2, <1>3, <1>4, KeysThere DEF ThreadInv, ThreadTypeOK, Blocks
  <1>8. CallPhases'
    BY <1>2, <1>3, <1>4, <1>6 DEF ThreadInv, CallPhases, ThreadTypeOK
  <1>9. KeyInUse'
    <2>1. \A u \in Threads, k \in Keys : k # Slot => specific'[u][k] = specific[u][k]
      BY <1>2, <1>3 DEF ThreadInv, ThreadTypeOK, Slot
    <2>2. QED
      BY <1>1, <1>2, <1>3, <2>1 DEF ThreadInv, KeyInUse, Slot
  <1>10. RegisteredOK' /\ HeapOK' /\ MadeOK'
    BY <1>2, <1>3, <1>5, <1>6, <1>7, NewStoreKeeps DEF new
  <1>11. Turns'
    BY <1>2, <1>3, <1>4, <1>6 DEF ThreadInv, Turns, CallPhases
  <1>12. CallsOK'
    BY <1>2, <1>3, <1>4, <1>6 DEF ThreadInv, CallsOK, ThreadTypeOK
  <1>13. FaultIsExplained'
    BY <1>2 DEF FaultIsExplained
  <1>14. QED
    BY <1>1, <1>7, <1>8, <1>9, <1>10, <1>11, <1>12, <1>13 DEF ThreadInv

\* The constructor of kernel threads.
LEMMA ThreadCtorKeeps ==
  ASSUME ThreadInv, NEW t \in Threads, tesla_perthread_thread_ctor(t)
  PROVE  ThreadInv'
  <1> DEFINE new == NextStore(t)
  <1>1. IInv' /\ (key_initialised = 1 => key_initialised' = 1)
    BY KeyStands DEF ThreadInv, tesla_perthread_thread_ctor
  <1>2. /\ fault = "none" /\ kernel /\ phase[t] = "none"
        /\ phase' = [phase EXCEPT ![t] = "running"]
        /\ heap' = [heap EXCEPT ![new] = [b \in Blocks |->
                                           IF b = "tls_dyn_classes" THEN "none" ELSE "live"]]
        /\ specific' = [specific EXCEPT ![t][0] = new]
        /\ UNCHANGED <<kernel, cache, instances, at, round, calls, fault, pc>>
    BY DEF tesla_perthread_thread_ctor, tesla_store_init, Alive, Stay, vars
  <1>3. Mine(t) = NULL /\ cache[t] = NULL
    BY <1>2 DEF ThreadInv, CallPhases, Turns
  <1>4. new \in Stores /\ new # NULL
    BY <1>2, <1>3, RoomForStore
  <1>5. /\ heap'[new]["store"] = "live" /\ heap'[new]["tls_dyn_classes"] = "none"
        /\ \A s \in Stores : s # new => heap'[s] = heap[s]
    BY <1>2, <1>4 DEF ThreadInv, ThreadTypeOK, Blocks
  <1>6. Mine(t)' = new /\ \A u \in Threads : u # t => Mine(u)' = Mine(u)
    BY <1>2, KeysThere DEF ThreadInv, ThreadTypeOK, Mine, Slot
  <1>7. phase'[t] = "running" /\ \A u \in Threads : u # t => phase'[u] = phase[u]
    BY <1>2 DEF ThreadInv, ThreadTypeOK
  <1> HIDE DEF new
  <1>8. ThreadTypeOK'
    BY <1>2, <1>4, KeysThere DEF ThreadInv, ThreadTypeOK, Blocks
  <1>9. CallPhases'
    BY <1>2, <1>3, <1>4, <1>6, <1>7 DEF ThreadInv, CallPhases
  <1>10. KeyInUse'
    <2>1. \A u \in Threads, k \in Keys : k # Slot => specific'[u][k] = specific[u][k]
      BY <1>2 DEF ThreadInv, ThreadTypeOK, Slot
    <2>2. QED
      BY <1>1, <1>2, <2>1 DEF ThreadInv, KeyInUse, Slot
  <1>11. RegisteredOK' /\ HeapOK' /\ MadeOK'
    BY <1>2, <1>3, <1>5, <1>6, <1>7, <1>8, NewStoreKeeps DEF new
  <1>12. Turns'
    BY <1>2, <1>4, <1>6, <1>7 DEF ThreadInv, Turns
  <1>13. CallsOK'
    BY <1>2, <1>3, <1>4, <1>6, <1>7 DEF ThreadInv, CallsOK
  <1>14. FaultIsExplained'
    BY <1>2 DEF FaultIsExplained
  <1>15. QED
    BY <1>1, <1>8, <1>9, <1>10, <1>11, <1>12, <1>13, <1>14 DEF ThreadInv

-----------------------------------------------------------------------------
(* Steps that use and free stores *)

\* A call that succeeds is counted.
LEMMA CallsCounted ==
  ASSUME NEW t \in Threads, calls \in [Threads -> 0 .. 2],
         calls' = [calls EXCEPT ![t] = IF @ < 2 THEN @ + 1 ELSE 2]
  PROVE  /\ calls' \in [Threads -> 0 .. 2] /\ calls'[t] > 0
         /\ calls[t] > 0 => calls'[t] = 2
         /\ \A u \in Threads : u # t => calls'[u] = calls[u]
  <1> DEFINE c == IF calls[t] < 2 THEN calls[t] + 1 ELSE 2
  <1>1. c \in 0 .. 2 /\ c > 0 /\ (calls[t] > 0 => c = 2)
    BY calls[t] \in 0 .. 2
  <1>2. calls' = [calls EXCEPT ![t] = c]
    OBVIOUS
  <1> HIDE DEF c
  <1>3. QED
    BY <1>1, <1>2

\* The store as tesla_store_get hands it out.
Initialised(s) ==
  IF heap[s]["ts_classes"] = "none" THEN tesla_store_init(heap, s) ELSE heap

\* What using a live store keeps: it is the registered one, and its other
\* blocks are made if they are not there.
LEMMA UseKeepsHeap ==
  ASSUME ThreadInv, NEW s \in Stores, heap[s]["store"] = "live",
         \/ heap' = Initialised(s)
         \/ ~kernel /\ heap' = AllocatesDynamic(Initialised(s), s),
         instances' \in {instances, instances \cup {s}},
         UNCHANGED <<kernel, specific, cache, phase, round>>
  PROVE  /\ RegisteredOK' /\ HeapOK' /\ MadeOK'
         /\ heap' \in [Stores -> [Blocks -> {"none", "live", "freed"}]]
  <1> DEFINE h == Initialised(s)
  <1>a. h \in [Stores -> [Blocks -> {"none", "live", "freed"}]]
    BY DEF ThreadInv, ThreadTypeOK, tesla_store_init, Initialised
  <1>b. /\ h[s]["store"] = "live" /\ \A r \in Stores : r # s => h[r] = heap[r]
        /\ h[s]["tls_dyn_classes"] \in {"none", heap[s]["tls_dyn_classes"]}
    BY DEF ThreadInv, ThreadTypeOK, tesla_store_init, Initialised, Blocks
  <1>c. heap' = h \/ (~kernel /\ heap' = [h EXCEPT ![s]["tls_dyn_classes"] = "live"])
    BY DEF AllocatesDynamic
  <1> HIDE DEF h
  <1>1. heap' \in [Stores -> [Blocks -> {"none", "live", "freed"}]]
    BY <1>a, <1>c
  <1>2. /\ heap'[s]["store"] = "live" /\ \A r \in Stores : r # s => heap'[r] = heap[r]
        /\ kernel => heap'[s]["tls_dyn_classes"] \in {"none", heap[s]["tls_dyn_classes"]}
    BY <1>a, <1>b, <1>c DEF Blocks
  <1>3. \A u \in Threads : Mine(u)' = Mine(u)
    BY DEF Mine, Slot
  <1>4. \A r \in Stores : heap'[r]["store"] = heap[r]["store"]
    BY <1>2
  <1>5. HeapOK'
    <2> SUFFICES ASSUME NEW r \in Stores PROVE HeapOK!(r)'
      BY DEF HeapOK
    <2>1. HeapOK!(r) /\ r[1] \in Threads
      BY DEF ThreadInv, HeapOK, Stores
    <2>2. CASE r = s
      BY <1>2, <1>3, <2>1, <2>2
    <2>3. CASE r # s
      BY <1>2, <1>3, <2>1, <2>3 DEF NoBlocks
    <2>4. QED
      BY <2>2, <2>3
  <1>6. RegisteredOK'
    <2>1. \A u \in Threads : /\ Mine(u) # NULL => Mine(u) \in Stores
                             /\ cache[u] # NULL => cache[u] \in Stores
      BY KeysThere DEF ThreadInv, ThreadTypeOK, Mine, Slot
    <2>2. QED
      BY <1>3, <1>4, <2>1 DEF ThreadInv, RegisteredOK
  <1>7. MadeOK'
    <2>1. heap[s] # NoBlocks /\ heap'[s] # NoBlocks
      BY <1>2 DEF NoBlocks, Blocks
    <2>2. \A u \in Threads : Made(u)' = Made(u)
      BY <1>2, <2>1 DEF Made
    <2>3. \A u \in Threads : Done(u)' = Done(u) /\ Done(u) \in Int
      BY DEF Done, ThreadInv, ThreadTypeOK
    <2>4. QED
      BY <1>3, <2>2, <2>3, MadeSame DEF ThreadInv
  <1>8. QED
    BY <1>1, <1>5, <1>6, <1>7

\* The event uses the store it has found, in userspace.
LEMMA UseKeeps ==
  ASSUME ThreadInv, NEW t \in Threads, Use(t)
  PROVE  ThreadInv'
  <1> DEFINE s == TheStore(t)
  <1>1. IInv' /\ (key_initialised = 1 => key_initialised' = 1)
    BY KeyStands DEF ThreadInv, Use
  <1>2. /\ fault = "none" /\ at[t] = "found" /\ at' = [at EXCEPT ![t] = "idle"]
        /\ UNCHANGED <<kernel, specific, cache, phase, round, pc>>
    BY DEF Use, Alive, Stay, vars
  <1>3. ~kernel /\ key = 1 /\ key_initialised = 1
    BY <1>2 DEF ThreadInv, CallPhases, KeyInUse, IInv, KeyFollowsPhase
  <1>4. s = IF cache[t] # NULL THEN cache[t] ELSE Mine(t)
    BY <1>3 DEF TheStore, Mine, Slot
  <1>5. cache[t] # NULL => cache[t] \in Stores
    BY DEF ThreadInv, ThreadTypeOK
  <1>6. Mine(t) # NULL => Mine(t) \in Stores
    BY KeysThere DEF ThreadInv, ThreadTypeOK, Mine, Slot
  <1>7. s \in Stores /\ s[1] = t /\ s # NULL
    BY <1>2, <1>4, <1>5, <1>6, ThreadStoreAssumption DEF ThreadInv, RegisteredOK, CallPhases
  <1>8. \A u \in Threads : Mine(u)' = Mine(u)
    BY <1>2 DEF Mine, Slot
  <1>9. CallPhases' /\ KeyInUse' /\ Turns'
    BY <1>1, <1>2, <1>8 DEF ThreadInv, CallPhases, KeyInUse, Turns, ThreadTypeOK, Slot
  <1>10. CASE /\ heap[s]["store"] = "freed" /\ fault' = "use_after_free"
              /\ UNCHANGED <<heap, instances, calls>>
    <2>1. cache[t] # NULL /\ s = cache[t]
      BY <1>4, <1>7, <1>10 DEF ThreadInv, RegisteredOK
    <2>2. Mine(t) = NULL
      BY <1>10, <2>1 DEF ThreadInv, RegisteredOK
    <2>3. phase[t] = "exiting" /\ calls[t] = 2
      BY <1>2, <1>7, <1>10, <2>1, <2>2 DEF ThreadInv, HeapOK, CallPhases, CallsOK
    <2>4. specific[t] = [k \in Keys |-> NULL]
      <3>1. \A k \in Keys : specific[t][k] = NULL
        BY <2>2 DEF ThreadInv, KeyInUse, Mine
      <3>2. specific[t] \in [Keys -> Stores \cup {NULL}]
        BY DEF ThreadInv, ThreadTypeOK
      <3>3. QED
        BY <3>1, <3>2
    <2>5. FaultIsExplained'
      BY <1>2, <1>10, <2>1, <2>3, <2>4 DEF FaultIsExplained
    <2>6. ThreadTypeOK'
      BY <1>2, <1>10 DEF ThreadInv, ThreadTypeOK
    <2>7. RegisteredOK' /\ HeapOK'
      BY <1>2, <1>8, <1>10 DEF ThreadInv, RegisteredOK, HeapOK, NoBlocks, Stores
    <2>8. MadeOK'
      <3>1. \A u \in Threads : Done(u)' = Done(u) /\ Done(u) \in Int
        BY <1>2 DEF Done, ThreadInv, ThreadTypeOK
      <3>2. QED
        BY <1>2, <1>8, <1>10, <3>1, MadeStands DEF ThreadInv
    <2>9. CallsOK'
      BY <1>2, <1>8, <1>10, <2>2, <2>3 DEF ThreadInv, CallsOK, ThreadTypeOK
    <2>10. QED
      BY <1>1, <1>9, <2>5, <2>6, <2>7, <2>8, <2>9 DEF ThreadInv
  <1>11. CASE /\ heap[s]["store"] = "live" /\ UNCHANGED fault
              /\ heap' \in {Initialised(s), AllocatesDynamic(Initialised(s), s)}
              /\ instances' \in {instances, instances \cup {s}}
              /\ calls' = [calls EXCEPT ![t] = IF @ < 2 THEN @ + 1 ELSE 2]
    <2>1. /\ RegisteredOK' /\ HeapOK' /\ MadeOK'
          /\ heap' \in [Stores -> [Blocks -> {"none", "live", "freed"}]]
      BY <1>2, <1>3, <1>7, <1>11, UseKeepsHeap
    <2>2. /\ calls' \in [Threads -> 0 .. 2] /\ calls'[t] > 0
          /\ calls[t] > 0 => calls'[t] = 2
          /\ \A u \in Threads : u # t => calls'[u] = calls[u]
      BY <1>11, CallsCounted DEF ThreadInv, ThreadTypeOK
    <2>3. ThreadTypeOK'
      BY <1>2, <1>7, <1>11, <2>1, <2>2 DEF ThreadInv, ThreadTypeOK
    <2>4. CallsOK'
      BY <1>2, <1>3, <1>8, <2>2 DEF ThreadInv, CallsOK, ThreadTypeOK
    <2>5. FaultIsExplained'
      BY <1>2, <1>11 DEF FaultIsExplained
    <2>6. QED
      BY <1>1, <1>9, <2>1, <2>3, <2>4, <2>5 DEF ThreadInv
  <1>12. QED
    BY <1>10, <1>11 DEF Use, Crash, Initialised

-----------------------------------------------------------------------------
\* What freeing the registered store of a thread that ends keeps.
LEMMA FreeKeepsHeap ==
  ASSUME ThreadInv, ThreadTypeOK', NEW t \in Threads, Mine(t) # NULL, Mine(t)' = NULL,
         UNCHANGED <<kernel, cache>>, instances' = instances \ {Mine(t)},
         heap' = tesla_store_free(heap, Mine(t)),
         phase'[t] \in {"exiting", "dead"}, kernel => phase'[t] = "dead",
         \A u \in Threads : u # t => Mine(u)' = Mine(u) /\ phase'[u] = phase[u]
  PROVE  /\ RegisteredOK' /\ HeapOK'
         /\ \A u \in Threads : Made(u)' = Made(u)
  <1>1. PICK s \in Stores : s = Mine(t)
    BY KeysThere DEF ThreadInv, ThreadTypeOK, Mine, Slot
  <1>2. s[1] = t /\ heap[s]["store"] = "live"
    BY <1>1 DEF ThreadInv, RegisteredOK
  <1>3. \A r \in Stores : r # s => heap'[r] = heap[r]
    BY <1>1 DEF ThreadInv, ThreadTypeOK, tesla_store_free
  <1>4. \A b \in Blocks : heap'[s][b] = IF b \notin {"ts_classes", "tls_dyn_classes"} /\ heap[s][b] = "live"
                                        THEN "freed" ELSE heap[s][b]
    BY <1>1 DEF ThreadInv, ThreadTypeOK, tesla_store_free
  <1>5. /\ heap'[s]["store"] = "freed" /\ heap'[s]["tls_dyn_classes"] = heap[s]["tls_dyn_classes"]
        /\ \A b \in Blocks : heap'[s][b] = "live" => b \in {"ts_classes", "tls_dyn_classes"}
    BY <1>2, <1>4 DEF Blocks
  <1>6. HeapOK'
    <2> SUFFICES ASSUME NEW r \in Stores PROVE HeapOK!(r)'
      BY DEF HeapOK
    <2>1. HeapOK!(r) /\ r[1] \in Threads /\ r # NULL
      BY ThreadStoreAssumption DEF ThreadInv, HeapOK, Stores
    <2>2. CASE r = s
      BY <1>1, <1>2, <1>5, <2>1, <2>2
    <2>3. CASE r # s
      <3>1. heap'[r] = heap[r]
        BY <1>3, <2>3
      <3>2. heap[r]["store"] = "live" => Mine(r[1])' = r
        BY <1>1, <2>1, <2>3
      <3>3. phase[r[1]] \in {"exiting", "dead"} /\ (kernel => phase[r[1]] = "dead") =>
              phase'[r[1]] \in {"exiting", "dead"} /\ (kernel => phase'[r[1]] = "dead")
        BY <2>1
      <3>4. QED
        BY <2>1, <3>1, <3>2, <3>3 DEF NoBlocks
    <2>4. QED
      BY <2>2, <2>3
  <1>7. RegisteredOK'
    <2> SUFFICES ASSUME NEW u \in Threads PROVE RegisteredOK!(u)'
      BY DEF RegisteredOK
    <2>1. RegisteredOK!(u) /\ (cache[u] # NULL => cache[u] \in Stores)
          /\ (Mine(u) # NULL => Mine(u) \in Stores)
      BY KeysThere DEF ThreadInv, RegisteredOK, ThreadTypeOK, Mine, Slot
    <2>2. CASE u = t
      BY <1>2, <1>3, <1>5, <2>1, <2>2
    <2>3. CASE u # t
      <3>1. Mine(u) # s /\ cache[u] # s
        BY <1>2, <2>1, <2>3, ThreadStoreAssumption
      <3>2. QED
        BY <1>3, <2>1, <2>3, <3>1
    <2>4. QED
      BY <2>2, <2>3
  <1>8. heap[s] # NoBlocks /\ heap'[s] # NoBlocks
    BY <1>2, <1>5 DEF NoBlocks, Blocks
  <1>9. \A u \in Threads : Made(u)' = Made(u)
    BY <1>3, <1>8 DEF Made
  <1>10. QED
    BY <1>6, <1>7, <1>9

\* The destructor of the key.
LEMMA DestructorKeeps ==
  ASSUME ThreadInv, NEW t \in Threads, tesla_pthread_destructor(t)
  PROVE  ThreadInv'
  <1> DEFINE held == {specific[t][k] : k \in Keys} \ {NULL}
  <1>1. IInv' /\ (key_initialised = 1 => key_initialised' = 1)
    BY KeyStands DEF ThreadInv, tesla_pthread_destructor
  <1>2. /\ fault = "none" /\ ~kernel /\ phase[t] = "exiting" /\ at[t] = "idle"
        /\ ~round[t].tesla /\ round' = [round EXCEPT ![t].tesla = TRUE]
        /\ specific' = [specific EXCEPT ![t] = [k \in Keys |-> NULL]]
        /\ UNCHANGED <<kernel, cache, at, phase, calls, fault, pc>>
    BY DEF tesla_pthread_destructor, Alive, Stay, vars
  <1>3. /\ heap' = [s \in Stores |-> IF s \in held THEN tesla_store_free(heap, s)[s] ELSE heap[s]]
        /\ instances' = instances \ held
    BY DEF tesla_pthread_destructor
  <1>4. held = {Mine(t)} \ {NULL}
    BY <1>2, KeysThere DEF ThreadInv, KeyInUse, Mine, Slot
  <1> HIDE DEF held
  <1>5. Mine(t)' = NULL /\ \A u \in Threads : u # t => Mine(u)' = Mine(u)
    BY <1>2, KeysThere DEF ThreadInv, ThreadTypeOK, Mine, Slot
  <1>6. Mine(t) \in Stores \cup {NULL}
    BY KeysThere DEF ThreadInv, ThreadTypeOK, Mine, Slot
  <1>7. heap' = IF Mine(t) = NULL THEN heap ELSE tesla_store_free(heap, Mine(t))
    <2>1. CASE Mine(t) = NULL
      BY <1>3, <1>4, <2>1 DEF ThreadInv, ThreadTypeOK
    <2>2. CASE Mine(t) # NULL
      <3>1. PICK m \in Stores : m = Mine(t)
        BY <1>6, <2>2
      <3>2. held = {m}
        BY <1>4, <2>2, <3>1
      <3>3. heap' = [r \in Stores |-> IF r = m THEN tesla_store_free(heap, m)[m] ELSE heap[r]]
        BY <1>3, <3>2
      <3>4. \A r \in Stores : r # m => tesla_store_free(heap, m)[r] = heap[r]
        BY DEF ThreadInv, ThreadTypeOK, tesla_store_free
      <3>5. tesla_store_free(heap, m) = [r \in Stores |-> tesla_store_free(heap, m)[r]]
        BY DEF ThreadInv, ThreadTypeOK, tesla_store_free
      <3>6. heap' = tesla_store_free(heap, m)
        BY <3>3, <3>4, <3>5
      <3>7. QED
        BY <2>2, <3>1, <3>6
    <2>3. QED
      BY <2>1, <2>2
  <1>8. heap' \in [Stores -> [Blocks -> {"none", "live", "freed"}]]
    BY <1>6, <1>7 DEF ThreadInv, ThreadTypeOK, tesla_store_free
  <1>9. /\ round' \in [Threads -> [n : 0 .. Iterations, tesla : BOOLEAN, app : BOOLEAN]]
        /\ round'[t].n = round[t].n /\ round'[t].tesla /\ round'[t].app = round[t].app
        /\ \A u \in Threads : u # t => round'[u] = round[u]
    BY <1>2 DEF ThreadInv, ThreadTypeOK
  <1>10. ThreadTypeOK'
    BY <1>2, <1>3, <1>8, <1>9 DEF ThreadInv, ThreadTypeOK
  <1>11. CallPhases'
    BY <1>2, <1>5 DEF ThreadInv, CallPhases
  <1>12. KeyInUse'
    <2>1. \A u \in Threads, k \in Keys : specific'[u][k] \in {NULL, specific[u][k]}
      BY <1>2 DEF ThreadInv, ThreadTypeOK
    <2>2. QED
      BY <1>1, <1>2, <1>5, <2>1 DEF ThreadInv, KeyInUse, Slot
  <1>13. RegisteredOK' /\ HeapOK' /\ \A u \in Threads : Made(u)' = Made(u)
    <2>1. CASE Mine(t) # NULL
      BY <1>2, <1>3, <1>4, <1>5, <1>7, <1>10, <2>1, FreeKeepsHeap
    <2>2. CASE Mine(t) = NULL
      <3>1. UNCHANGED <<heap, instances>> /\ \A u \in Threads : Mine(u)' = Mine(u)
        BY <1>3, <1>4, <1>5, <1>7, <2>2
      <3>2. QED
        BY <1>2, <3>1 DEF ThreadInv, RegisteredOK, HeapOK, NoBlocks, Stores, Made
    <2>3. QED
      BY <2>1, <2>2
  <1>14. Turns'
    BY <1>2, <1>5, <1>9 DEF ThreadInv, Turns
  <1>15. MadeOK'
    <2>1. \A u \in Threads : round[u].n \in Int
      BY DEF ThreadInv, ThreadTypeOK
    <2>2. /\ \A u \in Threads : Done(u)' \in Int /\ Done(u) \in Int
          /\ Done(t)' = Done(t) + 1 /\ \A u \in Threads : u # t => Done(u)' = Done(u)
      BY <1>2, <1>9, <2>1 DEF Done
    <2>3. QED
      BY <1>2, <1>5, <1>13, <2>2, MadeSame DEF ThreadInv
  <1>16. CallsOK'
    BY <1>2, <1>5 DEF ThreadInv, CallsOK
  <1>17. FaultIsExplained'
    BY <1>2 DEF FaultIsExplained
  <1>18. QED
    BY <1>1, <1>10, <1>11, <1>12, <1>13, <1>14, <1>15, <1>16, <1>17 DEF ThreadInv

\* The destructor of kernel threads.
LEMMA ThreadDtorKeeps ==
  ASSUME ThreadInv, NEW t \in Threads, tesla_perthread_thread_dtor(t)
  PROVE  ThreadInv'
  <1>1. IInv' /\ (key_initialised = 1 => key_initialised' = 1)
    BY KeyStands DEF ThreadInv, tesla_perthread_thread_dtor
  <1>2. /\ fault = "none" /\ kernel /\ phase[t] \in {"running", "exiting"}
        /\ specific' = [specific EXCEPT ![t][0] = NULL] /\ Mine(t) = specific[t][0]
        /\ UNCHANGED <<kernel, cache, at, round, calls, pc>>
    BY DEF tesla_perthread_thread_dtor, Alive, Stay, vars, Mine, Slot
  <1>3. /\ Mine(t)' = NULL /\ Mine(t) \in Stores \cup {NULL}
        /\ \A u \in Threads : u # t => Mine(u)' = Mine(u)
    BY <1>2, KeysThere DEF ThreadInv, ThreadTypeOK, Mine, Slot
  <1>4. KeyInUse'
    <2>1. \A u \in Threads, k \in Keys : specific'[u][k] \in {NULL, specific[u][k]}
      BY <1>2 DEF ThreadInv, ThreadTypeOK
    <2>2. QED
      BY <1>1, <1>2, <1>3, <2>1 DEF ThreadInv, KeyInUse, Slot
  <1>5. specific' \in [Threads -> [Keys -> Stores \cup {NULL}]]
    BY <1>2, KeysThere DEF ThreadInv, ThreadTypeOK
  <1>6. \A u \in Threads : Done(u)' = Done(u) /\ Done(u) \in Int
    BY <1>2 DEF Done, ThreadInv, ThreadTypeOK
  <1>7. CASE Mine(t) = NULL /\ fault' = "null" /\ UNCHANGED <<heap, instances, phase>>
    <2>1. \A u \in Threads : Mine(u)' = Mine(u)
      BY <1>3, <1>7
    <2>2. ThreadTypeOK'
      BY <1>2, <1>5, <1>7 DEF ThreadInv, ThreadTypeOK
    <2>3. CallPhases' /\ RegisteredOK' /\ HeapOK' /\ Turns' /\ CallsOK'
      BY <1>2, <1>7, <2>1 DEF ThreadInv, CallPhases, RegisteredOK, HeapOK, Turns, CallsOK,
           NoBlocks, Stores
    <2>4. MadeOK'
      BY <1>2, <1>6, <1>7, <2>1, MadeStands DEF ThreadInv
    <2>5. t \in EarlyThreads
      BY <1>2, <1>7 DEF ThreadInv, CallsOK
    <2>6. Made(t) = {}
      <3>1. Done(t) = 0
        BY <1>2 DEF ThreadInv, Turns, Done
      <3>2. PICK n \in 0 .. Iterations + 1 : Made(t) = {t} \X (1 .. n) /\ n <= Done(t)
        BY <1>2, <1>7 DEF ThreadInv, MadeOK
      <3>3. 1 .. n = {}
        BY <3>1, <3>2, ThreadStoreAssumption
      <3>4. QED
        BY <3>2, <3>3
    <2>7. StoresOf(t) \cap {s \in Stores : heap'[s] # NoBlocks} = {}
      BY <1>7, <2>6 DEF Made, StoresOf
    <2>8. FaultIsExplained'
      BY <1>7, <2>5, <2>7 DEF FaultIsExplained, StoresOf, NoBlocks
    <2>9. QED
      BY <1>1, <1>4, <2>2, <2>3, <2>4, <2>8 DEF ThreadInv
  <1>8. CASE /\ Mine(t) # NULL /\ heap' = tesla_store_free(heap, Mine(t))
             /\ instances' = instances \ {Mine(t)}
             /\ phase' = [phase EXCEPT ![t] = "dead"] /\ UNCHANGED fault
    <2>1. phase'[t] = "dead" /\ \A u \in Threads : u # t => phase'[u] = phase[u]
      BY <1>8 DEF ThreadInv, ThreadTypeOK
    <2>2. heap' \in [Stores -> [Blocks -> {"none", "live", "freed"}]]
      BY <1>3, <1>8 DEF ThreadInv, ThreadTypeOK, tesla_store_free
    <2>3. ThreadTypeOK'
      BY <1>2, <1>5, <1>8, <2>2 DEF ThreadInv, ThreadTypeOK
    <2>4. RegisteredOK' /\ HeapOK' /\ \A u \in Threads : Made(u)' = Made(u)
      BY <1>2, <1>3, <1>8, <2>1, <2>3, FreeKeepsHeap
    <2>5. CallPhases' /\ Turns' /\ CallsOK'
      BY <1>2, <1>3, <1>8, <2>1 DEF ThreadInv, CallPhases, Turns, CallsOK
    <2>6. MadeOK'
      BY <1>2, <1>3, <1>6, <2>1, <2>4, MadeSame DEF ThreadInv
    <2>7. FaultIsExplained'
      BY <1>2, <1>8 DEF FaultIsExplained
    <2>8. QED
      BY <1>1, <1>4, <2>3, <2>4, <2>5, <2>6, <2>7 DEF ThreadInv
  <1>9. QED
    BY <1>2, <1>7, <1>8 DEF tesla_perthread_thread_dtor, Crash

\* An event in the kernel.
LEMMA KernelGetKeeps ==
  ASSUME ThreadInv, NEW t \in Threads, KernelGet(t)
  PROVE  ThreadInv'
  <1> DEFINE s == IF specific[t][0] = NULL THEN NextStore(t) ELSE specific[t][0]
  <1>1. IInv' /\ (key_initialised = 1 => key_initialised' = 1)
    BY KeyStands DEF ThreadInv, KernelGet
  <1>2. /\ fault = "none" /\ kernel /\ phase[t] = "running"
        /\ specific' = [specific EXCEPT ![t][0] = s] /\ Mine(t) = specific[t][0]
        /\ heap' = Initialised(s)
        /\ instances' \in {instances, instances \cup {s}}
        /\ UNCHANGED <<kernel, cache, at, phase, round, fault, pc>>
    BY DEF KernelGet, Alive, Stay, vars, Mine, Slot, Initialised
  <1>3. /\ calls' \in [Threads -> 0 .. 2] /\ calls'[t] > 0
        /\ calls[t] > 0 => calls'[t] = 2
        /\ \A u \in Threads : u # t => calls'[u] = calls[u]
    BY CallsCounted DEF KernelGet, ThreadInv, ThreadTypeOK
  <1>4. cache[t] = NULL
    BY <1>2 DEF ThreadInv, CallPhases
  <1>5. Mine(t) = NULL => s \in Stores /\ s # NULL /\ heap[s] = NoBlocks
    BY <1>2, RoomForStore
  <1>6. Mine(t) # NULL => s \in Stores /\ s = Mine(t) /\ heap[s]["store"] = "live"
    BY <1>2, KeysThere DEF ThreadInv, ThreadTypeOK, RegisteredOK
  <1>7. Mine(t) = NULL => s = NextStore(t)
    BY <1>2
  <1>8. s \in Stores /\ s # NULL
    BY <1>5, <1>6
  <1> HIDE DEF s
  <1>9. Mine(t)' = s /\ \A u \in Threads : u # t => Mine(u)' = Mine(u)
    BY <1>2, KeysThere DEF ThreadInv, ThreadTypeOK, Mine, Slot
  <1>10. ThreadTypeOK'
    <2>1. heap' \in [Stores -> [Blocks -> {"none", "live", "freed"}]]
      BY <1>2, <1>8 DEF ThreadInv, ThreadTypeOK, tesla_store_init, Initialised
    <2>2. specific' \in [Threads -> [Keys -> Stores \cup {NULL}]]
      BY <1>2, <1>8, KeysThere DEF ThreadInv, ThreadTypeOK
    <2>3. QED
      BY <1>2, <1>3, <1>8, <2>1, <2>2 DEF ThreadInv, ThreadTypeOK
  <1>11. RegisteredOK' /\ HeapOK' /\ MadeOK'
    <2>1. CASE Mine(t) = NULL
      <3>1. heap[s]["ts_classes"] = "none"
        BY <1>5, <2>1 DEF NoBlocks, Blocks
      <3>2. /\ heap'[s]["store"] = "live" /\ heap'[s]["tls_dyn_classes"] = "none"
            /\ \A r \in Stores : r # s => heap'[r] = heap[r]
        BY <1>2, <1>8, <3>1 DEF ThreadInv, ThreadTypeOK, tesla_store_init, Initialised, Blocks
      <3>3. QED
        BY <1>2, <1>4, <1>7, <1>9, <1>10, <2>1, <3>2, NewStoreKeeps
    <2>2. CASE Mine(t) # NULL
      <3>1. specific' = specific
        BY <1>2, <1>6, <2>2, KeysThere DEF ThreadInv, ThreadTypeOK
      <3>2. QED
        BY <1>2, <1>6, <2>2, <3>1, UseKeepsHeap
    <2>3. QED
      BY <2>1, <2>2
  <1>12. KeyInUse'
    <2>1. \A u \in Threads, k \in Keys : k # Slot => specific'[u][k] = specific[u][k]
      BY <1>2 DEF ThreadInv, ThreadTypeOK, Slot
    <2>2. QED
      BY <1>1, <1>2, <2>1 DEF ThreadInv, KeyInUse, Slot
  <1>13. CallPhases' /\ Turns'
    BY <1>2, <1>8, <1>9 DEF ThreadInv, CallPhases, Turns
  <1>14. CallsOK'
    BY <1>2, <1>3, <1>4, <1>8, <1>9 DEF ThreadInv, CallsOK, CallPhases
  <1>15. FaultIsExplained'
    BY <1>2 DEF FaultIsExplained
  <1>16. QED
    BY <1>1, <1>10, <1>11, <1>12, <1>13, <1>14, <1>15 DEF ThreadInv

-----------------------------------------------------------------------------
(* The theorems *)

\* The invariant holds at the start ...
LEMMA ThreadInitInv == ThreadInit => ThreadInv
  <1> SUFFICES ASSUME ThreadInit PROVE ThreadInv
    OBVIOUS
  <1> USE ThreadStoreAssumption
  <1>1. IInv /\ pc = [t \in Threads |-> "idle"]
    BY InitIInv DEF ThreadInit, Init
  <1>2. ThreadTypeOK
    <2>1. kernel \in BOOLEAN
      BY DEF ThreadInit
    <2>2. QED
      BY <2>1 DEF ThreadInit, ThreadTypeOK, NoBlocks
  <1>3. \A t \in Threads : Mine(t) = NULL
    BY KeysThere DEF ThreadInit, Mine, Slot
  <1>4. CallPhases /\ KeyInUse /\ RegisteredOK /\ Turns /\ CallsOK
    BY <1>1, <1>3 DEF ThreadInit, CallPhases, KeyInUse, RegisteredOK, Turns, CallsOK
  <1>5. HeapOK
    BY DEF ThreadInit, HeapOK, NoBlocks, Blocks
  <1>6. MadeOK
    <2> SUFFICES ASSUME NEW t \in Threads PROVE MadeOK!(t)
      BY DEF MadeOK
    <2>1. Made(t) = {} /\ Done(t) = 0
      BY DEF ThreadInit, Made, Done
    <2>2. {t} \X (1 .. 0) = {} /\ 0 \in 0 .. Iterations + 1
      OBVIOUS
    <2>3. QED
      BY <2>1, <2>2
  <1>7. FaultIsExplained
    BY DEF ThreadInit, FaultIsExplained
  <1>8. QED
    BY <1>1, <1>2, <1>4, <1>5, <1>6, <1>7 DEF ThreadInv

\* ... and every step of every thread keeps it.
LEMMA ThreadNextInv == ThreadInv /\ [ThreadNext]_allvars => ThreadInv'
  <1> SUFFICES ASSUME ThreadInv, [ThreadNext]_allvars PROVE ThreadInv'
    OBVIOUS
  <1>1. CASE UNCHANGED allvars
    <2>1. IInv'
      BY <1>1, KeyStands DEF allvars, ThreadInv
    <2>2. \A t \in Threads : Mine(t)' = Mine(t) /\ Made(t)' = Made(t) /\ Done(t)' = Done(t)
      BY <1>1 DEF allvars, tvars, Mine, Slot, Made, Done
    <2>3. ThreadTypeOK' /\ CallPhases' /\ KeyInUse' /\ RegisteredOK'
      BY <1>1, <2>2 DEF allvars, vars, tvars, ThreadInv, ThreadTypeOK, CallPhases, KeyInUse,
           RegisteredOK, Slot
    <2>4. HeapOK' /\ Turns' /\ CallsOK'
      BY <1>1, <2>2 DEF allvars, vars, tvars, ThreadInv, HeapOK, Turns, CallsOK, Stores, NoBlocks
    <2>5. MadeOK'
      BY <1>1, <2>2 DEF allvars, tvars, ThreadInv, MadeOK
    <2>6. FaultIsExplained'
      BY <1>1 DEF allvars, tvars, ThreadInv, FaultIsExplained, StoresOf, NoBlocks
    <2>7. QED
      BY <2>1, <2>3, <2>4, <2>5, <2>6 DEF ThreadInv
  <1>2. ASSUME NEW t \in Threads,
               \/ Get(t) \/ Step(t) \/ OutOfMemory(t) \/ Exit(t)
               \/ tesla_perthread_thread_ctor(t) \/ KernelGet(t)
               \/ tesla_perthread_process_dtor(t) \/ tesla_perthread_thread_dtor(t)
        PROVE  ThreadInv'
    BY <1>2, GetKeeps, KeyStepKeeps, KeyReturnsKeeps, CreateKeeps, UseKeeps,
       DestructorKeeps, EndRoundKeeps, OutOfMemoryKeeps, ExitKeeps, ThreadCtorKeeps,
       KernelGetKeeps, ProcessDtorKeeps, ThreadDtorKeeps DEF Step
  <1>3. QED
    BY <1>1, <1>2 DEF ThreadNext

LEMMA ThreadInvHolds == ThreadSpec => []ThreadInv
  BY ThreadInitInv, ThreadNextInv, PTL DEF ThreadSpec

\* "Retrieve the tesla_store for a context": however many threads race for the
\* key, end, and use TESLA in their destructors, no thread ever has two live
\* stores, and what hangs off a thread is a live store of its own.
THEOREM ThreadsHaveOneStore == ThreadSpec => []OneStorePerThread
  <1>1. ThreadInv => OneStorePerThread
    <2> SUFFICES ASSUME ThreadInv, NEW t \in Threads PROVE OneStorePerThread!(t)
      BY DEF OneStorePerThread
    <2> DEFINE live == {s \in StoresOf(t) : heap[s]["store"] = "live"}
    <2>1. live \subseteq {Mine(t)}
      BY DEF ThreadInv, HeapOK, StoresOf
    <2>2. IsFiniteSet({Mine(t)}) /\ Cardinality({Mine(t)}) = 1
      BY FS_Singleton
    <2>3. Cardinality(live) <= 1
      BY <2>1, <2>2, FS_Subset
    <2>4. ASSUME NEW k \in Keys, specific[t][k] # NULL
          PROVE  specific[t][k] \in StoresOf(t) /\ heap[specific[t][k]]["store"] = "live"
      BY <2>4 DEF ThreadInv, ThreadTypeOK, KeyInUse, RegisteredOK, Mine, StoresOf
    <2>5. QED
      BY <2>3, <2>4
  <1>2. QED
    BY <1>1, ThreadInvHolds, PTL

\* Nothing else goes wrong than what the code admits to: a freed store is only
\* used by a destructor that runs after TESLA's, through the cache that nothing
\* empties; and NULL is only freed for a kernel thread older than TESLA that
\* never met an event.
THEOREM FaultsAreExplained == ThreadSpec => []FaultIsExplained
  <1>1. ThreadInv => FaultIsExplained
    BY DEF ThreadInv
  <1>2. QED
    BY <1>1, ThreadInvHolds, PTL

\* tesla_store_free leaves the tables of classes and nothing else - a store's
\* own and, outside of the kernel, its lifetimes' dynamic lists - for every
\* thread that is gone, unless its destructors made a store in the last round.
THEOREM TablesAloneLeak == ThreadSpec => []OnlyTablesLeak
  <1>1. ThreadInv => OnlyTablesLeak
    <2> SUFFICES ASSUME ThreadInv, NEW t \in Threads, phase[t] = "dead", NEW s \in StoresOf(t),
                        round[t].n # Iterations
                 PROVE  /\ Live(s) \subseteq {"ts_classes", "tls_dyn_classes"} /\ s \notin instances
                        /\ kernel => "tls_dyn_classes" \notin Live(s)
      BY DEF OnlyTablesLeak
    <2>1. s \in Stores /\ s[1] = t /\ s # NULL
      BY ThreadStoreAssumption DEF StoresOf
    <2>2. Mine(t) = NULL
      BY DEF ThreadInv, Turns
    <2>3. heap[s]["store"] \in {"none", "freed"}
      BY <2>1, <2>2 DEF ThreadInv, HeapOK, ThreadTypeOK, Blocks
    <2>4. \A b \in Blocks : heap[s][b] = "live" => b \in {"ts_classes", "tls_dyn_classes"}
      BY <2>1, <2>3 DEF ThreadInv, HeapOK, NoBlocks
    <2>5. QED
      BY <2>1, <2>3, <2>4 DEF ThreadInv, HeapOK, Live
  <1>2. QED
    BY <1>1, ThreadInvHolds, PTL

\* tesla_store_get uses pthread_key as its specification says, from any number
\* of threads and from destructors, so what is proved of the key holds here.
THEOREM KeyIsUsedAsSpecified == ThreadSpec => Spec
  <1>1. ThreadInit => Init
    BY DEF ThreadInit
  <1>2. [ThreadNext]_allvars => [Next]_vars
    <2> SUFFICES ASSUME [ThreadNext]_allvars PROVE [Next]_vars
      OBVIOUS
    <2>1. CASE UNCHANGED allvars
      BY <2>1 DEF allvars
    <2>2. ASSUME NEW t \in Threads,
                 \/ Get(t) \/ Step(t) \/ OutOfMemory(t) \/ Exit(t)
                 \/ tesla_perthread_thread_ctor(t) \/ KernelGet(t)
                 \/ tesla_perthread_process_dtor(t) \/ tesla_perthread_thread_dtor(t)
          PROVE  [Next]_vars
      <3>1. CASE Get(t)
        BY <3>1 DEF Get, Next
      <3>2. CASE KeyStep(t) \/ KeyReturns(t)
        BY <3>2 DEF KeyStep, KeyReturns, Next, Run
      <3>3. CASE Create(t) \/ Use(t) \/ tesla_pthread_destructor(t) \/ EndRound(t)
        BY <3>3 DEF Create, Use, tesla_pthread_destructor, EndRound
      <3>4. CASE OutOfMemory(t) \/ Exit(t)
        BY <3>4 DEF OutOfMemory, Exit
      <3>5. CASE \/ tesla_perthread_thread_ctor(t) \/ KernelGet(t)
                 \/ tesla_perthread_process_dtor(t) \/ tesla_perthread_thread_dtor(t)
        BY <3>5 DEF tesla_perthread_thread_ctor, KernelGet, tesla_perthread_process_dtor,
             tesla_perthread_thread_dtor
      <3>6. QED
        BY <2>2, <3>1, <3>2, <3>3, <3>4, <3>5 DEF Step
    <2>3. QED
      BY <2>1, <2>2 DEF ThreadNext
  <1>3. QED
    BY <1>1, <1>2, PTL DEF ThreadSpec, Spec
=============================================================================
