----------------------------- MODULE ThreadStore ----------------------------
(***************************************************************************)
(* The stores of threads, from the first event of a thread to its end      *)
(* (tesla_store.c, tesla_class.c, tesla_class_perthread.c).  In userspace  *)
(* a store hangs off a pthread key, which PthreadKey makes step by step,   *)
(* and is cached in a __thread variable; the key's destructor frees it,    *)
(* and other keys' destructors, which may run instrumented code, run       *)
(* before and after.  In the kernel the store hangs off the thread and is  *)
(* made and freed by event handlers.                                       *)
(*                                                                         *)
(* A store is <<thread, n>>, the n-th that was made for the thread.  Of    *)
(* the heap only the blocks of the stores are kept, by what they are for.  *)
(* What thread-specific storage does is POSIX's, not this code's.          *)
(***************************************************************************)
EXTENDS PthreadKey, FiniteSets

CONSTANTS
  KernelBuilds,   \* the builds to look at: TRUE for the kernel
  EarlyThreads,   \* kernel threads made before the event handlers were there
  MayFail,        \* may tesla_malloc return NULL in userspace?
  Iterations,     \* PTHREAD_DESTRUCTOR_ITERATIONS
  NULL

\* tls_dyn_classes stands for the lists of all lifetimes of a store.
Blocks == {"store", "ts_classes", "tc_instances", "ts_lifetimes", "tls_dyn_classes"}
Stores == Threads \X (1 .. Iterations + 1)
Keys == 0 .. Cardinality(Threads)

ASSUME ThreadStoreAssumption ==
  /\ KernelBuilds \subseteq BOOLEAN /\ MayFail \in BOOLEAN
  /\ IsFiniteSet(Threads) /\ EarlyThreads \subseteq Threads
  /\ Iterations \in Nat \ {0}
  /\ NULL \notin Stores

VARIABLES
  kernel,
  specific,       \* pthread_getspecific, per thread and key; td_tesla (key 0)
  cache,          \* the __thread variable
  heap,           \* [Stores -> [Blocks -> "none", "live" or "freed"]]
  instances,      \* stores in which an automaton has instances
  at,             \* "idle", or where the thread is in tesla_store_get
  phase,          \* "none", "running", "exiting", "dead"
  round,          \* the destructors' turns: [n, tesla, app]
  calls,          \* history: how many calls have succeeded so far, up to 2
  fault

tvars == <<kernel, specific, cache, heap, instances, at, phase, round, calls, fault>>
allvars == <<vars, tvars>>

NoBlocks == [b \in Blocks |-> "none"]

ThreadInit ==
  /\ Init
  /\ kernel \in KernelBuilds
  /\ specific = [t \in Threads |-> [k \in Keys |-> NULL]]
  /\ cache = [t \in Threads |-> NULL]
  /\ heap = [s \in Stores |-> NoBlocks]
  /\ instances = {}
  /\ at = [t \in Threads |-> "idle"]
  /\ phase = [t \in Threads |-> IF kernel /\ t \notin EarlyThreads
                                THEN "none" ELSE "running"]
  /\ round = [t \in Threads |-> [n |-> 0, tesla |-> TRUE, app |-> TRUE]]
  /\ calls = [t \in Threads |-> 0]
  /\ fault = "none"

Alive == fault = "none"
Crash(why) == fault' = why
Stay(vs) == UNCHANGED <<kernel, vs>>

\* The blocks of store s that are in use.
Live(s) == {b \in Blocks : heap[s][b] = "live"}
NextStore(t) == <<t, 1 + Cardinality({s \in Stores : s[1] = t /\ heap[s] # NoBlocks})>>

\* A thread runs instrumented code: always while it runs, and in userspace
\* also in a destructor of the application, which has its own turn.
MayRun(t) ==
  /\ Alive /\ at[t] = "idle"
  /\ phase[t] = "running" \/ (phase[t] = "exiting" /\ ~round[t].app)
TakeTurn(t) == round' = [round EXCEPT ![t].app = TRUE]

-----------------------------------------------------------------------------
(* tesla_store_init, tesla_class_init, tesla_store_free, tesla_store_reset *)

\* The lifetimes are cleared: they have no dynamic lists yet.
tesla_store_init(h, s) ==
  [h EXCEPT ![s] = [b \in Blocks |-> IF b = "tls_dyn_classes" THEN "none" ELSE "live"]]

\* An update registers a class in a lifetime whose static list is full: the
\* dynamic list is allocated, or reallocated.
AllocatesDynamic(h, s) == [h EXCEPT ![s]["tls_dyn_classes"] = "live"]

\* Faulty variant: the lifetimes are not freed either.
FreeKeepsLifetimes(h, s) ==
  [h EXCEPT ![s] = [b \in Blocks |->
     IF b \in {"store", "tc_instances"} /\ h[s][b] = "live" THEN "freed"
     ELSE h[s][b]]]

\* tesla_class_destroy for every class, then the lifetimes and the store; the
\* table of classes itself is not freed, nor are the lifetimes' dynamic lists.
tesla_store_free(h, s) ==
  [h EXCEPT ![s] = [b \in Blocks |->
     IF b \notin {"ts_classes", "tls_dyn_classes"} /\ h[s][b] = "live" THEN "freed"
     ELSE h[s][b]]]

\* Every class of the store is reset.
tesla_store_reset(s) == instances' = instances \ {s}

-----------------------------------------------------------------------------
(* tesla_store_get *)

\* An event in userspace: the cache is looked at before the key is.
Get(t) ==
  /\ MayRun(t) /\ ~kernel
  /\ IF cache[t] = NULL
     THEN Call(t) /\ at' = [at EXCEPT ![t] = "key"]
     ELSE UNCHANGED vars /\ at' = [at EXCEPT ![t] = "found"]
  /\ TakeTurn(t)
  /\ Stay(<<specific, cache, heap, instances, phase, calls, fault>>)

\* pthread_key() is under way ...
KeyStep(t) ==
  /\ Alive /\ at[t] = "key"
  /\ \/ CheckFails(t) \/ Lock(t) \/ RecheckFails(t)
     \/ pthread_key_create(t) \/ Publish(t)
  /\ UNCHANGED tvars

\* ... and returns the key.
KeyReturns(t) ==
  /\ Alive /\ at[t] = "key"
  /\ CheckInitialised(t) \/ RecheckInitialised(t) \/ Unlock(t)
  /\ cache' = [cache EXCEPT ![t] = specific[t][key]]
  /\ at' = [at EXCEPT ![t] = IF specific[t][key] = NULL THEN "create" ELSE "found"]
  /\ Stay(<<specific, heap, instances, phase, round, calls, fault>>)

\* Faulty variant: the new store is cached at once.
CreateCaches(t) ==
  /\ Alive /\ at[t] = "create"
  /\ heap' = [heap EXCEPT ![NextStore(t)]["store"] = "live"]
  /\ specific' = [specific EXCEPT ![t][key] = NextStore(t)]
  /\ cache' = [cache EXCEPT ![t] = NextStore(t)]
  /\ at' = [at EXCEPT ![t] = "found"]
  /\ UNCHANGED vars
  /\ Stay(<<instances, phase, round, calls, fault>>)

\* Faulty variant: the new store is not registered under the key.
CreateUnregistered(t) ==
  /\ Alive /\ at[t] = "create"
  /\ heap' = [heap EXCEPT ![NextStore(t)] = [b \in Blocks |-> "live"]]
  /\ at' = [at EXCEPT ![t] = "idle"]
  /\ UNCHANGED vars
  /\ Stay(<<specific, cache, instances, phase, round, calls, fault>>)

\* tesla_malloc and pthread_setspecific; the cache is left empty.
Create(t) ==
  /\ Alive /\ at[t] = "create"
  /\ heap' = [heap EXCEPT ![NextStore(t)]["store"] = "live"]
  /\ specific' = [specific EXCEPT ![t][key] = NextStore(t)]
  /\ at' = [at EXCEPT ![t] = "found"]
  /\ UNCHANGED vars
  /\ Stay(<<cache, instances, phase, round, calls, fault>>)

\* An allocation fails: a NULL store or table of lifetimes is written to, and
\* TESLA_ERROR_ENOMEM is asserted against by every caller.
OutOfMemory(t) ==
  /\ Alive /\ MayFail /\ ~kernel
  /\ at[t] = "create"
  /\ Crash("memory")
  /\ UNCHANGED vars
  /\ Stay(<<specific, cache, heap, instances, at, phase, round, calls>>)

TheStore(t) == IF cache[t] # NULL THEN cache[t] ELSE specific[t][key]

\* if (store->ts_length == 0) tesla_store_init(store), and what the event
\* then does with it; a store that has been freed is used all the same.
Use(t) ==
  LET s == TheStore(t) IN
  /\ Alive /\ at[t] = "found"
  /\ \/ /\ heap[s]["store"] = "freed"
        /\ Crash("use_after_free")
        /\ UNCHANGED <<heap, instances, calls>>
     \/ /\ heap[s]["store"] = "live"
        /\ LET h == IF heap[s]["ts_classes"] = "none" THEN tesla_store_init(heap, s) ELSE heap
           IN \/ heap' = h /\ instances' \in {instances, instances \cup {s}}
              \/ heap' = AllocatesDynamic(h, s) /\ instances' = instances \cup {s}
        /\ calls' = [calls EXCEPT ![t] = IF @ < 2 THEN @ + 1 ELSE 2]
        /\ UNCHANGED fault
  /\ at' = [at EXCEPT ![t] = "idle"]
  /\ UNCHANGED vars
  /\ Stay(<<specific, cache, phase, round>>)

-----------------------------------------------------------------------------
(* The end of a thread in userspace *)

\* The application has, or has not, a key with a destructor of its own.
Exit(t) ==
  /\ Alive /\ ~kernel /\ phase[t] = "running" /\ at[t] = "idle"
  /\ phase' = [phase EXCEPT ![t] = "exiting"]
  /\ \E app \in BOOLEAN :
       round' = [round EXCEPT ![t] = [n |-> 1, tesla |-> FALSE, app |-> ~app]]
  /\ UNCHANGED vars
  /\ Stay(<<specific, cache, heap, instances, at, calls, fault>>)

\* The value is set to NULL, then tesla_pthread_destructor frees the store.
tesla_pthread_destructor(t) ==
  /\ Alive /\ ~kernel /\ phase[t] = "exiting" /\ at[t] = "idle" /\ ~round[t].tesla
  /\ round' = [round EXCEPT ![t].tesla = TRUE]
  /\ specific' = [specific EXCEPT ![t] = [k \in Keys |-> NULL]]
  /\ LET held == {specific[t][k] : k \in Keys} \ {NULL} IN
     /\ heap' = [s \in Stores |-> IF s \in held THEN tesla_store_free(heap, s)[s] ELSE heap[s]]
     /\ instances' = instances \ held
  /\ UNCHANGED vars
  /\ Stay(<<cache, at, phase, calls, fault>>)

\* "If, after all the destructors have been called [...] there are still some
\* non-NULL values", another round, but only so many.
EndRound(t) ==
  /\ Alive /\ ~kernel /\ phase[t] = "exiting" /\ at[t] = "idle"
  /\ round[t].tesla /\ round[t].app
  /\ \/ /\ round[t].n < Iterations
        /\ \E app \in BOOLEAN :
             /\ app \/ \E k \in Keys : specific[t][k] # NULL
             /\ round' = [round EXCEPT ![t] =
                            [n |-> @.n + 1, tesla |-> FALSE, app |-> ~app]]
        /\ UNCHANGED phase
     \/ /\ round[t].n = Iterations \/ \A k \in Keys : specific[t][k] = NULL
        /\ phase' = [phase EXCEPT ![t] = "dead"]
        /\ UNCHANGED round
  /\ UNCHANGED vars
  /\ Stay(<<specific, cache, heap, instances, at, calls, fault>>)

-----------------------------------------------------------------------------
(* The kernel: td_tesla is specific[t][0] *)

tesla_perthread_thread_ctor(t) ==
  /\ Alive /\ kernel /\ phase[t] = "none"
  /\ heap' = tesla_store_init(heap, NextStore(t))
  /\ specific' = [specific EXCEPT ![t][0] = NextStore(t)]
  /\ phase' = [phase EXCEPT ![t] = "running"]
  /\ UNCHANGED vars
  /\ Stay(<<cache, instances, at, round, calls, fault>>)

\* tesla_store_get, and the event's use of the store; there are no dynamic
\* lists in the kernel.
KernelGet(t) ==
  LET s == IF specific[t][0] = NULL THEN NextStore(t) ELSE specific[t][0] IN
  /\ Alive /\ kernel /\ phase[t] = "running"
  /\ specific' = [specific EXCEPT ![t][0] = s]
  /\ heap' = IF heap[s]["ts_classes"] = "none" THEN tesla_store_init(heap, s) ELSE heap
  /\ instances' \in {instances, instances \cup {s}}
  /\ calls' = [calls EXCEPT ![t] = IF @ < 2 THEN @ + 1 ELSE 2]
  /\ UNCHANGED vars
  /\ Stay(<<cache, at, phase, round, fault>>)

\* The process is destroyed: tesla_store_reset of its first thread's store.
tesla_perthread_process_dtor(t) ==
  /\ Alive /\ kernel /\ phase[t] = "running"
  /\ phase' = [phase EXCEPT ![t] = "exiting"]
  /\ tesla_store_reset(specific[t][0])
  /\ UNCHANGED vars
  /\ Stay(<<specific, cache, heap, at, round, calls, fault>>)

\* A thread is destroyed, by itself or with its process.  A store that was
\* never made is freed all the same: store->ts_length of NULL.
tesla_perthread_thread_dtor(t) ==
  /\ Alive /\ kernel /\ phase[t] \in {"running", "exiting"}
  /\ specific' = [specific EXCEPT ![t][0] = NULL]
  /\ IF specific[t][0] = NULL
     THEN Crash("null") /\ UNCHANGED <<heap, instances, phase>>
     ELSE /\ heap' = tesla_store_free(heap, specific[t][0])
          /\ instances' = instances \ {specific[t][0]}
          /\ phase' = [phase EXCEPT ![t] = "dead"]
          /\ UNCHANGED fault
  /\ UNCHANGED vars
  /\ Stay(<<cache, at, round, calls>>)

-----------------------------------------------------------------------------
Step(t) ==
  \/ KeyStep(t) \/ KeyReturns(t) \/ Create(t) \/ Use(t)
  \/ tesla_pthread_destructor(t) \/ EndRound(t)

ThreadNext ==
  \/ \E t \in Threads :
       \/ Get(t) \/ Step(t) \/ OutOfMemory(t) \/ Exit(t)
       \/ tesla_perthread_thread_ctor(t) \/ KernelGet(t)
       \/ tesla_perthread_process_dtor(t) \/ tesla_perthread_thread_dtor(t)
  \/ (~Alive \/ \A t \in Threads : phase[t] = "dead" \/ pc[t] = "lock")
       /\ UNCHANGED allvars

\* A thread that can run does; an application's destructor runs in its turn;
\* the mutex is fair to a thread that waits for it over and over again.
ThreadSpec ==
  /\ ThreadInit /\ [][ThreadNext]_allvars
  /\ \A t \in Threads :
       /\ WF_allvars(Step(t)) /\ SF_allvars(KeyStep(t) /\ Lock(t))
       /\ WF_allvars(phase[t] = "exiting" /\ Get(t))

-----------------------------------------------------------------------------
(* Properties *)

StoresOf(t) == {s \in Stores : s[1] = t}

\* "Retrieve the tesla_store for a context": a thread never has two stores
\* with automata in them, and what hangs off a thread that runs is its own
\* store, which has not been freed.
OneStorePerThread ==
  \A t \in Threads :
    /\ Cardinality({s \in StoresOf(t) : heap[s]["store"] = "live"}) <= 1
    /\ \A k \in Keys : specific[t][k] # NULL =>
         specific[t][k] \in StoresOf(t) /\ heap[specific[t][k]]["store"] = "live"

\* What can go wrong, and only then: a freed store is only used by a thread
\* that is past its TESLA destructor and had used TESLA at least twice before
\* (the second call fills the cache, which nothing empties); NULL is only
\* freed for a kernel thread older than TESLA that never met an event.
FaultIsExplained ==
  /\ fault = "use_after_free" =>
       \E t \in Threads : phase[t] = "exiting" /\ cache[t] # NULL /\ calls[t] = 2
                          /\ specific[t] = [k \in Keys |-> NULL]
  /\ fault = "null" => \E t \in EarlyThreads : StoresOf(t) \cap {s \in Stores : heap[s] # NoBlocks} = {}

\* Automata of a thread that has used TESLA once or twice only live as long
\* as it does: when the thread is gone, no block of its stores is left but
\* the tables of classes, which tesla_store_free leaves behind (the store's
\* own and, outside of the kernel, the dynamic lists of its lifetimes); unless
\* the destructors made another store in the last round.
OnlyTablesLeak ==
  \A t \in Threads : phase[t] = "dead" =>
    \A s \in StoresOf(t) :
      \/ /\ Live(s) \subseteq {"ts_classes", "tls_dyn_classes"} /\ s \notin instances
         /\ kernel => "tls_dyn_classes" \notin Live(s)
      \/ round[t].n = Iterations

\* The mutex of pthread_key() was left locked by a call that has returned.
Abandoned == lock # NoThread /\ pc[lock] = "idle"

\* A thread that ends comes to its end, however its destructors use TESLA,
\* unless it has to wait for a mutex that nobody will unlock.
ExitCompletes ==
  \A t \in Threads :
    ~kernel /\ phase[t] = "exiting" ~> phase[t] = "dead" \/ ~Alive \/ Abandoned
=============================================================================
