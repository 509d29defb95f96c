----------------------------- MODULE TeslaStore -----------------------------
(***************************************************************************)
(* The global store of libtesla shared by the threads of a program         *)
(* (tesla_store.c, tesla_class_global.c): lazy initialisation of the store,*)
(* the hash table of classes, the lock of each class, the list in which    *)
(* the classes of one lifetime are registered, and the two users of a      *)
(* class: tesla_update_state, which takes the lock, and tesla_sunset,      *)
(* which does not.  Each step is one access to shared memory.              *)
(*                                                                         *)
(* What an update does to the instances of a class is the subject of       *)
(* TeslaUpdate; here only whether there are any is kept.  A full list of   *)
(* static registrations is treated as it is in the kernel.                 *)
(***************************************************************************)
EXTENDS Naturals, FiniteSets

CONSTANTS Threads,
          Automata,
          ts_length,      \* buckets once initialised (TESLA_MAX_CLASSES)
          hash,           \* [Automata -> Nat], fnv_hash32 of the description
          StaticClasses,  \* length of tls_classes: 32
          SysInit,        \* \subseteq BOOLEAN: may the store be initialised
                          \* before any thread runs (SYSINIT in the kernel)?
          SunsetThreads,  \* threads that may meet the end of a lifetime
          NULL

Buckets == 0 .. ts_length - 1

\* A thread initialises the store at most once, so this many tables suffice.
Tables == 1 .. Cardinality(Threads) + 1

\* A class is a bucket of a table that tesla_malloc returned.
Classes == Tables \X Buckets

ASSUME StoreAssumption ==
  /\ ts_length \in Nat \ {0} /\ StaticClasses \in Nat \ {0}
  /\ hash \in [Automata -> Nat]
  /\ SysInit \subseteq BOOLEAN
  /\ SunsetThreads \subseteq Threads
  /\ IsFiniteSet(Threads)
  /\ NULL \notin Automata \cup Threads \cup Nat \cup Classes
  /\ NULL \notin [automaton : Automata, place : Buckets]

VARIABLES
  length_set,     \* ts_length # 0
  ts_classes,     \* the current table, or NULL
  tables,         \* how many tables have been allocated
  raced,          \* history: a call came while another initialised the store
  contended,      \* history: how two threads have met (see Contend)
  class_inited,   \* [Classes -> BOOLEAN]: tesla_class_init has run
  tc_automaton,   \* [Classes -> Automata or NULL]
  tc_lock,        \* [Classes -> holder or NULL]
  has_instances,  \* [Classes -> BOOLEAN]: tc_free # tc_limit
  tls_classes,    \* [1 .. StaticClasses -> Classes or NULL]
  pc,
  autom,          \* the frames of the threads: the automaton of an update
  i,              \* (NULL in a sunset), the index into the table of classes
  slot,           \* or of the sunset, the index of the registration,
  tclass          \* and the class

table == <<length_set, ts_classes, tables, raced, contended>>
classes == <<class_inited, tc_automaton, has_instances>>
shared == <<table, classes, tc_lock, tls_classes>>
frame == <<autom, i, slot, tclass>>
vars == <<shared, pc, frame>>

Init ==
  /\ length_set \in SysInit
  /\ ts_classes = IF length_set THEN 1 ELSE NULL
  /\ tables = IF length_set THEN 1 ELSE 0
  /\ raced = FALSE /\ contended = {}
  /\ class_inited = [c \in Classes |-> length_set /\ c[1] = 1]
  /\ tc_automaton = [c \in Classes |-> NULL]
  /\ tc_lock = [c \in Classes |-> NULL]
  /\ has_instances = [c \in Classes |-> FALSE]
  /\ tls_classes = [n \in 1 .. StaticClasses |-> NULL]
  /\ pc = [t \in Threads |-> "idle"]
  /\ autom = [t \in Threads |-> NULL]
  /\ i = [t \in Threads |-> 0]
  /\ slot = [t \in Threads |-> 0]
  /\ tclass = [t \in Threads |-> NULL]

Goto(t, from, to) == pc[t] = from /\ pc' = [pc EXCEPT ![t] = to]

\* In tesla_update_class_state, and in tesla_sunset.
Working(t) == pc[t] \in {"update", "find", "register", "scan"}
AtSunset(t) == pc[t] = "sunset" \/ (Working(t) /\ autom[t] = NULL)

\* History: two threads met where the code does not keep them apart.
\*   "bucket"  both found the same bucket of the table empty
\*   "entry"   both found the same registration free
\*   "sunset"  a sunset and another one, or the late initialisation of a
\*             class, from its first instance to its registration
Contend(kind, met) ==
  contended' = IF met THEN contended \cup {kind} ELSE contended

-----------------------------------------------------------------------------
(* tesla_class_global.c: the lock of class c *)

tesla_class_global_lock_init(c) == tc_lock' = [tc_lock EXCEPT ![c] = NULL]
tesla_class_global_postinit(c) == tesla_class_global_lock_init(c)

tesla_class_global_acquire(c, t) ==
  /\ tc_lock[c] = NULL
  /\ tc_lock' = [tc_lock EXCEPT ![c] = t]

tesla_class_global_release(c) == tc_lock' = [tc_lock EXCEPT ![c] = NULL]

-----------------------------------------------------------------------------
(* tesla_store_get and tesla_store_init *)

Initialising(t) == pc[t] \in {"init_length", "init_table", "init_classes"}

\* tesla_update_state(a): read ts_length.
tesla_store_get(t, a) ==
  /\ Goto(t, "idle", IF length_set THEN "probe" ELSE "init_length")
  /\ autom' = [autom EXCEPT ![t] = a]
  /\ i' = [i EXCEPT ![t] = 0]
  /\ raced' = (raced \/ \E u \in Threads : Initialising(u))
  /\ UNCHANGED <<length_set, ts_classes, tables, contended, classes, tc_lock,
                 tls_classes, slot, tclass>>

\* Faulty variant: ts_length is not set.
InitLengthForgotten(t) ==
  /\ Goto(t, "init_length", "init_table")
  /\ UNCHANGED <<shared, frame>>

\* store->ts_length = classes: from here on nobody else initialises.
InitLength(t) ==
  /\ Goto(t, "init_length", "init_table")
  /\ length_set' = TRUE
  /\ UNCHANGED <<ts_classes, tables, raced, contended, classes, tc_lock,
                 tls_classes, frame>>

InitTable(t) ==
  /\ Goto(t, "init_table", "init_classes")
  /\ tables' = tables + 1
  /\ ts_classes' = tables + 1
  /\ UNCHANGED <<length_set, raced, contended, classes, tc_lock, tls_classes,
                 frame>>

\* tesla_class_init for each class of the table that ts_classes points to by
\* now; it makes the instances and the lock of the class anew.
InitClass(t) ==
  /\ pc[t] = "init_classes"
  /\ class_inited' = [class_inited EXCEPT ![<<ts_classes, i[t]>>] = TRUE]
  /\ has_instances' = [has_instances EXCEPT ![<<ts_classes, i[t]>>] = FALSE]
  /\ tesla_class_global_postinit(<<ts_classes, i[t]>>)
  /\ IF i[t] = ts_length - 1
     THEN /\ pc' = [pc EXCEPT ![t] = "probe"] /\ i' = [i EXCEPT ![t] = 0]
     ELSE /\ i' = [i EXCEPT ![t] = @ + 1] /\ UNCHANGED pc
  /\ UNCHANGED <<table, tc_automaton, tls_classes, autom, slot, tclass>>

-----------------------------------------------------------------------------
(* tesla_class_get: walk the table from the bucket of the hash *)

\* Faulty variant: the walk does not wrap around the array.
BucketClamped(t) ==
  LET b == (hash[autom[t]] % ts_length) + i[t]
  IN IF b < ts_length THEN b ELSE ts_length - 1

\* desc_hash + i is a uint32_t; it may wrap, but the length of the table, 128,
\* divides 2^32.
Bucket(t) == (hash[autom[t]] + i[t]) % ts_length
Probed(t) == <<ts_classes, Bucket(t)>>

\* ts_classes + bucket, when ts_classes has not been set yet.
ProbeFaults(t) ==
  /\ Goto(t, "probe", "crashed")
  /\ ts_classes = NULL
  /\ UNCHANGED <<shared, frame>>

\* Somebody else's bucket.
ProbeCollision(t) ==
  /\ pc[t] = "probe" /\ ts_classes # NULL /\ i[t] < ts_length
  /\ tc_automaton[Probed(t)] \notin {NULL, autom[t]}
  /\ i' = [i EXCEPT ![t] = @ + 1]
  /\ UNCHANGED <<shared, pc, autom, slot, tclass>>

ProbeFound(t) ==
  /\ Goto(t, "probe", "acquire")
  /\ ts_classes # NULL /\ i[t] < ts_length
  /\ tc_automaton[Probed(t)] = autom[t]
  /\ tclass' = [tclass EXCEPT ![t] = Probed(t)]
  /\ UNCHANGED <<shared, autom, i, slot>>

\* The bucket is empty ...
ProbeEmpty(t) ==
  /\ Goto(t, "probe", "claim")
  /\ ts_classes # NULL /\ i[t] < ts_length
  /\ tc_automaton[Probed(t)] = NULL
  /\ tclass' = [tclass EXCEPT ![t] = Probed(t)]
  /\ Contend("bucket", \E u \in Threads \ {t} : pc[u] = "claim" /\ tclass[u] = Probed(t))
  /\ UNCHANGED <<length_set, ts_classes, tables, raced, classes, tc_lock,
                 tls_classes, autom, i, slot>>

\* ... "take ownership of this bucket".
Claim(t) ==
  /\ Goto(t, "claim", "acquire")
  /\ tc_automaton' = [tc_automaton EXCEPT ![tclass[t]] = autom[t]]
  /\ UNCHANGED <<table, class_inited, has_instances, tc_lock, tls_classes,
                 frame>>

\* TESLA_ERROR_ENOENT, which tesla_update_state asserts against.
ProbeFull(t) ==
  /\ Goto(t, "probe", "no_entry")
  /\ ts_classes # NULL /\ i[t] = ts_length
  /\ UNCHANGED <<shared, frame>>

\* assert(tclass->tc_instances != NULL), then tesla_class_global_acquire.
AcquireUninitialised(t) ==
  /\ Goto(t, "acquire", "crashed")
  /\ ~class_inited[tclass[t]]
  /\ UNCHANGED <<shared, frame>>

\* Faulty variant: the lock is not waited for.
AcquireAnyway(t) ==
  /\ Goto(t, "acquire", "update")
  /\ class_inited[tclass[t]]
  /\ tc_lock' = [tc_lock EXCEPT ![tclass[t]] = t]
  /\ UNCHANGED <<table, classes, tls_classes, frame>>

Acquire(t) ==
  /\ Goto(t, "acquire", "update")
  /\ class_inited[tclass[t]]
  /\ tesla_class_global_acquire(tclass[t], t)
  /\ UNCHANGED <<table, classes, tls_classes, frame>>

-----------------------------------------------------------------------------
(* tesla_update_class_state, called with the lock by tesla_update_state and *)
(* without it by tesla_sunset *)

UpdateExisting(t) ==
  /\ Goto(t, "update", "scan")
  /\ has_instances[tclass[t]]
  /\ UNCHANGED <<shared, frame>>

\* Faulty variant: the search for a registration starts at the second one.
LateInitSkipsFirst(t) ==
  /\ Goto(t, "update", "find")
  /\ ~has_instances[tclass[t]]
  /\ has_instances' = [has_instances EXCEPT ![tclass[t]] = TRUE]
  /\ slot' = [slot EXCEPT ![t] = 2]
  /\ Contend("sunset", \E u \in Threads \ {t} : AtSunset(u))
  /\ UNCHANGED <<length_set, ts_classes, tables, raced, class_inited,
                 tc_automaton, tc_lock, tls_classes, autom, i, tclass>>

\* Late initialisation makes an instance, then looks for a free registration.
LateInit(t) ==
  /\ Goto(t, "update", "find")
  /\ ~has_instances[tclass[t]]
  /\ has_instances' = [has_instances EXCEPT ![tclass[t]] = TRUE]
  /\ slot' = [slot EXCEPT ![t] = 1]
  /\ Contend("sunset", \E u \in Threads \ {t} : AtSunset(u))
  /\ UNCHANGED <<length_set, ts_classes, tables, raced, class_inited,
                 tc_automaton, tc_lock, tls_classes, autom, i, tclass>>

FindTaken(t) ==
  /\ pc[t] = "find" /\ slot[t] <= StaticClasses
  /\ tls_classes[slot[t]] # NULL
  /\ slot' = [slot EXCEPT ![t] = @ + 1]
  /\ UNCHANGED <<shared, pc, autom, i, tclass>>

FindFree(t) ==
  /\ Goto(t, "find", "register")
  /\ slot[t] <= StaticClasses /\ tls_classes[slot[t]] = NULL
  /\ Contend("entry", \E u \in Threads \ {t} : pc[u] = "register" /\ slot[u] = slot[t])
  /\ UNCHANGED <<length_set, ts_classes, tables, raced, classes, tc_lock,
                 tls_classes, frame>>

\* "out of static registration space in lifetime"
FindNone(t) ==
  /\ Goto(t, "find", "scan")
  /\ slot[t] > StaticClasses
  /\ UNCHANGED <<shared, frame>>

Register(t) ==
  /\ Goto(t, "register", "scan")
  /\ tls_classes' = [tls_classes EXCEPT ![slot[t]] = tclass[t]]
  /\ UNCHANGED <<table, classes, tc_lock, frame>>

\* The update is over: tesla_class_put.
Release(t) ==
  /\ autom[t] # NULL /\ Goto(t, "scan", "idle")
  /\ tesla_class_global_release(tclass[t])
  /\ tclass' = [tclass EXCEPT ![t] = NULL]
  /\ autom' = [autom EXCEPT ![t] = NULL]
  /\ i' = [i EXCEPT ![t] = 0]
  /\ slot' = [slot EXCEPT ![t] = 0]
  /\ UNCHANGED <<table, classes, tls_classes>>

-----------------------------------------------------------------------------
(* tesla_sunset: walk the registered classes without taking their locks *)

SunsetBegin(t) ==
  /\ length_set /\ Goto(t, "idle", "sunset")
  /\ i' = [i EXCEPT ![t] = 1]
  /\ Contend("sunset", \E u \in Threads \ {t} :
                         AtSunset(u) \/ pc[u] \in {"find", "register"})
  /\ UNCHANGED <<length_set, ts_classes, tables, raced, classes, tc_lock,
                 tls_classes, autom, slot, tclass>>

SunsetVisit(t) ==
  /\ Goto(t, "sunset", "update")
  /\ i[t] <= StaticClasses /\ tls_classes[i[t]] # NULL
  /\ tclass' = [tclass EXCEPT ![t] = tls_classes[i[t]]]
  /\ UNCHANGED <<shared, autom, i, slot>>

\* The cleanup symbol ends the class's instances.
SunsetLeave(t) ==
  /\ autom[t] = NULL /\ Goto(t, "scan", "sunset")
  /\ has_instances' = [has_instances EXCEPT ![tclass[t]] = FALSE]
  /\ tclass' = [tclass EXCEPT ![t] = NULL]
  /\ i' = [i EXCEPT ![t] = @ + 1]
  /\ slot' = [slot EXCEPT ![t] = 0]
  /\ UNCHANGED <<table, class_inited, tc_automaton, tc_lock, tls_classes,
                 autom>>

\* bzero(ls->tls_classes)
SunsetEnd(t) ==
  /\ Goto(t, "sunset", "idle")
  /\ ~(i[t] <= StaticClasses /\ tls_classes[i[t]] # NULL)
  /\ tls_classes' = [n \in 1 .. StaticClasses |-> NULL]
  /\ i' = [i EXCEPT ![t] = 0]
  /\ UNCHANGED <<table, classes, tc_lock, autom, slot, tclass>>

-----------------------------------------------------------------------------
Run(t) == \/ InitLength(t) \/ InitTable(t) \/ InitClass(t)
          \/ ProbeFaults(t) \/ ProbeCollision(t) \/ ProbeFound(t)
          \/ ProbeEmpty(t) \/ Claim(t) \/ ProbeFull(t)
          \/ AcquireUninitialised(t) \/ Acquire(t) \/ UpdateExisting(t)
          \/ LateInit(t) \/ FindTaken(t) \/ FindFree(t) \/ FindNone(t)
          \/ Register(t) \/ Release(t)

\* A fault or a failed assertion of one thread ends the program.
Dead == \E t \in Threads : pc[t] \in {"crashed", "no_entry"}

Stopped == Dead /\ UNCHANGED vars

Sunset(t) == SunsetBegin(t) \/ SunsetVisit(t) \/ SunsetLeave(t) \/ SunsetEnd(t)

Next ==
  \/ ~Dead /\ \E t \in Threads, a \in Automata : tesla_store_get(t, a)
  \/ ~Dead /\ \E t \in Threads : Run(t)
  \/ ~Dead /\ \E t \in SunsetThreads : Sunset(t)
  \/ Stopped

Spec == Init /\ [][Next]_vars

-----------------------------------------------------------------------------
(* Properties *)

\* "Modifications to this structure should only be made while a lock is held
\* or in a thread-local context": calls for one automaton never work on its
\* instances at once, however its class was found in the table, and no two
\* calls work on one class.  A sunset takes no lock, so it may do so beside
\* one call, or another sunset.  Excepted are a store that was initialised
\* twice and, for the automata, a bucket that two threads claimed.
ClassExclusive ==
  ~raced => \A t, u \in Threads :
    t # u /\ Working(t) /\ Working(u) /\ ~AtSunset(t) /\ ~AtSunset(u) =>
      /\ tclass[t] # tclass[u]
      /\ "bucket" \notin contended => autom[t] # autom[u]

\* Between calls, a class that has instances is where the next sunset of its
\* lifetime looks for it ("Register this class for eventual cleanup"),
\* whichever threads updated their classes at the same time, unless they met
\* in one of the ways that the code does not keep apart.
InstancesAreRegistered ==
  ~raced /\ contended = {} /\ (\A t \in Threads : pc[t] = "idle") =>
    \A c \in Classes : has_instances[c] =>
      \E n \in 1 .. StaticClasses :
        tls_classes[n] = c /\ \A m \in 1 .. n - 1 : tls_classes[m] # NULL

\* "If the tesla_store does not exist yet, it will be created": no thread
\* meets a store that is only partly there, provided that nobody called while
\* the first call was still at it.
NoFault == ~raced => \A t \in Threads : pc[t] # "crashed"

-----------------------------------------------------------------------------
(* What the table of classes promises *)

\* The calls that have their class, by then entered in the table.
Has(t) == autom[t] # NULL /\ (pc[t] = "acquire" \/ Working(t))

Contents(b) == tc_automaton[<<ts_classes, b>>]
PlaceOf == [a \in Automata |->
              IF ts_classes = NULL \/ \A b \in Buckets : Contents(b) # a
              THEN NULL ELSE CHOOSE b \in Buckets : Contents(b) = a]
Got == [t \in Threads |->
          IF Has(t) THEN [automaton |-> autom[t], place |-> tclass[t][2]]
          ELSE NULL]
Refused == {t \in Threads : pc[t] = "no_entry"}

\* The table is a map from automata to classes.
Table == INSTANCE ClassTable WITH
  Places <- Buckets, place <- PlaceOf, got <- Got, refused <- Refused

\* Linear probing, past collisions and around the end of the array, is a map:
\* an automaton gets the same class in every call, and one of its own the
\* first time, and is only refused when all classes are taken.
IsAMap == Table!Spec
=============================================================================
