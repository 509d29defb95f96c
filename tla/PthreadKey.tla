----------------------------- MODULE PthreadKey -----------------------------
(***************************************************************************)
(* pthread_key() of tesla_store.c: the accessor of the process-wide key    *)
(* under which every thread keeps its tesla_store, with double-checked     *)
(* locking.  Each step is one access to shared memory.  The two stores of  *)
(* the initialising thread (key, then key_initialised) are seen in order.  *)
(***************************************************************************)
EXTENDS Naturals

CONSTANTS Threads, NoThread

ASSUME ThreadsAssumption == NoThread \notin Threads

VARIABLES
  key,               \* 0 before pthread_key_create, then 1, 2, ... per call
  key_initialised,
  lock,              \* the holder of the mutex, or NoThread
  pc,                \* where each thread is in pthread_key()
  returned           \* the values that calls have returned so far

vars == <<key, key_initialised, lock, pc, returned>>

Init ==
  /\ key = 0 /\ key_initialised = 0
  /\ lock = NoThread
  /\ pc = [t \in Threads |-> "idle"]
  /\ returned = {}

Goto(t, from, to) == pc[t] = from /\ pc' = [pc EXCEPT ![t] = to]

\* return key;
ReturnKey(t, from) ==
  /\ Goto(t, from, "idle")
  /\ returned' = returned \cup {key}

Call(t) == /\ Goto(t, "idle", "check")
           /\ UNCHANGED <<key, key_initialised, lock, returned>>

CheckInitialised(t) ==
  /\ key_initialised = 1
  /\ ReturnKey(t, "check")
  /\ UNCHANGED <<key, key_initialised, lock>>

CheckFails(t) == /\ key_initialised = 0
                 /\ Goto(t, "check", "lock")
                 /\ UNCHANGED <<key, key_initialised, lock, returned>>

\* Faulty variant: the mutex does not exclude anybody.
LockIgnored(t) == /\ Goto(t, "lock", "recheck")
                  /\ lock' = t
                  /\ UNCHANGED <<key, key_initialised, returned>>

Lock(t) == /\ lock = NoThread
           /\ Goto(t, "lock", "recheck")
           /\ lock' = t
           /\ UNCHANGED <<key, key_initialised, returned>>

\* The second check returns from inside the critical section, and the mutex
\* stays locked.
RecheckInitialised(t) ==
  /\ key_initialised = 1
  /\ ReturnKey(t, "recheck")
  /\ UNCHANGED <<key, key_initialised, lock>>

\* Faulty variant: the flag is raised before the key exists.
RecheckRaisesFlag(t) == /\ key_initialised = 0
                        /\ Goto(t, "recheck", "create")
                        /\ key_initialised' = 1
                        /\ UNCHANGED <<key, lock, returned>>

\* Faulty variant: the thread gives up the mutex and starts again.
RecheckRetries(t) == /\ key_initialised = 0
                     /\ Goto(t, "recheck", "check")
                     /\ lock' = NoThread
                     /\ UNCHANGED <<key, key_initialised, returned>>

RecheckFails(t) == /\ key_initialised = 0
                   /\ Goto(t, "recheck", "create")
                   /\ UNCHANGED <<key, key_initialised, lock, returned>>

pthread_key_create(t) == /\ Goto(t, "create", "publish")
                         /\ key' = key + 1
                         /\ UNCHANGED <<key_initialised, lock, returned>>

Publish(t) == /\ Goto(t, "publish", "unlock")
              /\ key_initialised' = 1
              /\ UNCHANGED <<key, lock, returned>>

Unlock(t) == /\ ReturnKey(t, "unlock")
             /\ lock' = NoThread
             /\ UNCHANGED <<key, key_initialised>>

Run(t) == \/ CheckInitialised(t) \/ CheckFails(t) \/ Lock(t)
          \/ RecheckInitialised(t) \/ RecheckFails(t)
          \/ pthread_key_create(t) \/ Publish(t) \/ Unlock(t)

Next == \E t \in Threads : Call(t) \/ Run(t)

Spec == Init /\ [][Next]_vars

\* A thread that can run does, and the mutex is fair to a thread that waits
\* for it over and over again.
FairSpec == Spec /\ \A t \in Threads : WF_vars(Run(t)) /\ SF_vars(Lock(t))

-----------------------------------------------------------------------------
TypeOK ==
  /\ key \in Nat /\ key_initialised \in {0, 1}
  /\ lock \in Threads \cup {NoThread}
  /\ pc \in [Threads -> {"idle", "check", "lock", "recheck", "create",
                         "publish", "unlock"}]
  /\ returned \subseteq Nat

\* "Multiple initialisations are prevented by the critical section below":
\* pthread_key_create is called at most once, so the stores of all threads
\* hang off one key.
CreatedOnce == key <= 1

\* "The key, once initialised, is immutable, so it is safe to check and
\* return it without locking": no call returns the variable before the key is
\* in it, and all calls return the same key.
ReturnsTheKey == returned \subseteq {1}

\* The inductive invariant: who is past the mutex holds it, and the phases of
\* the one initialisation, for every thread that could be in them.
CriticalSection ==
  \A t \in Threads :
    pc[t] \in {"recheck", "create", "publish", "unlock"} => lock = t

KeyFollowsPhase ==
  /\ key_initialised = 1 => key = 1
  /\ key_initialised = 0 /\ (\A t \in Threads : pc[t] # "publish") => key = 0
  /\ \A t \in Threads :
       /\ pc[t] = "create" => key_initialised = 0
       /\ pc[t] = "publish" => key_initialised = 0 /\ key = 1
       /\ pc[t] = "unlock" => key_initialised = 1

\* Who is in the critical section holds the mutex, also while a caller that
\* found the key there keeps it locked, and the key exists exactly from its
\* creation to the end.
IInv == TypeOK /\ CriticalSection /\ KeyFollowsPhase /\ ReturnsTheKey

\* "This function is just a singleton accessor": every call returns.
EveryCallReturns ==
  \A t \in Threads : pc[t] = "check" ~> pc[t] = "idle"
=============================================================================
