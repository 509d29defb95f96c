# A TLA+ model of TESLA

TESLA turns temporal assertions in C programs into automata and runs them next
to the program. The *analyser* extracts the assertions from the Clang AST into
a manifest, `tesla cat` joins the manifests of a program, *tesla/common* builds
automata from it, the *instrumenter* adds hooks to the program's LLVM IR, and
the hooks call *libtesla*, the run-time library, which keeps the automata's
instances and reports failures. This project models that whole path: what the
assertion says, what is made of it at each stage, and what a program is told
in the end; and, in more detail, the parts that threads share.

## Inventory

| Component | State | Operations | Interaction | Correct if |
|---|---|---|---|---|
| assertion language (`include/tesla*.h`) | - | macros, magic functions | read by the analyser | each macro means what it is called |
| analyser (`tesla/analyser`) | references and flags of the automaton being parsed; automata and usages of the unit | parse assertions, automata, mappings; write a manifest | output read by `cat` and the instrumenter | a variable has one index; modifiers do not leak |
| `tesla cat` | automata and usages so far | merge units | joins manifests | nothing is lost or doubled |
| automaton construction (`tesla/common`) | NFA and DFA states, transitions, equivalence classes | parse an expression, link sub-automata, determinise, group, compute masks | manifest in, automata out | accepts what the assertion says; the engine can work from it |
| `tesla print` | - | print automata | reads a manifest | (output) |
| instrumenter (`tesla/instrumenter`) | hooks, blocks, structure types of a module | four passes; what the generated code does | uses automata, emits calls of libtesla | each event is reported exactly, with its key |
| automaton engine (`tesla_update.c`, `tesla_key.h`) | works on a store | `tesla_sunrise`, `tesla_sunset`, `tesla_update_state` | called by hooks; calls notifications | an event reaches exactly the instances it names; nothing outlives its lifetime |
| classes and instances (`tesla_class.c`) | `tc_instances`, `tc_free`, lock | init, destroy, new, clone, clear, reset | in a store | counters never promise what is not there |
| stores (`tesla_store.c`, `tesla_class_global.c`, `tesla_class_perthread.c`) | global store, one store per thread, hash table, lifetimes | get, init, free, reset, `tesla_class_get`, `pthread_key` | global store shared by threads | a class has one owner, a thread one store |
| notification (`tesla_notification.c`) | handlers and their mask | set handlers, `ev_*`, sysctl | callbacks; the default ones stop the program | each handler hears each event; failures do not go by in silence |
| debugging strings (`tesla_debug.c`) | a buffer | `SAFE_SPRINTF` and users | called by handlers | a cut text can be recognised |
| demos, benchmarks | - | programs with assertions | use everything | a violation stops the program, nothing else does |

Hard to test: an update is a loop with early returns over instances the same
loop rewrites, counted by a counter (`tc_free`) only some paths maintain; the
end of a lifetime walks lists that its own calls extend; the global store is
initialised lazily and shared; a double-checked lock guards the pthread key;
thread stores are used and freed by destructors in any order; handlers are
replaced while they are being called; automata come out of graph surgery whose
order depends on pointers; hooks are spliced block by block by four passes over
several modules. `PROJECT.json` lists these hazards line by line with the
properties that watch them.

## Modules

**From assertion to automaton**

* **TeslaLanguage** - every macro of `tesla-macros.h` and magic function of
  `tesla.h` as the expression the analyser sees.
* **TeslaParser** - `Parser.cpp`: a declaration becomes a description and a
  usage, or the reason why it is refused. An expression is a record; `ParseExpr`
  and its helpers return the event, the references met so far and success.
* **TeslaAnalyser**, **MCTeslaAnalyser** - `Visitor.cpp`, the action that writes
  a unit's manifest, and `cat.cpp`. One step is one declaration parsed, one
  manifest written, or one manifest merged.
* **TeslaNFA** - `NFAParser`, `State.cpp`, `Transition.cpp`: an automaton under
  construction is a record of states and transitions; each method is an operator
  from one to the next. Inclusive or (`ConvertIncOrToExcOr`) and out-of-scope
  transitions are here.
* **TeslaDFA** - `DFABuilder`, `GroupClasses`, `Automaton::getLifetime`, and the
  description `InstrContext::ExternalDescription` hands to libtesla.
* **TeslaPrint** - what the formats of `tesla print` say.
* **TeslaManifest**, **MCTeslaManifest** - `Manifest::load` step by step: one
  automaton parsed, one DFA state completed, one automaton stored; then print.

**Instrumentation**

* **TeslaInstrumenter**, **MCTeslaInstrumenter** - the four passes over each
  module, then the program. A hook is a graph of numbered blocks with
  `replaceAllUsesWith` as `Redirect`; a module also has the structure types the
  passes found or created. `Call`, `Return`, `Store` and `ReachAssertion` run hooks and collect
  the calls of libtesla. A hook's run (`Walk`) takes at most one step per block,
  since no branch goes back. `BitAnd` is a constant, with what matching needs to
  know of it as its assumption; the manifests and programs that may be given are
  those of `ManifestAssumption` and `ProgramAssumption`. Of a value's type only
  is kept whether it is an integer (`Pointers`). A lifetime is known to libtesla
  by its two events, serialised (`BuildLifetime`).

**Run-time library**

* **TeslaKey** - keys, instances, transitions and one iteration of
  `tesla_action`.
* **TeslaUpdate**, **MCTeslaUpdate** - the engine on one store used by one
  thread at a time. `inst`, `tc_free`, `lifetimes`, `tls_classes`,
  `tls_dyn_classes` and `tls_dyn_capacity` are the store (`tls_dyn_count` is the
  length of the list, NULLs included); the other variables are the frames of
  `tesla_update_class_state` and `tesla_sunset`. Each step is one loop iteration
  or one straight piece of code between two. A called function is part of its
  caller's step. `note` collects the notifications of the call; `FailStop` says
  whether a failure ends the program.
* **PthreadKey**, **MCPthreadKey** - `pthread_key()`, one step per shared access.
* **ThreadStore**, **MCThreadStore** - extends PthreadKey by the life of a
  thread: cache, `pthread_setspecific`, store allocation that may fail,
  destructors of this and of other keys, `tesla_store_free` block by block; in
  the kernel, `td_tesla` and the thread constructor and destructor.
* **ClassTable** - abstract: a map from automata to places, first come, first
  kept. **TeslaStore**, **MCTeslaStore** - the global store and several threads,
  one step per shared access: initialisation, linear probing, class locks (both
  sides of `tesla_class_global.c`), registration, sunset.
* **TeslaDebug** - text in a bounded buffer; **TeslaNotification**,
  **MCTeslaNotification** - the walk over the handlers read by read, against
  installation and sysctl, the default handlers of each build and what they print.

**Composition**

* **DemoPrograms**, **TeslaDemo**, **MCTeslaDemo** - the programs under `demos/`
  and `bench/instrcost` as the histories their control flow can produce, with
  their assertions. TeslaDemo first makes an automaton of each assertion
  (`Compile`: parsed, built, made deterministic, described), then reports the
  events of a chosen history and runs `TeslaUpdate` (INSTANCE, with the described
  automata as its constants) on them until the program ends or is stopped.

**Proofs**: TeslaUpdateProofs (the engine: types, counters, names,
registrations), TeslaStoreProofs, ThreadStoreProofs (the key, then the stores),
TeslaNotificationProofs, FoldProofs (induction over the sequences that loops
run through), TeslaInstrumenterProofs (hooks and what running one does),
TeslaHookProofs (functions and assertions; extends it), TeslaFieldHookProofs
(fields and lifetimes; extends that).

Definitions called "Faulty variant" are wrong versions of the definition that
follows them. No specification uses them; they document which mistake each
property would detect.

Interpretation of C: `assert` is enabled. `tesla_malloc` returns zeroed memory.
The uninitialised `tk_freemask` in `tesla_sunset` is any member of `StackFree`,
the uninitialised flags of a mapping are any Booleans, the order of a large
`SmallPtrSet` is any order. Stores of one thread become visible in program order
(x86); weaker orders would only add behaviours to the racy code. The assertion
of `tesla_action` on masks is not an action but the invariant `MaskMatchesState`.

## Runs

| Run | Shows |
|---|---|
| `update_names` | two variables bound one after the other, any stack garbage: names agree with states, `tesla_key_union` never fails, an event leaves other names alone (joins excepted), `no_instance` means that nothing was updated or cloned |
| `update_classes` | a class with joins and one without: `tc_free` never overstates, the scan skips nobody, noted clones find their slots, active classes are registered (or come after entries that an earlier sunset zeroed), every call returns (liveness), also when a sunset appends to the list it walks |
| `kernel_failstop` | too few registrations, an automaton without an init transition, one that may be unsatisfied at the end: a sunset that returns has emptied its classes |
| `store_table` | colliding hashes and wrap-around: the table implements `ClassTable` (`IsAMap`, a refinement with the bucket of an automaton as its place) |
| `store_shared` | three threads, colliding automata, sunsets at any time: no two calls work on one class; classes with instances stay registered unless threads met in one of three ways (`contended`); nobody meets a half-made store unless several first calls overlapped |
| `thread_store` | one key and one store per thread; the only ways to a freed store, a leak or an endless wait are those the properties name; a thread's exit completes (liveness) |
| `manifest_load` | 69 manifests with every operator: the NFA accepts what a separate definition of the assertion's language says (words up to `MaxWord`; assertions with `&&` excepted), the DFA the same, the description has what the engine's theorems assume, bounds are found, endless recursion only on empty loops |
| `analyse` | programs of one and two units: indices, modifiers, merging, and why `cat` gives up |
| `hooks` | two modules instrumented in either order and run: exactly the symbols an event is an occurrence of are reported, with the right keys; an event begins and ends exactly the lifetimes it is a bound of; the instrumenter stops only for the reasons named, each of which some manifest has, and lays out libtesla's structures as libtesla does |
| `notify` | delivery to every enabled handler in order; NULL is never called; reading past the end needs a shrinking installation; failures are heard; texts are whole or visibly cut |
| `demos` | a program that violates an assertion does not go on; an alarm without a violation has one of three causes |
| `pthread_key_blocks` (violation) | the return at `tesla_store.c:269` keeps the mutex locked: a third thread blocks for ever |

The reference language of `manifest_load` is defined on expressions, by sets of
words, without automata. The judgement of `demos` (`Holds`) is defined on the
history and the parsed assertion, without automata or the engine.

### Bounds

* Engine: `Limit` (128 in the code) is 1, 2, 3 or 8: classes become full and can
  hold the generic instance, two names and their clones. `StaticClasses` (32) is
  1 or 2, so the lists fill and, in `update_classes`, the second class goes to the
  dynamic one; `StoreLength` (128) is 2 with one lifetime. `MaxDyn` = 3: no call
  starts once a lifetime has that many dynamic registrations (in the code the
  list never shrinks), which leaves room for zeroed entries and new ones.
  `CapacityModulus` (2^32) is 65536, which no run reaches. Keys have 1 or 2 of 4 words: no automaton here binds more.
* Stores: one thread, 4 automata and 3 buckets, so the table fills; or three
  threads, 2 automata with one hash and 2 buckets, so they meet in the table, in
  the list of 2 entries and, one thread being in `SunsetThreads`, at a sunset (two
  sunsets at once are one of the ways to meet, and excepted). Threads that are
  alike are symmetric. Executions in which a call came while the store was being
  initialised are followed until a thread works on a class (`Followed`): all
  properties except them, and `raced` stays true.
  `Iterations` (rounds of destructors) is 2, enough for a store made after the
  first round.
* `MaxWord` = 5: words are compared up to the length of the longest sequences
  in the manifests and past one more turn of the loops.
* Hooks: `Width` = 2 bits, enough for every mask and flag pattern to match and
  to fail; `MaxDepth` = 2 nested calls, `MaxEvents` = 4.
* Printing: `ERROR_BUFFER_LENGTH` is 160 instead of 1024, with texts that fit
  with nothing to spare, are one character too long, or far too long.
  `MaxSets` = 3 installations.
* Demos: the benchmark's loop runs three times; audit is taken both ways of its
  branch.

Deadlock is checked everywhere; a program that has ended or stopped stutters.

### Fairness

`TeslaUpdate!FairSpec`: a thread inside the library keeps running; the engine
never waits. `PthreadKey!FairSpec`: a thread that can take a step of
`pthread_key` does, and a mutex that is free again and again is eventually given
to a waiting thread; that last part only favours the code, and
`pthread_key_blocks` is violated in spite of it. `ThreadStore!ThreadSpec` adds
that a thread that has begun to exit goes on (the C library runs its
destructors). No fairness is assumed of the program's own calls.

## What the models show besides

Properties are stated for the cases in which they hold. Outside these the
models, like the code, behave as follows.

**Engine** (`tesla_update.c`). A join does not set `matched_something`
(`:344-359`), so that an event which joined instances is reported as
`no_instance`; it does not return its slot to `tc_free` (`:358`); it is decided
before names are compared (`:438`). A repeated event forks a second instance of
the same name (`:330`). `tls_dyn_count` survives a sunset (`:135`), so later
dynamic registrations lie behind NULL entries and are forgotten;
`tls_dyn_capacity` doubles on every registration (`:273`). With handlers that
return, instances survive a sunset when `tk_freemask` (`:108`) has garbage or a
cleanup transition forks in a full class (`:331`); with failstop handlers the
same garbage can stop a correct program. The inner loop of late initialisation
uses the outer index (`:202`): only a first transition of symbol 0 is sure to be
found, and generated automata have theirs there.

**Stores.** `ts_length` is set before `ts_classes` and without a lock, so
overlapping first calls meet a half-made store, and after ENOMEM it stays set.
An empty bucket is claimed without a lock (`tesla_store.c:208`), `tesla_sunset`
visits classes without theirs, registrations of classes with different locks
share a list. Hence all three properties exclude overlapping first calls;
`ClassExclusive` is about calls, beside which a sunset may work on the same class
(against `tesla_internal.h:340`), and excepts, for automata, a bucket claimed
twice; `InstancesAreRegistered` excepts that, an entry taken twice and a sunset
that meets a registration or another sunset (`contended` records these). The
tables `ts_classes` and `tls_dyn_classes` are never freed; the cache is filled by
the second call and survives the destructor; a kernel thread older than TESLA
frees NULL.

**Notification.** In a kernel with DTrace and without debugging, the default
mask is the third bit of two handlers: failures go by in silence. The default
handlers of a debug build print each failure twice. `print_key` truncates four
full-width keys; an event name that fills the buffer makes
`print_bad_transition` abort.

**Analyser.** `UPTO(n)` means 1..n; a minimum above the maximum is not refused.
A variable with flags or a mask is a different reference from the plain one.
`returnfrom(f(x))` of a function that is not void and assignments that draw a
warning fail to parse. Flags of mappings are uninitialised (`Parser.cpp:200`),
so `cat` may refuse two copies of one mapping although
`src/tesla/test/Automata/multicat.c:3` says that copies can be joined.

**Automata.** `&&`, which `tesla.h:95` offers, is built like an exclusive or
(`Automaton.cpp:538-541` warns that it is unsupported), so `AcceptsTheAssertion` is not
about assertions with it. Alternatives that bind different variables give masks the engine
asserts against (hence the premise in `EngineCanRunIt`); bounds that are also
events of the body confuse the cleanup; a merge of transitions that are not
strict takes the mask of one; the two sides of an inclusive or are not treated
alike, which `AcceptsTheAssertion` allows between a lower and an upper bound.

**Instrumenter.** A lifetime whose bounds are defined in different modules is
begun and never ended (`Callee.cpp`), and bounds in caller context are never
begun. Events at the bound's own exit come after the sunset. One call can match
two symbols. `BuildLifetime` looks for an earlier description by name, which never
finds one (`InstrContext.cpp:298`, internal linkage), so a module has a copy for each
use; libtesla compares contents. `CollectArgs` crashes on a variable used before it is
known and panics on one that is not visible at the site; a fifth variable fails the
assertion on `TESLA_KEY_SIZE`, and a constant for a pointer (`f(NULL)`) LLVM's on
integer types. `Dot()`
drops the quotes it means to escape. `longjmp` and `exit` skip the sunset. A
stale manifest makes `FindAutomaton` panic, and so does a field assigned anything
but a constant or a variable (`FieldReference.cpp:339`). `Instrumentation.cpp` defines
`tesla_lifetime` and `tesla_automaton` differently from libtesla, and only the
order of the passes hides it. Objective-C hooks end in `assert(false)`.

**Demos.** gotofail would be stopped without its bug too, because the hash is
updated three times; the openssl assertion always trips because libcrypto is
not instrumented; audit's open path trips because the event it wants is under
`#if 0`.

## Proofs

Theorems hold for every value of the constants that satisfies the named
assumptions of the modules: `LimitAssumption`, `AutomataAssumption` (at least one
transition per symbol, the cleanup symbol in the alphabet), `InputsAssumption`
and `SizesAssumption` of the engine; `ThreadsAssumption` (PthreadKey);
`StoreAssumption` and `ThreadStoreAssumption` (finitely many threads, sizes
that are positive, NULL is no object); `NotificationAssumption` (handlers are
handlers) and `BufferAssumption`; of the instrumenter `WidthAssumption` (an int
has at least one bit, and `BitAnd` keeps w just if v has its bits),
`ManifestAssumption` (a manifest is as the analyser writes it: a pattern for each
parameter of a function and for the value it returns, the variables of an assertion in
the order of their indices, the bounds of a lifetime among the events of the
automata, no lifetime twice) and `ProgramAssumption` (a function is defined in one module, a module
knows the fields it accesses). Some theorems have hypotheses of their own,
given below with what justifies them. The inductive invariants of the library
were checked by TLC on the instances of their runs before they were proved; those of
the instrumenter speak of all values a hook may be run with, and TLC has checked
the properties that follow from them.

Induction over data is done with sets: the set of the lengths for which a
statement holds has 0 and with each number the next (`SetInduction`, from the
least element of what is left, since the order of the naturals is well founded).
FoldProofs shows in this way that the community modules' `FoldLeft` is one
application of its operator more for one element more, and gives an induction for
each fold it is instantiated with. The loops of the code are such folds.

**Engine** (TeslaUpdateProofs). Hypotheses on automata are definitions of TeslaUpdate.
`StatesHaveMasks`: the transitions into and out of a state agree on its mask, the
first state has the empty one, nothing leaves where a cleanup ends.
`SunsetCleansUp`: the symbol `tesla_sunset` sends has cleanup transitions only.
`OneInitSymbol`: one symbol at most begins with an initialisation. These three
hold of every automaton the compiler makes in `manifest_load` (`EngineCanRunIt`
lists them). `EventsCarryNames`: an event brings the words its transitions add to a
name; `EngineCanRunIt` shows it of assertions whose alternatives bind the same
variables, the others are those the engine's own assertion refuses (see
"Automata" above). `MCTeslaUpdate` assumes all four of its automata
(`WellFormedAutomata`), so TLC evaluates them.

* `TypeCorrect`: `TypeOK` is inductive; besides the types it
  says that inside a call the frame names a class and one of its symbols and
  that a sunset has a lifetime. One lemma per group of actions.
* `FreeNeverOverstates` and `ScanMissesNothing`: the inductive
  invariant is `TypeOK /\ FreeIsLowerBound /\ ScanCoversActive`. A new instance
  takes one slot and one unit of `tc_free`; updates and joins only rewrite an
  active slot, so the unused ones can only grow; a reset frees all.
  `ScanCoversActive` needs the bound when the scan starts (`expected` is
  computed from `tc_free`), and then an iteration counts exactly the active
  slot it leaves behind. So the join's lost slot costs capacity, but neither
  the assertion in `tesla_instance_new` nor the early end of the scan.
* `NamesMatchStates`, `ClonesGetNames` and the action property `OnlyNamedMove`
  (hypotheses `StatesHaveMasks`, `EventsCarryNames`,
  `SunsetCleansUp`), from `NamesInv`. Masks alone are not inductive: a clone is
  made of what the scan noted several steps earlier. So `ClonesPending` says
  that each noted instance is still active, still where its transition starts
  and still behind the scan, and `EventFits` that the call's event carries what
  its transitions add. What a join changes is excepted: it is decided before
  names are compared.
* `NoInstanceIsTrue` (no hypothesis), from `MatchInv`: whatever was updated or
  noted has set `matched_something`. `ClonesHaveSlots` (`Limit >= 2`,
  `OneInitSymbol`), from `CloneSpaceInv`: clones are counted against the
  instances the scan has met and against `max_clones`, which was taken before
  late initialisation used a slot. With a limit of 1, or two initialisations,
  that slot can be the one promised to a clone; the code's limit is 128.
* `ClassesAreRegistered` and the action property `NothingOutlivesSunset`,
  from `RegistrationInv`, for the kernel with failstop handlers
  (`Kernel`, `FailStop`, `SunsetCleansUp`): a class with instances always has the
  sunset of its lifetime still to come (`ActiveAreAhead`: in the list ahead of
  the loop, or in the call that the loop makes, or about to be registered), and what
  matches the cleanup symbol makes the class be reset. Proved with it is that a
  kernel has no dynamic list, so that the exception of `ActiveIsRegistered` is
  empty. Without failstop, `SunsetEmptiesClasses` is false (see "Engine" above).

**Global store** (TeslaStoreProofs).

* `StoreIsThere`, from `StoreInv`: as long as first calls have not overlapped,
  each phase of the initialisation has left behind what the later ones use.
* `LocksExclude`, from `Locked` and `MapInv`, no hypotheses: a call that works on a class has
  its lock whatever sunsets do meanwhile, and a class belongs to one automaton as
  long as no bucket was claimed twice.
* `ProbingIsAMap` (`SingleThread`): every step is a step of `ClassTable` or none.
  `MapInv` says that no bucket on an automaton's way to its own is empty and that
  a call has passed only buckets of others; the lemmas are about remainders,
  since the way wraps around. Two threads may claim one empty bucket, so the
  refinement is only true of one.
* `RegisteredForCleanup` (`RoomToRegister`), from `ListInv`, for any number of threads
  and sunsets: the list has no gaps and no class twice, also halfway through a
  sunset, as long as `contended` is empty. With more classes than entries the kernel
  reports the rest and does not register them.

**Thread stores** (ThreadStoreProofs).

* `KeyCreatedOnce` and `CallsReturnTheKey`, for any set of threads,
  from `IInv`: who is past the mutex holds it (true although the early
  return keeps it locked: it then has no other holder), and the values of `key`
  and `key_initialised` follow the phases of the one initialisation.
* `KeyIsUsedAsSpecified`: ThreadStore implements PthreadKey, so
  the two theorems hold of it.
* `ThreadsHaveOneStore`, `FaultsAreExplained` and `TablesAloneLeak`, no hypotheses,
  from `ThreadInv`: where each thread's value, cache and blocks can be at each
  step of its calls and of its exit (`HeapOK`, `MadeOK`, `CallsOK`, `Turns`), for
  any number of threads and of rounds of destructors.

**Notification** (TeslaNotificationProofs; any number of notifiers, any handlers).

* `NoNullHandler` and `FailuresAreHeard`, from `NotifyInv`: what a walk over the
  handlers has read so far is still what it was, unless an installation came
  between, and with the defaults it has yet to reach, or has called, the handler
  that hears failures.
* `EveryHandlerIsCalled`, from `DeliveredOK`: an undisturbed walk has called
  exactly the enabled handlers behind it, in order. Order is stated by positions
  (`CalledInOrder`), because filtering a sequence is recursion over data.

* `FailuresAreSaid`: what is printed of a failure ends within its buffer, begins
  with what matters and leaves out nothing that there is room for. The lemmas
  are about one piece added to a bounded buffer (TeslaDebug) and, by induction,
  about any number of them (`Kept`: what is there ends before the end of the
  buffer, each piece is kept or counted as lost, the first one is kept, and all
  are if their sum is less than the buffer). That the nested loops print the
  pieces one after another is a second induction. The number of transitions
  and the lengths of names are arbitrary.

**Instrumenter.** The four theorems hold for every manifest, every program, every
order in which modules are instrumented and every run of the program.

* `OnlyTheUnsupportedCrashes` (TeslaInstrumenterProofs), from `TypesOK` and
  `HooksOK`: the first pass of a module creates all of libtesla's structures
  before another part of the instrumenter looks one up; every hook is one that
  the passes could make, and is marked as given up only if there is one of the
  reasons (`Reasons`). An assertion whose free variables come last has its known ones just at
  the positions that `CollectArgs` writes.
* `HooksTellExactly` (TeslaHookProofs), from `RunsOK`. What a hook says depends
  on which passes have written to it, so `HooksGood` says for all values it may
  be run with how often it makes each call, as a function of the
  passes that are done. To know what a run does, the blocks are given ranks
  that every branch goes down (`Ranked`), so the walk ends at the exit. A block put
  before the exit then runs after everything that was there, and a failed test
  skips its own call and no other.
* `StoresAreTold` (TeslaFieldHookProofs), from `StoresOK`. In the hook of a field each
  automaton has a chain of its own (`StoresGood`): what it does is one call,
  for the first symbol that matches, or none, and then the next automaton's
  chain. Constants are truncated to the width of the field before they are added
  or taken away; this is shown to make no difference, also when it wraps around.
* `LifetimesAreTold` (TeslaFieldHookProofs), from `OpenOK`: of each event, libtesla
  is told of the beginning and the end of just the lifetimes whose bound it is, and
  sunrises less sunsets of a lifetime that is the calls of one function are the
  calls in progress. `HooksGood` counts the sunrises and sunsets a
  function's hooks call and says that the other ones call none; `StoresGood`
  says it of fields. Two lifetimes are told apart by their serialised events.

### Only model-checked

* `EveryCallReturns`, `ExitCompletes` and `CallReturns`: liveness under fairness
  is outside the prover's reach.
* The properties of TeslaManifest, TeslaAnalyser and TeslaDemo:
  expressions and automata are walked by RECURSIVE operators, about which nothing
  can be proved here, and what the properties say is an induction over expressions.
* Thread interference outside the hypotheses above, where the properties are
  false of the code.

Worth proving next: that the subset construction (TeslaDFA) keeps the
language of an automaton, once it is a fold over its states and no recursion.

## Not modelled

* Lifetimes of a shared store: several threads in `tesla_sunrise` at once
  (`tesla_update.c:60`, "TODO: lock global store"). TeslaStore has one lifetime
  that has begun.
* `tesla_match`, `print_class`, `print_key`, `assert_instanceof`,
  `tesla_strerror`: they read or print, and keep no state. The arguments of
  DTrace probes.
* Protocol buffers, files and the parsing of command lines; `get-triple`.
* The analyser's checks that a macro's own arguments are well formed, and the
  spelling of types. `FindOriginalSource` and `PrintSources` reproduce source
  text.
* LLVM linkage, and structures passed by value.
* The excerpts of FreeBSD, OpenSSL and Apple's Security framework in `demos/`
  beyond the paths their demo runs: headers and code under `#if 0`.
