# TLA+ models of scanbd's thread machinery

scanbd polls scanner buttons through SANE and runs an action script when a
button changes. These modules model the concurrent core of the daemon. The
core is in `src/src/scanbd/sane.c` and the signal handlers in `src/scanbd.c`.

## The system and how its parts interact

Three kinds of thread share a small set of locks:

* **Polling threads (`sane_poll`).** There is one per SANE device. Each
  thread:
  * holds its `st->mutex` while it polls;
  * reads each compiled rule's option value, compares it with the last value
    and sets `triggered`/`triggered_option` when the rule fires;
  * when triggered, runs the dispatch: `scan_begin`, the trigger signal,
    `sane_close`, unlock, `usleep`, `fork` and `waitpid` of the script,
    relock, clear `triggered`, unlock, `usleep`, `scan_end`, relock and
    `sane_open`;
  * then unlocks and sleeps for one polling interval.

  Cancellation is deferred. The thread starts with it disabled (609).
  After the first rule's value is stored it is enabled again (870) and
  stays enabled, so every `usleep`, `waitpid` and bus write from then on is
  a cancellation point. A cleanup handler unlocks `st->mutex`
  unconditionally.
* **The main thread.** It sits in `pause()` and runs the signal handlers.
  * `SIGUSR1` stops the pollers.
  * `SIGUSR2` starts them.
  * `SIGHUP` stops them, re-parses the configuration and starts them again.
  * `SIGTERM`/`SIGINT` stop them and exit.

  Stopping (`stop_sane_threads`) works under the global `sane_mutex`. For
  each device it locks `st->mutex`, waits on `st->cv` while `triggered`,
  unlocks and `pthread_cancel`s. It then joins every poller, closes any handle
  left open, frees the slots and broadcasts `sane_cv`.
* **The D-Bus thread.** Its `trigger` method calls
  `sane_trigger_action(dev, action)`. That function:
  * locks `sane_mutex` and waits on `sane_cv` while no pollers exist;
  * locks the device mutex and checks `action` against
    `num_of_options_with_scripts`;
  * waits on `st->cv` while the device is triggered, then sets `triggered`
    with the given action.

## Modules

| Module | Models |
|---|---|
| `SaneThreads` | All three threads, the script child and the device's option values. |
| `MC_SaneThreads` | TLC instances: the rule array `MCRules`. |
| `SaneThreadsProofs` | TLAPS proof of the type invariant. |
| `SaneThreadsSafety` | TLAPS proof of `TriggerIndexValid`. |
| `SaneThreadsRelease` | TLAPS proof of `StoppedReleasesDevices`. |
| `PollerSlots` | The abstract slot-array contract that `sane_poll`, `stop_sane_threads` and `start_sane_threads` keep between them. |
| `SaneThreadsSlots` | TLAPS proof that `SaneThreads` implements `PollerSlots`. |
| `RuleCompiler` | The rule compiler: how `sane_poll` fills a slot's rule and function arrays from the configuration. |
| `MC_RuleCompiler` | TLC instances: filters, option descriptors and action and function configurations. |
| `RuleCompilerProofs` | TLAPS proof that the compiled arrays stay within their allocations. |
| `RuleArray` | The abstract contract of the compiled rule array: overrides stay in their slot, appends stay within capacity and, without `multiple_actions`, add only new options. |
| `RuleCompilerOverride` | TLAPS proof that `RuleCompiler` implements `RuleArray`. |
| `NumericTrigger` | One numerical trigger with the widths of its values: the configured from/to stored as `unsigned long`, the option's `SANE_Word` read into one, the compare and store of a poll. |
| `MC_NumericTrigger` | TLC instances: the option and trigger values. |
| `NatLemmas` | A lemma on the naturals shared by the proofs: a nonempty set of naturals has a least element. |

### How `SaneThreads` corresponds to the code

| Code | Model |
|---|---|
| `sane_mutex` | The owner variable `sane_mutex` (`"none"`, `"main"` or `"dbus"`). |
| `st->mutex` | Only a poller holds it across steps; the main and D-Bus threads take it inside one atomic step. It is derived from the poller's `pc` (`PollerHolds`). |
| Pthread cancellation | `cancel_pending` (set by `pthread_cancel`) and `cancel_enabled` (the cancel state). |
| Sure cancellation points (`usleep`, `waitpid`, `pthread_testcancel`) | A step may be taken only when no cancel must act (`MustCancel`); otherwise `Cancel(d)` ends the thread there. |
| The process | `proc`: `"run"`, `"exit"` after `SIGTERM`, `"crash"` after a NULL-handle dereference. `Halted` stutters afterwards, so a halted daemon is not a deadlock. |

* **Polling thread `d`.** There is one action per step of `sane_poll`:
  * `Startup` (627-751);
  * `Top` (754-772);
  * `Check`, the body of the rule loop (773-890);
  * `Begin` (1018);
  * `TrigSig` (1019-1048);
  * `PreFork` (1050-1058);
  * `WaitChild` (1060-1070);
  * `Clear` (1118-1143);
  * `Settle` (1145);
  * `ScanEnd` (1148);
  * `Reopen` (1150-1166);
  * `Sleep` (1167-1189);
  * `Cancel`.

  `ReadValue` models the rule that copies the value already read for the same
  option (802-824).
* **Main thread.** `SignalArrives` and `MainLock` are the handler entry.
  `StopEnter`, `StopCheck`, `StopCancel`, `StopJoin` and `StopDone` are the
  loops of `stop_sane_threads`. `StartLock` and `StartThreads` are
  `start_sane_threads`. `TermNested` is a `SIGTERM`/`SIGINT` that interrupts
  a running `SIGHUP`, `SIGUSR1` or `SIGUSR2` handler. None of those handlers
  masks it (`scanbd.c:199-226`). Its handler calls `stop_sane_threads` again
  on the same thread:
  * a handler that holds the recursive `sane_mutex` relocks it at once;
  * any other handler waits for it.

  The interrupted handler never resumes, because the nested one ends in
  `exit()`.
* **D-Bus thread.** `TriggerCall`, `SaneWake`, `TrigLockDev`, `TrigWake` and
  `SetTrigger` model `sane_trigger_action`.
* **Environment.** `Press` changes an option on the device. `ChildExit` ends
  the script child.

Data is abstracted:
* an option value is a member of `Values`;
* a rule is a numeric trigger `(number, from, to, script)`;
* `script` is either a real script or the null script;
* the compiled rule array `st->opts` is the constant `Rules`;
* `sane_open` returns a member of `{good, denied, inval}`;
* a failed `fork` is a nondeterministic choice.

### How `RuleCompiler` corresponds to the code

`sane_poll` compiles a slot's rules while the device is open (656-745):
1. `sane_find_matching_options` and `sane_find_matching_functions` run on
   the global section;
2. then they run on each device section whose filter regex matches the
   device name.

The configuration, the device's option descriptors and `multiple_actions`
are chosen in `Init` and then stay fixed. The state machine keeps every
loop of the code:

| Code | Model |
|---|---|
| Section loop (710-745) | `EnterSection`, `SectionsEnd`; `sec` = 0 for the global section |
| Action loop (408-431, 597-600) | `ActionBegin` (regcomp and its `ret < 0` test), `ActionOptEnd` (regfree), `ActionsEnd` |
| Option loop body (433-597) | `ActionOpt`: the descriptor skips (`Usable`), `Regexec`, the dedupe loop (`OptSlot`), the capacity test and the write (`Install`, `RuleOf`) |
| Function loop (292-388) | `FunctionBegin`, `FunctionOpt` (dedupe `FunctionSlot`, no capacity test), `FunctionOptEnd`, `FunctionsEnd` |

Regexes and their results are abstracted:
* a regex is a member of `Filters`;
* `Compiles` is the set of regexes `regcomp` accepts;
* `Matches` is the set of pairs on which `regexec` succeeds;
* `regexec` on a regex that failed to compile is undefined, so the model lets
  it return either result and records the event in `execBad`.

A rule records what the code writes:
* the option number, the title and the script (an empty script becomes
  `SCANBD_NULL_STRING`);
* the option type;
* the numeric `from`/`to` and the string patterns.

Freeing a value clears the string and keeps `num_value`, as
`sane_option_value_free` does.

## Runs

All runs use one device, the option set `{1}` and the values `{0, 1}`. They
use two rules on option 1, each firing on `0 -> 1`. The first rule has a
script and the second has the null script. This is the `multiple_actions`
case:
* the second rule copies the value the first one read;
* both the fork and the no-fork branches of the dispatch are reachable;
* the D-Bus action index ranges over `0 .. 2`, one past the end, so the range
  check is exercised.

Two devices multiply the state space beyond a few minutes of TLC. Every
interaction in the model is between one device's poller and the main and
D-Bus threads, so one device already shows each of them.

| Run | Expect | Checks | Shows |
|---|---|---|---|
| `core` | pass | `TypeOK`, `TriggerIndexValid`, `StoppedReleasesDevices`, `SlotsRefined`, `TriggerEventuallyServed` | In 97,944 states, every trigger index stays in range. No handle survives a stop. The system implements `PollerSlots`: pollers touch only their own slot, and the slot array is freed or replaced only after every poller has ended and every handle is closed. Every trigger of a live poller is served under the fairness below. |
| `stop_cancel_race` | violation | `DeviceFreeDuringScript` | The stop loop checks `triggered` (1351), unlocks and only then cancels (1364). A dispatch can start in between and be cancelled in `waitpid`. A restart then opens the device while the script still runs. |
| `scan_end_lost` | violation | `ScanEndBeforeStop` | `triggered` is cleared (1131) before the settle `usleep` and `scan_end` (1145-1148). TLC's shortest trace is Press, Check, Begin, TrigSig, PreFork, Clear, then the idle check of a stop (1351) with the poller at the settle `usleep`. The check passes and the poller is cancelled while its `scan_begin` has no `scan_end`. This is a different trace from the check-then-cancel race of `stop_cancel_race`: here the check itself comes after the poller's dispatch began. |
| `cleanup_unlock` | violation | `CleanupUnlocksOwnMutex` | A cancel in a `usleep` or `waitpid` runs a cleanup handler that unlocks a mutex the thread does not hold. |
| `trigger_overwritten` | violation | `TriggerNotOverwritten` | A pending external trigger's action is replaced by a polled rule that fires (835-836). |
| `stop_blocks_forever` | violation | `SignalHandlerReturns` | A poller ends on `ACCESS_DENIED` (1163). A later D-Bus trigger sets `triggered` on its slot, and the next stop waits at 1351 forever inside a signal handler. |
| `null_handle_poll` | violation | `PollingNeverCrashes` | A reopen that fails otherwise leaves `st->h` NULL. The next rule check dereferences it (775-776). |
| `stop_reentered` | violation | `StopNotReentered` | A `SIGTERM` arrives after a `SIGHUP` handler's stop has joined the pollers (`stopDone`). It starts a second stop pass while `sane_poll_threads` is still set. That pass locks destroyed mutexes and cancels and joins tid 0. |

The `rule_compiler` runs use:
* `NumOptions = 3`, so there are two real options;
* two option names;
* descriptors from six choices: NULL, inactive, unnamed, a bad type, a
  numeric option and a string option;
* two actions: one filter matches every name, the other only `n2`; the
  second has an empty script;
* two functions;
* at most two actions and one function per section;
* at most one device section, whose filter either matches the device or
  does not.

Two options with two matching actions in two sections give up to eight
matches for an array of three entries. So with `multiple_actions` the
capacity test is reached, and without it every override case is reached:
* global by global;
* global by device;
* an option matched by both actions.

A second device section takes the run past five minutes. It repeats the
global-then-device override already covered.

| Run | Expect | Checks | Shows |
|---|---|---|---|
| `rule_compiler` | pass | `TypeOK`, `RulesMatchReference`, `RuleArrayRefined` | In about 1.2 million states (65,016 configurations), when every regex compiles, both arrays stay within their `num_of_options` entries. A rule's script is never empty. The arrays hold exactly what the specification's override policy prescribes. The function array has no capacity test and stays in bounds only through its dedupe. Every write keeps the `RuleArray` contract, so without `multiple_actions` each option has at most one rule. |
| `regexec_failed_regex` | violation | `NoRegexecOnFailedCompile` | `regcomp` signals failure with a positive code, but the code tests `ret < 0` (426, 310, 727). A filter that fails to compile is used by `regexec` and `regfree`. |
| `string_trigger_not_discarded` | violation | `StringTriggersCompiled` | The same `< 0` test at 558 and 572 never clears `valid`. A string rule whose pattern does not compile is installed, against spec section 4.1. |

`NumericTrigger` models one numerical trigger with the widths of its
values, which `SaneThreads` abstracts to `Values`:
* `Compile` stores `cfg_getint`'s signed `long` from/to in the
  `unsigned long` `num_value` (535-537). `ULong` reduces it modulo
  `2^LongBits`, as C's conversion does.
* `ReadValue` is `get_sane_option_value` (193-224). `sane_control_option`
  writes the option's `SANE_Word` over the first bytes of a zeroed
  `unsigned long`. On a little-endian host that is the word modulo
  `2^WordBits`, on a big-endian one that value shifted to the high bytes.
  A failed read returns the initialised 0.
* `Poll(ok)` is one check of the rule (796-836, 867): compare the stored
  last value with `from` and the new one with `to`, then store the new one.
* `Press` changes the option on the device.

`NumericTriggerMatches` says a rule fires on a poll exactly when the option
went from the configured `from` to the configured `to`, both reads having
succeeded (spec 4.2 step c). The runs scale the 32-bit word and the 64-bit
long of an LP64 build down to 8 and 16 bits. Only `WordBits < LongBits`
matters to the outcome. The run takes a little-endian build. With
non-negative values only (`0 .. 2`) the property holds (219 states); that
check is not a listed run.

| Run | Expect | Checks | Shows |
|---|---|---|---|
| `numeric_negative` | violation | `NumericTriggerMatches` | With `-1` among the values, a rule `{from 0, to -1}` does not fire when the option goes from 0 to -1. The option's -1 is read as `2^WordBits - 1` and the configured -1 is stored as `2^LongBits - 1`. |

Each property of `core` has a mutant, a plausible bug in the code that TLC
must catch. Each mutant is defined just before the definition it replaces:

| Mutant | Breaks |
|---|---|
| `CheckOptPositive` (dispatch test `> 0`) | `TriggerEventuallyServed` |
| `StopCancelPastEnd` (loop bound `<=`) | `TypeOK` |
| `StopJoinNoClose` (no close in the join loop) | `StoppedReleasesDevices` |
| `StopJoinNoWait` (the join loop does not wait in `pthread_join`) | `SlotsRefined` |
| `TrigLockDevOffByOne` (range check `>`) | `TriggerIndexValid` |
| `InstallNoCapacity` (no test at 520) | `TypeOK` of `RuleCompiler`, `RuleArrayRefined` |
| `OptSlotNoOverride` (the dedupe loop never breaks) | `RulesMatchReference` |

## Fairness

* Each poller is weakly fair (`WF_vars(Poller(d))`). A running thread is
  scheduled, and a `usleep` or `waitpid` returns.
* A script child terminates (`WF_vars(ChildExit(d))`). This is an assumption
  about the scripts.
* The main thread's steps that wait for a lock get strong fairness: the
  `sane_mutex` lock of a handler and the `st->mutex` wait of the stop loop.
  The lock is free only intermittently, since a poller releases `st->mutex`
  for a whole polling interval in every pass. The same holds for the D-Bus
  thread's lock and wake steps.
* The main thread's other steps are weakly fair.
* Nothing is fair for the environment's `Press` or for signals, nested ones
  included. A liveness property never relies on the user pressing a button.
* `RuleCompiler` has no fairness and no liveness property. It is sequential
  code, and its `Finished` stutter marks the return from the compiler, so
  TLC's deadlock check still catches a compiler stuck mid-loop.

## Proofs

`SaneThreadsProofs` proves, for every number of devices and every rule array:

* `THEOREM TypeCorrect == Spec => []TypeOK`.

`TypeOK` alone is not inductive. `Check` reads `Rule(si[d])`, so the
invariant must know that a poller at `"check"` has `si[d]` below
`num_scripts[d]`. The proof therefore shows, by induction over `Next`, that
`TypeInv == TypeOK /\ CheckIndexValid` holds. There is one lemma per action.
Each lemma follows the same pattern:
1. extract the conjuncts of `TypeInv` that the action needs;
2. derive the types of the variables the action changes;
3. combine them.

The lemmas they rest on:
* `NatSubsetHasMin` (in `NatLemmas`): a nonempty set of naturals has a least
  element. It is proved from `WFMin` of `WellFoundedInduction`. It gives
  `FirstSame` a defined value below `si`.
* `FirstSameEarlier`.
* `RuleOption`.
* `NextRuleType`.

The assumption used is `ConstAssumption`: at least one device, option numbers
and values are naturals, and `Rules` is a sequence of rule records.

`SaneThreadsSafety` proves:

* `THEOREM TriggerIndexAlwaysValid == Spec => []TriggerIndexValid`.

Whenever a device is triggered, its `triggered_option` names one of its
rules, and otherwise it is -1. This holds whichever thread set it:
* the poller's rule check;
* `sane_trigger_action`, after a range check and possibly a wait on
  `st->cv`.

The invariant alone is not inductive. `SafeInv` strengthens it with four
facts, each a lock discipline of the code:

* `InitNoScripts`: a poller that has not started has no rules (the slot is
  `calloc`'d). So `Startup` can only raise the rule count of an untriggered
  slot.
* `DbusHoldsSane`: `sane_trigger_action` holds `sane_mutex` from its lock
  until its unlock, also while it waits on `st->cv`.
* `MainHoldsSane`: the stop loop runs with `sane_mutex` held by the main
  thread.
* `WaitTrigInRange`: the range check a D-Bus caller made before waiting
  still holds when it wakes.

`WaitTrigInRange` is the heart of the argument. It holds because the two
mutex facts forbid `start_sane_threads` from replacing the slots, and so
resetting the rule count, while the caller waits. The two mutex facts also
give mutual exclusion of the main and D-Bus threads on `sane_mutex`.

The proof is an induction over `Next` with one lemma per action. It reuses
`TypeInv` from `SaneThreadsProofs`. TLC checked `TypeInv /\ SafeInv` as an
invariant of the `core` instance before it was proved.

`RuleCompilerProofs` proves, for every number of options, every
configuration and every outcome of `regcomp` and `regexec`:

* `THEOREM RuleArraysTypeCorrect == Spec => []TypeOK` (of `RuleCompiler`).

The core of `TypeOK` is that `st->opts` and `st->functions` never hold more
than the `num_of_options` entries `calloc`'d for them (666, 683). The two
arrays are bounded for different reasons:
* the rule array by the capacity test at 520 (`Install`);
* the function array has no such test; it stays bounded only because its
  dedupe loop (364-371) never stores an option twice.

So `TypeOK` is not inductive, and the proof uses
`IInv == TypeOK /\ CfgOK /\ LoopOK /\ FuncsDistinct`:
* `CfgOK`: the configuration keeps the shape `Init` gave it;
* `LoopOK`: inside a loop, `sec` and `item` name a section and an action or
  function of it, so the reads of the option loops are defined;
* `FuncsDistinct`: no two function entries have the same option.

From `FuncsDistinct`, `DistinctFitsOptions` builds an injection from the
entries into `1 .. NumOptions - 1` and bounds the length with
`Fun_NatInjLeq` of `FunctionTheorems`. `FunctionStoreDistinct` shows that a
store at `FunctionSlot` keeps the entries distinct:
* a new entry has an option no entry has (`SelectNumber`);
* an override keeps the option of the entry it replaces.

`InstallType` shows that a store at `OptSlot` keeps the rule array within
bounds. There is one lemma per action. `regcomp` never returns a negative
value (`RegcompNeverNegative`), so in the proof the `ret < 0` branches are
dead, as they are in the code. TLC checked `IInv` as an invariant of the
`rule_compiler` instance (1,198,080 states) before it was proved. The only
assumption used is `RuleCompilerAssumption`: `NumOptions` is positive, the
bounds are naturals, and the actions' patterns are regexes of `Filters`.

`SaneThreadsRelease` proves, for every number of devices and every rule
array:

* `THEOREM StoppedReleasesDevicesHolds == Spec => []StoppedReleasesDevices`.
  Once `sane_poll_threads` is NULL, no device handle is open.

A poller can end holding its handle, at any cancellation point, so
`StoppedReleasesDevices` is not inductive. The strengthening
`ReleaseInv` calls a slot released when its poller is dead and its handle
closed, and states three facts:
* without slots, every slot is released;
* the slots the join loop has passed (`JoinedSlots`: `0 .. mi - 1` in the
  loop, every slot at its end) are released;
* the `SIGHUP` handler reaches `start_sane_threads` only with no slots.

Three facts of the model make the induction work:
* a dead poller never runs again until `FreshSlots` replaces every slot;
* `StopJoin` waits for `pc[mi] = "dead"` and then closes the handle;
* a poller step changes only its own slot (`PollerShape`).

TLC checked `ReleaseInv` as an invariant before it was proved:
* on `core` (97,944 states);
* with two devices and a one-rule array (19.7 million states).

### Refinement

`PollerSlots` states what the slot array promises, without locks,
cancellation or dispatch. Its variables are `slots`, `alive[d]` and
`open[d]`, and it has four actions:
* `Run(d)`: a live thread with the array in place opens or closes its own
  handle, and may end;
* `Join(d)`: the handle of an ended thread is closed;
* `Free`: the array goes, but only when every thread has ended and every
  handle is closed;
* `Start`: a fresh array replaces one with the same condition.

`SaneThreads` instantiates it with the refinement mapping `slots <-
poll_threads`, `alive <- PollerAlive` (the poller's `pc` is not `"dead"`) and
`open <- h_open`. `SlotsRefined == Slots!Spec` is a property of `core`.
`SaneThreadsSlots` proves, for every number of devices and every rule
array:

* `THEOREM SlotsRefinement == Spec => SlotsRefined`.

The initial states map to the abstract initial state (`InitRefines`). Each
step maps to an abstract step or a stutter (`NextRefines`):
* a poller step is `Run` of its slot (`PollerRefines`); the array is in
  place because a live poller implies `poll_threads` (`ReleaseInv`);
* a pass of the join loop is `Join(mi)`;
* the end of `stop_sane_threads` is `Free`, or `Start` for `SIGUSR2`;
* `StartLock` and the `SIGUSR2` branch of `MainLock` are `Start`;
* every other step leaves the three mapped variables unchanged.

`Free` and `Start` need every slot released, and `ReleaseInv` supplies it.

`RuleCompilerOverride` proves, for every number of options, every
configuration and every outcome of `regcomp` and `regexec`:

* `THEOREM RuleArrayRefinement == Spec => RuleArrayRefined`. The compiler
  implements `RuleArray`.

`RuleArray` has two actions. `Override(i, r)` rewrites slot `i` with a rule
`r` for the same option. `Add(r)` appends while `Len(rules) < Cap` and,
unless `multi`, only for an option no rule has. `RuleCompiler` instantiates
it with `Rec <- RuleRecords`, `Cap <- NumOptions`, `rules <- opts` and
`multi <- multiple`. Only `ActionOpt` writes the array, through `Install`.
The step proof is `InstallRefines`, which maps the four outcomes of
`Install` to abstract steps:
* the array is full: a stutter;
* a string rule that is not valid is dropped: a stutter, or an `Override`
  of its slot with the patterns cleared;
* the option's slot is rewritten: an `Override`;
* the rule is appended: an `Add`. Without `multiple_actions` the dedupe
  loop reaches the end only when no entry has the option (`OptSlotFacts`).

Without `multi`, `Add` takes only options no rule has and `Override` keeps
each slot's option, so the contract itself says each option has at most
one rule (the override policy of spec section 4.1). Every other
step leaves `opts` and `multiple` unchanged (`OtherStepsKeepOpts`).

These are only model-checked:
* the safety properties other than `TypeOK` (of both modules),
  `TriggerIndexValid`, `StoppedReleasesDevices`, `SlotsRefined` and
  `RuleArrayRefined`. `NumericTriggerMatches` is not proved: it holds only
  for non-negative values, and fails for negative ones.
  The main one is `RulesMatchReference`. What the arrays hold is defined by
  recursion over the configuration (`FlattenSeq`, `SelectSeq`). Relating
  the loop to it needs induction over the configuration, which is out of
  reach of the provers;
* all liveness properties, since TLAPS does not reason about fairness or
  `ENABLED`.

## Not modelled

* **The environment array of the dispatch** (891-1014). This includes the
  format test on the triggering option's descriptor (927) and the assert on
  the entry count (1014).
* **Option values in `SaneThreads`.** They stay abstract there (`Values`).
  Their representation is modelled separately in `NumericTrigger`, for one
  rule. String options and their hash (243) are not modelled.
* **Two levels of signal nesting.** `SIGINT` can also interrupt the `SIGTERM`
  handler, and a nested stop can interrupt the device loop of
  `start_sane_threads`, which the model takes as one step. `TermNested`
  models one level, interrupting `SIGHUP`, `SIGUSR1` and `SIGUSR2` handlers.
* **Rule compiler and poller together.** `SaneThreads` takes the compiled
  array as its constant `Rules`. `RuleCompiler` checks how that array is
  built. Running both in one model would multiply two state spaces that are
  each checked on their own.
* **The script child's privilege change** (1073-1110), **configuration
  parsing, daemonisation, the pidfile and manager mode** (`scanbd.c`).
  Manager mode always exits at 321-329.
* **The invalid-device path of `sane_trigger_action`**, and the null-script
  test. `make_script_path_abs` is not under `src/`; its behaviour is taken
  from the specification.
* **`src/scanbuttond/backends/hp5590.h`**: declarations only.
