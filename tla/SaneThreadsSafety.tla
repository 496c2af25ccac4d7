-------------------------- MODULE SaneThreadsSafety --------------------------
(***************************************************************************)
(* Proof that the action index of a triggered device always names one of *)
(* its rules (TriggerIndexValid), for every number of devices and every   *)
(* rule array.  The index is written by the poller's rule check and by    *)
(* the D-Bus thread's sane_trigger_action, and read by the dispatch       *)
(* (sane.c:875-1037).                                                      *)
(***************************************************************************)
EXTENDS SaneThreadsProofs

-----------------------------------------------------------------------------
(* The strengthening.                                                      *)

(* Handler steps of the main thread that run inside stop_sane_threads    *)
(* with sane_mutex locked (sane.c:1335-1426).                            *)
MainHolding == {"stop", "stopCheck", "stopCancel", "stopJoin", "stopDone"}

(* A poller that has not started has no rules yet: the slot is calloc'd  *)
(* (sane.c:1287) and only sane_poll fills num_of_options_with_scripts.   *)
InitNoScripts == \A d \in Dev : pc[d] = "init" => num_scripts[d] = 0

(* sane_trigger_action holds sane_mutex from its lock (1202) to its      *)
(* unlock (1259), also while it waits on st->cv (1239-1247).             *)
DbusHoldsSane == dbus_pc \in {"lockDev", "waitTrig"} => sane_mutex = "dbus"

(* The range check of 1234 made before the wait on st->cv still holds    *)
(* when the wait ends: the rule array cannot be replaced meanwhile.      *)
WaitTrigInRange == dbus_pc = "waitTrig" => dbus_act < num_scripts[dbus_dev]

(* stop_sane_threads runs with sane_mutex held by the main thread.       *)
MainHoldsSane == main_pc \in MainHolding => sane_mutex = "main"

SafeInv ==
    /\ TriggerIndexValid
    /\ InitNoScripts
    /\ DbusHoldsSane
    /\ WaitTrigInRange
    /\ MainHoldsSane

(* Step predicates used by the frame lemma.                              *)
NoNewInit == \A e \in Dev : pc'[e] = "init" => pc[e] = "init"
MainStays == main_pc' \in MainHolding => main_pc \in MainHolding

-----------------------------------------------------------------------------
LEMMA InitSafeInv == Init => SafeInv
BY DEF Init, SafeInv, TriggerIndexValid, InitNoScripts, DbusHoldsSane,
       WaitTrigInRange, MainHoldsSane, MainHolding

(* A step that keeps the trigger fields, the rule counts and the owners  *)
(* of sane_mutex keeps the index valid.                                  *)
LEMMA TriggerIndexFrame ==
    ASSUME TriggerIndexValid,
           UNCHANGED <<triggered, triggered_option, num_scripts>>
    PROVE  TriggerIndexValid'
BY DEF TriggerIndexValid

(* A step that keeps the rule counts, sane_mutex and the D-Bus thread,   *)
(* starts no poller and enters no stop loop keeps the strengthening once *)
(* the index is valid after it.                                          *)
LEMMA FrameSafe ==
    ASSUME SafeInv, TriggerIndexValid',
           UNCHANGED <<num_scripts, sane_mutex, dbus_pc, dbus_dev, dbus_act>>,
           NoNewInit, MainStays
    PROVE  SafeInv'
BY DEF SafeInv, InitNoScripts, DbusHoldsSane, WaitTrigInRange,
       MainHoldsSane, NoNewInit, MainStays

(* Moving one poller to a place other than "init" starts no poller.      *)
LEMMA PcStepNoNewInit ==
    ASSUME NEW d \in Dev, NEW x, x # "init",
           pc \in [Dev -> PollPcs], pc' = [pc EXCEPT ![d] = x]
    PROVE  NoNewInit
BY DEF NoNewInit

(* NextRule moves the poller to the next check or to the sleep.          *)
LEMMA NextRuleNoNewInit ==
    ASSUME NEW d \in Dev, pc \in [Dev -> PollPcs], NextRule(d)
    PROVE  NoNewInit
<1>1. CASE si[d] + 1 < num_scripts[d]
    BY <1>1, PcStepNoNewInit DEF NextRule
<1>2. CASE ~(si[d] + 1 < num_scripts[d])
    BY <1>2, PcStepNoNewInit DEF NextRule
<1>3. QED
    BY <1>1, <1>2

(* A poller step that leaves the trigger fields, the rule counts and the *)
(* other threads alone, moving the poller away from "init".              *)
LEMMA QuietPollerSafe ==
    ASSUME TypeInv, SafeInv, NEW d \in Dev, NEW x, x # "init",
           pc' = [pc EXCEPT ![d] = x],
           UNCHANGED <<triggered, triggered_option, num_scripts, otherVars>>
    PROVE  SafeInv'
<1>1. pc \in [Dev -> PollPcs]
    BY DEF TypeInv, TypeOK
<1>2. NoNewInit
    BY <1>1, PcStepNoNewInit
<1>3. TriggerIndexValid'
    BY TriggerIndexFrame DEF SafeInv
<1>4. MainStays
    BY DEF MainStays, otherVars
<1>5. QED
    BY <1>2, <1>3, <1>4, FrameSafe DEF otherVars

LEMMA BeginSafe ==
    ASSUME TypeInv, SafeInv, NEW d \in Dev, Begin(d) PROVE SafeInv'
BY QuietPollerSafe DEF Begin

LEMMA TrigSigSafe ==
    ASSUME TypeInv, SafeInv, NEW d \in Dev, TrigSig(d) PROVE SafeInv'
BY QuietPollerSafe DEF TrigSig

LEMMA PreForkSafe ==
    ASSUME TypeInv, SafeInv, NEW d \in Dev, PreFork(d) PROVE SafeInv'
BY QuietPollerSafe DEF PreFork

LEMMA WaitChildSafe ==
    ASSUME TypeInv, SafeInv, NEW d \in Dev, WaitChild(d) PROVE SafeInv'
BY QuietPollerSafe DEF WaitChild

LEMMA SettleSafe ==
    ASSUME TypeInv, SafeInv, NEW d \in Dev, Settle(d) PROVE SafeInv'
BY QuietPollerSafe DEF Settle

LEMMA ScanEndSafe ==
    ASSUME TypeInv, SafeInv, NEW d \in Dev, ScanEnd(d) PROVE SafeInv'
BY QuietPollerSafe DEF ScanEnd

LEMMA SleepSafe ==
    ASSUME TypeInv, SafeInv, NEW d \in Dev, Sleep(d) PROVE SafeInv'
BY QuietPollerSafe DEF Sleep

LEMMA CancelSafe ==
    ASSUME TypeInv, SafeInv, NEW d \in Dev, Cancel(d) PROVE SafeInv'
BY QuietPollerSafe DEF Cancel

LEMMA TopSafe ==
    ASSUME TypeInv, SafeInv, NEW d \in Dev, Top(d) PROVE SafeInv'
<1>1. CASE num_scripts[d] > 0
    BY <1>1, QuietPollerSafe DEF Top
<1>2. CASE ~(num_scripts[d] > 0)
    BY <1>2, QuietPollerSafe DEF Top
<1>3. QED
    BY <1>1, <1>2

(* The reopen either ends the thread or goes on with the rule loop.      *)
LEMMA ReopenSafe ==
    ASSUME TypeInv, SafeInv, NEW d \in Dev, Reopen(d) PROVE SafeInv'
<1>1. pc \in [Dev -> PollPcs]
    BY DEF TypeInv, TypeOK
<1>2. NoNewInit
  <2>1. PICK st \in OpenStatus :
            CASE st = "good"   -> /\ h_open' = [h_open EXCEPT ![d] = TRUE]
                                  /\ NextRule(d)
              [] st = "denied" -> /\ pc' = [pc EXCEPT ![d] = "dead"]
                                  /\ UNCHANGED <<h_open, si>>
              [] OTHER         -> /\ NextRule(d)
                                  /\ UNCHANGED h_open
      BY DEF Reopen
  <2>2. CASE st = "good"
      BY <1>1, <2>1, <2>2, NextRuleNoNewInit
  <2>3. CASE st = "denied"
      BY <1>1, <2>1, <2>3, PcStepNoNewInit
  <2>4. CASE st # "good" /\ st # "denied"
      BY <1>1, <2>1, <2>4, NextRuleNoNewInit
  <2>5. QED
      BY <2>2, <2>3, <2>4
<1>3. TriggerIndexValid'
    BY TriggerIndexFrame DEF SafeInv, Reopen
<1>4. QED
    BY <1>2, <1>3, FrameSafe DEF Reopen, otherVars, MainStays

(* Clearing triggered sets the index back to -1 (sane.c:1131-1132).     *)
LEMMA ClearSafe ==
    ASSUME TypeInv, SafeInv, NEW d \in Dev, Clear(d) PROVE SafeInv'
<1>1. /\ pc \in [Dev -> PollPcs]
      /\ triggered \in [Dev -> BOOLEAN]
      /\ triggered_option \in [Dev -> -1 .. NRules]
    BY DEF TypeInv, TypeOK
<1>2. NoNewInit
    BY <1>1, PcStepNoNewInit DEF Clear
<1>3. TriggerIndexValid'
    BY <1>1 DEF SafeInv, TriggerIndexValid, Clear
<1>4. QED
    BY <1>2, <1>3, FrameSafe DEF Clear, otherVars, MainStays

(* The rule check keeps a pending index or sets the index of the rule    *)
(* that fired, which the loop bound keeps below the rule count           *)
(* (sane.c:773, 835-836).                                                *)
LEMMA CheckSafe ==
    ASSUME TypeInv, SafeInv, NEW d \in Dev, Check(d) PROVE SafeInv'
<1> DEFINE i == si[d]
           v == ReadValue(d, i)
           fire == Fires(d, i, v)
           trig == triggered[d] \/ fire
           opt == IF fire THEN i ELSE triggered_option[d]
<1>0. /\ pc \in [Dev -> PollPcs]
      /\ triggered \in [Dev -> BOOLEAN]
      /\ triggered_option \in [Dev -> -1 .. NRules]
      /\ pc[d] = "check"
    BY DEF TypeInv, TypeOK, Check
<1>1. CASE ~h_open[d]
  <2>1. UNCHANGED <<pc, triggered, triggered_option, num_scripts, otherVars>>
      BY <1>1 DEF Check, pollVars
  <2>2. NoNewInit
      BY <2>1 DEF NoNewInit
  <2>3. TriggerIndexValid'
      BY <2>1, TriggerIndexFrame DEF SafeInv
  <2>4. QED
      BY <2>1, <2>2, <2>3, FrameSafe DEF otherVars, MainStays
<1>2. CASE h_open[d]
  <2>1. /\ triggered' = [triggered EXCEPT ![d] = trig]
        /\ triggered_option' = [triggered_option EXCEPT ![d] = opt]
        /\ UNCHANGED <<num_scripts, otherVars>>
        /\ \/ pc' = [pc EXCEPT ![d] = "begin"]
           \/ NextRule(d)
      BY <1>2 DEF Check
  <2>2. /\ trig => opt \in 0 .. num_scripts[d] - 1
        /\ ~trig => opt = -1
    <3>1. CASE fire
      <4>1. i \in 0 .. num_scripts[d] - 1
          BY <1>0 DEF TypeInv, CheckIndexValid
      <4>2. QED
          BY <3>1, <4>1
    <3>2. CASE ~fire
        BY <3>2 DEF SafeInv, TriggerIndexValid
    <3>3. QED
        BY <3>1, <3>2
  <2>3. TriggerIndexValid'
    <3>1. triggered'[d] = trig /\ triggered_option'[d] = opt
        BY <1>0, <2>1
    <3>2. ASSUME NEW e \in Dev, e # d
          PROVE  IF triggered'[e] THEN triggered_option'[e] \in 0 .. num_scripts'[e] - 1
                                  ELSE triggered_option'[e] = -1
        BY <1>0, <2>1, <3>2 DEF SafeInv, TriggerIndexValid
    <3>3. QED
        BY <2>1, <2>2, <3>1, <3>2 DEF TriggerIndexValid
  <2>4. NoNewInit
      BY <1>0, <2>1, PcStepNoNewInit, NextRuleNoNewInit
  <2>5. QED
      BY <2>1, <2>3, <2>4, FrameSafe DEF otherVars, MainStays
<1>3. QED
    BY <1>1, <1>2
(* Start-up fills the rule count of a slot that had none, so no index   *)
(* of that slot is pending and a waiting D-Bus range check stays valid   *)
(* (sane.c:627-751).                                                     *)
LEMMA StartupSafe ==
    ASSUME TypeInv, SafeInv, NEW d \in Dev, Startup(d) PROVE SafeInv'
<1>0. /\ pc \in [Dev -> PollPcs]
      /\ triggered \in [Dev -> BOOLEAN]
      /\ triggered_option \in [Dev -> -1 .. NRules]
      /\ num_scripts \in [Dev -> 0 .. NRules]
      /\ dbus_dev \in Dev /\ dbus_act \in 0 .. NRules
      /\ pc[d] = "init"
    BY DEF TypeInv, TypeOK, Startup
<1>1. num_scripts[d] = 0 /\ ~triggered[d] /\ triggered_option[d] = -1
    BY <1>0 DEF SafeInv, InitNoScripts, TriggerIndexValid
<1>2. PICK st \in OpenStatus, hasOptions \in BOOLEAN :
          IF st # "good"
          THEN /\ pc' = [pc EXCEPT ![d] = "dead"]
               /\ UNCHANGED <<h_open, num_scripts, value>>
          ELSE /\ h_open' = [h_open EXCEPT ![d] = TRUE]
               /\ IF hasOptions
                  THEN /\ pc' = [pc EXCEPT ![d] = "top"]
                       /\ num_scripts' = [num_scripts EXCEPT ![d] = NRules]
                       /\ value' = [value EXCEPT ![d] =
                                      [i \in RuleIdx |-> dev_val[d][Rule(i).number]]]
                  ELSE /\ pc' = [pc EXCEPT ![d] = "dead"]
                       /\ UNCHANGED <<num_scripts, value>>
    BY DEF Startup
<1>3. UNCHANGED <<triggered, triggered_option, otherVars>>
    BY DEF Startup
<1>4. CASE st = "good" /\ hasOptions
  <2>1. pc' = [pc EXCEPT ![d] = "top"]
        /\ num_scripts' = [num_scripts EXCEPT ![d] = NRules]
      BY <1>2, <1>4
  <2>2. TriggerIndexValid'
      BY <1>0, <1>1, <1>3, <2>1 DEF SafeInv, TriggerIndexValid
  <2>3. InitNoScripts'
      BY <1>0, <2>1 DEF SafeInv, InitNoScripts
  <2>4. WaitTrigInRange'
      BY <1>0, <1>1, <1>3, <2>1, NRulesNat DEF SafeInv, WaitTrigInRange, otherVars
  <2>5. QED
      BY <1>3, <2>2, <2>3, <2>4 DEF SafeInv, DbusHoldsSane, MainHoldsSane, otherVars
<1>5. CASE ~(st = "good" /\ hasOptions)
  <2>1. pc' = [pc EXCEPT ![d] = "dead"] /\ UNCHANGED num_scripts
      BY <1>2, <1>5
  <2>2. QED
      BY <1>3, <2>1, QuietPollerSafe
<1>6. QED
    BY <1>4, <1>5

-----------------------------------------------------------------------------
(* Steps of the main thread, the environment and the stutter.             *)

(* A step that leaves the pollers' slots, sane_mutex and the D-Bus       *)
(* thread alone and enters no stop loop.                                 *)
LEMMA QuietMainSafe ==
    ASSUME SafeInv,
           UNCHANGED <<pc, triggered, triggered_option, num_scripts,
                       sane_mutex, dbus_pc, dbus_dev, dbus_act>>,
           MainStays
    PROVE  SafeInv'
<1>1. TriggerIndexValid'
    BY TriggerIndexFrame DEF SafeInv
<1>2. NoNewInit
    BY DEF NoNewInit
<1>3. QED
    BY <1>1, <1>2, FrameSafe

(* start_sane_threads gives every slot a fresh state; neither the D-Bus  *)
(* thread nor the main thread holds sane_mutex afterwards.               *)
LEMMA ResetSafe ==
    ASSUME FreshSlots,
           ~(dbus_pc' \in {"lockDev", "waitTrig"}),
           ~(main_pc' \in MainHolding)
    PROVE  SafeInv'
BY DEF FreshSlots, SafeInv, TriggerIndexValid, InitNoScripts,
       DbusHoldsSane, WaitTrigInRange, MainHoldsSane

LEMMA SignalArrivesSafe ==
    ASSUME SafeInv, NEW sig \in Signals, SignalArrives(sig) PROVE SafeInv'
BY QuietMainSafe DEF SignalArrives, MainStays, MainHolding, pollVars,
   dbusVars

(* A nested stop_sane_threads relocks sane_mutex only if the main       *)
(* thread already holds it.                                               *)
LEMMA TermNestedSafe ==
    ASSUME SafeInv, TermNested PROVE SafeInv'
<1>1. TriggerIndexValid'
    BY TriggerIndexFrame DEF SafeInv, TermNested, pollVars
<1>2. MainHoldsSane'
    BY DEF TermNested, MainHoldsSane, MainHolding
<1>3. QED
    BY <1>1, <1>2 DEF SafeInv, InitNoScripts, DbusHoldsSane, WaitTrigInRange,
                      TermNested, pollVars, dbusVars

LEMMA StopStepsSafe ==
    ASSUME SafeInv, StopEnter \/ StopCheck \/ StopCancel \/ StopJoin
    PROVE  SafeInv'
<1>1. CASE StopEnter
    BY <1>1, QuietMainSafe DEF StopEnter, MainStays, MainHolding, pollVars,
       dbusVars
<1>2. CASE StopCheck
    BY <1>2, QuietMainSafe DEF StopCheck, MainStays, MainHolding, pollVars,
       dbusVars
<1>3. CASE StopCancel
    BY <1>3, QuietMainSafe DEF StopCancel, MainStays, MainHolding, dbusVars
<1>4. CASE StopJoin
    BY <1>4, QuietMainSafe DEF StopJoin, MainStays, MainHolding, dbusVars
<1>5. QED
    BY <1>1, <1>2, <1>3, <1>4

(* The handler's lock of sane_mutex, or the start of the pollers by      *)
(* SIGUSR2 when none run (sane.c:1270-1278).                             *)
LEMMA MainLockSafe ==
    ASSUME SafeInv, MainLock PROVE SafeInv'
<1>1. sane_mutex = "none" /\ ~(dbus_pc \in {"lockDev", "waitTrig"})
    BY DEF MainLock, SafeInv, DbusHoldsSane
<1>2. CASE main_sig = "usr2" /\ ~poll_threads
    BY <1>1, <1>2, ResetSafe DEF MainLock, StartThreads, dbusVars, MainHolding
<1>3. CASE ~(main_sig = "usr2" /\ ~poll_threads)
  <2>1. /\ sane_mutex' = "main" /\ main_pc' = "stop"
        /\ UNCHANGED <<pollVars, dbusVars>>
      BY <1>3 DEF MainLock
  <2>2. TriggerIndexValid' /\ InitNoScripts'
      BY <2>1 DEF SafeInv, TriggerIndexValid, InitNoScripts, pollVars
  <2>3. QED
      BY <1>1, <2>1, <2>2 DEF SafeInv, DbusHoldsSane, WaitTrigInRange,
         MainHoldsSane, dbusVars
<1>4. QED
    BY <1>2, <1>3

(* The end of stop_sane_threads and of the handler (sane.c:1414-1426,   *)
(* scanbd.c:143-188).                                                    *)
LEMMA StopDoneSafe ==
    ASSUME SafeInv, StopDone PROVE SafeInv'
<1>1. ~(dbus_pc \in {"lockDev", "waitTrig"})
    BY DEF StopDone, SafeInv, MainHoldsSane, DbusHoldsSane, MainHolding
<1>2. UNCHANGED dbusVars
    BY DEF StopDone
<1>3. CASE main_sig = "usr1" \/ main_sig = "hup"
  <2>1. /\ sane_mutex' = "none" /\ main_pc' \in {"idle", "start"}
        /\ UNCHANGED pollVars
      BY <1>3 DEF StopDone
  <2>2. TriggerIndexValid' /\ InitNoScripts'
      BY <2>1 DEF SafeInv, TriggerIndexValid, InitNoScripts, pollVars
  <2>3. QED
      BY <1>1, <1>2, <2>1, <2>2 DEF SafeInv, DbusHoldsSane, WaitTrigInRange,
         MainHoldsSane, MainHolding, dbusVars
<1>4. CASE main_sig = "usr2"
    BY <1>1, <1>2, <1>4, ResetSafe DEF StopDone, StartThreads, dbusVars,
       MainHolding
<1>5. CASE main_sig \notin {"usr1", "hup", "usr2"}
    BY <1>5, QuietMainSafe DEF StopDone, MainStays, pollVars, dbusVars
<1>6. QED
    BY <1>3, <1>4, <1>5

(* The start_sane_threads of the SIGHUP handler.                         *)
LEMMA StartLockSafe ==
    ASSUME SafeInv, StartLock PROVE SafeInv'
<1>1. ~(dbus_pc \in {"lockDev", "waitTrig"})
    BY DEF StartLock, SafeInv, DbusHoldsSane
<1>2. QED
    BY <1>1, ResetSafe DEF StartLock, StartThreads, dbusVars, MainHolding
LEMMA EnvSafe ==
    ASSUME SafeInv, EnvStep PROVE SafeInv'
<1>1. CASE \E d \in Dev, o \in Options, v \in Values : Press(d, o, v)
    BY <1>1, QuietMainSafe DEF Press, MainStays, pollVars, mainVars,
       dbusVars
<1>2. CASE \E d \in Dev : ChildExit(d)
    BY <1>2, QuietMainSafe DEF ChildExit, MainStays, pollVars, mainVars,
       dbusVars
<1>3. QED
    BY <1>1, <1>2 DEF EnvStep

-----------------------------------------------------------------------------
(* Steps of the D-Bus thread (sane_trigger_action).                       *)

(* The call locks sane_mutex, which no stop loop holds then.              *)
LEMMA TriggerCallSafe ==
    ASSUME SafeInv, NEW dv \in Dev, NEW act \in 0 .. NRules,
           TriggerCall(dv, act)
    PROVE  SafeInv'
<1>1. sane_mutex = "none" /\ ~(main_pc \in MainHolding)
    BY DEF TriggerCall, SafeInv, MainHoldsSane
<1>2. /\ dbus_pc' \in {"lockDev", "waitSane"}
      /\ dbus_pc' = "lockDev" => sane_mutex' = "dbus"
      /\ sane_mutex' \in {"none", "dbus"}
      /\ UNCHANGED <<pollVars, mainVars>>
    BY DEF TriggerCall
<1>2a. TriggerIndexValid' /\ InitNoScripts'
    BY <1>2 DEF SafeInv, TriggerIndexValid, InitNoScripts, pollVars
<1>3. QED
    BY <1>1, <1>2, <1>2a DEF SafeInv, DbusHoldsSane, WaitTrigInRange,
       MainHoldsSane, mainVars

(* Woken on sane_cv, the caller relocks sane_mutex.                       *)
LEMMA SaneWakeSafe ==
    ASSUME SafeInv, SaneWake PROVE SafeInv'
<1>1. ~(main_pc \in MainHolding)
    BY DEF SaneWake, SafeInv, MainHoldsSane
<1>2. TriggerIndexValid' /\ InitNoScripts'
    BY DEF SaneWake, SafeInv, TriggerIndexValid, InitNoScripts, pollVars
<1>3. QED
    BY <1>1, <1>2 DEF SaneWake, SafeInv, DbusHoldsSane, WaitTrigInRange,
       MainHoldsSane, mainVars

(* Setting the trigger with an action in range (sane.c:1249-1263).        *)
LEMMA SetTriggerSafe ==
    ASSUME TypeInv, SafeInv, SetTrigger,
           dbus_act \in 0 .. num_scripts[dbus_dev] - 1,
           ~(main_pc \in MainHolding),
           UNCHANGED <<pc, num_scripts, main_pc, dbus_dev, dbus_act>>
    PROVE  SafeInv'
<1>1. /\ triggered \in [Dev -> BOOLEAN]
      /\ triggered_option \in [Dev -> -1 .. NRules]
      /\ dbus_dev \in Dev
    BY DEF TypeInv, TypeOK
<1>2. TriggerIndexValid'
    BY <1>1 DEF SetTrigger, SafeInv, TriggerIndexValid
<1>3. QED
    BY <1>2 DEF SetTrigger, SafeInv, InitNoScripts, DbusHoldsSane,
       WaitTrigInRange, MainHoldsSane

(* The device lock step: reject, wait on st->cv, or trigger               *)
(* (sane.c:1229-1263).                                                   *)
LEMMA TrigLockDevSafe ==
    ASSUME TypeInv, SafeInv, TrigLockDev PROVE SafeInv'
<1>0. /\ dbus_dev \in Dev /\ dbus_act \in 0 .. NRules
      /\ num_scripts \in [Dev -> 0 .. NRules]
      /\ ~(main_pc \in MainHolding)
      /\ UNCHANGED <<pollVars, mainVars, dbus_dev, dbus_act>> \/ SetTrigger
    BY DEF TypeInv, TypeOK, TrigLockDev, SafeInv, DbusHoldsSane,
       MainHoldsSane, pollVars
<1>1. UNCHANGED <<pc, num_scripts, mainVars, dbus_dev, dbus_act>>
    BY DEF TrigLockDev
<1>2. CASE dbus_act >= num_scripts[dbus_dev]
  <2>1. sane_mutex' = "none" /\ dbus_pc' = "idle"
        /\ UNCHANGED <<triggered, triggered_option>>
      BY <1>2 DEF TrigLockDev
  <2>2. TriggerIndexValid' /\ InitNoScripts'
      BY <1>1, <2>1 DEF SafeInv, TriggerIndexValid, InitNoScripts
  <2>3. QED
      BY <1>0, <1>1, <2>1, <2>2 DEF SafeInv, DbusHoldsSane,
         WaitTrigInRange, MainHoldsSane, mainVars
<1>3. CASE ~(dbus_act >= num_scripts[dbus_dev]) /\ triggered[dbus_dev]
  <2>1. dbus_pc' = "waitTrig"
        /\ UNCHANGED <<sane_mutex, triggered, triggered_option>>
      BY <1>3 DEF TrigLockDev
  <2>2. dbus_act < num_scripts[dbus_dev]
      BY <1>0, <1>3
  <2>3. sane_mutex = "dbus"
      BY DEF TrigLockDev, SafeInv, DbusHoldsSane
  <2>4. TriggerIndexValid' /\ InitNoScripts'
      BY <1>1, <2>1 DEF SafeInv, TriggerIndexValid, InitNoScripts
  <2>5. QED
      BY <1>0, <1>1, <2>1, <2>2, <2>3, <2>4 DEF SafeInv, DbusHoldsSane,
         WaitTrigInRange, MainHoldsSane, mainVars
<1>4. CASE ~(dbus_act >= num_scripts[dbus_dev]) /\ ~triggered[dbus_dev]
  <2>1. SetTrigger
      BY <1>4 DEF TrigLockDev
  <2>2. dbus_act \in 0 .. num_scripts[dbus_dev] - 1
      BY <1>0, <1>4
  <2>3. QED
      BY <1>0, <1>1, <2>1, <2>2, SetTriggerSafe DEF mainVars
<1>5. QED
    BY <1>2, <1>3, <1>4

(* Woken on st->cv with triggered cleared, the caller triggers the       *)
(* action it checked before waiting.                                     *)
LEMMA TrigWakeSafe ==
    ASSUME TypeInv, SafeInv, TrigWake PROVE SafeInv'
<1>1. /\ dbus_act \in 0 .. NRules
      /\ num_scripts \in [Dev -> 0 .. NRules] /\ dbus_dev \in Dev
    BY DEF TypeInv, TypeOK
<1>2. dbus_act \in 0 .. num_scripts[dbus_dev] - 1
    BY <1>1 DEF TrigWake, SafeInv, WaitTrigInRange
<1>3. ~(main_pc \in MainHolding)
    BY DEF TrigWake, SafeInv, DbusHoldsSane, MainHoldsSane
<1>4. QED
    BY <1>2, <1>3, SetTriggerSafe DEF TrigWake, mainVars

-----------------------------------------------------------------------------
LEMMA NextSafeInv == TypeInv /\ SafeInv /\ [Next]_vars => SafeInv'
<1> SUFFICES ASSUME TypeInv, SafeInv, [Next]_vars PROVE SafeInv'
    OBVIOUS
<1>1. ASSUME NEW d \in Dev, Poller(d) PROVE SafeInv'
    BY <1>1, StartupSafe, TopSafe, CheckSafe, BeginSafe, TrigSigSafe,
       PreForkSafe, WaitChildSafe, ClearSafe, SettleSafe, ScanEndSafe,
       ReopenSafe, SleepSafe, CancelSafe DEF Poller
<1>2. CASE MainStep
    BY <1>2, SignalArrivesSafe, MainLockSafe, StopStepsSafe, StopDoneSafe,
       StartLockSafe, TermNestedSafe DEF MainStep
<1>3. CASE DbusStep
    BY <1>3, TriggerCallSafe, SaneWakeSafe, TrigLockDevSafe, TrigWakeSafe
    DEF DbusStep
<1>4. CASE EnvStep
    BY <1>4, EnvSafe
<1>5. CASE Halted \/ UNCHANGED vars
    BY <1>5 DEF Halted, vars, pollVars, SafeInv, TriggerIndexValid,
       InitNoScripts, DbusHoldsSane, WaitTrigInRange, MainHoldsSane
<1>6. QED
    BY <1>1, <1>2, <1>3, <1>4, <1>5 DEF Next

(* The action index that the dispatch of a triggered device reads       *)
(* (sane.c:875-1037) always names one of the device's rules, whether the *)
(* poller's rule check or a D-Bus sane_trigger_action set it, across any *)
(* stops and restarts of the pollers, for every number of devices and    *)
(* every rule array; an untriggered device has the index -1.             *)
THEOREM TriggerIndexAlwaysValid == Spec => []TriggerIndexValid
<1>1. Init => TypeInv /\ SafeInv
    BY InitTypeInv, InitSafeInv
<1>2. TypeInv /\ SafeInv /\ [Next]_vars => TypeInv' /\ SafeInv'
    BY NextTypeInv, NextSafeInv
<1>3. SafeInv => TriggerIndexValid
    BY DEF SafeInv
<1>4. QED
    BY <1>1, <1>2, <1>3, PTL DEF Spec
====
