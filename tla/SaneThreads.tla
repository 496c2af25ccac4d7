----------------------------- MODULE SaneThreads -----------------------------
(***************************************************************************)
(* The thread machinery of scanbd (src/src/scanbd/sane.c, the signal      *)
(* handlers of src/scanbd.c): one polling thread per device (sane_poll,   *)
(* which also runs the dispatch of a fired action), the main thread that  *)
(* runs the signal handlers (stop_sane_threads, start_sane_threads) and    *)
(* the D-Bus thread that injects triggers (sane_trigger_action).          *)
(*                                                                         *)
(* Locks.  sane_mutex is an owner variable.  A device mutex st->mutex is   *)
(* held across steps only by its polling thread, so it is derived from    *)
(* the poller's pc (PollerHolds); the main and the D-Bus thread take it   *)
(* only inside one atomic step (lock, check, update, unlock).             *)
(*                                                                         *)
(* Cancellation.  stop_sane_threads cancels with pthread_cancel (deferred *)
(* type).  A pending cancel acts at a cancellation point while the        *)
(* cancel state is enabled; the cleanup handler pushed at sane.c:626      *)
(* unlocks st->mutex whether or not the thread holds it.                  *)
(*                                                                         *)
(* Data is abstracted: option values are members of Values, a rule is a   *)
(* numeric trigger (from, to) on an option number, the compiled rule      *)
(* array st->opts is the constant Rules (what the rule compiler of       *)
(* sane.c:277-601 produces; the compiler itself is not modelled here).    *)
(***************************************************************************)
EXTENDS Integers, Sequences, FiniteSets

CONSTANTS
    NumDevices,   \* num_devices, fixed by get_sane_devices at start-up
    Options,      \* option numbers a rule may name (1 .. num_of_options-1)
    Values,       \* option values (SANE_Word read as unsigned long)
    Rules         \* st->opts[0 .. num_of_options_with_scripts-1]

NULL_SCRIPT == "null"     \* SCANBD_NULL_STRING: a rule with no script
RuleRec == [number : Options, from : Values, to : Values,
            script : {"script", NULL_SCRIPT}]

ASSUME ConstAssumption ==
    /\ NumDevices \in Nat \ {0}
    /\ Options \subseteq Nat \ {0}
    /\ Values \subseteq Nat
    /\ 0 \in Values
    /\ Rules \in Seq(RuleRec)

Dev == 0 .. NumDevices - 1
NRules == Len(Rules)
RuleIdx == 0 .. NRules - 1
Rule(i) == Rules[i + 1]              \* st->opts[i]

(* Program counter of a polling thread: the place it waits at.           *)
PollPcs == {"init",       \* created, before the lock at sane.c:627
            "top",        \* loop top, pthread_testcancel, sane.c:757-768
            "check",      \* about to poll rule si, sane.c:773-873
            "begin",      \* fired, sending scan_begin, sane.c:1018
            "trigSig",    \* sending the trigger signal, sane.c:1021-1046
            "preFork",    \* usleep before fork, sane.c:1051
            "waitChild",  \* waitpid for the script, sane.c:1060
            "clear",      \* relock and clear triggered, sane.c:1125-1143
            "settle",     \* usleep after clearing, sane.c:1145
            "scanEnd",    \* sending scan_end, sane.c:1148
            "reopen",     \* relock and sane_open, sane.c:1151-1165
            "sleep",      \* usleep of the polling loop, sane.c:1173-1189
            "dead"}       \* the thread has exited or was cancelled

(* The pcs at which the poller holds st->mutex between steps.            *)
HeldPcs == {"top", "check", "begin", "trigSig"}
(* Cancellation points: usleep, waitpid, pthread_testcancel and the      *)
(* socket writes of dbus_send_signal.                                     *)
CancelPcs == {"top", "sleep", "preFork", "waitChild", "settle",
              "begin", "trigSig", "scanEnd"}

MainPcs == {"idle", "lock", "stop", "stopCheck", "stopCancel",
            "stopJoin", "stopDone", "start"}
Signals == {"hup", "usr1", "usr2", "term"}
DbusPcs == {"idle", "lockDev", "waitTrig", "waitSane"}
OpenStatus == {"good", "denied", "inval"}

VARIABLES
    proc,                 \* "run", or "exit"/"crash": the process is gone
    sane_mutex,           \* owner of sane_mutex: "none", "main", "dbus"
    poll_threads,         \* sane_poll_threads # NULL
    pc, si,               \* polling thread: pc and rule index
    triggered,            \* st->triggered
    triggered_option,     \* st->triggered_option
    h_open,               \* st->h # NULL
    cancel_enabled,       \* cancel state of the polling thread
    cancel_pending,       \* pthread_cancel sent, not yet acted on
    num_scripts,          \* st->num_of_options_with_scripts
    value,                \* st->opts[i].value, the last polled value
    dev_val,              \* the value each option of the device has now
    child,                \* a script child of the device is running
    scan_open,            \* scan_begin sent on the bus, scan_end not yet
    main_pc, main_sig, mi,        \* main thread: pc, signal, device index
    dbus_pc, dbus_dev, dbus_act   \* D-Bus thread: pc and call arguments

pollVars == <<pc, si, triggered, triggered_option, h_open, cancel_enabled,
              cancel_pending, num_scripts, value>>
vars == <<proc, sane_mutex, poll_threads, pollVars, dev_val, child,
          scan_open, main_pc, main_sig, mi, dbus_pc, dbus_dev, dbus_act>>

(* The variables a polling thread never writes.                         *)
otherVars == <<sane_mutex, poll_threads, dev_val, main_pc, main_sig, mi,
               dbus_pc, dbus_dev, dbus_act>>

PollerHolds(d) == pc[d] \in HeldPcs

(* A pending cancel that the thread must act on at a sure cancellation   *)
(* point (usleep, waitpid).                                              *)
MustCancel(d) == cancel_pending[d] /\ cancel_enabled[d]

-----------------------------------------------------------------------------
(* Helpers                                                                *)

(* The first rule before i that polls the same option (sane.c:804-809).  *)
SameBefore(i) == {o \in 0 .. i - 1 : Rule(o).number = Rule(i).number}
FirstSame(i) == CHOOSE o \in SameBefore(i) : \A p \in SameBefore(i) : o =< p

(* The value rule i sees in this pass: the device is read only for the   *)
(* first rule of an option, later ones copy it (sane.c:802-824).         *)
ReadValue(d, i) ==
    IF SameBefore(i) = {} THEN dev_val[d][Rule(i).number]
                          ELSE value[d][FirstSame(i)]

(* Numeric trigger: last value = from and current value = to (sane.c:832)*)
Fires(d, i, v) == Rule(i).from = value[d][i] /\ Rule(i).to = v

(* Continue the for-loop over the rules after rule si (sane.c:773).      *)
NextRule(d) ==
    IF si[d] + 1 < num_scripts[d]
    THEN /\ si' = [si EXCEPT ![d] = si[d] + 1]
         /\ pc' = [pc EXCEPT ![d] = "check"]
    ELSE /\ si' = si
         /\ pc' = [pc EXCEPT ![d] = "sleep"]     \* unlock, sane.c:1173

(* The per-device state a fresh slot starts with (sane.c:1293-1311).     *)
FreshSlots ==
    /\ pc' = [d \in Dev |-> "init"]
    /\ si' = [d \in Dev |-> 0]
    /\ triggered' = [d \in Dev |-> FALSE]
    /\ triggered_option' = [d \in Dev |-> -1]
    /\ h_open' = [d \in Dev |-> FALSE]
    /\ cancel_enabled' = [d \in Dev |-> FALSE]
    /\ cancel_pending' = [d \in Dev |-> FALSE]
    /\ num_scripts' = [d \in Dev |-> 0]
    /\ value' = [d \in Dev |-> [i \in RuleIdx |-> 0]]

-----------------------------------------------------------------------------
Init ==
    /\ proc = "run"
    /\ sane_mutex = "none"
    /\ poll_threads = TRUE           \* main has run start_sane_threads
    /\ pc = [d \in Dev |-> "init"]
    /\ si = [d \in Dev |-> 0]
    /\ triggered = [d \in Dev |-> FALSE]
    /\ triggered_option = [d \in Dev |-> -1]
    /\ h_open = [d \in Dev |-> FALSE]
    /\ cancel_enabled = [d \in Dev |-> FALSE]
    /\ cancel_pending = [d \in Dev |-> FALSE]
    /\ num_scripts = [d \in Dev |-> 0]
    /\ value = [d \in Dev |-> [i \in RuleIdx |-> 0]]
    /\ dev_val \in [Dev -> [Options -> Values]]
    /\ child = [d \in Dev |-> FALSE]
    /\ scan_open = [d \in Dev |-> FALSE]
    /\ main_pc = "idle"
    /\ main_sig = "usr1"
    /\ mi = 0
    /\ dbus_pc = "idle"
    /\ dbus_dev = 0
    /\ dbus_act = 0

-----------------------------------------------------------------------------
(* Polling thread of device d: sane_poll, sane.c:607-1193.               *)

(* Lock st->mutex, open the device, read option 0, compile the rules and  *)
(* read each rule's initial value (sane.c:626-751, 539).  A failed open  *)
(* or an empty option count ends the thread through pthread_exit.        *)
Startup(d) ==
    /\ proc = "run"
    /\ pc[d] = "init"
    /\ \E st \in OpenStatus, hasOptions \in BOOLEAN :
         IF st # "good"
         THEN /\ pc' = [pc EXCEPT ![d] = "dead"]
              /\ UNCHANGED <<h_open, num_scripts, value>>
         ELSE /\ h_open' = [h_open EXCEPT ![d] = TRUE]
              /\ IF hasOptions
                 THEN /\ pc' = [pc EXCEPT ![d] = "top"]
                      /\ num_scripts' = [num_scripts EXCEPT ![d] = NRules]
                      /\ value' = [value EXCEPT ![d] =
                                     [i \in RuleIdx |-> dev_val[d][Rule(i).number]]]
                 ELSE /\ pc' = [pc EXCEPT ![d] = "dead"]
                      /\ UNCHANGED <<num_scripts, value>>
    /\ UNCHANGED <<proc, si, triggered, triggered_option, cancel_enabled,
                   cancel_pending, child, scan_open, otherVars>>

(* pthread_testcancel passed: disable cancellation and poll (757-773).    *)
Top(d) ==
    /\ proc = "run"
    /\ pc[d] = "top"
    /\ ~cancel_pending[d]
    /\ cancel_enabled' = [cancel_enabled EXCEPT ![d] = FALSE]
    /\ IF num_scripts[d] > 0
       THEN pc' = [pc EXCEPT ![d] = "check"] /\ si' = [si EXCEPT ![d] = 0]
       ELSE pc' = [pc EXCEPT ![d] = "sleep"] /\ UNCHANGED si
    /\ UNCHANGED <<proc, triggered, triggered_option, h_open, cancel_pending,
                   num_scripts, value, child, scan_open, otherVars>>

(* Mutant of Check: the dispatch test of sane.c:875 written with        *)
(* triggered_option > 0, so action 0 is never dispatched.                *)
CheckOptPositive(d) ==
    /\ proc = "run"
    /\ pc[d] = "check"
    /\ IF ~h_open[d]
       THEN /\ proc' = "crash"
            /\ UNCHANGED pollVars
       ELSE LET i == si[d]
                v == ReadValue(d, i)
                fire == Fires(d, i, v)
                trig == triggered[d] \/ fire
                opt == IF fire THEN i ELSE triggered_option[d]
            IN /\ triggered' = [triggered EXCEPT ![d] = trig]
               /\ triggered_option' = [triggered_option EXCEPT ![d] = opt]
               /\ value' = [value EXCEPT ![d][i] = v]
               /\ cancel_enabled' = [cancel_enabled EXCEPT ![d] = TRUE]
               /\ IF trig /\ opt > 0
                  THEN pc' = [pc EXCEPT ![d] = "begin"] /\ UNCHANGED si
                  ELSE NextRule(d)
               /\ UNCHANGED <<proc, h_open, cancel_pending, num_scripts>>
    /\ UNCHANGED <<child, scan_open, otherVars>>

(* Poll rule si: read (or copy) the value, compare, remember it, enable   *)
(* cancellation, and start the dispatch if the device is triggered       *)
(* (sane.c:774-875).  sane_get_option_descriptor is called on st->h even *)
(* after a failed reopen left it NULL: the process crashes (775-776).    *)
Check(d) ==
    /\ proc = "run"
    /\ pc[d] = "check"
    /\ IF ~h_open[d]
       THEN /\ proc' = "crash"
            /\ UNCHANGED pollVars
       ELSE LET i == si[d]
                v == ReadValue(d, i)
                fire == Fires(d, i, v)
                trig == triggered[d] \/ fire
                opt == IF fire THEN i ELSE triggered_option[d]
            IN /\ triggered' = [triggered EXCEPT ![d] = trig]
               /\ triggered_option' = [triggered_option EXCEPT ![d] = opt]
               /\ value' = [value EXCEPT ![d][i] = v]
               /\ cancel_enabled' = [cancel_enabled EXCEPT ![d] = TRUE]
               /\ IF trig /\ opt >= 0
                  THEN pc' = [pc EXCEPT ![d] = "begin"] /\ UNCHANGED si
                  ELSE NextRule(d)
               /\ UNCHANGED <<proc, h_open, cancel_pending, num_scripts>>
    /\ UNCHANGED <<child, scan_open, otherVars>>

(* Send scan_begin (sane.c:1018).                                        *)
Begin(d) ==
    /\ proc = "run"
    /\ pc[d] = "begin"
    /\ scan_open' = [scan_open EXCEPT ![d] = TRUE]
    /\ pc' = [pc EXCEPT ![d] = "trigSig"]
    /\ UNCHANGED <<proc, si, triggered, triggered_option, h_open,
                   cancel_enabled, cancel_pending, num_scripts, value, child,
                   otherVars>>

(* Send the trigger signal, sane_close the device, unlock (1021-1046).    *)
(* With the null script no child is forked (1048).                       *)
TrigSig(d) ==
    /\ proc = "run"
    /\ pc[d] = "trigSig"
    /\ h_open' = [h_open EXCEPT ![d] = FALSE]
    /\ pc' = [pc EXCEPT ![d] =
                IF Rule(triggered_option[d]).script = NULL_SCRIPT
                THEN "clear" ELSE "preFork"]
    /\ UNCHANGED <<proc, si, triggered, triggered_option, cancel_enabled,
                   cancel_pending, num_scripts, value, child, scan_open,
                   otherVars>>

(* usleep, then fork the script child; a failed fork is only logged      *)
(* (1050-1056).                                                          *)
PreFork(d) ==
    /\ proc = "run"
    /\ pc[d] = "preFork"
    /\ ~MustCancel(d)
    /\ \E forked \in BOOLEAN :
         IF forked THEN /\ child' = [child EXCEPT ![d] = TRUE]
                        /\ pc' = [pc EXCEPT ![d] = "waitChild"]
                   ELSE /\ pc' = [pc EXCEPT ![d] = "clear"]
                        /\ UNCHANGED child
    /\ UNCHANGED <<proc, si, triggered, triggered_option, h_open,
                   cancel_enabled, cancel_pending, num_scripts, value,
                   scan_open, otherVars>>

(* waitpid returns once the child has exited (1060-1070).                *)
WaitChild(d) ==
    /\ proc = "run"
    /\ pc[d] = "waitChild"
    /\ ~child[d]
    /\ ~MustCancel(d)
    /\ pc' = [pc EXCEPT ![d] = "clear"]
    /\ UNCHANGED <<proc, si, triggered, triggered_option, h_open,
                   cancel_enabled, cancel_pending, num_scripts, value, child,
                   scan_open, otherVars>>

(* Relock, clear triggered, broadcast, unlock (1125-1143).               *)
Clear(d) ==
    /\ proc = "run"
    /\ pc[d] = "clear"
    /\ triggered' = [triggered EXCEPT ![d] = FALSE]
    /\ triggered_option' = [triggered_option EXCEPT ![d] = -1]
    /\ pc' = [pc EXCEPT ![d] = "settle"]
    /\ UNCHANGED <<proc, si, h_open, cancel_enabled, cancel_pending,
                   num_scripts, value, child, scan_open, otherVars>>

(* usleep to let the device settle (1145).                               *)
Settle(d) ==
    /\ proc = "run"
    /\ pc[d] = "settle"
    /\ ~MustCancel(d)
    /\ pc' = [pc EXCEPT ![d] = "scanEnd"]
    /\ UNCHANGED <<proc, si, triggered, triggered_option, h_open,
                   cancel_enabled, cancel_pending, num_scripts, value, child,
                   scan_open, otherVars>>

(* Send scan_end (1148).                                                 *)
ScanEnd(d) ==
    /\ proc = "run"
    /\ pc[d] = "scanEnd"
    /\ scan_open' = [scan_open EXCEPT ![d] = FALSE]
    /\ pc' = [pc EXCEPT ![d] = "reopen"]
    /\ UNCHANGED <<proc, si, triggered, triggered_option, h_open,
                   cancel_enabled, cancel_pending, num_scripts, value, child,
                   otherVars>>

(* Relock and sane_open again; ACCESS_DENIED ends the thread, any other  *)
(* failure leaves st->h NULL and polling goes on (1151-1165).            *)
Reopen(d) ==
    /\ proc = "run"
    /\ pc[d] = "reopen"
    /\ \E st \in OpenStatus :
         CASE st = "good"   -> /\ h_open' = [h_open EXCEPT ![d] = TRUE]
                               /\ NextRule(d)
           [] st = "denied" -> /\ pc' = [pc EXCEPT ![d] = "dead"]
                               /\ UNCHANGED <<h_open, si>>
           [] OTHER         -> /\ NextRule(d)
                               /\ UNCHANGED h_open
    /\ UNCHANGED <<proc, triggered, triggered_option, cancel_enabled,
                   cancel_pending, num_scripts, value, child, scan_open,
                   otherVars>>

(* usleep of the polling interval, then relock (1180-1189).              *)
Sleep(d) ==
    /\ proc = "run"
    /\ pc[d] = "sleep"
    /\ ~MustCancel(d)
    /\ pc' = [pc EXCEPT ![d] = "top"]
    /\ UNCHANGED <<proc, si, triggered, triggered_option, h_open,
                   cancel_enabled, cancel_pending, num_scripts, value, child,
                   scan_open, otherVars>>

(* A pending cancel acts at a cancellation point; the cleanup handler    *)
(* sane_thread_cleanup_mutex unlocks st->mutex (sane.c:257-265, 626).    *)
Cancel(d) ==
    /\ proc = "run"
    /\ pc[d] \in CancelPcs
    /\ cancel_pending[d]
    /\ cancel_enabled[d] \/ pc[d] = "top"
    /\ pc' = [pc EXCEPT ![d] = "dead"]
    /\ UNCHANGED <<proc, si, triggered, triggered_option, h_open,
                   cancel_enabled, cancel_pending, num_scripts, value, child,
                   scan_open, otherVars>>

Poller(d) ==
    \/ Startup(d) \/ Top(d) \/ Check(d) \/ Begin(d) \/ TrigSig(d)
    \/ PreFork(d) \/ WaitChild(d) \/ Clear(d) \/ Settle(d) \/ ScanEnd(d)
    \/ Reopen(d) \/ Sleep(d) \/ Cancel(d)
-----------------------------------------------------------------------------
(* Main thread: the signal handlers of scanbd.c:139-188 calling          *)
(* stop_sane_threads (sane.c:1332-1427) and start_sane_threads           *)
(* (sane.c:1267-1328).  Each handler masks the others of HUP/USR1/USR2,  *)
(* so one handler runs at a time.                                        *)

mainVars == <<main_pc, main_sig, mi>>
dbusVars == <<dbus_pc, dbus_dev, dbus_act>>

(* start_sane_threads allocates fresh slots and creates the pollers      *)
(* (sane.c:1287-1321); num_devices > 0 by ConstAssumption.              *)
StartThreads ==
    /\ poll_threads' = TRUE
    /\ FreshSlots

(* A signal is delivered to the main thread, which sits in pause().      *)
SignalArrives(sig) ==
    /\ proc = "run"
    /\ main_pc = "idle"
    /\ main_pc' = "lock"
    /\ main_sig' = sig
    /\ UNCHANGED <<proc, sane_mutex, poll_threads, pollVars, dev_val, child,
                   scan_open, mi, dbusVars>>

(* The handler locks sane_mutex.  SIGUSR2 with no pollers only starts    *)
(* them; otherwise stop_sane_threads runs first (sane.c:1276-1278).      *)
MainLock ==
    /\ proc = "run"
    /\ main_pc = "lock"
    /\ sane_mutex = "none"
    /\ IF main_sig = "usr2" /\ ~poll_threads
       THEN /\ StartThreads
            /\ main_pc' = "idle"
            /\ UNCHANGED sane_mutex
       ELSE /\ sane_mutex' = "main"
            /\ main_pc' = "stop"
            /\ UNCHANGED <<poll_threads, pollVars>>
    /\ UNCHANGED <<proc, dev_val, child, scan_open, main_sig, mi, dbusVars>>

(* stop_sane_threads: nothing to stop when sane_poll_threads is NULL.    *)
StopEnter ==
    /\ proc = "run"
    /\ main_pc = "stop"
    /\ IF poll_threads THEN main_pc' = "stopCheck" /\ mi' = 0
                       ELSE main_pc' = "stopDone" /\ UNCHANGED mi
    /\ UNCHANGED <<proc, sane_mutex, poll_threads, pollVars, dev_val, child,
                   scan_open, main_sig, dbusVars>>

(* Lock st->mutex, wait on st->cv while triggered, unlock                *)
(* (sane.c:1348-1361).                                                   *)
StopCheck ==
    /\ proc = "run"
    /\ main_pc = "stopCheck"
    /\ ~PollerHolds(mi)
    /\ ~triggered[mi]
    /\ main_pc' = "stopCancel"
    /\ UNCHANGED <<proc, sane_mutex, poll_threads, pollVars, dev_val, child,
                   scan_open, main_sig, mi, dbusVars>>

(* Mutant of StopCancel: the device loop bound written i <= num_devices. *)
StopCancelPastEnd ==
    /\ proc = "run"
    /\ main_pc = "stopCancel"
    /\ cancel_pending' = [cancel_pending EXCEPT ![mi] = TRUE]
    /\ IF mi + 1 =< NumDevices THEN main_pc' = "stopCheck" /\ mi' = mi + 1
                               ELSE main_pc' = "stopJoin" /\ mi' = 0
    /\ UNCHANGED <<proc, sane_mutex, poll_threads, pc, si, triggered,
                   triggered_option, h_open, cancel_enabled, num_scripts,
                   value, dev_val, child, scan_open, main_sig, dbusVars>>

(* pthread_cancel the poller (sane.c:1364).                              *)
StopCancel ==
    /\ proc = "run"
    /\ main_pc = "stopCancel"
    /\ cancel_pending' = [cancel_pending EXCEPT ![mi] = TRUE]
    /\ IF mi + 1 < NumDevices THEN main_pc' = "stopCheck" /\ mi' = mi + 1
                              ELSE main_pc' = "stopJoin" /\ mi' = 0
    /\ UNCHANGED <<proc, sane_mutex, poll_threads, pc, si, triggered,
                   triggered_option, h_open, cancel_enabled, num_scripts,
                   value, dev_val, child, scan_open, main_sig, dbusVars>>

(* Mutant of StopJoin: the loop goes on to the next slot without        *)
(* waiting in pthread_join for the poller to end.                        *)
StopJoinNoWait ==
    /\ proc = "run"
    /\ main_pc = "stopJoin"
    /\ h_open' = [h_open EXCEPT ![mi] = FALSE]
    /\ IF mi + 1 < NumDevices THEN main_pc' = "stopJoin" /\ mi' = mi + 1
                              ELSE main_pc' = "stopDone" /\ UNCHANGED mi
    /\ UNCHANGED <<proc, sane_mutex, poll_threads, pc, si, triggered,
                   triggered_option, cancel_enabled, cancel_pending,
                   num_scripts, value, dev_val, child, scan_open, main_sig,
                   dbusVars>>

(* Mutant of StopJoin: the sane_close of a handle left open is missing. *)
StopJoinNoClose ==
    /\ proc = "run"
    /\ main_pc = "stopJoin"
    /\ pc[mi] = "dead"
    /\ IF mi + 1 < NumDevices THEN main_pc' = "stopJoin" /\ mi' = mi + 1
                              ELSE main_pc' = "stopDone" /\ UNCHANGED mi
    /\ UNCHANGED <<proc, sane_mutex, poll_threads, pc, si, triggered,
                   triggered_option, h_open, cancel_enabled, cancel_pending,
                   num_scripts, value, dev_val, child, scan_open, main_sig,
                   dbusVars>>

(* pthread_join the poller, then sane_close a handle it left open        *)
(* (sane.c:1374-1413).                                                   *)
StopJoin ==
    /\ proc = "run"
    /\ main_pc = "stopJoin"
    /\ pc[mi] = "dead"
    /\ h_open' = [h_open EXCEPT ![mi] = FALSE]
    /\ IF mi + 1 < NumDevices THEN main_pc' = "stopJoin" /\ mi' = mi + 1
                              ELSE main_pc' = "stopDone" /\ UNCHANGED mi
    /\ UNCHANGED <<proc, sane_mutex, poll_threads, pc, si, triggered,
                   triggered_option, cancel_enabled, cancel_pending,
                   num_scripts, value, dev_val, child, scan_open, main_sig,
                   dbusVars>>

(* sane_poll_threads = NULL, broadcast, unlock; then the rest of the     *)
(* handler: SIGHUP re-parses and starts (scanbd.c:143-145), SIGUSR2 was  *)
(* inside start_sane_threads, SIGTERM exits (scanbd.c:166-187).          *)
StopDone ==
    /\ proc = "run"
    /\ main_pc = "stopDone"
    /\ CASE main_sig = "usr1" ->
              /\ poll_threads' = FALSE /\ sane_mutex' = "none"
              /\ main_pc' = "idle"
              /\ UNCHANGED <<proc, pollVars>>
         [] main_sig = "hup" ->
              /\ poll_threads' = FALSE /\ sane_mutex' = "none"
              /\ main_pc' = "start"
              /\ UNCHANGED <<proc, pollVars>>
         [] main_sig = "usr2" ->
              /\ StartThreads /\ sane_mutex' = "none"
              /\ main_pc' = "idle"
              /\ UNCHANGED proc
         [] OTHER ->
              /\ poll_threads' = FALSE
              /\ proc' = "exit"
              /\ UNCHANGED <<sane_mutex, main_pc, pollVars>>
    /\ UNCHANGED <<dev_val, child, scan_open, main_sig, mi, dbusVars>>

(* The start_sane_threads call of the SIGHUP handler (scanbd.c:145).     *)
StartLock ==
    /\ proc = "run"
    /\ main_pc = "start"
    /\ sane_mutex = "none"
    /\ StartThreads
    /\ main_pc' = "idle"
    /\ UNCHANGED <<proc, sane_mutex, dev_val, child, scan_open, main_sig, mi,
                   dbusVars>>

(* SIGTERM or SIGINT interrupts a running SIGHUP, SIGUSR1 or SIGUSR2      *)
(* handler: their masks do not hold SIGTERM/SIGINT (scanbd.c:199-226).    *)
(* sig_term_handler (163-188) calls stop_sane_threads again on the same   *)
(* thread; sane_mutex is recursive (sane.c:29-60), so a handler that      *)
(* holds it relocks at once, one that does not waits for it.  The         *)
(* interrupted handler never resumes: the nested one ends in exit().      *)
TermNested ==
    /\ proc = "run"
    /\ main_pc # "idle"
    /\ main_sig # "term"
    /\ main_sig' = "term"
    /\ main_pc' = IF sane_mutex = "main" THEN "stop" ELSE "lock"
    /\ UNCHANGED <<proc, sane_mutex, poll_threads, pollVars, dev_val, child,
                   scan_open, mi, dbusVars>>

MainStep ==
    \/ \E sig \in Signals : SignalArrives(sig)
    \/ MainLock \/ StopEnter \/ StopCheck \/ StopCancel \/ StopJoin
    \/ StopDone \/ StartLock \/ TermNested

-----------------------------------------------------------------------------
(* D-Bus thread: sane_trigger_action(number_of_dev, action),             *)
(* sane.c:1197-1265, called for the trigger method of the bus.           *)

(* Set triggered with the requested action, broadcast, unlock both.      *)
SetTrigger ==
    /\ triggered' = [triggered EXCEPT ![dbus_dev] = TRUE]
    /\ triggered_option' = [triggered_option EXCEPT ![dbus_dev] = dbus_act]
    /\ sane_mutex' = "none"
    /\ dbus_pc' = "idle"

(* Lock sane_mutex; the device number is valid; wait on sane_cv while    *)
(* no pollers exist (sane.c:1202-1222).                                  *)
TriggerCall(dv, act) ==
    /\ proc = "run"
    /\ dbus_pc = "idle"
    /\ sane_mutex = "none"
    /\ dbus_dev' = dv
    /\ dbus_act' = act
    /\ IF poll_threads THEN sane_mutex' = "dbus" /\ dbus_pc' = "lockDev"
                       ELSE dbus_pc' = "waitSane" /\ UNCHANGED sane_mutex
    /\ UNCHANGED <<proc, poll_threads, pollVars, dev_val, child, scan_open,
                   mainVars>>

(* Woken on sane_cv with pollers present, sane_mutex relocked.           *)
SaneWake ==
    /\ proc = "run"
    /\ dbus_pc = "waitSane"
    /\ sane_mutex = "none"
    /\ poll_threads
    /\ sane_mutex' = "dbus"
    /\ dbus_pc' = "lockDev"
    /\ UNCHANGED <<proc, poll_threads, pollVars, dev_val, child, scan_open,
                   mainVars, dbus_dev, dbus_act>>

(* Mutant of TrigLockDev: the range check of sane.c:1236 written         *)
(* action > num_of_options_with_scripts.                                 *)
TrigLockDevOffByOne ==
    /\ proc = "run"
    /\ dbus_pc = "lockDev"
    /\ ~PollerHolds(dbus_dev)
    /\ IF dbus_act > num_scripts[dbus_dev]
       THEN /\ sane_mutex' = "none" /\ dbus_pc' = "idle"
            /\ UNCHANGED <<triggered, triggered_option>>
       ELSE IF triggered[dbus_dev]
            THEN /\ dbus_pc' = "waitTrig"
                 /\ UNCHANGED <<sane_mutex, triggered, triggered_option>>
            ELSE SetTrigger
    /\ UNCHANGED <<proc, poll_threads, pc, si, h_open, cancel_enabled,
                   cancel_pending, num_scripts, value, dev_val, child,
                   scan_open, mainVars, dbus_dev, dbus_act>>

(* Lock st->mutex; reject an action number past the rule array, wait on  *)
(* st->cv while triggered (still holding sane_mutex), else trigger       *)
(* (sane.c:1229-1263).                                                   *)
TrigLockDev ==
    /\ proc = "run"
    /\ dbus_pc = "lockDev"
    /\ ~PollerHolds(dbus_dev)
    /\ IF dbus_act >= num_scripts[dbus_dev]
       THEN /\ sane_mutex' = "none" /\ dbus_pc' = "idle"
            /\ UNCHANGED <<triggered, triggered_option>>
       ELSE IF triggered[dbus_dev]
            THEN /\ dbus_pc' = "waitTrig"
                 /\ UNCHANGED <<sane_mutex, triggered, triggered_option>>
            ELSE SetTrigger
    /\ UNCHANGED <<proc, poll_threads, pc, si, h_open, cancel_enabled,
                   cancel_pending, num_scripts, value, dev_val, child,
                   scan_open, mainVars, dbus_dev, dbus_act>>

(* Woken on st->cv with triggered cleared.                               *)
TrigWake ==
    /\ proc = "run"
    /\ dbus_pc = "waitTrig"
    /\ ~PollerHolds(dbus_dev)
    /\ ~triggered[dbus_dev]
    /\ SetTrigger
    /\ UNCHANGED <<proc, poll_threads, pc, si, h_open, cancel_enabled,
                   cancel_pending, num_scripts, value, dev_val, child,
                   scan_open, mainVars, dbus_dev, dbus_act>>

DbusStep ==
    \/ \E dv \in Dev, act \in 0 .. NRules : TriggerCall(dv, act)
    \/ SaneWake \/ TrigLockDev \/ TrigWake

-----------------------------------------------------------------------------
(* Environment: the device's option values and the script child.         *)

(* A button is pressed or an option changes on the device.               *)
Press(d, o, v) ==
    /\ proc = "run"
    /\ v # dev_val[d][o]
    /\ dev_val' = [dev_val EXCEPT ![d][o] = v]
    /\ UNCHANGED <<proc, sane_mutex, poll_threads, pollVars, child,
                   scan_open, mainVars, dbusVars>>

(* The script child exits (or execle fails and it exits).                *)
ChildExit(d) ==
    /\ proc = "run"
    /\ child[d]
    /\ child' = [child EXCEPT ![d] = FALSE]
    /\ UNCHANGED <<proc, sane_mutex, poll_threads, pollVars, dev_val,
                   scan_open, mainVars, dbusVars>>

EnvStep ==
    \/ \E d \in Dev, o \in Options, v \in Values : Press(d, o, v)
    \/ \E d \in Dev : ChildExit(d)

(* After exit() or a crash nothing happens any more.                     *)
Halted ==
    /\ proc # "run"
    /\ UNCHANGED vars

(* Every step of a thread or of the environment requires proc = "run". *)
Next ==
    \/ \E d \in Dev : Poller(d)
    \/ MainStep
    \/ DbusStep
    \/ EnvStep
    \/ Halted

(* Threads are scheduled weakly fairly.  A thread blocked on a mutex or  *)
(* a condition variable that is only intermittently free gets it        *)
(* eventually (strong fairness): the pollers release st->mutex for a    *)
(* whole polling interval in every pass.  A script child terminates.    *)
Fairness ==
    /\ \A d \in Dev : WF_vars(Poller(d))
    /\ \A d \in Dev : WF_vars(ChildExit(d))
    /\ SF_vars(MainLock \/ StartLock \/ StopCheck)
    /\ WF_vars(StopEnter \/ StopCancel \/ StopJoin \/ StopDone)
    /\ SF_vars(SaneWake \/ TrigLockDev \/ TrigWake)

Spec == Init /\ [][Next]_vars /\ Fairness

-----------------------------------------------------------------------------
(* Properties                                                             *)

TypeOK ==
    /\ proc \in {"run", "exit", "crash"}
    /\ sane_mutex \in {"none", "main", "dbus"}
    /\ poll_threads \in BOOLEAN
    /\ pc \in [Dev -> PollPcs]
    /\ si \in [Dev -> 0 .. NRules]
    /\ triggered \in [Dev -> BOOLEAN]
    /\ triggered_option \in [Dev -> -1 .. NRules]
    /\ h_open \in [Dev -> BOOLEAN]
    /\ cancel_enabled \in [Dev -> BOOLEAN]
    /\ cancel_pending \in [Dev -> BOOLEAN]
    /\ num_scripts \in [Dev -> 0 .. NRules]
    /\ value \in [Dev -> [RuleIdx -> Values]]
    /\ dev_val \in [Dev -> [Options -> Values]]
    /\ child \in [Dev -> BOOLEAN]
    /\ scan_open \in [Dev -> BOOLEAN]
    /\ main_pc \in MainPcs
    /\ main_sig \in Signals
    /\ mi \in Dev
    /\ dbus_pc \in DbusPcs
    /\ dbus_dev \in Dev
    /\ dbus_act \in 0 .. NRules

(* sane.c:875-877 and spec section 8: while a device is triggered its    *)
(* triggered_option indexes its rule array, and it is -1 otherwise; the  *)
(* index comes either from the poller or from a D-Bus caller, checked    *)
(* against num_of_options_with_scripts of the current slot.              *)
TriggerIndexValid ==
    \A d \in Dev :
        IF triggered[d] THEN triggered_option[d] \in 0 .. num_scripts[d] - 1
                        ELSE triggered_option[d] = -1

(* Mutual exclusion with scripts (spec section 8): while a script child  *)
(* of a device runs, the daemon does not hold that device open: the     *)
(* dispatch closes st->h before forking and reopens only after waitpid;  *)
(* stop_sane_threads waits for triggered to clear before cancelling, so  *)
(* no restart of the pollers should reopen it under a running script.    *)
DeviceFreeDuringScript ==
    \A d \in Dev : child[d] => ~h_open[d]

(* Once stop_sane_threads has finished (sane_poll_threads = NULL) no      *)
(* device handle is left open, whichever point each poller was          *)
(* cancelled or exited at (sane.c:1384-1387).                            *)
StoppedReleasesDevices ==
    ~poll_threads => \A d \in Dev : ~h_open[d]

(* A device that is triggered while its poller lives is dispatched and   *)
(* cleared eventually, unless the poller ends or the process halts; the *)
(* waits of stop_sane_threads and sane_trigger_action rely on it.        *)
TriggerEventuallyServed ==
    \A d \in Dev :
        (triggered[d] /\ pc[d] # "dead")
            ~> (~triggered[d] \/ pc[d] = "dead" \/ proc # "run")

(* stop_sane_threads takes a poller whose triggered flag it finds false  *)
(* at 1351 for one that is not dispatching, and cancels it (1364).  Spec  *)
(* 4.2/4.3 say triggered is cleared when the Dispatcher returns, after    *)
(* scan_end, so the check must never pass while the device's scan_begin   *)
(* has had no scan_end.  sane_poll clears triggered at 1131, before the   *)
(* settle usleep (1145) and scan_end (1148).                              *)
ScanEndBeforeStop ==
    [][(main_pc = "stopCheck" /\ main_pc' = "stopCancel") => ~scan_open[mi]]_vars

(* The cleanup handler sane_thread_cleanup_mutex only unlocks st->mutex  *)
(* when the exiting thread holds it (pthread_mutex_unlock of a mutex the *)
(* caller does not own is undefined).  From "init" and "reopen" the exit *)
(* happens after the step's own lock.                                    *)
CleanupUnlocksOwnMutex ==
    [][\A d \in Dev :
         (pc[d] # "dead" /\ pc'[d] = "dead")
             => pc[d] \in HeldPcs \cup {"init", "reopen"}]_vars

(* Once an action of a device is triggered (by the poller or by          *)
(* sane_trigger_action) it is the action dispatched: no step replaces    *)
(* triggered_option while triggered stays true (spec section 8, external *)
(* trigger correctness).                                                 *)
TriggerNotOverwritten ==
    [][\A d \in Dev :
         (triggered[d] /\ triggered'[d])
             => triggered_option'[d] = triggered_option[d]]_vars

(* The thread machinery implements the slot-array contract of           *)
(* PollerSlots: a poller touches only its own handle and only while the   *)
(* array exists, stop_sane_threads closes a handle only after its thread  *)
(* ended (the join loop, sane.c:1373-1413), and the array is freed        *)
(* (1415-1416) or replaced (start_sane_threads, 1287-1317) only when      *)
(* every thread has ended and every handle is closed.                     *)
PollerAlive == [d \in Dev |-> pc[d] # "dead"]

Slots == INSTANCE PollerSlots
           WITH slots <- poll_threads, alive <- PollerAlive, open <- h_open

SlotsRefined == Slots!Spec

(* Every signal handler that starts returns (or exits the process):      *)
(* SIGUSR1, SIGHUP and SIGTERM must be able to stop the pollers.         *)
SignalHandlerReturns ==
    (main_pc # "idle") ~> (main_pc = "idle" \/ proc # "run")

(* Polling never dereferences a NULL handle: after a failed reopen the   *)
(* poller goes on without reading the device (spec 4.3, step 7).         *)
PollingNeverCrashes ==
    proc # "crash"

(* The slots the running stop_sane_threads has already joined: their tid *)
(* is 0 and their st->mutex and st->cv are destroyed (sane.c:1378-1412). *)
JoinedSlots ==
    CASE main_pc = "stopJoin" -> 0 .. mi - 1
      [] main_pc = "stopDone" /\ poll_threads -> Dev
      [] OTHER -> {}

(* Once stop_sane_threads has joined a slot, no new stop pass starts on  *)
(* the main thread before it has finished: the handlers' signal masks    *)
(* are there to "prevent interleaving with stop/start_sane_threads"      *)
(* (scanbd.c:200, 212, 224).  A nested pass would lock the destroyed     *)
(* mutex and pthread_cancel and pthread_join tid 0 (sane.c:1348-1378).   *)
StopNotReentered ==
    [][JoinedSlots # {} => main_pc' # "stop"]_vars
=============================================================================
