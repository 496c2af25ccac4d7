-------------------------- MODULE SaneThreadsRelease --------------------------
(***************************************************************************)
(* Proof that stop_sane_threads leaves no device handle open: once        *)
(* sane_poll_threads is NULL, every poller has ended and every st->h has  *)
(* been closed (sane.c:1332-1427), for every number of devices and every  *)
(* rule array.                                                            *)
(***************************************************************************)
EXTENDS SaneThreadsSafety

(* Slot d is released: its poller has ended and its handle is closed.    *)
Released(d) == pc[d] = "dead" /\ ~h_open[d]

(* The strengthening.  The join loop of stop_sane_threads (1374-1413)    *)
(* releases the slots below mi one by one, and a released slot stays     *)
(* released until start_sane_threads replaces the slots; so when the     *)
(* loop is done every slot is released, and sane_poll_threads becomes    *)
(* NULL only then.  The SIGHUP handler starts the pollers again only     *)
(* after the stop (scanbd.c:143-145).                                     *)
ReleaseInv ==
    /\ ~poll_threads => \A d \in Dev : Released(d)
    /\ \A d \in JoinedSlots : Released(d)
    /\ main_pc = "start" => ~poll_threads

LEMMA JoinedInDev ==
    ASSUME TypeInv PROVE JoinedSlots \subseteq Dev
BY ConstAssumption DEF TypeInv, TypeOK, JoinedSlots, Dev

LEMMA InitRelease == Init => ReleaseInv
BY DEF Init, ReleaseInv, JoinedSlots

(* A step that moves no poller, closes no handle, and leaves the         *)
(* pollers' existence and the main thread's place alone.                 *)
LEMMA ReleaseFrame ==
    ASSUME ReleaseInv, UNCHANGED <<pc, h_open, poll_threads, main_pc, mi>>
    PROVE  ReleaseInv'
BY DEF ReleaseInv, JoinedSlots, Released

(* A step of the main thread that leaves the slots alone and goes to a   *)
(* place outside the join loop and the restart.                          *)
LEMMA MainQuietRelease ==
    ASSUME ReleaseInv, UNCHANGED <<pc, h_open, poll_threads>>,
           main_pc' \notin {"stopJoin", "stopDone", "start"}
    PROVE  ReleaseInv'
BY DEF ReleaseInv, JoinedSlots, Released

(* start_sane_threads: fresh slots, pollers present, handler done.       *)
LEMMA RestartRelease ==
    ASSUME poll_threads' = TRUE, main_pc' = "idle"
    PROVE  ReleaseInv'
BY DEF ReleaseInv, JoinedSlots

-----------------------------------------------------------------------------
(* Steps of a polling thread.                                             *)

(* A living poller's step touches its own slot only; a released slot is  *)
(* dead, so the step is not of a released slot, and while the pollers    *)
(* are gone no poller lives.                                              *)
LEMMA PollerFrameRelease ==
    ASSUME TypeInv, ReleaseInv, NEW d \in Dev, pc[d] # "dead",
           \A e \in Dev \ {d} : pc'[e] = pc[e] /\ h_open'[e] = h_open[e],
           UNCHANGED <<poll_threads, main_pc, mi>>
    PROVE  ReleaseInv'
<1>1. poll_threads
    BY DEF ReleaseInv, Released
<1>2. JoinedSlots' = JoinedSlots
    BY DEF JoinedSlots
<1>3. d \notin JoinedSlots
    BY DEF ReleaseInv, Released
<1>4. \A e \in JoinedSlots : Released(e)'
    BY <1>2, <1>3, JoinedInDev DEF ReleaseInv, Released
<1>5. QED
    BY <1>1, <1>2, <1>4 DEF ReleaseInv

(* A poller step changes the pc and the handle of its own slot only, and *)
(* is taken only by a thread that has not ended.                         *)
OthersUnchanged(d) ==
    \A e \in Dev \ {d} : pc'[e] = pc[e] /\ h_open'[e] = h_open[e]

LEMMA PollerShape ==
    ASSUME TypeInv, NEW d \in Dev, Poller(d)
    PROVE  /\ pc[d] # "dead"
           /\ UNCHANGED <<poll_threads, main_pc, mi>>
           /\ OthersUnchanged(d)
<1>1. pc[d] # "dead"
    BY DEF Poller, Startup, Top, Check, Begin, TrigSig, PreFork, WaitChild,
           Clear, Settle, ScanEnd, Reopen, Sleep, Cancel, CancelPcs
<1>2. UNCHANGED <<poll_threads, main_pc, mi>>
    BY DEF Poller, Startup, Top, Check, Begin, TrigSig, PreFork, WaitChild,
           Clear, Settle, ScanEnd, Reopen, Sleep, Cancel, otherVars
<1>3. pc \in [Dev -> PollPcs] /\ h_open \in [Dev -> BOOLEAN]
    BY DEF TypeInv, TypeOK
<1>4. OthersUnchanged(d)
  <2>1. CASE Startup(d)
      BY <1>3, <2>1 DEF Startup, OthersUnchanged
  <2>2. CASE Top(d)
      BY <1>3, <2>2 DEF Top, OthersUnchanged
  <2>3. CASE Check(d)
      BY <1>3, <2>3 DEF Check, NextRule, pollVars, OthersUnchanged
  <2>4. CASE Begin(d)
      BY <1>3, <2>4 DEF Begin, OthersUnchanged
  <2>5. CASE TrigSig(d)
      BY <1>3, <2>5 DEF TrigSig, OthersUnchanged
  <2>6. CASE PreFork(d)
      BY <1>3, <2>6 DEF PreFork, OthersUnchanged
  <2>7. CASE WaitChild(d)
      BY <1>3, <2>7 DEF WaitChild, OthersUnchanged
  <2>8. CASE Clear(d)
      BY <1>3, <2>8 DEF Clear, OthersUnchanged
  <2>9. CASE Settle(d)
      BY <1>3, <2>9 DEF Settle, OthersUnchanged
  <2>10. CASE ScanEnd(d)
      BY <1>3, <2>10 DEF ScanEnd, OthersUnchanged
  <2>11. CASE Reopen(d)
      BY <1>3, <2>11 DEF Reopen, NextRule, OthersUnchanged
  <2>12. CASE Sleep(d)
      BY <1>3, <2>12 DEF Sleep, OthersUnchanged
  <2>13. CASE Cancel(d)
      BY <1>3, <2>13 DEF Cancel, OthersUnchanged
  <2>14. QED
      BY <2>1, <2>2, <2>3, <2>4, <2>5, <2>6, <2>7, <2>8, <2>9, <2>10,
         <2>11, <2>12, <2>13 DEF Poller
<1>5. QED
    BY <1>1, <1>2, <1>4

LEMMA PollerRelease ==
    ASSUME TypeInv, ReleaseInv, NEW d \in Dev, Poller(d) PROVE ReleaseInv'
BY PollerShape, PollerFrameRelease DEF OthersUnchanged

-----------------------------------------------------------------------------
(* Steps of the main thread.                                              *)

LEMMA SignalArrivesRelease ==
    ASSUME ReleaseInv, NEW sig \in Signals, SignalArrives(sig)
    PROVE  ReleaseInv'
BY MainQuietRelease DEF SignalArrives, pollVars

LEMMA TermNestedRelease ==
    ASSUME ReleaseInv, TermNested PROVE ReleaseInv'
BY MainQuietRelease DEF TermNested, pollVars

LEMMA MainLockRelease ==
    ASSUME ReleaseInv, MainLock PROVE ReleaseInv'
<1>1. CASE main_sig = "usr2" /\ ~poll_threads
    BY <1>1, RestartRelease DEF MainLock, StartThreads
<1>2. CASE ~(main_sig = "usr2" /\ ~poll_threads)
    BY <1>2, MainQuietRelease DEF MainLock, pollVars
<1>3. QED
    BY <1>1, <1>2

(* With no pollers, stop_sane_threads goes straight to its end.          *)
LEMMA StopEnterRelease ==
    ASSUME ReleaseInv, StopEnter PROVE ReleaseInv'
<1>1. CASE poll_threads
    BY <1>1, MainQuietRelease DEF StopEnter, pollVars
<1>2. CASE ~poll_threads
  <2>1. /\ main_pc' = "stopDone" /\ ~poll_threads'
        /\ UNCHANGED <<pc, h_open>>
      BY <1>2 DEF StopEnter, pollVars
  <2>2. QED
      BY <1>2, <2>1 DEF ReleaseInv, JoinedSlots, Released
<1>3. QED
    BY <1>1, <1>2

LEMMA StopCheckRelease ==
    ASSUME ReleaseInv, StopCheck PROVE ReleaseInv'
BY MainQuietRelease DEF StopCheck, pollVars

(* The last pthread_cancel starts the join loop at slot 0: nothing is    *)
(* joined yet.                                                            *)
LEMMA StopCancelRelease ==
    ASSUME ReleaseInv, StopCancel PROVE ReleaseInv'
<1>1. CASE mi + 1 < NumDevices
    BY <1>1, MainQuietRelease DEF StopCancel
<1>2. CASE ~(mi + 1 < NumDevices)
  <2>1. /\ main_pc' = "stopJoin" /\ mi' = 0
        /\ UNCHANGED <<pc, h_open, poll_threads>>
      BY <1>2 DEF StopCancel
  <2>2. JoinedSlots' = {}
      BY <2>1 DEF JoinedSlots
  <2>3. (~poll_threads => \A d \in Dev : Released(d))'
      BY <2>1 DEF ReleaseInv, Released
  <2>4. QED
      BY <2>1, <2>2, <2>3 DEF ReleaseInv
<1>3. QED
    BY <1>1, <1>2

(* pthread_join of slot mi and the sane_close of its handle release it  *)
(* (sane.c:1374-1413); after the last slot every slot is released.       *)
LEMMA StopJoinRelease ==
    ASSUME TypeInv, ReleaseInv, StopJoin PROVE ReleaseInv'
<1>1. /\ main_pc = "stopJoin" /\ pc[mi] = "dead"
      /\ h_open' = [h_open EXCEPT ![mi] = FALSE]
      /\ UNCHANGED <<pc, poll_threads>>
    BY DEF StopJoin
<1>2. /\ mi \in Dev /\ NumDevices \in Nat \ {0}
      /\ h_open \in [Dev -> BOOLEAN] /\ pc \in [Dev -> PollPcs]
    BY ConstAssumption DEF TypeInv, TypeOK
<1>3. \A e \in 0 .. mi : Released(e)'
  <2>1. \A e \in 0 .. mi - 1 : Released(e)
      BY <1>1 DEF ReleaseInv, JoinedSlots
  <2>2. QED
      BY <1>1, <1>2, <2>1 DEF Released, Dev
<1>4. (~poll_threads => \A d \in Dev : Released(d))'
    BY <1>1, <1>2 DEF ReleaseInv, Released
<1>5. CASE mi + 1 < NumDevices
  <2>1. main_pc' = "stopJoin" /\ mi' = mi + 1
      BY <1>5 DEF StopJoin
  <2>2. JoinedSlots' = 0 .. mi
      BY <1>2, <2>1 DEF JoinedSlots, Dev
  <2>3. QED
      BY <1>4, <2>1, <2>2, <1>3 DEF ReleaseInv
<1>6. CASE ~(mi + 1 < NumDevices)
  <2>1. main_pc' = "stopDone" /\ mi' = mi
      BY <1>6 DEF StopJoin
  <2>2. JoinedSlots' \subseteq 0 .. mi
      BY <1>1, <1>2, <1>6, <2>1 DEF JoinedSlots, Dev
  <2>3. QED
      BY <1>4, <2>1, <2>2, <1>3 DEF ReleaseInv
<1>7. QED
    BY <1>5, <1>6

(* The end of stop_sane_threads: sane_poll_threads = NULL once every     *)
(* slot is released; SIGHUP goes on to start_sane_threads, SIGUSR2 has   *)
(* started it already, SIGTERM exits.                                    *)
LEMMA StopDoneRelease ==
    ASSUME ReleaseInv, StopDone PROVE ReleaseInv'
<1>1. main_pc = "stopDone"
    BY DEF StopDone
<1>2. \A d \in Dev : Released(d)
    BY <1>1 DEF ReleaseInv, JoinedSlots
<1>3. CASE main_sig = "usr1" \/ main_sig = "hup"
  <2>1. /\ ~poll_threads' /\ main_pc' \in {"idle", "start"}
        /\ UNCHANGED <<pc, h_open>>
      BY <1>3 DEF StopDone, pollVars
  <2>2. QED
      BY <1>2, <2>1 DEF ReleaseInv, JoinedSlots, Released
<1>4. CASE main_sig = "usr2"
    BY <1>4, RestartRelease DEF StopDone, StartThreads
<1>5. CASE main_sig \notin {"usr1", "hup", "usr2"}
  <2>1. /\ ~poll_threads' /\ main_pc' = "stopDone"
        /\ UNCHANGED <<pc, h_open>>
      BY <1>5 DEF StopDone, pollVars
  <2>2. QED
      BY <1>2, <2>1 DEF ReleaseInv, JoinedSlots, Released
<1>6. QED
    BY <1>3, <1>4, <1>5

LEMMA StartLockRelease ==
    ASSUME StartLock PROVE ReleaseInv'
BY RestartRelease DEF StartLock, StartThreads

-----------------------------------------------------------------------------
(* The D-Bus thread and the environment touch neither the pollers, the   *)
(* handles nor the main thread.                                           *)

LEMMA DbusRelease ==
    ASSUME ReleaseInv, DbusStep PROVE ReleaseInv'
<1>1. UNCHANGED <<pc, h_open, poll_threads, main_pc, mi>>
    BY DEF DbusStep, TriggerCall, SaneWake, TrigLockDev, TrigWake, pollVars,
           mainVars
<1>2. QED
    BY <1>1, ReleaseFrame

LEMMA EnvRelease ==
    ASSUME ReleaseInv, EnvStep PROVE ReleaseInv'
<1>1. UNCHANGED <<pc, h_open, poll_threads, main_pc, mi>>
    BY DEF EnvStep, Press, ChildExit, pollVars, mainVars
<1>2. QED
    BY <1>1, ReleaseFrame

-----------------------------------------------------------------------------
LEMMA NextRelease == TypeInv /\ ReleaseInv /\ [Next]_vars => ReleaseInv'
<1> SUFFICES ASSUME TypeInv, ReleaseInv, [Next]_vars PROVE ReleaseInv'
    OBVIOUS
<1>1. ASSUME NEW d \in Dev, Poller(d) PROVE ReleaseInv'
    BY <1>1, PollerRelease
<1>2. CASE MainStep
    BY <1>2, SignalArrivesRelease, MainLockRelease, StopEnterRelease,
       StopCheckRelease, StopCancelRelease, StopJoinRelease,
       StopDoneRelease, StartLockRelease, TermNestedRelease DEF MainStep
<1>3. CASE DbusStep
    BY <1>3, DbusRelease
<1>4. CASE EnvStep
    BY <1>4, EnvRelease
<1>5. CASE Halted \/ UNCHANGED vars
    BY <1>5, ReleaseFrame DEF Halted, vars, pollVars
<1>6. QED
    BY <1>1, <1>2, <1>3, <1>4, <1>5 DEF Next

(* When stop_sane_threads has set sane_poll_threads to NULL, no device   *)
(* handle is open, whichever cancellation point each poller was at and   *)
(* whether it had closed its handle itself (the join loop of             *)
(* sane.c:1374-1413 closes the rest), for every number of devices and    *)
(* every rule array, across nested SIGTERM stops and restarts.           *)
THEOREM StoppedReleasesDevicesHolds == Spec => []StoppedReleasesDevices
<1>1. Init => TypeInv /\ ReleaseInv
    BY InitTypeInv, InitRelease
<1>2. TypeInv /\ ReleaseInv /\ [Next]_vars => TypeInv' /\ ReleaseInv'
    BY NextTypeInv, NextRelease
<1>3. ReleaseInv => StoppedReleasesDevices
    BY DEF ReleaseInv, Released, StoppedReleasesDevices
<1>4. QED
    BY <1>1, <1>2, <1>3, PTL DEF Spec

=============================================================================
