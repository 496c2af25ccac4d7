--------------------------- MODULE SaneThreadsSlots ---------------------------
(***************************************************************************)
(* Proof that the thread machinery of sane.c implements the slot-array    *)
(* contract PollerSlots under the mapping slots = sane_poll_threads #     *)
(* NULL, alive[d] = the poller of d has not ended, open = st->h # NULL.   *)
(* A poller step is a Run of its own slot, a pass of the join loop is a   *)
(* Join, the end of stop_sane_threads is a Free or a Start, and every     *)
(* other step leaves the three unchanged.  The guards of Free and Start   *)
(* (every thread ended, every handle closed) come from ReleaseInv.        *)
(***************************************************************************)
EXTENDS SaneThreadsRelease

(* Every slot released is the abstract AllReleased.                      *)
LEMMA ReleasedAll ==
    ASSUME \A d \in Dev : Released(d) PROVE Slots!AllReleased
BY DEF Released, Slots!AllReleased, PollerAlive

(* A step that leaves the pollers, the handles and the array alone is an *)
(* abstract stutter.                                                       *)
LEMMA QuietRefines ==
    ASSUME UNCHANGED <<pc, h_open, poll_threads>>
    PROVE  UNCHANGED Slots!vars
BY DEF Slots!vars, PollerAlive

(* start_sane_threads after a stop is the abstract Start.                *)
LEMMA StartRefines ==
    ASSUME \A d \in Dev : Released(d), StartThreads PROVE Slots!Start
<1>1. Slots!AllReleased
    BY ReleasedAll
<1>2. PollerAlive' = [d \in Dev |-> TRUE]
    BY DEF StartThreads, FreshSlots, PollerAlive
<1>3. QED
    BY <1>1, <1>2 DEF Slots!Start, StartThreads, FreshSlots

(* sane_poll_threads = NULL after the join loop is the abstract Free.   *)
LEMMA FreeRefines ==
    ASSUME \A d \in Dev : Released(d), ~poll_threads',
           UNCHANGED <<pc, h_open>>
    PROVE  Slots!Free
BY ReleasedAll DEF Slots!Free, PollerAlive

(* A poller step: the thread of d, alive and with the array in place,   *)
(* changes only its own handle and whether it has ended.                 *)
LEMMA PollerRefines ==
    ASSUME TypeInv, TypeInv', ReleaseInv, NEW d \in Dev, Poller(d)
    PROVE  Slots!Run(d)
<1>1. /\ pc[d] # "dead"
      /\ UNCHANGED <<poll_threads, main_pc, mi>>
      /\ OthersUnchanged(d)
    BY PollerShape
<1>2. poll_threads
    BY <1>1 DEF ReleaseInv, Released
<1>3. /\ pc \in [Dev -> PollPcs] /\ pc' \in [Dev -> PollPcs]
      /\ h_open \in [Dev -> BOOLEAN] /\ h_open' \in [Dev -> BOOLEAN]
    BY DEF TypeInv, TypeOK
<1>4. h_open' = [h_open EXCEPT ![d] = h_open'[d]]
    BY <1>1, <1>3 DEF OthersUnchanged
<1>5. PollerAlive' = [PollerAlive EXCEPT ![d] = (pc'[d] # "dead")]
    BY <1>1, <1>3 DEF OthersUnchanged, PollerAlive
<1>6. PollerAlive[d]
    BY <1>1 DEF PollerAlive
<1>7. QED
    BY <1>1, <1>2, <1>3, <1>4, <1>5, <1>6 DEF Slots!Run

(* A pass of the join loop closes the handle of a thread that has ended. *)
LEMMA StopJoinRefines ==
    ASSUME TypeInv, StopJoin PROVE Slots!Join(mi)
<1>1. /\ pc[mi] = "dead"
      /\ h_open' = [h_open EXCEPT ![mi] = FALSE]
      /\ UNCHANGED <<pc, poll_threads>>
    BY DEF StopJoin
<1>2. mi \in Dev
    BY DEF TypeInv, TypeOK
<1>3. QED
    BY <1>1, <1>2 DEF Slots!Join, PollerAlive

(* The end of stop_sane_threads: SIGUSR1, SIGHUP and SIGTERM drop the    *)
(* array, SIGUSR2 starts a fresh one.                                     *)
LEMMA StopDoneRefines ==
    ASSUME ReleaseInv, StopDone PROVE Slots!Free \/ Slots!Start
<1>1. \A d \in Dev : Released(d)
    BY DEF StopDone, ReleaseInv, JoinedSlots
<1>2. CASE main_sig = "usr2"
    BY <1>1, <1>2, StartRefines DEF StopDone
<1>3. CASE main_sig # "usr2"
  <2>1. ~poll_threads' /\ UNCHANGED <<pc, h_open>>
      BY <1>3 DEF StopDone, pollVars
  <2>2. QED
      BY <1>1, <2>1, FreeRefines
<1>4. QED
    BY <1>2, <1>3

LEMMA MainRefines ==
    ASSUME TypeInv, ReleaseInv, MainStep
    PROVE  [Slots!Next]_Slots!vars
<1>1. ASSUME NEW sig \in Signals, SignalArrives(sig)
      PROVE  UNCHANGED Slots!vars
    BY <1>1, QuietRefines DEF SignalArrives, pollVars
<1>2. CASE MainLock
  <2>1. CASE main_sig = "usr2" /\ ~poll_threads
      <3>1. \A d \in Dev : Released(d)
          BY <2>1 DEF ReleaseInv
      <3>2. QED
          BY <1>2, <2>1, <3>1, StartRefines DEF MainLock, Slots!Next
  <2>2. CASE ~(main_sig = "usr2" /\ ~poll_threads)
      BY <1>2, <2>2, QuietRefines DEF MainLock, pollVars
  <2>3. QED
      BY <2>1, <2>2
<1>3. CASE StopEnter \/ StopCheck \/ StopCancel \/ TermNested
    BY <1>3, QuietRefines DEF StopEnter, StopCheck, StopCancel, TermNested,
                              pollVars
<1>4. CASE StopJoin
  <2>1. mi \in Dev
      BY DEF TypeInv, TypeOK
  <2>2. QED
      BY <1>4, <2>1, StopJoinRefines DEF Slots!Next
<1>5. CASE StopDone
    BY <1>5, StopDoneRefines DEF Slots!Next
<1>6. CASE StartLock
  <2>1. \A d \in Dev : Released(d)
      BY <1>6 DEF StartLock, ReleaseInv
  <2>2. QED
      BY <1>6, <2>1, StartRefines DEF StartLock, Slots!Next
<1>7. QED
    BY <1>1, <1>2, <1>3, <1>4, <1>5, <1>6 DEF MainStep

LEMMA NextRefines ==
    TypeInv /\ TypeInv' /\ ReleaseInv /\ [Next]_vars
        => [Slots!Next]_Slots!vars
<1> SUFFICES ASSUME TypeInv, TypeInv', ReleaseInv, [Next]_vars
             PROVE  [Slots!Next]_Slots!vars
    OBVIOUS
<1>1. ASSUME NEW d \in Dev, Poller(d) PROVE Slots!Next
    BY <1>1, PollerRefines DEF Slots!Next
<1>2. CASE MainStep
    BY <1>2, MainRefines
<1>3. CASE DbusStep
  <2>1. UNCHANGED <<pc, h_open, poll_threads>>
      BY <1>3 DEF DbusStep, TriggerCall, SaneWake, TrigLockDev, TrigWake,
                  pollVars
  <2>2. QED
      BY <2>1, QuietRefines
<1>4. CASE EnvStep
  <2>1. UNCHANGED <<pc, h_open, poll_threads>>
      BY <1>4 DEF EnvStep, Press, ChildExit, pollVars
  <2>2. QED
      BY <2>1, QuietRefines
<1>5. CASE Halted \/ UNCHANGED vars
    BY <1>5, QuietRefines DEF Halted, vars, pollVars
<1>6. QED
    BY <1>1, <1>2, <1>3, <1>4, <1>5 DEF Next

(* The initial state is the abstract one: start_sane_threads has given   *)
(* every slot a thread at its start and a NULL handle.                    *)
LEMMA InitRefines == Init => Slots!Init
BY DEF Init, Slots!Init, PollerAlive

(* scanbd's pollers, signal handlers and D-Bus trigger together keep the *)
(* slot-array contract of PollerSlots (sane_poll, stop_sane_threads and  *)
(* start_sane_threads, sane.c:607-1193 and 1267-1427), for every number  *)
(* of devices and every rule array, across nested SIGTERM stops.         *)
THEOREM SlotsRefinement == Spec => SlotsRefined
<1>1. Init => TypeInv /\ ReleaseInv
    BY InitTypeInv, InitRelease
<1>2. TypeInv /\ ReleaseInv /\ [Next]_vars => TypeInv' /\ ReleaseInv'
    BY NextTypeInv, NextRelease
<1>3. TypeInv /\ ReleaseInv /\ [Next]_vars /\ TypeInv'
          => [Slots!Next]_Slots!vars
    BY NextRefines
<1>4. QED
    BY <1>1, <1>2, <1>3, InitRefines, PTL DEF Spec, SlotsRefined, Slots!Spec
=============================================================================
