-------------------------- MODULE SaneThreadsProofs --------------------------
(***************************************************************************)
(* Proofs about the thread machinery of SaneThreads, for every number of  *)
(* devices, every option and value set and every rule array.              *)
(***************************************************************************)
EXTENDS SaneThreads, NatLemmas, TLAPS

-----------------------------------------------------------------------------
(* Lemmas on the helpers                                                  *)

(* The rule array has a length.                                         *)
LEMMA NRulesNat == NRules \in Nat
BY DEF NRules

(* The rule a later rule copies its value from is an earlier rule.       *)
LEMMA FirstSameEarlier ==
    ASSUME NEW i \in RuleIdx, SameBefore(i) # {}
    PROVE  FirstSame(i) \in 0 .. i - 1
<1>1. SameBefore(i) \subseteq Nat
    BY DEF SameBefore, RuleIdx
<1>2. \E o \in SameBefore(i) : \A p \in SameBefore(i) : o =< p
    BY <1>1, NatSubsetHasMin
<1>3. FirstSame(i) \in SameBefore(i)
    BY <1>2 DEF FirstSame
<1>4. QED
    BY <1>3 DEF SameBefore

(* Every rule names an option of the device.                             *)
LEMMA RuleOption ==
    ASSUME NEW i \in RuleIdx
    PROVE  Rule(i).number \in Options /\ Rule(i).from \in Values
           /\ Rule(i).to \in Values
<1>1. i + 1 \in 1 .. Len(Rules)
    BY DEF RuleIdx, NRules
<1>2. Rules[i + 1] \in RuleRec
    BY <1>1, ConstAssumption
<1>3. QED
    BY <1>2 DEF Rule, RuleRec

(* The value a poll of rule i yields, read from the device or copied,   *)
(* is a value (sane.c:802-824).                                          *)
LEMMA ReadValueType ==
    ASSUME NEW d \in Dev, NEW i \in RuleIdx,
           value \in [Dev -> [RuleIdx -> Values]],
           dev_val \in [Dev -> [Options -> Values]]
    PROVE  ReadValue(d, i) \in Values
<1>1. CASE SameBefore(i) = {}
    BY <1>1, RuleOption DEF ReadValue
<1>2. CASE SameBefore(i) # {}
  <2>1. FirstSame(i) \in 0 .. i - 1
      BY <1>2, FirstSameEarlier
  <2>2. FirstSame(i) \in RuleIdx
      BY <2>1, NRulesNat DEF RuleIdx
  <2>3. QED
      BY <1>2, <2>2 DEF ReadValue
<1>3. QED
    BY <1>1, <1>2

-----------------------------------------------------------------------------
(* Type correctness                                                       *)

(* A poller about to check rule si has a rule si: the loop of sane.c:773 *)
(* runs si over 0 .. num_of_options_with_scripts - 1.                    *)
CheckIndexValid ==
    \A d \in Dev : pc[d] = "check" => si[d] \in 0 .. num_scripts[d] - 1

TypeInv == TypeOK /\ CheckIndexValid

LEMMA InitTypeInv == Init => TypeInv
BY ConstAssumption DEF Init, TypeInv, TypeOK, CheckIndexValid, PollPcs, MainPcs, Signals,
       DbusPcs, Dev, RuleIdx, NRules

(* A poller step that moves pc[d] to a place other than the rule check, *)
(* leaves the rule index, the rule array and the other threads alone    *)
(* and keeps the flags of the slots Boolean keeps the invariant.        *)
LEMMA PcStepTypeInv ==
    ASSUME TypeInv, NEW d \in Dev, NEW x \in PollPcs \ {"check"},
           pc' = [pc EXCEPT ![d] = x],
           triggered' \in [Dev -> BOOLEAN],
           triggered_option' \in [Dev -> -1 .. NRules],
           h_open' \in [Dev -> BOOLEAN],
           child' \in [Dev -> BOOLEAN],
           scan_open' \in [Dev -> BOOLEAN],
           UNCHANGED <<proc, si, cancel_enabled, cancel_pending, num_scripts,
                       value, otherVars>>
    PROVE  TypeInv'
<1>1. pc \in [Dev -> PollPcs]
    BY DEF TypeInv, TypeOK
<1>2. pc' \in [Dev -> PollPcs]
    BY <1>1
<1>3. TypeOK'
    BY <1>2 DEF TypeInv, TypeOK, otherVars
<1>4. CheckIndexValid'
    BY <1>1 DEF TypeInv, CheckIndexValid
<1>5. QED
    BY <1>3, <1>4 DEF TypeInv

(* scan_begin (sane.c:1018).                                             *)
LEMMA BeginTypeInv ==
    ASSUME TypeInv, NEW d \in Dev, Begin(d) PROVE TypeInv'
<1>1. /\ triggered \in [Dev -> BOOLEAN]
      /\ triggered_option \in [Dev -> -1 .. NRules]
      /\ h_open \in [Dev -> BOOLEAN]
      /\ child \in [Dev -> BOOLEAN]
      /\ scan_open \in [Dev -> BOOLEAN]
    BY DEF TypeInv, TypeOK
<1>2. scan_open' \in [Dev -> BOOLEAN]
    BY <1>1 DEF Begin
<1>3. QED
    BY <1>1, <1>2, PcStepTypeInv DEF Begin, PollPcs

(* The trigger signal and sane_close (sane.c:1021-1046).                *)
LEMMA TrigSigTypeInv ==
    ASSUME TypeInv, NEW d \in Dev, TrigSig(d) PROVE TypeInv'
<1>1. /\ triggered \in [Dev -> BOOLEAN]
      /\ triggered_option \in [Dev -> -1 .. NRules]
      /\ h_open \in [Dev -> BOOLEAN]
      /\ child \in [Dev -> BOOLEAN]
      /\ scan_open \in [Dev -> BOOLEAN]
    BY DEF TypeInv, TypeOK
<1>2. h_open' \in [Dev -> BOOLEAN]
    BY <1>1 DEF TrigSig
<1>3. QED
    BY <1>1, <1>2, PcStepTypeInv DEF TrigSig, PollPcs

(* The fork of the script child (sane.c:1050-1056).                     *)
LEMMA PreForkTypeInv ==
    ASSUME TypeInv, NEW d \in Dev, PreFork(d) PROVE TypeInv'
<1>1. /\ triggered \in [Dev -> BOOLEAN]
      /\ triggered_option \in [Dev -> -1 .. NRules]
      /\ h_open \in [Dev -> BOOLEAN]
      /\ child \in [Dev -> BOOLEAN]
      /\ scan_open \in [Dev -> BOOLEAN]
    BY DEF TypeInv, TypeOK
<1>2. child' \in [Dev -> BOOLEAN]
    BY <1>1 DEF PreFork
<1>3. QED
    BY <1>1, <1>2, PcStepTypeInv DEF PreFork, PollPcs

(* waitpid (sane.c:1060-1070).                                          *)
LEMMA WaitChildTypeInv ==
    ASSUME TypeInv, NEW d \in Dev, WaitChild(d) PROVE TypeInv'
<1>1. /\ triggered \in [Dev -> BOOLEAN]
      /\ triggered_option \in [Dev -> -1 .. NRules]
      /\ h_open \in [Dev -> BOOLEAN]
      /\ child \in [Dev -> BOOLEAN]
      /\ scan_open \in [Dev -> BOOLEAN]
    BY DEF TypeInv, TypeOK
<1>3. QED
    BY <1>1, PcStepTypeInv DEF WaitChild, PollPcs

(* Clearing triggered (sane.c:1125-1143).                               *)
LEMMA ClearTypeInv ==
    ASSUME TypeInv, NEW d \in Dev, Clear(d) PROVE TypeInv'
<1>1. /\ triggered \in [Dev -> BOOLEAN]
      /\ triggered_option \in [Dev -> -1 .. NRules]
      /\ h_open \in [Dev -> BOOLEAN]
      /\ child \in [Dev -> BOOLEAN]
      /\ scan_open \in [Dev -> BOOLEAN]
    BY DEF TypeInv, TypeOK
<1>2. /\ triggered' \in [Dev -> BOOLEAN]
      /\ triggered_option' \in [Dev -> -1 .. NRules]
    BY <1>1, NRulesNat DEF Clear
<1>3. QED
    BY <1>1, <1>2, PcStepTypeInv DEF Clear, PollPcs

(* The settle usleep (sane.c:1145).                                     *)
LEMMA SettleTypeInv ==
    ASSUME TypeInv, NEW d \in Dev, Settle(d) PROVE TypeInv'
<1>1. /\ triggered \in [Dev -> BOOLEAN]
      /\ triggered_option \in [Dev -> -1 .. NRules]
      /\ h_open \in [Dev -> BOOLEAN]
      /\ child \in [Dev -> BOOLEAN]
      /\ scan_open \in [Dev -> BOOLEAN]
    BY DEF TypeInv, TypeOK
<1>3. QED
    BY <1>1, PcStepTypeInv DEF Settle, PollPcs

(* scan_end (sane.c:1148).                                              *)
LEMMA ScanEndTypeInv ==
    ASSUME TypeInv, NEW d \in Dev, ScanEnd(d) PROVE TypeInv'
<1>1. /\ triggered \in [Dev -> BOOLEAN]
      /\ triggered_option \in [Dev -> -1 .. NRules]
      /\ h_open \in [Dev -> BOOLEAN]
      /\ child \in [Dev -> BOOLEAN]
      /\ scan_open \in [Dev -> BOOLEAN]
    BY DEF TypeInv, TypeOK
<1>2. scan_open' \in [Dev -> BOOLEAN]
    BY <1>1 DEF ScanEnd
<1>3. QED
    BY <1>1, <1>2, PcStepTypeInv DEF ScanEnd, PollPcs

(* The polling usleep (sane.c:1180-1189).                               *)
LEMMA SleepTypeInv ==
    ASSUME TypeInv, NEW d \in Dev, Sleep(d) PROVE TypeInv'
<1>1. /\ triggered \in [Dev -> BOOLEAN]
      /\ triggered_option \in [Dev -> -1 .. NRules]
      /\ h_open \in [Dev -> BOOLEAN]
      /\ child \in [Dev -> BOOLEAN]
      /\ scan_open \in [Dev -> BOOLEAN]
    BY DEF TypeInv, TypeOK
<1>3. QED
    BY <1>1, PcStepTypeInv DEF Sleep, PollPcs

(* A cancellation acting (sane.c:257-265).                              *)
LEMMA CancelTypeInv ==
    ASSUME TypeInv, NEW d \in Dev, Cancel(d) PROVE TypeInv'
<1>1. /\ triggered \in [Dev -> BOOLEAN]
      /\ triggered_option \in [Dev -> -1 .. NRules]
      /\ h_open \in [Dev -> BOOLEAN]
      /\ child \in [Dev -> BOOLEAN]
      /\ scan_open \in [Dev -> BOOLEAN]
    BY DEF TypeInv, TypeOK
<1>3. QED
    BY <1>1, PcStepTypeInv DEF Cancel, PollPcs

(* Going on with the next rule of the loop at sane.c:773 keeps the index *)
(* of a rule to check below num_of_options_with_scripts.                 *)
LEMMA NextRuleType ==
    ASSUME NEW d \in Dev, pc \in [Dev -> PollPcs], si \in [Dev -> 0 .. NRules],
           num_scripts \in [Dev -> 0 .. NRules], NextRule(d)
    PROVE  /\ pc' \in [Dev -> PollPcs]
           /\ si' \in [Dev -> 0 .. NRules]
           /\ pc'[d] = "check" => si'[d] \in 0 .. num_scripts[d] - 1
           /\ \A e \in Dev \ {d} : pc'[e] = pc[e] /\ si'[e] = si[e]
<1>1. CASE si[d] + 1 < num_scripts[d]
    BY <1>1, NRulesNat DEF NextRule, PollPcs
<1>2. CASE ~(si[d] + 1 < num_scripts[d])
    BY <1>2 DEF NextRule, PollPcs
<1>3. QED
    BY <1>1, <1>2

(* Lock, open, count options, compile and read the initial values       *)
(* (sane.c:626-751).                                                     *)
LEMMA StartupTypeInv ==
    ASSUME TypeInv, NEW d \in Dev, Startup(d) PROVE TypeInv'
<1>1. /\ pc \in [Dev -> PollPcs]
      /\ h_open \in [Dev -> BOOLEAN]
      /\ num_scripts \in [Dev -> 0 .. NRules]
      /\ value \in [Dev -> [RuleIdx -> Values]]
      /\ dev_val \in [Dev -> [Options -> Values]]
    BY DEF TypeInv, TypeOK
<1>2. [i \in RuleIdx |-> dev_val[d][Rule(i).number]] \in [RuleIdx -> Values]
    BY <1>1, RuleOption
<1>3. /\ pc' \in [Dev -> PollPcs]
      /\ pc'[d] # "check"
      /\ \A e \in Dev \ {d} : pc'[e] = pc[e] /\ num_scripts'[e] = num_scripts[e]
      /\ h_open' \in [Dev -> BOOLEAN]
      /\ num_scripts' \in [Dev -> 0 .. NRules]
      /\ value' \in [Dev -> [RuleIdx -> Values]]
  <2>1. PICK st \in OpenStatus, hasOptions \in BOOLEAN :
            IF st # "good"
            THEN /\ pc' = [pc EXCEPT ![d] = "dead"]
                 /\ UNCHANGED <<h_open, num_scripts, value>>
            ELSE /\ h_open' = [h_open EXCEPT ![d] = TRUE]
                 /\ IF hasOptions
                    THEN /\ pc' = [pc EXCEPT ![d] = "top"]
                         /\ num_scripts' = [num_scripts EXCEPT ![d] = NRules]
                         /\ value' = [value EXCEPT ![d] =
                                [i \in RuleIdx |-> dev_val[d][Rule(i).number]]]
                    ELSE /\ pc' = [pc EXCEPT ![d] = "dead"]
                         /\ UNCHANGED <<num_scripts, value>>
      BY DEF Startup
  <2>2. CASE st # "good"
      BY <1>1, <2>1, <2>2 DEF PollPcs
  <2>3. CASE st = "good" /\ hasOptions
    <3>1. /\ pc' = [pc EXCEPT ![d] = "top"]
          /\ h_open' = [h_open EXCEPT ![d] = TRUE]
          /\ num_scripts' = [num_scripts EXCEPT ![d] = NRules]
          /\ value' = [value EXCEPT ![d] =
                         [i \in RuleIdx |-> dev_val[d][Rule(i).number]]]
        BY <2>1, <2>3
    <3>2. NRules \in 0 .. NRules
        BY NRulesNat
    <3>3. QED
        BY <1>1, <1>2, <3>1, <3>2 DEF PollPcs
  <2>4. CASE st = "good" /\ ~hasOptions
      BY <1>1, <2>1, <2>4 DEF PollPcs
  <2>5. QED
      BY <2>2, <2>3, <2>4
<1>4. UNCHANGED <<proc, si, triggered, triggered_option, cancel_enabled,
                 cancel_pending, child, scan_open, otherVars>>
    BY DEF Startup
<1>5. TypeOK'
    BY <1>3, <1>4 DEF TypeInv, TypeOK, otherVars
<1>6. CheckIndexValid'
    BY <1>1, <1>3, <1>4 DEF TypeInv, CheckIndexValid
<1>7. QED
    BY <1>5, <1>6 DEF TypeInv

(* The check of rule si (sane.c:774-875); with st->h NULL the process    *)
(* crashes and no slot changes.                                          *)
LEMMA CheckTypeInv ==
    ASSUME TypeInv, NEW d \in Dev, Check(d) PROVE TypeInv'
<1>1. /\ pc \in [Dev -> PollPcs]
      /\ si \in [Dev -> 0 .. NRules]
      /\ triggered \in [Dev -> BOOLEAN]
      /\ triggered_option \in [Dev -> -1 .. NRules]
      /\ cancel_enabled \in [Dev -> BOOLEAN]
      /\ num_scripts \in [Dev -> 0 .. NRules]
      /\ value \in [Dev -> [RuleIdx -> Values]]
      /\ dev_val \in [Dev -> [Options -> Values]]
    BY DEF TypeInv, TypeOK
<1>2. CASE ~h_open[d]
    BY <1>2 DEF TypeInv, TypeOK, CheckIndexValid, Check, pollVars, otherVars
<1>3. CASE h_open[d]
  <2>1. /\ si[d] \in RuleIdx
        /\ si[d] < num_scripts[d]
        /\ num_scripts[d] =< NRules
      BY <1>1, NRulesNat DEF Check, TypeInv, CheckIndexValid, RuleIdx
  <2>2. ReadValue(d, si[d]) \in Values
      BY <1>1, <2>1, ReadValueType
  <2> DEFINE i == si[d]
             v == ReadValue(d, i)
             fire == Fires(d, i, v)
             trig == triggered[d] \/ fire
             opt == IF fire THEN i ELSE triggered_option[d]
  <2>a. /\ triggered' = [triggered EXCEPT ![d] = trig]
        /\ triggered_option' = [triggered_option EXCEPT ![d] = opt]
        /\ value' = [value EXCEPT ![d][i] = v]
        /\ cancel_enabled' = [cancel_enabled EXCEPT ![d] = TRUE]
        /\ IF trig /\ opt >= 0
           THEN pc' = [pc EXCEPT ![d] = "begin"] /\ UNCHANGED si
           ELSE NextRule(d)
      BY <1>3 DEF Check
  <2>b. opt \in -1 .. NRules
      BY <1>1, <2>1, NRulesNat DEF RuleIdx
  <2>c. value[d] \in [RuleIdx -> Values]
      BY <1>1
  <2>3. /\ triggered' \in [Dev -> BOOLEAN]
        /\ triggered_option' \in [Dev -> -1 .. NRules]
        /\ value' \in [Dev -> [RuleIdx -> Values]]
        /\ cancel_enabled' \in [Dev -> BOOLEAN]
      BY <1>1, <2>1, <2>2, <2>a, <2>b, <2>c
  <2>4. /\ pc' \in [Dev -> PollPcs]
        /\ si' \in [Dev -> 0 .. NRules]
        /\ pc'[d] = "check" => si'[d] \in 0 .. num_scripts[d] - 1
        /\ \A e \in Dev \ {d} : pc'[e] = pc[e] /\ si'[e] = si[e]
    <3>1. CASE trig /\ opt >= 0
        BY <1>1, <2>a, <3>1 DEF PollPcs
    <3>2. CASE ~(trig /\ opt >= 0)
        BY <1>1, <2>a, <3>2, NextRuleType
    <3>3. QED
        BY <3>1, <3>2
  <2>5. UNCHANGED <<proc, h_open, cancel_pending, num_scripts, child,
                   scan_open, otherVars>>
      BY <1>3 DEF Check
  <2>6. TypeOK'
      BY <2>3, <2>4, <2>5 DEF TypeInv, TypeOK, otherVars
  <2>7. CheckIndexValid'
      BY <1>1, <2>4, <2>5 DEF TypeInv, CheckIndexValid
  <2>8. QED
      BY <2>6, <2>7 DEF TypeInv
<1>4. QED
    BY <1>2, <1>3

(* Relock and sane_open again, then go on with the next rule              *)
(* (sane.c:1151-1165).                                                   *)
LEMMA ReopenTypeInv ==
    ASSUME TypeInv, NEW d \in Dev, Reopen(d) PROVE TypeInv'
<1>1. /\ pc \in [Dev -> PollPcs]
      /\ si \in [Dev -> 0 .. NRules]
      /\ h_open \in [Dev -> BOOLEAN]
      /\ num_scripts \in [Dev -> 0 .. NRules]
    BY DEF TypeInv, TypeOK
<1>2. /\ pc' \in [Dev -> PollPcs]
      /\ si' \in [Dev -> 0 .. NRules]
      /\ h_open' \in [Dev -> BOOLEAN]
      /\ pc'[d] = "check" => si'[d] \in 0 .. num_scripts[d] - 1
      /\ \A e \in Dev \ {d} : pc'[e] = pc[e] /\ si'[e] = si[e]
  <2>1. \/ /\ NextRule(d) /\ h_open' \in [Dev -> BOOLEAN]
        \/ /\ pc' = [pc EXCEPT ![d] = "dead"] /\ UNCHANGED <<h_open, si>>
      BY <1>1 DEF Reopen, OpenStatus
  <2>2. QED
      BY <1>1, <2>1, NextRuleType DEF PollPcs
<1>3. UNCHANGED <<proc, triggered, triggered_option, cancel_enabled,
                 cancel_pending, num_scripts, value, child, scan_open,
                 otherVars>>
    BY DEF Reopen
<1>4. TypeOK'
    BY <1>2, <1>3 DEF TypeInv, TypeOK, otherVars
<1>5. CheckIndexValid'
    BY <1>1, <1>2, <1>3 DEF TypeInv, CheckIndexValid
<1>6. QED
    BY <1>4, <1>5 DEF TypeInv

(* A step of the main thread, the D-Bus thread or the environment that   *)
(* leaves the slots of the pollers alone.                                 *)
LEMMA OtherStepTypeInv ==
    ASSUME TypeInv, UNCHANGED <<pc, si, cancel_enabled, num_scripts, value>>,
           proc' \in {"run", "exit", "crash"},
           sane_mutex' \in {"none", "main", "dbus"},
           poll_threads' \in BOOLEAN,
           triggered' \in [Dev -> BOOLEAN],
           triggered_option' \in [Dev -> -1 .. NRules],
           h_open' \in [Dev -> BOOLEAN],
           cancel_pending' \in [Dev -> BOOLEAN],
           dev_val' \in [Dev -> [Options -> Values]],
           child' \in [Dev -> BOOLEAN],
           scan_open' \in [Dev -> BOOLEAN],
           main_pc' \in MainPcs, main_sig' \in Signals, mi' \in Dev,
           dbus_pc' \in DbusPcs, dbus_dev' \in Dev, dbus_act' \in 0 .. NRules
    PROVE  TypeInv'
<1>1. TypeOK'
    BY DEF TypeInv, TypeOK
<1>2. CheckIndexValid'
    BY DEF TypeInv, CheckIndexValid
<1>3. QED
    BY <1>1, <1>2 DEF TypeInv

(* start_sane_threads gives every slot its fresh state                    *)
(* (sane.c:1287-1321).                                                   *)
LEMMA FreshSlotsTypeInv ==
    ASSUME FreshSlots
    PROVE  /\ pc' \in [Dev -> PollPcs]
           /\ si' \in [Dev -> 0 .. NRules]
           /\ triggered' \in [Dev -> BOOLEAN]
           /\ triggered_option' \in [Dev -> -1 .. NRules]
           /\ h_open' \in [Dev -> BOOLEAN]
           /\ cancel_enabled' \in [Dev -> BOOLEAN]
           /\ cancel_pending' \in [Dev -> BOOLEAN]
           /\ num_scripts' \in [Dev -> 0 .. NRules]
           /\ value' \in [Dev -> [RuleIdx -> Values]]
           /\ CheckIndexValid'
BY ConstAssumption, NRulesNat DEF FreshSlots, PollPcs, CheckIndexValid

(* A signal reaches the main thread in pause().                         *)
LEMMA SignalArrivesTypeInv ==
    ASSUME TypeInv, NEW sig \in Signals, SignalArrives(sig)
    PROVE  TypeInv'
<1>1. /\ proc' \in {"run", "exit", "crash"}
      /\ sane_mutex' \in {"none", "main", "dbus"}
      /\ poll_threads' \in BOOLEAN
      /\ triggered' \in [Dev -> BOOLEAN]
      /\ triggered_option' \in [Dev -> -1 .. NRules]
      /\ h_open' \in [Dev -> BOOLEAN]
      /\ cancel_pending' \in [Dev -> BOOLEAN]
      /\ dev_val' \in [Dev -> [Options -> Values]]
      /\ child' \in [Dev -> BOOLEAN]
      /\ scan_open' \in [Dev -> BOOLEAN]
      /\ main_pc' \in MainPcs /\ main_sig' \in Signals /\ mi' \in Dev
      /\ dbus_pc' \in DbusPcs /\ dbus_dev' \in Dev /\ dbus_act' \in 0 .. NRules
    BY NRulesNat DEF TypeInv, TypeOK, SignalArrives, MainPcs, Signals, DbusPcs,
                     pollVars, mainVars, dbusVars
<1>2. UNCHANGED <<pc, si, cancel_enabled, num_scripts, value>>
    BY DEF SignalArrives, pollVars
<1>3. QED
    BY <1>1, <1>2, OtherStepTypeInv

(* SIGTERM or SIGINT interrupts a running handler.                     *)
LEMMA TermNestedTypeInv ==
    ASSUME TypeInv, TermNested
    PROVE  TypeInv'
<1>1. /\ proc' \in {"run", "exit", "crash"}
      /\ sane_mutex' \in {"none", "main", "dbus"}
      /\ poll_threads' \in BOOLEAN
      /\ triggered' \in [Dev -> BOOLEAN]
      /\ triggered_option' \in [Dev -> -1 .. NRules]
      /\ h_open' \in [Dev -> BOOLEAN]
      /\ cancel_pending' \in [Dev -> BOOLEAN]
      /\ dev_val' \in [Dev -> [Options -> Values]]
      /\ child' \in [Dev -> BOOLEAN]
      /\ scan_open' \in [Dev -> BOOLEAN]
      /\ main_pc' \in MainPcs /\ main_sig' \in Signals /\ mi' \in Dev
      /\ dbus_pc' \in DbusPcs /\ dbus_dev' \in Dev /\ dbus_act' \in 0 .. NRules
    BY NRulesNat DEF TypeInv, TypeOK, TermNested, MainPcs, Signals, DbusPcs,
                     pollVars, dbusVars
<1>2. UNCHANGED <<pc, si, cancel_enabled, num_scripts, value>>
    BY DEF TermNested, pollVars
<1>3. QED
    BY <1>1, <1>2, OtherStepTypeInv

(* stop_sane_threads begins (sane.c:1340-1346).                         *)
LEMMA StopEnterTypeInv ==
    ASSUME TypeInv, StopEnter
    PROVE  TypeInv'
<1>1. /\ proc' \in {"run", "exit", "crash"}
      /\ sane_mutex' \in {"none", "main", "dbus"}
      /\ poll_threads' \in BOOLEAN
      /\ triggered' \in [Dev -> BOOLEAN]
      /\ triggered_option' \in [Dev -> -1 .. NRules]
      /\ h_open' \in [Dev -> BOOLEAN]
      /\ cancel_pending' \in [Dev -> BOOLEAN]
      /\ dev_val' \in [Dev -> [Options -> Values]]
      /\ child' \in [Dev -> BOOLEAN]
      /\ scan_open' \in [Dev -> BOOLEAN]
      /\ main_pc' \in MainPcs /\ main_sig' \in Signals /\ mi' \in Dev
      /\ dbus_pc' \in DbusPcs /\ dbus_dev' \in Dev /\ dbus_act' \in 0 .. NRules
    BY NRulesNat, ConstAssumption DEF TypeInv, TypeOK, StopEnter, Dev, MainPcs, Signals, DbusPcs,
                     pollVars, mainVars, dbusVars
<1>2. UNCHANGED <<pc, si, cancel_enabled, num_scripts, value>>
    BY DEF StopEnter, pollVars
<1>3. QED
    BY <1>1, <1>2, OtherStepTypeInv

(* The wait for triggered to clear (sane.c:1348-1361).                  *)
LEMMA StopCheckTypeInv ==
    ASSUME TypeInv, StopCheck
    PROVE  TypeInv'
<1>1. /\ proc' \in {"run", "exit", "crash"}
      /\ sane_mutex' \in {"none", "main", "dbus"}
      /\ poll_threads' \in BOOLEAN
      /\ triggered' \in [Dev -> BOOLEAN]
      /\ triggered_option' \in [Dev -> -1 .. NRules]
      /\ h_open' \in [Dev -> BOOLEAN]
      /\ cancel_pending' \in [Dev -> BOOLEAN]
      /\ dev_val' \in [Dev -> [Options -> Values]]
      /\ child' \in [Dev -> BOOLEAN]
      /\ scan_open' \in [Dev -> BOOLEAN]
      /\ main_pc' \in MainPcs /\ main_sig' \in Signals /\ mi' \in Dev
      /\ dbus_pc' \in DbusPcs /\ dbus_dev' \in Dev /\ dbus_act' \in 0 .. NRules
    BY NRulesNat DEF TypeInv, TypeOK, StopCheck, MainPcs, Signals, DbusPcs,
                     pollVars, mainVars, dbusVars
<1>2. UNCHANGED <<pc, si, cancel_enabled, num_scripts, value>>
    BY DEF StopCheck, pollVars
<1>3. QED
    BY <1>1, <1>2, OtherStepTypeInv

(* pthread_cancel (sane.c:1364).                                        *)
LEMMA StopCancelTypeInv ==
    ASSUME TypeInv, StopCancel
    PROVE  TypeInv'
<1>a. /\ cancel_pending \in [Dev -> BOOLEAN] /\ mi \in Dev
    BY DEF TypeInv, TypeOK
<1>b. /\ cancel_pending' \in [Dev -> BOOLEAN] /\ main_pc' \in MainPcs
      /\ mi' \in Dev
    BY <1>a, NRulesNat, ConstAssumption DEF StopCancel, Dev, MainPcs
<1>c. UNCHANGED <<proc, sane_mutex, poll_threads, pc, si, triggered,
                 triggered_option, h_open, cancel_enabled, num_scripts,
                 value, dev_val, child, scan_open, main_sig, dbusVars>>
    BY DEF StopCancel, Dev, MainPcs
<1>1. /\ proc' \in {"run", "exit", "crash"}
      /\ sane_mutex' \in {"none", "main", "dbus"}
      /\ poll_threads' \in BOOLEAN
      /\ triggered' \in [Dev -> BOOLEAN]
      /\ triggered_option' \in [Dev -> -1 .. NRules]
      /\ h_open' \in [Dev -> BOOLEAN]
      /\ cancel_pending' \in [Dev -> BOOLEAN]
      /\ dev_val' \in [Dev -> [Options -> Values]]
      /\ child' \in [Dev -> BOOLEAN]
      /\ scan_open' \in [Dev -> BOOLEAN]
      /\ main_pc' \in MainPcs /\ main_sig' \in Signals /\ mi' \in Dev
      /\ dbus_pc' \in DbusPcs /\ dbus_dev' \in Dev /\ dbus_act' \in 0 .. NRules
    BY <1>b, <1>c DEF TypeInv, TypeOK, pollVars, mainVars, dbusVars
<1>2. UNCHANGED <<pc, si, cancel_enabled, num_scripts, value>>
    BY DEF StopCancel, pollVars
<1>3. QED
    BY <1>1, <1>2, OtherStepTypeInv

(* pthread_join and the close of a handle left open (1374-1413).        *)
LEMMA StopJoinTypeInv ==
    ASSUME TypeInv, StopJoin
    PROVE  TypeInv'
<1>a. /\ h_open \in [Dev -> BOOLEAN] /\ mi \in Dev
    BY DEF TypeInv, TypeOK
<1>b. /\ h_open' \in [Dev -> BOOLEAN] /\ main_pc' \in MainPcs
      /\ mi' \in Dev
    BY <1>a, NRulesNat, ConstAssumption DEF StopJoin, Dev, MainPcs
<1>c. UNCHANGED <<proc, sane_mutex, poll_threads, pc, si, triggered,
                 triggered_option, cancel_enabled, cancel_pending,
                 num_scripts, value, dev_val, child, scan_open, main_sig,
                 dbusVars>>
    BY DEF StopJoin, Dev, MainPcs
<1>1. /\ proc' \in {"run", "exit", "crash"}
      /\ sane_mutex' \in {"none", "main", "dbus"}
      /\ poll_threads' \in BOOLEAN
      /\ triggered' \in [Dev -> BOOLEAN]
      /\ triggered_option' \in [Dev -> -1 .. NRules]
      /\ h_open' \in [Dev -> BOOLEAN]
      /\ cancel_pending' \in [Dev -> BOOLEAN]
      /\ dev_val' \in [Dev -> [Options -> Values]]
      /\ child' \in [Dev -> BOOLEAN]
      /\ scan_open' \in [Dev -> BOOLEAN]
      /\ main_pc' \in MainPcs /\ main_sig' \in Signals /\ mi' \in Dev
      /\ dbus_pc' \in DbusPcs /\ dbus_dev' \in Dev /\ dbus_act' \in 0 .. NRules
    BY <1>b, <1>c DEF TypeInv, TypeOK, pollVars, mainVars, dbusVars
<1>2. UNCHANGED <<pc, si, cancel_enabled, num_scripts, value>>
    BY DEF StopJoin, pollVars
<1>3. QED
    BY <1>1, <1>2, OtherStepTypeInv

(* sane_trigger_action takes sane_mutex (sane.c:1202-1222).             *)
LEMMA TriggerCallTypeInv ==
    ASSUME TypeInv, NEW dv \in Dev, NEW act \in 0 .. NRules, TriggerCall(dv, act)
    PROVE  TypeInv'
<1>1. /\ proc' \in {"run", "exit", "crash"}
      /\ sane_mutex' \in {"none", "main", "dbus"}
      /\ poll_threads' \in BOOLEAN
      /\ triggered' \in [Dev -> BOOLEAN]
      /\ triggered_option' \in [Dev -> -1 .. NRules]
      /\ h_open' \in [Dev -> BOOLEAN]
      /\ cancel_pending' \in [Dev -> BOOLEAN]
      /\ dev_val' \in [Dev -> [Options -> Values]]
      /\ child' \in [Dev -> BOOLEAN]
      /\ scan_open' \in [Dev -> BOOLEAN]
      /\ main_pc' \in MainPcs /\ main_sig' \in Signals /\ mi' \in Dev
      /\ dbus_pc' \in DbusPcs /\ dbus_dev' \in Dev /\ dbus_act' \in 0 .. NRules
    BY NRulesNat DEF TypeInv, TypeOK, TriggerCall, MainPcs, Signals, DbusPcs,
                     pollVars, mainVars, dbusVars
<1>2. UNCHANGED <<pc, si, cancel_enabled, num_scripts, value>>
    BY DEF TriggerCall, pollVars
<1>3. QED
    BY <1>1, <1>2, OtherStepTypeInv

(* sane_trigger_action woken on sane_cv.                                *)
LEMMA SaneWakeTypeInv ==
    ASSUME TypeInv, SaneWake
    PROVE  TypeInv'
<1>1. /\ proc' \in {"run", "exit", "crash"}
      /\ sane_mutex' \in {"none", "main", "dbus"}
      /\ poll_threads' \in BOOLEAN
      /\ triggered' \in [Dev -> BOOLEAN]
      /\ triggered_option' \in [Dev -> -1 .. NRules]
      /\ h_open' \in [Dev -> BOOLEAN]
      /\ cancel_pending' \in [Dev -> BOOLEAN]
      /\ dev_val' \in [Dev -> [Options -> Values]]
      /\ child' \in [Dev -> BOOLEAN]
      /\ scan_open' \in [Dev -> BOOLEAN]
      /\ main_pc' \in MainPcs /\ main_sig' \in Signals /\ mi' \in Dev
      /\ dbus_pc' \in DbusPcs /\ dbus_dev' \in Dev /\ dbus_act' \in 0 .. NRules
    BY NRulesNat DEF TypeInv, TypeOK, SaneWake, MainPcs, Signals, DbusPcs,
                     pollVars, mainVars, dbusVars
<1>2. UNCHANGED <<pc, si, cancel_enabled, num_scripts, value>>
    BY DEF SaneWake, pollVars
<1>3. QED
    BY <1>1, <1>2, OtherStepTypeInv

(* The device lock, range check and trigger (sane.c:1229-1263).         *)
LEMMA TrigLockDevTypeInv ==
    ASSUME TypeInv, TrigLockDev
    PROVE  TypeInv'
<1>a. /\ triggered \in [Dev -> BOOLEAN] /\ triggered_option \in [Dev -> -1 .. NRules]
      /\ dbus_dev \in Dev /\ dbus_act \in 0 .. NRules
      /\ sane_mutex \in {"none", "main", "dbus"}
      /\ num_scripts \in [Dev -> 0 .. NRules]
    BY DEF TypeInv, TypeOK
<1>b. /\ triggered' \in [Dev -> BOOLEAN]
      /\ triggered_option' \in [Dev -> -1 .. NRules]
      /\ sane_mutex' \in {"none", "main", "dbus"} /\ dbus_pc' \in DbusPcs
  <2>1. CASE dbus_act >= num_scripts[dbus_dev]
      BY <1>a, <2>1 DEF TrigLockDev, DbusPcs
  <2>2. CASE ~(dbus_act >= num_scripts[dbus_dev]) /\ triggered[dbus_dev]
      BY <1>a, <2>2 DEF TrigLockDev, DbusPcs
  <2>3. CASE ~(dbus_act >= num_scripts[dbus_dev]) /\ ~triggered[dbus_dev]
    <3>1. SetTrigger
        BY <2>3 DEF TrigLockDev
    <3>2. QED
        BY <1>a, <3>1, NRulesNat DEF SetTrigger, DbusPcs
  <2>4. QED
      BY <2>1, <2>2, <2>3
<1>c. UNCHANGED <<proc, poll_threads, pc, si, h_open, cancel_enabled,
                 cancel_pending, num_scripts, value, dev_val, child,
                 scan_open, mainVars, dbus_dev, dbus_act>>
    BY DEF TrigLockDev, SetTrigger, DbusPcs
<1>1. /\ proc' \in {"run", "exit", "crash"}
      /\ sane_mutex' \in {"none", "main", "dbus"}
      /\ poll_threads' \in BOOLEAN
      /\ triggered' \in [Dev -> BOOLEAN]
      /\ triggered_option' \in [Dev -> -1 .. NRules]
      /\ h_open' \in [Dev -> BOOLEAN]
      /\ cancel_pending' \in [Dev -> BOOLEAN]
      /\ dev_val' \in [Dev -> [Options -> Values]]
      /\ child' \in [Dev -> BOOLEAN]
      /\ scan_open' \in [Dev -> BOOLEAN]
      /\ main_pc' \in MainPcs /\ main_sig' \in Signals /\ mi' \in Dev
      /\ dbus_pc' \in DbusPcs /\ dbus_dev' \in Dev /\ dbus_act' \in 0 .. NRules
    BY <1>b, <1>c DEF TypeInv, TypeOK, pollVars, mainVars, dbusVars
<1>2. UNCHANGED <<pc, si, cancel_enabled, num_scripts, value>>
    BY DEF TrigLockDev, SetTrigger, pollVars
<1>3. QED
    BY <1>1, <1>2, OtherStepTypeInv

(* sane_trigger_action woken on st->cv.                                 *)
LEMMA TrigWakeTypeInv ==
    ASSUME TypeInv, TrigWake
    PROVE  TypeInv'
<1>1. /\ proc' \in {"run", "exit", "crash"}
      /\ sane_mutex' \in {"none", "main", "dbus"}
      /\ poll_threads' \in BOOLEAN
      /\ triggered' \in [Dev -> BOOLEAN]
      /\ triggered_option' \in [Dev -> -1 .. NRules]
      /\ h_open' \in [Dev -> BOOLEAN]
      /\ cancel_pending' \in [Dev -> BOOLEAN]
      /\ dev_val' \in [Dev -> [Options -> Values]]
      /\ child' \in [Dev -> BOOLEAN]
      /\ scan_open' \in [Dev -> BOOLEAN]
      /\ main_pc' \in MainPcs /\ main_sig' \in Signals /\ mi' \in Dev
      /\ dbus_pc' \in DbusPcs /\ dbus_dev' \in Dev /\ dbus_act' \in 0 .. NRules
    BY NRulesNat DEF TypeInv, TypeOK, TrigWake, SetTrigger, MainPcs, Signals, DbusPcs,
                     pollVars, mainVars, dbusVars
<1>2. UNCHANGED <<pc, si, cancel_enabled, num_scripts, value>>
    BY DEF TrigWake, SetTrigger, pollVars
<1>3. QED
    BY <1>1, <1>2, OtherStepTypeInv

(* An option of a device changes.                                       *)
LEMMA PressTypeInv ==
    ASSUME TypeInv, NEW d \in Dev, NEW o \in Options, NEW v \in Values, Press(d, o, v)
    PROVE  TypeInv'
<1>1. /\ proc' \in {"run", "exit", "crash"}
      /\ sane_mutex' \in {"none", "main", "dbus"}
      /\ poll_threads' \in BOOLEAN
      /\ triggered' \in [Dev -> BOOLEAN]
      /\ triggered_option' \in [Dev -> -1 .. NRules]
      /\ h_open' \in [Dev -> BOOLEAN]
      /\ cancel_pending' \in [Dev -> BOOLEAN]
      /\ dev_val' \in [Dev -> [Options -> Values]]
      /\ child' \in [Dev -> BOOLEAN]
      /\ scan_open' \in [Dev -> BOOLEAN]
      /\ main_pc' \in MainPcs /\ main_sig' \in Signals /\ mi' \in Dev
      /\ dbus_pc' \in DbusPcs /\ dbus_dev' \in Dev /\ dbus_act' \in 0 .. NRules
    BY NRulesNat DEF TypeInv, TypeOK, Press, MainPcs, Signals, DbusPcs,
                     pollVars, mainVars, dbusVars
<1>2. UNCHANGED <<pc, si, cancel_enabled, num_scripts, value>>
    BY DEF Press, pollVars
<1>3. QED
    BY <1>1, <1>2, OtherStepTypeInv

(* A script child exits.                                                *)
LEMMA ChildExitTypeInv ==
    ASSUME TypeInv, NEW d \in Dev, ChildExit(d)
    PROVE  TypeInv'
<1>1. /\ proc' \in {"run", "exit", "crash"}
      /\ sane_mutex' \in {"none", "main", "dbus"}
      /\ poll_threads' \in BOOLEAN
      /\ triggered' \in [Dev -> BOOLEAN]
      /\ triggered_option' \in [Dev -> -1 .. NRules]
      /\ h_open' \in [Dev -> BOOLEAN]
      /\ cancel_pending' \in [Dev -> BOOLEAN]
      /\ dev_val' \in [Dev -> [Options -> Values]]
      /\ child' \in [Dev -> BOOLEAN]
      /\ scan_open' \in [Dev -> BOOLEAN]
      /\ main_pc' \in MainPcs /\ main_sig' \in Signals /\ mi' \in Dev
      /\ dbus_pc' \in DbusPcs /\ dbus_dev' \in Dev /\ dbus_act' \in 0 .. NRules
    BY NRulesNat DEF TypeInv, TypeOK, ChildExit, MainPcs, Signals, DbusPcs,
                     pollVars, mainVars, dbusVars
<1>2. UNCHANGED <<pc, si, cancel_enabled, num_scripts, value>>
    BY DEF ChildExit, pollVars
<1>3. QED
    BY <1>1, <1>2, OtherStepTypeInv

(* pthread_testcancel passed, the rule loop starts (sane.c:757-773).     *)
LEMMA TopTypeInv ==
    ASSUME TypeInv, NEW d \in Dev, Top(d) PROVE TypeInv'
<1>1. /\ pc \in [Dev -> PollPcs]
      /\ si \in [Dev -> 0 .. NRules]
      /\ cancel_enabled \in [Dev -> BOOLEAN]
      /\ num_scripts \in [Dev -> 0 .. NRules]
    BY DEF TypeInv, TypeOK
<1>2. /\ pc' \in [Dev -> PollPcs]
      /\ si' \in [Dev -> 0 .. NRules]
      /\ cancel_enabled' \in [Dev -> BOOLEAN]
      /\ pc'[d] = "check" => si'[d] \in 0 .. num_scripts[d] - 1
      /\ \A e \in Dev \ {d} : pc'[e] = pc[e] /\ si'[e] = si[e]
    BY <1>1, NRulesNat DEF Top, PollPcs
<1>3. UNCHANGED <<proc, triggered, triggered_option, h_open, cancel_pending,
                 num_scripts, value, child, scan_open, otherVars>>
    BY DEF Top
<1>4. TypeOK'
    BY <1>2, <1>3 DEF TypeInv, TypeOK, otherVars
<1>5. CheckIndexValid'
    BY <1>1, <1>2, <1>3 DEF TypeInv, CheckIndexValid
<1>6. QED
    BY <1>4, <1>5 DEF TypeInv

(* A step of the main thread that runs start_sane_threads.               *)
LEMMA ResetStepTypeInv ==
    ASSUME TypeInv, FreshSlots,
           proc' \in {"run", "exit", "crash"},
           sane_mutex' \in {"none", "main", "dbus"},
           poll_threads' \in BOOLEAN,
           main_pc' \in MainPcs,
           UNCHANGED <<dev_val, child, scan_open, main_sig, mi, dbusVars>>
    PROVE  TypeInv'
<1>1. /\ pc' \in [Dev -> PollPcs]
      /\ si' \in [Dev -> 0 .. NRules]
      /\ triggered' \in [Dev -> BOOLEAN]
      /\ triggered_option' \in [Dev -> -1 .. NRules]
      /\ h_open' \in [Dev -> BOOLEAN]
      /\ cancel_enabled' \in [Dev -> BOOLEAN]
      /\ cancel_pending' \in [Dev -> BOOLEAN]
      /\ num_scripts' \in [Dev -> 0 .. NRules]
      /\ value' \in [Dev -> [RuleIdx -> Values]]
      /\ CheckIndexValid'
    BY FreshSlotsTypeInv
<1>2. TypeOK'
    BY <1>1 DEF TypeInv, TypeOK, dbusVars
<1>3. QED
    BY <1>1, <1>2 DEF TypeInv

(* The handler locks sane_mutex; SIGUSR2 without pollers starts them     *)
(* (sane.c:1276-1278).                                                   *)
LEMMA MainLockTypeInv ==
    ASSUME TypeInv, MainLock PROVE TypeInv'
<1>1. CASE main_sig = "usr2" /\ ~poll_threads
    BY <1>1, ResetStepTypeInv DEF MainLock, StartThreads, TypeInv, TypeOK,
                                  MainPcs
<1>2. CASE ~(main_sig = "usr2" /\ ~poll_threads)
  <2>1. /\ proc' \in {"run", "exit", "crash"}
      /\ sane_mutex' \in {"none", "main", "dbus"}
      /\ poll_threads' \in BOOLEAN
      /\ triggered' \in [Dev -> BOOLEAN]
      /\ triggered_option' \in [Dev -> -1 .. NRules]
      /\ h_open' \in [Dev -> BOOLEAN]
      /\ cancel_pending' \in [Dev -> BOOLEAN]
      /\ dev_val' \in [Dev -> [Options -> Values]]
      /\ child' \in [Dev -> BOOLEAN]
      /\ scan_open' \in [Dev -> BOOLEAN]
      /\ main_pc' \in MainPcs /\ main_sig' \in Signals /\ mi' \in Dev
      /\ dbus_pc' \in DbusPcs /\ dbus_dev' \in Dev /\ dbus_act' \in 0 .. NRules
      BY <1>2, NRulesNat DEF MainLock, TypeInv, TypeOK, MainPcs, pollVars,
                             dbusVars
  <2>2. UNCHANGED <<pc, si, cancel_enabled, num_scripts, value>>
      BY <1>2 DEF MainLock, pollVars
  <2>3. QED
      BY <2>1, <2>2, OtherStepTypeInv
<1>3. QED
    BY <1>1, <1>2

(* The end of stop_sane_threads and the rest of the handler              *)
(* (sane.c:1415-1427, scanbd.c:139-188).                                 *)
LEMMA StopDoneTypeInv ==
    ASSUME TypeInv, StopDone PROVE TypeInv'
<1>1. CASE main_sig = "usr2"
    BY <1>1, ResetStepTypeInv DEF StopDone, StartThreads, TypeInv, TypeOK,
                                  MainPcs
<1>2. CASE main_sig # "usr2"
  <2>1. /\ proc' \in {"run", "exit", "crash"}
      /\ sane_mutex' \in {"none", "main", "dbus"}
      /\ poll_threads' \in BOOLEAN
      /\ triggered' \in [Dev -> BOOLEAN]
      /\ triggered_option' \in [Dev -> -1 .. NRules]
      /\ h_open' \in [Dev -> BOOLEAN]
      /\ cancel_pending' \in [Dev -> BOOLEAN]
      /\ dev_val' \in [Dev -> [Options -> Values]]
      /\ child' \in [Dev -> BOOLEAN]
      /\ scan_open' \in [Dev -> BOOLEAN]
      /\ main_pc' \in MainPcs /\ main_sig' \in Signals /\ mi' \in Dev
      /\ dbus_pc' \in DbusPcs /\ dbus_dev' \in Dev /\ dbus_act' \in 0 .. NRules
      BY <1>2, NRulesNat DEF StopDone, TypeInv, TypeOK, MainPcs, pollVars,
                             dbusVars
  <2>2. UNCHANGED <<pc, si, cancel_enabled, num_scripts, value>>
      BY <1>2 DEF StopDone, pollVars
  <2>3. QED
      BY <2>1, <2>2, OtherStepTypeInv
<1>3. QED
    BY <1>1, <1>2

(* The start_sane_threads of the SIGHUP handler (scanbd.c:145).          *)
LEMMA StartLockTypeInv ==
    ASSUME TypeInv, StartLock PROVE TypeInv'
BY ResetStepTypeInv DEF StartLock, StartThreads, TypeInv, TypeOK, MainPcs

(* Every step keeps the types and a checked rule index in range.         *)
LEMMA NextTypeInv == TypeInv /\ [Next]_vars => TypeInv'
<1> SUFFICES ASSUME TypeInv, [Next]_vars PROVE TypeInv'
    OBVIOUS
<1>1. ASSUME NEW d \in Dev, Poller(d) PROVE TypeInv'
    BY <1>1, StartupTypeInv, TopTypeInv, CheckTypeInv, BeginTypeInv,
       TrigSigTypeInv, PreForkTypeInv, WaitChildTypeInv, ClearTypeInv,
       SettleTypeInv, ScanEndTypeInv, ReopenTypeInv, SleepTypeInv,
       CancelTypeInv DEF Poller
<1>2. CASE MainStep
    BY <1>2, SignalArrivesTypeInv, MainLockTypeInv, StopEnterTypeInv,
       StopCheckTypeInv, StopCancelTypeInv, StopJoinTypeInv,
       StopDoneTypeInv, StartLockTypeInv, TermNestedTypeInv DEF MainStep
<1>3. CASE DbusStep
    BY <1>3, TriggerCallTypeInv, SaneWakeTypeInv, TrigLockDevTypeInv,
       TrigWakeTypeInv DEF DbusStep
<1>4. CASE EnvStep
    BY <1>4, PressTypeInv, ChildExitTypeInv DEF EnvStep
<1>5. CASE Halted \/ UNCHANGED vars
    BY <1>5 DEF Halted, vars, pollVars, TypeInv, TypeOK, CheckIndexValid
<1>6. QED
    BY <1>1, <1>2, <1>3, <1>4, <1>5 DEF Next

(* Type correctness of the thread machinery: every reachable state gives *)
(* each variable of the pollers, the signal handlers and the D-Bus       *)
(* trigger the type of the C object it models, for every number of       *)
(* devices and every rule array.                                          *)
THEOREM TypeCorrect == Spec => []TypeOK
<1>1. Init => TypeInv
    BY InitTypeInv
<1>2. TypeInv /\ [Next]_vars => TypeInv'
    BY NextTypeInv
<1>3. TypeInv => TypeOK
    BY DEF TypeInv
<1>4. QED
    BY <1>1, <1>2, <1>3, PTL DEF Spec

====
