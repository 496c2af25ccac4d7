------------------------- MODULE RuleCompilerOverride -------------------------
(***************************************************************************)
(* Proof that the rule compiler implements the rule-array contract        *)
(* RuleArray under rules <- opts, multi <- multiple, for every number of  *)
(* options, every configuration and every outcome of regcomp and regexec. *)
(* Only a write of the option loop (Install) changes the array; the      *)
(* dedupe loop of sane.c:491-514 ends at the option's slot (an Override)  *)
(* or one past the end (an Add, which the test at 520 keeps within        *)
(* num_of_options, and which without multiple_actions happens only for an *)
(* option no slot has).                                                   *)
(***************************************************************************)
EXTENDS RuleCompilerProofs

(* Every step other than a pass of the action's option loop leaves the    *)
(* rule array and the flag alone.                                         *)
LEMMA OtherStepsKeepOpts ==
    ASSUME [Next]_vars, ~ActionOpt PROVE UNCHANGED <<opts, multiple>>
BY DEF Next, vars, cfgVars, ActionBegin, ActionOptEnd, ActionsEnd,
       FunctionBegin, FunctionOpt, FunctionOptEnd, FunctionsEnd,
       EnterSection, SectionsEnd, Finished

-----------------------------------------------------------------------------
(* Refinement of RuleArray.                                               *)

(* Whatever multiple_actions says, the dedupe loop ends at a slot of the  *)
(* option or one past the array's end; without it, past the end only when *)
(* the option has no rule.                                                *)
LEMMA OptSlotFacts ==
    ASSUME NEW s \in Seq(RuleRecords), NEW o
    PROVE  /\ OptSlot(s, o) \in 1 .. Len(s) + 1
           /\ OptSlot(s, o) <= Len(s) => s[OptSlot(s, o)].number = o
           /\ ~multiple /\ OptSlot(s, o) = Len(s) + 1
                  => \A i \in 1 .. Len(s) : s[i].number # o
<1>1. /\ FirstWithNumber(s, o) \in 0 .. Len(s) /\ Len(s) \in Nat
      /\ FirstWithNumber(s, o) # 0 => s[FirstWithNumber(s, o)].number = o
      /\ FirstWithNumber(s, o) = 0 => \A i \in 1 .. Len(s) : s[i].number # o
    BY SelectNumber, LenProperties
<1>2. QED
    BY <1>1 DEF OptSlot

(* A write of the option loop is a RuleArray step: a stutter when the     *)
(* array is full or a half-built string rule is dropped, an Override when *)
(* the slot holds the option, an Add at the end otherwise.                *)
LEMMA InstallRefines ==
    ASSUME TypeOK, NEW a \in ActionCfgs, NEW o \in Options, Usable(o),
           opts' = Install(a, o), multiple' = multiple
    PROVE  [Rules!Next]_Rules!vars
<1> DEFINE n == OptSlot(opts, o)
           old == IF n <= Len(opts) THEN opts[n] ELSE FreshSlot
           r == RuleOf(a, o, old)
           rs == [r EXCEPT !.sfrom = "", !.sto = ""]
<1>1. opts \in Seq(RuleRecords) /\ Len(opts) \in Nat /\ Len(opts) <= NumOptions
    BY LenProperties DEF TypeOK
<1>2. /\ n \in 1 .. Len(opts) + 1
      /\ n <= Len(opts) => opts[n].number = o
      /\ ~multiple /\ n = Len(opts) + 1
             => \A i \in 1 .. Len(opts) : opts[i].number # o
    BY <1>1, OptSlotFacts
<1>3. r \in RuleRecords /\ rs \in RuleRecords /\ r.number = o /\ rs.number = o
  <2>1. old \in RuleRecords \cup {FreshSlot}
      BY <1>1, <1>2, ElementOfSeq
  <2>2. QED
      BY <2>1, RuleOfType DEF RuleOf
<1>4. ASSUME NEW x \in RuleRecords, n <= Len(opts), x.number = o,
             opts' = [opts EXCEPT ![n] = x]
      PROVE  Rules!Next
  <2>1. /\ n \in 1 .. Len(opts) /\ n \in DOMAIN opts' /\ opts'[n] = x
      BY <1>1, <1>2, <1>4
  <2>2. Rules!Override(n, opts'[n])
      BY <1>2, <1>4, <2>1 DEF Rules!Override
  <2>3. QED
      BY <2>1, <2>2 DEF Rules!Next
<1>5. CASE n = NumOptions + 1
    BY <1>5 DEF Install, Rules!vars
<1>6. CASE n # NumOptions + 1 /\ desc[o].type = "string" /\ ~StringValid(a)
  <2>1. CASE n <= Len(opts)
      BY <1>3, <1>6, <2>1, <1>4 DEF Install
  <2>2. CASE ~(n <= Len(opts))
      BY <1>6, <2>2 DEF Install, Rules!vars
  <2>3. QED
      BY <2>1, <2>2
<1>7. CASE n # NumOptions + 1 /\ ~(desc[o].type = "string" /\ ~StringValid(a))
  <2>1. opts' = Store(opts, n, r)
      BY <1>7 DEF Install
  <2>2. CASE n = Len(opts) + 1
    <3>1. opts' = Append(opts, r)
        BY <2>1, <2>2 DEF Store
    <3>2. /\ Len(opts) + 1 \in DOMAIN opts'
          /\ opts'[Len(opts) + 1] = r
        BY <1>1, <3>1, AppendProperties
    <3>3. Len(opts) < NumOptions
        BY <1>1, <1>7, <2>2, NumOptionsPositive
    <3>4. multiple \/ \A i \in 1 .. Len(opts) : opts[i].number # r.number
        BY <1>2, <1>3, <2>2
    <3>5. Rules!Add(opts'[Len(opts) + 1])
        BY <1>3, <3>1, <3>2, <3>3, <3>4 DEF Rules!Add
    <3>6. QED
        BY <3>2, <3>5 DEF Rules!Next
  <2>3. CASE n # Len(opts) + 1
    <3>1. n <= Len(opts)
        BY <1>1, <1>2, <2>3
    <3>2. opts' = [opts EXCEPT ![n] = r]
        BY <2>1, <2>3 DEF Store
    <3>3. QED
        BY <1>3, <3>1, <3>2, <1>4
  <2>4. QED
      BY <2>2, <2>3
<1>8. QED
    BY <1>5, <1>6, <1>7

LEMMA NextRefinesRules ==
    IInv /\ [Next]_vars => [Rules!Next]_Rules!vars
<1> SUFFICES ASSUME IInv, [Next]_vars PROVE [Rules!Next]_Rules!vars
    OBVIOUS
<1>1. CASE ActionOpt
  <2> DEFINE a == Section(sec).actions[item]
  <2>1. a \in ActionCfgs /\ opt \in Options /\ multiple' = multiple
      BY <1>1, CurrentAction, NumOptionsPositive
         DEF IInv, TypeOK, ActionOpt, Options, cfgVars
  <2>2. CASE ~Usable(opt)
      BY <1>1, <2>2 DEF ActionOpt, Rules!vars, cfgVars
  <2>3. CASE Usable(opt)
    <3>1. PICK match \in Regexec(a.filter, desc[opt].name) :
             opts' = IF match THEN Install(a, opt) ELSE opts
        BY <1>1, <2>3 DEF ActionOpt
    <3>2. CASE match
        BY <2>1, <2>3, <3>1, <3>2, InstallRefines DEF IInv
    <3>3. CASE ~match
        BY <2>1, <3>1, <3>3 DEF Rules!vars
    <3>4. QED
        BY <3>2, <3>3
  <2>4. QED
      BY <2>2, <2>3
<1>2. CASE ~ActionOpt
    BY <1>2, OtherStepsKeepOpts DEF Rules!vars
<1>3. QED
    BY <1>1, <1>2

(* The rule compiler keeps the contract of the rule array (RuleArray):    *)
(* a rule already compiled gives way only to a rule for the same option   *)
(* in its slot, and a rule is appended only while the num_of_options      *)
(* calloc'd entries have room and, without multiple_actions, only for an  *)
(* option that has no rule; for every number of options, configuration    *)
(* and outcome of regcomp and regexec (sane.c:491-596).                   *)
THEOREM RuleArrayRefinement == Spec => RuleArrayRefined
<1>1. Init => IInv /\ Rules!Init
    BY InitIInv DEF Init, Rules!Init
<1>2. IInv /\ [Next]_vars => IInv'
    BY NextIInv
<1>3. IInv /\ [Next]_vars => [Rules!Next]_Rules!vars
    BY NextRefinesRules
<1>4. QED
    BY <1>1, <1>2, <1>3, PTL DEF Spec, RuleArrayRefined, Rules!Spec
=============================================================================
