------------------------- MODULE RuleCompilerProofs -------------------------
(***************************************************************************)
(* Proofs about the rule compiler, for every number of options, every     *)
(* configuration and every outcome of regcomp and regexec.               *)
(***************************************************************************)
EXTENDS RuleCompiler, NatLemmas, FunctionTheorems, SequenceTheorems, TLAPS

SectionRecords == [actions : Seq(ActionCfgs), functions : Seq(FunctionCfgs)]
DevSectionRecords ==
    [filter : DevFilters, actions : Seq(ActionCfgs), functions : Seq(FunctionCfgs)]
InitDevSectionRecords ==
    [filter : DevFilters, actions : BoundedSeq(ActionCfgs, MaxActions),
     functions : BoundedSeq(FunctionCfgs, MaxFunctions)]

(* The configuration keeps the shape Init gave it.                        *)
CfgOK ==
    /\ desc \in [Options -> DescChoices]
    /\ global \in SectionRecords
    /\ devSecs \in Seq(DevSectionRecords)
    /\ multiple \in BOOLEAN

(* Inside a loop the indices name a section, an action or a function.    *)
LoopOK ==
    /\ phase \in {"action", "actionOpt", "function", "functionOpt"}
           => sec \in 0 .. Len(devSecs)
    /\ phase = "actionOpt" => item \in 1 .. Len(Section(sec).actions)
    /\ phase = "functionOpt" => item \in 1 .. Len(Section(sec).functions)
    /\ phase = "section" => sec \in 1 .. Len(devSecs) + 1

(* The function array holds each option at most once: its dedupe loop   *)
(* (364-371) finds an option that is already there.                      *)
FuncsDistinct ==
    \A i, j \in 1 .. Len(funcs) : funcs[i].number = funcs[j].number => i = j

(* The inductive invariant.  TypeOK alone is not inductive: the bound on  *)
(* the function array rests on FuncsDistinct, and the writes of the      *)
(* option loops on LoopOK.                                                *)
IInv == TypeOK /\ CfgOK /\ LoopOK /\ FuncsDistinct

-----------------------------------------------------------------------------
(* The assumptions on the constants, one by one.                          *)
LEMMA NumOptionsPositive == NumOptions \in Nat \ {0}
BY RuleCompilerAssumption, Zenon

LEMMA BoundsNat == {MaxActions, MaxFunctions, MaxSections} \subseteq Nat
BY RuleCompilerAssumption, Zenon

LEMMA ActionPatterns ==
    \A a \in ActionCfgs : {a.filter, a.sfrom, a.sto} \subseteq Filters
BY RuleCompilerAssumption, Zenon

LEMMA NullScriptNonEmpty == NullScript # ""
BY RuleCompilerAssumption, Zenon

(* Lemmas on the helpers                                                  *)

(* The index the dedupe loops find: 0 when no entry has option o, the     *)
(* first entry with option o otherwise.                                   *)
LEMMA SelectNumber ==
    ASSUME NEW S, NEW s \in Seq(S), NEW o
    PROVE  /\ FirstWithNumber(s, o) \in 0 .. Len(s)
           /\ FirstWithNumber(s, o) # 0 => s[FirstWithNumber(s, o)].number = o
           /\ FirstWithNumber(s, o) = 0 => \A i \in 1 .. Len(s) : s[i].number # o
<1> DEFINE I == {i \in 1 .. Len(s) : s[i].number = o}
<1>1. FirstWithNumber(s, o) = IF I # {} THEN Min(I) ELSE 0
    BY DEF FirstWithNumber, SelectInSeq
<1>2. CASE I = {}
    BY <1>1, <1>2
<1>3. CASE I # {}
  <2>0. I \in SUBSET Nat
      OBVIOUS
  <2>1. \E x \in I : \A y \in I : x =< y
      BY <1>3, <2>0, NatSubsetHasMin
  <2>2. Min(I) \in I
      BY <2>1 DEF Min
  <2>3. QED
      BY <1>1, <1>3, <2>2
<1>4. QED
    BY <1>2, <1>3

(* A sequence of bounded length is a sequence.                            *)
LEMMA BoundedSeqIsSeq ==
    ASSUME NEW S, NEW n \in Nat
    PROVE  BoundedSeq(S, n) \subseteq Seq(S)
BY DEF BoundedSeq, SeqOf

(* A sequence of function entries with distinct options has at most one   *)
(* entry per option.                                                      *)
LEMMA DistinctFitsOptions ==
    ASSUME NEW s \in Seq(FunctionRecords),
           \A i, j \in 1 .. Len(s) : s[i].number = s[j].number => i = j
    PROVE  Len(s) <= NumOptions - 1
<1> DEFINE g == [i \in 1 .. Len(s) |-> s[i].number]
<1>1. NumOptions - 1 \in Nat /\ Len(s) \in Nat
    BY NumOptionsPositive, LenProperties
<1>2. g \in [1 .. Len(s) -> 1 .. NumOptions - 1]
  <2>1. \A i \in 1 .. Len(s) : s[i] \in FunctionRecords
      BY ElementOfSeq
  <2>2. QED
      BY <2>1 DEF FunctionRecords, Options
<1>3. IsInjective(g)
    BY DEF IsInjective
<1>4. ExistsInjection(1 .. Len(s), 1 .. NumOptions - 1)
    BY <1>2, <1>3, Zenon DEF ExistsInjection, Injection
<1>5. QED
    BY <1>1, <1>4, Fun_NatInjLeq

(* The section being compiled has the shape of a section.                 *)
LEMMA SectionShape ==
    ASSUME CfgOK, NEW k \in 0 .. Len(devSecs)
    PROVE  /\ Section(k).actions \in Seq(ActionCfgs)
           /\ Section(k).functions \in Seq(FunctionCfgs)
<1>1. CASE k = 0
    BY <1>1 DEF CfgOK, Section, SectionRecords
<1>2. CASE k # 0
  <2>1. devSecs \in Seq(DevSectionRecords)
      BY DEF CfgOK
  <2>2. devSecs[k] \in DevSectionRecords
      BY <1>2, <2>1, ElementOfSeq
  <2>3. QED
      BY <1>2, <2>2 DEF Section, DevSectionRecords
<1>3. QED
    BY <1>1, <1>2

-----------------------------------------------------------------------------
LEMMA InitIInv == Init => IInv
<1> SUFFICES ASSUME Init PROVE IInv
    OBVIOUS
<1>1. CfgOK
  <2>1. {MaxActions, MaxFunctions, MaxSections} \subseteq Nat
      BY BoundsNat
  <2>2. global \in SectionRecords
      BY <2>1, BoundedSeqIsSeq DEF Init, SectionRecords
  <2>3. devSecs \in Seq(InitDevSectionRecords)
    <3>1. devSecs \in BoundedSeq(InitDevSectionRecords, MaxSections)
        BY DEF Init, InitDevSectionRecords
    <3>2. QED
        BY <2>1, <3>1, BoundedSeqIsSeq
  <2>4. InitDevSectionRecords \subseteq DevSectionRecords
      BY <2>1, BoundedSeqIsSeq DEF InitDevSectionRecords, DevSectionRecords
  <2>5. devSecs \in Seq(DevSectionRecords)
      BY <2>3, <2>4, <2>1, BoundedSeqIsSeq, SeqMonotonic
  <2>6. QED
      BY <2>2, <2>5 DEF Init, CfgOK
<1>2. TypeOK
  <2>1. Len(devSecs) \in Nat
      BY <1>1, LenProperties DEF CfgOK
  <2>2. << >> \in Seq(RuleRecords) /\ << >> \in Seq(FunctionRecords)
      BY EmptySeq
  <2>3. /\ phase = "action" /\ sec = 0 /\ item = 1 /\ opt = 1
        /\ opts = << >> /\ funcs = << >> /\ execBad = FALSE
      BY DEF Init
  <2>4. Len(<< >>) = 0
      BY EmptySeq
  <2>5. phase \in {"action", "actionOpt", "function", "functionOpt", "section", "done"}
      BY <2>3
  <2>6. sec \in 0 .. Len(devSecs) + 1 /\ item \in Nat \ {0}
      BY <2>1, <2>3
  <2>7. opt \in 1 .. NumOptions
      BY <2>3, NumOptionsPositive
  <2>8. opts \in Seq(RuleRecords) /\ Len(opts) <= NumOptions
      BY <2>2, <2>3, <2>4, NumOptionsPositive
  <2>9. funcs \in Seq(FunctionRecords) /\ Len(funcs) <= NumOptions
      BY <2>2, <2>3, <2>4, NumOptionsPositive
  <2>10. execBad \in BOOLEAN
      BY <2>3
  <2>11. QED
      BY <2>5, <2>6, <2>7, <2>8, <2>9, <2>10 DEF TypeOK
<1>3. QED
    BY <1>1, <1>2 DEF Init, IInv, LoopOK, FuncsDistinct

-----------------------------------------------------------------------------
(* Facts every step uses.                                                 *)

(* regcomp never returns a negative value, so the tests ret < 0 of sane.c *)
(* (310, 426, 728) never skip a filter.                                   *)
LEMMA RegcompNeverNegative == \A f : ~(RegcompRet(f) < 0)
BY DEF RegcompRet

(* No step changes the configuration.                                     *)
LEMMA CfgFrame ==
    ASSUME CfgOK, UNCHANGED cfgVars
    PROVE  CfgOK' /\ Len(devSecs') = Len(devSecs)
BY DEF CfgOK, cfgVars

(* TypeOK of the next state from its conjuncts.                          *)
LEMMA TypeOKIntro ==
    ASSUME phase' \in {"action", "actionOpt", "function", "functionOpt", "section", "done"},
           sec' \in 0 .. Len(devSecs') + 1, item' \in Nat \ {0},
           opt' \in 1 .. NumOptions,
           opts' \in Seq(RuleRecords), Len(opts') <= NumOptions,
           funcs' \in Seq(FunctionRecords), Len(funcs') <= NumOptions,
           execBad' \in BOOLEAN
    PROVE  TypeOK'
BY DEF TypeOK

(* A step that stays in the same loop at the same place keeps LoopOK.    *)
LEMMA LoopFrame ==
    ASSUME LoopOK, UNCHANGED <<cfgVars, sec, phase, item>>
    PROVE  LoopOK'
<1>1. Section(sec)' = Section(sec)
    BY DEF Section, cfgVars
<1>2. QED
    BY <1>1 DEF LoopOK, cfgVars

(* Inside the option loop of an action, the action is one of the          *)
(* configuration's.                                                       *)
LEMMA CurrentAction ==
    ASSUME IInv, phase = "actionOpt"
    PROVE  Section(sec).actions[item] \in ActionCfgs
<1>1. sec \in 0 .. Len(devSecs) /\ item \in 1 .. Len(Section(sec).actions)
    BY DEF IInv, LoopOK
<1>2. Section(sec).actions \in Seq(ActionCfgs)
    BY <1>1, SectionShape DEF IInv
<1>3. QED
    BY <1>1, <1>2, ElementOfSeq

LEMMA CurrentFunction ==
    ASSUME IInv, phase = "functionOpt"
    PROVE  Section(sec).functions[item] \in FunctionCfgs
<1>1. sec \in 0 .. Len(devSecs) /\ item \in 1 .. Len(Section(sec).functions)
    BY DEF IInv, LoopOK
<1>2. Section(sec).functions \in Seq(FunctionCfgs)
    BY <1>1, SectionShape DEF IInv
<1>3. QED
    BY <1>1, <1>2, ElementOfSeq

(* The dedupe loop of the rule array finds a slot of the array or the    *)
(* one past its end.                                                      *)
LEMMA OptSlotRange ==
    ASSUME NEW s \in Seq(RuleRecords), NEW o
    PROVE  OptSlot(s, o) \in 1 .. Len(s) + 1
<1>1. FirstWithNumber(s, o) \in 0 .. Len(s) /\ Len(s) \in Nat
    BY SelectNumber, LenProperties
<1>2. QED
    BY <1>1 DEF OptSlot

(* The rule written for a usable option is a rule, before and after its   *)
(* string values are freed.                                               *)
LEMMA RuleOfType ==
    ASSUME NEW a \in ActionCfgs, NEW o \in Options, Usable(o),
           NEW old \in RuleRecords \cup {FreshSlot}
    PROVE  /\ RuleOf(a, o, old) \in RuleRecords
           /\ [RuleOf(a, o, old) EXCEPT !.sfrom = "", !.sto = ""] \in RuleRecords
<1>1. desc[o].type \in OptionTypes
    BY DEF Usable
<1>2. old.nfrom \in NumValues /\ old.nto \in NumValues
  <2>1. CASE old \in RuleRecords
      BY <2>1 DEF RuleRecords
  <2>2. CASE old = FreshSlot
      BY <2>2 DEF FreshSlot, NumValues
  <2>3. QED
      BY <2>1, <2>2
<1>3. a.nfrom \in NumValues /\ a.nto \in NumValues
    BY DEF NumValues
<1>4. a.sfrom \in Filters /\ a.sto \in Filters
    BY ActionPatterns
<1>5. (IF a.script = "" THEN NullScript ELSE a.script)
         \in ({x.script : x \in ActionCfgs} \ {""}) \cup {NullScript}
    OBVIOUS
<1>6. RuleOf(a, o, old) \in RuleRecords
    BY <1>1, <1>2, <1>3, <1>4, <1>5 DEF RuleOf, RuleRecords, OptionTypes
<1>7. QED
    BY <1>6 DEF RuleRecords

(* Writing a rule keeps the rule array within its num_of_options slots:  *)
(* the capacity test at 520.                                              *)
LEMMA InstallType ==
    ASSUME TypeOK, NEW a \in ActionCfgs, NEW o \in Options, Usable(o)
    PROVE  Install(a, o) \in Seq(RuleRecords) /\ Len(Install(a, o)) <= NumOptions
<1> DEFINE n == OptSlot(opts, o)
           old == IF n <= Len(opts) THEN opts[n] ELSE FreshSlot
           r == RuleOf(a, o, old)
<1>1. opts \in Seq(RuleRecords) /\ Len(opts) <= NumOptions /\ Len(opts) \in Nat
    BY LenProperties DEF TypeOK
<1>2. n \in 1 .. Len(opts) + 1
    BY <1>1, OptSlotRange
<1>3. old \in RuleRecords \cup {FreshSlot}
    BY <1>1, <1>2, ElementOfSeq
<1>4. r \in RuleRecords /\ [r EXCEPT !.sfrom = "", !.sto = ""] \in RuleRecords
    BY <1>3, RuleOfType
<1>5. CASE n = NumOptions + 1
    BY <1>1, <1>5 DEF Install
<1>6. CASE n # NumOptions + 1 /\ desc[o].type = "string" /\ ~StringValid(a)
  <2>1. CASE n <= Len(opts)
      BY <1>1, <1>2, <1>4, <1>6, <2>1, ExceptSeq DEF Install
  <2>2. CASE ~(n <= Len(opts))
      BY <1>1, <1>6, <2>2 DEF Install
  <2>3. QED
      BY <2>1, <2>2
<1>7. CASE n # NumOptions + 1 /\ ~(desc[o].type = "string" /\ ~StringValid(a))
  <2>1. Install(a, o) = Store(opts, n, r)
      BY <1>7 DEF Install
  <2>2. CASE n = Len(opts) + 1
    <3>1. Len(opts) + 1 <= NumOptions
        BY <1>1, <1>7, <2>2, NumOptionsPositive
    <3>2. QED
        BY <1>1, <1>4, <2>1, <2>2, <3>1, AppendProperties DEF Store
  <2>3. CASE n # Len(opts) + 1
      BY <1>1, <1>2, <1>4, <2>1, <2>3, ExceptSeq DEF Store
  <2>4. QED
      BY <2>2, <2>3
<1>8. QED
    BY <1>5, <1>6, <1>7, Zenon

(* The dedupe loop of the function array (364-371) keeps one entry per   *)
(* option: a new entry has an option no entry has, an override keeps the *)
(* option of the entry it replaces.                                       *)
LEMMA FunctionStoreDistinct ==
    ASSUME NEW s \in Seq(FunctionRecords),
           \A i, j \in 1 .. Len(s) : s[i].number = s[j].number => i = j,
           NEW e \in FunctionRecords
    PROVE  LET t == Store(s, FunctionSlot(s, e.number), e)
           IN  /\ t \in Seq(FunctionRecords)
               /\ \A i, j \in 1 .. Len(t) : t[i].number = t[j].number => i = j
<1> DEFINE found == FirstWithNumber(s, e.number)
           t == Store(s, FunctionSlot(s, e.number), e)
<1>1. /\ found \in 0 .. Len(s) /\ Len(s) \in Nat
      /\ found # 0 => s[found].number = e.number
      /\ found = 0 => \A i \in 1 .. Len(s) : s[i].number # e.number
    BY SelectNumber, LenProperties
<1>2. CASE found = 0
  <2>1. t = Append(s, e)
      BY <1>2 DEF Store, FunctionSlot
  <2>2. /\ Append(s, e) \in Seq(FunctionRecords)
        /\ Len(Append(s, e)) = Len(s) + 1
        /\ \A i \in 1 .. Len(s) : Append(s, e)[i] = s[i]
        /\ Append(s, e)[Len(s) + 1] = e
      BY AppendProperties
  <2>3. QED
      BY <1>1, <1>2, <2>1, <2>2
<1>3. CASE found # 0
  <2>1. t = [s EXCEPT ![found] = e]
      BY <1>1, <1>3 DEF Store, FunctionSlot
  <2>2. /\ [s EXCEPT ![found] = e] \in Seq(FunctionRecords)
        /\ Len([s EXCEPT ![found] = e]) = Len(s)
        /\ \A j \in 1 .. Len(s) :
              [s EXCEPT ![found] = e][j] = IF j = found THEN e ELSE s[j]
      BY <1>1, <1>3, ExceptSeq
  <2>3. \A j \in 1 .. Len(s) : t[j].number = s[j].number
      BY <1>1, <1>3, <2>1, <2>2
  <2>4. QED
      BY <2>1, <2>2, <2>3
<1>4. QED
    BY <1>2, <1>3

-----------------------------------------------------------------------------
(* The action loop.                                                       *)

LEMMA ActionBeginIInv == IInv /\ ActionBegin => IInv'
<1> SUFFICES ASSUME IInv, ActionBegin PROVE IInv'
    OBVIOUS
<1>1. CfgOK' /\ Len(devSecs') = Len(devSecs)
    BY CfgFrame DEF IInv, ActionBegin
<1>2. ~(RegcompRet(Section(sec).actions[item].filter) < 0)
    BY RegcompNeverNegative
<1>3. /\ phase' = "actionOpt" /\ opt' = 1 /\ item' = item /\ sec' = sec
      /\ UNCHANGED <<cfgVars, opts, funcs, execBad>>
    BY <1>2 DEF ActionBegin
<1>4. sec \in 0 .. Len(devSecs)
    BY DEF IInv, LoopOK, ActionBegin
<1>5. item \in 1 .. Len(Section(sec).actions)
    BY DEF IInv, TypeOK, ActionBegin
<1>6. TypeOK'
    BY <1>1, <1>3, NumOptionsPositive DEF IInv, TypeOK
<1>7. LoopOK'
    BY <1>3, <1>4, <1>5 DEF LoopOK, cfgVars, Section
<1>8. FuncsDistinct'
    BY <1>3 DEF IInv, FuncsDistinct
<1>9. QED
    BY <1>1, <1>6, <1>7, <1>8 DEF IInv

LEMMA ActionOptEndIInv == IInv /\ ActionOptEnd => IInv'
<1> SUFFICES ASSUME IInv, ActionOptEnd PROVE IInv'
    OBVIOUS
<1>1. CfgOK' /\ Len(devSecs') = Len(devSecs)
    BY CfgFrame DEF IInv, ActionOptEnd
<1>2. sec \in 0 .. Len(devSecs)
    BY DEF IInv, LoopOK, ActionOptEnd
<1>3. TypeOK'
    BY <1>1 DEF IInv, TypeOK, ActionOptEnd
<1>4. LoopOK'
    BY <1>2 DEF LoopOK, ActionOptEnd, cfgVars
<1>5. FuncsDistinct'
    BY DEF IInv, FuncsDistinct, ActionOptEnd
<1>6. QED
    BY <1>1, <1>3, <1>4, <1>5 DEF IInv

LEMMA ActionsEndIInv == IInv /\ ActionsEnd => IInv'
<1> SUFFICES ASSUME IInv, ActionsEnd PROVE IInv'
    OBVIOUS
<1>1. CfgOK' /\ Len(devSecs') = Len(devSecs)
    BY CfgFrame DEF IInv, ActionsEnd
<1>2. sec \in 0 .. Len(devSecs)
    BY DEF IInv, LoopOK, ActionsEnd
<1>3. TypeOK'
    BY <1>1 DEF IInv, TypeOK, ActionsEnd
<1>4. LoopOK'
    BY <1>2 DEF LoopOK, ActionsEnd, cfgVars
<1>5. FuncsDistinct'
    BY DEF IInv, FuncsDistinct, ActionsEnd
<1>6. QED
    BY <1>1, <1>3, <1>4, <1>5 DEF IInv

LEMMA ActionOptIInv == IInv /\ ActionOpt => IInv'
<1> SUFFICES ASSUME IInv, ActionOpt PROVE IInv'
    OBVIOUS
<1> DEFINE a == Section(sec).actions[item]
<1>1. CfgOK' /\ Len(devSecs') = Len(devSecs)
    BY CfgFrame DEF IInv, ActionOpt
<1>2. a \in ActionCfgs
    BY CurrentAction DEF ActionOpt
<1>3. opt \in Options
    BY NumOptionsPositive DEF IInv, TypeOK, ActionOpt, Options
<1>4. /\ opts' \in Seq(RuleRecords) /\ Len(opts') <= NumOptions
      /\ execBad' \in BOOLEAN
  <2>1. CASE ~Usable(opt)
      BY <2>1 DEF IInv, TypeOK, ActionOpt
  <2>2. CASE Usable(opt)
    <3>1. PICK match \in Regexec(a.filter, desc[opt].name) :
             /\ execBad' = (execBad \/ a.filter \notin Compiles)
             /\ opts' = IF match THEN Install(a, opt) ELSE opts
        BY <2>2 DEF ActionOpt
    <3>2. Install(a, opt) \in Seq(RuleRecords) /\ Len(Install(a, opt)) <= NumOptions
        BY <1>2, <1>3, <2>2, InstallType DEF IInv
    <3>3. QED
        BY <3>1, <3>2 DEF IInv, TypeOK
  <2>3. QED
      BY <2>1, <2>2
<1>5. TypeOK'
  <2>1. opt' \in 1 .. NumOptions
      BY <1>3, NumOptionsPositive DEF ActionOpt, Options
  <2>2. QED
      BY <1>1, <1>4, <2>1, TypeOKIntro DEF IInv, TypeOK, ActionOpt
<1>6. LoopOK'
    BY LoopFrame DEF IInv, ActionOpt
<1>7. FuncsDistinct'
    BY DEF IInv, FuncsDistinct, ActionOpt
<1>8. QED
    BY <1>1, <1>5, <1>6, <1>7 DEF IInv

-----------------------------------------------------------------------------
(* The function loop.                                                     *)

LEMMA FunctionBeginIInv == IInv /\ FunctionBegin => IInv'
<1> SUFFICES ASSUME IInv, FunctionBegin PROVE IInv'
    OBVIOUS
<1>1. CfgOK' /\ Len(devSecs') = Len(devSecs)
    BY CfgFrame DEF IInv, FunctionBegin
<1>2. ~(RegcompRet(Section(sec).functions[item].filter) < 0)
    BY RegcompNeverNegative
<1>3. /\ phase' = "functionOpt" /\ opt' = 1 /\ item' = item /\ sec' = sec
      /\ UNCHANGED <<cfgVars, opts, funcs, execBad>>
    BY <1>2 DEF FunctionBegin
<1>4. sec \in 0 .. Len(devSecs)
    BY DEF IInv, LoopOK, FunctionBegin
<1>5. item \in 1 .. Len(Section(sec).functions)
    BY DEF IInv, TypeOK, FunctionBegin
<1>6. TypeOK'
    BY <1>1, <1>3, NumOptionsPositive DEF IInv, TypeOK
<1>7. LoopOK'
    BY <1>3, <1>4, <1>5 DEF LoopOK, cfgVars, Section
<1>8. FuncsDistinct'
    BY <1>3 DEF IInv, FuncsDistinct
<1>9. QED
    BY <1>1, <1>6, <1>7, <1>8 DEF IInv

LEMMA FunctionOptIInv == IInv /\ FunctionOpt => IInv'
<1> SUFFICES ASSUME IInv, FunctionOpt PROVE IInv'
    OBVIOUS
<1> DEFINE f == Section(sec).functions[item]
           e == [number |-> opt, env |-> f.env]
<1>1. CfgOK' /\ Len(devSecs') = Len(devSecs)
    BY CfgFrame DEF IInv, FunctionOpt
<1>2. f \in FunctionCfgs
    BY CurrentFunction DEF FunctionOpt
<1>3. opt \in Options
    BY NumOptionsPositive DEF IInv, TypeOK, FunctionOpt, Options
<1>4. e \in FunctionRecords /\ e.number = opt
    BY <1>2, <1>3 DEF FunctionRecords
<1>5. /\ funcs' \in Seq(FunctionRecords)
      /\ \A i, j \in 1 .. Len(funcs') : funcs'[i].number = funcs'[j].number => i = j
      /\ execBad' \in BOOLEAN
  <2>1. CASE ~Usable(opt)
      BY <2>1 DEF IInv, TypeOK, FuncsDistinct, FunctionOpt
  <2>2. CASE Usable(opt)
    <3>1. PICK match \in Regexec(f.filter, desc[opt].name) :
             /\ execBad' = (execBad \/ f.filter \notin Compiles)
             /\ funcs' = IF match THEN Store(funcs, FunctionSlot(funcs, opt), e)
                                   ELSE funcs
        BY <2>2 DEF FunctionOpt
    <3>2. LET t == Store(funcs, FunctionSlot(funcs, e.number), e)
          IN  /\ t \in Seq(FunctionRecords)
              /\ \A i, j \in 1 .. Len(t) : t[i].number = t[j].number => i = j
        BY <1>4, FunctionStoreDistinct DEF IInv, TypeOK, FuncsDistinct
    <3>3. QED
        BY <1>4, <3>1, <3>2 DEF IInv, TypeOK, FuncsDistinct
  <2>3. QED
      BY <2>1, <2>2
<1>6. Len(funcs') <= NumOptions
  <2>1. Len(funcs') <= NumOptions - 1
      BY <1>5, DistinctFitsOptions
  <2>2. QED
      BY <2>1, NumOptionsPositive
<1>7. TypeOK'
  <2>1. opt' \in 1 .. NumOptions
      BY <1>3, NumOptionsPositive DEF FunctionOpt, Options
  <2>2. QED
      BY <1>1, <1>5, <1>6, <2>1, TypeOKIntro DEF IInv, TypeOK, FunctionOpt
<1>8. LoopOK'
    BY LoopFrame DEF IInv, FunctionOpt
<1>9. FuncsDistinct'
    BY <1>5 DEF FuncsDistinct
<1>10. QED
    BY <1>1, <1>7, <1>8, <1>9 DEF IInv

LEMMA FunctionOptEndIInv == IInv /\ FunctionOptEnd => IInv'
<1> SUFFICES ASSUME IInv, FunctionOptEnd PROVE IInv'
    OBVIOUS
<1>1. CfgOK' /\ Len(devSecs') = Len(devSecs)
    BY CfgFrame DEF IInv, FunctionOptEnd
<1>2. sec \in 0 .. Len(devSecs)
    BY DEF IInv, LoopOK, FunctionOptEnd
<1>3. TypeOK'
    BY <1>1 DEF IInv, TypeOK, FunctionOptEnd
<1>4. LoopOK'
    BY <1>2 DEF LoopOK, FunctionOptEnd, cfgVars
<1>5. FuncsDistinct'
    BY DEF IInv, FuncsDistinct, FunctionOptEnd
<1>6. QED
    BY <1>1, <1>3, <1>4, <1>5 DEF IInv

LEMMA FunctionsEndIInv == IInv /\ FunctionsEnd => IInv'
<1> SUFFICES ASSUME IInv, FunctionsEnd PROVE IInv'
    OBVIOUS
<1>1. CfgOK' /\ Len(devSecs') = Len(devSecs)
    BY CfgFrame DEF IInv, FunctionsEnd
<1>2. sec \in 0 .. Len(devSecs) /\ Len(devSecs) \in Nat
    BY LenProperties DEF IInv, LoopOK, CfgOK, FunctionsEnd
<1>3. TypeOK'
    BY <1>1, <1>2 DEF IInv, TypeOK, FunctionsEnd
<1>4. LoopOK'
    BY <1>1, <1>2 DEF LoopOK, FunctionsEnd, cfgVars
<1>5. FuncsDistinct'
    BY DEF IInv, FuncsDistinct, FunctionsEnd
<1>6. QED
    BY <1>1, <1>3, <1>4, <1>5 DEF IInv

-----------------------------------------------------------------------------
(* The section loop and the end.                                          *)

LEMMA EnterSectionIInv == IInv /\ EnterSection => IInv'
<1> SUFFICES ASSUME IInv, EnterSection PROVE IInv'
    OBVIOUS
<1> DEFINE f == devSecs[sec].filter
<1>1. CfgOK' /\ Len(devSecs') = Len(devSecs)
    BY CfgFrame DEF IInv, EnterSection
<1>2. sec \in 1 .. Len(devSecs) /\ Len(devSecs) \in Nat
    BY LenProperties DEF IInv, LoopOK, CfgOK, EnterSection
<1>3. ~(RegcompRet(f) < 0)
    BY RegcompNeverNegative
<1>4. PICK match \in Regexec(f, DevName) :
         /\ execBad' = (execBad \/ f \notin Compiles)
         /\ IF match
            THEN phase' = "action" /\ item' = 1 /\ UNCHANGED sec
            ELSE sec' = sec + 1 /\ UNCHANGED <<phase, item>>
    BY <1>3 DEF EnterSection
<1>5. UNCHANGED <<cfgVars, opt, opts, funcs>>
    BY DEF EnterSection
<1>6. CASE match
  <2>1. TypeOK'
      BY <1>1, <1>2, <1>4, <1>5, <1>6 DEF IInv, TypeOK
  <2>2. LoopOK'
      BY <1>2, <1>4, <1>5, <1>6 DEF LoopOK, cfgVars
  <2>3. QED
      BY <1>1, <1>5, <2>1, <2>2 DEF IInv, FuncsDistinct
<1>7. CASE ~match
  <2>1. TypeOK'
      BY <1>1, <1>2, <1>4, <1>5, <1>7 DEF IInv, TypeOK
  <2>2. phase' = "section" /\ sec' = sec + 1
      BY <1>4, <1>7 DEF EnterSection
  <2>3. LoopOK'
      BY <1>2, <1>5, <2>2 DEF LoopOK, cfgVars
  <2>4. QED
      BY <1>1, <1>5, <2>1, <2>3 DEF IInv, FuncsDistinct
<1>8. QED
    BY <1>6, <1>7

LEMMA SectionsEndIInv == IInv /\ SectionsEnd => IInv'
<1> SUFFICES ASSUME IInv, SectionsEnd PROVE IInv'
    OBVIOUS
<1>1. CfgOK' /\ Len(devSecs') = Len(devSecs)
    BY CfgFrame DEF IInv, SectionsEnd
<1>2. TypeOK'
    BY <1>1 DEF IInv, TypeOK, SectionsEnd
<1>3. LoopOK'
    BY DEF LoopOK, SectionsEnd
<1>4. QED
    BY <1>1, <1>2, <1>3 DEF IInv, FuncsDistinct, SectionsEnd

(* A step that changes nothing: Finished, or a stutter.                  *)
LEMMA StutterIInv == IInv /\ UNCHANGED vars => IInv'
<1> SUFFICES ASSUME IInv, UNCHANGED vars PROVE IInv'
    OBVIOUS
<1>1. UNCHANGED <<cfgVars, sec, phase, item>>
    BY DEF vars, cfgVars
<1>2. CfgOK' /\ Len(devSecs') = Len(devSecs)
    BY <1>1, CfgFrame DEF IInv
<1>3. LoopOK'
    BY <1>1, LoopFrame DEF IInv
<1>4. TypeOK'
    BY <1>2 DEF IInv, TypeOK, vars
<1>5. QED
    BY <1>2, <1>3, <1>4 DEF IInv, FuncsDistinct, vars

LEMMA NextIInv == IInv /\ [Next]_vars => IInv'
<1> SUFFICES ASSUME IInv, [Next]_vars PROVE IInv'
    OBVIOUS
<1>1. CASE ActionBegin      BY <1>1, ActionBeginIInv
<1>2. CASE ActionOpt        BY <1>2, ActionOptIInv
<1>3. CASE ActionOptEnd     BY <1>3, ActionOptEndIInv
<1>4. CASE ActionsEnd       BY <1>4, ActionsEndIInv
<1>5. CASE FunctionBegin    BY <1>5, FunctionBeginIInv
<1>6. CASE FunctionOpt      BY <1>6, FunctionOptIInv
<1>7. CASE FunctionOptEnd   BY <1>7, FunctionOptEndIInv
<1>8. CASE FunctionsEnd     BY <1>8, FunctionsEndIInv
<1>9. CASE EnterSection     BY <1>9, EnterSectionIInv
<1>10. CASE SectionsEnd     BY <1>10, SectionsEndIInv
<1>11. CASE Finished        BY <1>11, StutterIInv DEF Finished
<1>12. CASE UNCHANGED vars  BY <1>12, StutterIInv
<1>13. QED
    BY <1>1, <1>2, <1>3, <1>4, <1>5, <1>6, <1>7, <1>8, <1>9, <1>10,
       <1>11, <1>12 DEF Next

(* Type correctness of the compiled arrays, for every number of options  *)
(* and every configuration: the rule array never grows past the          *)
(* num_of_options slots calloc'd at sane.c:666, thanks to the capacity   *)
(* test at 520, and the function array, calloc'd at 683 with no such     *)
(* test, neither, because its dedupe loop (364-371) never stores an      *)
(* option twice.                                                          *)
THEOREM RuleArraysTypeCorrect == Spec => []TypeOK
<1>1. Init => IInv
    BY InitIInv
<1>2. IInv /\ [Next]_vars => IInv'
    BY NextIInv
<1>3. IInv => TypeOK
    BY DEF IInv
<1>4. QED
    BY <1>1, <1>2, <1>3, PTL DEF Spec
=============================================================================
