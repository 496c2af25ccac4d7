---------------------------- MODULE RuleCompiler ----------------------------
(***************************************************************************)
(* The rule compiler of scanbd's polling thread: the part of sane_poll    *)
(* (src/src/scanbd/sane.c:656-745) that fills a device slot's rule array  *)
(* st->opts and function array st->functions, through                     *)
(* sane_find_matching_options (392-601) and sane_find_matching_functions  *)
(* (277-389).  The global section is compiled first, then every device    *)
(* section whose filter matches the device name.                          *)
(*                                                                         *)
(* The configuration and the device's option descriptors are chosen in    *)
(* Init and never change; the state machine keeps the loops of the code:  *)
(* one step per iteration of the option loop, one per loop entry and exit.*)
(* A regex is a member of Filters; whether regcomp accepts it is the      *)
(* constant Compiles and whether regexec matches a name is Matches.       *)
(***************************************************************************)
EXTENDS Integers, Sequences, SequencesExt

CONSTANTS
    NumOptions,     \* st->num_of_options: option 0 plus the real options
    Names,          \* option names
    NoName,         \* an option descriptor whose name is NULL
    NoDesc,         \* sane_get_option_descriptor returned NULL
    DevName,        \* st->dev->name
    Filters,        \* the regular expressions of the configuration
    Compiles,       \* the members of Filters that regcomp accepts
    Matches,        \* <<regex, name>> pairs on which regexec succeeds
    NullScript,     \* SCANBD_NULL_STRING
    ActionCfgs,     \* the action subsections a section may hold
    FunctionCfgs,   \* the function subsections a section may hold
    DevFilters,     \* the filters a device section may carry
    DescChoices,    \* the descriptors an option may have
    MaxActions, MaxFunctions, MaxSections   \* bounds on the configuration

ASSUME RuleCompilerAssumption ==
    /\ NumOptions \in Nat \ {0}
    /\ Compiles \subseteq Filters
    /\ Matches \subseteq Filters \X (Names \cup {DevName})
    /\ DevFilters \subseteq Filters
    /\ {MaxActions, MaxFunctions, MaxSections} \subseteq Nat
    /\ \A a \in ActionCfgs : {a.filter, a.sfrom, a.sto} \subseteq Filters
    /\ \A f \in FunctionCfgs : f.filter \in Filters
    /\ NullScript # ""

VARIABLES
    desc,       \* sane_get_option_descriptor(st->h, o) for o in 1..NumOptions-1
    global,     \* the global section: [actions, functions]
    devSecs,    \* the device sections: [filter, actions, functions]
    multiple,   \* the global multiple_actions flag
    sec,        \* 0 while in the global section, then the device section index
    phase,      \* which loop the compiler is in
    item,       \* the action or function index within the section
    opt,        \* the option loop index
    opts,       \* st->opts[0 .. num_of_options_with_scripts - 1]
    funcs,      \* st->functions[0 .. num_of_options_with_functions - 1]
    execBad     \* regexec (or regfree) ran on a regex_t regcomp rejected

cfgVars == <<desc, global, devSecs, multiple>>
vars == <<desc, global, devSecs, multiple, sec, phase, item, opt, opts, funcs, execBad>>

Options == 1 .. NumOptions - 1

(* SANE_TYPE_BOOL, INT, FIXED and BUTTON are "num"; SANE_TYPE_STRING is    *)
(* "string"; GROUP and the other types are "other".                       *)
OptionTypes == {"num", "string"}

Section(k) == IF k = 0 THEN global ELSE devSecs[k]

(* regcomp returns 0 or a positive error code (REG_BADPAT, ...).          *)
RegcompRet(f) == IF f \in Compiles THEN 0 ELSE 1

(* regexec on a compiled regex, or on a regex_t regcomp left undefined:   *)
(* the latter may report either outcome.                                  *)
Regexec(f, name) == IF f \in Compiles THEN {(<<f, name>> \in Matches)} ELSE BOOLEAN

(* The descriptor tests of the option loop: a descriptor exists, is       *)
(* active, is named and has a pollable type.                              *)
Usable(o) ==
    /\ desc[o] # NoDesc
    /\ desc[o].active
    /\ desc[o].name # NoName
    /\ desc[o].type \in OptionTypes

(* The dedupe loops' search (364-371, 492-514), 1-based: the first entry  *)
(* of s for option o, 0 when there is none.                               *)
FirstWithNumber(s, o) == SelectInSeq(s, LAMBDA r : r.number = o)

(* Mutant of OptSlot: the dedupe loop never breaks out on an option that *)
(* already has a rule, so every match is appended.                        *)
OptSlotNoOverride(s, o) == Len(s) + 1

(* The dedupe loop of sane_find_matching_options, 1-based: the slot the   *)
(* rule for option o is written to; Len(s) + 1 is a new entry.            *)
OptSlot(s, o) ==
    LET found == FirstWithNumber(s, o)
    IN  IF found # 0 /\ (~multiple \/ ~(found - 1 < NumOptions))
        THEN found
        ELSE Len(s) + 1

(* The dedupe loop of sane_find_matching_functions: later wins.           *)
FunctionSlot(s, o) ==
    LET found == FirstWithNumber(s, o)
    IN  IF found = 0 THEN Len(s) + 1 ELSE found

Store(s, n, r) == IF n = Len(s) + 1 THEN Append(s, r) ELSE [s EXCEPT ![n] = r]

(* A slot of the calloc'd array after sane_option_value_init (669-673):   *)
(* num_value 0 and str_value NULL ("").                                   *)
FreshSlot == [nfrom |-> 0, nto |-> 0, sfrom |-> "", sto |-> ""]

(* The rule written for action a on option o over the entry `old` of its  *)
(* slot (523-580): an empty script becomes SCANBD_NULL_STRING; the values *)
(* are freed, which clears str_value and keeps num_value; a numeric       *)
(* option then takes the numerical-trigger's from/to, a string option the *)
(* string-trigger's.                                                      *)
RuleOf(a, o, old) ==
    [number |-> o, title |-> a.title,
     script |-> IF a.script = "" THEN NullScript ELSE a.script,
     type |-> desc[o].type,
     nfrom |-> IF desc[o].type = "num" THEN a.nfrom ELSE old.nfrom,
     nto   |-> IF desc[o].type = "num" THEN a.nto ELSE old.nto,
     sfrom |-> IF desc[o].type = "string" THEN a.sfrom ELSE "",
     sto   |-> IF desc[o].type = "string" THEN a.sto ELSE ""]

(* The string trigger's `valid` flag: cleared only when regcomp < 0.      *)
StringValid(a) == ~(RegcompRet(a.sfrom) < 0) /\ ~(RegcompRet(a.sto) < 0)

(* Mutant of Install: the capacity test at 520 is missing.               *)
InstallNoCapacity(a, o) ==
    LET n == OptSlot(opts, o)
        r == RuleOf(a, o, IF n <= Len(opts) THEN opts[n] ELSE FreshSlot)
    IN  IF desc[o].type = "string" /\ ~StringValid(a)
        THEN IF n <= Len(opts)
             THEN [opts EXCEPT ![n] = [r EXCEPT !.sfrom = "", !.sto = ""]]
             ELSE opts
        ELSE Store(opts, n, r)

(* Writing the rule into slot n (520-596): nothing when the array is full *)
(* (520); a string rule that is not valid has its values freed again and  *)
(* is not counted (582-587).                                              *)
Install(a, o) ==
    LET n == OptSlot(opts, o)
        r == RuleOf(a, o, IF n <= Len(opts) THEN opts[n] ELSE FreshSlot)
    IN  CASE n = NumOptions + 1 -> opts
          [] n # NumOptions + 1 /\ desc[o].type = "string" /\ ~StringValid(a) ->
                 IF n <= Len(opts)
                 THEN [opts EXCEPT ![n] = [r EXCEPT !.sfrom = "", !.sto = ""]]
                 ELSE opts
          [] OTHER -> Store(opts, n, r)

-----------------------------------------------------------------------------
(* sane_poll 666-703: empty arrays, then the global section's actions.    *)
Init ==
    /\ desc \in [Options -> DescChoices]
    /\ global \in [actions : BoundedSeq(ActionCfgs, MaxActions),
                   functions : BoundedSeq(FunctionCfgs, MaxFunctions)]
    /\ devSecs \in BoundedSeq([filter : DevFilters,
                               actions : BoundedSeq(ActionCfgs, MaxActions),
                               functions : BoundedSeq(FunctionCfgs, MaxFunctions)],
                              MaxSections)
    /\ multiple \in BOOLEAN
    /\ sec = 0
    /\ phase = "action"
    /\ item = 1
    /\ opt = 1
    /\ opts = << >>
    /\ funcs = << >>
    /\ execBad = FALSE

(* sane_find_matching_options 408-431: take action `item`, compile its    *)
(* filter; a failure is tested with ret < 0.                              *)
ActionBegin ==
    /\ phase = "action"
    /\ item <= Len(Section(sec).actions)
    /\ IF RegcompRet(Section(sec).actions[item].filter) < 0
       THEN item' = item + 1 /\ UNCHANGED <<phase, opt>>
       ELSE phase' = "actionOpt" /\ opt' = 1 /\ UNCHANGED item
    /\ UNCHANGED <<cfgVars, sec, opts, funcs, execBad>>

(* 433-597: one pass of the option loop for option `opt`.                 *)
ActionOpt ==
    /\ phase = "actionOpt"
    /\ opt < NumOptions
    /\ LET a == Section(sec).actions[item]
       IN  IF ~Usable(opt)
           THEN UNCHANGED <<opts, execBad>>
           ELSE \E match \in Regexec(a.filter, desc[opt].name) :
                   /\ execBad' = (execBad \/ a.filter \notin Compiles)
                   /\ opts' = IF match THEN Install(a, opt) ELSE opts
    /\ opt' = opt + 1
    /\ UNCHANGED <<cfgVars, sec, phase, item, funcs>>

(* 597-600: the option loop ends, regfree, next action.                   *)
ActionOptEnd ==
    /\ phase = "actionOpt"
    /\ opt >= NumOptions
    /\ execBad' = (execBad \/ Section(sec).actions[item].filter \notin Compiles)
    /\ phase' = "action"
    /\ item' = item + 1
    /\ UNCHANGED <<cfgVars, sec, opt, opts, funcs>>

(* 399-403 and the end of the action loop: on to the section's functions. *)
ActionsEnd ==
    /\ phase = "action"
    /\ item > Len(Section(sec).actions)
    /\ phase' = "function"
    /\ item' = 1
    /\ UNCHANGED <<cfgVars, sec, opt, opts, funcs, execBad>>

(* sane_find_matching_functions 292-315.                                  *)
FunctionBegin ==
    /\ phase = "function"
    /\ item <= Len(Section(sec).functions)
    /\ IF RegcompRet(Section(sec).functions[item].filter) < 0
       THEN item' = item + 1 /\ UNCHANGED <<phase, opt>>
       ELSE phase' = "functionOpt" /\ opt' = 1 /\ UNCHANGED item
    /\ UNCHANGED <<cfgVars, sec, opts, funcs, execBad>>

(* 317-385: one pass of the option loop; the slot array has no capacity   *)
(* test.                                                                  *)
FunctionOpt ==
    /\ phase = "functionOpt"
    /\ opt < NumOptions
    /\ LET f == Section(sec).functions[item]
       IN  IF ~Usable(opt)
           THEN UNCHANGED <<funcs, execBad>>
           ELSE \E match \in Regexec(f.filter, desc[opt].name) :
                   /\ execBad' = (execBad \/ f.filter \notin Compiles)
                   /\ funcs' = IF match
                               THEN Store(funcs, FunctionSlot(funcs, opt),
                                          [number |-> opt, env |-> f.env])
                               ELSE funcs
    /\ opt' = opt + 1
    /\ UNCHANGED <<cfgVars, sec, phase, item, opts>>

(* 385-388: the option loop ends, regfree, next function.                 *)
FunctionOptEnd ==
    /\ phase = "functionOpt"
    /\ opt >= NumOptions
    /\ execBad' = (execBad \/ Section(sec).functions[item].filter \notin Compiles)
    /\ phase' = "function"
    /\ item' = item + 1
    /\ UNCHANGED <<cfgVars, sec, opt, opts, funcs>>

(* 284-288 and the end of the function loop: the section is done.         *)
FunctionsEnd ==
    /\ phase = "function"
    /\ item > Len(Section(sec).functions)
    /\ sec' = sec + 1
    /\ phase' = "section"
    /\ UNCHANGED <<cfgVars, item, opt, opts, funcs, execBad>>

(* sane_poll 710-745: compile the device section's filter and match it    *)
(* against the device name; on a match compile its actions and functions. *)
EnterSection ==
    /\ phase = "section"
    /\ sec <= Len(devSecs)
    /\ LET f == devSecs[sec].filter
       IN  IF RegcompRet(f) < 0
           THEN sec' = sec + 1 /\ UNCHANGED <<phase, item, execBad>>
           ELSE \E match \in Regexec(f, DevName) :
                   /\ execBad' = (execBad \/ f \notin Compiles)
                   /\ IF match
                      THEN phase' = "action" /\ item' = 1 /\ UNCHANGED sec
                      ELSE sec' = sec + 1 /\ UNCHANGED <<phase, item>>
    /\ UNCHANGED <<cfgVars, opt, opts, funcs>>

(* 745-747: no device section left; polling starts with these arrays.     *)
SectionsEnd ==
    /\ phase = "section"
    /\ sec > Len(devSecs)
    /\ phase' = "done"
    /\ UNCHANGED <<cfgVars, sec, item, opt, opts, funcs, execBad>>

(* The compiler has returned: the arrays no longer change.                *)
Finished ==
    /\ phase = "done"
    /\ UNCHANGED vars

Next ==
    \/ ActionBegin \/ ActionOpt \/ ActionOptEnd \/ ActionsEnd
    \/ FunctionBegin \/ FunctionOpt \/ FunctionOptEnd \/ FunctionsEnd
    \/ EnterSection \/ SectionsEnd \/ Finished

Spec == Init /\ [][Next]_vars

-----------------------------------------------------------------------------
NumValues == {0} \cup UNION {{a.nfrom, a.nto} : a \in ActionCfgs}

RuleRecords ==
    [number : Options, title : {a.title : a \in ActionCfgs},
     script : ({a.script : a \in ActionCfgs} \ {""}) \cup {NullScript},
     type : OptionTypes, nfrom : NumValues, nto : NumValues,
     sfrom : Filters \cup {""}, sto : Filters \cup {""}]

FunctionRecords == [number : Options, env : {f.env : f \in FunctionCfgs}]

(* Type invariant.  A rule's script is never empty: an empty one becomes  *)
(* SCANBD_NULL_STRING (470-474), which the dispatch skips.                 *)
(* Both arrays are calloc'd with num_of_options entries                    *)
(* (666, 683): the rule array stays within them by the capacity test at   *)
(* 520, the function array, which has no such test, only because its     *)
(* dedupe loop keys on the option number.                                 *)
TypeOK ==
    /\ phase \in {"action", "actionOpt", "function", "functionOpt", "section", "done"}
    /\ sec \in 0 .. Len(devSecs) + 1
    /\ item \in Nat \ {0}
    /\ opt \in 1 .. NumOptions
    /\ opts \in Seq(RuleRecords) /\ Len(opts) <= NumOptions
    /\ funcs \in Seq(FunctionRecords)
    /\ Len(funcs) <= NumOptions
    /\ execBad \in BOOLEAN

(* What the poller reads of a rule: the numeric values of a numeric rule, *)
(* the patterns of a string rule.                                         *)
Meaning(r) ==
    IF r.type = "num" THEN [r EXCEPT !.sfrom = "", !.sto = ""]
                      ELSE [r EXCEPT !.nfrom = 0, !.nto = 0]

(* The rules the configuration asks for, per spec section 4.1: the       *)
(* matches of every action of the global section and then of every       *)
(* device section whose filter matches the device, in order.             *)
MatchOpts(f) ==
    SelectSeq([i \in 1 .. NumOptions - 1 |-> i],
              LAMBDA o : Usable(o) /\ <<f, desc[o].name>> \in Matches)

Entered == <<global>> \o SelectSeq(devSecs, LAMBDA s : <<s.filter, DevName>> \in Matches)

WantedRules ==
    FlattenSeq([k \in 1 .. Len(Entered) |->
        FlattenSeq([j \in 1 .. Len(Entered[k].actions) |->
            LET a == Entered[k].actions[j]
            IN  [i \in 1 .. Len(MatchOpts(a.filter)) |->
                    Meaning(RuleOf(a, MatchOpts(a.filter)[i], FreshSlot))]])])

WantedFunctions ==
    FlattenSeq([k \in 1 .. Len(Entered) |->
        FlattenSeq([j \in 1 .. Len(Entered[k].functions) |->
            LET f == Entered[k].functions[j]
            IN  [i \in 1 .. Len(MatchOpts(f.filter)) |->
                    [number |-> MatchOpts(f.filter)[i], env |-> f.env]]])])

(* One entry per option, at the place of its first match, carrying the    *)
(* last match: "the later rule replaces the earlier one".                 *)
LaterWins(s) ==
    LET firsts == SelectSeq([i \in 1 .. Len(s) |-> i],
                            LAMBDA i : \A j \in 1 .. i - 1 : s[j].number # s[i].number)
    IN  [k \in 1 .. Len(firsts) |->
            s[SelectLastInSeq(s, LAMBDA r : r.number = s[firsts[k]].number)]]

(* When every regex compiles, the compiled arrays are what the override   *)
(* policy of the specification prescribes: without multiple_actions one   *)
(* rule per option, the later one replacing the earlier; with it every    *)
(* match appended, as many as the array holds; functions later-wins.      *)
(* This is about the dedupe loops of sane.c:491-521 and 363-384 and the   *)
(* section order of sane_poll 700-745.                                    *)
RulesMatchReference ==
    phase = "done" =>
        /\ [i \in DOMAIN opts |-> Meaning(opts[i])] =
              IF multiple
                  THEN SubSeq(WantedRules, 1,
                              IF Len(WantedRules) < NumOptions THEN Len(WantedRules) ELSE NumOptions)
                  ELSE LaterWins(WantedRules)
        /\ funcs = LaterWins(WantedFunctions)

(* The compiler keeps the contract RuleArray of the rule array: a write  *)
(* of the option loop (520-596) either rewrites a slot with a rule for    *)
(* the same option or appends a rule, while there is room (520) and,      *)
(* without multiple_actions, for an option with no rule yet (491-514).    *)
Rules == INSTANCE RuleArray
           WITH Rec <- RuleRecords, Cap <- NumOptions,
                rules <- opts, multi <- multiple

RuleArrayRefined == Rules!Spec

(* No regexec or regfree is ever applied to a regex_t that regcomp        *)
(* rejected: a failed compile skips the filter, as the warnings at        *)
(* sane.c:313, 429 and 730 announce.                                      *)
NoRegexecOnFailedCompile == ~execBad

(* Every installed string rule has both trigger patterns compiled (spec   *)
(* 4.1: "a rule is discarded if either compilation fails"); about the     *)
(* regcomp tests at sane.c:558 and 572.                                   *)
StringTriggersCompiled ==
    \A i \in DOMAIN opts :
        opts[i].type = "string" => {opts[i].sfrom, opts[i].sto} \subseteq Compiles
=============================================================================
