------------------------------ MODULE RuleArray ------------------------------
(***************************************************************************)
(* What the rule array st->opts[0 .. num_of_options_with_scripts - 1] of  *)
(* src/src/scanbd/sane.c promises the polling loop while it is compiled:  *)
(* a rule already in the array only ever gives way to a rule for the same *)
(* option in the same slot, so the order the poller checks the options in *)
(* is fixed when an option is first matched; a new rule is appended only  *)
(* while the array, calloc'd with Cap entries, has room, and, without     *)
(* multiple_actions, only for an option that has no rule yet.             *)
(***************************************************************************)
EXTENDS Naturals, Sequences

CONSTANTS
    Rec,    \* the rules
    Cap     \* st->num_of_options, the entries calloc'd for the array

VARIABLES
    rules,  \* st->opts[0 .. num_of_options_with_scripts - 1]
    multi   \* the global multiple_actions flag

vars == <<rules, multi>>

(* The array starts empty (num_of_options_with_scripts = 0).             *)
Init ==
    /\ rules = << >>
    /\ multi \in BOOLEAN

(* The rule of slot i is rewritten by a rule for the same option.        *)
Override(i, r) ==
    /\ i \in 1 .. Len(rules)
    /\ r \in Rec
    /\ r.number = rules[i].number
    /\ rules' = [rules EXCEPT ![i] = r]
    /\ UNCHANGED multi

(* A rule is added at the end of the array.                              *)
Add(r) ==
    /\ r \in Rec
    /\ Len(rules) < Cap
    /\ multi \/ \A i \in 1 .. Len(rules) : rules[i].number # r.number
    /\ rules' = Append(rules, r)
    /\ UNCHANGED multi

(* The rule written is the one the next array holds at the slot.        *)
Next ==
    \/ \E i \in 1 .. Len(rules) :
          i \in DOMAIN rules' /\ Override(i, rules'[i])
    \/ Len(rules) + 1 \in DOMAIN rules' /\ Add(rules'[Len(rules) + 1])

Spec == Init /\ [][Next]_vars
=============================================================================
