--------------------------- MODULE MC_RuleCompiler ---------------------------
(* A device with two options and a configuration of at most two actions   *)
(* and one function per section and at most one device section.  "any"   *)
(* matches every name, "only2" only the option name "n2"; "pat" and "bad" *)
(* are string trigger patterns.                                           *)
EXTENDS RuleCompiler

MCFilters == {"any", "only2", "pat", "bad"}

MCMatches == {<<"any", "n1">>, <<"any", "n2">>, <<"any", "dev">>, <<"only2", "n2">>}

\* Every regex compiles.
MCCompilesAll == MCFilters

\* The option filter "only2" is rejected by regcomp.
MCBadFilter == {"any", "pat", "bad"}

\* The string trigger pattern "bad" is rejected by regcomp.
MCBadPattern == {"any", "only2", "pat"}

MCActionCfgs ==
    {[title |-> "t1", filter |-> "any", script |-> "s1",
      nfrom |-> 0, nto |-> 1, sfrom |-> "pat", sto |-> "pat"],
     [title |-> "t2", filter |-> "only2", script |-> "",
      nfrom |-> 1, nto |-> 0, sfrom |-> "pat", sto |-> "bad"]}

MCFunctionCfgs ==
    {[filter |-> "any", env |-> "E1"], [filter |-> "only2", env |-> "E2"]}

MCDescChoices ==
    {NoDesc,
     [active |-> FALSE, name |-> "n1", type |-> "num"],
     [active |-> TRUE, name |-> NoName, type |-> "num"],
     [active |-> TRUE, name |-> "n1", type |-> "other"],
     [active |-> TRUE, name |-> "n1", type |-> "num"],
     [active |-> TRUE, name |-> "n2", type |-> "string"]}
=============================================================================
