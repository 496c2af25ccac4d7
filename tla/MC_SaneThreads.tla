--------------------------- MODULE MC_SaneThreads ---------------------------
(* Small instances of SaneThreads for TLC.                               *)
EXTENDS SaneThreads

(* Two rules on one button option with the trigger 0 -> 1, as with        *)
(* multiple_actions: the second rule copies the value the first read.   *)
(* The second rule has no script (SCANBD_NULL_STRING).                  *)
MCRules ==
    << [number |-> 1, from |-> 0, to |-> 1, script |-> "script"],
       [number |-> 1, from |-> 0, to |-> 1, script |-> "null"] >>

=============================================================================
