----------------------------- MODULE PollerSlots -----------------------------
(***************************************************************************)
(* What the slot array sane_poll_threads of src/src/scanbd/sane.c         *)
(* promises its users, without the locks, the cancellation protocol and   *)
(* the dispatch: one slot per device, each with a polling thread and the  *)
(* device handle st->h.                                                   *)
(*                                                                         *)
(*   slots      sane_poll_threads # NULL                                  *)
(*   alive[d]   the thread of slot d has not terminated                   *)
(*   open[d]    st->h of slot d is an open handle                         *)
(*                                                                         *)
(* A live thread opens and closes its own handle and may end at any time  *)
(* (sane_poll).  stop_sane_threads closes the handle a terminated thread  *)
(* left open and frees the array only when every thread has ended and    *)
(* every handle is closed; start_sane_threads puts a fresh array in place *)
(* of one whose threads have all ended.                                   *)
(***************************************************************************)
CONSTANT Dev

VARIABLES slots, alive, open

vars == <<slots, alive, open>>

TypeOK ==
    /\ slots \in BOOLEAN
    /\ alive \in [Dev -> BOOLEAN]
    /\ open \in [Dev -> BOOLEAN]

(* Every thread ended and every handle closed.                           *)
AllReleased == \A d \in Dev : ~alive[d] /\ ~open[d]

(* start_sane_threads: every slot gets a thread and a NULL handle.       *)
Init ==
    /\ slots = TRUE
    /\ alive = [d \in Dev |-> TRUE]
    /\ open = [d \in Dev |-> FALSE]

(* A step of the polling thread of d: it opens or closes its own handle  *)
(* and may end (pthread_exit, or a cancel acting).                       *)
Run(d) ==
    /\ slots
    /\ alive[d]
    /\ \E b, e \in BOOLEAN :
         /\ open' = [open EXCEPT ![d] = b]
         /\ alive' = [alive EXCEPT ![d] = e]
    /\ UNCHANGED slots

(* The join loop of stop_sane_threads: once the thread of d has ended,   *)
(* sane_close the handle it left open.                                    *)
Join(d) ==
    /\ ~alive[d]
    /\ open' = [open EXCEPT ![d] = FALSE]
    /\ UNCHANGED <<slots, alive>>

(* free(sane_poll_threads); sane_poll_threads = NULL.                   *)
Free ==
    /\ AllReleased
    /\ slots' = FALSE
    /\ UNCHANGED <<alive, open>>

(* start_sane_threads, in place of a stopped or a joined array.          *)
Start ==
    /\ AllReleased
    /\ slots' = TRUE
    /\ alive' = [d \in Dev |-> TRUE]
    /\ open' = [d \in Dev |-> FALSE]

Next ==
    \/ \E d \in Dev : Run(d) \/ Join(d)
    \/ Free
    \/ Start

Spec == Init /\ [][Next]_vars
=============================================================================
