---------------------------- MODULE NumericTrigger ----------------------------
(***************************************************************************)
(* The numeric side of one action rule of src/src/scanbd/sane.c, with the *)
(* widths of its values: the configured from-value and to-value (signed   *)
(* long from cfg_getint) are stored in the unsigned long num_value         *)
(* (sane.c:535-537); the option's SANE_Word is read by                     *)
(* sane_control_option into the first sizeof(SANE_Word) bytes of a zeroed *)
(* unsigned long (get_sane_option_value, 196-224); the poll compares the  *)
(* two unsigned longs (832-833) and stores the value read (867).          *)
(*                                                                         *)
(* WordBits and LongBits stand for the 32 bits of SANE_Word and the 64 of *)
(* unsigned long (LP64); what matters is WordBits < LongBits.             *)
(* ByteOrder is the build's: on a little-endian host the word lands in    *)
(* the low bytes, on a big-endian one in the high bytes.                  *)
(***************************************************************************)
EXTENDS Integers

CONSTANTS
    WordBits,     \* bits of a SANE_Word, below LongBits
    LongBits,     \* bits of an unsigned long
    ByteOrder,    \* "little" or "big"
    CfgInts,      \* from-value / to-value the configuration may hold
    Words         \* values the device option may take, WordBits wide

VARIABLES
    phase,              \* "compile": rule not yet compiled; then "poll"
    from_num, to_num,   \* st->opts[n].from_value / to_value .num_value
    value,              \* st->opts[n].value.num_value, the last value read
    fired,              \* the last poll set st->triggered for this rule
    dev,                \* the SANE_Word the option holds now
    cfg_from, cfg_to,   \* the configured from-value and to-value
    last_word,          \* the SANE_Word the option held at the last read
    last_ok             \* the last read succeeded

vars == <<phase, from_num, to_num, value, fired, dev, cfg_from, cfg_to,
          last_word, last_ok>>

(* A signed long converted to unsigned long: reduced modulo 2^LongBits.  *)
ULong(x) == x % 2^LongBits

(* The bytes of a SANE_Word written over the start of a zeroed unsigned   *)
(* long: its two's complement, in the low or the high bytes.              *)
WordAsULong(w) ==
    IF ByteOrder = "little" THEN w % 2^WordBits
    ELSE (w % 2^WordBits) * 2^(LongBits - WordBits)

(* get_sane_option_value: the word read, or the 0 of the initialised     *)
(* result when sane_control_option fails (sane.c:210-223).               *)
ReadValue(ok) == IF ok THEN WordAsULong(dev) ELSE 0

(* The slot is calloc'd and its values initialised to 0 (sane.c:665-676). *)
Init ==
    /\ phase = "compile"
    /\ from_num = 0 /\ to_num = 0 /\ value = 0
    /\ fired = FALSE
    /\ dev \in Words
    /\ cfg_from = 0 /\ cfg_to = 0
    /\ last_word = 0 /\ last_ok = FALSE

(* A numerical trigger is compiled: from and to through cfg_getint, and  *)
(* the option's initial value read (sane.c:530-539).                      *)
Compile ==
    /\ phase = "compile"
    /\ \E f, t \in CfgInts, ok \in BOOLEAN :
         /\ from_num' = ULong(f) /\ to_num' = ULong(t)
         /\ cfg_from' = f /\ cfg_to' = t
         /\ value' = ReadValue(ok)
         /\ last_ok' = ok
    /\ last_word' = dev
    /\ phase' = "poll"
    /\ UNCHANGED <<fired, dev>>

(* One check of the rule by the polling loop: read the option, fire when  *)
(* the last value is from and the new one is to, store the new one        *)
(* (sane.c:796-836, 867).                                                  *)
Poll(ok) ==
    /\ phase = "poll"
    /\ fired' = (from_num = value /\ to_num = ReadValue(ok))
    /\ value' = ReadValue(ok)
    /\ last_word' = dev
    /\ last_ok' = ok
    /\ UNCHANGED <<phase, from_num, to_num, dev, cfg_from, cfg_to>>

(* The user changes the option on the device (a button, a dial).         *)
Press ==
    /\ \E w \in Words : dev' = w
    /\ UNCHANGED <<phase, from_num, to_num, value, fired, cfg_from, cfg_to,
                   last_word, last_ok>>

Next == Compile \/ (\E ok \in BOOLEAN : Poll(ok)) \/ Press

Spec == Init /\ [][Next]_vars

TypeOK ==
    /\ phase \in {"compile", "poll"}
    /\ {from_num, to_num, value} \subseteq 0 .. 2^LongBits - 1
    /\ fired \in BOOLEAN /\ last_ok \in BOOLEAN
    /\ dev \in Words /\ last_word \in Words \cup {0}

(* A rule numerical-trigger { from-value = f, to-value = t } fires on a   *)
(* poll exactly when the option went from f at the last read to t at     *)
(* this one (spec 4.2 step c), both reads having succeeded: the compare   *)
(* of sane.c:832-833 of the stored unsigned longs is equality of the      *)
(* configured ints and the option's words.                                *)
NumericTriggerMatches ==
    [][\A ok \in BOOLEAN :
         (Poll(ok) /\ last_ok /\ ok)
             => (fired' <=> (cfg_from = last_word /\ cfg_to = dev))]_vars
=============================================================================
