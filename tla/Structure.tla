----------------------------- MODULE Structure -----------------------------
(***************************************************************************)
(* The state every data structure of this part of the project shares.      *)
(* A behaviour exercises one structure, of kind `kind', with the settings  *)
(* `conf'.  `s' is its representation in memory, as the C code lays it     *)
(* out, and `last' is the last call of its interface with the answer the   *)
(* call gave, [op |-> name, arg |-> arguments, res |-> answer], in the      *)
(* settings that record the calls (conf.calls).                            *)
(***************************************************************************)
EXTENDS Integers, FiniteSets

VARIABLES kind, conf, s, last

svars == <<kind, conf, s, last>>

\* No call has been made yet.
NoCall == [op |-> "none", arg |-> <<>>, res |-> 0]

\* A call `op' with arguments `arg' leaves the representation t and returns
\* res.
Call(op, arg, t, res) ==
  /\ s' = t
  /\ last' = IF conf.calls THEN [op |-> op, arg |-> arg, res |-> res] ELSE NoCall
  /\ UNCHANGED <<kind, conf>>

\* A step that no caller sees.
Quiet(t) ==
  /\ s' = t
  /\ UNCHANGED <<kind, conf, last>>
=============================================================================
