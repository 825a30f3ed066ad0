---------------------------- MODULE MCFlashStore ----------------------------
(***************************************************************************)
(* Two sectors of two records and of two values, one with the backup and   *)
(* one of a model, where equal values are not written: each is turned over *)
(* by every other store, with or without a backup left by an earlier power *)
(* cut.  Power cuts are not bounded.                                       *)
(***************************************************************************)
EXTENDS FlashStore

CONSTANTS Model

MCSectors == {Model, Misc}
MCMapped  == {Model}
MCValues  == 1..2
=============================================================================
