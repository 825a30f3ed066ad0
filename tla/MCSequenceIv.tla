----------------------------- MODULE MCSequenceIv -----------------------------
(* A small instance of SequenceIv: two saves between 0 and the threshold, the *)
(* threshold below the bound, and an IV index jump of more than MaxJump.      *)
EXTENDS SequenceIv

MCStep      == 2
MCThreshold == 4
MCMaxJump   == 2
MCIvMissing == 13
MCMaxPdus   == 2
MCMaxSeq    == 8
MCMaxIv     == 3
=============================================================================
