-------------------------- MODULE MCSegmentReceiver --------------------------
(* Two nodes and messages of two segments.  One node has the sequence numbers   *)
(* for two messages, or to send all of one message again; the other for one     *)
(* message.  SeqZero wraps within them.                                         *)
EXTENDS SegmentReceiver

CONSTANTS n1, n2

MCSources  == {n1, n2}
MCSegN     == 1
MCSeqZeros == 4
MCMaxSeq   == [s \in MCSources |-> IF s = n1 THEN 4 ELSE 2]
MCMaxAir   == 2
=============================================================================
