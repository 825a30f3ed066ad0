--------------------------- MODULE MCReliableSender ---------------------------
(* Messages of every kind: reliable and not, to a node and to a group, with and *)
(* without segments, two of them with the same response opcode.                 *)
EXTENDS ReliableSender

CONSTANTS n1, n2, all, status, ack

Msg(id, dst, rsp, rspMax, segmented) ==
    [id |-> id, dst |-> dst, rsp |-> rsp, rspMax |-> rspMax, segmented |-> segmented]

MCNodes    == {n1, n2}
MCMessages ==
    {Msg("get",    n1,  status,   0, FALSE),
     Msg("config", n2,  status,   1, TRUE),
     Msg("group",  all, ack,      2, FALSE),
     Msg("groups", all, ack,      1, TRUE),
     Msg("chunk",  n1,  NoOpcode, 0, TRUE)}
MCSegN     == 1
MCRetryCnt == 1
MCMaxRx    == 1
=============================================================================
