----------------------------- MODULE BlobReceiver -----------------------------
(***************************************************************************)
(* The BLOB server of a node (vendor/common/mesh_ota.c) in push mode: what *)
(* it keeps of a transfer, and what each message does to it.  A node takes *)
(* the blocks in order; a chunk names its place in the block but not the   *)
(* block, so it goes into whichever block the node has open.               *)
(*                                                                         *)
(* A receiver is a record:                                                 *)
(*   busy   blob_trans_busy                                                *)
(*   phase  blob_trans_phase                                               *)
(*   blk    block_start.block_num                                          *)
(*   ok     blob_block_rx_ok                                               *)
(*   miss   miss_mask                                                      *)
(*   got    the places of the flash that hold the chunk that belongs there *)
(* The firmware update has been started, and the transfer parameters are   *)
(* those of the node, so BLOB Transfer Get and Start always succeed.       *)
(***************************************************************************)
EXTENDS Integers

CONSTANTS BlockNum, \* blocks of the BLOB
          ChunkNum  \* chunks of a block

ASSUME BlobReceiverAssumption ==
    /\ BlockNum \in Nat \ {0}
    /\ ChunkNum \in Nat \ {0}

Blocks == 0 .. BlockNum - 1
Chunks == 0 .. ChunkNum - 1
Phases == {"waitStart", "nextBlock", "nextChunk", "complete"}

Receivers == [busy: BOOLEAN, phase: Phases, blk: Blocks, ok: BOOLEAN,
              miss: SUBSET Chunks, got: SUBSET (Blocks \X Chunks)]

\* mesh_cmd_sig_fw_update_start
Started == [busy |-> FALSE, phase |-> "waitStart", blk |-> 0, ok |-> FALSE,
            miss |-> {}, got |-> {}]

\* updater_get_block_rx_ok_cnt
RxOkCount(r) == IF r.ok THEN r.blk + 1 ELSE r.blk

\* BLOB Transfer Start: an open block stays open.
OnTransferStart(r) ==
    [r EXCEPT !.busy  = TRUE,
              !.phase = IF @ \in {"nextChunk", "complete"} THEN @ ELSE "nextBlock"]

\* blob_block_start_par_check
BlockStartOk(r, b) == r.busy /\ b <= RxOkCount(r)

\* BLOB Block Start opens the next block, and opens it again; a block that has
\* been received is left alone.  Mutant: it is erased.
OnBlockStartReopened(r, b) ==
    IF BlockStartOk(r, b)
    THEN [r EXCEPT !.phase = "nextChunk", !.blk = b, !.ok = FALSE, !.miss = Chunks]
    ELSE r

OnBlockStart(r, b) ==
    IF BlockStartOk(r, b) /\ b = RxOkCount(r)
    THEN [r EXCEPT !.phase = "nextChunk", !.blk = b, !.ok = FALSE, !.miss = Chunks]
    ELSE r

\* set_phase_block_all_chunk_rx_ok
AllChunksReceived(r) ==
    [r EXCEPT !.ok    = TRUE,
              !.phase = IF r.blk + 1 = BlockNum THEN "complete" ELSE "nextBlock"]

\* BLOB Chunk Transfer: chunk c of the client's block b.
OnChunk(r, b, c) ==
    IF r.busy /\ r.phase = "nextChunk" /\ c \in r.miss
    THEN LET s == [r EXCEPT !.miss = @ \ {c},
                            !.got  = IF b = r.blk THEN @ \union {<<r.blk, c>>}
                                                  ELSE @ \ {<<r.blk, c>>}]
         IN  IF s.miss = {} THEN AllChunksReceived(s) ELSE s
    ELSE r

\* BLOB Block Get: asking a node that misses nothing completes its block.
OnBlockGet(r) ==
    IF r.busy /\ r.miss = {} THEN AllChunksReceived(r) ELSE r

\* The format of the answer to it.
MissingFormat(r) ==
    CASE r.miss = {}     -> "none"
      [] r.miss = Chunks -> "all"
      [] OTHER           -> "some"

\* The node holds all of the BLOB.
HoldsBlob(r) == r.ok /\ r.blk = BlockNum - 1 /\ r.got = Blocks \X Chunks
=============================================================================
