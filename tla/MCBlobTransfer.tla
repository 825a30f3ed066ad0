---------------------------- MODULE MCBlobTransfer ----------------------------
(* Two nodes and two blocks of two chunks. *)
EXTENDS BlobTransfer

CONSTANTS n1, n2

MCNodes      == {n1, n2}
MCInitConfig == <<n1, n2>>
=============================================================================
