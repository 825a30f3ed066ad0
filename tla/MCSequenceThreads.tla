-------------------------- MODULE MCSequenceThreads --------------------------
(* Two threads of the application on a small instance of SequenceThreads. *)
EXTENDS SequenceThreads

CONSTANTS app, handler  \* the caller's thread and the Mesh-Controller thread

MCThreads   == {app, handler}
MCStep      == 2
MCThreshold == 4
MCMaxJump   == 2
MCIvMissing == 13
MCMaxPdus   == 2
MCMaxSeq    == 8
MCMaxIv     == 1
=============================================================================
