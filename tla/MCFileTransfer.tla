--------------------------- MODULE MCFileTransfer ---------------------------
(* FileTransfer on batches of three files: one of two chunks, one of one,   *)
(* and an empty one.                                                        *)
EXTENDS FileTransfer

ThreeFiles == <<2, 1, 0>>
=============================================================================
