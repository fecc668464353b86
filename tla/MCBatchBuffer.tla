---------------------------- MODULE MCBatchBuffer ----------------------------
(***************************************************************************)
(* Every sequence of countdowns up to one above the buffer's size, in two  *)
(* colours so that messages of two batches can be told apart.              *)
(***************************************************************************)
EXTENDS BatchBuffer

AnyMessage == [countdown : 0 .. MAX_BUF_MSG, colour : {"a", "b"}]
NoMessage  == [countdown |-> -1, colour |-> "none"]
=============================================================================
