---------------------- MODULE MCBsdvrPendingReplyQueue ----------------------
(* A small instance of BsdvrPendingReplyQueue for TLC. *)
EXTENDS BsdvrPendingReplyQueue, TLC
=============================================================================
