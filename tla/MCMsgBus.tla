------------------------------ MODULE MCMsgBus ------------------------------
(* One publisher that waits for the lock and one that does not, and, in     *)
(* MCMsgBus.cfg, three subscribers for two slots: one finds the topic full. *)
EXTENDS MsgBus

CONSTANTS blk, nonblk, s1, s2, s3, w1, w2
=============================================================================
