---------------------------- MODULE MCInodeTable ----------------------------
(* Three files that start at the last inode, one at the first. *)
EXTENDS InodeTable

MCHome == [f \in Fsids |-> IF f = 2 THEN 0 ELSE NInodes - 1]
=============================================================================
