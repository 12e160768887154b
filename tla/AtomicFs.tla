------------------------------ MODULE AtomicFs ------------------------------
(***************************************************************************)
(* What the transaction log promises to its clients: a file system whose   *)
(* files change only by whole transactions, and in which no block is ever  *)
(* handed to a file while a committed file, or another file of the same    *)
(* transaction, still owns it (include/mfs.h, above zone_changed_run).     *)
(***************************************************************************)
CONSTANTS Fsids, Blocks, NoChange

\* NoChange is no set of blocks.
NoChangeApart == \A B \in SUBSET Blocks : NoChange # B

VARIABLES files,   \* the blocks each file owns, as after the last commit
          staged   \* what the open transaction will make of them

Nothing == [f \in Fsids |-> NoChange]
After(fs, st) == [f \in Fsids |-> IF st[f] = NoChange THEN fs[f] ELSE st[f]]

\* Blocks that some file owns now, or will own on commit.
InUse(fs, st) == LET new == After(fs, st)
                 IN  {b \in Blocks : \E f \in Fsids : b \in fs[f] \/ b \in new[f]}

Init == files = [f \in Fsids |-> {}] /\ staged = Nothing

\* New contents for one file; what they add to the file is in nobody's use.
Stage(f, B) ==
  /\ staged[f] = NoChange
  /\ staged' = [staged EXCEPT ![f] = B]
  /\ LET fs == files IN (B \ fs[f]) \cap InUse(fs, staged) = {}
  /\ UNCHANGED files

Commit == staged # Nothing /\ staged' = Nothing /\ files' = After(files, staged)

\* The process stopped: nothing of the open transaction remains.
Abandon == staged # Nothing /\ staged' = Nothing /\ UNCHANGED files

Next == \/ \E f \in Fsids, B \in SUBSET Blocks : Stage(f, B)
        \/ Commit
        \/ Abandon

Spec == Init /\ [][Next]_<<files, staged>>

\* What a file owns, or will own once the open transaction is committed.
Owned(f) == files[f] \cup After(files, staged)[f]

\* No two files ever share a block, not even across the commit.
NoSharing == \A f, g \in Fsids : f # g => Owned(f) \cap Owned(g) = {}
=============================================================================
