----------------------------- MODULE FreeSpace ------------------------------
(***************************************************************************)
(* What a zone map promises: a set of free units, of which aligned runs of *)
(* a power of two are handed out, each unit to one taker until the next    *)
(* commit; what is free changes only when a transaction is committed, by   *)
(* the runs it took and gave back.                                         *)
(***************************************************************************)
EXTENDS Integers, Sequences

CONSTANTS NUnits, MaxOrder

VARIABLES free,   \* units that are free once what is committed is applied
          handed, \* those of them handed out since
          txn     \* the runs a transaction takes and gives back

vars == <<free, handed, txn>>

Run(k, b) == (b * 2^k)..((b + 1) * 2^k - 1)
Runs == {Run(k, b) : k \in 0..MaxOrder, b \in 0..(NUnits - 1)} \cap SUBSET (0..(NUnits - 1))

Init == free = 0..(NUnits - 1) /\ handed = {} /\ txn = <<>>

\* A run is handed out; its taker may not use it after all.
Take(r) == /\ r \subseteq free \ handed
           /\ handed' = handed \cup r
           /\ txn' \in {txn, Append(txn, [run |-> r, free |-> FALSE])}
           /\ UNCHANGED free

\* The owner of a run gives it up.
Give(r) == /\ r \cap free = {}
           /\ txn' = Append(txn, [run |-> r, free |-> TRUE])
           /\ UNCHANGED <<free, handed>>

\* The next run of a committed transaction changes hands.
Apply == /\ txn # <<>> /\ txn' = Tail(txn)
         /\ LET e == Head(txn)
            IN  \/ e.free  /\ e.run \cap free = {}  /\ free' = free \cup e.run
                \/ ~e.free /\ e.run \subseteq free  /\ free' = free \ e.run
         /\ UNCHANGED handed

\* A commit, or the end of the process: nothing counts as handed out any more.
Settle  == handed' = {} /\ UNCHANGED <<free, txn>>
Abandon == handed' = {} /\ txn' = <<>> /\ UNCHANGED free

Next == Apply \/ Settle \/ Abandon \/ \E r \in Runs : Take(r) \/ Give(r)

Spec == Init /\ [][Next]_vars
=============================================================================
