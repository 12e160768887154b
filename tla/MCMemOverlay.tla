---------------------------- MODULE MCMemOverlay ----------------------------
(* A volume of five sectors, so that three blocks fit, and one of one; a file   *)
(* with a run on both and one that is out of order, and a file in its inode.    *)
EXTENDS InodeData

MCVolSizes == <<5, 1>>

Run(sector, count) == [sector |-> sector, count |-> count]
MCFiles == {[sector |-> 0, inline |-> FALSE, runs |-> <<Run(3, 2), Run(5, 1), Run(0, 1)>>],
            [sector |-> 1, inline |-> TRUE, runs |-> <<>>]}
=============================================================================
