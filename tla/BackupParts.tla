------------------------------ MODULE BackupParts ------------------------------
(***************************************************************************)
(* Which partitions of the source drives go into a backup,                 *)
(* src/backup/backup.c: the system partitions that are in use, those asked *)
(* for by an option, and the sizes of the MFS partitions.  What is chosen  *)
(* here is the header of the backup that restore lays its target out from. *)
(***************************************************************************)
EXTENDS MacPart, ZoneMapSize

\* add_partitions_to_backup_info.  The options: the root partition of the boot sector (4
\* or 7), and whether /var, SQLite and everything else go along.
Active(n, opt) == n \in (IF opt.root = 4 THEN 2..4 ELSE 5..7)
IsSqlite(t, n) == n = 14 /\ t.parts[n].name = <<"SQLite", 0>>

Wanted(t, n, opt) ==
    /\ t.parts[n].type # "MFS"
    /\ \/ Active(n, opt)
       \/ n = 9 /\ opt.var
       \/ IsSqlite(t, n) /\ opt.db
       \/ opt.all /\ n \notin {8, 9} /\ ~IsSqlite(t, n) /\ ~IsFree(t, n)

Chosen(t, opt) == {n \in 2..Len(t.parts) : Wanted(t, n, opt)}

\* "Sanity check to make sure we don't create a backup that would cause restore to fail."
BackupRefused(t, opt) ==
    \/ Len(t.parts) < 9
    \/ Chosen(t, opt) \cap {10, 11} # {}
    \/ \E m, n \in Chosen(t, opt) : 11 < m /\ m + 1 < n /\ (m + 1)..(n - 1) \cap Chosen(t, opt) = {}

PartsToBackup(t, opt) ==
    LET Nth(i) == CHOOSE n \in Chosen(t, opt) :
                      Cardinality({m \in Chosen(t, opt) : m <= n}) = i
    IN  [i \in 1..Cardinality(Chosen(t, opt)) |->
            [number |-> Nth(i), sectors |-> t.parts[Nth(i)].sectors]]

\* add_mfs_partitions_to_backup_info: the sizes the volume set has for its partitions, in
\* the order of the list; an odd number of them is for version 3 only.
MfsToBackup(sizes) == [n \in DOMAIN sizes |-> VolumeSize(sizes[n])]
=============================================================================
