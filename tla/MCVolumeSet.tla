----------------------------- MODULE MCVolumeSet ------------------------------
(* Drives and backups for the model checker. *)
EXTENDS VolumeSet

\* Two pairs on the first drive; two more on a second one, of which the last has an
\* application partition without room for the maps, and a third without a whole round.
MCSizes == [a10 |-> 16384 + 5, a11 |-> 1048576 + 700, a12 |-> 4096, a13 |-> 524288,
            b2 |-> 1030, b3 |-> 2097152, b4 |-> 2048, b5 |-> 1048576,
            b6 |-> 1024, b7 |-> 268435456, b8 |-> 1000, b9 |-> 4096]
Inode == [type |-> "inode", size |-> 4096, min |-> 8]
Media == [type |-> "media", size |-> 0, min |-> 2048]
App == [type |-> "application", size |-> 0, min |-> 8]
Sized(size) == [Inode EXCEPT !.size = size]
Two == <<"a10", "a11">>
Four == Two \o <<"a12", "a13">>
Six == Four \o <<"b2", "b3">>

\* What restore is given, how many transactions it commits at most, and the pairs mfsadd
\* is given afterwards.
JobOf(list, zones, free, minalloc, commits, pairs) ==
    [sizes |-> MCSizes, list |-> list, zones |-> zones, free |-> free, minalloc |-> minalloc,
     commits |-> commits, pairs |-> pairs]
B23 == <<"b2", "b3">>
B45 == <<"b4", "b5">>
Refused == {<<"b6", "b7">>, <<"b8", "b9">>}

\* The zones of backups of one pair and of several, on as many volumes, fewer or more; a
\* log that takes all of the first volume, or leaves room for its zones but no more maps;
\* an application zone that is left nothing; an inode zone behind the others that ends
\* before the second copies, takes some of them, or goes on in the next volume.
MCJobs ==
    {JobOf(Two, <<Inode, Media, App>>, 1024, 2048, 2, {B23} \cup Refused),
     JobOf(Four, <<Inode, Media, App>>, 1024, 2048, 1, {B23, B45}),
     JobOf(Two, <<Inode, App, Media, Media>>, 1024, 2048, 1, {B23, B45}),
     JobOf(Four, <<Inode, Media, App, Media, Media>>, 1024, 20480, 1, {B45} \cup Refused),
     JobOf(Two, <<Inode, Media, App, App>>, 1024, 2048, 1, {B23})}
    \cup {JobOf(Six, <<Inode, Media, Media, App, Media>>, free, minalloc, 1, {B45}) :
         free \in {513, 12200, 16000}, minalloc \in {2048, 20480}}
    \cup {JobOf(Two, <<Media, Sized(size)>>, free, 2048, 1, {B23}) :
         free \in {1024, 1027, 1028}, size \in {4096, 15344, 15360, 32768}}
    \cup {JobOf(Four, <<Media, Sized(32768), zone>>, free, 2048, 1, {B23}) :
         free \in {1024, 1027}, zone \in {Media, App}}
=============================================================================
