--------------------------- MODULE MCCopyPrograms ---------------------------
EXTENDS CopyPrograms

\* The header fills three sectors and a half, so it takes sectors 0 to 3.  Behind it are the
\* boot block in 4, the raw partitions in 5 to 7 and in 8 and 9, the volume header in 10, an
\* inode in 11 with its data in 12 to 16, one without data in 17, one in 18 with its sector
\* in 19, and the last sector, 20.  So a buffer of 4 holds the header and no more, one of 5
\* ends behind 14, in the data of the first inode, and one of 6 behind 5, in the first
\* partition.  The buffers of a compressed backup end behind 0 and then every third sector,
\* so behind 6, in the first partition, and behind 12 and 15, twice in the same data.
MCDrive == [parts |-> <<3, 2>>, mfs |-> 1, zones |-> 1, extra |-> <<1, 1>>,
            files |-> <<5, 0, 1>>]
=============================================================================
