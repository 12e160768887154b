----------------------------- MODULE ZoneMapSize -----------------------------
(***************************************************************************)
(* How large the map of a zone is, mfs_new_zone_map_size of                *)
(* src/lib/zonemap.c, and how large a partition has to be to hold it.      *)
(***************************************************************************)
EXTENDS Integers

HeaderBytes == 72       \* sizeof (zone_header_32)
BitmapBytes == 16       \* sizeof (bitmap_header)
PointerBytes == 8       \* sizeof (bitmap_header *) on a 64 bit host
Round == 1024           \* MFS_PARTITION_ROUND

\* The first power of two that is not below the number of blocks.
Order(blocks) == CHOOSE n \in 0..31 : 2 ^ n >= blocks /\ \A m \in 0..(n - 1) : 2 ^ m < blocks

\* The ints of a bitmap of 2^n bits with those that pad it.
BitmapInts(n) == (2 ^ n + 57) \div 32

SumTo(f, n) == LET sum[i \in Nat] == IF i = 0 THEN f[0] ELSE sum[i - 1] + f[i] IN sum[n]

MapBytes(blocks) ==
    4 + 28 + HeaderBytes + (BitmapBytes + PointerBytes) * (Order(blocks) + 1)
      + SumTo([n \in 0..Order(blocks) |-> 4 * BitmapInts(n)], Order(blocks))

SectorsFor(bytes) == (bytes + 511) \div 512

\* mapsize of mfs_add_volume_pair.
MapSectorsFor(blocks) == SectorsFor(MapBytes(blocks))

\* The bytes mfs_new_zone_map fills: the header, an address per bitmap, then the bitmaps.
BytesFilled(blocks) ==
    HeaderBytes + 4 * (Order(blocks) + 1)
      + SumTo([n \in 0..Order(blocks) |-> BitmapBytes + 4 * BitmapInts(n)], Order(blocks))

\* mfs_volume_pair_app_size: room for twice the two copies, in whole rounds.
AppSize(sectors, minalloc) ==
    ((2 + 4 * MapSectorsFor(sectors \div minalloc) + Round - 1) \div Round) * Round

\* "TiVo rounds off the size of the partition to even counts of 1024 sectors."
VolumeSize(sectors) == (sectors \div Round) * Round
=============================================================================
