-------------------------------- MODULE FatTable --------------------------------
(* tools/fat: the file allocation table, packed into the bytes of its sectors, *)
(* in memory and on the device.  An entry of FAT12 takes one and a half bytes  *)
(* and may lie in two sectors.                                                 *)
EXTENDS Integers, Sequences

CONSTANTS
  BytesPerSec,    \* bytes_per_sector, which is even
  FatSize,        \* fat_size, in sectors
  RsvdSecCnt,     \* rsvd_sec_cnt, with the boot sector
  TotalClusters,  \* total_clusters
  Values          \* what entries are set to

TableFits ==
  /\ BytesPerSec \in Nat \ {0} /\ BytesPerSec % 2 = 0
  /\ FatSize \in Nat /\ TotalClusters \in Nat
  /\ \A value \in Values : value \in Nat /\ value < 65536
  /\ FatSize * BytesPerSec >= 2 * (TotalClusters + 2)

VARIABLES
  fat_type, \* dev->fat_type, 12 or 16
  fat,      \* dev->fat
  device,   \* bytes of the reserved sectors and of the first table
  table     \* what was set last, for the properties
ft_vars == <<fat_type, fat, device, table>>

Clusters == 2 .. TotalClusters + 1

Offset(cluster) == IF fat_type = 12 THEN cluster + cluster \div 2 ELSE cluster * 2

Word_at(mem, offset) == mem[offset] + 256 * mem[offset + 1]

Put_word(mem, offset, w) == [mem EXCEPT ![offset] = w % 256, ![offset + 1] = w \div 256]

fs_get_fat_cluster_entry(mem, cluster) ==
  LET w == Word_at(mem, Offset(cluster))
  IN  IF fat_type = 16 THEN w ELSE IF cluster % 2 = 1 THEN w \div 16 ELSE w % 4096

\* The word that holds the entry, with the half byte of its neighbour.
Packed(mem, cluster, value) ==
  LET old == Word_at(mem, Offset(cluster))
  IN  IF fat_type = 16 THEN value
      ELSE IF cluster % 2 = 1 THEN value * 16 + (old % 16)
      ELSE (value % 4096) + (old \div 4096) * 4096

\* Variant: an entry is taken to lie in one sector.
Sectors_one(cluster) == 1

Sectors_of(cluster) ==
  IF fat_type = 12 /\ Offset(cluster) % BytesPerSec = BytesPerSec - 1 THEN 2 ELSE 1

\* num bytes of memory are written to the device.
fs_bio_write(dev, mem, from, to, num) ==
  [b \in DOMAIN dev |-> IF b \in to .. to + num - 1 THEN mem[b - to + from] ELSE dev[b]]

\* Byte addresses; the table follows the boot sector or what RsvdSecCnt says.
Table_bytes == 0 .. FatSize * BytesPerSec - 1
Device_bytes == 0 .. (RsvdSecCnt + FatSize) * BytesPerSec - 1

-------------------------------------------------------------------------------
\* A volume as fatformat makes it: zeros after the boot sector.
FtInit ==
  /\ fat_type \in {12, 16}
  /\ device = [b \in Device_bytes |-> 0]
  /\ fat = [b \in Table_bytes |-> 0]
  /\ table = [c \in Clusters |-> 0]

fs_set_fat_cluster_entry(cluster, value) ==
  LET first == (Offset(cluster) \div BytesPerSec) * BytesPerSec
  IN  /\ fat' = Put_word(fat, Offset(cluster), Packed(fat, cluster, value))
      /\ device' = fs_bio_write(device, fat', first, RsvdSecCnt * BytesPerSec + first,
                                Sectors_of(cluster) * BytesPerSec)
      /\ table' = [table EXCEPT ![cluster] = value]
      /\ UNCHANGED fat_type

\* The next tool is started: it loads the table, from sector 1.
fs_init ==
  /\ fat' = [b \in Table_bytes |-> device[b + BytesPerSec]]
  /\ UNCHANGED <<fat_type, device, table>>

\* Cluster numbers and end marks have as many bits as an entry.
Fits(value) == fat_type = 12 => value < 4096

FtNext ==
  \/ fs_init
  \/ \E c \in Clusters, v \in Values : Fits(v) /\ fs_set_fat_cluster_entry(c, v)

FtSpec == FtInit /\ [][FtNext]_ft_vars

-------------------------------------------------------------------------------
\* Every entry reads as it was set last, whatever was done to its neighbours
\* and however often a tool ended and another one loaded the table.
EntriesKept == \A c \in Clusters : fs_get_fat_cluster_entry(fat, c) = table[c]
===============================================================================
