----------------------------------- MODULE Fat -----------------------------------
(* tools/fat: directories and files on a FAT volume.  The table is the one of  *)
(* FatTable, taken as a function, and names are those that FatNames leaves the *)
(* same.  What is a byte in the code is a cell here: a directory entry, or a   *)
(* unit of the data of a file, which says where it belongs.                    *)
EXTENDS Integers, Sequences, SequencesExt, FiniteSetsExt

CONSTANTS
  BytesPerSec,     \* cells of a sector, at least 3
  SecPerClus,      \* sectors_per_cluster
  RootDirSecs,     \* root_dir_secs
  TotalClusters,   \* total_clusters
  Files,           \* paths of files, sequences of names
  Dirs,            \* paths of directories
  NumFcb,          \* NUM_FCB
  Lengths,         \* of calls of fs_write and fs_read
  Places,          \* positions for TOS_fs_seek
  MaxSize          \* bound: cells of a file

VARIABLES
  vol,      \* [fat, disk]: the table and the sectors from the root directory on
  fcb,      \* fcb[]
  saved     \* length of each file when it was closed, or Missing
fat_vars == <<vol, fcb, saved>>

Missing == -1
EOC == 4095
fs_is_eoc(value) == value >= 4088

Clusters == 2 .. TotalClusters + 1
BytesPerClus == BytesPerSec * SecPerClus

Cell(kind, name, dir, first, size, of) ==
  [kind |-> kind, name |-> name, dir |-> dir, first |-> first, size |-> size, of |-> of]
End == Cell("end", "", FALSE, 0, 0, << >>)
Stale == Cell("data", "", FALSE, 0, 0, << >>)
Entry(name, dir, first) == Cell("entry", name, dir, first, 0, << >>)
Datum(path, pos) == Cell("data", "", FALSE, 0, pos, path)

-------------------------------------------------------------------------------
(* Sectors and clusters *)

fs_get_first_sector_of_cluster(c) == (c - 2) * SecPerClus + RootDirSecs

Sectors == 0 .. fs_get_first_sector_of_cluster(TotalClusters + 2) - 1

\* What is written behind the volume is not looked at again.
fs_bio_write(v, s, sector) == IF s \in Sectors THEN [v EXCEPT !.disk[s] = sector] ELSE v

fs_set(v, c, value) == IF c \in Clusters THEN [v EXCEPT !.fat[c] = value] ELSE v

\* The last cluster is never looked at; 0 when there is none.
Free_clusters(v) == {c \in 2 .. TotalClusters : v.fat[c] = 0}
fs_get_free_cluster(v) == IF Free_clusters(v) = {} THEN 0 ELSE Min(Free_clusters(v))

\* The clusters from c on, up to one that ends the chain.
Chain(v, c) ==
  LET f[n \in 0 .. TotalClusters] ==
        IF n = 0 THEN <<c>>
        ELSE LET next == v.fat[Last(f[n - 1])]
             IN  IF next \in Clusters THEN Append(f[n - 1], next) ELSE f[n - 1]
  IN  IF c \in Clusters THEN f[TotalClusters] ELSE << >>

-------------------------------------------------------------------------------
(* Directories.  A directory is its first cluster, the root directory 0. *)

\* per sectors of each cluster are looked at.
Cluster_sectors(chain, per) ==
  FlattenSeq([k \in DOMAIN chain |->
    [j \in 1 .. per |-> fs_get_first_sector_of_cluster(chain[k]) + j - 1]])

Dir_sectors(v, d, per) ==
  IF d = 0 THEN [k \in 1 .. RootDirSecs |-> k - 1] ELSE Cluster_sectors(Chain(v, d), per)

Positions(sectors) ==
  FlattenSeq([k \in DOMAIN sectors |-> [j \in 1 .. BytesPerSec |-> <<sectors[k], j - 1>>]])

\* The cell at which a search for the name ends: its entry, the end marker, or
\* behind the last sector.
Found_among(v, places, name, dir) ==
  LET cell(n) == v.disk[places[n][1]][places[n][2]]
      ends == {n \in DOMAIN places :
                 \/ cell(n).kind = "end"
                 \/ cell(n).kind = "entry" /\ cell(n).name = name /\ cell(n).dir = dir}
  IN  IF ends = {} THEN [at |-> Last(places), cell |-> Stale]
      ELSE [at |-> places[Min(ends)], cell |-> cell(Min(ends))]

Found_in(v, d, name, dir) == Found_among(v, Positions(Dir_sectors(v, d, SecPerClus)), name, dir)

\* Name after name.  Where a search runs over the last sector the result is TRUE
\* all the same and the entry the one before, at the start none.
Followed(r, f) ==
  IF ~r.ok THEN r
  ELSE [ok    |-> f.cell.kind # "end",
        d     |-> IF f.cell.kind = "entry" THEN f.cell.first ELSE r.d,
        at    |-> f.at,
        known |-> f.cell.kind = "entry",
        cell  |-> IF f.cell.kind = "entry" THEN f.cell ELSE r.cell]

fs_get_directory_entry(v, path, dir) ==
  LET step(r, k) == Followed(r, Found_in(v, r.d, path[k], dir \/ k < Len(path)))
  IN  FoldLeft(step, [ok |-> path # << >>, d |-> 0, at |-> <<0, 0>>, known |-> FALSE, cell |-> Stale],
               [k \in DOMAIN path |-> k])

\* The same search; the sector goes back, to the place behind it if the search
\* ran over it.
Put_entry(v, r, entry) ==
  LET s == r.at[1]
  IN  IF ~r.ok THEN v
      ELSE IF r.known THEN fs_bio_write(v, s, [v.disk[s] EXCEPT ![r.at[2]] = entry])
      ELSE fs_bio_write(v, s + 1, v.disk[s])

fs_update_directory_entry(v, path, entry) ==
  Put_entry(v, fs_get_directory_entry(v, path, FALSE), entry)

\* The entry takes the place of a deleted one or of the end marker, which moves;
\* i counts the sectors of the root directory, and the next sector is looked for
\* bytes_per_sector sectors on.
New_entry(v, s, j, i, entry) ==
  LET was == v.disk[s][j].kind
      last == j = BytesPerSec - 1
      w == fs_bio_write(v, s, [n \in DOMAIN v.disk[s] |->
             IF n = j THEN entry
             ELSE IF was = "end" /\ n = j + 1 THEN End ELSE v.disk[s][n]])
      next == s + BytesPerSec
  IN  IF was = "end" /\ last /\ i # RootDirSecs - 1 /\ next \in Sectors
      THEN fs_bio_write(w, next, [w.disk[next] EXCEPT ![0] = End])
      ELSE w

\* [ok, v, d]: whether there is a place, the volume after, the directory.
Added(v, d, places, entry) ==
  LET free == {n \in DOMAIN places : v.disk[places[n][1]][places[n][2]].kind \in {"end", "deleted"}}
      at == places[Min(free)]
      c == fs_get_free_cluster(v)
      w == fs_bio_write(v, fs_get_first_sector_of_cluster(c),
                        [v.disk[Last(places)[1]] EXCEPT ![0] = entry, ![1] = End])
  IN  IF free # {}
      THEN [ok |-> TRUE, d |-> d,
            v |-> New_entry(v, at[1], at[2], IF d = 0 THEN at[1] ELSE 0, entry)]
      ELSE IF d = 0 \/ c = 0 THEN [ok |-> FALSE, v |-> v, d |-> d]
      ELSE [ok |-> TRUE, d |-> d, v |-> fs_set(fs_set(w, c, EOC), Last(Chain(v, d)), c)]

Added_to(v, d, entry) == Added(v, d, Positions(Dir_sectors(v, d, 1)), entry)

fs_create_directory_entry(v, parent, entry) ==
  LET r == fs_get_directory_entry(v, parent, TRUE)
  IN  IF parent = << >> THEN Added_to(v, 0, entry)
      ELSE IF r.ok THEN Added_to(v, r.cell.first, entry)
      ELSE [ok |-> FALSE, v |-> v, d |-> 0]

\* Both fs_create_directory and fs_open take a cluster first and give it back if
\* there is no place for the entry.
Taken(r, c) == [ok |-> r.ok, d |-> r.d, c |-> c, v |-> IF r.ok THEN r.v ELSE fs_set(r.v, c, 0)]

Created(v, path, dir) ==
  LET c == fs_get_free_cluster(v)
  IN  IF c = 0 THEN [ok |-> FALSE, v |-> v, d |-> 0, c |-> 0]
      ELSE Taken(fs_create_directory_entry(fs_set(v, c, EOC), Front(path), Entry(Last(path), dir, c)), c)

With_dots(r) ==
  LET dots == [k \in 0 .. BytesPerSec - 1 |->
                 CASE k = 0 -> Entry(".", TRUE, r.c) [] k = 1 -> Entry("..", TRUE, r.d)
                   [] k = 2 -> End [] OTHER -> Stale]
  IN  IF r.ok THEN fs_set(fs_bio_write(r.v, fs_get_first_sector_of_cluster(r.c), dots), r.c, EOC)
      ELSE r.v

fs_create_directory(v, path) == With_dots(Created(v, path, TRUE))

-------------------------------------------------------------------------------
(* Open files.  A client uses the descriptors that it was given and has not  *)
(* closed, so that the check of seq is left out.                              *)

Blank == [k \in 0 .. BytesPerSec - 1 |-> Stale]
Unused == [used |-> FALSE, path |-> << >>, write |-> FALSE, size |-> 0,
                pos |-> 0, first |-> 0, current |-> 0, sector |-> Blank]
Opened(i, path, write, size, first) ==
  [fcb EXCEPT ![i] = [Unused EXCEPT !.used = TRUE, !.path = path, !.write = write,
                                  !.size = size, !.first = first, !.current = first]]

Free_fcb == {i \in DOMAIN fcb : ~fcb[i].used}

\* A volume as fatformat makes it.
FatInit ==
  /\ vol = [fat |-> [c \in Clusters |-> 0], disk |-> [s \in Sectors |-> [k \in 0 .. BytesPerSec - 1 |-> End]]]
  /\ fcb = [i \in 0 .. NumFcb - 1 |-> Unused]
  /\ saved = [p \in Files |-> Missing]

\* The next tool is started; files that were open were not closed.
fs_init ==
  /\ fcb' = [i \in DOMAIN fcb |-> Unused]
  /\ UNCHANGED <<vol, saved>>

fs_open_read(path) ==
  LET r == fs_get_directory_entry(vol, path, FALSE)
  IN  /\ Free_fcb # {}
      /\ r.ok
      /\ fcb' = Opened(Min(Free_fcb), path, FALSE, r.cell.size, r.cell.first)
      /\ UNCHANGED <<vol, saved>>

\* By name only, in the root directory.
TOS_fs_find_dir_entry(path) ==
  {e \in {vol.disk[n][k] : n \in 0 .. RootDirSecs - 1, k \in 0 .. BytesPerSec - 1} :
     e.kind = "entry" /\ e.name = path[1]}

TOS_fs_open(path) ==
  /\ Free_fcb # {} /\ Len(path) = 1
  /\ \E e \in TOS_fs_find_dir_entry(path) :
       fcb' = Opened(Min(Free_fcb), path, FALSE, e.size, e.first)
  /\ UNCHANGED <<vol, saved>>

\* A file that is there is refused; where there is no room nothing changes.
fs_open_write(path) ==
  LET r == Created(vol, path, FALSE)
  IN  /\ Free_fcb # {}
      /\ ~fs_get_directory_entry(vol, path, FALSE).ok
      /\ vol' = r.v
      /\ IF r.ok
         THEN /\ fcb' = Opened(Min(Free_fcb), path, TRUE, 0, r.c)
              /\ saved' = [saved EXCEPT ![path] = 0]
         ELSE UNCHANGED <<fcb, saved>>

\* Where the buffer goes: a position at the end of a sector counts as the next one.
Flushed(v, f) ==
  fs_bio_write(v, fs_get_first_sector_of_cluster(f.current) + (f.pos % BytesPerClus) \div BytesPerSec, f.sector)

\* Variant: the new cluster is not linked to the last one.
Next_cluster_unlinked(v, f, c) == fs_set(v, c, EOC)

Next_cluster(v, f, c) == fs_set(fs_set(v, c, EOC), f.current, c)

\* One byte of a call; at the end of a cluster another one is needed first, and
\* the call fails if there is none.
write_byte(r) ==
  LET f == r.f
      full == f.pos # 0 /\ f.pos % BytesPerSec = 0
      v == IF full THEN Flushed(r.v, f) ELSE r.v
      more == full /\ f.pos % BytesPerClus = 0
      c == fs_get_free_cluster(v)
  IN  IF ~r.ok THEN r
      ELSE IF more /\ c = 0 THEN [r EXCEPT !.ok = FALSE, !.v = v]
      ELSE [ok |-> TRUE,
            v |-> IF more THEN Next_cluster(v, f, c) ELSE v,
            f |-> [f EXCEPT !.sector[f.pos % BytesPerSec] = Datum(f.path, f.pos),
                            !.pos = @ + 1, !.size = @ + 1, !.current = IF more THEN c ELSE @]]

Bytes(len) == [k \in 1 .. len |-> k]

fs_write(i, len) ==
  LET r == FoldLeft(LAMBDA q, k : write_byte(q), [ok |-> TRUE, v |-> vol, f |-> fcb[i]], Bytes(len))
  IN  /\ fcb[i].used /\ fcb[i].write /\ fcb[i].pos + len <= MaxSize
      /\ vol' = r.v
      /\ fcb' = [fcb EXCEPT ![i] = r.f]
      /\ UNCHANGED saved

\* The sector that holds a position.
Loaded(f, pos) ==
  vol.disk[fs_get_first_sector_of_cluster(Chain(vol, f.first)[pos \div BytesPerClus + 1])
           + (pos % BytesPerClus) \div BytesPerSec]

\* One byte of a call, which ends at the end of the file.
read_byte(f) ==
  IF f.pos = f.size THEN f
  ELSE [f EXCEPT !.pos = @ + 1,
                 !.sector = IF f.pos % BytesPerSec = 0 THEN Loaded(f, f.pos) ELSE @]

fs_read(i, len) ==
  /\ fcb[i].used /\ ~fcb[i].write
  /\ fcb' = [fcb EXCEPT ![i] = FoldLeft(LAMBDA f, k : read_byte(f), @, Bytes(len))]
  /\ UNCHANGED <<vol, saved>>

TOS_fs_seek(i, pos) ==
  LET f == fcb[i]
  IN  /\ f.used /\ ~f.write /\ pos < f.size
      /\ fcb' = [fcb EXCEPT ![i].pos = pos, ![i].sector = Loaded(f, pos)]
      /\ UNCHANGED <<vol, saved>>

\* A file that was written: its last sector and its size.
fs_close(i) ==
  LET f == fcb[i]
      v == Flushed(vol, f)
      r == fs_get_directory_entry(v, f.path, FALSE)
  IN  /\ f.used
      /\ fcb' = [fcb EXCEPT ![i] = Unused]
      /\ IF f.write
         THEN /\ vol' = fs_update_directory_entry(v, f.path, [r.cell EXCEPT !.size = f.size])
              /\ saved' = [saved EXCEPT ![f.path] = f.size]
         ELSE UNCHANGED <<vol, saved>>

\* Variant: the last cluster is not given back.
Freed_short(v, chain) == FoldLeft(LAMBDA w, c : fs_set(w, c, 0), v, Front(chain))

Freed(v, chain) == FoldLeft(LAMBDA w, c : fs_set(w, c, 0), v, chain)

\* fatdel, a tool of its own.
fatdel(path) ==
  LET r == fs_get_directory_entry(vol, path, FALSE)
      v == fs_update_directory_entry(vol, path, [r.cell EXCEPT !.kind = "deleted"])
  IN  /\ Free_fcb = DOMAIN fcb
      /\ r.ok
      /\ vol' = Freed(v, Chain(v, r.cell.first))
      /\ saved' = [saved EXCEPT ![path] = Missing]
      /\ UNCHANGED fcb

\* fatmd, a tool of its own; the same directory is not made twice.
fatmd(path) ==
  LET r == fs_get_directory_entry(vol, path, TRUE)
  IN  /\ Free_fcb = DOMAIN fcb
      /\ ~(r.ok /\ r.known)
      /\ vol' = fs_create_directory(vol, path)
      /\ UNCHANGED <<fcb, saved>>

FatNext ==
  \/ fs_init
  \/ \E p \in Files : fs_open_read(p) \/ TOS_fs_open(p) \/ fs_open_write(p) \/ fatdel(p)
  \/ \E p \in Dirs : fatmd(p)
  \/ \E i \in DOMAIN fcb : fs_close(i) \/ \E len \in Lengths : fs_write(i, len) \/ fs_read(i, len)
  \/ \E i \in DOMAIN fcb : \E pos \in Places : TOS_fs_seek(i, pos)
FatSpec == FatInit /\ [][FatNext]_fat_vars

-------------------------------------------------------------------------------
(* fatdir *)

\* The cells before the end marker.
Printed(cells) == {n \in DOMAIN cells : \A m \in 1 .. n : cells[m].kind # "end"}

\* What fatdir prints for a directory.
print_directory(path) ==
  LET r == fs_get_directory_entry(vol, path, TRUE)
      places == Positions(Dir_sectors(vol, IF path = << >> THEN 0 ELSE r.cell.first, SecPerClus))
      cells == [n \in DOMAIN places |-> vol.disk[places[n][1]][places[n][2]]]
  IN  IF path # << >> /\ ~r.ok THEN {}
      ELSE {<<cells[n].name, cells[n].dir>> : n \in {m \in Printed(cells) : cells[m].kind # "deleted"}}

-------------------------------------------------------------------------------
(* Properties *)

\* fatdir prints the files and directories that are there and no others.
Listed ==
  \A d \in {<< >>} \cup Dirs :
    LET there(p, dir) == IF dir THEN fs_get_directory_entry(vol, p, TRUE).ok ELSE saved[p] # Missing
    IN  print_directory(d) \ {<<".", TRUE>>, <<"..", TRUE>>} =
          {<<Last(p), p \in Dirs>> : p \in {q \in Files \cup Dirs : Front(q) = d /\ there(q, q \in Dirs)}}

\* A file is in its directory exactly from when it is created until it is
\* deleted, with the size it was closed with and every unit of data at its
\* place, whatever was created, written at the same time or deleted since.
ReadBack ==
  \A p \in Files :
    LET r == fs_get_directory_entry(vol, p, FALSE)
        chain == Chain(vol, r.cell.first)
    IN  /\ r.ok <=> saved[p] # Missing
        /\ r.ok =>
             /\ r.known /\ r.cell.size = saved[p]
             /\ \A pos \in 0 .. saved[p] - 1 :
                  /\ pos \div BytesPerClus < Len(chain)
                  /\ vol.disk[fs_get_first_sector_of_cluster(chain[pos \div BytesPerClus + 1])
                              + (pos % BytesPerClus) \div BytesPerSec][pos % BytesPerSec] = Datum(p, pos)

\* Reading goes on where it was, through the sectors of the file.
ReadsWhatWasWritten ==
  \A i \in DOMAIN fcb :
    fcb[i].used /\ ~fcb[i].write /\ fcb[i].pos % BytesPerSec # 0 =>
      fcb[i].sector[(fcb[i].pos - 1) % BytesPerSec] = Datum(fcb[i].path, fcb[i].pos - 1)

\* Every cluster that is in use belongs to one chain of one file or directory,
\* which ends with an end mark; no other is in use.
Heads ==
  {r.cell.first : r \in {e \in {fs_get_directory_entry(vol, p, FALSE) : p \in Files}
                              \cup {fs_get_directory_entry(vol, p, TRUE) : p \in Dirs} : e.ok}}

ClustersOwned ==
  /\ \A c \in Clusters : vol.fat[c] # 0 =>
       \E h \in Heads : /\ c \in Range(Chain(vol, h))
                        /\ \A g \in Heads \ {h} : c \notin Range(Chain(vol, g))
  /\ \A h \in Heads : fs_is_eoc(vol.fat[Last(Chain(vol, h))])
===============================================================================
