------------------------------- MODULE MCDevices -------------------------------
(* Five systems for TLC, of which part says which one runs.                     *)
(*   serial  Com with one client, as when either the train program or the       *)
(*           shell sends commands to the train;                                 *)
(*   table   FatTable: entries in the bytes of three sectors of four bytes;     *)
(*   names   FatNames: every length before and after the dot;                   *)
(*   files   Fat: two files of the root directory, two descriptors;             *)
(*   dirs    Fat: a file in the root directory and one in a subdirectory.       *)
EXTENDS Com, FatTable, FatNames

CONSTANTS boot, cl, cm, rd, om, or

MCPriority == [q \in Proc |-> CASE q = boot -> 0 [] q = cl -> 1 [] q = cm -> 2 [] q = rd -> 3]
MCOwner == [o \in Port |-> IF o = om THEN cm ELSE rd]
MCPorts == [q \in Proc |-> IF q = cm THEN <<om>> ELSE IF q = rd THEN <<or>> ELSE << >>]
MCIsr == [x \in Irq |-> "com1"]
MCRequest == {Order(cl, n) : n \in Lens}
MCNote == {Job(cl, n) : n \in Lens} \cup {Done}

ASSUME SerialAssumption == ComAssumption

CONSTANTS SecPerClus, RootDirSecs, NumFcb, Lengths, Places, MaxSize

VARIABLES part, vol, fcb, saved
fat_vars == <<vol, fcb, saved>>
all_vars == <<part, com_vars, ft_vars, fat_vars, fn_vars>>

\* Words of one letter, of which one is the lower case of another.
Word(n) == UNION {{[k \in 1 .. m |-> c] : c \in {1, 101, 2}} : m \in 0 .. n}
MCBases == Word(10)
MCExts == Word(5)

Root == INSTANCE Fat WITH Files <- {<<"F">>, <<"G">>}, Dirs <- {}

Tree == INSTANCE Fat WITH
  Files <- {<<"F">>, <<"D", "F">>}, Dirs <- {<<"D">>}, NumFcb <- 1

ASSUME TableAssumption == TableFits

NoVolume ==
  /\ vol = NULL
  /\ fcb = NULL
  /\ saved = NULL

\* Com, FatTable and FatNames stay in an initial state while another part runs.
MCInit ==
  /\ ComInit /\ FtInit /\ FnInit
  /\ \/ part \in {"serial", "table", "names"} /\ NoVolume
     \/ part = "files" /\ Root!FatInit
     \/ part = "dirs" /\ Tree!FatInit
  /\ part # "table" => fat_type = 12
  /\ part # "names" => name = CHOOSE n \in Names : TRUE

MCNext ==
  /\ UNCHANGED part
  /\ \/ part = "serial" /\ ComNext /\ UNCHANGED <<ft_vars, fat_vars, fn_vars>>
     \/ /\ UNCHANGED com_vars
        /\ \/ part = "table" /\ FtNext /\ UNCHANGED <<fat_vars, fn_vars>>
           \/ /\ UNCHANGED ft_vars
              /\ \/ part = "names" /\ make_entry /\ UNCHANGED fat_vars
                 \/ part = "files" /\ Root!FatNext /\ UNCHANGED fn_vars
                 \/ part = "dirs" /\ Tree!FatNext /\ UNCHANGED fn_vars
                 \/ part # "serial" /\ UNCHANGED <<fat_vars, fn_vars>>

\* Nobody has a higher priority than the two processes of com.c but each other,
\* and the serial line keeps moving.
MCFair ==
  /\ WF_com_vars(part = "serial" /\ com_steps)
  /\ WF_com_vars(part = "serial" /\ reader_steps)
  /\ WF_com_vars(part = "serial" /\ transmit)
  /\ WF_com_vars(part = "serial" /\ isr_com1)

MCSpec == MCInit /\ [][MCNext]_all_vars /\ MCFair

\* com.c answers every command, and no byte comes when the reader does not wait.
EachCommandAnswered == part = "serial" /\ Asking(cl) ~> part = "serial" /\ Answered(cl)

\* A file is there from when it is created until it is deleted, and can be read
\* as it was written, from the start or from where it is open.
FilesIntact ==
  /\ part = "files" => Root!ReadBack /\ Root!ReadsWhatWasWritten
  /\ part = "dirs" => Tree!ReadBack /\ Tree!ReadsWhatWasWritten

\* Each cluster in use belongs to one file or directory, and fatdir prints those
\* that are there.
VolumeInOrder ==
  /\ part = "files" => Root!ClustersOwned /\ Root!Listed
  /\ part = "dirs" => Tree!ClustersOwned /\ Tree!Listed
================================================================================
