-------------------------------- MODULE FatNames --------------------------------
(* tools/fat: the names of files and directories, as they are typed, and the   *)
(* eleven characters of a directory entry.  Four functions make these, each in *)
(* its own way.  A character is a number, 0 a space, a lower case letter is    *)
(* Lower more than its upper case.  A name has at most one dot.                *)
EXTENDS Integers, Sequences, Functions

CONSTANTS Bases, Exts   \* words without spaces that may stand before and after the dot

VARIABLES name, entry
fn_vars == <<name, entry>>

Lower == 100
Names == {n \in [base : Bases \ {<< >>}, dot : BOOLEAN, ext : Exts] : n.dot \/ n.ext = << >>}

ASSUME NamesAssumption ==
  \A word \in Bases \cup Exts : word \in Seq(Nat) /\ \A k \in DOMAIN word : word[k] > 0

Refused == << >>
Blank == [k \in 1 .. 11 |-> 0]
str2up(s) == [k \in DOMAIN s |-> IF s[k] > Lower THEN s[k] - Lower ELSE s[k]]
strncpy(dest, at, s) ==
  [k \in DOMAIN dest \cup (at .. at + Len(s) - 1) |->
     IF k \in at .. at + Len(s) - 1 THEN s[k - at + 1] ELSE dest[k]]

\* Variant: the extension follows the name.
Spelled_close(n) == strncpy(strncpy(Blank, 1, n.base), Len(n.base) + 1, n.ext)

Spelled(n) == strncpy(strncpy(Blank, 1, n.base), 9, n.ext)

\* The last name of a path; index i stands on its last character, so that what
\* is compared is one less than its length, and -1 as an unsigned number is not
\* less than 3.
fs_get_directory_entry_file(n) ==
  IF IF n.dot THEN Len(n.base) > 8 \/ Len(n.ext) \notin 1 .. 4 ELSE Len(n.base) - 1 > 8
  THEN Refused ELSE str2up(Spelled(n))

\* A name followed by a slash: i stands behind it.
fs_get_directory_entry_directory(n) ==
  IF Len(n.base) > 8 \/ Len(n.ext) > 3 THEN Refused ELSE str2up(Spelled(n))

fs_convert_path(n) ==
  IF IF n.dot THEN Len(n.base) > 8 \/ Len(n.ext) > 3 ELSE Len(n.base) > 7
  THEN Refused ELSE Spelled([n EXCEPT !.base = str2up(@), !.ext = str2up(@)])

\* The new directory of fatmd; nothing limits a name without a dot.
fs_create_directory_name(n) ==
  IF n.dot /\ (Len(n.base) > 7 \/ Len(n.ext) > 3) THEN Refused ELSE Spelled(n)

TOS_fs_format_dir_entry_name(n) == Spelled([n EXCEPT !.base = str2up(@), !.ext = str2up(@)])

-------------------------------------------------------------------------------
FnInit == name \in Names /\ entry = "none"

\* What is kept is which function made the entry; the entry follows from the name.
make_entry ==
  /\ entry = "none"
  /\ entry' \in {"file", "directory"}
  /\ UNCHANGED name

FnSpec == FnInit /\ [][make_entry]_fn_vars

EightDotThree(n) == Len(n.base) <= 8 /\ Len(n.ext) <= 3 /\ (n.dot <=> n.ext # << >>)
Upper(n) == str2up(n.base) = n.base /\ str2up(n.ext) = n.ext

\* A file that was created is found under its name, by both ways to open it, and
\* under no other, but for case and lengths that are no 8.3 names.
FoundUnderItsName ==
  LET made == fs_convert_path(name)
  IN  entry = "file" /\ EightDotThree(name) /\ made # Refused =>
        /\ fs_get_directory_entry_file(name) = made
        /\ TOS_fs_format_dir_entry_name(name) = made
        /\ \A other \in Names :
             EightDotThree(other) /\ fs_get_directory_entry_file(other) = made =>
               str2up(other.base) = str2up(name.base) /\ str2up(other.ext) = str2up(name.ext)

\* A directory with an upper case name is found again.
DirectoryFound ==
  LET made == fs_create_directory_name(name)
  IN  entry = "directory" /\ EightDotThree(name) /\ Upper(name) /\ made # Refused =>
        fs_get_directory_entry_directory(name) = made

\* What one of the four functions makes of a name the others look for.
NamesFound == FoundUnderItsName /\ DirectoryFound
===============================================================================
