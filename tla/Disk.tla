-------------------------------- MODULE Disk --------------------------------
(***************************************************************************)
(* Files as file.c reads and writes them.  Several threads may have a file *)
(* open, nothing is locked.  A file is NONE or the sequence of its bytes;  *)
(* what is written fits in stdio's buffer and reaches the file in one      *)
(* write, when it is closed.                                               *)
(*                                                                         *)
(* The operators named Bug... are the next definition with a bug in it;    *)
(* nothing here uses them (see EventRing).                                 *)
(***************************************************************************)
EXTENDS Integers, Sequences

CONSTANTS
    NONE,              \* there is no such file; file_read's NULL
    MAX_FILE_SIZE      \* what file_read reads at most

ASSUME DiskAssumption == MAX_FILE_SIZE \in Nat

TOO_LARGE == <<"MAXIMUM FILE SIZE EXCEEDED.">>

file_size(file) == IF file = NONE THEN -1 ELSE Len(file)

\* fopen(fname, "w")
BugOpened(file) == IF file = NONE THEN <<>> ELSE file
Opened(file) == <<>>

\* fwrite and fclose: contents go over what is there by then
Written(file, contents) == contents \o SubSeq(file, Len(contents) + 1, Len(file))

\* fopen(fname, "r") and fread, at most size bytes
BugFetched(file, size) == file
Fetched(file, size) ==
    IF file = NONE THEN NONE
    ELSE SubSeq(file, 1, IF size < Len(file) THEN size ELSE Len(file))

\* file_read, when file_size was size and the file is file by now
file_read(file, size) ==
    CASE size < 0 -> NONE
      [] size = 0 -> <<>>
      [] size > MAX_FILE_SIZE -> TOO_LARGE
      [] OTHER -> LET s == Fetched(file, size) IN
                    IF s # NONE /\ Len(s) = size THEN s ELSE NONE

\* file_readnum: what the file says, or def; atoi("") is 0
file_readnum(s, def) == CASE s = NONE -> def [] s = <<>> -> 0 [] OTHER -> s[1]
=============================================================================
