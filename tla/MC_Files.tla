------------------------------ MODULE MC_Files ------------------------------
(***************************************************************************)
(* The local file system with two data blocks per index block ("index")    *)
(* and with two bytes per data block ("cache").  Three bytes of file f     *)
(* need a second index block in both; the blocks run out.                  *)
(***************************************************************************)
EXTENDS Integers, Sequences

VARIABLES
  part,
  disk, images, dir, present, dirty, ctl, opening, busy, content, raced, calls, halted

Data == [f |-> {"a", "b"}, g |-> {"c"}]
Sizes == [f |-> 3, g |-> 1]

X == INSTANCE Lfs WITH Names <- {"f", "g"}, Bytes <- Data, Slots <- {0, 1}, NI <- 3, ND <- 4,
       IBLEN <- 2, BLKSIZ <- 1, NumDirEnt <- 2, MaxSize <- Sizes, MaxCalls <- 6
C == INSTANCE Lfs WITH Names <- {"f", "g"}, Bytes <- Data, Slots <- {0, 1}, NI <- 3, ND <- 3,
       IBLEN <- 1, BLKSIZ <- 2, NumDirEnt <- 2, MaxSize <- Sizes, MaxCalls <- 6

vars == <<part, disk, images, dir, present, dirty, ctl, opening, busy, content, raced, calls, halted>>

Init ==
  \/ part = "index" /\ X!Init
  \/ part = "cache" /\ C!Init

Next ==
  /\ UNCHANGED part
  /\ \/ part = "index" /\ X!Next
     \/ part = "cache" /\ C!Next

Spec == Init /\ [][Next]_vars

\* The properties of the module in either part.
BlocksConserved == IF part = "index" THEN X!BlocksConserved ELSE C!BlocksConserved
ReadsWhatWasWritten == IF part = "index" THEN X!ReadsWhatWasWritten ELSE C!ReadsWhatWasWritten
ClosedFilesDurable == IF part = "index" THEN X!ClosedFilesDurable ELSE C!ClosedFilesDurable
ClosedFilesNotFree == IF part = "index" THEN X!ClosedFilesNotFree ELSE C!ClosedFilesNotFree

\* Blocks are on one list or in one file; and what a file holds is what was
\* written, after a crash what was written before it was closed.
BlocksSound == BlocksConserved /\ ClosedFilesNotFree
FilesKeepData == ReadsWhatWasWritten /\ ClosedFilesDurable

=============================================================================
