------------------------------ MODULE FileCopy ------------------------------
(***************************************************************************)
(* Copying and moving single files in the file manager of multiMAN         *)
(* (source/multiman.cpp): the loop over the selected files of a pane and   *)
(* file_copy, which it calls for each of them.  file_copy reads and writes *)
(* one buffer at a time and tells its result only through the globals      *)
(* abort_copy and global_device_bytes, which live on from file to file;    *)
(* a move removes the source when abort_copy is 0.                         *)
(*                                                                         *)
(* Sizes are counted in blocks.  A destination that exists is the number   *)
(* of blocks of its source that it holds, Absent otherwise.                *)
(***************************************************************************)
EXTENDS Integers, FiniteSets

CONSTANTS
  File,        \* the files of the pane
  Size,        \* Size[f]: their sizes
  BufSize,     \* BUF_SIZE
  Unreadable   \* files whose source may fail to open

ASSUME FileAssumption ==
  /\ BufSize \in Nat \ {0}
  /\ \A f \in File : Size[f] \in Nat
  /\ Unreadable \subseteq File

Absent == -1

VARIABLES
  pc,                   \* where the main thread is
  selected,             \* list[m_copy].selected
  do_move,              \* the user asked for a move
  same_dev,             \* both panes show one device
  cur,                  \* the file in hand
  src,                  \* the files that are on the source device
  dst,                  \* what the destination holds
  msiz, fsiz, chunk,    \* size, position and buffer size of file_copy
  handles,              \* the files file_copy really has open
  abort_copy,           \* 1: the copy failed or was given up
  copy_global_bytes, global_device_bytes, \* the progress counters
  counted               \* history: a file with contents was copied, or some of it

vars == << pc, selected, do_move, same_dev, cur, src, dst, msiz, fsiz, chunk, handles,
           abort_copy, copy_global_bytes, global_device_bytes, counted >>

count == << global_device_bytes, counted >>
batch == << selected, do_move, same_dev >>
loop  == << msiz, chunk, handles, copy_global_bytes >>

Init ==
  /\ pc = "pane"
  /\ selected = {} /\ do_move = 0 /\ same_dev = FALSE
  /\ cur \in File
  /\ src = File /\ dst = [f \in File |-> Absent]
  /\ msiz = 0 /\ fsiz = 0 /\ chunk = 0
  /\ handles = "none"
  /\ abort_copy = 0
  /\ copy_global_bytes = 0 /\ global_device_bytes = 0 /\ counted = FALSE

\* The user selects files and confirms: abort_copy is reset, the counters are not.
Confirm ==
  /\ pc = "pane"
  /\ \E picked \in SUBSET src \ {{}} : selected' = picked
  /\ do_move' \in {0, 1} /\ same_dev' \in BOOLEAN
  /\ abort_copy' = 0
  /\ pc' = "batch"
  /\ UNCHANGED << cur, src, dst, fsiz, loop, count >>

\* The size is read through a first handle.  When the open fails the handle is
\* whatever the stack held and the seek fails too: the size stays 0.
SizeRead(f) == IF f \in Unreadable THEN {0, Size[f]} ELSE {Size[f]}

\* The destination is removed and created again; either open may fail, and only
\* the reads and writes that follow will tell.
FileCopyStarts(f) ==
  /\ msiz' \in SizeRead(f)
  /\ chunk' = IF msiz' < BufSize /\ msiz' > 0 THEN msiz' ELSE BufSize
  /\ fsiz' = 0
  /\ copy_global_bytes' = msiz'
  /\ handles' \in {"both", "source"}
  /\ dst' = [dst EXCEPT ![f] = IF handles' = "both" THEN 0 ELSE Absent]
  /\ abort_copy' = 0

ByRename == same_dev /\ do_move = 1

\* A move within one device is a rename, whether it succeeds or not.
RenameSelected ==
  /\ pc = "batch" /\ selected # {} /\ ByRename
  /\ cur' \in selected /\ selected' = selected \ {cur'}
  /\ \/ src' = src \ {cur'} /\ dst' = [dst EXCEPT ![cur'] = Size[cur']]
     \/ UNCHANGED << src, dst >>
  /\ UNCHANGED << pc, do_move, same_dev, fsiz, loop, abort_copy, count >>

\* Wrong variant: the file stays selected.
NextSelected_Again ==
  /\ pc = "batch" /\ selected # {} /\ ~ByRename
  /\ cur' \in selected /\ UNCHANGED selected
  /\ FileCopyStarts(cur')
  /\ pc' = "loop"
  /\ UNCHANGED << do_move, same_dev, src, count >>

NextSelected ==
  /\ pc = "batch" /\ selected # {} /\ ~ByRename
  /\ cur' \in selected /\ selected' = selected \ {cur'}
  /\ FileCopyStarts(cur')
  /\ pc' = "loop"
  /\ UNCHANGED << do_move, same_dev, src, count >>

BatchEnd ==
  /\ pc = "batch" /\ selected = {}
  /\ pc' = "pane"
  /\ UNCHANGED << batch, cur, src, dst, fsiz, loop, abort_copy, count >>

Copying == pc = "loop" /\ fsiz < msiz /\ abort_copy = 0

Writes(n) == dst' = [dst EXCEPT ![cur] = @ + n]

\* A whole buffer is read and written, and the user may abort.
CopyBuffer ==
  /\ Copying /\ fsiz + chunk <= msiz
  /\ handles = "both"
  /\ Writes(chunk)
  /\ fsiz' = fsiz + chunk
  /\ global_device_bytes' = fsiz' /\ counted' = TRUE
  /\ pc' = "pad"
  /\ UNCHANGED << batch, cur, src, loop, abort_copy >>

\* Wrong variant: the rest is not counted.
CopyRest_Uncounted ==
  /\ Copying /\ fsiz + chunk > msiz
  /\ handles = "both"
  /\ chunk' = msiz - fsiz
  /\ Writes(chunk')
  /\ pc' = "close"
  /\ UNCHANGED << batch, cur, src, fsiz, msiz, handles, abort_copy, copy_global_bytes,
                  count >>

\* Wrong variant: a whole buffer is written at the end.
CopyRest_WholeBuffer ==
  /\ Copying /\ fsiz + chunk > msiz
  /\ handles = "both"
  /\ Writes(chunk)
  /\ global_device_bytes' = global_device_bytes + chunk /\ counted' = TRUE
  /\ pc' = "close"
  /\ UNCHANGED << batch, cur, src, fsiz, loop, abort_copy >>

\* What is left is less than a buffer: it is copied and the loop is left.
CopyRest ==
  /\ Copying /\ fsiz + chunk > msiz
  /\ handles = "both"
  /\ chunk' = msiz - fsiz
  /\ Writes(chunk')
  /\ global_device_bytes' = global_device_bytes + chunk' /\ counted' = TRUE
  /\ pc' = "close"
  /\ UNCHANGED << batch, cur, src, fsiz, msiz, handles, abort_copy, copy_global_bytes >>

\* A read or a write fails (always, when its file is not open), or the write is
\* short and leaves part of the buffer in the destination.
CopyFails ==
  /\ Copying
  /\ chunk' = IF fsiz + chunk > msiz THEN msiz - fsiz ELSE chunk
  /\ \/ UNCHANGED dst
     \/ handles = "both" /\ \E n \in 1 .. chunk' - 1 : Writes(n)
  /\ abort_copy' = 1
  /\ pc' = "close"
  /\ UNCHANGED << batch, cur, src, fsiz, msiz, handles, copy_global_bytes,
                  count >>

PadContinue ==
  /\ pc = "pad"
  /\ pc' = "loop"
  /\ UNCHANGED << batch, cur, src, dst, fsiz, loop, abort_copy, count >>

\* Triangle, circle or the cancel button of the dialog.
PadAbort ==
  /\ pc = "pad"
  /\ abort_copy' = 1
  /\ pc' = "close"
  /\ UNCHANGED << batch, cur, src, dst, fsiz, loop, count >>

LoopEnd ==
  /\ pc = "loop" /\ ~(fsiz < msiz /\ abort_copy = 0)
  /\ pc' = "close"
  /\ UNCHANGED << batch, cur, src, dst, fsiz, loop, abort_copy, count >>

\* Wrong variant: what an aborted copy wrote is left behind.
Close_Kept ==
  /\ pc = "close"
  /\ abort_copy' = IF global_device_bytes # copy_global_bytes THEN 1 ELSE abort_copy
  /\ pc' = "after"
  /\ UNCHANGED << batch, cur, src, dst, fsiz, loop, count >>

\* The end of file_copy: a copy that does not add up counts as aborted.
Close ==
  /\ pc = "close"
  /\ abort_copy' = IF global_device_bytes # copy_global_bytes THEN 1 ELSE abort_copy
  /\ IF abort_copy' = 1 THEN dst' = [dst EXCEPT ![cur] = Absent] ELSE UNCHANGED dst
  /\ pc' = "after"
  /\ UNCHANGED << batch, cur, src, fsiz, loop, count >>

\* Wrong variant: the source is removed whatever happened.
After_Unchecked ==
  /\ pc = "after"
  /\ src' = IF do_move = 1 THEN src \ {cur} ELSE src
  /\ pc' = "batch"
  /\ UNCHANGED << batch, cur, dst, fsiz, loop, abort_copy, count >>

\* A move removes the source; the loop then takes the next selected file, even
\* after an abort.
After ==
  /\ pc = "after"
  /\ src' = IF do_move = 1 /\ abort_copy = 0 THEN src \ {cur} ELSE src
  /\ pc' = "batch"
  /\ UNCHANGED << batch, cur, dst, fsiz, loop, abort_copy, count >>

Work ==
  \/ RenameSelected \/ NextSelected \/ BatchEnd
  \/ CopyBuffer \/ CopyRest \/ CopyFails \/ PadContinue \/ PadAbort \/ LoopEnd
  \/ Close \/ After

Next == Confirm \/ Work

Spec == Init /\ [][Next]_vars

\* The loops of the main thread run on; the user confirms when he likes.
FairSpec == Spec /\ WF_vars(Work)

-----------------------------------------------------------------------------
TypeOK ==
  /\ pc \in {"pane", "batch", "loop", "pad", "close", "after"}
  /\ selected \subseteq File /\ do_move \in {0, 1} /\ same_dev \in BOOLEAN
  /\ cur \in File /\ src \subseteq File
  /\ \A f \in File : dst[f] \in {Absent} \cup (0 .. Size[f])
  /\ msiz \in { Size[f] : f \in File } \cup {0} /\ fsiz \in 0 .. msiz /\ chunk \in 0 .. BufSize
  /\ handles \in {"none", "source", "both"}
  /\ abort_copy \in {0, 1}
  /\ copy_global_bytes \in {0} \cup { Size[f] : f \in File }
  /\ global_device_bytes \in Nat /\ counted \in BOOLEAN

\* A move never removes a file with contents that is not whole at its destination, whatever
\* failed or was aborted in this batch or an earlier one.
MoveLosesNothing == \A f \in File \ src : Size[f] > 0 => dst[f] = Size[f]

\* Between two files the destination holds no partial copy: file_copy leaves a
\* whole file or none.
WholeOrNothing ==
  pc \in {"pane", "batch", "after"} =>
    \A f \in File : dst[f] \in {Absent, Size[f]}

\* A copy that is neither disturbed nor refused by the disk succeeds; only an empty file is taken
\* for a failure, and that from the first file with contents on, in every later batch: the
\* counter that file left is never set again.
UndisturbedResult ==
  [][Close /\ abort_copy = 0 /\ handles = "both" =>
       (abort_copy' = 1 <=> Size[cur] = 0 /\ counted)]_vars

=============================================================================
