------------------------------ MODULE FastCopy ------------------------------
(***************************************************************************)
(* The asynchronous copy engine of multiMAN (source/multiman.cpp,          *)
(* fast_copy_async, fast_copy_add, fast_copy_process and the two           *)
(* completion callbacks).  The caller (my_game_copy) queues directory      *)
(* entries; when the queue is full, and once more at the end,              *)
(* fast_copy_process copies everything that is queued.  Its loop overlaps  *)
(* one asynchronous read with one asynchronous write; the callbacks run on *)
(* the I/O threads of the system and share the control fields of the queue *)
(* slots with the loop, without a lock.                                    *)
(*                                                                         *)
(* Sizes are counted in blocks.  A byte of a source file is named by its   *)
(* address in the file (for a file kept as fragments, in their             *)
(* concatenation); a buffer is the source address its first byte holds; a  *)
(* destination maps addresses to the source address written there.         *)
(***************************************************************************)
EXTENDS Integers, FiniteSets

CONSTANTS
  Entry,            \* directory entries the caller queues
  Kind,             \* "plain", "first" (x.66600) or "later" (x.66601, ...)
  NFrags,           \* number of fragments of the file an entry stands for
  Start,            \* Start[e][k]: address where fragment k of e begins
  CopyMode,         \* copy_mode: 0 normal, 1 split files of BigFile or more
  MaxFastFiles,     \* MAX_FAST_FILES
  MaxFastFileSize,  \* MAX_FAST_FILE_SIZE, the size of a read buffer
  UsedMemLimit,     \* 0x2000000, queued buffer space that forces a flush
  BigFile,          \* 0x100000000, size from which a file is split
  GigaLimit,        \* 0x40000000, size after which a fragment is closed
  NoEntry           \* no entry is being added

FirstSize(e) == Start[e][1]
Total(e)     == Start[e][NFrags[e]]

ASSUME EntryAssumption ==
  /\ IsFiniteSet(Entry)
  /\ NoEntry \notin Entry
  /\ \A e \in Entry :
       /\ Kind[e] \in {"plain", "first", "later"}
       /\ NFrags[e] \in Nat \ {0}
       /\ Kind[e] # "first" => NFrags[e] = 1
       /\ \A k \in 0 .. NFrags[e] : Start[e][k] \in Nat
       /\ Start[e][0] = 0
       \* only a file of one fragment may be empty
       /\ NFrags[e] > 1 =>
            \A j, k \in 0 .. NFrags[e] : j < k => Start[e][j] < Start[e][k]
       \* the fragments of a split file, but the last, are larger than a buffer
       /\ NFrags[e] > 1 => FirstSize(e) >= MaxFastFileSize

ASSUME SizeAssumption ==
  /\ CopyMode \in {0, 1}
  /\ MaxFastFiles \in Nat \ {0}
  /\ MaxFastFileSize \in Nat \ {0}
  /\ UsedMemLimit \in Nat \ {0}
  /\ GigaLimit \in Nat \ {0}
  /\ BigFile \in Nat \ {0}
  /\ MaxFastFileSize <= BigFile

Slot   == 0 .. MaxFastFiles - 1
Closed == -1      \* a file descriptor that is not open
NoData == -1      \* an address nothing valid was stored at
NoId   == -1      \* a request id that is not valid
AnId   == 1       \* one that is
Null   == 0       \* mem before it is allocated and after it is freed
Buffer == 1

\* What a slot copies: its entry alone, or the join of all its fragments.
Want(e) == IF Kind[e] = "first" /\ CopyMode = 0 THEN Total(e) ELSE FirstSize(e)

VARIABLES
  pc,               \* where the main thread is
  pend,             \* the entry fast_copy_add is adding
  todo,             \* entries the caller has not queued yet
  \* the fields of fast_files[s], each as a function of the slot s
  entry,            \* what the slot copies (pathr, pathw)
  fl, len, mem, number_frag,
  readed, off_readed, rfd, roff, rsize, buf,         \* t_read, first half of mem
  writed, giga_counter, base, wfd, woff, wsize, bufw, \* t_write, second half
  fast_num_files, fast_used_mem, files_opened,
  current_fast_file_r, current_fast_file_w,
  fast_read, fast_writing,
  id_r, id_w,       \* the static ids of the two requests
  i_reading, error, \* locals of fast_copy_process
  abort_copy,       \* abort_copy # 0
  global_device_bytes,
  rio, wio,         \* the asynchronous read and write: "none", "busy", "post"
  rslot, wslot,     \* the slot (user_data) of each
  dst,              \* the destination files
  leaked,           \* read handles opened and then forgotten
  copied            \* entries whose copy the engine ended as complete

queue   == << pend, todo, fast_num_files, fast_used_mem, entry >>
source  == << readed, off_readed, rfd, roff, rsize, buf, len >>
dest    == << writed, giga_counter, base, wfd, woff, wsize, bufw >>
slots   == << fl, mem, number_frag, source, dest >>
process == << current_fast_file_r, current_fast_file_w, i_reading, error >>
reading == << fast_read, id_r, rio, rslot >>
writing == << fast_writing, id_w, wio, wslot >>
disk    == << dst, leaked, copied, files_opened, global_device_bytes >>
vars    == << pc, slots, abort_copy, queue, process, reading, writing, disk >>

Smaller(a, b) == IF a < b THEN a ELSE b

\* What fast_copy_add derives from the entry and nothing changes afterwards.
BigfileMode(e) ==
  IF CopyMode = 1 THEN IF FirstSize(e) >= BigFile THEN 1 ELSE 0
                  ELSE IF Kind[e] = "first"       THEN 2 ELSE 0

Mode(s)    == BigfileMode(entry[s])
Double(s)  == FirstSize(entry[s]) >= MaxFastFileSize         \* use_doublebuffer
SizeMem(s) == Smaller(FirstSize(entry[s]), MaxFastFileSize)  \* size_mem

-----------------------------------------------------------------------------
(***************************************************************************)
(* fast_copy_async(.., .., 1) and fast_copy_async(.., .., 0)               *)
(***************************************************************************)

Everywhere(v) == [s \in Slot |-> v]

Init ==
  /\ pc = "closed"
  /\ pend = NoEntry /\ todo = Entry
  /\ entry = Everywhere(NoEntry)
  /\ fl = Everywhere(0) /\ len = Everywhere(0)
  /\ mem = Everywhere(Null) /\ number_frag = Everywhere(0)
  /\ readed = Everywhere(0) /\ off_readed = Everywhere(0)
  /\ rfd = Everywhere(Closed) /\ roff = Everywhere(0) /\ rsize = Everywhere(0)
  /\ writed = Everywhere(0) /\ giga_counter = Everywhere(0) /\ base = Everywhere(0)
  /\ wfd = Everywhere(Closed) /\ woff = Everywhere(0) /\ wsize = Everywhere(0)
  /\ buf = Everywhere(NoData) /\ bufw = Everywhere(NoData)
  /\ fast_num_files = 0 /\ fast_used_mem = 0 /\ files_opened = 0
  /\ current_fast_file_r = 0 /\ current_fast_file_w = 0
  /\ fast_read = 0 /\ fast_writing = 0
  /\ id_r = NoId /\ id_w = NoId
  /\ i_reading = 0 /\ error = 0
  /\ abort_copy = FALSE
  /\ global_device_bytes = 0
  /\ rio = "none" /\ wio = "none" /\ rslot = 0 /\ wslot = 0
  /\ dst = [e \in Entry |-> [a \in 0 .. Total(e) - 1 |-> NoData]]
  /\ leaked = 0 /\ copied = {}

AsyncOpen ==
  /\ pc = "closed"
  /\ pc' = "idle"
  /\ UNCHANGED << slots, abort_copy, queue, process, reading, writing, disk >>

\* cellFsAioInit or the allocation fails: the caller gives up (abort_copy = 665)
AsyncOpenFails ==
  /\ pc = "closed"
  /\ pc' = "over"
  /\ abort_copy' = TRUE
  /\ UNCHANGED << slots, queue, process, reading, writing, disk >>

AsyncClose ==
  /\ pc = "drained"
  /\ pc' = "over"
  /\ fast_num_files' = 0 /\ fast_used_mem' = 0 /\ files_opened' = 0
  /\ fast_read' = 0 /\ fast_writing' = 0
  /\ current_fast_file_r' = 0 /\ current_fast_file_w' = 0
  /\ UNCHANGED << pend, todo, entry, slots, abort_copy, i_reading, error, id_r, rio,
                  rslot, id_w, wio, wslot, dst, leaked, copied, global_device_bytes >>

-----------------------------------------------------------------------------
(***************************************************************************)
(* fast_copy_add                                                           *)
(***************************************************************************)

\* Wrong variant: the size of the queue is not checked.
Full_Unchecked == fast_used_mem >= UsedMemLimit

Full == fast_num_files >= MaxFastFiles \/ fast_used_mem >= UsedMemLimit

\* The caller adds the next entry; a full queue is first copied.
AddCall(e) ==
  /\ pc = "idle" /\ ~abort_copy /\ e \in todo
  /\ todo' = todo \ {e}
  /\ pend' = e
  /\ IF Full
       THEN pc' = "loop" /\ i_reading' = 0 /\ error' = 0
       ELSE pc' = "add" /\ UNCHANGED << i_reading, error >>
  /\ UNCHANGED << slots, abort_copy, entry, fast_num_files, fast_used_mem,
                  current_fast_file_r, current_fast_file_w, reading, writing, disk >>

AddReturn ==
  /\ pc' = "idle" /\ pend' = NoEntry
  /\ UNCHANGED << todo, process, reading, writing >>

\* x.66601 and later: "ignore this file"
AddIgnored ==
  /\ pc = "add" /\ Kind[pend] = "later"
  /\ AddReturn
  /\ UNCHANGED << slots, abort_copy, entry, fast_num_files, fast_used_mem, disk >>

\* stat, the creation of an empty file or the allocation of mem fails
AddFails ==
  /\ pc = "add" /\ Kind[pend] # "later"
  /\ AddReturn
  /\ abort_copy' = TRUE
  /\ UNCHANGED << slots, entry, fast_num_files, fast_used_mem, disk >>

AddEmpty ==
  /\ pc = "add" /\ Kind[pend] # "later" /\ FirstSize(pend) = 0
  /\ AddReturn
  /\ copied' = copied \cup {pend}
  /\ UNCHANGED << slots, abort_copy, entry, fast_num_files, fast_used_mem,
                  dst, leaked, files_opened, global_device_bytes >>

AddQueued ==
  /\ pc = "add" /\ Kind[pend] # "later" /\ FirstSize(pend) > 0
  /\ AddReturn
  /\ LET s == fast_num_files
     IN /\ entry' = [entry EXCEPT ![s] = pend]
        /\ fl' = [fl EXCEPT ![s] = 1]
        /\ len' = [len EXCEPT ![s] = FirstSize(pend)]
        /\ mem' = [mem EXCEPT ![s] = Buffer]
        /\ number_frag' = [number_frag EXCEPT ![s] = 0]
        /\ readed' = [readed EXCEPT ![s] = 0]
        /\ writed' = [writed EXCEPT ![s] = 0]
        /\ giga_counter' = [giga_counter EXCEPT ![s] = 0]
        /\ base' = [base EXCEPT ![s] = 0]
        /\ rfd' = [rfd EXCEPT ![s] = Closed]
        /\ wfd' = [wfd EXCEPT ![s] = Closed]
  /\ fast_used_mem' = fast_used_mem + Smaller(FirstSize(pend), MaxFastFileSize)
  /\ fast_num_files' = fast_num_files + 1
  /\ UNCHANGED << abort_copy, off_readed, roff, rsize, buf, woff, wsize, bufw, disk >>

-----------------------------------------------------------------------------
(***************************************************************************)
(* fast_copy_process: the loop of the main thread                          *)
(***************************************************************************)

\* The caller has walked the directory, or gave up, and flushes the queue.
ProcessCall ==
  /\ pc = "idle" /\ (todo = {} \/ abort_copy)
  /\ pc' = "loop"
  /\ i_reading' = 0 /\ error' = 0
  /\ UNCHANGED << slots, abort_copy, queue, current_fast_file_r, current_fast_file_w,
                  reading, writing, disk >>

r == current_fast_file_r
w == current_fast_file_w

\* Wrong variant: the loop ends once the last file has been read.
Continue_ReaderDone == (r < fast_num_files \/ fast_read # 0) /\ ~abort_copy

Continue == (w < fast_num_files \/ fast_writing # 0) /\ ~abort_copy

CanOpen == r < fast_num_files /\ fl[r] = 1 /\ i_reading = 0 /\ fast_read = 0

Break(code) == pc' = "cancelw" /\ error' = code

LoopEnd ==
  /\ pc = "loop" /\ ~Continue
  /\ pc' = "cancelw"
  /\ UNCHANGED << slots, abort_copy, queue, process, reading, writing, disk >>

LoopNothingToOpen ==
  /\ pc = "loop" /\ Continue /\ ~CanOpen
  /\ pc' = "rend"
  /\ UNCHANGED << slots, abort_copy, queue, process, reading, writing, disk >>

\* The fields every attempt to open the files of a slot resets first.
ResetSlot == /\ readed' = [readed EXCEPT ![r] = 0]
             /\ writed' = [writed EXCEPT ![r] = 0]
             /\ off_readed' = [off_readed EXCEPT ![r] = 0]

OpenFailsRead ==
  /\ pc = "loop" /\ Continue /\ CanOpen
  /\ ResetSlot
  /\ Break(-1)
  /\ UNCHANGED << fl, mem, number_frag, len, rfd, roff, rsize, buf,
                  giga_counter, base, wfd, woff, wsize, bufw, abort_copy, queue,
                  current_fast_file_r, current_fast_file_w, i_reading,
                  reading, writing, disk >>

\* The read handle is only stored after both opens, and is lost here.
OpenFailsWrite ==
  /\ pc = "loop" /\ Continue /\ CanOpen
  /\ ResetSlot
  /\ Break(-2)
  /\ leaked' = leaked + 1
  /\ files_opened' = files_opened + 1
  /\ UNCHANGED << fl, mem, number_frag, len, rfd, roff, rsize, buf,
                  giga_counter, base, wfd, woff, wsize, bufw, abort_copy, queue,
                  current_fast_file_r, current_fast_file_w, i_reading,
                  reading, writing, dst, copied, global_device_bytes >>

\* Both files are open, the destination is truncated, the first read is set up.
OpenFiles ==
  /\ pc = "loop" /\ Continue /\ CanOpen
  /\ ResetSlot
  /\ fl' = [fl EXCEPT ![r] = 2]
  /\ rfd' = [rfd EXCEPT ![r] = 0]
  /\ wfd' = [wfd EXCEPT ![r] = 0]
  /\ roff' = [roff EXCEPT ![r] = 0]
  /\ woff' = [woff EXCEPT ![r] = 0]
  /\ rsize' = [rsize EXCEPT ![r] = Smaller(len[r], SizeMem(r))]
  /\ buf' = [buf EXCEPT ![r] = NoData]
  /\ files_opened' = files_opened + 2
  /\ dst' = [dst EXCEPT ![entry[r]] = [a \in 0 .. Total(entry[r]) - 1 |-> NoData]]
  /\ UNCHANGED << mem, number_frag, len, giga_counter, base, wsize, bufw, abort_copy,
                  queue, current_fast_file_r, current_fast_file_w,
                  writing, leaked, copied, global_device_bytes >>

OpenReads ==
  /\ OpenFiles
  /\ fast_read' = 1 /\ id_r' = AnId /\ rio' = "busy" /\ rslot' = r
  /\ i_reading' = 1
  /\ pc' = "rend" /\ UNCHANGED error

OpenFailsAio ==
  /\ OpenFiles
  /\ fast_read' = 0 /\ id_r' = NoId /\ UNCHANGED << rio, rslot, i_reading >>
  /\ Break(-3)

-----------------------------------------------------------------------------
(***************************************************************************)
(* "fast read end": a finished read becomes a write, and the next read of  *)
(* the file, or of its next fragment, is started.                          *)
(***************************************************************************)

ReadEnded == r < fast_num_files /\ fl[r] = 3 /\ fast_writing = 0

ReadNotEnded ==
  /\ pc = "rend" /\ ~ReadEnded
  /\ pc' = "wend"
  /\ UNCHANGED << slots, abort_copy, queue, process, reading, writing, disk >>

\* Wrong variants: the memcpy is missing; the size of the buffer is written.
ToWrite_NoMemcpy ==
  /\ wsize' = [wsize EXCEPT ![r] = rsize[r]]
  /\ woff' = [woff EXCEPT ![r] =
                IF Double(r) /\ Mode(r) = 1 THEN giga_counter[r] ELSE writed[r]]
  /\ current_fast_file_w' = r
  /\ UNCHANGED << mem, writed, giga_counter, base, wfd, bufw, abort_copy, queue >>
ToWrite_WholeBuffer ==
  /\ wsize' = [wsize EXCEPT ![r] = SizeMem(r)]
  /\ woff' = [woff EXCEPT ![r] =
                IF Double(r) /\ Mode(r) = 1 THEN giga_counter[r] ELSE writed[r]]
  /\ bufw' = IF Double(r) THEN [bufw EXCEPT ![r] = buf[r]] ELSE bufw
  /\ current_fast_file_w' = r
  /\ UNCHANGED << mem, writed, giga_counter, base, wfd, abort_copy, queue >>

\* The write of what was just read: a double buffered file copies it to the
\* second half of mem, so that the next read may use the first half.
ToWrite ==
  /\ wsize' = [wsize EXCEPT ![r] = rsize[r]]
  /\ woff' = [woff EXCEPT ![r] =
                IF Double(r) /\ Mode(r) = 1 THEN giga_counter[r] ELSE writed[r]]
  /\ bufw' = IF Double(r) THEN [bufw EXCEPT ![r] = buf[r]] ELSE bufw
  /\ current_fast_file_w' = r
  /\ UNCHANGED << mem, writed, giga_counter, base, wfd, abort_copy, queue >>

WriteStarts == /\ ToWrite
               /\ fast_writing' = 1 /\ id_w' = AnId
               /\ wio' = "busy" /\ wslot' = r

WriteFails ==
  /\ pc = "rend" /\ ReadEnded
  /\ ToWrite
  /\ fast_writing' = 0 /\ id_w' = NoId /\ UNCHANGED << wio, wslot >>
  /\ id_r' = NoId
  /\ Break(-4)
  /\ UNCHANGED << fl, number_frag, source, current_fast_file_r, i_reading,
                  fast_read, rio, rslot, disk >>

\* Wrong variant: i_reading is not reset.
NextFile_StillReading ==
  /\ WriteStarts
  /\ current_fast_file_r' = r + 1
  /\ id_r' = NoId
  /\ pc' = "wend"
  /\ UNCHANGED << i_reading, error, fast_read, rio, rslot, disk >>

\* The file is read to its end: on to the next slot.
NextFile ==
  /\ WriteStarts
  /\ current_fast_file_r' = r + 1
  /\ i_reading' = 0
  /\ id_r' = NoId
  /\ pc' = "wend"
  /\ UNCHANGED << error, fast_read, rio, rslot, disk >>

SingleBuffer ==
  /\ pc = "rend" /\ ReadEnded /\ ~Double(r)
  /\ NextFile
  /\ UNCHANGED << fl, number_frag, source >>

DoubleLast ==
  /\ pc = "rend" /\ ReadEnded /\ Double(r)
  /\ readed[r] >= len[r] /\ Mode(r) # 2
  /\ NextFile
  /\ fl' = [fl EXCEPT ![r] = 5]
  /\ UNCHANGED << number_frag, source >>

\* Joining: the next fragment does not exist, the file is complete.
DoubleJoined ==
  /\ pc = "rend" /\ ReadEnded /\ Double(r)
  /\ readed[r] >= len[r] /\ Mode(r) = 2
  /\ number_frag[r] + 1 >= NFrags[entry[r]]
  /\ NextFile
  /\ number_frag' = [number_frag EXCEPT ![r] = @ + 1]
  /\ off_readed' = [off_readed EXCEPT ![r] = readed[r]]
  /\ UNCHANGED << fl, readed, rfd, roff, rsize, buf, len >>

ReadStarts ==
  /\ fast_read' = 1 /\ id_r' = AnId /\ rio' = "busy" /\ rslot' = r
  /\ UNCHANGED error

ReadFailsToStart ==
  /\ fast_read' = 0 /\ id_r' = NoId /\ UNCHANGED << rio, rslot >>
  /\ error' = -3

\* More of the open file: fl is set before the read is requested.
DoubleMore ==
  /\ pc = "rend" /\ ReadEnded /\ Double(r) /\ readed[r] < len[r]
  /\ WriteStarts
  /\ fl' = [fl EXCEPT ![r] = 2]
  /\ buf' = [buf EXCEPT ![r] = NoData]
  /\ rsize' = [rsize EXCEPT ![r] = Smaller(len[r] - readed[r], SizeMem(r))]
  /\ roff' = [roff EXCEPT ![r] = readed[r] - off_readed[r]]
  /\ \/ ReadStarts /\ pc' = "wend"
     \/ ReadFailsToStart /\ pc' = "cancelw"
  /\ UNCHANGED << number_frag, readed, off_readed, rfd, len,
                  current_fast_file_r, i_reading, disk >>

\* Joining: the fragment is read to its end, the next one exists.
NextFragment ==
  /\ pc = "rend" /\ ReadEnded /\ Double(r)
  /\ readed[r] >= len[r] /\ Mode(r) = 2
  /\ number_frag[r] + 1 < NFrags[entry[r]]
  /\ WriteStarts
  /\ number_frag' = [number_frag EXCEPT ![r] = @ + 1]
  /\ off_readed' = [off_readed EXCEPT ![r] = readed[r]]
  /\ UNCHANGED << fl, readed, current_fast_file_r, i_reading >>

JoinFailsOpen ==
  /\ NextFragment
  /\ rfd' = [rfd EXCEPT ![r] = Closed]
  /\ files_opened' = files_opened - 1
  /\ id_r' = NoId
  /\ Break(-1)
  /\ UNCHANGED << len, roff, rsize, buf, fast_read, rio, rslot,
                  dst, leaked, copied, global_device_bytes >>

\* The next fragment is open and its read requested; fl is set only afterwards.
JoinMore ==
  /\ NextFragment
  /\ LET k       == number_frag[r] + 1
         fragLen == Start[entry[r]][k + 1] - Start[entry[r]][k]
     IN /\ rfd' = [rfd EXCEPT ![r] = k]
        /\ len' = [len EXCEPT ![r] = @ + fragLen]
        /\ rsize' = [rsize EXCEPT ![r] = Smaller(len[r] + fragLen - readed[r], SizeMem(r))]
  /\ roff' = [roff EXCEPT ![r] = 0]
  /\ buf' = [buf EXCEPT ![r] = NoData]
  /\ \/ ReadStarts /\ pc' = "join"
     \/ ReadFailsToStart /\ pc' = "cancelw"
  /\ UNCHANGED disk

JoinSetsFl ==
  /\ pc = "join"
  /\ fl' = [fl EXCEPT ![r] = 2]
  /\ pc' = "wend"
  /\ UNCHANGED << mem, number_frag, source, dest, abort_copy, queue, process,
                  reading, writing, disk >>

-----------------------------------------------------------------------------
(***************************************************************************)
(* "fast write end"                                                        *)
(***************************************************************************)

WriteEnded == fast_writing > 1

WriteNotEnded ==
  /\ pc = "wend" /\ ~WriteEnded
  /\ pc' = "pad"
  /\ UNCHANGED << slots, abort_copy, queue, process, reading, writing, disk >>

WriteAcknowledged ==
  /\ pc = "wend" /\ WriteEnded
  /\ fast_writing' = 0 /\ id_w' = NoId
  /\ UNCHANGED << wio, wslot, abort_copy, queue, current_fast_file_r, i_reading, reading >>

WriteError ==
  /\ WriteAcknowledged
  /\ writed[w] < 0
  /\ Break(-4)
  /\ UNCHANGED << slots, current_fast_file_w, disk >>

\* Wrong variant: closing the destination is not counted.
OpenHandles_ReadOnly == IF rfd[w] # Closed THEN 1 ELSE 0

OpenHandles == (IF rfd[w] # Closed THEN 1 ELSE 0) + (IF wfd[w] # Closed THEN 1 ELSE 0)

\* Wrong variant: the next file to write is not the next one.
FileDone_NotNext ==
  /\ WriteAcknowledged
  /\ writed[w] >= 0 /\ writed[w] >= len[w]
  /\ files_opened' = files_opened - OpenHandles
  /\ rfd' = [rfd EXCEPT ![w] = Closed]
  /\ wfd' = [wfd EXCEPT ![w] = Closed]
  /\ fl' = [fl EXCEPT ![w] = 4]
  /\ writed' = [writed EXCEPT ![w] = -1]
  /\ copied' = copied \cup {entry[w]}
  /\ pc' = "pad"
  /\ UNCHANGED << mem, number_frag, readed, off_readed, roff, rsize, buf, len, giga_counter, base,
                  woff, wsize, bufw, error, dst, leaked, global_device_bytes, current_fast_file_w >>

FileDone ==
  /\ WriteAcknowledged
  /\ writed[w] >= 0 /\ writed[w] >= len[w]
  /\ files_opened' = files_opened - OpenHandles
  /\ rfd' = [rfd EXCEPT ![w] = Closed]
  /\ wfd' = [wfd EXCEPT ![w] = Closed]
  /\ fl' = [fl EXCEPT ![w] = 4]
  /\ writed' = [writed EXCEPT ![w] = -1]
  /\ copied' = copied \cup {entry[w]}
  /\ current_fast_file_w' = w + 1
  /\ pc' = "pad"
  /\ UNCHANGED << mem, number_frag, readed, off_readed, roff, rsize, buf, len, giga_counter,
                  base, woff, wsize, bufw, error, dst, leaked, global_device_bytes >>

SplitNow == /\ writed[w] >= 0 /\ writed[w] < len[w]
            /\ Mode(w) = 1 /\ giga_counter[w] >= GigaLimit

\* Wrong variant: giga_counter is not reset.
Rolled_NoReset ==
  /\ number_frag' = [number_frag EXCEPT ![w] = @ + 1]
  /\ base' = [base EXCEPT ![w] = @ + woff[w] + wsize[w]]
  /\ UNCHANGED << giga_counter, fl, mem, source, writed, woff, wsize, bufw,
                  current_fast_file_w, dst, leaked, copied, global_device_bytes >>

\* A full fragment is closed and the next one is to be created.
Rolled ==
  /\ giga_counter' = [giga_counter EXCEPT ![w] = 0]
  /\ number_frag' = [number_frag EXCEPT ![w] = @ + 1]
  /\ base' = [base EXCEPT ![w] = @ + woff[w] + wsize[w]]
  /\ UNCHANGED << fl, mem, source, writed, woff, wsize, bufw, current_fast_file_w,
                  dst, leaked, copied, global_device_bytes >>

SplitNext ==
  /\ WriteAcknowledged
  /\ SplitNow
  /\ Rolled
  /\ pc' = "pad"
  /\ UNCHANGED << wfd, error, files_opened >>

SplitFails ==
  /\ WriteAcknowledged
  /\ SplitNow
  /\ Rolled
  /\ wfd' = [wfd EXCEPT ![w] = Closed]
  /\ files_opened' = files_opened - 1
  /\ Break(-2)

WriteMore ==
  /\ WriteAcknowledged
  /\ writed[w] >= 0 /\ writed[w] < len[w] /\ ~SplitNow
  /\ pc' = "pad"
  /\ UNCHANGED << slots, current_fast_file_w, error, disk >>

PadContinue ==
  /\ pc = "pad"
  /\ pc' = "loop"
  /\ UNCHANGED << slots, abort_copy, queue, process, reading, writing, disk >>

\* The user presses triangle.
PadAbort ==
  /\ pc = "pad"
  /\ abort_copy' = TRUE
  /\ Break(-666)
  /\ UNCHANGED << slots, queue, current_fast_file_r, current_fast_file_w, i_reading,
                  reading, writing, disk >>

-----------------------------------------------------------------------------
(***************************************************************************)
(* After the loop: cancel what is in flight, sleep 200 ms, free the slots. *)
(* The sleep is all the loop waits for: a request that can no longer be    *)
(* cancelled may go on when it is over, and its callback may run at any    *)
(* time later, when the handle is closed, the buffer is freed and the      *)
(* flags are cleared.                                                      *)
(***************************************************************************)

\* Wrong variant: a write in flight is neither cancelled nor waited for.
CancelWrite_Missing ==
  /\ pc = "cancelw"
  /\ pc' = "cancelr" /\ fast_writing' = 0
  /\ UNCHANGED << slots, abort_copy, queue, process, reading, id_w, wio, wslot, disk >>

\* cellFsAioCancel either withdraws the request or comes too late.
CancelWrite ==
  /\ pc = "cancelw"
  /\ IF fast_writing = 1 /\ id_w # NoId
       THEN /\ pc' = "sleepw" /\ id_w' = NoId
            /\ (wio' = wio \/ (wio = "busy" /\ wio' = "none"))
            /\ UNCHANGED fast_writing
       ELSE /\ pc' = "cancelr" /\ fast_writing' = 0
            /\ UNCHANGED << id_w, wio >>
  /\ UNCHANGED << slots, abort_copy, queue, process, reading, wslot, disk >>

SleepWrite ==
  /\ pc = "sleepw"
  /\ pc' = "cancelr" /\ fast_writing' = 0
  /\ UNCHANGED << slots, abort_copy, queue, process, reading, id_w, wio, wslot, disk >>

CancelRead ==
  /\ pc = "cancelr"
  /\ IF fast_read = 1 /\ id_r # NoId
       THEN /\ pc' = "sleepr" /\ id_r' = NoId
            /\ (rio' = rio \/ (rio = "busy" /\ rio' = "none"))
            /\ UNCHANGED fast_read
       ELSE /\ pc' = "free" /\ fast_read' = 0
            /\ UNCHANGED << id_r, rio >>
  /\ UNCHANGED << slots, abort_copy, queue, process, rslot, writing, disk >>

SleepRead ==
  /\ pc = "sleepr"
  /\ pc' = "free" /\ fast_read' = 0
  /\ UNCHANGED << slots, abort_copy, queue, process, id_r, rio, rslot, writing, disk >>

Handles(n) == { s \in Slot : s < n /\ rfd[s] # Closed } \X {"r"}
              \cup { s \in Slot : s < n /\ wfd[s] # Closed } \X {"w"}

\* Close the handles, free the buffers, return to fast_copy_add or the caller.
Free ==
  /\ pc = "free"
  /\ rfd' = [s \in Slot |-> IF s < fast_num_files THEN Closed ELSE rfd[s]]
  /\ wfd' = [s \in Slot |-> IF s < fast_num_files THEN Closed ELSE wfd[s]]
  /\ mem' = [s \in Slot |-> IF s < fast_num_files THEN Null ELSE mem[s]]
  /\ files_opened' = files_opened - Cardinality(Handles(fast_num_files))
  /\ fast_num_files' = 0 /\ fast_used_mem' = 0 /\ fast_writing' = 0
  /\ current_fast_file_r' = 0 /\ current_fast_file_w' = 0
  /\ abort_copy' = (abort_copy \/ error # 0)
  /\ IF pend = NoEntry THEN pc' = "drained" /\ UNCHANGED pend
     ELSE IF abort_copy' THEN pc' = "idle" /\ pend' = NoEntry
     ELSE pc' = "add" /\ UNCHANGED pend
  /\ UNCHANGED << fl, number_frag, readed, off_readed, roff, rsize, buf, len, writed,
                  giga_counter, base, woff, wsize, bufw, todo, entry, i_reading, error,
                  reading, id_w, wio, wslot, dst, leaked, copied, global_device_bytes >>

-----------------------------------------------------------------------------
(***************************************************************************)
(* The completion callbacks, on the I/O threads                            *)
(***************************************************************************)

mainVars == << pc, mem, number_frag, off_readed, rfd, roff, rsize, len, base, wfd, woff,
               wsize, bufw, abort_copy, queue, process, leaked, copied, files_opened >>

\* fast_func_read, first half: the data is in the buffer, fast_read is cleared.
ReadDone ==
  /\ rio = "busy" /\ rfd[rslot] # Closed
  /\ LET from == Start[entry[rslot]][rfd[rslot]] + roff[rslot]
     IN /\ from + rsize[rslot] <= Start[entry[rslot]][rfd[rslot] + 1]
        /\ buf' = [buf EXCEPT ![rslot] = from]
  /\ readed' = [readed EXCEPT ![rslot] = @ + rsize[rslot]]
  /\ fast_read' = 0
  /\ rio' = "post"
  /\ UNCHANGED << mainVars, fl, writed, giga_counter, id_r, rslot, writing,
                  dst, global_device_bytes >>

\* The same for a read that has outlasted its handle and its buffer: nobody uses its data.
ReadDoneLate ==
  /\ rio = "busy" /\ rfd[rslot] = Closed
  /\ readed' = [readed EXCEPT ![rslot] = @ + rsize[rslot]]
  /\ fast_read' = 0
  /\ rio' = "post"
  /\ UNCHANGED << mainVars, fl, buf, writed, giga_counter, id_r, rslot, writing,
                  dst, global_device_bytes >>

\* second half
ReadSignal ==
  /\ rio = "post"
  /\ fl' = [fl EXCEPT ![rslot] = 3]
  /\ rio' = "none"
  /\ UNCHANGED << mainVars, readed, buf, writed, giga_counter, fast_read, id_r, rslot,
                  writing, dst, global_device_bytes >>

\* The read fails or is short: fast_func_read returns without touching fl.
ReadFailed ==
  /\ rio = "busy"
  /\ readed' = [readed EXCEPT ![rslot] = -1]
  /\ rio' = "none"
  /\ UNCHANGED << mainVars, fl, buf, writed, giga_counter, fast_read, id_r, rslot,
                  writing, dst, global_device_bytes >>

\* What the write requested by slot s takes from its buffer: what is there, or anything once
\* the buffer is freed.
InBuffer(s) == { IF Double(s) THEN bufw[s] ELSE buf[s] }
               \cup (IF mem[s] = Null THEN {NoData} ELSE {})

\* The destination d of that write after it is carried out.
Written(d, s, data) ==
  LET at == base[s] + woff[s]
  IN [ a \in 0 .. Total(entry[s]) - 1 |->
         IF at <= a /\ a < at + wsize[s]
           THEN IF data = NoData THEN NoData ELSE data + (a - at)
           ELSE d[a] ]

\* fast_func_write, up to the assignment of fast_writing
WriteDone ==
  /\ wio = "busy"
  /\ writed' = [writed EXCEPT ![wslot] = @ + wsize[wslot]]
  /\ giga_counter' = [giga_counter EXCEPT ![wslot] = @ + wsize[wslot]]
  /\ global_device_bytes' = global_device_bytes + wsize[wslot]
  /\ \E data \in InBuffer(wslot) :
       dst' = [dst EXCEPT ![entry[wslot]] = Written(@, wslot, data)]
  /\ wio' = "post"
  /\ UNCHANGED << mainVars, fl, readed, buf, reading, fast_writing, id_w, wslot >>

WriteFailed ==
  /\ wio = "busy"
  /\ writed' = [writed EXCEPT ![wslot] = -1]
  /\ wio' = "post"
  /\ UNCHANGED << mainVars, fl, readed, buf, giga_counter, reading, fast_writing, id_w,
                  wslot, dst, global_device_bytes >>

WriteSignal ==
  /\ wio = "post"
  /\ fast_writing' = 2
  /\ wio' = "none"
  /\ UNCHANGED << mainVars, fl, readed, buf, writed, giga_counter, reading, id_w, wslot,
                  dst, global_device_bytes >>

-----------------------------------------------------------------------------

Adding   == \/ \E e \in Entry : AddCall(e)
            \/ AddIgnored \/ AddFails \/ AddEmpty \/ AddQueued
Opening  == \/ LoopEnd \/ LoopNothingToOpen
            \/ OpenFailsRead \/ OpenFailsWrite \/ OpenReads \/ OpenFailsAio
ReadEnd  == \/ ReadNotEnded \/ WriteFails \/ SingleBuffer \/ DoubleLast \/ DoubleJoined
            \/ DoubleMore \/ JoinFailsOpen \/ JoinMore \/ JoinSetsFl
WriteEnd == \/ WriteNotEnded \/ WriteError \/ FileDone \/ SplitNext \/ SplitFails
            \/ WriteMore
Leaving  == \/ CancelWrite \/ SleepWrite \/ CancelRead \/ SleepRead \/ Free

Main == \/ AsyncOpen \/ AsyncOpenFails \/ AsyncClose
        \/ Adding \/ ProcessCall
        \/ Opening \/ ReadEnd \/ WriteEnd \/ PadContinue \/ PadAbort \/ Leaving

ReadIO  == ReadDone \/ ReadDoneLate \/ ReadSignal \/ ReadFailed
WriteIO == WriteDone \/ WriteFailed \/ WriteSignal

Next == Main \/ ReadIO \/ WriteIO

Spec == Init /\ [][Next]_vars

\* The main thread and the I/O threads keep running.  Nothing is assumed of the
\* user or of the outcome of a request.
FairSpec == Spec /\ WF_vars(Main) /\ WF_vars(ReadIO) /\ WF_vars(WriteIO)

-----------------------------------------------------------------------------

Caller == { "closed", "idle", "add", "drained", "over" }
Active == { "loop", "rend", "join", "wend", "pad" }
Leave  == { "cancelw", "sleepw", "cancelr", "sleepr", "free" }

SlotsOK ==
  /\ entry \in [Slot -> Entry \cup {NoEntry}]
  /\ fl \in [Slot -> 0 .. 5] /\ len \in [Slot -> Int]
  /\ mem \in [Slot -> {Null, Buffer}] /\ number_frag \in [Slot -> Int]
  /\ readed \in [Slot -> Int] /\ off_readed \in [Slot -> Int]
  /\ rfd \in [Slot -> Int] /\ roff \in [Slot -> Int] /\ rsize \in [Slot -> Int]
  /\ writed \in [Slot -> Int] /\ giga_counter \in [Slot -> Int] /\ base \in [Slot -> Int]
  /\ wfd \in [Slot -> Int] /\ woff \in [Slot -> Int] /\ wsize \in [Slot -> Int]
  /\ buf \in [Slot -> Int] /\ bufw \in [Slot -> Int]

ControlOK ==
  /\ pc \in Caller \cup Active \cup Leave
  /\ pend \in Entry \cup {NoEntry} /\ todo \in SUBSET Entry
  /\ fast_num_files \in 0 .. MaxFastFiles /\ fast_used_mem \in Int /\ files_opened \in Int
  /\ current_fast_file_r \in 0 .. MaxFastFiles /\ current_fast_file_w \in 0 .. MaxFastFiles
  /\ fast_read \in {0, 1} /\ fast_writing \in {0, 1, 2}
  /\ id_r \in {NoId, AnId} /\ id_w \in {NoId, AnId} /\ i_reading \in {0, 1}
  /\ error \in {0, -1, -2, -3, -4, -666}
  /\ abort_copy \in BOOLEAN /\ global_device_bytes \in Int
  /\ rio \in {"none", "busy", "post"} /\ wio \in {"none", "busy", "post"}
  /\ rslot \in Slot /\ wslot \in Slot
  /\ leaked \in Nat /\ copied \in SUBSET Entry

DestinationOK ==
  /\ DOMAIN dst = Entry
  /\ \A e \in Entry : dst[e] \in [0 .. Total(e) - 1 -> Int]

TypeOK == SlotsOK /\ ControlOK /\ DestinationOK

\* The destination of e holds what the engine was asked to copy for e.
Faithful(e) == \A a \in 0 .. Want(e) - 1 : dst[e][a] = a

\* A file the engine ended as complete (fl = 4) is a copy of its source: no block
\* is lost, swapped between the two buffer halves or put at a wrong offset, in a
\* plain, a split and a joined copy (fast_copy_process).
CopyFaithful == \A e \in copied : Faithful(e)

\* No request runs on a handle that is closed or a buffer that is freed, whatever error or abort
\* made the loop stop, but one that was cancelled and has outlasted the 200 ms that follow; and
\* then the caller is told that the copy failed (the cancellations before the final free).
FreedWhenOver ==
  /\ rio = "busy" => \/ mem[rslot] = Buffer /\ rfd[rslot] # Closed
                     \/ id_r = NoId /\ abort_copy
  /\ wio = "busy" => \/ mem[wslot] = Buffer /\ wfd[wslot] # Closed
                     \/ id_w = NoId /\ abort_copy

\* files_opened counts the handles really open, the forgotten ones included, and a
\* copy that succeeds forgets none (fast_copy_process).
FilesOpenedExact ==
  /\ pc # "over" => files_opened = Cardinality(Handles(MaxFastFiles)) + leaked
  /\ pc = "drained" /\ ~abort_copy => files_opened = 0

\* When the engine returns without setting abort_copy, which is what makes a move
\* delete the source folder, every entry it did not ignore is copied.
SuccessMeansCopied ==
  pc = "drained" /\ ~abort_copy => \A e \in Entry : Kind[e] # "later" => e \in copied

\* A fragment of a split file stays below the limit of the file system, although
\* it is only closed after the write that reaches GigaLimit.
FragmentBound ==
  \A s \in Slot : s < fast_num_files /\ Mode(s) = 1 =>
    giga_counter[s] < GigaLimit + MaxFastFileSize

\* No fragment outgrows the limit of the destination's file system, and every handle that was
\* opened is closed or counted as forgotten.
FragmentsSound == FragmentBound /\ FilesOpenedExact

\* A read whose end nobody sees: its callback met an error and returned without touching fl; or
\* it is the first of a further fragment, and its callback had set fl before the loop, which sets
\* fl after the request, did so (JoinSetsFl).
ReadLost ==
  /\ rio = "none"
  /\ \/ fast_read = 1
     \/ r < fast_num_files /\ Mode(r) = 2 /\ number_frag[r] > 0 /\ roff[r] = 0 /\ fl[r] = 2

\* Once the engine runs it returns, unless the end of a read is lost, when the loop waits until
\* the user aborts it; and a copy that is aborted or has failed ends in any case.
CopyEnds ==
  /\ [](pc = "loop" => <>(pc = "free" \/ ReadLost))
  /\ [](abort_copy => <>(pc = "over"))

-----------------------------------------------------------------------------
Service == INSTANCE CopyService WITH
  Size <- [e \in Entry |-> Total(e)], Goal <- [e \in Entry |-> Want(e)], failed <- abort_copy

\* The engine implements the copy service.
Implements == Service!Spec

=============================================================================
