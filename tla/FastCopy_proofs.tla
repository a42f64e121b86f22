-------------------------- MODULE FastCopy_proofs --------------------------
(***************************************************************************)
(* Proofs about the copy engine for every set of entries and all sizes:    *)
(* type correctness, CopyFaithful, FreedWhenOver and                       *)
(* SuccessMeansCopied.  None of them is inductive; IInv, a conjunction of  *)
(* facts about the queue, the requests in flight and the slots the loop    *)
(* reads and writes, is.  The second half strengthens it further, to show  *)
(* that the engine implements CopyService and that FragmentsSound.         *)
(***************************************************************************)
EXTENDS FastCopy, FiniteSetTheorems, TLAPS

\* The loop runs and was not told to stop.
Act == pc \in Active /\ ~abort_copy

\* The slots in use are those below fast_num_files.
Used == { s \in Slot : s < fast_num_files }

\* A queued slot stands for a file that is not empty; queued, pending, waiting
\* and finished entries are different ones.
QueueInv ==
  /\ \A s \in Used : /\ entry[s] \in Entry /\ Kind[entry[s]] # "later"
                     /\ FirstSize(entry[s]) > 0
                     /\ mem[s] = Buffer
                     /\ entry[s] \notin todo /\ entry[s] # pend
  /\ \A s \in Used : \A t \in Used : entry[s] = entry[t] => s = t
  /\ pend \notin todo /\ pend \notin copied
  /\ todo \cap copied = {}
  /\ pc \in {"closed", "idle", "drained", "over"} => pend = NoEntry
  /\ pc = "add" => pend \in Entry /\ ~abort_copy /\ fast_num_files < MaxFastFiles
  /\ pc \in {"closed", "drained", "over"} => fast_num_files = 0

\* No entry is forgotten unless the copy fails.
CoverInv ==
  /\ error # 0 => abort_copy \/ pc \in Leave
  /\ \/ abort_copy \/ error # 0
     \/ \A e \in Entry : \/ Kind[e] = "later" \/ e \in todo \/ e = pend
                         \/ e \in copied \/ \E s \in Used : entry[s] = e
  /\ pend = NoEntry /\ pc \in Active \cup Leave \cup {"drained"} =>
       abort_copy \/ todo = {}

\* The loop has given up, and what it leaves behind will be reported as a failure.
GivenUp == abort_copy \/ (pc \in Leave /\ error # 0)

\* A write in flight belongs to a slot whose handle is open and whose buffer is allocated, and
\* the loop knows of it until it has ended or was cancelled; or it was cancelled and the copy
\* has failed.
WriteOwned ==
  /\ wslot = w /\ w \in Used /\ wfd[w] # Closed
  /\ pc \in Active \/ (pc \in Leave /\ GivenUp)
  /\ pc \in Active \cup {"cancelw", "sleepw"} => fast_writing = 1
  /\ pc \in Active \cup {"cancelw"} => id_w # NoId
  /\ pc \in Leave \ {"cancelw"} => id_w = NoId

\* The same for a read.
ReadOwned ==
  /\ rslot = r /\ r \in Used /\ rfd[r] \in 0 .. NFrags[entry[r]] - 1
  /\ pc \in Active \/ (pc \in Leave /\ GivenUp)
  /\ pc # "free" => fast_read = 1
  /\ pc \notin {"sleepr", "free"} => id_r # NoId
  /\ pc \in {"sleepr", "free"} => id_r = NoId

IOInv ==
  /\ wio # "none" =>
       /\ entry[wslot] \in Entry \ copied
       /\ WriteOwned \/ (abort_copy /\ id_w = NoId)
  /\ rio = "busy" =>
       /\ entry[rslot] \in Entry
       /\ rfd[rslot] = Closed \/ rfd[rslot] \in 0 .. NFrags[entry[rslot]] - 1
       /\ ReadOwned \/ (abort_copy /\ id_r = NoId)
  /\ rio # "none" => abort_copy \/ pc \in Active \/ (pc \in Leave /\ error # 0)

\* A slot that was queued and not opened yet.
Pristine(s) ==
  /\ fl[s] = 1 /\ len[s] = FirstSize(entry[s])
  /\ number_frag[s] = 0 /\ writed[s] = 0
  /\ giga_counter[s] = 0 /\ base[s] = 0

\* Outside fast_copy_process nothing is in flight and every slot is pristine, unless the copy
\* has failed.
CallerInv ==
  pc \in Caller =>
    /\ r = 0 /\ w = 0
    /\ ~abort_copy => /\ fast_read = 0 /\ fast_writing = 0
                      /\ \A s \in Used : Pristine(s) /\ entry[s] \notin copied

\* A loop that was told to stop before it started.
StoppedInv ==
  pc \in Active /\ abort_copy => pc = "loop"

\* After the loop: the flags are cleared in order, and a loop that ended without
\* an error has copied every slot.
LeaveInv ==
  /\ pc = "free" => fast_read = 0
  /\ pc \in Leave /\ error = 0 /\ ~abort_copy =>
       \A s \in Used : entry[s] \in copied

\* The bytes of slot s that were written or are being written.
Sent(s) == IF fast_writing # 0 /\ s = w THEN base[s] + woff[s] + wsize[s] ELSE writed[s]

\* Slots below w are finished, slots above r are pristine, and a write that is
\* not acknowledged is one of slot w, which is r or the slot before it.
WindowInv ==
  Act =>
    /\ r <= fast_num_files /\ w <= r
    /\ (fast_writing = 1) <=> (wio # "none")
    /\ fast_writing = 0 => r = w
    /\ fast_writing # 0 => w \in Used /\ (r = w \/ r = w + 1)
    /\ fast_writing # 0 /\ r = w => i_reading = 1
    /\ pc = "join" => fast_writing # 0 /\ i_reading = 1 /\ r = w
    /\ i_reading = 1 => r \in Used
    /\ i_reading = 0 => rio = "none" /\ fast_read = 0
    /\ rio # "none" => rslot = r
    /\ \A s \in Used : s > r \/ (s = r /\ i_reading = 0) => Pristine(s)
    /\ \A s \in Used : (s < w) <=> (entry[s] \in copied)

\* The slot being read: what is requested follows what was sent, within the
\* fragment that is open, and arrives in the buffer.
ReadInv ==
  Act /\ i_reading = 1 =>
    LET e == entry[r]
    IN /\ rfd[r] \in 0 .. NFrags[e] - 1 /\ wfd[r] # Closed
       /\ Mode(r) = 2 => number_frag[r] = rfd[r]
       /\ Mode(r) # 2 => rfd[r] = 0
       /\ off_readed[r] = Start[e][rfd[r]]
       /\ len[r] = Start[e][rfd[r] + 1]
       /\ Sent(r) >= 0 /\ rsize[r] > 0 /\ Sent(r) + rsize[r] <= len[r]
       /\ ~Double(r) => /\ Sent(r) = 0 /\ rsize[r] = len[r]
                        /\ fast_writing = 0 \/ r # w
       /\ rio = "busy" => /\ fast_read = 1 /\ readed[r] = Sent(r)
                          /\ off_readed[r] + roff[r] = Sent(r)
       /\ rio # "busy" => \/ /\ fast_read = 0 /\ readed[r] = Sent(r) + rsize[r]
                             /\ buf[r] = Sent(r)
                          \/ rio = "none" /\ fast_read = 1
       /\ fl[r] \in {2, 3}
       /\ fl[r] = 3 /\ pc # "join" => rio = "none" /\ fast_read = 0

\* What is on disk is the beginning of the source.
PrefixInv ==
  Act => \A s \in Used : s >= w /\ writed[s] >= 0 =>
           \A a \in 0 .. writed[s] - 1 : dst[entry[s]][a] = a

\* The counters of a slot agree, unless its last write failed.
CountInv ==
  Act =>
    /\ \A s \in Used : s >= w /\ (s = w => fast_writing = 0) => writed[s] >= 0
    /\ \A s \in Used : s >= w /\ writed[s] >= 0 /\ Mode(s) = 1 =>
                        base[s] + giga_counter[s] = writed[s]
    /\ \A s \in Used : s >= w /\ Mode(s) # 1 => base[s] = 0

\* The write in flight adds the next bytes of the source; the last one of a file
\* ends where the copy is to end.
WriteInv ==
  Act /\ fast_writing # 0 =>
    /\ wio = "busy" => /\ writed[w] >= 0 /\ base[w] + woff[w] = writed[w]
                       /\ (IF Double(w) THEN bufw[w] ELSE buf[w]) = writed[w]
    /\ wio # "busy" => writed[w] = -1 \/ writed[w] = Sent(w)
    /\ wsize[w] > 0 /\ Sent(w) <= Want(entry[w])
    /\ ~Double(w) => r = w + 1
    /\ r = w + 1 => Sent(w) = len[w] /\ len[w] = Want(entry[w])
    /\ wfd[w] # Closed

IInv ==
  /\ TypeOK /\ QueueInv /\ CoverInv /\ IOInv /\ CallerInv /\ StoppedInv /\ LeaveInv
  /\ WindowInv /\ ReadInv /\ PrefixInv /\ CountInv /\ WriteInv /\ CopyFaithful
-----------------------------------------------------------------------------
USE DEF r, w, Used, Closed, NoId, AnId, queue, source, dest, slots, process, reading, writing, disk,
        mainVars

\* What SizeAssumption says of the capacity of the queue and of the buffers.
LEMMA SizeFacts ==
  /\ MaxFastFiles \in Nat /\ MaxFastFiles > 0 /\ MaxFastFileSize \in Nat
  /\ MaxFastFileSize > 0 /\ BigFile \in Nat /\ MaxFastFileSize <= BigFile
  /\ GigaLimit \in Nat /\ UsedMemLimit \in Nat /\ CopyMode \in {0, 1}
BY SizeAssumption DEF SizeAssumption

\* An empty slot is not taken for an entry.
LEMMA NoEntryFact == NoEntry \notin Entry
BY EntryAssumption DEF EntryAssumption

\* What EntryAssumption says of the sizes of a source and of its fragments.
LEMMA EntryFacts ==
  ASSUME NEW e \in Entry
  PROVE  /\ e # NoEntry
         /\ NFrags[e] \in Nat /\ NFrags[e] > 0
         /\ \A k \in 0 .. NFrags[e] : Start[e][k] \in Nat /\ Start[e][k] <= Total(e)
         /\ Start[e][0] = 0
         /\ FirstSize(e) \in Nat /\ Total(e) \in Nat /\ Want(e) \in Nat
         /\ \A k \in 0 .. NFrags[e] - 1 :
              NFrags[e] > 1 => Start[e][k] < Start[e][k + 1]
         /\ FirstSize(e) <= Want(e) /\ Want(e) <= Total(e)
         /\ FirstSize(e) < MaxFastFileSize => NFrags[e] = 1 /\ Want(e) = FirstSize(e)
         /\ FirstSize(e) < MaxFastFileSize => BigfileMode(e) # 1
         /\ BigfileMode(e) \in {0, 1, 2}
         /\ BigfileMode(e) # 2 => Want(e) = FirstSize(e)
         /\ BigfileMode(e) = 2 => Want(e) = Total(e)
<1>1. /\ e # NoEntry /\ NFrags[e] \in Nat \ {0} /\ Start[e][0] = 0
      /\ \A k \in 0 .. NFrags[e] : Start[e][k] \in Nat
      /\ NFrags[e] > 1 => \A j, k \in 0 .. NFrags[e] : j < k => Start[e][j] < Start[e][k]
      /\ NFrags[e] > 1 => FirstSize(e) >= MaxFastFileSize
  BY EntryAssumption DEF EntryAssumption
<1>2. 1 \in 0 .. NFrags[e] /\ NFrags[e] \in 0 .. NFrags[e]
  BY <1>1
<1>3. \A k \in 0 .. NFrags[e] : Start[e][k] \in Nat /\ Start[e][k] <= Total(e)
  BY <1>1, <1>2 DEF Total
<1>4. \A k \in 0 .. NFrags[e] - 1 : NFrags[e] > 1 => Start[e][k] < Start[e][k + 1]
  BY <1>1
<1>5. FirstSize(e) \in Nat /\ Total(e) \in Nat /\ FirstSize(e) <= Total(e)
  BY <1>1, <1>2, <1>3 DEF FirstSize, Total
<1>6. NFrags[e] = 1 => Total(e) = FirstSize(e)
  BY DEF FirstSize, Total
<1>. QED
  BY <1>1, <1>3, <1>4, <1>5, <1>6, SizeFacts DEF Want, BigfileMode


\* A write leaves a destination of the same type.
LEMMA WrittenType ==
  ASSUME SlotsOK, DestinationOK, NEW s \in Slot, entry[s] \in Entry, NEW data \in InBuffer(s)
  PROVE  Written(dst[entry[s]], s, data) \in [0 .. Total(entry[s]) - 1 -> Int]
<1>1. /\ base[s] \in Int /\ woff[s] \in Int /\ wsize[s] \in Int
      /\ bufw[s] \in Int /\ buf[s] \in Int
  BY DEF SlotsOK
<1>. DEFINE at == base[s] + woff[s]
            size == Total(entry[s])
<1>2. at \in Int /\ data \in Int /\ size \in Int
  BY <1>1, EntryFacts DEF InBuffer, NoData
<1>3. dst[entry[s]] \in [0 .. size - 1 -> Int]
  BY DEF DestinationOK
<1>. HIDE DEF at, size
<1>4. ASSUME NEW a \in 0 .. size - 1
      PROVE  (IF at <= a /\ a < at + wsize[s]
                THEN IF data = NoData THEN NoData ELSE data + (a - at)
                ELSE dst[entry[s]][a]) \in Int
  <2>1. dst[entry[s]][a] \in Int
    BY <1>3
  <2>2. a \in Int
    BY <1>2
  <2>. QED
    BY <2>1, <2>2, <1>2 DEF NoData
<1>5. [ a \in 0 .. size - 1 |->
         IF at <= a /\ a < at + wsize[s]
           THEN IF data = NoData THEN NoData ELSE data + (a - at)
           ELSE dst[entry[s]][a] ] \in [0 .. size - 1 -> Int]
  BY <1>4
<1>. QED
  BY <1>5 DEF Written, at, size

\* Where the loop opens the files of slot r, nothing of that slot is in use yet.
OpenFacts ==
  /\ Act /\ r \in Used /\ r \in Slot /\ entry[r] \in Entry /\ entry[r] \notin copied
  /\ rio = "none" /\ fast_read = 0 /\ i_reading = 0 /\ Pristine(r)
  /\ len[r] = FirstSize(entry[r]) /\ FirstSize(entry[r]) \in Nat
  /\ FirstSize(entry[r]) > 0 /\ w <= r
  /\ fast_writing # 0 => w # r /\ entry[w] # entry[r] /\ w \in Used
  /\ r < MaxFastFiles /\ r \in Nat /\ w \in Nat
  /\ SizeMem(r) = Smaller(FirstSize(entry[r]), MaxFastFileSize)
  /\ 0 \in 0 .. NFrags[entry[r]] - 1 /\ Start[entry[r]][0] = 0
  /\ Start[entry[r]][0 + 1] = FirstSize(entry[r]) /\ Total(entry[r]) \in Nat

LEMMA AtOpen ==
  ASSUME IInv, pc = "loop", Continue, CanOpen
  PROVE  OpenFacts
<1>1. Act /\ r \in Used /\ rio = "none" /\ fast_read = 0 /\ i_reading = 0 /\ r \in Slot
  <2>1. Act /\ i_reading = 0 /\ r < fast_num_files
    BY DEF Act, Active, Continue, CanOpen
  <2>2. r \in Slot /\ r \in Used
    BY <2>1, SizeFacts DEF IInv, TypeOK, ControlOK, Slot
  <2>. QED
    BY <2>1, <2>2 DEF IInv, WindowInv
<1>2. Pristine(r) /\ entry[r] \in Entry /\ entry[r] \notin copied /\ FirstSize(entry[r]) > 0
      /\ w <= r /\ (fast_writing # 0 => w # r /\ w \in Used)
  BY <1>1 DEF IInv, TypeOK, ControlOK, WindowInv, QueueInv
<1>3. /\ SizeMem(r) = Smaller(FirstSize(entry[r]), MaxFastFileSize)
      /\ 0 \in 0 .. NFrags[entry[r]] - 1 /\ Start[entry[r]][0] = 0
      /\ Start[entry[r]][0 + 1] = FirstSize(entry[r]) /\ Total(entry[r]) \in Nat
  BY <1>2, EntryFacts, SizeFacts DEF SizeMem, FirstSize
<1>. QED
  BY <1>1, <1>2, <1>3, EntryFacts, SizeFacts
     DEF Pristine, IInv, TypeOK, ControlOK, QueueInv, OpenFacts, Slot

\* Where a finished read is turned into a write, both requests have ended and the
\* buffer holds the bytes that follow those on disk.
ReadEndFacts ==
  /\ Act /\ r \in Used /\ r \in Slot /\ r = w /\ fast_writing = 0
  /\ wio = "none" /\ rio = "none" /\ fast_read = 0 /\ i_reading = 1
  /\ entry[r] \in Entry /\ entry[r] \notin copied /\ mem[r] = Buffer
  /\ rfd[r] \in 0 .. NFrags[entry[r]] - 1
  /\ off_readed[r] = Start[entry[r]][rfd[r]] /\ len[r] = Start[entry[r]][rfd[r] + 1]
  /\ writed[r] \in Nat /\ rsize[r] \in Nat /\ rsize[r] > 0
  /\ readed[r] = writed[r] + rsize[r] /\ readed[r] <= len[r] /\ len[r] \in Nat
  /\ buf[r] = writed[r] /\ len[r] <= Want(entry[r]) /\ Want(entry[r]) \in Nat
  /\ ~Double(r) => writed[r] = 0 /\ rsize[r] = len[r] /\ len[r] = Want(entry[r])
  /\ Mode(r) = 2 => number_frag[r] = rfd[r]
  /\ Mode(r) # 2 => rfd[r] = 0 /\ len[r] = Want(entry[r])
  /\ r < MaxFastFiles /\ r \in Nat /\ SizeMem(r) \in Nat /\ SizeMem(r) > 0
  /\ Mode(r) = 1 => base[r] + giga_counter[r] = writed[r] /\ Double(r)
  /\ Mode(r) # 1 => base[r] = 0
  /\ wfd[r] # Closed

LEMMA AtReadEnd ==
  ASSUME IInv, pc = "rend", ReadEnded
  PROVE  ReadEndFacts
<1>1. Act /\ r \in Used /\ r \in Slot /\ r = w /\ fast_writing = 0 /\ i_reading = 1 /\ wio = "none"
  <2>1. Act /\ fast_writing = 0 /\ r < fast_num_files /\ fl[r] = 3
    BY DEF IInv, TypeOK, ControlOK, Act, Active, ReadEnded, StoppedInv
  <2>2. r \in Slot /\ r \in Used
    BY <2>1, SizeFacts DEF IInv, TypeOK, ControlOK, Slot
  <2>3. /\ r = w /\ (i_reading = 0 => Pristine(r)) /\ (wio # "none" => fast_writing = 1)
        /\ i_reading \in {0, 1}
    BY <2>1, <2>2 DEF IInv, TypeOK, ControlOK, WindowInv
  <2>. QED
    BY <2>1, <2>2, <2>3 DEF Pristine
<1>2. rio = "none" /\ fast_read = 0 /\ Sent(r) = writed[r]
  BY <1>1 DEF IInv, ReadInv, ReadEnded, Sent
<1>3. entry[r] \in Entry /\ entry[r] \notin copied /\ mem[r] = Buffer /\ FirstSize(entry[r]) > 0
  BY <1>1 DEF IInv, QueueInv, WindowInv, TypeOK, ControlOK
<1>4. /\ rfd[r] \in 0 .. NFrags[entry[r]] - 1
      /\ off_readed[r] = Start[entry[r]][rfd[r]] /\ len[r] = Start[entry[r]][rfd[r] + 1]
      /\ writed[r] >= 0 /\ rsize[r] > 0
      /\ readed[r] = writed[r] + rsize[r] /\ writed[r] + rsize[r] <= len[r]
      /\ buf[r] = writed[r]
      /\ ~Double(r) => writed[r] = 0 /\ rsize[r] = len[r]
      /\ Mode(r) = 2 => number_frag[r] = rfd[r]
      /\ Mode(r) # 2 => rfd[r] = 0
      /\ wfd[r] # Closed
  BY <1>1, <1>2 DEF IInv, ReadInv
<1>5. writed[r] \in Nat /\ rsize[r] \in Nat /\ len[r] \in Nat
  <2>1. writed[r] \in Int /\ rsize[r] \in Int /\ len[r] \in Int
    BY <1>1 DEF IInv, TypeOK, SlotsOK
  <2>. QED
    BY <1>4, <2>1
<1>6. Mode(r) # 2 => len[r] = Want(entry[r])
  BY <1>3, <1>4, EntryFacts DEF Mode, FirstSize
<1>7. len[r] <= Want(entry[r]) /\ Want(entry[r]) \in Nat
  BY <1>3, <1>4, <1>6, EntryFacts DEF Mode
<1>8. ~Double(r) => len[r] = Want(entry[r])
  BY <1>3, <1>4, EntryFacts, SizeFacts DEF Double, FirstSize
<1>9. SizeMem(r) \in Nat /\ SizeMem(r) > 0 /\ r < MaxFastFiles /\ r \in Nat
  BY <1>1, <1>3, EntryFacts, SizeFacts DEF SizeMem, Smaller, Slot
<1>10. /\ Mode(r) = 1 => base[r] + giga_counter[r] = writed[r] /\ Double(r)
       /\ Mode(r) # 1 => base[r] = 0
  BY <1>1, <1>3, <1>5, EntryFacts, SizeFacts DEF IInv, CountInv, Mode, Double, Slot
<1>. QED
  BY <1>1, <1>2, <1>3, <1>4, <1>5, <1>6, <1>7, <1>8, <1>9, <1>10 DEF ReadEndFacts

\* Where the end of a write is noticed, the write has succeeded up to Sent(w), or
\* left writed = -1; a file that is not yet read to its end is not finished.
WriteEndFacts ==
  /\ Act /\ w \in Used /\ w \in Slot /\ wio = "none" /\ entry[w] \in Entry
  /\ entry[w] \notin copied /\ wfd[w] # Closed /\ mem[w] = Buffer
  /\ fast_writing = 2 /\ writed[w] \in Int /\ len[w] \in Int
  /\ writed[w] >= 0 => writed[w] = Sent(w) /\ Sent(w) = base[w] + woff[w] + wsize[w]
  /\ (r = w /\ i_reading = 1) \/ r = w + 1
  /\ r = w => Sent(w) < len[w]
  /\ r = w + 1 => Sent(w) = len[w] /\ len[w] = Want(entry[w])
  /\ rio # "none" => rslot = r
  /\ rio = "busy" /\ r = w => rfd[w] # Closed
  /\ w < MaxFastFiles /\ w \in Nat /\ base[w] \in Int /\ woff[w] \in Int /\ wsize[w] \in Int
  /\ Want(entry[w]) \in Nat

LEMMA AtWriteEnd ==
  ASSUME IInv, pc = "wend", WriteEnded
  PROVE  WriteEndFacts
<1>1. Act /\ fast_writing = 2 /\ w \in Used /\ w \in Slot /\ wio = "none"
      /\ ((r = w /\ i_reading = 1) \/ r = w + 1)
  BY DEF IInv, TypeOK, ControlOK, Act, Active, WriteEnded, WindowInv, StoppedInv
<1>2. entry[w] \in Entry /\ entry[w] \notin copied /\ mem[w] = Buffer
  BY <1>1 DEF IInv, QueueInv, WindowInv, TypeOK, ControlOK
<1>3. /\ wfd[w] # Closed /\ (writed[w] = -1 \/ writed[w] = Sent(w))
      /\ r = w + 1 => Sent(w) = len[w] /\ len[w] = Want(entry[w])
  BY <1>1 DEF IInv, WriteInv
<1>4. /\ writed[w] \in Int /\ len[w] \in Int /\ base[w] \in Int /\ woff[w] \in Int
      /\ wsize[w] \in Int /\ rsize[w] \in Int
  BY <1>1 DEF IInv, TypeOK, SlotsOK
<1>5. Sent(w) = base[w] + woff[w] + wsize[w]
  BY <1>1 DEF Sent
<1>6. r = w => Sent(w) < len[w]
  BY <1>1, <1>4, <1>5 DEF IInv, ReadInv, Slot
<1>7. /\ rio # "none" => rslot = r
      /\ rio = "busy" /\ r = w => rfd[w] # Closed
  BY <1>1 DEF IInv, WindowInv, ReadInv, Closed
<1>8. w < MaxFastFiles /\ w \in Nat /\ Want(entry[w]) \in Nat
  BY <1>1, <1>2, EntryFacts, SizeFacts DEF Slot
<1>. QED
  BY <1>1, <1>2, <1>3, <1>4, <1>5, <1>6, <1>7, <1>8 DEF WriteEndFacts

\* What ToWrite prepares is a write of the bytes that follow those on disk.
ToWriteFacts ==
  /\ wsize'[r] = rsize[r] /\ woff'[r] \in Int
  /\ base'[r] + woff'[r] = writed[r]
  /\ Double(r) => bufw'[r] = writed[r]
  /\ w' = r
  /\ wsize' \in [Slot -> Int] /\ woff' \in [Slot -> Int] /\ bufw' \in [Slot -> Int]
  /\ UNCHANGED << mem, writed, giga_counter, base, wfd, abort_copy, queue >>

LEMMA AtToWrite ==
  ASSUME SlotsOK, ReadEndFacts, ToWrite
  PROVE  ToWriteFacts
<1>1. /\ wsize' = [wsize EXCEPT ![r] = rsize[r]] /\ rsize[r] \in Int
      /\ wsize \in [Slot -> Int] /\ r \in Slot
  BY DEF ToWrite, SlotsOK, ReadEndFacts
<1>2. /\ woff' = [woff EXCEPT ![r] = IF Double(r) /\ Mode(r) = 1 THEN giga_counter[r] ELSE writed[r]]
      /\ giga_counter[r] \in Int /\ writed[r] \in Int /\ woff \in [Slot -> Int]
  BY <1>1 DEF ToWrite, SlotsOK
<1>3. /\ bufw' = (IF Double(r) THEN [bufw EXCEPT ![r] = buf[r]] ELSE bufw)
      /\ buf[r] \in Int /\ bufw \in [Slot -> Int] /\ base[r] \in Int
  BY <1>1 DEF ToWrite, SlotsOK
<1>4. woff'[r] = IF Mode(r) = 1 THEN giga_counter[r] ELSE writed[r]
  BY <1>1, <1>2 DEF ReadEndFacts
<1>5. base'[r] + woff'[r] = writed[r] /\ woff'[r] \in Int
  BY <1>2, <1>3, <1>4 DEF ReadEndFacts, ToWrite
<1>6. wsize' \in [Slot -> Int] /\ wsize'[r] = rsize[r]
  BY <1>1
<1>7. woff' \in [Slot -> Int]
  BY <1>1, <1>2
<1>8. bufw' \in [Slot -> Int] /\ (Double(r) => bufw'[r] = writed[r])
  BY <1>1, <1>3 DEF ReadEndFacts
<1>. QED
  BY <1>5, <1>6, <1>7, <1>8 DEF ToWrite, ToWriteFacts

\* The engine is opened and its queue is empty.
LEMMA AsyncOpenStep ==
  ASSUME IInv, AsyncOpen
  PROVE  IInv'
<1>. USE DEF IInv, TypeOK
<1>1. /\ SlotsOK' /\ ControlOK' /\ DestinationOK'
  BY DEF AsyncOpen, SlotsOK, ControlOK, Caller, Active, Leave, Slot, DestinationOK
<1>2. /\ QueueInv' /\ CoverInv' /\ IOInv'
  BY DEF AsyncOpen, QueueInv, Slot, ControlOK, SlotsOK, CoverInv, Active, Leave,
         IOInv, Act, WriteOwned, ReadOwned, GivenUp
<1>3. /\ CallerInv' /\ StoppedInv' /\ LeaveInv'
  BY DEF AsyncOpen, CallerInv, Slot, Caller, Pristine, ControlOK, IOInv, Active,
         Leave, StoppedInv, LeaveInv
<1>4. /\ WindowInv' /\ ReadInv'
  BY DEF AsyncOpen, WindowInv, Slot, Act, Active, Pristine, ControlOK, SlotsOK, IOInv,
         ReadInv, Sent, Mode, Double
<1>5. /\ PrefixInv' /\ CountInv' /\ WriteInv'
  BY DEF AsyncOpen, PrefixInv, Slot, IOInv, WindowInv, Act, Active, QueueInv,
         DestinationOK, ControlOK, SlotsOK, CountInv, Mode, WriteInv, Sent, Double
<1>6. CopyFaithful'
  BY DEF AsyncOpen, CopyFaithful, Faithful, DestinationOK, IOInv
<1>. QED
  BY <1>1, <1>2, <1>3, <1>4, <1>5, <1>6 DEF IInv, TypeOK

\* The engine cannot be opened; the copy is given up.
LEMMA AsyncOpenFailsStep ==
  ASSUME IInv, AsyncOpenFails
  PROVE  IInv'
<1>. USE DEF IInv, TypeOK
<1>1. SlotsOK'
  BY DEF AsyncOpenFails, SlotsOK, ControlOK
<1>2. ControlOK'
  BY DEF AsyncOpenFails, ControlOK, Caller, Active, Leave, Slot
<1>3. DestinationOK'
  BY DEF AsyncOpenFails, DestinationOK
<1>4. /\ QueueInv' /\ CoverInv' /\ IOInv'
  BY DEF AsyncOpenFails, QueueInv, Slot, ControlOK, SlotsOK, CoverInv, Active, Leave,
         IOInv, Act, WriteOwned, ReadOwned, GivenUp
<1>5. /\ CallerInv' /\ StoppedInv' /\ LeaveInv'
  BY DEF AsyncOpenFails, CallerInv, Slot, Caller, Pristine, ControlOK, IOInv, Active,
         Leave, StoppedInv, LeaveInv
<1>6. /\ WindowInv' /\ ReadInv'
  BY DEF AsyncOpenFails, WindowInv, Slot, Act, Active, Pristine, ControlOK, SlotsOK,
         IOInv, ReadInv, Sent, Mode, Double
<1>7. /\ PrefixInv' /\ CountInv' /\ WriteInv'
  BY DEF AsyncOpenFails, PrefixInv, Slot, IOInv, WindowInv, Act, Active, QueueInv,
         DestinationOK, ControlOK, SlotsOK, CountInv, Mode, WriteInv, Sent, Double
<1>8. CopyFaithful'
  BY DEF AsyncOpenFails, CopyFaithful, Faithful, DestinationOK, IOInv
<1>. QED
  BY <1>1, <1>2, <1>3, <1>4, <1>5, <1>6, <1>7, <1>8
     DEF IInv, TypeOK

\* The engine is closed after everything was flushed.
LEMMA AsyncCloseStep ==
  ASSUME IInv, AsyncClose
  PROVE  IInv'
<1>. USE DEF IInv, TypeOK
<1>1. SlotsOK'
  BY DEF AsyncClose, SlotsOK, ControlOK
<1>2. ControlOK'
  BY SizeFacts DEF AsyncClose, ControlOK, Caller, Active, Leave, Slot
<1>3. DestinationOK'
  BY DEF AsyncClose, DestinationOK
<1>4. /\ QueueInv' /\ CoverInv' /\ IOInv'
  BY DEF AsyncClose, QueueInv, Slot, ControlOK, SlotsOK, CoverInv, Active, Leave,
         IOInv, Act, WriteOwned, ReadOwned, GivenUp
<1>5. /\ CallerInv' /\ StoppedInv' /\ LeaveInv'
  BY DEF AsyncClose, CallerInv, Slot, Caller, Pristine, ControlOK, IOInv, Active,
         Leave, StoppedInv, LeaveInv
<1>6. /\ WindowInv' /\ ReadInv'
  BY DEF AsyncClose, WindowInv, Slot, Act, Active, Pristine, ControlOK, SlotsOK,
         IOInv, ReadInv, Sent, Mode, Double
<1>7. /\ PrefixInv' /\ CountInv' /\ WriteInv'
  BY DEF AsyncClose, PrefixInv, Slot, IOInv, WindowInv, Act, Active, QueueInv,
         DestinationOK, ControlOK, SlotsOK, CountInv, Mode, WriteInv, Sent, Double
<1>8. CopyFaithful'
  BY DEF AsyncClose, CopyFaithful, Faithful, DestinationOK, IOInv
<1>. QED
  BY <1>1, <1>2, <1>3, <1>4, <1>5, <1>6, <1>7, <1>8
     DEF IInv, TypeOK

\* fast_copy_add takes the next entry and flushes a full queue first.
LEMMA AddCallStep ==
  ASSUME NEW e \in Entry, IInv, AddCall(e)
  PROVE  IInv'
<1>. USE DEF IInv, TypeOK
<1>1. /\ r = 0 /\ w = 0 /\ fast_read = 0 /\ fast_writing = 0 /\ wio = "none" /\ rio = "none"
      /\ \A s \in Used : Pristine(s) /\ entry[s] \notin copied
  BY DEF AddCall, CallerInv, IOInv, Caller, Active, Leave, ControlOK, WriteOwned, ReadOwned, GivenUp
<1>2. /\ SlotsOK' /\ ControlOK' /\ DestinationOK'
  BY <1>1 DEF AddCall, Full, SlotsOK, ControlOK, Caller, Active, Leave, Slot,
              DestinationOK
<1>3. QueueInv'
  <2>1. /\ e # NoEntry /\ e \in todo /\ e \notin copied /\ pend = NoEntry
        /\ \A s \in Used : entry[s] # e
    BY NoEntryFact DEF AddCall, QueueInv
  <2>2. /\ todo' = todo \ {e} /\ pend' = e /\ pc' \in {"loop", "add"} /\ ~abort_copy'
        /\ pc' = "add" => fast_num_files < MaxFastFiles
        /\ UNCHANGED << fast_num_files, entry, mem, copied >>
    BY SizeFacts DEF AddCall, Full, ControlOK
  <2>. QED
    BY <2>1, <2>2 DEF QueueInv
<1>4. CoverInv'
  BY <1>1, NoEntryFact DEF AddCall, Full, CoverInv, QueueInv, ControlOK, Active, Leave
<1>5. IOInv'
  BY <1>1 DEF AddCall, Full, IOInv, Slot, QueueInv, ControlOK, SlotsOK, Active, Leave,
              Act
<1>6. /\ CallerInv' /\ StoppedInv' /\ LeaveInv'
  BY <1>1 DEF AddCall, Full, CallerInv, Slot, Caller, Pristine, ControlOK, IOInv,
              Active, Leave, StoppedInv, LeaveInv
<1>7. /\ WindowInv' /\ ReadInv'
  BY <1>1 DEF AddCall, Full, WindowInv, Slot, Act, Active, Pristine, ControlOK,
              SlotsOK, IOInv, ReadInv, Sent, Mode, Double
<1>8. PrefixInv'
  <2>1. Act' => \A s \in Used : writed[s] = 0
    BY <1>1 DEF AddCall, Pristine, Act
  <2>. QED
    BY <2>1, SMTT(30) DEF AddCall, PrefixInv, SlotsOK, Slot
<1>9. CountInv'
  BY <1>1 DEF AddCall, Full, CountInv, Slot, IOInv, WindowInv, Act, Active, Mode,
              ControlOK, SlotsOK, Pristine
<1>10. WriteInv'
  BY <1>1 DEF AddCall, Full, WriteInv, Slot, IOInv, WindowInv, Act, Active, Sent,
              Mode, Double, ControlOK, SlotsOK
<1>11. CopyFaithful'
  BY <1>1 DEF AddCall, Full, CopyFaithful, Faithful, DestinationOK, IOInv
<1>. QED
  BY <1>2, <1>3, <1>4, <1>5, <1>6, <1>7, <1>8, <1>9, <1>10, <1>11
     DEF IInv, TypeOK

\* fast_copy_add skips a later fragment.
LEMMA AddIgnoredStep ==
  ASSUME IInv, AddIgnored
  PROVE  IInv'
<1>. USE DEF IInv, TypeOK
<1>1. /\ SlotsOK' /\ ControlOK' /\ DestinationOK'
  <2>1. SlotsOK'
    BY SMTT(40) DEF AddIgnored, AddReturn, SlotsOK, ControlOK, Caller, Active, Leave, Slot,
           DestinationOK
  <2>2. ControlOK'
    BY SMTT(40) DEF AddIgnored, AddReturn, SlotsOK, ControlOK, Caller, Active, Leave, Slot,
           DestinationOK
  <2>3. DestinationOK'
    BY SMTT(40) DEF AddIgnored, AddReturn, SlotsOK, ControlOK, Caller, Active, Leave, Slot,
           DestinationOK
  <2>. QED
    BY <2>1, <2>2, <2>3
<1>2. /\ CoverInv' /\ IOInv'
  BY DEF AddIgnored, AddReturn, CoverInv, QueueInv, ControlOK, Active, Leave, IOInv,
         Slot, SlotsOK, Act, WriteOwned, ReadOwned, GivenUp
<1>3. QueueInv'
  <2>1. NoEntry \notin todo \cup copied /\ \A s \in Used : entry[s] # NoEntry
    BY NoEntryFact DEF QueueInv, ControlOK
  <2>. QED
    BY <2>1 DEF AddIgnored, AddReturn, QueueInv
<1>4. /\ CallerInv' /\ StoppedInv' /\ LeaveInv'
  BY DEF AddIgnored, AddReturn, CallerInv, Slot, Caller, Pristine, ControlOK, IOInv,
         Active, Leave, StoppedInv, LeaveInv
<1>5. /\ WindowInv' /\ ReadInv'
  BY DEF AddIgnored, AddReturn, WindowInv, Slot, Act, Active, Pristine, ControlOK,
         SlotsOK, IOInv, ReadInv, Sent, Mode, Double
<1>6. /\ PrefixInv' /\ CountInv' /\ WriteInv'
  BY DEF AddIgnored, AddReturn, PrefixInv, Slot, IOInv, WindowInv, Act, Active,
         QueueInv, DestinationOK, ControlOK, SlotsOK, CountInv, Mode, WriteInv, Sent,
         Double
<1>7. CopyFaithful'
  BY DEF AddIgnored, AddReturn, CopyFaithful, Faithful, DestinationOK, IOInv
<1>. QED
  BY <1>1, <1>2, <1>3, <1>4, <1>5, <1>6, <1>7 DEF IInv, TypeOK

\* fast_copy_add gives up on an entry.
LEMMA AddFailsStep ==
  ASSUME IInv, AddFails
  PROVE  IInv'
<1>. USE DEF IInv, TypeOK
<1>1. /\ SlotsOK' /\ ControlOK' /\ DestinationOK'
  BY DEF AddFails, AddReturn, SlotsOK, ControlOK, Caller, Active, Leave, Slot,
         DestinationOK
<1>2. /\ CoverInv' /\ IOInv'
  BY DEF AddFails, AddReturn, CoverInv, QueueInv, ControlOK, Active, Leave, IOInv,
         Slot, SlotsOK, Act, WriteOwned, ReadOwned, GivenUp
<1>3. QueueInv'
  <2>1. NoEntry \notin todo \cup copied /\ \A s \in Used : entry[s] # NoEntry
    BY NoEntryFact DEF QueueInv, ControlOK
  <2>. QED
    BY <2>1 DEF AddFails, AddReturn, QueueInv
<1>4. /\ CallerInv' /\ StoppedInv' /\ LeaveInv'
  BY DEF AddFails, AddReturn, CallerInv, Slot, Caller, Pristine, ControlOK, IOInv,
         Active, Leave, StoppedInv, LeaveInv
<1>5. /\ WindowInv' /\ ReadInv'
  BY DEF AddFails, AddReturn, WindowInv, Slot, Act, Active, Pristine, ControlOK,
         SlotsOK, IOInv, ReadInv, Sent, Mode, Double
<1>6. /\ PrefixInv' /\ CountInv' /\ WriteInv'
  BY DEF AddFails, AddReturn, PrefixInv, Slot, IOInv, WindowInv, Act, Active,
         QueueInv, DestinationOK, ControlOK, SlotsOK, CountInv, Mode, WriteInv, Sent,
         Double
<1>7. CopyFaithful'
  BY DEF AddFails, AddReturn, CopyFaithful, Faithful, DestinationOK, IOInv
<1>. QED
  BY <1>1, <1>2, <1>3, <1>4, <1>5, <1>6, <1>7 DEF IInv, TypeOK

\* An empty file is complete once it is created.
LEMMA AddEmptyStep ==
  ASSUME IInv, AddEmpty
  PROVE  IInv'
<1>. USE DEF IInv, TypeOK
<1>1. pend \in Entry /\ ~abort_copy /\ pend \notin todo /\ Want(pend) = 0
      /\ \A s \in Used : entry[s] # pend
  BY EntryFacts, SizeFacts DEF AddEmpty, QueueInv
<1>2. SlotsOK'
  BY <1>1 DEF AddEmpty, AddReturn, SlotsOK, ControlOK
<1>3. ControlOK'
  BY <1>1, SizeFacts DEF AddEmpty, AddReturn, ControlOK, Caller, Active, Leave, Slot
<1>4. DestinationOK'
  BY <1>1 DEF AddEmpty, AddReturn, DestinationOK
<1>5. /\ CoverInv' /\ IOInv'
  BY <1>1 DEF AddEmpty, AddReturn, CoverInv, QueueInv, ControlOK, Active, Leave,
              IOInv, Slot, SlotsOK, Act, WriteOwned, ReadOwned, GivenUp
<1>6. QueueInv'
  <2>1. NoEntry \notin todo \cup copied /\ \A s \in Used : entry[s] # NoEntry
    BY NoEntryFact DEF QueueInv, ControlOK
  <2>2. NoEntry # pend
    BY <1>1, NoEntryFact
  <2>. QED
    BY <1>1, <2>1, <2>2 DEF AddEmpty, AddReturn, QueueInv
<1>7. /\ CallerInv' /\ StoppedInv' /\ LeaveInv'
  BY <1>1 DEF AddEmpty, AddReturn, CallerInv, Slot, Caller, Pristine, ControlOK,
              IOInv, Active, Leave, StoppedInv, LeaveInv
<1>8. /\ WindowInv' /\ ReadInv'
  BY <1>1 DEF AddEmpty, AddReturn, WindowInv, Slot, Act, Active, Pristine, ControlOK,
              SlotsOK, IOInv, ReadInv, Sent, Mode, Double
<1>9. /\ PrefixInv' /\ CountInv' /\ WriteInv'
  BY <1>1 DEF AddEmpty, AddReturn, PrefixInv, Slot, IOInv, WindowInv, Act, Active,
              QueueInv, DestinationOK, ControlOK, SlotsOK, CountInv, Mode, WriteInv,
              Sent, Double
<1>10. CopyFaithful'
  BY <1>1 DEF AddEmpty, AddReturn, CopyFaithful, Faithful, DestinationOK, IOInv
<1>. QED
  BY <1>2, <1>3, <1>4, <1>5, <1>6, <1>7, <1>8, <1>9, <1>10
     DEF IInv, TypeOK

\* A file that is not empty takes the next slot.
LEMMA AddQueuedStep ==
  ASSUME IInv, AddQueued
  PROVE  IInv'
<1>. USE DEF IInv, TypeOK
<1>1. /\ pend \in Entry /\ ~abort_copy /\ pend \notin todo /\ fast_num_files \in Slot
      /\ FirstSize(pend) \in Nat /\ pend \notin copied
      /\ \A s \in Used : entry[s] # pend /\ s # fast_num_files
      /\ fast_num_files + 1 \in 0 .. MaxFastFiles
  BY EntryFacts, SizeFacts DEF AddQueued, QueueInv, ControlOK, Slot
<1>2. Used' = Used \cup {fast_num_files}
  BY <1>1, SizeFacts DEF AddQueued, Slot, ControlOK
<1>3. /\ \A s \in Used : /\ entry'[s] = entry[s] /\ fl'[s] = fl[s] /\ len'[s] = len[s]
                        /\ mem'[s] = mem[s] /\ number_frag'[s] = number_frag[s]
                        /\ writed'[s] = writed[s] /\ giga_counter'[s] = giga_counter[s]
                        /\ base'[s] = base[s]
      /\ LET s == fast_num_files
         IN /\ entry'[s] = pend /\ fl'[s] = 1 /\ len'[s] = FirstSize(pend) /\ mem'[s] = Buffer
            /\ number_frag'[s] = 0 /\ writed'[s] = 0 /\ giga_counter'[s] = 0 /\ base'[s] = 0
  BY <1>1 DEF AddQueued, SlotsOK
<1>4. /\ ControlOK' /\ DestinationOK'
  BY <1>1, SizeFacts DEF AddQueued, AddReturn, Smaller, ControlOK, Caller, Active,
                         Leave, Slot, DestinationOK
<1>5. SlotsOK'
  <2>1. /\ entry \in [Slot -> Entry \cup {NoEntry}] /\ fl \in [Slot -> 0 .. 5]
        /\ len \in [Slot -> Int] /\ mem \in [Slot -> {Null, Buffer}]
        /\ number_frag \in [Slot -> Int] /\ readed \in [Slot -> Int]
        /\ writed \in [Slot -> Int] /\ giga_counter \in [Slot -> Int]
        /\ base \in [Slot -> Int] /\ rfd \in [Slot -> Int] /\ wfd \in [Slot -> Int]
    BY DEF SlotsOK
  <2>2. /\ entry' = [entry EXCEPT ![fast_num_files] = pend]
        /\ fl' = [fl EXCEPT ![fast_num_files] = 1]
        /\ len' = [len EXCEPT ![fast_num_files] = FirstSize(pend)]
        /\ mem' = [mem EXCEPT ![fast_num_files] = Buffer]
        /\ number_frag' = [number_frag EXCEPT ![fast_num_files] = 0]
        /\ readed' = [readed EXCEPT ![fast_num_files] = 0]
        /\ writed' = [writed EXCEPT ![fast_num_files] = 0]
        /\ giga_counter' = [giga_counter EXCEPT ![fast_num_files] = 0]
        /\ base' = [base EXCEPT ![fast_num_files] = 0]
        /\ rfd' = [rfd EXCEPT ![fast_num_files] = Closed]
        /\ wfd' = [wfd EXCEPT ![fast_num_files] = Closed]
    BY <1>1 DEF AddQueued, AddReturn
  <2>3. /\ entry' \in [Slot -> Entry \cup {NoEntry}] /\ fl' \in [Slot -> 0 .. 5]
        /\ len' \in [Slot -> Int] /\ mem' \in [Slot -> {Null, Buffer}]
        /\ number_frag' \in [Slot -> Int] /\ readed' \in [Slot -> Int]
        /\ writed' \in [Slot -> Int] /\ giga_counter' \in [Slot -> Int]
        /\ base' \in [Slot -> Int] /\ rfd' \in [Slot -> Int] /\ wfd' \in [Slot -> Int]
    BY <1>1, <2>1, <2>2
  <2>4. UNCHANGED << off_readed, roff, rsize, woff, wsize, buf, bufw >>
    BY <1>1 DEF AddQueued, AddReturn
  <2>. QED
    BY <1>1, <2>3, <2>4 DEF SlotsOK
<1>6. IOInv'
  BY <1>1 DEF AddQueued, AddReturn, Smaller, IOInv, Slot, QueueInv, ControlOK,
              SlotsOK, Active, Leave, Act, WriteOwned, ReadOwned, GivenUp
<1>7. QueueInv'
  <2>1. /\ todo' = todo /\ pend' = NoEntry /\ pc' = "idle" /\ copied' = copied
        /\ Kind[pend] # "later" /\ FirstSize(pend) > 0
    BY DEF AddQueued, AddReturn
  <2>. QED
    BY <1>1, <1>2, <1>3, <2>1, NoEntryFact, SMTT(40) DEF QueueInv, ControlOK
<1>8. CoverInv'
  <2>1. /\ todo' = todo /\ pend' = NoEntry /\ pc' = "idle" /\ copied' = copied
        /\ abort_copy' = abort_copy /\ error' = error
    BY DEF AddQueued, AddReturn
  <2>. QED
    BY <1>1, <1>2, <1>3, <2>1 DEF CoverInv, AddQueued, Active, Leave
<1>9. /\ StoppedInv' /\ LeaveInv'
  BY <1>1 DEF AddQueued, AddReturn, Smaller, StoppedInv, Active, IOInv, LeaveInv,
              Leave
<1>10. CallerInv'
  <2>1. /\ pc' = "idle" /\ copied' = copied
        /\ UNCHANGED << abort_copy, r, w, fast_read, fast_writing >> /\ pc = "add"
    BY DEF AddQueued, AddReturn
  <2>. QED
    BY <1>1, <1>2, <1>3, <2>1 DEF CallerInv, Caller, Pristine
<1>11. /\ WindowInv' /\ ReadInv'
  BY <1>1 DEF AddQueued, AddReturn, Smaller, WindowInv, Slot, Act, Active, Pristine,
              ControlOK, SlotsOK, IOInv, ReadInv, Sent, Mode, Double
<1>12. /\ PrefixInv' /\ CountInv' /\ WriteInv'
  BY <1>1 DEF AddQueued, AddReturn, Smaller, PrefixInv, Slot, IOInv, WindowInv, Act,
              Active, QueueInv, DestinationOK, ControlOK, SlotsOK, CountInv, Mode,
              WriteInv, Sent, Double
<1>13. CopyFaithful'
  BY <1>1 DEF AddQueued, AddReturn, Smaller, CopyFaithful, Faithful, DestinationOK,
              IOInv
<1>. QED
  BY <1>4, <1>5, <1>6, <1>7, <1>8, <1>9, <1>10, <1>11, <1>12, <1>13
     DEF IInv, TypeOK

\* The caller flushes the queue.
LEMMA ProcessCallStep ==
  ASSUME IInv, ProcessCall
  PROVE  IInv'
<1>. USE DEF IInv, TypeOK
<1>1. /\ r = 0 /\ w = 0
      /\ wio # "none" => entry[wslot] \in Entry \ copied /\ abort_copy /\ id_w = NoId
      /\ rio = "busy" => abort_copy /\ id_r = NoId
      /\ ~abort_copy => /\ rio = "none" /\ wio = "none" /\ fast_read = 0 /\ fast_writing = 0
                        /\ \A s \in Used : Pristine(s) /\ entry[s] \notin copied
  BY DEF ProcessCall, CallerInv, IOInv, Caller, Active, Leave, ControlOK, WriteOwned, ReadOwned, GivenUp
<1>2. /\ SlotsOK' /\ ControlOK' /\ DestinationOK'
  BY <1>1 DEF ProcessCall, SlotsOK, ControlOK, Caller, Active, Leave, Slot,
              DestinationOK
<1>3. /\ QueueInv' /\ CoverInv' /\ IOInv'
  BY <1>1 DEF ProcessCall, QueueInv, Slot, ControlOK, SlotsOK, CoverInv, Active,
              Leave, IOInv, Act
<1>4. /\ CallerInv' /\ StoppedInv' /\ LeaveInv'
  BY <1>1 DEF ProcessCall, CallerInv, Slot, Caller, Pristine, ControlOK, IOInv,
              Active, Leave, StoppedInv, LeaveInv
<1>5. /\ WindowInv' /\ ReadInv'
  BY <1>1 DEF ProcessCall, WindowInv, Slot, Act, Active, Pristine, ControlOK, SlotsOK,
              IOInv, ReadInv, Sent, Mode, Double
<1>6. PrefixInv'
  <2>1. Act' => \A s \in Used : writed[s] = 0
    BY <1>1 DEF ProcessCall, Pristine, Act
  <2>. QED
    BY <2>1 DEF ProcessCall, PrefixInv, SlotsOK, Slot
<1>7. CountInv'
  BY <1>1 DEF ProcessCall, CountInv, Slot, IOInv, WindowInv, Act, Active, Mode,
              ControlOK, SlotsOK, Pristine
<1>8. WriteInv'
  BY <1>1 DEF ProcessCall, WriteInv, Slot, IOInv, WindowInv, Act, Active, Sent, Mode,
              Double, ControlOK, SlotsOK
<1>9. CopyFaithful'
  BY <1>1 DEF ProcessCall, CopyFaithful, Faithful, DestinationOK, IOInv
<1>. QED
  BY <1>2, <1>3, <1>4, <1>5, <1>6, <1>7, <1>8, <1>9
     DEF IInv, TypeOK

\* The loop ends without an error: every slot was copied, or abort_copy is set.
LEMMA LoopEndStep ==
  ASSUME IInv, LoopEnd
  PROVE  IInv'
<1>. USE DEF IInv, TypeOK
<1>1. ~abort_copy => w = fast_num_files /\ rio = "none" /\ \A s \in Used : entry[s] \in copied
  BY DEF LoopEnd, Continue, Act, Active, WindowInv, ControlOK, Slot
<1>2. /\ SlotsOK' /\ ControlOK' /\ DestinationOK'
  BY <1>1 DEF LoopEnd, Continue, SlotsOK, ControlOK, Caller, Active, Leave, Slot,
              DestinationOK
<1>3. /\ QueueInv' /\ CoverInv' /\ IOInv'
  BY <1>1 DEF LoopEnd, Continue, QueueInv, Slot, ControlOK, SlotsOK, CoverInv, Active,
              Leave, IOInv, Act, StoppedInv, WriteOwned, ReadOwned, GivenUp
<1>4. /\ CallerInv' /\ StoppedInv' /\ LeaveInv'
  BY <1>1 DEF LoopEnd, Continue, CallerInv, Slot, Caller, Pristine, ControlOK, IOInv,
              Active, Leave, StoppedInv, LeaveInv, Act
<1>5. /\ WindowInv' /\ ReadInv'
  BY <1>1 DEF LoopEnd, Continue, WindowInv, Slot, Act, Active, Pristine, ControlOK,
              SlotsOK, IOInv, ReadInv, Sent, Mode, Double
<1>6. /\ PrefixInv' /\ CountInv' /\ WriteInv'
  BY <1>1 DEF LoopEnd, Continue, PrefixInv, Slot, IOInv, WindowInv, Act, Active,
              QueueInv, DestinationOK, ControlOK, SlotsOK, CountInv, Mode, WriteInv,
              Sent, Double
<1>7. CopyFaithful'
  BY <1>1 DEF LoopEnd, Continue, CopyFaithful, Faithful, DestinationOK, IOInv
<1>. QED
  BY <1>2, <1>3, <1>4, <1>5, <1>6, <1>7 DEF IInv, TypeOK

\* No slot is ready to be opened.
LEMMA LoopNothingToOpenStep ==
  ASSUME IInv, LoopNothingToOpen
  PROVE  IInv'
<1>. USE DEF IInv, TypeOK
<1>1. /\ SlotsOK' /\ ControlOK' /\ DestinationOK'
  BY DEF LoopNothingToOpen, Continue, SlotsOK, ControlOK, Caller, Active, Leave, Slot,
         DestinationOK
<1>2. /\ QueueInv' /\ CoverInv' /\ IOInv'
  BY DEF LoopNothingToOpen, Continue, QueueInv, Slot, ControlOK, SlotsOK, CoverInv,
         Active, Leave, IOInv, Act, WriteOwned, ReadOwned, GivenUp
<1>3. /\ CallerInv' /\ StoppedInv' /\ LeaveInv'
  BY DEF LoopNothingToOpen, Continue, CallerInv, Slot, Caller, Pristine, ControlOK,
         IOInv, Active, Leave, StoppedInv, LeaveInv
<1>4. /\ WindowInv' /\ ReadInv'
  BY DEF LoopNothingToOpen, Continue, WindowInv, Slot, Act, Active, Pristine,
         ControlOK, SlotsOK, IOInv, ReadInv, Sent, Mode, Double
<1>5. PrefixInv'
  BY DEF LoopNothingToOpen, Continue, PrefixInv, Slot, IOInv, WindowInv, Act, Active,
         QueueInv, DestinationOK, ControlOK, SlotsOK
<1>6. CountInv'
  BY DEF LoopNothingToOpen, Continue, CountInv, Slot, IOInv, WindowInv, Act, Active,
         Mode, ControlOK, SlotsOK
<1>7. WriteInv'
  BY DEF LoopNothingToOpen, Continue, WriteInv, Slot, IOInv, WindowInv, Act, Active,
         Sent, Mode, Double, ControlOK, SlotsOK
<1>8. CopyFaithful'
  BY DEF LoopNothingToOpen, Continue, CopyFaithful, Faithful, DestinationOK, IOInv
<1>. QED
  BY <1>1, <1>2, <1>3, <1>4, <1>5, <1>6, <1>7, <1>8
     DEF IInv, TypeOK

\* The source of a slot cannot be opened.
LEMMA OpenFailsReadStep ==
  ASSUME IInv, OpenFailsRead
  PROVE  IInv'
<1>. USE DEF IInv, TypeOK
<1>1. OpenFacts
  BY AtOpen DEF OpenFailsRead, Continue, CanOpen, ResetSlot, Break
<1>2. /\ SlotsOK' /\ ControlOK' /\ DestinationOK'
  BY <1>1 DEF OpenFailsRead, Continue, CanOpen, ResetSlot, Break, OpenFacts, SlotsOK,
              ControlOK, Caller, Active, Leave, Slot, DestinationOK
<1>3. /\ QueueInv' /\ CoverInv' /\ IOInv'
  BY <1>1 DEF OpenFailsRead, Continue, CanOpen, ResetSlot, Break, OpenFacts, QueueInv,
              Slot, ControlOK, SlotsOK, CoverInv, Active, Leave, IOInv, Act, WriteOwned, ReadOwned, GivenUp
<1>4. /\ CallerInv' /\ StoppedInv' /\ LeaveInv'
  BY <1>1 DEF OpenFailsRead, Continue, CanOpen, ResetSlot, Break, OpenFacts,
              CallerInv, Slot, Caller, Pristine, ControlOK, IOInv, Active, Leave,
              StoppedInv, LeaveInv
<1>5. /\ WindowInv' /\ ReadInv'
  BY <1>1 DEF OpenFailsRead, Continue, CanOpen, ResetSlot, Break, OpenFacts,
              WindowInv, Slot, Act, Active, Pristine, ControlOK, SlotsOK, IOInv,
              ReadInv, Sent, Mode, Double
<1>6. /\ PrefixInv' /\ CountInv' /\ WriteInv'
  BY <1>1 DEF OpenFailsRead, Continue, CanOpen, ResetSlot, Break, OpenFacts,
              PrefixInv, Slot, IOInv, WindowInv, Act, Active, QueueInv, DestinationOK,
              ControlOK, SlotsOK, CountInv, Mode, WriteInv, Sent, Double
<1>7. CopyFaithful'
  BY <1>1 DEF OpenFailsRead, Continue, CanOpen, ResetSlot, Break, OpenFacts,
              CopyFaithful, Faithful, DestinationOK, IOInv
<1>. QED
  BY <1>2, <1>3, <1>4, <1>5, <1>6, <1>7 DEF IInv, TypeOK

\* The destination of a slot cannot be created.
LEMMA OpenFailsWriteStep ==
  ASSUME IInv, OpenFailsWrite
  PROVE  IInv'
<1>. USE DEF IInv, TypeOK
<1>1. OpenFacts
  BY AtOpen DEF OpenFailsWrite, Continue, CanOpen, ResetSlot, Break
<1>2. SlotsOK'
  BY <1>1 DEF OpenFailsWrite, Continue, CanOpen, ResetSlot, Break, OpenFacts, SlotsOK,
              ControlOK
<1>3. ControlOK'
  BY <1>1 DEF OpenFailsWrite, Continue, CanOpen, ResetSlot, Break, OpenFacts,
              ControlOK, Caller, Active, Leave, Slot
<1>4. DestinationOK'
  BY <1>1 DEF OpenFailsWrite, Continue, CanOpen, ResetSlot, Break, OpenFacts,
              DestinationOK
<1>5. /\ QueueInv' /\ CoverInv' /\ IOInv'
  BY <1>1 DEF OpenFailsWrite, Continue, CanOpen, ResetSlot, Break, OpenFacts,
              QueueInv, Slot, ControlOK, SlotsOK, CoverInv, Active, Leave, IOInv, Act, WriteOwned, ReadOwned, GivenUp
<1>6. /\ CallerInv' /\ StoppedInv' /\ LeaveInv'
  BY <1>1 DEF OpenFailsWrite, Continue, CanOpen, ResetSlot, Break, OpenFacts,
              CallerInv, Slot, Caller, Pristine, ControlOK, IOInv, Active, Leave,
              StoppedInv, LeaveInv
<1>7. /\ WindowInv' /\ ReadInv'
  BY <1>1 DEF OpenFailsWrite, Continue, CanOpen, ResetSlot, Break, OpenFacts,
              WindowInv, Slot, Act, Active, Pristine, ControlOK, SlotsOK, IOInv,
              ReadInv, Sent, Mode, Double
<1>8. /\ PrefixInv' /\ CountInv' /\ WriteInv'
  BY <1>1 DEF OpenFailsWrite, Continue, CanOpen, ResetSlot, Break, OpenFacts,
              PrefixInv, Slot, IOInv, WindowInv, Act, Active, QueueInv, DestinationOK,
              ControlOK, SlotsOK, CountInv, Mode, WriteInv, Sent, Double
<1>9. CopyFaithful'
  BY <1>1 DEF OpenFailsWrite, Continue, CanOpen, ResetSlot, Break, OpenFacts,
              CopyFaithful, Faithful, DestinationOK, IOInv
<1>. QED
  BY <1>2, <1>3, <1>4, <1>5, <1>6, <1>7, <1>8, <1>9
     DEF IInv, TypeOK

\* The files of a slot are opened and its first read is requested.
LEMMA OpenReadsStep ==
  ASSUME IInv, OpenReads
  PROVE  IInv'
<1>. USE DEF IInv, TypeOK
<1>1. OpenFacts
  BY AtOpen DEF OpenReads, OpenFiles, Continue, CanOpen, ResetSlot
<1>2. /\ readed'[r] = 0 /\ writed'[r] = 0 /\ off_readed'[r] = 0 /\ fl'[r] = 2 /\ rfd'[r] = 0
      /\ wfd'[r] # Closed /\ roff'[r] = 0 /\ rsize'[r] = Smaller(len[r], SizeMem(r))
      /\ \A s \in Slot : s # r => writed'[s] = writed[s]
      /\ UNCHANGED << abort_copy, queue, len, giga_counter, base, number_frag, writing,
                      current_fast_file_r, current_fast_file_w, copied >>
      /\ fast_read' = 1 /\ rio' = "busy" /\ rslot' = r /\ i_reading' = 1 /\ pc' = "rend"
  BY <1>1 DEF OpenReads, OpenFiles, ResetSlot, SlotsOK, OpenFacts
<1>3. /\ ControlOK' /\ DestinationOK'
  BY <1>1 DEF OpenReads, OpenFiles, Continue, CanOpen, ResetSlot, OpenFacts,
              ControlOK, Caller, Active, Leave, Slot, DestinationOK, NoData
<1>4. SlotsOK'
  <2>1. /\ readed \in [Slot -> Int] /\ writed \in [Slot -> Int]
        /\ off_readed \in [Slot -> Int] /\ fl \in [Slot -> 0 .. 5]
        /\ rfd \in [Slot -> Int] /\ wfd \in [Slot -> Int] /\ roff \in [Slot -> Int]
        /\ woff \in [Slot -> Int] /\ rsize \in [Slot -> Int] /\ buf \in [Slot -> Int]
    BY DEF SlotsOK
  <2>2. /\ readed' = [readed EXCEPT ![r] = 0] /\ writed' = [writed EXCEPT ![r] = 0]
        /\ off_readed' = [off_readed EXCEPT ![r] = 0] /\ fl' = [fl EXCEPT ![r] = 2]
        /\ rfd' = [rfd EXCEPT ![r] = 0] /\ wfd' = [wfd EXCEPT ![r] = 0]
        /\ roff' = [roff EXCEPT ![r] = 0] /\ woff' = [woff EXCEPT ![r] = 0]
        /\ rsize' = [rsize EXCEPT ![r] = Smaller(len[r], SizeMem(r))]
        /\ buf' = [buf EXCEPT ![r] = NoData]
    BY <1>1 DEF OpenReads, OpenFiles, ResetSlot
  <2>3. /\ readed' \in [Slot -> Int] /\ writed' \in [Slot -> Int]
        /\ off_readed' \in [Slot -> Int] /\ fl' \in [Slot -> 0 .. 5]
        /\ rfd' \in [Slot -> Int] /\ wfd' \in [Slot -> Int] /\ roff' \in [Slot -> Int]
        /\ woff' \in [Slot -> Int] /\ rsize' \in [Slot -> Int]
        /\ buf' \in [Slot -> Int]
    BY <1>1, <2>1, <2>2, SizeFacts DEF OpenFacts, Smaller, NoData
  <2>4. UNCHANGED << entry, len, mem, number_frag, giga_counter, base, wsize, bufw >>
    BY <1>1 DEF OpenReads, OpenFiles, ResetSlot
  <2>. QED
    BY <1>1, <2>3, <2>4 DEF SlotsOK
<1>5. /\ QueueInv' /\ CoverInv' /\ IOInv'
  BY <1>1 DEF OpenReads, OpenFiles, Continue, CanOpen, ResetSlot, OpenFacts, QueueInv,
              Slot, ControlOK, SlotsOK, CoverInv, Active, Leave, IOInv, Act, WriteOwned, ReadOwned, GivenUp
<1>6. /\ CallerInv' /\ StoppedInv' /\ LeaveInv'
  BY <1>1 DEF OpenReads, OpenFiles, Continue, CanOpen, ResetSlot, OpenFacts,
              CallerInv, Slot, Caller, Pristine, ControlOK, IOInv, Active, Leave,
              StoppedInv, LeaveInv
<1>7. WindowInv'
  BY <1>1 DEF OpenReads, OpenFiles, Continue, CanOpen, ResetSlot, OpenFacts,
              WindowInv, Slot, Act, Active, Pristine, ControlOK, SlotsOK, IOInv
<1>8. ReadInv'
  <2>1. /\ rsize'[r] > 0 /\ rsize'[r] <= len[r] /\ rsize'[r] \in Int
        /\ ~Double(r) => rsize'[r] = len[r]
    BY <1>1, <1>2, SizeFacts DEF OpenFacts, Smaller, Double
  <2>2. Sent(r)' = 0
    BY <1>1, <1>2 DEF OpenFacts, Sent
  <2>3. Mode(r) = 2 => number_frag[r] = 0
    BY <1>1 DEF OpenFacts, Pristine
  <2>. QED
    BY <1>1, <1>2, <2>1, <2>2, <2>3 DEF ReadInv, OpenFacts, Mode, Double
<1>9. WriteInv'
  BY <1>1 DEF OpenReads, OpenFiles, Continue, CanOpen, ResetSlot, OpenFacts, WriteInv,
              Slot, IOInv, WindowInv, Act, Active, Sent, Mode, Double, ControlOK,
              SlotsOK
<1>10. PrefixInv'
  <2>1. \A s \in Used : s # r => dst'[entry[s]] = dst[entry[s]]
    BY <1>1 DEF OpenReads, OpenFiles, OpenFacts, QueueInv, DestinationOK
  <2>. QED
    BY <1>1, <1>2, <2>1 DEF PrefixInv, Act, Active, OpenFacts, Slot
<1>11. CountInv'
  BY <1>1, <1>2 DEF CountInv, Act, Active, Mode, OpenFacts, Pristine
<1>12. CopyFaithful'
  BY <1>1 DEF OpenReads, OpenFiles, Continue, CanOpen, ResetSlot, OpenFacts,
              CopyFaithful, Faithful, DestinationOK, IOInv
<1>. QED
  BY <1>3, <1>4, <1>5, <1>6, <1>7, <1>8, <1>9, <1>10, <1>11, <1>12
     DEF IInv, TypeOK

\* The first read of a slot cannot be requested.
LEMMA OpenFailsAioStep ==
  ASSUME IInv, OpenFailsAio
  PROVE  IInv'
<1>. USE DEF IInv, TypeOK
<1>1. OpenFacts
  BY AtOpen DEF OpenFailsAio, OpenFiles, Continue, CanOpen, ResetSlot, Break
<1>2. /\ ControlOK' /\ DestinationOK'
  BY <1>1 DEF OpenFailsAio, OpenFiles, Continue, CanOpen, ResetSlot, Break, OpenFacts,
              ControlOK, Caller, Active, Leave, Slot, DestinationOK, NoData
<1>3. SlotsOK'
  <2>1. /\ readed \in [Slot -> Int] /\ writed \in [Slot -> Int]
        /\ off_readed \in [Slot -> Int] /\ fl \in [Slot -> 0 .. 5]
        /\ rfd \in [Slot -> Int] /\ wfd \in [Slot -> Int] /\ roff \in [Slot -> Int]
        /\ woff \in [Slot -> Int] /\ rsize \in [Slot -> Int] /\ buf \in [Slot -> Int]
    BY DEF SlotsOK
  <2>2. /\ readed' = [readed EXCEPT ![r] = 0] /\ writed' = [writed EXCEPT ![r] = 0]
        /\ off_readed' = [off_readed EXCEPT ![r] = 0] /\ fl' = [fl EXCEPT ![r] = 2]
        /\ rfd' = [rfd EXCEPT ![r] = 0] /\ wfd' = [wfd EXCEPT ![r] = 0]
        /\ roff' = [roff EXCEPT ![r] = 0] /\ woff' = [woff EXCEPT ![r] = 0]
        /\ rsize' = [rsize EXCEPT ![r] = Smaller(len[r], SizeMem(r))]
        /\ buf' = [buf EXCEPT ![r] = NoData]
    BY <1>1 DEF OpenFailsAio, OpenFiles, ResetSlot
  <2>3. /\ readed' \in [Slot -> Int] /\ writed' \in [Slot -> Int]
        /\ off_readed' \in [Slot -> Int] /\ fl' \in [Slot -> 0 .. 5]
        /\ rfd' \in [Slot -> Int] /\ wfd' \in [Slot -> Int] /\ roff' \in [Slot -> Int]
        /\ woff' \in [Slot -> Int] /\ rsize' \in [Slot -> Int]
        /\ buf' \in [Slot -> Int]
    BY <1>1, <2>1, <2>2, SizeFacts DEF OpenFacts, Smaller, NoData
  <2>4. UNCHANGED << entry, len, mem, number_frag, giga_counter, base, wsize, bufw >>
    BY <1>1 DEF OpenFailsAio, OpenFiles, ResetSlot
  <2>. QED
    BY <1>1, <2>3, <2>4 DEF SlotsOK
<1>4. /\ QueueInv' /\ CoverInv' /\ IOInv'
  BY <1>1 DEF OpenFailsAio, OpenFiles, Continue, CanOpen, ResetSlot, Break, OpenFacts,
              QueueInv, Slot, ControlOK, SlotsOK, CoverInv, Active, Leave, IOInv, Act, WriteOwned, ReadOwned, GivenUp
<1>5. /\ CallerInv' /\ StoppedInv' /\ LeaveInv'
  BY <1>1 DEF OpenFailsAio, OpenFiles, Continue, CanOpen, ResetSlot, Break, OpenFacts,
              CallerInv, Slot, Caller, Pristine, ControlOK, IOInv, Active, Leave,
              StoppedInv, LeaveInv
<1>6. /\ WindowInv' /\ ReadInv'
  BY <1>1 DEF OpenFailsAio, OpenFiles, Continue, CanOpen, ResetSlot, Break, OpenFacts,
              WindowInv, Slot, Act, Active, Pristine, ControlOK, SlotsOK, IOInv,
              ReadInv, Sent, Mode, Double
<1>7. /\ PrefixInv' /\ CountInv' /\ WriteInv'
  BY <1>1 DEF OpenFailsAio, OpenFiles, Continue, CanOpen, ResetSlot, Break, OpenFacts,
              PrefixInv, Slot, IOInv, WindowInv, Act, Active, QueueInv, DestinationOK,
              ControlOK, SlotsOK, CountInv, Mode, WriteInv, Sent, Double
<1>8. CopyFaithful'
  <2>1. entry[r] \notin copied
    BY <1>1 DEF OpenFacts, IOInv
  <2>2. /\ UNCHANGED copied
        /\ \A e \in Entry : e # entry[r] => dst'[e] = dst[e]
    BY DEF OpenFailsAio, OpenFiles, DestinationOK
  <2>. QED
    BY <2>1, <2>2 DEF CopyFaithful, Faithful, ControlOK
<1>. QED
  BY <1>2, <1>3, <1>4, <1>5, <1>6, <1>7, <1>8 DEF IInv, TypeOK

\* No read has ended, or a write is still in flight.
LEMMA ReadNotEndedStep ==
  ASSUME IInv, ReadNotEnded
  PROVE  IInv'
<1>. USE DEF IInv, TypeOK
<1>1. /\ SlotsOK' /\ ControlOK' /\ DestinationOK'
  BY DEF ReadNotEnded, ReadEnded, SlotsOK, ControlOK, Caller, Active, Leave, Slot,
         DestinationOK
<1>2. /\ QueueInv' /\ CoverInv' /\ IOInv'
  BY SMTT(60) DEF ReadNotEnded, ReadEnded, QueueInv, Slot, ControlOK, SlotsOK, CoverInv,
         Active, Leave, IOInv, Act, WriteOwned, ReadOwned, GivenUp
<1>3. /\ CallerInv' /\ StoppedInv' /\ LeaveInv'
  BY DEF ReadNotEnded, ReadEnded, CallerInv, Slot, Caller, Pristine, ControlOK, IOInv,
         Active, Leave, StoppedInv, LeaveInv
<1>4. /\ WindowInv' /\ ReadInv'
  BY DEF ReadNotEnded, ReadEnded, WindowInv, Slot, Act, Active, Pristine, ControlOK,
         SlotsOK, IOInv, ReadInv, Sent, Mode, Double
<1>5. PrefixInv'
  BY DEF ReadNotEnded, ReadEnded, PrefixInv, Slot, IOInv, WindowInv, Act, Active,
         QueueInv, DestinationOK, ControlOK, SlotsOK
<1>6. CountInv'
  BY DEF ReadNotEnded, ReadEnded, CountInv, Slot, IOInv, WindowInv, Act, Active, Mode,
         ControlOK, SlotsOK
<1>7. WriteInv'
  BY DEF ReadNotEnded, ReadEnded, WriteInv, Slot, IOInv, WindowInv, Act, Active, Sent,
         Mode, Double, ControlOK, SlotsOK
<1>8. CopyFaithful'
  BY DEF ReadNotEnded, ReadEnded, CopyFaithful, Faithful, DestinationOK, IOInv
<1>. QED
  BY <1>1, <1>2, <1>3, <1>4, <1>5, <1>6, <1>7, <1>8
     DEF IInv, TypeOK

\* The write of what was read cannot be requested.
LEMMA WriteFailsStep ==
  ASSUME IInv, WriteFails
  PROVE  IInv'
<1>. USE DEF IInv, TypeOK
<1>1. ReadEndFacts
  BY AtReadEnd DEF WriteFails, ReadEnded, ToWrite, Break
<1>2. ToWriteFacts
  BY <1>1, AtToWrite DEF WriteFails, ReadEnded, Break
<1>3. SlotsOK'
  <2>1. /\ wsize' \in [Slot -> Int] /\ woff' \in [Slot -> Int] /\ bufw' \in [Slot -> Int]
        /\ UNCHANGED << mem, writed, giga_counter, base, wfd, queue >>
    BY <1>2 DEF ToWriteFacts
  <2>2. UNCHANGED << fl, number_frag, source >>
    BY DEF WriteFails
  <2>. QED
    BY <2>1, <2>2 DEF SlotsOK
<1>4. ControlOK'
  BY <1>1, <1>2, SMTT(30) DEF WriteFails, ReadEnded, Break, ReadEndFacts,
                              ToWriteFacts, ControlOK, Caller, Active, Leave, Slot
<1>5. DestinationOK'
  BY <1>1, <1>2 DEF WriteFails, ReadEnded, Break, ReadEndFacts, ToWriteFacts,
                    DestinationOK
<1>6. QueueInv'
  BY <1>1, <1>2 DEF WriteFails, ReadEnded, Break, ReadEndFacts, ToWriteFacts,
                    QueueInv, Slot, ControlOK, SlotsOK
<1>7. CoverInv'
  BY <1>1, <1>2 DEF WriteFails, ReadEnded, Break, ReadEndFacts, ToWriteFacts,
                    CoverInv, QueueInv, ControlOK, Active, Leave
<1>8. IOInv'
  BY <1>1, <1>2 DEF WriteFails, ReadEnded, Break, ReadEndFacts, ToWriteFacts, IOInv,
                    Slot, QueueInv, ControlOK, SlotsOK, Active, Leave, Act
<1>9. /\ CallerInv' /\ StoppedInv' /\ LeaveInv'
  BY <1>1, <1>2 DEF WriteFails, ReadEnded, Break, ReadEndFacts, ToWriteFacts,
                    CallerInv, Slot, Caller, Pristine, ControlOK, IOInv, Active,
                    Leave, StoppedInv, LeaveInv
<1>10. /\ WindowInv' /\ ReadInv'
  BY <1>1, <1>2 DEF WriteFails, ReadEnded, Break, ReadEndFacts, ToWriteFacts,
                    WindowInv, Slot, Act, Active, Pristine, ControlOK, SlotsOK, IOInv,
                    ReadInv, Sent, Mode, Double
<1>11. /\ PrefixInv' /\ CountInv' /\ WriteInv'
  BY <1>1, <1>2 DEF WriteFails, ReadEnded, Break, ReadEndFacts, ToWriteFacts,
                    PrefixInv, Slot, IOInv, WindowInv, Act, Active, QueueInv,
                    DestinationOK, ControlOK, SlotsOK, CountInv, Mode, WriteInv, Sent,
                    Double
<1>12. CopyFaithful'
  BY <1>1, <1>2 DEF WriteFails, ReadEnded, Break, ReadEndFacts, ToWriteFacts,
                    CopyFaithful, Faithful, DestinationOK, IOInv
<1>. QED
  BY <1>3, <1>4, <1>5, <1>6, <1>7, <1>8, <1>9, <1>10, <1>11, <1>12
     DEF IInv, TypeOK

\* The one buffer of a small file is written and the loop goes on to the next slot.
LEMMA SingleBufferStep ==
  ASSUME IInv, SingleBuffer
  PROVE  IInv'
<1>. USE DEF IInv, TypeOK
<1>1. ReadEndFacts
  BY AtReadEnd DEF SingleBuffer, ReadEnded, NextFile, WriteStarts, ToWrite
<1>2. ToWriteFacts
  BY <1>1, AtToWrite DEF SingleBuffer, ReadEnded, NextFile, WriteStarts
<1>3. SlotsOK'
  BY <1>1, <1>2 DEF SingleBuffer, ReadEnded, NextFile, WriteStarts, ReadEndFacts,
                    ToWriteFacts, SlotsOK, ControlOK
<1>4. ControlOK'
  BY <1>1, <1>2, SizeFacts, SMTT(30) DEF SingleBuffer, ReadEnded, NextFile,
                                         WriteStarts, ReadEndFacts, ToWriteFacts,
                                         ControlOK, Caller, Active, Leave, Slot
<1>5. DestinationOK'
  BY <1>1, <1>2 DEF SingleBuffer, ReadEnded, NextFile, WriteStarts, ReadEndFacts,
                    ToWriteFacts, DestinationOK
<1>6. /\ QueueInv' /\ CoverInv' /\ IOInv'
  BY <1>1, <1>2 DEF SingleBuffer, ReadEnded, NextFile, WriteStarts, ReadEndFacts,
                    ToWriteFacts, QueueInv, Slot, ControlOK, SlotsOK, CoverInv,
                    Active, Leave, IOInv, Act, WriteOwned, ReadOwned, GivenUp
<1>7. /\ CallerInv' /\ StoppedInv' /\ LeaveInv'
  BY <1>1, <1>2 DEF SingleBuffer, ReadEnded, NextFile, WriteStarts, ReadEndFacts,
                    ToWriteFacts, CallerInv, Slot, Caller, Pristine, ControlOK, IOInv,
                    Active, Leave, StoppedInv, LeaveInv
<1>8. /\ WindowInv' /\ ReadInv'
  BY <1>1, <1>2 DEF SingleBuffer, ReadEnded, NextFile, WriteStarts, ReadEndFacts,
                    ToWriteFacts, WindowInv, Slot, Act, Active, Pristine, ControlOK,
                    SlotsOK, IOInv, ReadInv, Sent, Mode, Double
<1>9. PrefixInv'
  BY <1>1, <1>2 DEF SingleBuffer, ReadEnded, NextFile, WriteStarts, ReadEndFacts,
                    ToWriteFacts, PrefixInv, Slot, IOInv, WindowInv, Act, Active,
                    QueueInv, DestinationOK, ControlOK, SlotsOK
<1>10. CountInv'
  <2>1. UNCHANGED << abort_copy, queue, writed, base, giga_counter, current_fast_file_w >>
        /\ fast_writing' = 1
    BY <1>1, <1>2 DEF SingleBuffer, NextFile, WriteStarts, ToWriteFacts, ReadEndFacts
  <2>. QED
    BY <1>1, <2>1 DEF CountInv, Act, Mode, ReadEndFacts, Slot
<1>11. WriteInv'
  BY <1>1, <1>2 DEF SingleBuffer, ReadEnded, NextFile, WriteStarts, ReadEndFacts,
                    ToWriteFacts, WriteInv, Slot, IOInv, WindowInv, Act, Active, Sent,
                    Mode, Double, ControlOK, SlotsOK
<1>12. CopyFaithful'
  BY <1>1, <1>2 DEF SingleBuffer, ReadEnded, NextFile, WriteStarts, ReadEndFacts,
                    ToWriteFacts, CopyFaithful, Faithful, DestinationOK, IOInv
<1>. QED
  BY <1>3, <1>4, <1>5, <1>6, <1>7, <1>8, <1>9, <1>10, <1>11, <1>12
     DEF IInv, TypeOK

\* The last buffer of a file is written.
LEMMA DoubleLastStep ==
  ASSUME IInv, DoubleLast
  PROVE  IInv'
<1>. USE DEF IInv, TypeOK
<1>1. ReadEndFacts
  BY AtReadEnd DEF DoubleLast, ReadEnded, NextFile, WriteStarts, ToWrite
<1>2. ToWriteFacts
  BY <1>1, AtToWrite DEF DoubleLast, ReadEnded, NextFile, WriteStarts
<1>3. /\ ControlOK' /\ DestinationOK'
  BY <1>1, <1>2, SizeFacts, SMTT(30) DEF DoubleLast, ReadEnded, NextFile, WriteStarts,
                                         ReadEndFacts, ToWriteFacts, ControlOK,
                                         Caller, Active, Leave, Slot, DestinationOK
<1>4. SlotsOK'
  <2>1. /\ fl \in [Slot -> 0 .. 5]
    BY DEF SlotsOK
  <2>2. /\ fl' = [fl EXCEPT ![r] = 5]
    BY <1>1, <1>2 DEF DoubleLast, NextFile, WriteStarts, ToWriteFacts, ReadEndFacts
  <2>3. /\ fl' \in [Slot -> 0 .. 5]
    BY <1>1, <1>2, <2>1, <2>2 DEF ReadEndFacts
  <2>4. UNCHANGED << entry, len, mem, number_frag, readed, off_readed, rfd, roff, rsize, writed, giga_counter, base, wfd, buf >>
    BY <1>1, <1>2 DEF DoubleLast, NextFile, WriteStarts, ToWriteFacts, ReadEndFacts
  <2>. QED
    BY <1>1, <1>2, <2>3, <2>4 DEF SlotsOK, ToWriteFacts
<1>5. /\ QueueInv' /\ CoverInv' /\ IOInv'
  BY <1>1, <1>2 DEF DoubleLast, ReadEnded, NextFile, WriteStarts, ReadEndFacts,
                    ToWriteFacts, QueueInv, Slot, ControlOK, SlotsOK, CoverInv,
                    Active, Leave, IOInv, Act, WriteOwned, ReadOwned, GivenUp
<1>6. /\ CallerInv' /\ StoppedInv' /\ LeaveInv'
  BY <1>1, <1>2 DEF DoubleLast, ReadEnded, NextFile, WriteStarts, ReadEndFacts,
                    ToWriteFacts, CallerInv, Slot, Caller, Pristine, ControlOK, IOInv,
                    Active, Leave, StoppedInv, LeaveInv
<1>7. /\ WindowInv' /\ ReadInv'
  BY <1>1, <1>2 DEF DoubleLast, ReadEnded, NextFile, WriteStarts, ReadEndFacts,
                    ToWriteFacts, WindowInv, Slot, Act, Active, Pristine, ControlOK,
                    SlotsOK, IOInv, ReadInv, Sent, Mode, Double
<1>8. PrefixInv'
  BY <1>1, <1>2 DEF DoubleLast, ReadEnded, NextFile, WriteStarts, ReadEndFacts,
                    ToWriteFacts, PrefixInv, Slot, IOInv, WindowInv, Act, Active,
                    QueueInv, DestinationOK, ControlOK, SlotsOK
<1>9. CountInv'
  <2>1. UNCHANGED << abort_copy, queue, writed, base, giga_counter, current_fast_file_w >>
        /\ fast_writing' = 1
    BY <1>1, <1>2 DEF DoubleLast, NextFile, WriteStarts, ToWriteFacts, ReadEndFacts
  <2>. QED
    BY <1>1, <2>1 DEF CountInv, Act, Mode, ReadEndFacts, Slot
<1>10. WriteInv'
  <2>1. readed[r] = len[r] /\ len[r] = Want(entry[r])
    BY <1>1 DEF DoubleLast, ReadEndFacts, Mode
  <2>2. Sent(w)' = len[r]
    BY <1>1, <1>2, <2>1 DEF DoubleLast, NextFile, WriteStarts, Sent, ReadEndFacts, ToWriteFacts
  <2>. QED
    BY <1>1, <1>2, <2>1, <2>2 DEF DoubleLast, NextFile, WriteStarts, ReadEndFacts, ToWriteFacts,
                                WriteInv, Double
<1>11. CopyFaithful'
  BY <1>1, <1>2 DEF DoubleLast, ReadEnded, NextFile, WriteStarts, ReadEndFacts,
                    ToWriteFacts, CopyFaithful, Faithful, DestinationOK, IOInv
<1>. QED
  BY <1>3, <1>4, <1>5, <1>6, <1>7, <1>8, <1>9, <1>10, <1>11
     DEF IInv, TypeOK

\* The last buffer of the last fragment is written.
LEMMA DoubleJoinedStep ==
  ASSUME IInv, DoubleJoined
  PROVE  IInv'
<1>. USE DEF IInv, TypeOK
<1>1. ReadEndFacts
  BY AtReadEnd DEF DoubleJoined, ReadEnded, NextFile, WriteStarts, ToWrite
<1>2. ToWriteFacts
  BY <1>1, AtToWrite DEF DoubleJoined, ReadEnded, NextFile, WriteStarts
<1>3. /\ ControlOK' /\ DestinationOK'
  BY <1>1, <1>2, SizeFacts, SMTT(30) DEF DoubleJoined, ReadEnded, NextFile,
                                         WriteStarts, ReadEndFacts, ToWriteFacts,
                                         ControlOK, Caller, Active, Leave, Slot,
                                         DestinationOK
<1>4. SlotsOK'
  <2>1. /\ number_frag \in [Slot -> Int] /\ off_readed \in [Slot -> Int]
    BY DEF SlotsOK
  <2>2. /\ number_frag' = [number_frag EXCEPT ![r] = number_frag[r] + 1]
        /\ off_readed' = [off_readed EXCEPT ![r] = readed[r]]
    BY <1>1, <1>2 DEF DoubleJoined, NextFile, WriteStarts, ToWriteFacts, ReadEndFacts
  <2>3. /\ number_frag' \in [Slot -> Int] /\ off_readed' \in [Slot -> Int]
    BY <1>1, <1>2, <2>1, <2>2 DEF ReadEndFacts, SlotsOK
  <2>4. UNCHANGED << entry, fl, len, mem, readed, rfd, roff, rsize, writed, giga_counter, base, wfd, buf >>
    BY <1>1, <1>2 DEF DoubleJoined, NextFile, WriteStarts, ToWriteFacts, ReadEndFacts
  <2>. QED
    BY <1>1, <1>2, <2>3, <2>4 DEF SlotsOK, ToWriteFacts
<1>5. /\ QueueInv' /\ CoverInv' /\ IOInv'
  BY <1>1, <1>2, SMTT(30) DEF DoubleJoined, ReadEnded, NextFile, WriteStarts,
                              ReadEndFacts, ToWriteFacts, QueueInv, Slot, ControlOK,
                              SlotsOK, CoverInv, Active, Leave, IOInv, Act, WriteOwned, ReadOwned, GivenUp
<1>6. /\ CallerInv' /\ StoppedInv' /\ LeaveInv'
  BY <1>1, <1>2 DEF DoubleJoined, ReadEnded, NextFile, WriteStarts, ReadEndFacts,
                    ToWriteFacts, CallerInv, Slot, Caller, Pristine, ControlOK, IOInv,
                    Active, Leave, StoppedInv, LeaveInv
<1>7. /\ WindowInv' /\ ReadInv'
  BY <1>1, <1>2, SMTT(30) DEF DoubleJoined, ReadEnded, NextFile, WriteStarts,
                              ReadEndFacts, ToWriteFacts, WindowInv, Slot, Act,
                              Active, Pristine, ControlOK, SlotsOK, IOInv, ReadInv,
                              Sent, Mode, Double
<1>8. PrefixInv'
  BY <1>1, <1>2 DEF DoubleJoined, ReadEnded, NextFile, WriteStarts, ReadEndFacts,
                    ToWriteFacts, PrefixInv, Slot, IOInv, WindowInv, Act, Active,
                    QueueInv, DestinationOK, ControlOK, SlotsOK
<1>9. CountInv'
  <2>1. UNCHANGED << abort_copy, queue, writed, base, giga_counter, current_fast_file_w >>
        /\ fast_writing' = 1
    BY <1>1, <1>2 DEF DoubleJoined, NextFile, WriteStarts, ToWriteFacts, ReadEndFacts
  <2>. QED
    BY <1>1, <2>1 DEF CountInv, Act, Mode, ReadEndFacts, Slot
<1>10. WriteInv'
  <2>1. readed[r] = len[r] /\ len[r] = Want(entry[r])
    BY <1>1, EntryFacts DEF DoubleJoined, Total, ReadEndFacts, Mode
  <2>2. Sent(w)' = len[r]
    BY <1>1, <1>2, <2>1 DEF DoubleJoined, NextFile, WriteStarts, Sent, ReadEndFacts, ToWriteFacts
  <2>. QED
    BY <1>1, <1>2, <2>1, <2>2 DEF DoubleJoined, NextFile, WriteStarts, ReadEndFacts, ToWriteFacts,
                                WriteInv, Double
<1>11. CopyFaithful'
  BY <1>1, <1>2 DEF DoubleJoined, ReadEnded, NextFile, WriteStarts, ReadEndFacts,
                    ToWriteFacts, CopyFaithful, Faithful, DestinationOK, IOInv
<1>. QED
  BY <1>3, <1>4, <1>5, <1>6, <1>7, <1>8, <1>9, <1>10, <1>11
     DEF IInv, TypeOK

\* A buffer is written while the next one is read.
LEMMA DoubleMoreStep ==
  ASSUME IInv, DoubleMore
  PROVE  IInv'
<1>. USE DEF IInv, TypeOK
<1>1. ReadEndFacts
  BY AtReadEnd DEF DoubleMore, ReadEnded, WriteStarts, ToWrite, ReadStarts, ReadFailsToStart, Smaller
<1>2. ToWriteFacts
  BY <1>1, AtToWrite DEF DoubleMore, ReadEnded, WriteStarts, ReadStarts, ReadFailsToStart, Smaller
<1>3. SlotsOK'
  <2>1. /\ fl \in [Slot -> 0 .. 5] /\ buf \in [Slot -> Int] /\ rsize \in [Slot -> Int]
        /\ roff \in [Slot -> Int]
    BY DEF SlotsOK
  <2>2. /\ fl' = [fl EXCEPT ![r] = 2] /\ buf' = [buf EXCEPT ![r] = NoData]
        /\ rsize' = [rsize EXCEPT ![r] = Smaller(len[r] - readed[r], SizeMem(r))]
        /\ roff' = [roff EXCEPT ![r] = readed[r] - off_readed[r]]
    BY <1>1, <1>2 DEF DoubleMore, WriteStarts, ToWriteFacts, ReadEndFacts
  <2>3. /\ fl' \in [Slot -> 0 .. 5] /\ buf' \in [Slot -> Int]
        /\ rsize' \in [Slot -> Int] /\ roff' \in [Slot -> Int]
    BY <1>1, <1>2, <2>1, <2>2 DEF ReadEndFacts, SlotsOK, Smaller, NoData
  <2>4. UNCHANGED << entry, len, mem, number_frag, readed, off_readed, rfd, writed, giga_counter, base, wfd >>
    BY <1>1, <1>2 DEF DoubleMore, WriteStarts, ToWriteFacts, ReadEndFacts
  <2>. QED
    BY <1>1, <1>2, <2>3, <2>4 DEF SlotsOK, ToWriteFacts
<1>4. ControlOK'
  <2>1. /\ pc' \in {"wend", "cancelw"} /\ fast_read' \in {0, 1} /\ id_r' \in {NoId, AnId}
        /\ rio' \in {"busy", rio} /\ rslot' \in {r, rslot} /\ error' \in {error, -3}
        /\ fast_writing' = 1 /\ id_w' = AnId /\ wio' = "busy" /\ wslot' = r
        /\ files_opened' \in Int
        /\ UNCHANGED << abort_copy, pend, todo, fast_num_files, fast_used_mem, disk,
                        current_fast_file_r, current_fast_file_w, i_reading >>
    BY <1>1, <1>2 DEF DoubleMore, WriteStarts, ReadStarts, ReadFailsToStart, ControlOK, ToWriteFacts, ReadEndFacts
  <2>. QED
    BY <1>1, <2>1 DEF ControlOK, Active, Leave, ReadEndFacts
<1>5. DestinationOK'
  BY <1>1, <1>2 DEF DoubleMore, ReadEnded, WriteStarts, ReadStarts, ReadFailsToStart,
                    Smaller, ReadEndFacts, ToWriteFacts, DestinationOK
<1>6. /\ QueueInv' /\ CoverInv' /\ IOInv'
  BY <1>1, <1>2, SMTT(60) DEF DoubleMore, ReadEnded, WriteStarts, ReadStarts,
                              ReadFailsToStart, Smaller, ReadEndFacts, ToWriteFacts,
                              QueueInv, Slot, ControlOK, SlotsOK, CoverInv, Active,
                              Leave, IOInv, Act, WriteOwned, ReadOwned, GivenUp
<1>7. /\ CallerInv' /\ StoppedInv' /\ LeaveInv'
  BY <1>1, <1>2, SMTT(30) DEF DoubleMore, ReadEnded, WriteStarts, ReadStarts,
                              ReadFailsToStart, Smaller, ReadEndFacts, ToWriteFacts,
                              CallerInv, Slot, Caller, Pristine, ControlOK, IOInv,
                              Active, Leave, StoppedInv, LeaveInv
<1>8. WindowInv'
  BY <1>1, <1>2 DEF DoubleMore, ReadEnded, WriteStarts, ReadStarts, ReadFailsToStart,
                    Smaller, ReadEndFacts, ToWriteFacts, WindowInv, Slot, Act, Active,
                    Pristine, ControlOK, SlotsOK, IOInv, WriteOwned, ReadOwned, GivenUp
<1>9. ReadInv'
  <2>. SUFFICES ASSUME Act', i_reading' = 1
                 PROVE  ReadInv'
    BY DEF ReadInv
  <2>1. /\ rsize'[r] > 0 /\ readed[r] + rsize'[r] <= len[r] /\ rsize'[r] \in Int
        /\ roff'[r] = readed[r] - off_readed[r] /\ fl'[r] = 2
    BY <1>1 DEF DoubleMore, ReadEndFacts, SlotsOK, Smaller
  <2>2. Sent(r)' = readed[r]
    BY <1>1, <1>2 DEF DoubleMore, WriteStarts, Sent, ReadEndFacts, ToWriteFacts
  <2>3. /\ ReadStarts /\ pc' = "wend"
        /\ UNCHANGED << number_frag, readed, off_readed, rfd, wfd, len, entry, r >>
    BY <1>1, <1>2 DEF DoubleMore, Act, Active, ToWriteFacts
  <2>4. off_readed[r] \in Int /\ readed[r] \in Int
    BY <1>1 DEF ReadEndFacts, SlotsOK
  <2>. QED
    BY <1>1, <2>1, <2>2, <2>3, <2>4 DEF ReadStarts, ReadEndFacts, ReadInv, Mode, Double
<1>10. /\ PrefixInv' /\ CountInv' /\ WriteInv'
  BY <1>1, <1>2, SMTT(30) DEF DoubleMore, ReadEnded, WriteStarts, ReadStarts,
                              ReadFailsToStart, Smaller, ReadEndFacts, ToWriteFacts,
                              PrefixInv, Slot, IOInv, WindowInv, Act, Active,
                              QueueInv, DestinationOK, ControlOK, SlotsOK, CountInv,
                              Mode, WriteInv, Sent, Double
<1>11. CopyFaithful'
  BY <1>1, <1>2 DEF DoubleMore, ReadEnded, WriteStarts, ReadStarts, ReadFailsToStart,
                    Smaller, ReadEndFacts, ToWriteFacts, CopyFaithful, Faithful,
                    DestinationOK, IOInv
<1>. QED
  BY <1>3, <1>4, <1>5, <1>6, <1>7, <1>8, <1>9, <1>10, <1>11
     DEF IInv, TypeOK

\* The next fragment exists but cannot be opened.
LEMMA JoinFailsOpenStep ==
  ASSUME IInv, JoinFailsOpen
  PROVE  IInv'
<1>. USE DEF IInv, TypeOK
<1>1. ReadEndFacts
  BY AtReadEnd DEF JoinFailsOpen, NextFragment, ReadEnded, WriteStarts, ToWrite, Break
<1>2. ToWriteFacts
  BY <1>1, AtToWrite DEF JoinFailsOpen, NextFragment, ReadEnded, WriteStarts, Break
<1>3. SlotsOK'
  <2>1. /\ number_frag \in [Slot -> Int] /\ off_readed \in [Slot -> Int]
        /\ rfd \in [Slot -> Int]
    BY DEF SlotsOK
  <2>2. /\ number_frag' = [number_frag EXCEPT ![r] = number_frag[r] + 1]
        /\ off_readed' = [off_readed EXCEPT ![r] = readed[r]]
        /\ rfd' = [rfd EXCEPT ![r] = Closed]
    BY <1>1, <1>2 DEF JoinFailsOpen, NextFragment, WriteStarts, ToWriteFacts, ReadEndFacts
  <2>3. /\ number_frag' \in [Slot -> Int] /\ off_readed' \in [Slot -> Int]
        /\ rfd' \in [Slot -> Int]
    BY <1>1, <1>2, <2>1, <2>2 DEF ReadEndFacts, SlotsOK
  <2>4. UNCHANGED << entry, fl, len, mem, readed, roff, rsize, writed, giga_counter, base, wfd, buf >>
    BY <1>1, <1>2 DEF JoinFailsOpen, NextFragment, WriteStarts, ToWriteFacts, ReadEndFacts
  <2>. QED
    BY <1>1, <1>2, <2>3, <2>4 DEF SlotsOK, ToWriteFacts
<1>4. ControlOK'
  <2>1. /\ pc' \in {"cancelw"} /\ fast_read' \in {0, 1} /\ id_r' \in {NoId, AnId}
        /\ rio' \in {"busy", rio} /\ rslot' \in {r, rslot} /\ error' \in {error, -1}
        /\ fast_writing' = 1 /\ id_w' = AnId /\ wio' = "busy" /\ wslot' = r
    BY <1>1, <1>2 DEF JoinFailsOpen, WriteStarts, NextFragment, Break, ControlOK
  <2>2. /\ files_opened' \in Int
        /\ UNCHANGED << abort_copy, pend, todo, fast_num_files, fast_used_mem, dst, leaked,
                        copied, global_device_bytes, current_fast_file_r,
                        current_fast_file_w, i_reading >>
    BY <1>1, <1>2 DEF JoinFailsOpen, WriteStarts, NextFragment, ControlOK, ToWriteFacts,
                      ReadEndFacts
  <2>. QED
    BY <1>1, <2>1, <2>2 DEF ControlOK, Active, Leave, ReadEndFacts
<1>5. DestinationOK'
  BY <1>1, <1>2 DEF JoinFailsOpen, NextFragment, ReadEnded, WriteStarts, Break,
                    ReadEndFacts, ToWriteFacts, DestinationOK
<1>6. QueueInv'
  <2>1. /\ UNCHANGED << pend, todo, fast_num_files, entry, mem, copied, abort_copy >>
        /\ pc' = "cancelw"
    BY <1>1, <1>2 DEF JoinFailsOpen, NextFragment, WriteStarts, Break, ToWriteFacts
  <2>. QED
    BY <1>1, <2>1 DEF QueueInv, ReadEndFacts
<1>7. CoverInv'
  BY <1>1, <1>2 DEF JoinFailsOpen, NextFragment, ReadEnded, WriteStarts, Break,
                    ReadEndFacts, ToWriteFacts, CoverInv, QueueInv, ControlOK, Active,
                    Leave
<1>8. IOInv'
  BY <1>1, <1>2 DEF JoinFailsOpen, NextFragment, ReadEnded, WriteStarts, Break,
                    ReadEndFacts, ToWriteFacts, IOInv, Slot, QueueInv, ControlOK,
                    SlotsOK, Active, Leave, Act, WriteOwned, ReadOwned, GivenUp
<1>9. /\ CallerInv' /\ StoppedInv' /\ LeaveInv'
  BY <1>1, <1>2 DEF JoinFailsOpen, NextFragment, ReadEnded, WriteStarts, Break,
                    ReadEndFacts, ToWriteFacts, CallerInv, Slot, Caller, Pristine,
                    ControlOK, IOInv, Active, Leave, StoppedInv, LeaveInv
<1>10. /\ WindowInv' /\ ReadInv'
  BY <1>1, <1>2 DEF JoinFailsOpen, NextFragment, ReadEnded, WriteStarts, Break,
                    ReadEndFacts, ToWriteFacts, WindowInv, Slot, Act, Active,
                    Pristine, ControlOK, SlotsOK, IOInv, ReadInv, Sent, Mode, Double
<1>11. /\ PrefixInv' /\ CountInv' /\ WriteInv'
  BY <1>1, <1>2 DEF JoinFailsOpen, NextFragment, ReadEnded, WriteStarts, Break,
                    ReadEndFacts, ToWriteFacts, PrefixInv, Slot, IOInv, WindowInv,
                    Act, Active, QueueInv, DestinationOK, ControlOK, SlotsOK,
                    CountInv, Mode, WriteInv, Sent, Double
<1>12. CopyFaithful'
  BY <1>1, <1>2 DEF JoinFailsOpen, NextFragment, ReadEnded, WriteStarts, Break,
                    ReadEndFacts, ToWriteFacts, CopyFaithful, Faithful, DestinationOK,
                    IOInv
<1>. QED
  BY <1>3, <1>4, <1>5, <1>6, <1>7, <1>8, <1>9, <1>10, <1>11, <1>12
     DEF IInv, TypeOK

\* A buffer is written while the first one of the next fragment is read.
LEMMA JoinMoreStep ==
  ASSUME IInv, JoinMore
  PROVE  IInv'
<1>. USE DEF IInv, TypeOK
<1>1. ReadEndFacts
  BY AtReadEnd DEF JoinMore, NextFragment, ReadEnded, WriteStarts, ToWrite, ReadStarts, ReadFailsToStart, Smaller
<1>2. ToWriteFacts
  BY <1>1, AtToWrite DEF JoinMore, NextFragment, ReadEnded, WriteStarts, ReadStarts, ReadFailsToStart, Smaller
<1>3. /\ number_frag[r] + 1 \in 0 .. NFrags[entry[r]] - 1 /\ number_frag[r] = rfd[r]
      /\ Start[entry[r]][number_frag[r] + 1] = len[r] /\ readed[r] = len[r]
      /\ Start[entry[r]][number_frag[r] + 1 + 1] \in Nat
      /\ Start[entry[r]][number_frag[r] + 1] < Start[entry[r]][number_frag[r] + 1 + 1]
      /\ Start[entry[r]][number_frag[r] + 1 + 1] <= Total(entry[r])
      /\ Want(entry[r]) = Total(entry[r]) /\ Total(entry[r]) \in Nat
  BY <1>1, EntryFacts, SMTT(30) DEF JoinMore, NextFragment, ReadEnded, ReadEndFacts, Mode
<1>4. DestinationOK'
  BY <1>1, <1>2 DEF JoinMore, NextFragment, ReadEnded, WriteStarts, ReadStarts,
                    ReadFailsToStart, Smaller, ReadEndFacts, ToWriteFacts,
                    DestinationOK
<1>5. SlotsOK'
  <2>1. /\ number_frag \in [Slot -> Int] /\ off_readed \in [Slot -> Int]
        /\ rfd \in [Slot -> Int] /\ len \in [Slot -> Int] /\ rsize \in [Slot -> Int]
        /\ roff \in [Slot -> Int] /\ buf \in [Slot -> Int]
    BY DEF SlotsOK
  <2>2. /\ number_frag' = [number_frag EXCEPT ![r] = number_frag[r] + 1]
        /\ off_readed' = [off_readed EXCEPT ![r] = readed[r]]
        /\ rfd' = [rfd EXCEPT ![r] = number_frag[r] + 1]
        /\ len' = [len EXCEPT ![r] = len[r] + (Start[entry[r]][number_frag[r] + 1 + 1]
                         - Start[entry[r]][number_frag[r] + 1])]
        /\ rsize' = [rsize EXCEPT ![r] = Smaller(len[r] + (Start[entry[r]][number_frag[r] + 1 + 1]
                         - Start[entry[r]][number_frag[r] + 1]) - readed[r], SizeMem(r))]
        /\ roff' = [roff EXCEPT ![r] = 0] /\ buf' = [buf EXCEPT ![r] = NoData]
    BY <1>1, <1>2, <1>3 DEF JoinMore, NextFragment, WriteStarts, ToWriteFacts, ReadEndFacts
  <2>3. /\ number_frag' \in [Slot -> Int] /\ off_readed' \in [Slot -> Int]
        /\ rfd' \in [Slot -> Int] /\ len' \in [Slot -> Int]
        /\ rsize' \in [Slot -> Int] /\ roff' \in [Slot -> Int]
        /\ buf' \in [Slot -> Int]
    BY <1>1, <1>2, <1>3, <2>1, <2>2 DEF ReadEndFacts, SlotsOK, Smaller, NoData
  <2>4. UNCHANGED << entry, fl, mem, readed, writed, giga_counter, base, wfd >>
    BY <1>1, <1>2, <1>3 DEF JoinMore, NextFragment, WriteStarts, ToWriteFacts, ReadEndFacts
  <2>. QED
    BY <1>1, <1>2, <1>3, <2>3, <2>4 DEF SlotsOK, ToWriteFacts
<1>6. ControlOK'
  <2>1. /\ pc' \in {"join", "cancelw"} /\ fast_read' \in {0, 1} /\ id_r' \in {NoId, AnId}
        /\ rio' \in {"busy", rio} /\ rslot' \in {r, rslot} /\ error' \in {error, -3}
        /\ fast_writing' = 1 /\ id_w' = AnId /\ wio' = "busy" /\ wslot' = r
        /\ UNCHANGED << abort_copy, queue, disk, current_fast_file_r, current_fast_file_w,
                        i_reading >>
    BY <1>1, <1>2 DEF JoinMore, NextFragment, WriteStarts, ReadStarts, ReadFailsToStart,
                      ControlOK, ToWriteFacts, ReadEndFacts
  <2>. QED
    BY <1>1, <2>1 DEF ControlOK, Active, Leave, ReadEndFacts
<1>7. QueueInv'
  <2>1. /\ UNCHANGED << queue, entry, mem, copied, abort_copy >>
        /\ pc' \in {"join", "cancelw"}
    BY <1>1, <1>2 DEF JoinMore, NextFragment, WriteStarts, ToWriteFacts
  <2>. QED
    <3>1. QueueInv
      OBVIOUS
    <3>. HIDE DEF IInv, TypeOK
    <3>. QED
      BY <2>1, <3>1 DEF QueueInv
<1>8. CoverInv'
  BY <1>1, <1>2 DEF JoinMore, NextFragment, ReadEnded, WriteStarts, ReadStarts,
                    ReadFailsToStart, Smaller, ReadEndFacts, ToWriteFacts, CoverInv,
                    QueueInv, ControlOK, Active, Leave
<1>9. IOInv'
  <2>1. /\ rfd'[r] \in 0 .. NFrags[entry[r]] - 1 /\ wfd'[r] # Closed /\ wslot' = r /\ w' = r
        /\ fast_writing' = 1 /\ id_w' = AnId /\ pc' \in {"join", "cancelw"}
        /\ UNCHANGED << queue, copied, abort_copy, r >>
    BY <1>1, <1>2, <1>3 DEF JoinMore, NextFragment, WriteStarts, ToWriteFacts, ReadEndFacts,
                            SlotsOK
  <2>2. \/ ReadStarts /\ pc' = "join"
        \/ UNCHANGED << rio, rslot >> /\ error' = -3 /\ pc' = "cancelw"
    BY DEF JoinMore, ReadFailsToStart
  <2>3. /\ r' = r /\ r \in Used' /\ entry' = entry /\ copied' = copied /\ entry[r] \in Entry \ copied
        /\ ~abort_copy' /\ rio = "none"
    BY <1>1, <2>1 DEF ReadEndFacts, Act
  <2>4. entry'[wslot'] \in Entry \ copied' /\ WriteOwned'
    <3>1. w' = r /\ wslot' = r /\ r \in Used' /\ wfd'[r] # Closed /\ fast_writing' = 1 /\ id_w' = AnId
      BY <2>1, <2>3
    <3>2. pc' \in Active \/ (pc' = "cancelw" /\ error' # 0)
      BY <2>2 DEF Active, ReadStarts
    <3> QED  BY <2>3, <3>1, <3>2 DEF WriteOwned, GivenUp, Active, Leave, AnId, NoId, Closed
  <2>5. CASE ReadStarts /\ pc' = "join"
    <3>1. /\ rslot' = r /\ rio' = "busy" /\ fast_read' = 1 /\ id_r' = AnId /\ pc' \in Active
          /\ pc' \notin {"sleepr", "free"}
      BY <2>5 DEF ReadStarts, Active
    <3>2. ReadOwned'
      BY <2>1, <2>3, <3>1 DEF ReadOwned, GivenUp, Active, Leave, AnId, NoId
    <3> QED  BY <2>1, <2>3, <2>4, <3>1, <3>2 DEF IOInv
  <2>6. CASE UNCHANGED << rio, rslot >>
    BY <2>3, <2>4, <2>6 DEF IOInv
  <2>. QED
    BY <2>2, <2>5, <2>6
<1>10. CallerInv'
  BY <1>1, <1>2 DEF JoinMore, NextFragment, ReadEnded, WriteStarts, ReadStarts,
                    ReadFailsToStart, Smaller, ReadEndFacts, ToWriteFacts, CallerInv,
                    Slot, Caller, Pristine, ControlOK, IOInv, Active, Leave
<1>11. StoppedInv'
  BY <1>1, <1>2 DEF JoinMore, NextFragment, ReadEnded, WriteStarts, ReadStarts,
                    ReadFailsToStart, Smaller, ReadEndFacts, ToWriteFacts, StoppedInv,
                    Active, IOInv
<1>12. LeaveInv'
  BY <1>1, <1>2 DEF JoinMore, NextFragment, ReadEnded, WriteStarts, ReadStarts,
                    ReadFailsToStart, Smaller, ReadEndFacts, ToWriteFacts, LeaveInv,
                    Leave, Active, IOInv
<1>13. WindowInv'
  BY <1>1, <1>2 DEF JoinMore, NextFragment, ReadEnded, WriteStarts, ReadStarts,
                    ReadFailsToStart, Smaller, ReadEndFacts, ToWriteFacts, WindowInv,
                    Slot, Act, Active, Pristine, ControlOK, SlotsOK, IOInv
<1>14. ReadInv'
  <2>. SUFFICES ASSUME Act', i_reading' = 1
                 PROVE  ReadInv'
    BY DEF ReadInv
  <2>1. /\ len'[r] = Start[entry[r]][number_frag[r] + 1 + 1]
        /\ rsize'[r] = Smaller(len'[r] - readed[r], SizeMem(r))
        /\ roff'[r] = 0 /\ off_readed'[r] = readed[r] /\ number_frag'[r] = number_frag[r] + 1
        /\ rfd'[r] = number_frag[r] + 1
    BY <1>1, <1>3 DEF JoinMore, NextFragment, ReadEndFacts, SlotsOK
  <2>2. Sent(r)' = readed[r]
    BY <1>1, <1>2 DEF JoinMore, NextFragment, WriteStarts, Sent, ReadEndFacts, ToWriteFacts
  <2>3. /\ ReadStarts /\ pc' = "join" /\ Mode(r) = 2 /\ Double(r) /\ fl[r] = 3
        /\ UNCHANGED << readed, fl, wfd, entry, r >>
    BY <1>1, <1>2 DEF JoinMore, NextFragment, ReadEnded, Act, Active, ToWriteFacts
  <2>4. /\ rsize'[r] > 0 /\ readed[r] + rsize'[r] <= len'[r] /\ rsize'[r] \in Int
        /\ readed[r] \in Int /\ readed[r] >= 0
    BY <1>1, <1>3, <2>1 DEF ReadEndFacts, Smaller
  <2>. QED
    BY <1>1, <1>3, <2>1, <2>2, <2>3, <2>4 DEF ReadStarts, ReadEndFacts, ReadInv, Mode, Double
<1>15. PrefixInv'
  BY <1>1, <1>2 DEF JoinMore, NextFragment, ReadEnded, WriteStarts, ReadStarts,
                    ReadFailsToStart, Smaller, ReadEndFacts, ToWriteFacts, PrefixInv,
                    Slot, IOInv, WindowInv, Act, Active, QueueInv, DestinationOK,
                    ControlOK, SlotsOK
<1>16. CountInv'
  <2>1. UNCHANGED << abort_copy, queue, writed, base, giga_counter, current_fast_file_w >>
        /\ fast_writing' = 1
    BY <1>1, <1>2 DEF JoinMore, NextFragment, WriteStarts, ToWriteFacts, ReadEndFacts
  <2>. QED
    BY <1>1, <2>1 DEF CountInv, Act, Mode, ReadEndFacts, Slot
<1>17. WriteInv'
  <2>1. Sent(w)' = readed[r]
    BY <1>1, <1>2 DEF JoinMore, NextFragment, ReadEnded, WriteStarts, Sent, ReadEndFacts, ToWriteFacts
  <2>2. /\ wio' = "busy" /\ wsize'[r] > 0 /\ readed[r] <= Want(entry[r])
        /\ writed[r] >= 0 /\ Double(r)
        /\ UNCHANGED << entry, writed, r >>
    BY <1>1, <1>2 DEF JoinMore, NextFragment, ReadEnded, WriteStarts, ReadEndFacts, ToWriteFacts
  <2>3. /\ base'[r] + woff'[r] = writed'[r] /\ bufw'[r] = writed'[r] /\ w' = r
        /\ Double(w)' /\ writed'[r] >= 0
    BY <1>1, <1>2, <2>2 DEF ToWriteFacts, Double
  <2>4. Sent(w)' <= Want(entry[w])' /\ wsize'[w'] > 0
    BY <2>1, <2>2, <2>3
  <2>5. /\ writed'[w'] >= 0 /\ base'[w'] + woff'[w'] = writed'[w']
        /\ (IF Double(w)' THEN bufw'[w'] ELSE buf'[w']) = writed'[w']
    BY <2>3
  <2>6. r' = w' /\ w' \in Nat /\ wfd'[w'] # Closed
    BY <1>1, <1>2, <2>2 DEF JoinMore, ReadEndFacts, ToWriteFacts, IOInv
  <2>. QED
    BY <2>2, <2>3, <2>4, <2>5, <2>6 DEF WriteInv
<1>18. CopyFaithful'
  BY <1>1, <1>2 DEF JoinMore, NextFragment, ReadEnded, WriteStarts, ReadStarts,
                    ReadFailsToStart, Smaller, ReadEndFacts, ToWriteFacts,
                    CopyFaithful, Faithful, DestinationOK, IOInv
<1>. QED
  BY <1>4, <1>5, <1>6, <1>7, <1>8, <1>9, <1>10, <1>11, <1>12, <1>13, <1>14, <1>15,
     <1>16, <1>17, <1>18 DEF IInv, TypeOK

\* fl is set after that read was requested, perhaps after it ended.
LEMMA JoinSetsFlStep ==
  ASSUME IInv, JoinSetsFl
  PROVE  IInv'
<1>. USE DEF IInv, TypeOK
<1>1. r \in Used /\ r \in Slot /\ r = w /\ Act
  BY DEF JoinSetsFl, StoppedInv, WindowInv, Act, Active
<1>2. /\ SlotsOK' /\ ControlOK' /\ DestinationOK'
  BY <1>1 DEF JoinSetsFl, SlotsOK, ControlOK, Caller, Active, Leave, Slot,
              DestinationOK
<1>3. /\ QueueInv' /\ CoverInv' /\ IOInv'
  BY <1>1 DEF JoinSetsFl, QueueInv, Slot, ControlOK, SlotsOK, CoverInv, Active, Leave,
              IOInv, Act, WriteOwned, ReadOwned, GivenUp
<1>4. /\ CallerInv' /\ StoppedInv' /\ LeaveInv'
  BY <1>1 DEF JoinSetsFl, CallerInv, Slot, Caller, Pristine, ControlOK, IOInv, Active,
              Leave, StoppedInv, LeaveInv
<1>5. /\ WindowInv' /\ ReadInv'
  BY <1>1 DEF JoinSetsFl, WindowInv, Slot, Act, Active, Pristine, ControlOK, SlotsOK,
              IOInv, ReadInv, Sent, Mode, Double
<1>6. /\ PrefixInv' /\ CountInv' /\ WriteInv'
  BY <1>1 DEF JoinSetsFl, PrefixInv, Slot, IOInv, WindowInv, Act, Active, QueueInv,
              DestinationOK, ControlOK, SlotsOK, CountInv, Mode, WriteInv, Sent,
              Double
<1>7. CopyFaithful'
  BY <1>1 DEF JoinSetsFl, CopyFaithful, Faithful, DestinationOK, IOInv
<1>. QED
  BY <1>2, <1>3, <1>4, <1>5, <1>6, <1>7 DEF IInv, TypeOK

\* No write has ended.
LEMMA WriteNotEndedStep ==
  ASSUME IInv, WriteNotEnded
  PROVE  IInv'
<1>. USE DEF IInv, TypeOK
<1>1. SlotsOK'
  BY DEF WriteNotEnded, WriteEnded, SlotsOK, ControlOK
<1>2. ControlOK'
  BY DEF WriteNotEnded, WriteEnded, ControlOK, Caller, Active, Leave, Slot
<1>3. DestinationOK'
  BY DEF WriteNotEnded, WriteEnded, DestinationOK
<1>4. QueueInv'
  BY SMTT(30) DEF WriteNotEnded, WriteEnded, QueueInv, Slot, ControlOK, SlotsOK
<1>5. CoverInv'
  BY DEF WriteNotEnded, WriteEnded, CoverInv, QueueInv, ControlOK, Active, Leave
<1>6. IOInv'
  BY DEF WriteNotEnded, WriteEnded, IOInv, Slot, QueueInv, ControlOK, SlotsOK, Active,
         Leave, Act, WriteOwned, ReadOwned, GivenUp
<1>7. /\ CallerInv' /\ StoppedInv' /\ LeaveInv'
  BY DEF WriteNotEnded, WriteEnded, CallerInv, Slot, Caller, Pristine, ControlOK,
         IOInv, Active, Leave, StoppedInv, LeaveInv
<1>8. /\ WindowInv' /\ ReadInv'
  BY DEF WriteNotEnded, WriteEnded, WindowInv, Slot, Act, Active, Pristine, ControlOK,
         SlotsOK, IOInv, ReadInv, Sent, Mode, Double
<1>9. PrefixInv'
  BY DEF WriteNotEnded, WriteEnded, PrefixInv, Slot, IOInv, WindowInv, Act, Active,
         QueueInv, DestinationOK, ControlOK, SlotsOK
<1>10. CountInv'
  BY DEF WriteNotEnded, WriteEnded, CountInv, Slot, IOInv, WindowInv, Act, Active,
         Mode, ControlOK, SlotsOK
<1>11. WriteInv'
  BY DEF WriteNotEnded, WriteEnded, WriteInv, Slot, IOInv, WindowInv, Act, Active,
         Sent, Mode, Double, ControlOK, SlotsOK
<1>12. CopyFaithful'
  BY DEF WriteNotEnded, WriteEnded, CopyFaithful, Faithful, DestinationOK, IOInv
<1>. QED
  BY <1>1, <1>2, <1>3, <1>4, <1>5, <1>6, <1>7, <1>8, <1>9, <1>10, <1>11, <1>12
     DEF IInv, TypeOK

\* A write has failed.
LEMMA WriteErrorStep ==
  ASSUME IInv, WriteError
  PROVE  IInv'
<1>. USE DEF IInv, TypeOK
<1>1. WriteEndFacts
  BY AtWriteEnd DEF WriteError, WriteAcknowledged, WriteEnded, Break
<1>2. SlotsOK'
  BY <1>1 DEF WriteError, WriteAcknowledged, WriteEnded, Break, WriteEndFacts,
              SlotsOK, ControlOK
<1>3. ControlOK'
  BY <1>1 DEF WriteError, WriteAcknowledged, WriteEnded, Break, WriteEndFacts,
              ControlOK, Caller, Active, Leave, Slot
<1>4. DestinationOK'
  BY <1>1 DEF WriteError, WriteAcknowledged, WriteEnded, Break, WriteEndFacts,
              DestinationOK
<1>5. /\ QueueInv' /\ CoverInv' /\ IOInv'
  <2>1. QueueInv'
    BY <1>1 DEF WriteError, WriteAcknowledged, WriteEnded, Break, WriteEndFacts,
                QueueInv, Slot, ControlOK, SlotsOK, CoverInv, Active, Leave, IOInv, Act, WriteOwned, ReadOwned, GivenUp
  <2>2. CoverInv'
    BY <1>1 DEF WriteError, WriteAcknowledged, WriteEnded, Break, WriteEndFacts,
                QueueInv, Slot, ControlOK, SlotsOK, CoverInv, Active, Leave, IOInv, Act, WriteOwned, ReadOwned, GivenUp
  <2>3. IOInv'
    BY <1>1 DEF WriteError, WriteAcknowledged, WriteEnded, Break, WriteEndFacts,
                QueueInv, Slot, ControlOK, SlotsOK, CoverInv, Active, Leave, IOInv, Act, WriteOwned, ReadOwned, GivenUp
  <2>. QED
    BY <2>1, <2>2, <2>3
<1>6. /\ CallerInv' /\ StoppedInv' /\ LeaveInv'
  BY <1>1 DEF WriteError, WriteAcknowledged, WriteEnded, Break, WriteEndFacts,
              CallerInv, Slot, Caller, Pristine, ControlOK, IOInv, Active, Leave,
              StoppedInv, LeaveInv
<1>7. /\ WindowInv' /\ ReadInv'
  BY <1>1 DEF WriteError, WriteAcknowledged, WriteEnded, Break, WriteEndFacts,
              WindowInv, Slot, Act, Active, Pristine, ControlOK, SlotsOK, IOInv,
              ReadInv, Sent, Mode, Double
<1>8. /\ PrefixInv' /\ CountInv' /\ WriteInv'
  BY <1>1 DEF WriteError, WriteAcknowledged, WriteEnded, Break, WriteEndFacts,
              PrefixInv, Slot, IOInv, WindowInv, Act, Active, QueueInv, DestinationOK,
              ControlOK, SlotsOK, CountInv, Mode, WriteInv, Sent, Double
<1>9. CopyFaithful'
  BY <1>1 DEF WriteError, WriteAcknowledged, WriteEnded, Break, WriteEndFacts,
              CopyFaithful, Faithful, DestinationOK, IOInv
<1>. QED
  BY <1>2, <1>3, <1>4, <1>5, <1>6, <1>7, <1>8, <1>9
     DEF IInv, TypeOK

\* The last write of a file has ended: the file is complete.
LEMMA FileDoneStep ==
  ASSUME IInv, FileDone
  PROVE  IInv'
<1>. USE DEF IInv, TypeOK
<1>1. WriteEndFacts
  BY AtWriteEnd DEF FileDone, WriteAcknowledged, WriteEnded, OpenHandles
<1>2. r = w + 1 /\ writed[w] = Want(entry[w])
  BY <1>1 DEF FileDone, WriteEndFacts
<1>3. SlotsOK'
  BY <1>1, <1>2 DEF FileDone, WriteAcknowledged, WriteEnded, OpenHandles,
                    WriteEndFacts, SlotsOK, ControlOK
<1>4. ControlOK'
  BY <1>1, <1>2, SizeFacts DEF FileDone, WriteAcknowledged, WriteEnded, OpenHandles,
                               WriteEndFacts, ControlOK, Caller, Active, Leave, Slot
<1>5. DestinationOK'
  BY <1>1, <1>2 DEF FileDone, WriteAcknowledged, WriteEnded, OpenHandles,
                    WriteEndFacts, DestinationOK
<1>6. /\ QueueInv' /\ CoverInv' /\ IOInv'
  BY <1>1, <1>2 DEF FileDone, WriteAcknowledged, WriteEnded, OpenHandles,
                    WriteEndFacts, QueueInv, Slot, ControlOK, SlotsOK, CoverInv,
                    Active, Leave, IOInv, Act, WriteOwned, ReadOwned, GivenUp
<1>7. /\ CallerInv' /\ StoppedInv' /\ LeaveInv'
  BY <1>1, <1>2 DEF FileDone, WriteAcknowledged, WriteEnded, OpenHandles,
                    WriteEndFacts, CallerInv, Slot, Caller, Pristine, ControlOK,
                    IOInv, Active, Leave, StoppedInv, LeaveInv
<1>8. /\ WindowInv' /\ ReadInv'
  BY <1>1, <1>2, SMTT(30) DEF FileDone, WriteAcknowledged, WriteEnded, OpenHandles,
                              WriteEndFacts, WindowInv, Slot, Act, Active, Pristine,
                              ControlOK, SlotsOK, IOInv, QueueInv, ReadInv, Sent,
                              Mode, Double
<1>9. PrefixInv'
  <2>1. /\ UNCHANGED << dst, entry, fast_num_files >>
        /\ Act /\ current_fast_file_w' = w + 1
        /\ \A s \in Used : s # w => writed'[s] = writed[s]
    BY <1>1, <1>2 DEF FileDone, WriteAcknowledged, WriteEndFacts, SlotsOK, Slot
  <2>. QED
    BY <1>1, <2>1 DEF PrefixInv, Slot, WriteEndFacts
<1>10. CountInv'
  BY <1>1, <1>2 DEF FileDone, WriteAcknowledged, WriteEnded, OpenHandles,
                    WriteEndFacts, CountInv, Slot, IOInv, WindowInv, Act, Active,
                    Mode, ControlOK, SlotsOK
<1>11. WriteInv'
  BY <1>1, <1>2 DEF FileDone, WriteAcknowledged, WriteEnded, OpenHandles,
                    WriteEndFacts, WriteInv, Slot, IOInv, WindowInv, Act, Active,
                    Sent, Mode, Double, ControlOK, SlotsOK
<1>12. CopyFaithful'
  <2>1. Faithful(entry[w])
    BY <1>1, <1>2 DEF WriteEndFacts, PrefixInv, Faithful
  <2>. QED
    BY <2>1 DEF FileDone, CopyFaithful, Faithful
<1>. QED
  BY <1>3, <1>4, <1>5, <1>6, <1>7, <1>8, <1>9, <1>10, <1>11, <1>12
     DEF IInv, TypeOK

\* The next fragment of a split destination is created.
LEMMA SplitNextStep ==
  ASSUME IInv, SplitNext
  PROVE  IInv'
<1>. USE DEF IInv, TypeOK
<1>1. WriteEndFacts
  BY AtWriteEnd DEF SplitNext, WriteAcknowledged, WriteEnded, SplitNow, Rolled
<1>2. SlotsOK'
  BY <1>1 DEF SplitNext, WriteAcknowledged, WriteEnded, SplitNow, Rolled,
              WriteEndFacts, SlotsOK, ControlOK
<1>3. ControlOK'
  BY <1>1 DEF SplitNext, WriteAcknowledged, WriteEnded, SplitNow, Rolled,
              WriteEndFacts, ControlOK, Caller, Active, Leave, Slot
<1>4. DestinationOK'
  BY <1>1 DEF SplitNext, WriteAcknowledged, WriteEnded, SplitNow, Rolled,
              WriteEndFacts, DestinationOK
<1>5. QueueInv'
  BY <1>1 DEF SplitNext, WriteAcknowledged, WriteEnded, SplitNow, Rolled,
              WriteEndFacts, QueueInv, Slot, ControlOK, SlotsOK
<1>6. CoverInv'
  BY <1>1 DEF SplitNext, WriteAcknowledged, WriteEnded, SplitNow, Rolled,
              WriteEndFacts, CoverInv, QueueInv, ControlOK, Active, Leave
<1>7. IOInv'
  BY <1>1 DEF SplitNext, WriteAcknowledged, WriteEnded, SplitNow, Rolled,
              WriteEndFacts, IOInv, Slot, QueueInv, ControlOK, SlotsOK, Active, Leave,
              Act, WriteOwned, ReadOwned, GivenUp
<1>8. /\ CallerInv' /\ StoppedInv' /\ LeaveInv'
  BY <1>1 DEF SplitNext, WriteAcknowledged, WriteEnded, SplitNow, Rolled,
              WriteEndFacts, CallerInv, Slot, Caller, Pristine, ControlOK, IOInv,
              Active, Leave, StoppedInv, LeaveInv
<1>9. /\ WindowInv' /\ ReadInv'
  BY <1>1, SMTT(30) DEF SplitNext, WriteAcknowledged, WriteEnded, SplitNow, Rolled,
                        WriteEndFacts, WindowInv, Slot, Act, Active, Pristine,
                        ControlOK, SlotsOK, IOInv, ReadInv, Sent, Mode, Double
<1>10. PrefixInv'
  BY <1>1 DEF SplitNext, WriteAcknowledged, WriteEnded, SplitNow, Rolled,
              WriteEndFacts, PrefixInv, Slot, IOInv, WindowInv, Act, Active, QueueInv,
              DestinationOK, ControlOK, SlotsOK
<1>11. CountInv'
  BY <1>1 DEF SplitNext, WriteAcknowledged, WriteEnded, SplitNow, Rolled,
              WriteEndFacts, CountInv, Slot, IOInv, WindowInv, Act, Active, Mode,
              ControlOK, SlotsOK
<1>12. WriteInv'
  BY <1>1 DEF SplitNext, WriteAcknowledged, WriteEnded, SplitNow, Rolled,
              WriteEndFacts, WriteInv, Slot, IOInv, WindowInv, Act, Active, Sent,
              Mode, Double, ControlOK, SlotsOK
<1>13. CopyFaithful'
  BY <1>1 DEF SplitNext, WriteAcknowledged, WriteEnded, SplitNow, Rolled,
              WriteEndFacts, CopyFaithful, Faithful, DestinationOK, IOInv
<1>. QED
  BY <1>2, <1>3, <1>4, <1>5, <1>6, <1>7, <1>8, <1>9, <1>10, <1>11, <1>12, <1>13
     DEF IInv, TypeOK

\* The next fragment of a split destination cannot be created.
LEMMA SplitFailsStep ==
  ASSUME IInv, SplitFails
  PROVE  IInv'
<1>. USE DEF IInv, TypeOK
<1>1. WriteEndFacts
  BY AtWriteEnd DEF SplitFails, WriteAcknowledged, WriteEnded, SplitNow, Rolled, Break
<1>2. SlotsOK'
  BY <1>1 DEF SplitFails, WriteAcknowledged, WriteEnded, SplitNow, Rolled, Break,
              WriteEndFacts, SlotsOK, ControlOK
<1>3. ControlOK'
  BY <1>1 DEF SplitFails, WriteAcknowledged, WriteEnded, SplitNow, Rolled, Break,
              WriteEndFacts, ControlOK, Caller, Active, Leave, Slot
<1>4. DestinationOK'
  BY <1>1 DEF SplitFails, WriteAcknowledged, WriteEnded, SplitNow, Rolled, Break,
              WriteEndFacts, DestinationOK
<1>5. /\ QueueInv' /\ CoverInv' /\ IOInv'
  <2>1. QueueInv'
    BY <1>1 DEF SplitFails, WriteAcknowledged, WriteEnded, SplitNow, Rolled, Break,
                WriteEndFacts, QueueInv, Slot, ControlOK, SlotsOK, CoverInv, Active,
                Leave, IOInv, Act, WriteOwned, ReadOwned, GivenUp
  <2>2. CoverInv'
    BY <1>1 DEF SplitFails, WriteAcknowledged, WriteEnded, SplitNow, Rolled, Break,
                WriteEndFacts, QueueInv, Slot, ControlOK, SlotsOK, CoverInv, Active,
                Leave, IOInv, Act, WriteOwned, ReadOwned, GivenUp
  <2>3. IOInv'
    BY <1>1 DEF SplitFails, WriteAcknowledged, WriteEnded, SplitNow, Rolled, Break,
                WriteEndFacts, QueueInv, Slot, ControlOK, SlotsOK, CoverInv, Active,
                Leave, IOInv, Act, WriteOwned, ReadOwned, GivenUp
  <2>. QED
    BY <2>1, <2>2, <2>3
<1>6. /\ CallerInv' /\ StoppedInv' /\ LeaveInv'
  BY <1>1 DEF SplitFails, WriteAcknowledged, WriteEnded, SplitNow, Rolled, Break,
              WriteEndFacts, CallerInv, Slot, Caller, Pristine, ControlOK, IOInv,
              Active, Leave, StoppedInv, LeaveInv
<1>7. /\ WindowInv' /\ ReadInv'
  BY <1>1 DEF SplitFails, WriteAcknowledged, WriteEnded, SplitNow, Rolled, Break,
              WriteEndFacts, WindowInv, Slot, Act, Active, Pristine, ControlOK,
              SlotsOK, IOInv, ReadInv, Sent, Mode, Double
<1>8. /\ PrefixInv' /\ CountInv' /\ WriteInv'
  BY <1>1 DEF SplitFails, WriteAcknowledged, WriteEnded, SplitNow, Rolled, Break,
              WriteEndFacts, PrefixInv, Slot, IOInv, WindowInv, Act, Active, QueueInv,
              DestinationOK, ControlOK, SlotsOK, CountInv, Mode, WriteInv, Sent,
              Double
<1>9. CopyFaithful'
  BY <1>1 DEF SplitFails, WriteAcknowledged, WriteEnded, SplitNow, Rolled, Break,
              WriteEndFacts, CopyFaithful, Faithful, DestinationOK, IOInv
<1>. QED
  BY <1>2, <1>3, <1>4, <1>5, <1>6, <1>7, <1>8, <1>9
     DEF IInv, TypeOK

\* A write has ended, and there is more to copy.
LEMMA WriteMoreStep ==
  ASSUME IInv, WriteMore
  PROVE  IInv'
<1>. USE DEF IInv, TypeOK
<1>1. WriteEndFacts
  BY AtWriteEnd DEF WriteMore, WriteAcknowledged, WriteEnded, SplitNow
<1>2. /\ SlotsOK' /\ ControlOK' /\ DestinationOK'
  <2>1. SlotsOK'
    <3>1. SlotsOK /\ UNCHANGED << entry, slots >>
      BY DEF WriteMore, WriteAcknowledged
    <3>. HIDE DEF IInv, TypeOK
    <3>. QED
      BY <3>1 DEF SlotsOK
  <2>2. ControlOK'
    BY <1>1, SMTT(60) DEF WriteMore, WriteAcknowledged, WriteEnded, SplitNow,
                          WriteEndFacts, SlotsOK, ControlOK, Caller, Active, Leave,
                          Slot, DestinationOK
  <2>3. DestinationOK'
    <3>1. DestinationOK /\ UNCHANGED dst
      BY DEF WriteMore
    <3>. HIDE DEF IInv, TypeOK
    <3>. QED
      BY <3>1 DEF DestinationOK
  <2>. QED
    BY <2>1, <2>2, <2>3
<1>3. /\ QueueInv' /\ CoverInv' /\ IOInv'
  BY <1>1 DEF WriteMore, WriteAcknowledged, WriteEnded, SplitNow, WriteEndFacts,
              QueueInv, Slot, ControlOK, SlotsOK, CoverInv, Active, Leave, IOInv, Act, WriteOwned, ReadOwned, GivenUp
<1>4. /\ CallerInv' /\ StoppedInv' /\ LeaveInv'
  BY <1>1 DEF WriteMore, WriteAcknowledged, WriteEnded, SplitNow, WriteEndFacts,
              CallerInv, Slot, Caller, Pristine, ControlOK, IOInv, Active, Leave,
              StoppedInv, LeaveInv
<1>5. WindowInv'
  BY <1>1 DEF WriteMore, WriteAcknowledged, WriteEnded, SplitNow, WriteEndFacts,
              WindowInv, Slot, Act, Active, Pristine, ControlOK, SlotsOK, IOInv
<1>6. ReadInv'
  BY <1>1, SMTT(30) DEF WriteMore, WriteAcknowledged, WriteEnded, SplitNow,
                        WriteEndFacts, ReadInv, Slot, IOInv, WindowInv, Act, Active,
                        Sent, Mode, Double, ControlOK, SlotsOK, WriteOwned, ReadOwned, GivenUp
<1>7. /\ PrefixInv' /\ CountInv' /\ WriteInv'
  BY <1>1 DEF WriteMore, WriteAcknowledged, WriteEnded, SplitNow, WriteEndFacts,
              PrefixInv, Slot, IOInv, WindowInv, Act, Active, QueueInv, DestinationOK,
              ControlOK, SlotsOK, CountInv, Mode, WriteInv, Sent, Double
<1>8. CopyFaithful'
  BY <1>1 DEF WriteMore, WriteAcknowledged, WriteEnded, SplitNow, WriteEndFacts,
              CopyFaithful, Faithful, DestinationOK, IOInv
<1>. QED
  BY <1>2, <1>3, <1>4, <1>5, <1>6, <1>7, <1>8 DEF IInv, TypeOK

\* The user does not interfere.
LEMMA PadContinueStep ==
  ASSUME IInv, PadContinue
  PROVE  IInv'
<1>. USE DEF IInv, TypeOK
<1>1. /\ SlotsOK' /\ ControlOK' /\ DestinationOK'
  BY DEF PadContinue, SlotsOK, ControlOK, Caller, Active, Leave, Slot, DestinationOK
<1>2. /\ QueueInv' /\ CoverInv' /\ IOInv'
  BY DEF PadContinue, QueueInv, Slot, ControlOK, SlotsOK, CoverInv, Active, Leave,
         IOInv, Act, WriteOwned, ReadOwned, GivenUp
<1>3. /\ CallerInv' /\ StoppedInv' /\ LeaveInv'
  BY DEF PadContinue, CallerInv, Slot, Caller, Pristine, ControlOK, IOInv, Active,
         Leave, StoppedInv, LeaveInv
<1>4. WindowInv'
  BY DEF PadContinue, WindowInv, Slot, Act, Active, Pristine, ControlOK, SlotsOK,
         IOInv
<1>5. ReadInv'
  BY DEF PadContinue, ReadInv, Slot, IOInv, WindowInv, Act, Active, Sent, Mode,
         Double, ControlOK, SlotsOK
<1>6. /\ PrefixInv' /\ CountInv' /\ WriteInv'
  BY DEF PadContinue, PrefixInv, Slot, IOInv, WindowInv, Act, Active, QueueInv,
         DestinationOK, ControlOK, SlotsOK, CountInv, Mode, WriteInv, Sent, Double
<1>7. CopyFaithful'
  BY DEF PadContinue, CopyFaithful, Faithful, DestinationOK, IOInv
<1>. QED
  BY <1>1, <1>2, <1>3, <1>4, <1>5, <1>6, <1>7 DEF IInv, TypeOK

\* The user aborts the copy.
LEMMA PadAbortStep ==
  ASSUME IInv, PadAbort
  PROVE  IInv'
<1>. USE DEF IInv, TypeOK
<1>1. SlotsOK'
  BY DEF PadAbort, Break, SlotsOK, ControlOK
<1>2. ControlOK'
  BY DEF PadAbort, Break, ControlOK, Caller, Active, Leave, Slot
<1>3. DestinationOK'
  BY DEF PadAbort, Break, DestinationOK
<1>4. /\ QueueInv' /\ CoverInv' /\ IOInv'
  <2>1. QueueInv'
    BY DEF PadAbort, Break, QueueInv, Slot, ControlOK, SlotsOK, CoverInv, Active, Leave,
           IOInv, Act, WriteOwned, ReadOwned, GivenUp
  <2>2. CoverInv'
    BY DEF PadAbort, Break, QueueInv, Slot, ControlOK, SlotsOK, CoverInv, Active, Leave,
           IOInv, Act, WriteOwned, ReadOwned, GivenUp
  <2>3. IOInv'
    BY DEF PadAbort, Break, QueueInv, Slot, ControlOK, SlotsOK, CoverInv, Active, Leave,
           IOInv, Act, WriteOwned, ReadOwned, GivenUp
  <2>. QED
    BY <2>1, <2>2, <2>3
<1>5. /\ CallerInv' /\ StoppedInv' /\ LeaveInv'
  BY DEF PadAbort, Break, CallerInv, Slot, Caller, Pristine, ControlOK, IOInv, Active,
         Leave, StoppedInv, LeaveInv
<1>6. /\ WindowInv' /\ ReadInv'
  BY DEF PadAbort, Break, WindowInv, Slot, Act, Active, Pristine, ControlOK, SlotsOK,
         IOInv, ReadInv, Sent, Mode, Double
<1>7. /\ PrefixInv' /\ CountInv' /\ WriteInv'
  BY DEF PadAbort, Break, PrefixInv, Slot, IOInv, WindowInv, Act, Active, QueueInv,
         DestinationOK, ControlOK, SlotsOK, CountInv, Mode, WriteInv, Sent, Double
<1>8. CopyFaithful'
  BY DEF PadAbort, Break, CopyFaithful, Faithful, DestinationOK, IOInv
<1>. QED
  BY <1>1, <1>2, <1>3, <1>4, <1>5, <1>6, <1>7, <1>8
     DEF IInv, TypeOK

\* A write in flight is cancelled, if it is not too late.
LEMMA CancelWriteStep ==
  ASSUME IInv, CancelWrite
  PROVE  IInv'
<1>. USE DEF IInv, TypeOK
<1>1. /\ SlotsOK' /\ ControlOK' /\ DestinationOK'
  BY SMTT(60) DEF CancelWrite, SlotsOK, ControlOK, Caller, Active, Leave, Slot, DestinationOK
<1>2. /\ QueueInv' /\ CoverInv' /\ IOInv'
  BY DEF CancelWrite, QueueInv, Slot, ControlOK, SlotsOK, CoverInv, Active, Leave,
         IOInv, Act, WriteOwned, ReadOwned, GivenUp
<1>3. /\ CallerInv' /\ StoppedInv' /\ LeaveInv'
  BY DEF CancelWrite, CallerInv, Slot, Caller, Pristine, ControlOK, IOInv, Active,
         Leave, StoppedInv, LeaveInv
<1>4. /\ WindowInv' /\ ReadInv'
  BY DEF CancelWrite, WindowInv, Slot, Act, Active, Pristine, ControlOK, SlotsOK,
         IOInv, ReadInv, Sent, Mode, Double
<1>5. /\ PrefixInv' /\ CountInv' /\ WriteInv'
  BY DEF CancelWrite, PrefixInv, Slot, IOInv, WindowInv, Act, Active, QueueInv,
         DestinationOK, ControlOK, SlotsOK, CountInv, Mode, WriteInv, Sent, Double
<1>6. CopyFaithful'
  BY DEF CancelWrite, CopyFaithful, Faithful, DestinationOK, IOInv
<1>. QED
  BY <1>1, <1>2, <1>3, <1>4, <1>5, <1>6 DEF IInv, TypeOK

\* A write that was too late to cancel has ended.
LEMMA SleepWriteStep ==
  ASSUME IInv, SleepWrite
  PROVE  IInv'
<1>. USE DEF IInv, TypeOK
<1>1. /\ SlotsOK' /\ ControlOK' /\ DestinationOK'
  BY DEF SleepWrite, SlotsOK, ControlOK, Caller, Active, Leave, Slot, DestinationOK
<1>2. /\ QueueInv' /\ CoverInv' /\ IOInv'
  BY DEF SleepWrite, QueueInv, Slot, ControlOK, SlotsOK, CoverInv, Active, Leave,
         IOInv, Act, WriteOwned, ReadOwned, GivenUp
<1>3. /\ CallerInv' /\ StoppedInv' /\ LeaveInv'
  BY DEF SleepWrite, CallerInv, Slot, Caller, Pristine, ControlOK, IOInv, Active,
         Leave, StoppedInv, LeaveInv
<1>4. /\ WindowInv' /\ ReadInv'
  BY DEF SleepWrite, WindowInv, Slot, Act, Active, Pristine, ControlOK, SlotsOK,
         IOInv, ReadInv, Sent, Mode, Double
<1>5. /\ PrefixInv' /\ CountInv' /\ WriteInv'
  BY DEF SleepWrite, PrefixInv, Slot, IOInv, WindowInv, Act, Active, QueueInv,
         DestinationOK, ControlOK, SlotsOK, CountInv, Mode, WriteInv, Sent, Double
<1>6. CopyFaithful'
  BY DEF SleepWrite, CopyFaithful, Faithful, DestinationOK, IOInv
<1>. QED
  BY <1>1, <1>2, <1>3, <1>4, <1>5, <1>6 DEF IInv, TypeOK

\* A read in flight is cancelled, if it is not too late.
LEMMA CancelReadStep ==
  ASSUME IInv, CancelRead
  PROVE  IInv'
<1>. USE DEF IInv, TypeOK
<1>1. /\ SlotsOK' /\ ControlOK' /\ DestinationOK'
  BY DEF CancelRead, SlotsOK, ControlOK, Caller, Active, Leave, Slot, DestinationOK
<1>2. /\ QueueInv' /\ CoverInv' /\ IOInv'
  BY DEF CancelRead, QueueInv, Slot, ControlOK, SlotsOK, CoverInv, Active, Leave,
         IOInv, Act, WriteOwned, ReadOwned, GivenUp
<1>3. /\ CallerInv' /\ StoppedInv' /\ LeaveInv'
  BY DEF CancelRead, CallerInv, Slot, Caller, Pristine, ControlOK, IOInv, Active,
         Leave, StoppedInv, LeaveInv
<1>4. /\ WindowInv' /\ ReadInv'
  BY DEF CancelRead, WindowInv, Slot, Act, Active, Pristine, ControlOK, SlotsOK,
         IOInv, ReadInv, Sent, Mode, Double
<1>5. /\ PrefixInv' /\ CountInv' /\ WriteInv'
  BY DEF CancelRead, PrefixInv, Slot, IOInv, WindowInv, Act, Active, QueueInv,
         DestinationOK, ControlOK, SlotsOK, CountInv, Mode, WriteInv, Sent, Double
<1>6. CopyFaithful'
  BY DEF CancelRead, CopyFaithful, Faithful, DestinationOK, IOInv
<1>. QED
  BY <1>1, <1>2, <1>3, <1>4, <1>5, <1>6 DEF IInv, TypeOK

\* A read that was too late to cancel has ended.
LEMMA SleepReadStep ==
  ASSUME IInv, SleepRead
  PROVE  IInv'
<1>. USE DEF IInv, TypeOK
<1>1. /\ SlotsOK' /\ ControlOK' /\ DestinationOK'
  BY DEF SleepRead, SlotsOK, ControlOK, Caller, Active, Leave, Slot, DestinationOK
<1>2. /\ QueueInv' /\ CoverInv' /\ IOInv'
  BY DEF SleepRead, QueueInv, Slot, ControlOK, SlotsOK, CoverInv, Active, Leave,
         IOInv, Act, WriteOwned, ReadOwned, GivenUp
<1>3. /\ CallerInv' /\ StoppedInv' /\ LeaveInv'
  BY DEF SleepRead, CallerInv, Slot, Caller, Pristine, ControlOK, IOInv, Active,
         Leave, StoppedInv, LeaveInv
<1>4. /\ WindowInv' /\ ReadInv'
  BY DEF SleepRead, WindowInv, Slot, Act, Active, Pristine, ControlOK, SlotsOK, IOInv,
         ReadInv, Sent, Mode, Double
<1>5. /\ PrefixInv' /\ CountInv' /\ WriteInv'
  BY DEF SleepRead, PrefixInv, Slot, IOInv, WindowInv, Act, Active, QueueInv,
         DestinationOK, ControlOK, SlotsOK, CountInv, Mode, WriteInv, Sent, Double
<1>6. CopyFaithful'
  BY DEF SleepRead, CopyFaithful, Faithful, DestinationOK, IOInv
<1>. QED
  BY <1>1, <1>2, <1>3, <1>4, <1>5, <1>6 DEF IInv, TypeOK

\* The handles are closed, the buffers freed, the queue emptied.
LEMMA FreeStep ==
  ASSUME IInv, Free
  PROVE  IInv'
<1>. USE DEF IInv, TypeOK
<1>1. fast_num_files' = 0 /\ Used' = {}
  BY DEF Free, Slot
<1>2. abort_copy' <=> (abort_copy \/ error # 0)
  BY DEF Free
<1>3. \/ pend = NoEntry /\ pc' = "drained" /\ pend' = pend
      \/ pend # NoEntry /\ abort_copy' /\ pc' = "idle" /\ pend' = NoEntry
      \/ pend # NoEntry /\ ~abort_copy' /\ pc' = "add" /\ pend' = pend
  BY DEF Free
<1>4. SlotsOK'
  BY DEF Free, SlotsOK, ControlOK
<1>5. ControlOK'
  BY <1>1, <1>2, <1>3, SizeFacts DEF Free, ControlOK, Caller, Active, Leave, Slot
<1>6. DestinationOK'
  BY <1>1, <1>2, <1>3 DEF Free, DestinationOK
<1>7. QueueInv'
  <2>1. /\ todo' = todo /\ copied' = copied /\ pend \in Entry \cup {NoEntry}
        /\ NoEntry \notin todo \cup copied
    BY NoEntryFact DEF Free, ControlOK
  <2>. QED
    BY <1>1, <1>3, <2>1, SizeFacts DEF QueueInv
<1>8. CoverInv'
  BY <1>1, <1>2, <1>3, SizeFacts DEF Free, CoverInv, QueueInv, ControlOK, Active,
                                     Leave, LeaveInv
<1>9. IOInv'
  BY <1>1, <1>2, <1>3 DEF Free, IOInv, Slot, QueueInv, ControlOK, SlotsOK, Active,
                          Leave, Act, WriteOwned, ReadOwned, GivenUp
<1>10. /\ CallerInv' /\ StoppedInv' /\ LeaveInv'
  BY <1>1, <1>2, <1>3 DEF Free, CallerInv, Slot, Caller, Pristine, ControlOK, IOInv,
                          Active, Leave, LeaveInv, StoppedInv
<1>11. /\ WindowInv' /\ ReadInv'
  BY <1>1, <1>2, <1>3 DEF Free, WindowInv, Slot, Act, Active, Pristine, ControlOK,
                          SlotsOK, IOInv, ReadInv, Sent, Mode, Double
<1>12. /\ PrefixInv' /\ CountInv' /\ WriteInv'
  BY <1>1, <1>2, <1>3 DEF Free, PrefixInv, Slot, IOInv, WindowInv, Act, Active,
                          QueueInv, DestinationOK, ControlOK, SlotsOK, CountInv, Mode,
                          WriteInv, Sent, Double
<1>13. CopyFaithful'
  BY <1>1, <1>2, <1>3 DEF Free, CopyFaithful, Faithful, DestinationOK, IOInv
<1>. QED
  BY <1>4, <1>5, <1>6, <1>7, <1>8, <1>9, <1>10, <1>11, <1>12, <1>13
     DEF IInv, TypeOK

\* The first half of a successful fast_func_read.
LEMMA ReadDoneStep ==
  ASSUME IInv, ReadDone
  PROVE  IInv'
<1>. USE DEF IInv, TypeOK
<1>1. /\ rslot \in Slot /\ entry[rslot] \in Entry /\ rio = "busy"
      /\ rfd[rslot] \in 0 .. NFrags[entry[rslot]] - 1
      /\ ReadOwned \/ (abort_copy /\ id_r = NoId)
  BY DEF ReadDone, IOInv, ControlOK
<1>2. Start[entry[rslot]][rfd[rslot]] \in Int
  BY <1>1, EntryFacts
<1>3. buf' \in [Slot -> Int] /\ readed' \in [Slot -> Int]
  BY <1>1, <1>2, SMTT(60) DEF ReadDone, SlotsOK
<1>4. /\ UNCHANGED << mainVars, fl, writed, giga_counter, id_r, rslot, writing, dst >>
      /\ fast_read' = 0 /\ rio' = "post" /\ UNCHANGED global_device_bytes /\ (Act' <=> Act)
  BY DEF ReadDone, Act
<1>5. SlotsOK' /\ ControlOK' /\ DestinationOK'
  <2>1. SlotsOK'
    BY <1>3, <1>4 DEF SlotsOK
  <2>2. ControlOK'
    BY <1>3, <1>4 DEF ControlOK
  <2>3. DestinationOK'
    BY <1>3, <1>4 DEF DestinationOK
  <2>. QED
    BY <2>1, <2>2, <2>3
<1>6. QueueInv' /\ CoverInv' /\ IOInv'
  <2>1. QueueInv' /\ CoverInv'
    BY <1>4 DEF QueueInv, CoverInv
  <2>2. WriteOwned' <=> WriteOwned
    BY <1>4 DEF WriteOwned, GivenUp
  <2>3. IOInv'
    BY <1>1, <1>4, <2>2 DEF IOInv, ReadOwned, GivenUp
  <2>. QED
    BY <2>1, <2>3
<1>7. CallerInv' /\ StoppedInv' /\ LeaveInv'
  BY <1>1, <1>4 DEF CallerInv, ReadOwned, Pristine, StoppedInv, LeaveInv, Caller, Active, Leave
<1>8. CopyFaithful'
  BY <1>4 DEF CopyFaithful, Faithful
<1>9. CASE ~Act
  BY <1>4, <1>5, <1>6, <1>7, <1>8, <1>9 DEF WindowInv, ReadInv, PrefixInv, CountInv, WriteInv
<1>10. CASE Act
  <2>1. rslot = r /\ r \in Used /\ fast_read = 1
    BY <1>1, <1>10 DEF ReadOwned, Act, Active
  <2>2. WindowInv'
    BY <1>1, <1>4, <1>10, <2>1 DEF WindowInv, Pristine
  <2>3. /\ buf' = [buf EXCEPT ![r] = Start[entry[r]][rfd[r]] + roff[r]]
        /\ readed' = [readed EXCEPT ![r] = @ + rsize[r]]
    BY <2>1 DEF ReadDone
  <2>4. /\ buf'[r] = Start[entry[r]][rfd[r]] + roff[r] /\ readed'[r] = readed[r] + rsize[r]
        /\ Sent(r)' = Sent(r)
    BY <1>4, <2>1, <2>3 DEF SlotsOK, Sent
  <2>5. ReadInv'
    BY <1>1, <1>4, <1>10, <2>1, <2>4 DEF ReadInv, Mode, Double
  <2>6. PrefixInv' /\ CountInv'
    BY <1>4, <1>10 DEF PrefixInv, CountInv, Mode
  <2>7. WriteInv'
    BY <1>1, <1>4, <1>10, <2>1, <2>3, SMTT(30) DEF WriteInv, ReadInv, WindowInv, Sent, Double, SlotsOK
  <2>. QED
    BY <1>5, <1>6, <1>7, <1>8, <2>2, <2>5, <2>6, <2>7
<1>. QED
  BY <1>9, <1>10

\* A read that has outlasted the loop.
LEMMA ReadDoneLateStep ==
  ASSUME IInv, ReadDoneLate
  PROVE  IInv'
<1>. USE DEF IInv, TypeOK
<1>1. /\ rslot \in Slot /\ entry[rslot] \in Entry /\ rio = "busy" /\ rfd[rslot] = Closed
      /\ ReadOwned \/ (abort_copy /\ id_r = NoId)
  BY DEF ReadDoneLate, IOInv, ControlOK
<1>2. abort_copy
  <2>1. ~ReadOwned
    BY <1>1, EntryFacts DEF ReadOwned
  <2>. QED
    BY <1>1, <2>1
<1>3. /\ UNCHANGED << mainVars, fl, buf, writed, giga_counter, id_r, rslot, writing, dst >>
      /\ fast_read' = 0 /\ rio' = "post" /\ UNCHANGED global_device_bytes /\ ~Act'
      /\ readed' = [readed EXCEPT ![rslot] = @ + rsize[rslot]]
  BY <1>2 DEF ReadDoneLate, Act
<1>4. readed' \in [Slot -> Int]
  BY <1>1, <1>3, SMTT(60) DEF SlotsOK
<1>5. SlotsOK' /\ ControlOK' /\ DestinationOK'
  <2>1. SlotsOK'
    BY <1>3, <1>4 DEF SlotsOK
  <2>2. ControlOK'
    BY <1>3, <1>4 DEF ControlOK
  <2>3. DestinationOK'
    BY <1>3, <1>4 DEF DestinationOK
  <2>. QED
    BY <2>1, <2>2, <2>3
<1>6. QueueInv' /\ CoverInv' /\ IOInv'
  <2>1. QueueInv' /\ CoverInv'
    BY <1>3 DEF QueueInv, CoverInv
  <2>2. WriteOwned' <=> WriteOwned
    BY <1>3 DEF WriteOwned, GivenUp
  <2>3. IOInv'
    BY <1>1, <1>2, <1>3, <2>2 DEF IOInv
  <2>. QED
    BY <2>1, <2>3
<1>7. CallerInv' /\ StoppedInv' /\ LeaveInv' /\ CopyFaithful'
  BY <1>2, <1>3 DEF CallerInv, StoppedInv, LeaveInv, CopyFaithful, Faithful
<1>. QED
  BY <1>3, <1>5, <1>6, <1>7 DEF WindowInv, ReadInv, PrefixInv, CountInv, WriteInv

\* The second half of fast_func_read.
LEMMA ReadSignalStep ==
  ASSUME IInv, ReadSignal
  PROVE  IInv'
<1>. USE DEF IInv, TypeOK
<1>1. SlotsOK'
  BY DEF ReadSignal, SlotsOK, ControlOK
<1>2. ControlOK'
  BY DEF ReadSignal, ControlOK, Caller, Active, Leave, Slot
<1>3. DestinationOK'
  BY DEF ReadSignal, DestinationOK
<1>4. /\ QueueInv' /\ CoverInv' /\ IOInv'
  BY SMTT(40) DEF ReadSignal, QueueInv, CoverInv, IOInv, WriteOwned, GivenUp, mainVars, queue, writing
<1>5. /\ CallerInv' /\ StoppedInv' /\ LeaveInv'
  BY DEF ReadSignal, CallerInv, Slot, Caller, Pristine, ControlOK, IOInv, Active,
         Leave, StoppedInv, LeaveInv
<1>6. /\ WindowInv' /\ ReadInv'
  BY DEF ReadSignal, WindowInv, Slot, Act, Active, Pristine, ControlOK, SlotsOK,
         IOInv, ReadInv, Sent, Mode, Double, WriteOwned, ReadOwned, GivenUp
<1>7. /\ CountInv' /\ WriteInv'
  BY DEF ReadSignal, CountInv, Slot, IOInv, WindowInv, Act, Active, Mode, ControlOK,
         SlotsOK, WriteInv, Sent, Double
<1>8. PrefixInv'
  BY DEF ReadSignal, PrefixInv, Act
<1>9. CopyFaithful'
  BY DEF ReadSignal, CopyFaithful, Faithful, DestinationOK, IOInv
<1>. QED
  BY <1>1, <1>2, <1>3, <1>4, <1>5, <1>6, <1>7, <1>8, <1>9
     DEF IInv, TypeOK

\* A read fails and fast_func_read returns.
LEMMA ReadFailedStep ==
  ASSUME IInv, ReadFailed
  PROVE  IInv'
<1>. USE DEF IInv, TypeOK
<1>1. /\ SlotsOK' /\ ControlOK' /\ DestinationOK'
  <2>1. SlotsOK'
    BY SMTT(40) DEF ReadFailed, SlotsOK, ControlOK
  <2>2. ControlOK'
    BY DEF ReadFailed, ControlOK
  <2>3. DestinationOK'
    BY DEF ReadFailed, DestinationOK
  <2>. QED
    BY <2>1, <2>2, <2>3
<1>2. /\ QueueInv' /\ CoverInv' /\ IOInv'
  BY DEF ReadFailed, QueueInv, Slot, ControlOK, SlotsOK, CoverInv, Active, Leave,
         IOInv, Act, WriteOwned, ReadOwned, GivenUp
<1>3. /\ CallerInv' /\ StoppedInv' /\ LeaveInv'
  BY DEF ReadFailed, CallerInv, Slot, Caller, Pristine, ControlOK, IOInv, Active,
         Leave, StoppedInv, LeaveInv
<1>4. /\ WindowInv' /\ ReadInv'
  BY DEF ReadFailed, WindowInv, Slot, Act, Active, Pristine, ControlOK, SlotsOK,
         IOInv, ReadInv, Sent, Mode, Double
<1>5. /\ PrefixInv' /\ CountInv' /\ WriteInv'
  BY DEF ReadFailed, PrefixInv, Slot, IOInv, WindowInv, Act, Active, QueueInv,
         DestinationOK, ControlOK, SlotsOK, CountInv, Mode, WriteInv, Sent, Double
<1>6. CopyFaithful'
  BY DEF ReadFailed, CopyFaithful, Faithful, DestinationOK, IOInv
<1>. QED
  BY <1>1, <1>2, <1>3, <1>4, <1>5, <1>6 DEF IInv, TypeOK

\* A write is carried out and fast_func_write counts it.
LEMMA WriteDoneStep ==
  ASSUME IInv, WriteDone
  PROVE  IInv'
<1>. USE DEF IInv, TypeOK
<1>1. /\ wslot \in Slot /\ entry[wslot] \in Entry /\ entry[wslot] \notin copied /\ wio = "busy"
      /\ WriteOwned \/ (abort_copy /\ id_w = NoId)
  BY DEF WriteDone, IOInv, ControlOK
<1>2. /\ writed' = [writed EXCEPT ![wslot] = @ + wsize[wslot]]
      /\ giga_counter' = [giga_counter EXCEPT ![wslot] = @ + wsize[wslot]]
  BY <1>1 DEF WriteDone
<1>3. writed' \in [Slot -> Int] /\ giga_counter' \in [Slot -> Int]
  BY <1>1, <1>2, SMTT(60) DEF SlotsOK
<1>4. PICK data \in InBuffer(wslot) :
        dst' = [dst EXCEPT ![entry[wslot]] = Written(dst[entry[wslot]], wslot, data)]
  BY DEF WriteDone
<1>5. /\ \A e \in Entry :
           dst'[e] = IF e = entry[wslot] THEN Written(dst[e], wslot, data) ELSE dst[e]
      /\ DOMAIN dst' = Entry
  BY <1>1, <1>4 DEF DestinationOK
<1>6. /\ UNCHANGED << mainVars, fl, readed, buf, reading, fast_writing, id_w, wslot >>
      /\ wio' = "post" /\ (Act' <=> Act)
      /\ global_device_bytes' = global_device_bytes + wsize[wslot]
  BY DEF WriteDone, Act
<1>7. SlotsOK' /\ ControlOK'
  <2>1. wsize[wslot] \in Int
    BY <1>1 DEF SlotsOK
  <2>. QED
    BY <1>3, <1>6, <2>1 DEF SlotsOK, ControlOK
<1>8. DestinationOK'
  BY <1>1, <1>5, <1>6, WrittenType DEF DestinationOK, ControlOK
<1>9. QueueInv' /\ CoverInv' /\ IOInv'
  BY <1>1, <1>6 DEF QueueInv, CoverInv, IOInv, WriteOwned, ReadOwned, GivenUp
<1>10. CallerInv' /\ StoppedInv' /\ LeaveInv'
  BY <1>1, <1>6 DEF CallerInv, WriteOwned, Pristine, StoppedInv, LeaveInv, Caller, Active, Leave
<1>11. CopyFaithful'
  BY <1>1, <1>5, <1>6 DEF CopyFaithful, Faithful, ControlOK
<1>12. CASE ~Act
  BY <1>6, <1>7, <1>8, <1>9, <1>10, <1>11, <1>12
     DEF WindowInv, ReadInv, PrefixInv, CountInv, WriteInv
<1>13. CASE Act
  <2>1. /\ wslot = w /\ w \in Used /\ fast_writing = 1 /\ mem[w] = Buffer
        /\ data = IF Double(w) THEN bufw[w] ELSE buf[w]
    BY <1>1, <1>4, <1>13 DEF WriteOwned, Act, Active, QueueInv, InBuffer, Null, Buffer
  <2>9. WindowInv'
    <3>1. \A s \in Used : s > r \/ (s = r /\ i_reading = 0) => s # w
      BY <1>13, <2>1 DEF WindowInv, ControlOK, Slot
    <3>2. \A s \in Slot : s # w => writed'[s] = writed[s] /\ giga_counter'[s] = giga_counter[s]
      BY <1>2, <2>1 DEF SlotsOK
    <3>3. \A s \in Used : s > r \/ (s = r /\ i_reading = 0) => Pristine(s)'
      BY <1>6, <1>13, <3>1, <3>2 DEF WindowInv, Pristine
    <3> QED  BY <1>1, <1>6, <1>13, <2>1, <3>3 DEF WindowInv
  <2>10. Sent(r)' = Sent(r) \/ ~(i_reading = 1)
    BY <1>1, <1>2, <1>6, <1>13, <2>1 DEF Sent, WindowInv, SlotsOK
  <2>11. /\ UNCHANGED << i_reading, r, w, entry, rfd, wfd, number_frag, off_readed, len, rsize, rio, fast_read,
                         fast_writing, readed, roff, buf, fl, pc >>
         /\ Mode(r)' = Mode(r) /\ Double(r)' = Double(r)
    BY <1>6 DEF Mode, Double
  <2>12. i_reading # 1 => ReadInv'
    BY <2>11 DEF ReadInv
  <2>13. i_reading = 1 => ReadInv'
    BY <1>13, <2>10, <2>11 DEF ReadInv
  <2>2. WindowInv' /\ ReadInv'
    BY <2>9, <2>12, <2>13
  <2>3. WriteInv'
    BY <1>1, <1>2, <1>6, <1>13, <2>1 DEF WriteInv, Sent, Mode, Double, SlotsOK
  <2>4. PrefixInv'
    <3>. SUFFICES ASSUME NEW s \in Used, s >= w, writed'[s] >= 0, NEW a \in 0 .. writed'[s] - 1
                  PROVE  dst'[entry[s]][a] = a
      BY <1>6 DEF PrefixInv
    <3>1. CASE s # w
      <4>1. writed'[s] = writed[s] /\ dst'[entry[s]] = dst[entry[s]]
        BY <1>2, <1>5, <2>1, <3>1 DEF QueueInv, SlotsOK
      <4>. QED
        BY <1>13, <4>1 DEF PrefixInv
    <3>2. CASE s = w
      <4>1. /\ writed[w] \in Nat /\ wsize[w] \in Int /\ writed'[w] = writed[w] + wsize[w]
            /\ base[w] + woff[w] = writed[w] /\ data = writed[w]
            /\ writed[w] + wsize[w] <= Want(entry[w])
        BY <1>1, <1>2, <1>13, <2>1 DEF SlotsOK, WriteInv, Sent
      <4>2. a \in 0 .. Total(entry[w]) - 1 /\ a < writed[w] + wsize[w] /\ a \in Int
        BY <1>1, <2>1, <3>2, <4>1, EntryFacts
      <4>3. dst'[entry[w]][a] = IF writed[w] <= a THEN a ELSE dst[entry[w]][a]
        <5>1. dst'[entry[w]] = Written(dst[entry[w]], w, data)
          BY <1>1, <1>5, <2>1
        <5>. QED
          BY <4>1, <4>2, <5>1, SMTT(60) DEF Written, NoData
      <4>4. a < writed[w] => dst[entry[w]][a] = a
        BY <1>1, <1>13, <2>1, <3>2, <4>1 DEF PrefixInv
      <4>. QED
        BY <3>2, <4>1, <4>2, <4>3, <4>4
    <3>. QED
      BY <3>1, <3>2
  <2>5. CountInv'
    <3>1. writed'[w] >= 0 =>
            writed[w] >= 0 /\ (Mode(w) = 1 => base[w] + giga_counter[w] = writed[w])
      BY <1>1, <1>13, <2>1 DEF WriteInv, CountInv, ControlOK
    <3>. QED
      BY <1>2, <1>3, <1>6, <1>13, <2>1, <3>1, SMTT(60) DEF CountInv, Mode, SlotsOK, ControlOK
  <2>. QED
    BY <1>7, <1>8, <1>9, <1>10, <1>11, <2>2, <2>3, <2>4, <2>5
<1>. QED
  BY <1>12, <1>13

\* A write fails.
LEMMA WriteFailedStep ==
  ASSUME IInv, WriteFailed
  PROVE  IInv'
<1>. USE DEF IInv, TypeOK
<1>1. /\ SlotsOK' /\ ControlOK' /\ DestinationOK'
  BY DEF WriteFailed, SlotsOK, ControlOK, Caller, Active, Leave, Slot, DestinationOK
<1>2. /\ QueueInv' /\ CoverInv' /\ IOInv'
  BY DEF WriteFailed, QueueInv, Slot, ControlOK, SlotsOK, CoverInv, Active, Leave,
         IOInv, Act, WriteOwned, ReadOwned, GivenUp
<1>3. /\ CallerInv' /\ StoppedInv' /\ LeaveInv'
  BY DEF WriteFailed, CallerInv, Slot, Caller, Pristine, ControlOK, IOInv, Active,
         Leave, StoppedInv, LeaveInv, WriteOwned, ReadOwned, GivenUp
<1>4. /\ WindowInv' /\ ReadInv'
  BY DEF WriteFailed, WindowInv, Slot, Act, Active, Pristine, ControlOK, SlotsOK,
         IOInv, ReadInv, Sent, Mode, Double, WriteOwned, ReadOwned, GivenUp
<1>5. /\ CountInv' /\ WriteInv'
  BY DEF WriteFailed, CountInv, Slot, IOInv, WindowInv, Act, Active, Mode, ControlOK,
         SlotsOK, WriteInv, Sent, Double, WriteOwned, ReadOwned, GivenUp
<1>6. PrefixInv'
  <2>1. \A s \in Used : writed'[s] = writed[s] \/ writed'[s] = -1
    BY DEF WriteFailed, SlotsOK, ControlOK
  <2>. QED
    BY <2>1 DEF WriteFailed, PrefixInv, Act
<1>7. CopyFaithful'
  BY DEF WriteFailed, CopyFaithful, Faithful, DestinationOK, IOInv
<1>. QED
  BY <1>1, <1>2, <1>3, <1>4, <1>5, <1>6, <1>7 DEF IInv, TypeOK

\* fast_func_write reports the end of a write.
LEMMA WriteSignalStep ==
  ASSUME IInv, WriteSignal
  PROVE  IInv'
<1>. USE DEF IInv, TypeOK
<1>1. /\ SlotsOK' /\ ControlOK' /\ DestinationOK'
  BY DEF WriteSignal, SlotsOK, ControlOK, Caller, Active, Leave, Slot, DestinationOK
<1>2. /\ QueueInv' /\ CoverInv' /\ IOInv'
  BY DEF WriteSignal, QueueInv, Slot, ControlOK, SlotsOK, CoverInv, Active, Leave,
         IOInv, Act, WriteOwned, ReadOwned, GivenUp
<1>3. /\ CallerInv' /\ StoppedInv' /\ LeaveInv'
  BY DEF WriteSignal, CallerInv, Slot, Caller, Pristine, ControlOK, IOInv, Active,
         Leave, StoppedInv, LeaveInv, WriteOwned, ReadOwned, GivenUp
<1>4. /\ WindowInv' /\ ReadInv'
  BY DEF WriteSignal, WindowInv, Slot, Act, Active, Pristine, ControlOK, SlotsOK,
         IOInv, ReadInv, Sent, Mode, Double
<1>5. /\ PrefixInv' /\ CountInv' /\ WriteInv'
  BY DEF WriteSignal, PrefixInv, Slot, IOInv, WindowInv, Act, Active, QueueInv,
         DestinationOK, ControlOK, SlotsOK, CountInv, Mode, WriteInv, Sent, Double, WriteOwned, ReadOwned, GivenUp
<1>6. CopyFaithful'
  BY DEF WriteSignal, CopyFaithful, Faithful, DestinationOK, IOInv
<1>. QED
  BY <1>1, <1>2, <1>3, <1>4, <1>5, <1>6 DEF IInv, TypeOK

-----------------------------------------------------------------------------
\* Initially nothing is queued, in flight or copied.
LEMMA InitInv == Init => IInv
<1>. SUFFICES ASSUME Init
              PROVE  IInv
  OBVIOUS
<1>. USE SizeFacts
<1>1. SlotsOK
  BY DEF Init, SlotsOK, Everywhere, NoData, Null, Buffer
<1>2. ControlOK
  <2>1. abort_copy \in BOOLEAN
    BY Zenon DEF Init
  <2>2. /\ pc \in Caller /\ 0 \in Slot /\ 0 \in 0 .. MaxFastFiles
    BY DEF Init, Caller, Slot
  <2>3. /\ id_r \in {NoId, AnId} /\ id_w \in {NoId, AnId} /\ todo \in SUBSET Entry
        /\ pend \in Entry \cup {NoEntry} /\ copied \in SUBSET Entry
    BY DEF Init
  <2>. QED
    BY <2>1, <2>2, <2>3 DEF Init, ControlOK
<1>3. DestinationOK
  BY EntryFacts DEF Init, DestinationOK, NoData
<1>4. Used = {}
  BY DEF Init, Slot
<1>5. QueueInv
  BY <1>4, NoEntryFact DEF Init, QueueInv
<1>6. CoverInv /\ IOInv /\ CallerInv /\ StoppedInv /\ LeaveInv
  BY <1>4 DEF Init, CoverInv, IOInv, CallerInv, StoppedInv, LeaveInv, Caller, Active, Leave
<1>7. WindowInv /\ ReadInv /\ PrefixInv /\ CountInv /\ WriteInv
  BY DEF Init, WindowInv, ReadInv, PrefixInv, CountInv, WriteInv, Act, Active
<1>8. CopyFaithful
  BY DEF Init, CopyFaithful
<1>. QED
  BY <1>1, <1>2, <1>3, <1>5, <1>6, <1>7, <1>8 DEF IInv, TypeOK

\* Every step of the main thread and of the I/O threads preserves the invariant.
LEMMA NextInv == IInv /\ [Next]_vars => IInv'
<1>. SUFFICES ASSUME IInv, [Next]_vars
              PROVE  IInv'
  OBVIOUS
<1>1. CASE Adding \/ AsyncOpen \/ AsyncOpenFails \/ AsyncClose \/ ProcessCall
  BY <1>1, AddCallStep, AddIgnoredStep, AddFailsStep, AddEmptyStep, AddQueuedStep,
     AsyncOpenStep, AsyncOpenFailsStep, AsyncCloseStep, ProcessCallStep DEF Adding
<1>2. CASE Opening
  BY <1>2, LoopEndStep, LoopNothingToOpenStep, OpenFailsReadStep, OpenFailsWriteStep,
     OpenReadsStep, OpenFailsAioStep DEF Opening
<1>3. CASE ReadEnd
  BY <1>3, ReadNotEndedStep, WriteFailsStep, SingleBufferStep, DoubleLastStep,
     DoubleJoinedStep, DoubleMoreStep, JoinFailsOpenStep, JoinMoreStep, JoinSetsFlStep
     DEF ReadEnd
<1>4. CASE WriteEnd
  BY <1>4, WriteNotEndedStep, WriteErrorStep, FileDoneStep, SplitNextStep, SplitFailsStep,
     WriteMoreStep DEF WriteEnd
<1>5. CASE PadContinue \/ PadAbort
  BY <1>5, PadContinueStep, PadAbortStep
<1>6. CASE Leaving
  BY <1>6, CancelWriteStep, SleepWriteStep, CancelReadStep, SleepReadStep, FreeStep
     DEF Leaving
<1>7. CASE ReadIO \/ WriteIO
  BY <1>7, ReadDoneStep, ReadDoneLateStep, ReadSignalStep, ReadFailedStep, WriteDoneStep, WriteFailedStep,
     WriteSignalStep DEF ReadIO, WriteIO
<1>8. CASE UNCHANGED vars
  <2>1. TypeOK'
    <3>1. SlotsOK'
      BY <1>8 DEF IInv, TypeOK, SlotsOK, vars
    <3>2. ControlOK'
      BY <1>8 DEF IInv, TypeOK, ControlOK, vars
    <3>3. DestinationOK'
      BY <1>8 DEF IInv, TypeOK, DestinationOK, vars
    <3>. QED
      BY <3>1, <3>2, <3>3 DEF TypeOK
  <2>4. QueueInv' /\ CoverInv' /\ IOInv'
    BY <1>8 DEF IInv, QueueInv, CoverInv, IOInv, WriteOwned, ReadOwned, GivenUp, vars
  <2>2. CallerInv' /\ StoppedInv' /\ LeaveInv' /\ WindowInv' /\ CopyFaithful'
    BY <1>8 DEF IInv, CallerInv, StoppedInv, LeaveInv, WindowInv, Act, Pristine, vars,
                CopyFaithful, Faithful
  <2>3. ReadInv' /\ PrefixInv' /\ CountInv' /\ WriteInv'
    BY <1>8 DEF IInv, ReadInv, PrefixInv, CountInv, WriteInv, Act, Sent, Mode, Double, vars
  <2>. QED
    BY <2>1, <2>2, <2>3, <2>4 DEF IInv
<1>. QED
  BY <1>1, <1>2, <1>3, <1>4, <1>5, <1>6, <1>7, <1>8 DEF Next, Main

\* The invariant holds in every reachable state of the engine.
THEOREM Invariance == Spec => []IInv
BY InitInv, NextInv, PTL DEF Spec

\* Every variable of the engine keeps its type; in particular the queue never
\* holds more than MAX_FAST_FILES files (fast_copy_add).
THEOREM TypeCorrect == Spec => []TypeOK
<1>1. IInv => TypeOK
  BY DEF IInv
<1>. QED
  BY <1>1, Invariance, PTL

\* Whatever the sizes, the modes, the interleaving of the loop with the callbacks
\* and the failures: a file ended as complete is a copy of its source.
THEOREM CopyIsFaithful == Spec => []CopyFaithful
<1>1. IInv => CopyFaithful
  BY DEF IInv
<1>. QED
  BY <1>1, Invariance, PTL

\* What the loop closes and frees is no longer used by a transfer, but by one that was cancelled
\* and has outlasted the sleep; the copy is then reported as failed (fast_copy_process).
THEOREM FreesAfterCancel == Spec => []FreedWhenOver
<1>1. IInv => FreedWhenOver
  BY DEF IInv, IOInv, WriteOwned, ReadOwned, QueueInv, FreedWhenOver
<1>. QED
  BY <1>1, Invariance, PTL

\* An engine that returns without setting abort_copy has copied every entry that it
\* did not ignore, which is what a move relies on.
THEOREM SuccessIsComplete == Spec => []SuccessMeansCopied
<1>1. IInv => SuccessMeansCopied
  BY NoEntryFact DEF IInv, TypeOK, ControlOK, QueueInv, CoverInv, SuccessMeansCopied, Slot,
                     Leave
<1>. QED
  BY <1>1, Invariance, PTL


-----------------------------------------------------------------------------
(***************************************************************************)
(* On top of IInv: the engine implements CopyService, and FragmentsSound.  *)
(* Each adds what IInv does not say.  GrowthInv: a destination holds the   *)
(* blocks that were written and nothing else, also when the loop has given *)
(* up while a write is in flight.  RoomInv: a fragment of a split file has *)
(* room for the next buffer.  HandleInv: which slots have open handles.    *)
(***************************************************************************)

\* The destination of e holds its first n blocks and nothing else.
Holds(e, n) == dst[e] = Service!Prefix(n, Total(e))

\* A slot of the loop whose destination is open and was not found faulty.
Open(s) == s >= w /\ writed[s] >= 0 /\ (s < r \/ (s = r /\ i_reading = 1))

\* The write in flight appends to the destination, whatever the loop does meanwhile:
\* no read goes to the buffer it takes the blocks from.
FlightInv ==
  wio = "busy" /\ ~abort_copy =>
    /\ writed[w] >= 0 /\ wsize[w] > 0 /\ writed[w] + wsize[w] <= Want(entry[w])
    /\ base[w] + woff[w] = writed[w]
    /\ (IF Double(w) THEN bufw[w] ELSE buf[w]) = writed[w]
    /\ Holds(entry[w], writed[w])
    /\ ~Double(w) /\ rio = "busy" => r # w

GrownInv == Act => \A s \in Used : Open(s) => Holds(entry[s], writed[s])

GrowthInv == FlightInv /\ GrownInv

-----------------------------------------------------------------------------
\* A slot of a split file that the loop is not through with, and no write is in flight for.
Filling(s) == Mode(s) = 1 /\ s >= w /\ (s = w => fast_writing = 0)

\* A fragment that is not full takes one more buffer and is then closed.
RoomInv ==
  /\ FragmentBound
  /\ wio = "busy" /\ fast_num_files > 0 =>
       /\ wslot = w
       /\ Mode(w) = 1 => giga_counter[w] < GigaLimit /\ wsize[w] <= MaxFastFileSize
  /\ Act => \A s \in Used : Filling(s) => giga_counter[s] < GigaLimit
  /\ Act /\ i_reading = 1 => rsize[r] <= MaxFastFileSize

-----------------------------------------------------------------------------
Shut(s) == rfd[s] = Closed /\ wfd[s] = Closed

\* A slot has handles only while the loop works on it, and a handle is only forgotten when
\* the copy fails.
HandleInv ==
  /\ pc # "over" => files_opened = Cardinality(Handles(MaxFastFiles)) + leaked
  /\ \A s \in Slot : s >= fast_num_files => Shut(s)
  /\ pc \in Caller => \A s \in Slot : Shut(s)
  /\ Act => \A s \in Slot : s > r \/ (s = r /\ i_reading = 0) => Shut(s)
  /\ leaked # 0 => abort_copy \/ (pc \in Leave /\ error # 0)

-----------------------------------------------------------------------------

\* A write in flight that nothing interferes with, or that is over.
LEMMA FlightKept ==
  ASSUME FlightInv,
         \/ wio' # "busy" \/ abort_copy'
         \/ /\ wio = "busy" /\ ~abort_copy /\ w' = w /\ entry' = entry
            /\ writed'[w] = writed[w] /\ wsize'[w] = wsize[w] /\ woff'[w] = woff[w]
            /\ base'[w] = base[w] /\ bufw'[w] = bufw[w] /\ (~Double(w) => buf'[w] = buf[w])
            /\ dst'[entry[w]] = dst[entry[w]]
            /\ ~Double(w) /\ rio' = "busy" => r' # w
  PROVE  FlightInv'
<1>1. CASE wio' # "busy" \/ abort_copy'
  BY <1>1 DEF FlightInv
<1>2. CASE /\ wio = "busy" /\ ~abort_copy /\ w' = w /\ entry' = entry
           /\ writed'[w] = writed[w] /\ wsize'[w] = wsize[w] /\ woff'[w] = woff[w]
           /\ base'[w] = base[w] /\ bufw'[w] = bufw[w] /\ (~Double(w) => buf'[w] = buf[w])
           /\ dst'[entry[w]] = dst[entry[w]]
           /\ ~Double(w) /\ rio' = "busy" => r' # w
  <2>1. Double(w)' = Double(w) /\ Want(entry[w])' = Want(entry[w])
    BY <1>2 DEF Double, Want
  <2>2. Holds(entry[w], writed[w])' <=> Holds(entry[w], writed[w])
    BY <1>2 DEF Holds
  <2>. QED
    BY <1>2, <2>1, <2>2 DEF FlightInv
<1>. QED
  BY <1>1, <1>2

\* A loop that goes on with the same destinations, or gives up.
LEMMA GrownKept ==
  ASSUME GrownInv,
         \/ ~Act'
         \/ Act /\ UNCHANGED << r, w, i_reading, fast_num_files, entry, writed, dst >>
  PROVE  GrownInv'
  BY DEF GrownInv, Open, Holds

-----------------------------------------------------------------------------
\* Outside the loop no write is in flight, and the loop starts with no open destination.
LEMMA CallerGrowth ==
  ASSUME IInv, Adding \/ AsyncOpen \/ AsyncOpenFails \/ AsyncClose \/ ProcessCall
  PROVE  GrowthInv'
<1>1. pc \in Caller
  BY DEF Adding, AddCall, AddIgnored, AddFails, AddEmpty, AddQueued, AsyncOpen,
         AsyncOpenFails, AsyncClose, ProcessCall, Caller
<1>2. (wio # "none" => abort_copy) /\ r = 0 /\ w = 0
  BY <1>1 DEF IInv, IOInv, CallerInv, Caller, Active, Leave, WriteOwned
<1>3. (wio' # "none" => abort_copy') /\ r' = 0 /\ w' = 0
  BY <1>2 DEF Adding, AddCall, AddIgnored, AddFails, AddEmpty, AddQueued, AddReturn,
              AsyncOpen, AsyncOpenFails, AsyncClose, ProcessCall
<1>4. Act' => i_reading' = 0
  BY DEF Adding, AddCall, AddIgnored, AddFails, AddEmpty, AddQueued, AddReturn,
         AsyncOpen, AsyncOpenFails, AsyncClose, ProcessCall, Act, Active
<1>5. \A s \in Slot : ~(s < 0)
  BY SizeFacts DEF Slot
<1>6. Used' \subseteq Slot
  OBVIOUS
<1>. QED
  BY <1>3, <1>4, <1>5, <1>6 DEF GrowthInv, FlightInv, GrownInv, Open

\* Opening a destination empties it.
LEMMA OpeningGrowth ==
  ASSUME IInv, GrowthInv, Opening
  PROVE  GrowthInv'
<1>. USE DEF GrowthInv
<1>1. CASE LoopEnd
  BY <1>1, FlightKept, GrownKept DEF LoopEnd, Act, Active, FlightInv
<1>2. CASE LoopNothingToOpen
  BY <1>2, FlightKept, GrownKept DEF LoopNothingToOpen, Act, Active, Continue, FlightInv
<1>3. CASE OpenFailsRead
  <2>1. OpenFacts
    BY <1>3, AtOpen DEF OpenFailsRead
  <2>2. ~Act' /\ (wio = "busy" => w # r /\ w \in Slot)
    BY <1>3, <2>1 DEF OpenFailsRead, Break, Act, Active, OpenFacts, IInv, IOInv, WriteOwned, ReadOwned, GivenUp
  <2>3. \A s \in Slot : s # r => writed'[s] = writed[s]
    BY <1>3, <2>1 DEF OpenFailsRead, ResetSlot, IInv, TypeOK, SlotsOK
  <2>. QED
    BY <1>3, <2>2, <2>3, FlightKept, GrownKept DEF OpenFailsRead, FlightInv
<1>4. CASE OpenFailsWrite
  <2>1. OpenFacts
    BY <1>4, AtOpen DEF OpenFailsWrite
  <2>2. ~Act' /\ (wio = "busy" => w # r /\ w \in Slot)
    BY <1>4, <2>1 DEF OpenFailsWrite, Break, Act, Active, OpenFacts, IInv, IOInv, WriteOwned, ReadOwned, GivenUp
  <2>3. \A s \in Slot : s # r => writed'[s] = writed[s]
    BY <1>4, <2>1 DEF OpenFailsWrite, ResetSlot, IInv, TypeOK, SlotsOK
  <2>. QED
    BY <1>4, <2>2, <2>3, FlightKept, GrownKept DEF OpenFailsWrite, FlightInv
<1>5. CASE OpenFiles /\ wio' = wio /\ i_reading' \in {0, 1} /\ (Act' => i_reading' = 1)
  <2>1. OpenFacts
    BY <1>5, AtOpen DEF OpenFiles
  <2>2. /\ writed' = [writed EXCEPT ![r] = 0]
        /\ dst' = [dst EXCEPT ![entry[r]] = [a \in 0 .. Total(entry[r]) - 1 |-> NoData]]
        /\ woff' = [woff EXCEPT ![r] = 0] /\ buf' = [buf EXCEPT ![r] = NoData]
        /\ UNCHANGED << wsize, base, bufw, entry, r, w, fast_num_files >>
    BY <1>5 DEF OpenFiles, ResetSlot
  <2>3. /\ writed'[r] = 0
        /\ \A s \in Slot : s # r => /\ writed'[s] = writed[s] /\ woff'[s] = woff[s]
                                    /\ buf'[s] = buf[s]
    BY <2>1, <2>2 DEF OpenFacts, IInv, TypeOK, SlotsOK
  <2>4. \A s \in Used : s # r => dst'[entry[s]] = dst[entry[s]]
    BY <2>1, <2>2 DEF OpenFacts, IInv, QueueInv, TypeOK, DestinationOK
  <2>5. dst'[entry[r]] = Service!Prefix(0, Total(entry[r]))
    <3>1. dst'[entry[r]] = [a \in 0 .. Total(entry[r]) - 1 |-> NoData]
      BY <2>1, <2>2 DEF OpenFacts, IInv, TypeOK, DestinationOK
    <3>2. \A a \in 0 .. Total(entry[r]) - 1 : ~(a < 0)
      BY <2>1 DEF OpenFacts
    <3>. QED
      BY <3>1, <3>2 DEF Service!Prefix
  <2>6. FlightInv'
    <3>1. ~abort_copy /\ (wio = "busy" => w # r /\ w \in Used)
      BY <2>1 DEF OpenFacts, Act, IInv, IOInv, WriteOwned
    <3>. QED
      BY <1>5, <2>2, <2>3, <2>4, <3>1, FlightKept
  <2>7. GrownInv'
    <3>. SUFFICES ASSUME Act', NEW s \in Used, Open(s)'
                  PROVE  Holds(entry[s], writed[s])'
      BY <2>2 DEF GrownInv
    <3>1. CASE s = r
      BY <2>2, <2>3, <2>5, <3>1 DEF Holds
    <3>2. CASE s # r
      <4>1. Open(s)
        BY <2>2, <2>3, <3>2 DEF Open
      <4>. QED
        BY <2>1, <2>2, <2>3, <2>4, <3>2, <4>1 DEF GrownInv, OpenFacts, Holds
    <3>. QED
      BY <3>1, <3>2
  <2>. QED
    BY <2>6, <2>7
<1>6. CASE OpenReads
  BY <1>5, <1>6 DEF OpenReads, OpenFiles
<1>7. CASE OpenFailsAio
  <2>1. i_reading' \in {0, 1} /\ ~Act'
    BY <1>7 DEF OpenFailsAio, Break, Act, Active, IInv, TypeOK, ControlOK
  <2>. QED
    BY <1>5, <1>7, <2>1 DEF OpenFailsAio, OpenFiles
<1>. QED
  BY <1>1, <1>2, <1>3, <1>4, <1>6, <1>7 DEF Opening

-----------------------------------------------------------------------------
\* A finished read becomes a write of the blocks that follow those on disk; a slot whose
\* buffer is not doubled is not read into before that write is over.
LEMMA ReadEndGrowth ==
  ASSUME IInv, GrowthInv, ReadEnd
  PROVE  GrowthInv'
<1>. USE DEF GrowthInv
<1>1. CASE ReadNotEnded \/ JoinSetsFl
  BY <1>1, FlightKept, GrownKept DEF ReadNotEnded, JoinSetsFl, Act, Active, FlightInv
<1>2. CASE WriteFails
  <2>1. ReadEndFacts
    BY <1>2, AtReadEnd DEF WriteFails
  <2>2. wio' # "busy" /\ ~Act'
    BY <1>2, <2>1 DEF WriteFails, Break, Act, Active, ReadEndFacts
  <2>. QED
    BY <2>2, FlightKept, GrownKept
<1>3. ASSUME pc = "rend", ReadEnded, WriteStarts, UNCHANGED dst,
             ~Double(r) => buf' = buf /\ rio' = rio,
             Act' => (r' = r /\ i_reading' = 1) \/ (r' = r + 1 /\ i_reading' = 0)
      PROVE  GrowthInv'
  <2>1. ReadEndFacts
    BY <1>3, AtReadEnd
  <2>2. ToWriteFacts
    BY <1>3, <2>1, AtToWrite DEF WriteStarts, IInv, TypeOK
  <2>3. /\ wio' = "busy" /\ w' = r /\ writed' = writed /\ base' = base /\ entry' = entry
        /\ fast_num_files' = fast_num_files
    BY <1>3, <2>2 DEF WriteStarts, ToWriteFacts
  <2>4. Holds(entry[r], writed[r])
    BY <2>1 DEF GrownInv, ReadEndFacts, Open
  <2>5. Double(w)' = Double(r) /\ Holds(entry[w], writed[w])' /\ Want(entry[w])' = Want(entry[r])
    BY <1>3, <2>3, <2>4 DEF Holds, Want, Double
  <2>6. (IF Double(r) THEN bufw'[r] ELSE buf'[r]) = writed[r]
    BY <1>3, <2>1, <2>2 DEF ReadEndFacts, ToWriteFacts
  <2>7. writed[r] + wsize'[r] <= Want(entry[r]) /\ wsize'[r] > 0 /\ writed[r] >= 0
    BY <2>1, <2>2 DEF ReadEndFacts, ToWriteFacts
  <2>8. ~Double(r) => rio' # "busy"
    BY <1>3, <2>1 DEF ReadEndFacts
  <2>9. FlightInv'
    BY <2>2, <2>3, <2>5, <2>6, <2>7, <2>8 DEF FlightInv, ToWriteFacts
  <2>10. GrownInv'
    <3>. SUFFICES ASSUME Act', NEW s \in Used, Open(s)'
                  PROVE  Holds(entry[s], writed[s])'
      BY <2>3 DEF GrownInv
    <3>1. s = r
      BY <1>3, <2>1, <2>3, SizeFacts DEF Open, Slot, ReadEndFacts
    <3>. QED
      BY <2>3, <2>5, <3>1 DEF Holds
  <2>. QED
    BY <2>9, <2>10
<1>4. CASE SingleBuffer \/ DoubleLast \/ DoubleJoined
  <2>1. /\ pc = "rend" /\ ReadEnded /\ WriteStarts /\ r' = r + 1 /\ i_reading' = 0
        /\ UNCHANGED << dst, buf, rio >>
    BY <1>4 DEF SingleBuffer, DoubleLast, DoubleJoined, NextFile
  <2>. QED
    BY <1>3, <2>1
<1>5. CASE DoubleMore
  <2>1. /\ pc = "rend" /\ ReadEnded /\ WriteStarts /\ Double(r)
        /\ UNCHANGED << r, i_reading, dst >>
    BY <1>5 DEF DoubleMore
  <2>2. i_reading = 1
    BY <2>1, AtReadEnd DEF ReadEndFacts
  <2>. QED
    BY <1>3, <2>1, <2>2
<1>6. CASE JoinFailsOpen \/ JoinMore
  <2>1. /\ pc = "rend" /\ ReadEnded /\ WriteStarts /\ Double(r)
        /\ UNCHANGED << r, i_reading, dst >>
    BY <1>6 DEF JoinFailsOpen, JoinMore, NextFragment
  <2>2. i_reading = 1
    BY <2>1, AtReadEnd DEF ReadEndFacts
  <2>. QED
    BY <1>3, <2>1, <2>2
<1>. QED
  BY <1>1, <1>2, <1>4, <1>5, <1>6 DEF ReadEnd

\* Where a write ends, none is in flight, and the destination of its slot is left as it is.
LEMMA WriteEndGrowth ==
  ASSUME IInv, GrowthInv, WriteEnd
  PROVE  GrowthInv'
<1>. USE DEF GrowthInv
<1>1. CASE WriteNotEnded
  BY <1>1, FlightKept, GrownKept DEF WriteNotEnded, Act, Active, FlightInv
<1>2. CASE WriteError \/ SplitFails
  <2>1. WriteEndFacts
    BY <1>2, AtWriteEnd DEF WriteError, SplitFails, WriteAcknowledged
  <2>2. wio' # "busy" /\ ~Act'
    BY <1>2, <2>1 DEF WriteError, SplitFails, WriteAcknowledged, Break, Act, Active,
                      WriteEndFacts
  <2>. QED
    BY <2>2, FlightKept, GrownKept
<1>3. CASE SplitNext \/ WriteMore
  <2>1. WriteEndFacts
    BY <1>3, AtWriteEnd DEF SplitNext, WriteMore, WriteAcknowledged
  <2>2. /\ wio' # "busy" /\ Act
        /\ UNCHANGED << r, w, i_reading, fast_num_files, entry, writed, dst >>
    BY <1>3, <2>1 DEF SplitNext, WriteMore, WriteAcknowledged, Rolled, WriteEndFacts
  <2>. QED
    BY <2>2, FlightKept, GrownKept
<1>4. CASE FileDone
  <2>1. WriteEndFacts
    BY <1>4, AtWriteEnd DEF FileDone, WriteAcknowledged
  <2>2. wio' # "busy"
    BY <1>4, <2>1 DEF FileDone, WriteAcknowledged, WriteEndFacts
  <2>3. /\ w' = w + 1 /\ \A s \in Slot : s # w => writed'[s] = writed[s]
        /\ UNCHANGED << r, i_reading, fast_num_files, entry, dst >>
    BY <1>4, <2>1 DEF FileDone, WriteAcknowledged, IInv, TypeOK, SlotsOK
  <2>4. ASSUME NEW s \in Used, Open(s)'
        PROVE  Holds(entry[s], writed[s])'
    <3>1. s # w /\ Open(s)
      BY <2>1, <2>3, <2>4, SizeFacts DEF Open, Slot, WriteEndFacts
    <3>. QED
      BY <2>1, <2>3, <3>1 DEF GrownInv, WriteEndFacts, Holds
  <2>. QED
    BY <2>2, <2>3, <2>4, FlightKept DEF GrownInv
<1>. QED
  BY <1>1, <1>2, <1>3, <1>4 DEF WriteEnd

\* After the loop nothing is open; a write is withdrawn, or goes on.
LEMMA LeavingGrowth ==
  ASSUME IInv, GrowthInv, PadContinue \/ PadAbort \/ Leaving
  PROVE  GrowthInv'
<1>. USE DEF GrowthInv
<1>1. CASE PadContinue
  BY <1>1, FlightKept, GrownKept DEF PadContinue, Act, Active, FlightInv
<1>2. CASE PadAbort
  BY <1>2, FlightKept, GrownKept DEF PadAbort, Break, Act, Active, FlightInv
<1>3. CASE Leaving
  <2>1. ~Act'
    BY <1>3 DEF Leaving, CancelWrite, SleepWrite, CancelRead, SleepRead, Free, Act, Active
  <2>2. FlightInv'
    BY <1>3, FlightKept DEF Leaving, CancelWrite, SleepWrite, CancelRead, SleepRead, Free, FlightInv,
      IInv, IOInv, Active, WriteOwned, ReadOwned, GivenUp
  <2>. QED
    BY <2>1, <2>2, GrownKept
<1>. QED
  BY <1>1, <1>2, <1>3

\* The blocks of the write in flight are those that follow the ones on disk.
LEMMA WriteAppends ==
  ASSUME IInv, FlightInv, wio = "busy", ~abort_copy, NEW data \in InBuffer(w)
  PROVE  /\ Written(dst[entry[w]], w, data) =
              Service!Prefix(writed[w] + wsize[w], Total(entry[w]))
         /\ w \in Used /\ w \in Slot /\ entry[w] \in Entry /\ entry[w] \notin copied
         /\ writed[w] \in Nat /\ wsize[w] \in Nat /\ Total(entry[w]) \in Nat
         /\ writed[w] + wsize[w] <= Total(entry[w])
<1>1. w \in Used /\ w \in Slot /\ entry[w] \in Entry /\ entry[w] \notin copied
  BY DEF IInv, IOInv, WriteOwned, QueueInv
<1>2. writed[w] \in Nat /\ wsize[w] \in Nat
  BY <1>1 DEF IInv, TypeOK, SlotsOK, FlightInv
<1>3. Total(entry[w]) \in Nat /\ writed[w] + wsize[w] <= Total(entry[w])
  BY <1>1, <1>2, EntryFacts DEF FlightInv
<1>. DEFINE n == writed[w]
            m == wsize[w]
            size == Total(entry[w])
            at == base[w] + woff[w]
<1>4. at = n /\ data = n /\ dst[entry[w]] = Service!Prefix(n, size)
  <2>1. mem[w] = Buffer
    BY <1>1 DEF IInv, QueueInv
  <2>2. data = IF Double(w) THEN bufw[w] ELSE buf[w]
    BY <2>1 DEF InBuffer, Buffer, Null
  <2>. QED
    BY <2>2 DEF FlightInv, Holds
<1>5. Written(dst[entry[w]], w, data) =
        [ a \in 0 .. size - 1 |->
            IF at <= a /\ a < at + m
              THEN IF data = NoData THEN NoData ELSE data + (a - at)
              ELSE dst[entry[w]][a] ]
  BY DEF Written
<1>. HIDE DEF n, m, size, at
<1>6. n \in Nat /\ m \in Nat /\ size \in Nat
  BY <1>2, <1>3 DEF n, m, size
<1>7. ASSUME NEW a \in 0 .. size - 1
      PROVE  (IF at <= a /\ a < at + m
                THEN IF data = NoData THEN NoData ELSE data + (a - at)
                ELSE dst[entry[w]][a])
             = (IF a < n + m THEN a ELSE NoData)
  <2>1. dst[entry[w]][a] = IF a < n THEN a ELSE NoData
    BY <1>4, <1>7 DEF Service!Prefix
  <2>. QED
    BY <1>4, <1>6, <2>1 DEF NoData
<1>8. Written(dst[entry[w]], w, data) = Service!Prefix(n + m, size)
  BY <1>5, <1>7 DEF Service!Prefix
<1>. QED
  BY <1>1, <1>2, <1>3, <1>8 DEF n, m, size

\* A write that is done has appended to its destination; reads do not touch a
\* destination, nor the buffer that is being written.
LEMMA IOGrowth ==
  ASSUME IInv, GrowthInv, ReadIO \/ WriteIO
  PROVE  GrowthInv'
<1>. USE DEF GrowthInv
<1>1. CASE ReadDone
  <2>1. ~abort_copy => rslot = r /\ r \in Slot
    BY <1>1 DEF ReadDone, IInv, IOInv, ReadOwned
  <2>2. \A s \in Slot : s # rslot => buf'[s] = buf[s]
    BY <1>1 DEF ReadDone, IInv, TypeOK, SlotsOK
  <2>3. wio = "busy" /\ ~abort_copy => w \in Slot
    BY DEF IInv, IOInv, WriteOwned
  <2>4. wio = "busy" /\ ~abort_copy /\ ~Double(w) => r # w
    BY <1>1 DEF ReadDone, FlightInv
  <2>5. FlightInv'
    BY <1>1, <2>1, <2>2, <2>3, <2>4, FlightKept DEF ReadDone
  <2>6. GrownInv'
    BY <1>1, GrownKept DEF ReadDone, Act
  <2>. QED
    BY <2>5, <2>6
<1>2. CASE ReadDoneLate \/ ReadSignal \/ ReadFailed
  BY <1>2, FlightKept, GrownKept DEF ReadDoneLate, ReadSignal, ReadFailed, Act
<1>3. CASE WriteDone
  <2>1. wio = "busy" /\ (Act => wslot = w /\ ~abort_copy)
    BY <1>3 DEF WriteDone, IInv, IOInv, WriteOwned, Act
  <2>2. /\ wio' = "post" /\ UNCHANGED << pc, abort_copy, r, w, i_reading, fast_num_files, entry >>
        /\ Act' <=> Act
    BY <1>3 DEF WriteDone, Act
  <2>3. ASSUME Act', NEW s \in Used, Open(s)'
        PROVE  Holds(entry[s], writed[s])'
    <3>0. /\ wslot = w /\ ~abort_copy /\ writed' = [writed EXCEPT ![w] = @ + wsize[w]]
          /\ \E data \in InBuffer(w) :
               dst' = [dst EXCEPT ![entry[w]] = Written(dst[entry[w]], w, data)]
      BY <1>3, <2>1, <2>2, <2>3 DEF WriteDone
    <3>1. CASE s = w
      <4>1. dst'[entry[w]] = Service!Prefix(writed[w] + wsize[w], Total(entry[w]))
        BY <2>1, <3>0, WriteAppends DEF IInv, TypeOK, DestinationOK
      <4>2. writed'[w] = writed[w] + wsize[w]
        BY <2>1, <3>0, WriteAppends DEF IInv, TypeOK, SlotsOK
      <4>. QED
        BY <2>2, <3>1, <4>1, <4>2 DEF Holds
    <3>2. CASE s # w
      <4>1. writed'[s] = writed[s] /\ dst'[entry[s]] = dst[entry[s]]
        <5>1. w \in Used /\ entry[s] # entry[w]
          BY <2>1, <2>2, <2>3, <3>2 DEF IInv, IOInv, WriteOwned, QueueInv, Act
        <5> QED  BY <3>0, <3>2, <5>1 DEF IInv, TypeOK, SlotsOK, DestinationOK
      <4>2. Open(s) /\ Act
        BY <2>2, <2>3, <4>1 DEF Open, Act
      <4>. QED
        BY <2>2, <4>1, <4>2 DEF GrownInv, Holds
    <3>. QED
      BY <3>1, <3>2
  <2>4. GrownInv'
    BY <2>2, <2>3 DEF GrownInv
  <2>. QED
    BY <2>2, <2>4, FlightKept
<1>4. CASE WriteFailed
  <2>1. wslot \in Slot /\ (Act => wslot = w)
    BY <1>4 DEF WriteFailed, IInv, IOInv, WriteOwned, TypeOK, ControlOK, Act
  <2>2. /\ writed'[wslot] = -1 /\ \A s \in Slot : s # wslot => writed'[s] = writed[s]
        /\ wio' = "post"
        /\ UNCHANGED << pc, abort_copy, r, w, i_reading, fast_num_files, entry, dst >>
    BY <1>4, <2>1 DEF WriteFailed, IInv, TypeOK, SlotsOK
  <2>3. ASSUME Act', NEW s \in Used, Open(s)'
        PROVE  Holds(entry[s], writed[s])'
    <3>1. s # wslot /\ Open(s) /\ Act
      BY <2>2, <2>3 DEF Open, Act
    <3>. QED
      BY <2>2, <3>1 DEF GrownInv, Holds
  <2>. QED
    BY <2>2, <2>3, FlightKept DEF GrownInv
<1>5. CASE WriteSignal
  BY <1>5, FlightKept, GrownKept DEF WriteSignal, Act
<1>. QED
  BY <1>1, <1>2, <1>3, <1>4, <1>5 DEF ReadIO, WriteIO

LEMMA GrowthStep == IInv /\ GrowthInv /\ [Next]_vars => GrowthInv'
<1>. SUFFICES ASSUME IInv, GrowthInv, [Next]_vars
              PROVE  GrowthInv'
  OBVIOUS
<1>1. CASE UNCHANGED vars
  BY <1>1, FlightKept, GrownKept DEF GrowthInv, vars, Act, FlightInv
<1>. QED
  BY <1>1, CallerGrowth, OpeningGrowth, ReadEndGrowth, WriteEndGrowth, LeavingGrowth, IOGrowth
     DEF Next, Main

-----------------------------------------------------------------------------
\* Steps of the engine that leave the destinations alone, or open, extend or finish one.
LEMMA ServiceStep ==
  IInv /\ IInv' /\ GrowthInv /\ [Next]_vars => [Service!Next]_<< dst, copied, abort_copy >>
<1>. SUFFICES ASSUME IInv, IInv', GrowthInv, [Next]_vars
              PROVE  Service!Next \/ UNCHANGED << dst, copied, abort_copy >>
  OBVIOUS
<1>0. ASSUME UNCHANGED << dst, copied >>, abort_copy' = TRUE \/ UNCHANGED abort_copy
      PROVE  Service!Next \/ UNCHANGED << dst, copied, abort_copy >>
  BY <1>0, Zenon DEF Service!Next, Service!Fail
<1>1. CASE OpenReads \/ OpenFailsAio
  <2>1. OpenFacts
    BY <1>1, AtOpen DEF OpenReads, OpenFailsAio, OpenFiles
  <2>2. dst' = [dst EXCEPT ![entry[r]] = [a \in 0 .. Total(entry[r]) - 1 |-> NoData]]
        /\ UNCHANGED << copied, abort_copy >> /\ ~abort_copy
    BY <1>1 DEF OpenReads, OpenFailsAio, OpenFiles, Continue
  <2>3. Service!Prefix(0, Total(entry[r])) = [a \in 0 .. Total(entry[r]) - 1 |-> NoData]
    <3>1. \A a \in 0 .. Total(entry[r]) - 1 : ~(a < 0)
      BY <2>1 DEF OpenFacts
    <3>. QED
      BY <3>1 DEF Service!Prefix
  <2>4. Service!Truncate(entry[r])
    BY <2>1, <2>2, <2>3 DEF Service!Truncate, OpenFacts
  <2>. QED
    BY <2>1, <2>4 DEF Service!Next, OpenFacts
<1>2. CASE WriteDone /\ ~abort_copy
  <2>1. wslot = w /\ wio = "busy" /\ FlightInv
    BY <1>2 DEF WriteDone, IInv, IOInv, WriteOwned, GrowthInv
  <2>2. PICK data \in InBuffer(w) :
           dst' = [dst EXCEPT ![entry[w]] = Written(dst[entry[w]], w, data)]
    BY <1>2, <2>1 DEF WriteDone
  <2>7. UNCHANGED << copied, abort_copy >>
    BY <1>2 DEF WriteDone
  <2>. DEFINE e == entry[w]
              n == writed[w]
              m == writed[w] + wsize[w]
  <2>3. /\ e \in Entry /\ e \notin copied
        /\ n \in 0 .. Total(e) - 1 /\ m \in 1 .. Total(e) /\ n < m
    BY <1>2, <2>1, <2>2, WriteAppends DEF FlightInv
  <2>4. dst[e] = Service!Prefix(n, Total(e))
    BY <1>2, <2>1 DEF FlightInv, Holds
  <2>5. dst' = [dst EXCEPT ![e] = Service!Prefix(m, Total(e))]
    BY <1>2, <2>1, <2>2, WriteAppends
  <2>. HIDE DEF e, n, m
  <2>6. Service!Extend(e)
    BY <1>2, <2>3, <2>4, <2>5, <2>7 DEF Service!Extend
  <2>. QED
    BY <2>3, <2>6 DEF Service!Next
<1>13. CASE WriteDone /\ abort_copy
  <2>1. entry[wslot] \in Entry /\ entry[wslot] \notin copied
    BY <1>13 DEF WriteDone, IInv, IOInv
  <2>2. PICK d \in {Written(dst[entry[wslot]], wslot, data) : data \in InBuffer(wslot)} :
           dst' = [dst EXCEPT ![entry[wslot]] = d]
    BY <1>13 DEF WriteDone
  <2>3. dst' = [dst EXCEPT ![entry[wslot]] = dst'[entry[wslot]]]
    BY <2>1, <2>2 DEF IInv, TypeOK, DestinationOK
  <2>4. Service!Spoil(entry[wslot])
    BY <1>13, <2>1, <2>3 DEF Service!Spoil, WriteDone
  <2>. QED
    BY <2>1, <2>4 DEF Service!Next
<1>3. ASSUME NEW e \in Entry, e \notin copied, copied' = copied \cup {e}, ~abort_copy,
             UNCHANGED << dst, abort_copy >>
      PROVE  Service!Next
  <2>1. \A a \in 0 .. Want(e) - 1 : dst[e][a] = a
    BY <1>3 DEF IInv, CopyFaithful, Faithful, Want
  <2>2. Service!Finish(e)
    BY <1>3, <2>1 DEF Service!Finish
  <2>. QED
    BY <2>2 DEF Service!Next
<1>4. CASE FileDone
  <2>1. WriteEndFacts
    BY <1>4, AtWriteEnd DEF FileDone, WriteAcknowledged
  <2>2. UNCHANGED << dst, abort_copy >>
    BY <1>4 DEF FileDone, WriteAcknowledged
  <2>. QED
    BY <1>3, <1>4, <2>1, <2>2 DEF FileDone, WriteEndFacts, Act
<1>5. CASE AddEmpty
  <2>1. pend \in Entry /\ pend \notin copied /\ ~abort_copy
    BY <1>5 DEF AddEmpty, IInv, QueueInv
  <2>. QED
    BY <1>3, <1>5, <2>1 DEF AddEmpty
<1>6. CASE Adding \/ AsyncOpen \/ AsyncOpenFails \/ AsyncClose \/ ProcessCall
  BY <1>0, <1>5, <1>6 DEF Adding, AddReturn, AddCall, AddIgnored, AddFails, AddQueued, AsyncOpen,
                    AsyncOpenFails, AsyncClose, ProcessCall
<1>7. CASE Opening
  BY <1>0, <1>1, <1>7 DEF Opening, LoopEnd, LoopNothingToOpen, OpenFailsRead, OpenFailsWrite
<1>8. CASE ReadEnd
  <2>1. UNCHANGED << dst, copied, abort_copy >>
    <3>1. CASE ReadNotEnded \/ WriteFails \/ JoinSetsFl
      BY <3>1 DEF ReadNotEnded, WriteFails, ToWrite, JoinSetsFl
    <3>2. CASE SingleBuffer \/ DoubleLast \/ DoubleJoined
      BY <3>2 DEF SingleBuffer, DoubleLast, DoubleJoined, NextFile, WriteStarts, ToWrite
    <3>3. CASE DoubleMore
      BY <3>3 DEF DoubleMore, WriteStarts, ToWrite
    <3>4. CASE JoinFailsOpen \/ JoinMore
      BY <3>4 DEF JoinFailsOpen, JoinMore, NextFragment, WriteStarts, ToWrite, Break
    <3> QED  BY <1>8, <3>1, <3>2, <3>3, <3>4 DEF ReadEnd
  <2> QED  BY <1>0, <2>1
<1>9. CASE WriteEnd
  BY <1>0, <1>4, <1>9 DEF WriteEnd, WriteAcknowledged, WriteNotEnded, WriteError, SplitNext, SplitFails, Rolled, WriteMore
<1>10. CASE PadContinue \/ PadAbort \/ Leaving
  <2>1. UNCHANGED << dst, copied >>
    BY <1>10 DEF PadContinue, PadAbort, Leaving, CancelWrite, SleepWrite, CancelRead, SleepRead,
                 Free
  <2>2. abort_copy' = TRUE \/ UNCHANGED abort_copy
    <3>1. CASE Free
      <4>1. abort_copy' = (abort_copy \/ error # 0) /\ abort_copy \in BOOLEAN
        BY <3>1 DEF Free, IInv, TypeOK, ControlOK
      <4>. QED
        BY <4>1, Zenon
    <3>2. CASE ~Free
      BY <1>10, <3>2 DEF PadContinue, PadAbort, Leaving, CancelWrite, SleepWrite, CancelRead,
                         SleepRead
    <3>. QED
      BY <3>1, <3>2
  <2>. QED
    BY <1>0, <2>1, <2>2
<1>11. CASE ReadIO \/ WriteIO
  BY <1>0, <1>2, <1>13, <1>11 DEF ReadIO, WriteIO, ReadDone, ReadDoneLate, ReadSignal, ReadFailed, WriteFailed,
                     WriteSignal
<1>12. CASE UNCHANGED vars
  BY <1>12 DEF vars
<1>. QED
  BY <1>6, <1>7, <1>8, <1>9, <1>10, <1>11, <1>12 DEF Next, Main

\* The engine implements the copy service: whatever the buffers, requests, callbacks,
\* failures and cancellations do, a destination grows block by block with the blocks of its
\* source, is finished only when it is whole, and is final from then on.
THEOREM EngineImplementsService == Spec => Implements
<1>1. Init => Service!Init
  <2>1. \A e \in Entry : \A a \in 0 .. Total(e) - 1 : ~(a < 0)
    BY EntryFacts
  <2>. QED
    BY <2>1 DEF Init, Service!Init, Service!Prefix
<1>2. Init => GrowthInv
  BY DEF Init, GrowthInv, FlightInv, GrownInv, Act, Active
<1>. QED
  BY <1>1, <1>2, InitInv, NextInv, GrowthStep, ServiceStep, PTL
     DEF Spec, Implements, Service!Spec, Service!vars

-----------------------------------------------------------------------------
\* Steps that leave the counters and the write in flight alone, while the loop goes on as
\* it did or gives up.
LEMMA RoomKept ==
  ASSUME RoomInv,
         UNCHANGED << entry, giga_counter, fast_num_files >>,
         wio' # "busy" \/ (wio = "busy" /\ w' = w /\ wslot' = wslot /\ wsize' = wsize),
         Act' => Act /\ UNCHANGED << r, w, i_reading, fast_writing, rsize >>
  PROVE  RoomInv'
<1>1. \A s \in Slot : Mode(s)' = Mode(s)
  BY DEF Mode
<1>2. FragmentBound'
  BY <1>1 DEF RoomInv, FragmentBound
<1>3. wio' = "busy" /\ fast_num_files' > 0 =>
        /\ wslot' = w'
        /\ Mode(w)' = 1 => giga_counter'[w'] < GigaLimit /\ wsize'[w'] <= MaxFastFileSize
  BY DEF RoomInv, Mode
<1>4. Act' => \A s \in Used' : Filling(s)' => giga_counter'[s] < GigaLimit
  BY DEF RoomInv, Filling, Mode
<1>5. Act' /\ i_reading' = 1 => rsize'[r'] <= MaxFastFileSize
  BY DEF RoomInv
<1>. QED
  BY <1>2, <1>3, <1>4, <1>5 DEF RoomInv

\* A new slot starts with an empty fragment, and so does every slot of a new loop.
LEMMA CallerRoom ==
  ASSUME IInv, RoomInv, Adding \/ AsyncOpen \/ AsyncOpenFails \/ AsyncClose \/ ProcessCall
  PROVE  RoomInv'
<1>1. pc \in Caller
  BY DEF Adding, AddCall, AddIgnored, AddFails, AddEmpty, AddQueued, AsyncOpen,
         AsyncOpenFails, AsyncClose, ProcessCall, Caller
<1>2. (wio # "none" => abort_copy) /\ r = 0 /\ w = 0 /\ fast_num_files \in 0 .. MaxFastFiles
  BY <1>1 DEF IInv, IOInv, CallerInv, Caller, Active, Leave, TypeOK, ControlOK, WriteOwned
<1>3. wio' = "busy" /\ fast_num_files' > 0 =>
        /\ wslot' = w'
        /\ Mode(w)' = 1 => giga_counter'[w'] < GigaLimit /\ wsize'[w'] <= MaxFastFileSize
  <2>1. CASE Adding /\ pc = "add"
    <3>1. wio = "none"
      BY <1>2, <2>1 DEF IInv, QueueInv, TypeOK, ControlOK
    <3> QED  BY <2>1, <3>1 DEF Adding, AddCall, AddIgnored, AddFails, AddEmpty, AddQueued, AddReturn
  <2>2. CASE (\E e \in Entry : AddCall(e)) \/ AsyncOpen \/ AsyncOpenFails \/ ProcessCall
    <3>1. UNCHANGED << wio, wslot, w, fast_num_files, entry, giga_counter, wsize >>
      BY <2>2 DEF AddCall, AsyncOpen, AsyncOpenFails, ProcessCall
    <3> QED  BY <3>1 DEF RoomInv, Mode
  <2>3. CASE AsyncClose
    BY <2>3 DEF AsyncClose
  <2> QED  BY <2>1, <2>2, <2>3 DEF Adding, AddIgnored, AddFails, AddEmpty, AddQueued
<1>4. FragmentBound'
  <2>1. CASE AddQueued
    <3>1. /\ entry' = [entry EXCEPT ![fast_num_files] = pend]
          /\ giga_counter' = [giga_counter EXCEPT ![fast_num_files] = 0]
          /\ fast_num_files' = fast_num_files + 1 /\ fast_num_files \in Slot
      BY <1>2, <2>1, SizeFacts DEF AddQueued, IInv, QueueInv, Slot
    <3>. SUFFICES ASSUME NEW s \in Slot, s < fast_num_files + 1, Mode(s)' = 1
                  PROVE  giga_counter'[s] < GigaLimit + MaxFastFileSize
      BY <3>1 DEF FragmentBound
    <3>2. CASE s = fast_num_files
      BY <3>1, <3>2, SizeFacts DEF IInv, TypeOK, SlotsOK
    <3>3. CASE s # fast_num_files
      <4>1. s < fast_num_files
        BY <1>2, <3>3 DEF Slot
      <4>2. Mode(s) = 1 /\ giga_counter'[s] = giga_counter[s]
        BY <3>1, <3>3 DEF Mode, IInv, TypeOK, SlotsOK
      <4>. QED
        BY <4>1, <4>2 DEF RoomInv, FragmentBound
    <3>. QED
      BY <3>2, <3>3
  <2>2. CASE AsyncClose
    BY <2>2 DEF AsyncClose, FragmentBound, Slot
  <2>3. CASE \/ AsyncOpen \/ AsyncOpenFails \/ ProcessCall
             \/ AddIgnored \/ AddFails \/ AddEmpty \/ \E e \in Entry : AddCall(e)
    <3>1. UNCHANGED << entry, giga_counter, fast_num_files >>
      BY <2>3 DEF AddCall, AddIgnored, AddFails, AddEmpty, AddReturn, AsyncOpen,
                  AsyncOpenFails, ProcessCall
    <3>. QED
      BY <3>1 DEF RoomInv, FragmentBound, Mode
  <2>. QED
    BY <2>1, <2>2, <2>3 DEF Adding
<1>5. Act' => /\ i_reading' = 0 /\ ~abort_copy
              /\ UNCHANGED << entry, giga_counter, fast_num_files >>
  BY DEF Adding, AddCall, AddIgnored, AddFails, AddEmpty, AddQueued, AddReturn,
         AsyncOpen, AsyncOpenFails, AsyncClose, ProcessCall, Act, Active
<1>6. ASSUME Act'
      PROVE  \A s \in Used' : giga_counter'[s] < GigaLimit
  <2>1. \A s \in Used : giga_counter[s] = 0
    BY <1>1, <1>5, <1>6 DEF IInv, CallerInv, Pristine
  <2>2. GigaLimit > 0
    BY SizeAssumption DEF SizeAssumption
  <2>. QED
    BY <1>5, <1>6, <2>1, <2>2, SizeFacts
<1>. QED
  BY <1>3, <1>4, <1>5, <1>6 DEF RoomInv

\* The first read of a file fits its buffer.
LEMMA OpeningRoom ==
  ASSUME IInv, RoomInv, Opening
  PROVE  RoomInv'
<1>1. CASE LoopEnd \/ LoopNothingToOpen
  BY <1>1, RoomKept DEF LoopEnd, LoopNothingToOpen, Act, Active, Continue
<1>2. CASE OpenFailsRead \/ OpenFailsWrite
  BY <1>2, RoomKept DEF OpenFailsRead, OpenFailsWrite, Break, Act, Active
<1>3. CASE OpenFailsAio
  BY <1>3, RoomKept DEF OpenFailsAio, OpenFiles, Break, Act, Active
<1>4. CASE OpenReads
  <2>1. OpenFacts
    BY <1>4, AtOpen DEF OpenReads, OpenFiles
  <2>2. /\ rsize' = [rsize EXCEPT ![r] = Smaller(len[r], SizeMem(r))]
        /\ UNCHANGED << entry, giga_counter, fast_num_files, wsize, r, w, fast_writing >>
        /\ wio' = "busy" => wio = "busy"
    BY <1>4 DEF OpenReads, OpenFiles, ResetSlot
  <2>3. rsize'[r] <= MaxFastFileSize
    <3>1. rsize'[r] = Smaller(len[r], SizeMem(r))
      BY <2>1, <2>2 DEF OpenFacts, IInv, TypeOK, SlotsOK
    <3>. QED
      BY <2>1, <3>1, SizeFacts DEF OpenFacts, Smaller
  <2>4. FragmentBound' /\ (wio' = "busy" /\ fast_num_files' > 0 =>
                             /\ wslot' = w'
                             /\ Mode(w)' = 1 => giga_counter'[w'] < GigaLimit /\ wsize'[w'] <= MaxFastFileSize)
    <3>1. UNCHANGED wslot
      BY <1>4 DEF OpenReads, OpenFiles
    <3> QED  BY <2>2, <3>1 DEF RoomInv, FragmentBound, Mode
  <2>5. \A s \in Used' : Filling(s)' => giga_counter'[s] < GigaLimit
    BY <2>1, <2>2 DEF RoomInv, Filling, Mode, OpenFacts
  <2>. QED
    BY <2>2, <2>3, <2>4, <2>5 DEF RoomInv
<1>. QED
  BY <1>1, <1>2, <1>3, <1>4 DEF Opening

\* A write is only started for a fragment that is not full, and writes one buffer at most.
LEMMA ReadEndRoom ==
  ASSUME IInv, RoomInv, ReadEnd
  PROVE  RoomInv'
<1>1. CASE ReadNotEnded \/ JoinSetsFl
  BY <1>1, RoomKept DEF ReadNotEnded, JoinSetsFl, Act, Active
<1>2. CASE WriteFails
  <2>1. ReadEndFacts
    BY <1>2, AtReadEnd DEF WriteFails
  <2>2. ToWriteFacts
    BY <1>2, <2>1, AtToWrite DEF WriteFails, IInv, TypeOK
  <2>. QED
    BY <1>2, <2>1, <2>2, RoomKept DEF WriteFails, Break, Act, Active, ReadEndFacts, ToWriteFacts
<1>3. ASSUME pc = "rend", ReadEnded, WriteStarts,
             Act' /\ i_reading' = 1 => rsize'[r'] <= MaxFastFileSize
      PROVE  RoomInv'
  <2>1. ReadEndFacts
    BY <1>3, AtReadEnd
  <2>2. ToWriteFacts /\ fast_writing' = 1
    BY <1>3, <2>1, AtToWrite DEF WriteStarts, IInv, TypeOK
  <2>3. /\ w' = r /\ w = r /\ wsize'[r] = rsize[r] /\ rsize[r] <= MaxFastFileSize
        /\ UNCHANGED << entry, giga_counter, fast_num_files >>
    BY <2>1, <2>2 DEF ToWriteFacts, ReadEndFacts, RoomInv
  <2>4. Mode(r) = 1 => giga_counter[r] < GigaLimit
    BY <2>1, SizeFacts DEF RoomInv, Filling, ReadEndFacts
  <2>5. FragmentBound'
    BY <2>3 DEF RoomInv, FragmentBound, Mode
  <2>6. \A s \in Used' : Filling(s)' => giga_counter'[s] < GigaLimit
    BY <2>1, <2>2, <2>3 DEF RoomInv, Filling, Mode, ReadEndFacts
  <2>. QED
    <3>1. wslot' = w' /\ UNCHANGED entry
      BY <1>3, <2>3 DEF WriteStarts
    <3> QED  BY <1>3, <2>3, <2>4, <2>5, <2>6, <3>1 DEF RoomInv, Mode
<1>4. CASE SingleBuffer \/ DoubleLast \/ DoubleJoined
  <2>1. pc = "rend" /\ ReadEnded /\ WriteStarts /\ i_reading' = 0
    BY <1>4 DEF SingleBuffer, DoubleLast, DoubleJoined, NextFile
  <2>. QED
    BY <1>3, <2>1
<1>5. CASE DoubleMore \/ JoinMore
  <2>1. /\ pc = "rend" /\ ReadEnded /\ WriteStarts /\ r' = r
    BY <1>5 DEF DoubleMore, JoinMore, NextFragment
  <2>2. ReadEndFacts
    BY <2>1, AtReadEnd
  <2>3. SizeMem(r) <= MaxFastFileSize
    BY <2>2, EntryFacts, SizeFacts DEF SizeMem, Smaller, ReadEndFacts
  <2>4. ASSUME NEW n \in Int, rsize' = [rsize EXCEPT ![r] = Smaller(n, SizeMem(r))]
        PROVE  rsize'[r] <= MaxFastFileSize
    <3>1. rsize'[r] = Smaller(n, SizeMem(r))
      BY <2>2, <2>4 DEF ReadEndFacts, IInv, TypeOK, SlotsOK
    <3>. QED
      BY <2>2, <2>3, <3>1, SizeFacts DEF Smaller, ReadEndFacts
  <2>5. len[r] \in Int /\ readed[r] \in Int
    BY <2>2 DEF IInv, TypeOK, SlotsOK, ReadEndFacts
  <2>6. CASE DoubleMore
    <3>1. /\ len[r] - readed[r] \in Int
          /\ rsize' = [rsize EXCEPT ![r] = Smaller(len[r] - readed[r], SizeMem(r))]
      BY <2>5, <2>6 DEF DoubleMore
    <3>. QED
      BY <1>3, <2>1, <2>4, <3>1
  <2>7. CASE JoinMore
    <3>. DEFINE e == entry[r]
                k == number_frag[r] + 1
                fragLen == Start[e][k + 1] - Start[e][k]
    <3>1. e \in Entry /\ k \in 1 .. NFrags[e] - 1
      BY <2>2, <2>7, EntryFacts DEF JoinMore, NextFragment, ReadEndFacts
    <3>2. len[r] + fragLen - readed[r] \in Int
      BY <2>5, <3>1, EntryFacts
    <3>3. rsize' = [rsize EXCEPT ![r] = Smaller(len[r] + fragLen - readed[r], SizeMem(r))]
      BY <2>7 DEF JoinMore
    <3>. QED
      BY <1>3, <2>1, <2>4, <3>2, <3>3
  <2>. QED
    BY <1>5, <2>6, <2>7
<1>6. CASE JoinFailsOpen
  <2>1. pc = "rend" /\ ReadEnded /\ WriteStarts /\ ~Act'
    BY <1>6 DEF JoinFailsOpen, NextFragment, Break, Act, Active
  <2>. QED
    BY <1>3, <2>1
<1>. QED
  BY <1>1, <1>2, <1>4, <1>5, <1>6 DEF ReadEnd

\* A fragment that is full is closed before the next write; the next one is empty.
LEMMA WriteEndRoom ==
  ASSUME IInv, RoomInv, WriteEnd
  PROVE  RoomInv'
<1>1. CASE WriteNotEnded
  BY <1>1, RoomKept DEF WriteNotEnded, Act, Active
<1>2. CASE WriteError
  <2>1. wio' # "busy" /\ ~Act' /\ UNCHANGED << entry, giga_counter, fast_num_files >>
    BY <1>2, AtWriteEnd DEF WriteError, WriteAcknowledged, Break, Act, Active, WriteEndFacts
  <2>. QED
    BY <2>1, RoomKept
<1>3. ASSUME WriteAcknowledged, UNCHANGED << entry, fast_num_files, rsize, r, i_reading >>,
             \A s \in Slot : s # w => giga_counter'[s] = giga_counter[s],
             giga_counter'[w] = 0 \/ giga_counter'[w] = giga_counter[w],
             Act' => \/ w' = w + 1
                     \/ w' = w /\ (Mode(w) = 1 => giga_counter'[w] < GigaLimit)
      PROVE  RoomInv'
  <2>1. WriteEndFacts /\ wio' # "busy" /\ w \in Slot
    BY <1>3, AtWriteEnd DEF WriteAcknowledged, WriteEndFacts
  <2>2. ASSUME NEW s \in Slot, s < fast_num_files, Mode(s)' = 1
        PROVE  giga_counter'[s] < GigaLimit + MaxFastFileSize
    BY <1>3, <2>1, <2>2, SizeFacts DEF RoomInv, FragmentBound, Mode
  <2>3. ASSUME Act', NEW s \in Used', Filling(s)'
        PROVE  giga_counter'[s] < GigaLimit
    <3>1. Mode(s) = 1 /\ s \in Used
      BY <1>3, <2>3 DEF Filling, Mode
    <3>2. CASE s = w
      BY <1>3, <2>1, <2>3, <3>1, <3>2 DEF Filling, WriteEndFacts
    <3>3. CASE s # w
      <4>1. s > w
        BY <1>3, <2>1, <2>3, <3>3 DEF Filling, WriteEndFacts, Slot
      <4>. QED
        BY <1>3, <2>1, <3>1, <3>3, <4>1 DEF RoomInv, Filling, WriteEndFacts, Slot
    <3>. QED
      BY <3>2, <3>3
  <2>4. Act' /\ i_reading' = 1 => rsize'[r'] <= MaxFastFileSize
    BY <1>3, <2>1 DEF RoomInv, WriteEndFacts
  <2>. QED
    BY <1>3, <2>1, <2>2, <2>3, <2>4 DEF RoomInv, FragmentBound
<1>4. CASE FileDone
  BY <1>3, <1>4 DEF FileDone, WriteAcknowledged
<1>5. CASE SplitNext \/ SplitFails
  <2>1. WriteEndFacts
    BY <1>5, AtWriteEnd DEF SplitNext, SplitFails, WriteAcknowledged
  <2>2. /\ WriteAcknowledged /\ UNCHANGED << entry, fast_num_files, rsize, r, i_reading, w >>
        /\ giga_counter' = [giga_counter EXCEPT ![w] = 0]
    BY <1>5 DEF SplitNext, SplitFails, WriteAcknowledged, Rolled
  <2>3. giga_counter'[w] = 0 /\ \A s \in Slot : s # w => giga_counter'[s] = giga_counter[s]
    BY <2>1, <2>2 DEF IInv, TypeOK, SlotsOK, WriteEndFacts
  <2>4. 0 < GigaLimit
    BY SizeAssumption DEF SizeAssumption
  <2>. QED
    BY <1>3, <2>2, <2>3, <2>4
<1>6. CASE WriteMore
  <2>1. /\ WriteAcknowledged /\ w \in Slot /\ giga_counter \in [Slot -> Int]
        /\ UNCHANGED << entry, fast_num_files, rsize, r, i_reading, w, giga_counter >>
        /\ Mode(w) = 1 => ~(giga_counter[w] >= GigaLimit)
    BY <1>6, AtWriteEnd DEF WriteMore, SplitNow, WriteAcknowledged, WriteEndFacts, IInv, TypeOK,
                            SlotsOK
  <2>2. Mode(w) = 1 => giga_counter[w] < GigaLimit
    BY <2>1, SizeFacts
  <2>. QED
    BY <1>3, <2>1, <2>2
<1>. QED
  BY <1>1, <1>2, <1>4, <1>5, <1>6 DEF WriteEnd

\* Nothing is written after the loop but the write in flight.
LEMMA LeavingRoom ==
  ASSUME IInv, RoomInv, PadContinue \/ PadAbort \/ Leaving
  PROVE  RoomInv'
<1>1. CASE PadContinue \/ PadAbort
  BY <1>1, RoomKept DEF PadContinue, PadAbort, Break, Act, Active
<1>2. CASE Free
  <2>1. ~Act' /\ fast_num_files' = 0 /\ UNCHANGED << entry, giga_counter >>
    BY <1>2 DEF Free, Active, Act
  <2>2. FragmentBound'
    BY <2>1 DEF FragmentBound, Slot
  <2>. QED
    BY <2>1, <2>2 DEF RoomInv
<1>3. CASE CancelWrite \/ SleepWrite \/ CancelRead \/ SleepRead
  <2>1. /\ ~Act' /\ UNCHANGED << entry, giga_counter, fast_num_files, w, wslot, wsize >>
        /\ wio' = "busy" => wio = "busy"
    BY <1>3 DEF CancelWrite, SleepWrite, CancelRead, SleepRead, Act, Active
  <2>. QED
    BY <2>1, RoomKept
<1>. QED
  BY <1>1, <1>2, <1>3 DEF Leaving

\* The write that fills a fragment exceeds the limit by less than a buffer.
LEMMA IORoom ==
  ASSUME IInv, RoomInv, ReadIO \/ WriteIO
  PROVE  RoomInv'
<1>1. CASE ReadIO \/ WriteFailed
  BY <1>1, RoomKept DEF ReadIO, ReadDone, ReadDoneLate, ReadSignal, ReadFailed, WriteFailed, Act
<1>2. CASE WriteDone /\ fast_num_files > 0
  <2>1. wslot = w /\ w \in Slot /\ wio = "busy" /\ (Act => fast_writing = 1)
    BY <1>2 DEF WriteDone, RoomInv, IInv, IOInv, WriteOwned, TypeOK, ControlOK, Act
  <2>2. /\ giga_counter' = [giga_counter EXCEPT ![w] = @ + wsize[w]] /\ wio' = "post"
        /\ UNCHANGED << pc, abort_copy, entry, fast_num_files, r, w, i_reading, rsize, fast_writing >>
    BY <1>2, <2>1 DEF WriteDone
  <2>3. /\ giga_counter'[w] = giga_counter[w] + wsize[w]
        /\ giga_counter[w] \in Int /\ wsize[w] \in Int
        /\ \A s \in Slot : s # w => giga_counter'[s] = giga_counter[s]
    BY <2>1, <2>2 DEF IInv, TypeOK, SlotsOK
  <2>4. Mode(w) = 1 => giga_counter'[w] < GigaLimit + MaxFastFileSize
    BY <1>2, <2>1, <2>3, SizeFacts DEF RoomInv
  <2>5. FragmentBound'
    BY <2>2, <2>3, <2>4 DEF RoomInv, FragmentBound, Mode
  <2>6. ASSUME Act', NEW s \in Used', Filling(s)'
        PROVE  giga_counter'[s] < GigaLimit
    <3>1. Act /\ s \in Used /\ s # w /\ Filling(s)
      BY <2>1, <2>2, <2>6 DEF Act, Filling, Mode
    <3>. QED
      BY <2>3, <3>1 DEF RoomInv
  <2>. QED
    BY <2>2, <2>5, <2>6 DEF RoomInv, Act
<1>4. CASE WriteDone /\ ~(fast_num_files > 0)
  <2>1. /\ ~Act' /\ wio' = "post" /\ fast_num_files' = fast_num_files /\ fast_num_files \in Nat
    BY <1>4 DEF WriteDone, IInv, IOInv, WriteOwned, TypeOK, ControlOK, Act, Slot
  <2>. QED
    BY <1>4, <2>1 DEF RoomInv, FragmentBound, Slot
<1>3. CASE WriteSignal
  <2>1. /\ wio' = "none" /\ fast_writing' = 2 /\ (Act => fast_writing = 1)
        /\ UNCHANGED << pc, abort_copy, entry, fast_num_files, r, w, i_reading, rsize, giga_counter >>
    BY <1>3 DEF WriteSignal, IInv, IOInv, WriteOwned, Act
  <2>. QED
    BY <2>1 DEF RoomInv, FragmentBound, Filling, Mode, Act
<1>. QED
  BY <1>1, <1>2, <1>3, <1>4 DEF WriteIO

LEMMA RoomStep == IInv /\ RoomInv /\ [Next]_vars => RoomInv'
<1>. SUFFICES ASSUME IInv, RoomInv, [Next]_vars
              PROVE  RoomInv'
  OBVIOUS
<1>1. CASE UNCHANGED vars
  BY <1>1, RoomKept DEF vars, Act
<1>. QED
  BY <1>1, CallerRoom, OpeningRoom, ReadEndRoom, WriteEndRoom, LeavingRoom, IORoom
     DEF Next, Main

-----------------------------------------------------------------------------
\* The handles that are open when f and g are the descriptors of the slots.
Handle(f, g) == { s \in Slot : f[s] # Closed } \X {"r"} \cup { s \in Slot : g[s] # Closed } \X {"w"}

LEMMA HandlesFinite ==
  ASSUME NEW f, NEW g
  PROVE  IsFiniteSet(Handle(f, g)) /\ Cardinality(Handle(f, g)) \in Nat
<1>1. IsFiniteSet(Slot)
  BY SizeFacts, FS_Interval DEF Slot
<1>2. IsFiniteSet({"r"} \cup {"w"})
  BY FS_Singleton, FS_Union
<1>3. IsFiniteSet(Slot \X ({"r"} \cup {"w"}))
  BY <1>1, <1>2, FS_Product
<1>4. Handle(f, g) \in SUBSET (Slot \X ({"r"} \cup {"w"}))
  BY DEF Handle
<1>. QED
  BY <1>3, <1>4, FS_Subset, FS_CardinalityType

\* Both files of a slot are opened.
LEMMA BothOpened ==
  ASSUME NEW f \in [Slot -> Int], NEW g \in [Slot -> Int], NEW s \in Slot,
         f[s] = Closed, g[s] = Closed
  PROVE  Cardinality(Handle([f EXCEPT ![s] = 0], [g EXCEPT ![s] = 0]))
           = Cardinality(Handle(f, g)) + 2
<1>. DEFINE H == Handle(f, g)
            H2 == Handle([f EXCEPT ![s] = 0], [g EXCEPT ![s] = 0])
<1>1. H2 = (H \cup {<< s, "r" >>}) \cup {<< s, "w" >>}
  BY DEF Handle
<1>2. << s, "r" >> \notin H /\ << s, "w" >> \notin H \cup {<< s, "r" >>}
  BY DEF Handle
<1>3. IsFiniteSet(H) /\ Cardinality(H) \in Nat
  BY HandlesFinite
<1>. HIDE DEF H, H2
<1>4. /\ IsFiniteSet(H \cup {<< s, "r" >>})
      /\ Cardinality(H \cup {<< s, "r" >>}) = Cardinality(H) + 1
  BY <1>2, <1>3, FS_AddElement
<1>5. Cardinality(H2) = Cardinality(H \cup {<< s, "r" >>}) + 1
  BY <1>1, <1>2, <1>4, FS_AddElement
<1>. QED
  BY <1>3, <1>4, <1>5 DEF H, H2

\* The file a slot reads is closed.
LEMMA ReaderClosed ==
  ASSUME NEW f \in [Slot -> Int], NEW g, NEW s \in Slot
  PROVE  Cardinality(Handle([f EXCEPT ![s] = Closed], g))
           = Cardinality(Handle(f, g)) - (IF f[s] # Closed THEN 1 ELSE 0)
<1>. DEFINE H == Handle(f, g)
            H2 == Handle([f EXCEPT ![s] = Closed], g)
<1>1. H2 = H \ {<< s, "r" >>}
  BY DEF Handle
<1>2. << s, "r" >> \in H <=> f[s] # Closed
  BY DEF Handle
<1>3. IsFiniteSet(H) /\ Cardinality(H) \in Nat
  BY HandlesFinite
<1>. HIDE DEF H, H2
<1>4. Cardinality(H2) = IF << s, "r" >> \in H THEN Cardinality(H) - 1 ELSE Cardinality(H)
  BY <1>1, <1>3, FS_RemoveElement
<1>. QED
  BY <1>2, <1>3, <1>4 DEF H, H2

\* The file a slot writes is closed.
LEMMA WriterClosed ==
  ASSUME NEW f, NEW g \in [Slot -> Int], NEW s \in Slot
  PROVE  Cardinality(Handle(f, [g EXCEPT ![s] = Closed]))
           = Cardinality(Handle(f, g)) - (IF g[s] # Closed THEN 1 ELSE 0)
<1>. DEFINE H == Handle(f, g)
            H2 == Handle(f, [g EXCEPT ![s] = Closed])
<1>1. H2 = H \ {<< s, "w" >>}
  BY DEF Handle
<1>2. << s, "w" >> \in H <=> g[s] # Closed
  BY DEF Handle
<1>3. IsFiniteSet(H) /\ Cardinality(H) \in Nat
  BY HandlesFinite
<1>. HIDE DEF H, H2
<1>4. Cardinality(H2) = IF << s, "w" >> \in H THEN Cardinality(H) - 1 ELSE Cardinality(H)
  BY <1>1, <1>3, FS_RemoveElement
<1>. QED
  BY <1>2, <1>3, <1>4 DEF H, H2

\* The handles of the engine, in the slots in use and in all of them.
LEMMA HandlesAre ==
  /\ Handles(MaxFastFiles) = Handle(rfd, wfd)
  /\ Handles(MaxFastFiles)' = Handle(rfd', wfd')
BY SizeFacts DEF Handles, Handle, Slot

LEMMA HandlesUsed ==
  ASSUME HandleInv, TypeOK
  PROVE  Handles(fast_num_files) = Handle(rfd, wfd)
<1>1. \A s \in Slot : ~(s < fast_num_files) => rfd[s] = Closed /\ wfd[s] = Closed
  BY DEF HandleInv, Shut, TypeOK, ControlOK, Slot
<1>. QED
  BY <1>1 DEF Handles, Handle

\* Steps that open and close nothing, stay on their side of the loop, and drop no error.
LEMMA HandleKept ==
  ASSUME HandleInv,
         UNCHANGED << rfd, wfd, files_opened, leaked >>,
         fast_num_files' >= fast_num_files \/ (pc \in Caller /\ pc' = "over"),
         fast_num_files \in Nat, fast_num_files' \in Nat,
         pc = "over" => pc' = "over",
         pc' \in Caller => pc \in Caller,
         Act' => \/ pc \in Caller
                 \/ Act /\ r' = r /\ i_reading' = i_reading
                 \/ Act /\ r \in Slot /\ r' = r + 1,
         abort_copy => abort_copy',
         pc \in Leave /\ error # 0 => abort_copy' \/ (pc' \in Leave /\ error' # 0)
  PROVE  HandleInv'
<1>1. pc' # "over" => files_opened' = Cardinality(Handles(MaxFastFiles))' + leaked'
  <2>1. Handles(MaxFastFiles)' = Handles(MaxFastFiles)
    BY HandlesAre
  <2>. QED
    BY <2>1 DEF HandleInv
<1>2. \A s \in Slot : Shut(s)' <=> Shut(s)
  BY DEF Shut
<1>3. \A s \in Slot : s >= fast_num_files' => Shut(s)'
  BY <1>2 DEF HandleInv, Slot
<1>4. pc' \in Caller => \A s \in Slot : Shut(s)'
  BY <1>2 DEF HandleInv
<1>5. Act' => \A s \in Slot : s > r' \/ (s = r' /\ i_reading' = 0) => Shut(s)'
  BY <1>2 DEF HandleInv, Slot
<1>6. leaked' # 0 => abort_copy' \/ (pc' \in Leave /\ error' # 0)
  BY DEF HandleInv
<1>. QED
  BY <1>1, <1>3, <1>4, <1>5, <1>6 DEF HandleInv

\* The caller has no handle, and an entry it queues has none.
LEMMA CallerHandles ==
  ASSUME IInv, HandleInv, Adding \/ AsyncOpen \/ AsyncOpenFails \/ AsyncClose \/ ProcessCall
  PROVE  HandleInv'
<1>1. pc \in Caller /\ pc # "over" /\ pc \notin Leave
  BY DEF Adding, AddCall, AddIgnored, AddFails, AddEmpty, AddQueued, AsyncOpen,
         AsyncOpenFails, AsyncClose, ProcessCall, Caller, Leave
<1>2. \A s \in Slot : Shut(s)
  BY <1>1 DEF HandleInv
<1>3. CASE AsyncClose
  <2>1. \A s \in Slot : Shut(s)'
    BY <1>2, <1>3 DEF AsyncClose, Shut
  <2>2. leaked' # 0 => abort_copy'
    BY <1>1, <1>3 DEF AsyncClose, HandleInv
  <2>3. pc' = "over" /\ ~Act'
    BY <1>3 DEF AsyncClose, Act, Active
  <2>. QED
    BY <2>1, <2>2, <2>3 DEF HandleInv
<1>4. CASE AddQueued
  <2>1. fast_num_files \in Slot /\ fast_num_files' = fast_num_files + 1
    BY <1>4, SizeFacts DEF AddQueued, IInv, TypeOK, ControlOK, QueueInv, Slot
  <2>2. UNCHANGED << rfd, wfd >>
    <3>1. /\ rfd' = [rfd EXCEPT ![fast_num_files] = Closed]
          /\ wfd' = [wfd EXCEPT ![fast_num_files] = Closed]
          /\ rfd \in [Slot -> Int] /\ wfd \in [Slot -> Int]
          /\ rfd[fast_num_files] = Closed /\ wfd[fast_num_files] = Closed
      BY <1>2, <1>4, <2>1 DEF AddQueued, Shut, IInv, TypeOK, SlotsOK
    <3>. QED
      BY <3>1
  <2>3. UNCHANGED << files_opened, leaked, abort_copy >> /\ pc' = "idle"
    BY <1>4 DEF AddQueued, AddReturn
  <2>. QED
    BY <1>1, <2>1, <2>2, <2>3, HandleKept DEF Slot
<1>5. CASE \/ AsyncOpen \/ AsyncOpenFails \/ ProcessCall
           \/ AddIgnored \/ AddFails \/ AddEmpty \/ \E e \in Entry : AddCall(e)
  <2>1. UNCHANGED << rfd, wfd, files_opened, leaked, fast_num_files >> /\ (abort_copy => abort_copy')
    BY <1>5 DEF AddCall, AddIgnored, AddFails, AddEmpty, AddReturn, AsyncOpen,
                AsyncOpenFails, ProcessCall
  <2>2. fast_num_files \in Nat
    BY DEF IInv, TypeOK, ControlOK
  <2>. QED
    BY <1>1, <2>1, <2>2, HandleKept
<1>. QED
  BY <1>3, <1>4, <1>5 DEF Adding

\* Opening the files of a slot: two handles, or one that is forgotten, and then the copy fails.
LEMMA OpeningHandles ==
  ASSUME IInv, HandleInv, Opening
  PROVE  HandleInv'
<1>1. fast_num_files \in Nat /\ pc = "loop" /\ pc \notin Leave /\ pc # "over" /\ fast_num_files' = fast_num_files
      /\ (pc' \in {"rend", "cancelw"}) /\ pc' \notin Caller /\ pc' # "over"
  BY DEF IInv, TypeOK, ControlOK, Opening, LoopEnd, LoopNothingToOpen, OpenFailsRead,
         OpenFailsWrite, OpenReads, OpenFailsAio, OpenFiles, Break, Leave, Caller
<1>2. CASE LoopEnd \/ LoopNothingToOpen \/ OpenFailsRead
  <2>1. UNCHANGED << rfd, wfd, files_opened, leaked, abort_copy >>
        /\ (Act' => Act /\ r' = r /\ i_reading' = i_reading)
    BY <1>2 DEF LoopEnd, LoopNothingToOpen, OpenFailsRead, ResetSlot, Break, Act, Active
  <2>. QED
    BY <1>1, <2>1, HandleKept
<1>3. CASE OpenFailsWrite
  <2>1. /\ UNCHANGED << rfd, wfd >> /\ files_opened' = files_opened + 1 /\ leaked' = leaked + 1
        /\ pc' = "cancelw" /\ error' = -2 /\ ~Act'
    BY <1>3 DEF OpenFailsWrite, Break, Act, Active
  <2>2. Handles(MaxFastFiles)' = Handles(MaxFastFiles)
        /\ Cardinality(Handles(MaxFastFiles)) \in Nat
    BY <2>1, HandlesAre, HandlesFinite
  <2>3. leaked \in Nat /\ pc' \in Leave
    BY <2>1 DEF IInv, TypeOK, ControlOK, Leave
  <2>4. files_opened' = Cardinality(Handles(MaxFastFiles))' + leaked'
    BY <1>1, <2>1, <2>2, <2>3 DEF HandleInv
  <2>5. \A s \in Slot : s >= fast_num_files => Shut(s)'
    BY <2>1 DEF HandleInv, Shut
  <2>. QED
    BY <1>1, <2>1, <2>3, <2>4, <2>5 DEF HandleInv
<1>4. CASE OpenReads \/ OpenFailsAio
  <2>1. OpenFacts
    BY <1>4, AtOpen DEF OpenReads, OpenFailsAio, OpenFiles
  <2>2. /\ rfd' = [rfd EXCEPT ![r] = 0] /\ wfd' = [wfd EXCEPT ![r] = 0]
        /\ files_opened' = files_opened + 2 /\ UNCHANGED << leaked, abort_copy, r >>
        /\ Act' => i_reading' = 1
    BY <1>4 DEF OpenReads, OpenFailsAio, OpenFiles, Break, Act, Active
  <2>3. /\ rfd \in [Slot -> Int] /\ wfd \in [Slot -> Int] /\ leaked \in Nat
        /\ rfd[r] = Closed /\ wfd[r] = Closed
        /\ \A s \in Slot : s > r => Shut(s)
    BY <2>1 DEF IInv, TypeOK, SlotsOK, ControlOK, HandleInv, OpenFacts, Shut
  <2>4. /\ Cardinality(Handles(MaxFastFiles))' = Cardinality(Handles(MaxFastFiles)) + 2
        /\ Cardinality(Handles(MaxFastFiles)) \in Nat
    <3>1. Cardinality(Handle([rfd EXCEPT ![r] = 0], [wfd EXCEPT ![r] = 0]))
            = Cardinality(Handle(rfd, wfd)) + 2
      BY <2>1, <2>3, BothOpened DEF OpenFacts
    <3>. QED
      BY <2>2, <3>1, HandlesAre, HandlesFinite
  <2>5. files_opened' = Cardinality(Handles(MaxFastFiles))' + leaked'
    BY <1>1, <2>2, <2>3, <2>4 DEF HandleInv
  <2>6. \A s \in Slot : s # r => (Shut(s)' <=> Shut(s))
    BY <2>2, <2>3 DEF Shut
  <2>7. \A s \in Slot : s >= fast_num_files => Shut(s)'
    <3>1. r < fast_num_files /\ r \in Int
      BY <2>1 DEF OpenFacts
    <3>2. \A s \in Slot : s >= fast_num_files => Shut(s) /\ s # r
      BY <1>1, <3>1 DEF HandleInv, Slot
    <3>. QED
      BY <2>6, <3>2
  <2>8. Act' => \A s \in Slot : s > r' \/ (s = r' /\ i_reading' = 0) => Shut(s)'
    BY <2>1, <2>2, <2>3, <2>6 DEF OpenFacts, Slot
  <2>9. leaked' # 0 => abort_copy'
    BY <1>1, <2>2 DEF HandleInv
  <2>. QED
    BY <1>1, <2>5, <2>7, <2>8, <2>9 DEF HandleInv
<1>. QED
  BY <1>2, <1>3, <1>4 DEF Opening

\* A fragment that is joined is closed, and the next one is open, unless that fails.
LEMMA ReadEndHandles ==
  ASSUME IInv, HandleInv, ReadEnd
  PROVE  HandleInv'
<1>1. /\ fast_num_files \in Nat /\ fast_num_files' = fast_num_files
      /\ pc \notin Leave /\ pc # "over" /\ pc' \notin Caller /\ pc' # "over"
      /\ UNCHANGED << leaked, abort_copy >>
  BY DEF IInv, TypeOK, ControlOK, ReadEnd, ReadNotEnded, WriteFails, SingleBuffer, DoubleLast, DoubleJoined,
         NextFile, DoubleMore, JoinFailsOpen, JoinMore, NextFragment, JoinSetsFl, WriteStarts,
         ToWrite, Break, Leave, Caller
<1>2. CASE ReadNotEnded \/ JoinSetsFl
  BY <1>1, <1>2, HandleKept DEF ReadNotEnded, JoinSetsFl, Act, Active
<1>3. CASE WriteFails \/ SingleBuffer \/ DoubleLast \/ DoubleJoined \/ DoubleMore
  <2>1. ReadEndFacts
    BY <1>3, AtReadEnd DEF WriteFails, SingleBuffer, DoubleLast, DoubleJoined, DoubleMore
  <2>2. /\ UNCHANGED << rfd, wfd, files_opened >>
        /\ Act' => (r' = r /\ i_reading' = i_reading) \/ r' = r + 1
    BY <1>3 DEF WriteFails, SingleBuffer, DoubleLast, DoubleJoined, NextFile, DoubleMore,
                WriteStarts, ToWrite, Break, Act, Active
  <2>. QED
    BY <1>1, <2>1, <2>2, HandleKept DEF ReadEndFacts
<1>4. ASSUME NextFragment, NEW fd \in Int, rfd' = [rfd EXCEPT ![r] = fd],
             files_opened' = files_opened - (IF fd = Closed THEN 1 ELSE 0)
      PROVE  HandleInv'
  <2>1. /\ ReadEndFacts /\ UNCHANGED << wfd, r, i_reading >>
    BY <1>4, AtReadEnd DEF NextFragment, WriteStarts, ToWrite
  <2>2. /\ Act /\ r \in Slot /\ r < fast_num_files /\ i_reading = 1 /\ rfd[r] # Closed
        /\ rfd \in [Slot -> Int] /\ wfd \in [Slot -> Int]
    BY <2>1 DEF ReadEndFacts, IInv, TypeOK, SlotsOK
  <2>3. Cardinality(Handle(rfd', wfd')) = Cardinality(Handle(rfd, wfd)) - (IF fd = Closed THEN 1 ELSE 0)
    <3>1. CASE fd = Closed
      BY <1>4, <2>1, <2>2, <3>1, ReaderClosed
    <3>2. CASE fd # Closed
      <4>1. Handle(rfd', wfd') = Handle(rfd, wfd)
        <5>1. \A s \in Slot : rfd'[s] = Closed <=> rfd[s] = Closed
          BY <1>4, <2>2, <3>2
        <5>. QED
          BY <2>1, <5>1 DEF Handle
      <4>. QED
        BY <3>2, <4>1, HandlesFinite
    <3>. QED
      BY <3>1, <3>2
  <2>4. files_opened' = Cardinality(Handles(MaxFastFiles))' + leaked'
    <3>1. leaked \in Nat
      BY DEF IInv, TypeOK, ControlOK
    <3>2. files_opened = Cardinality(Handle(rfd, wfd)) + leaked /\ Cardinality(Handle(rfd, wfd)) \in Nat
      BY <1>1, HandlesAre, HandlesFinite DEF HandleInv
    <3>. QED
      BY <1>1, <1>4, <2>3, <3>1, <3>2, HandlesAre
  <2>5. \A s \in Slot : s # r => (Shut(s)' <=> Shut(s))
    BY <1>4, <2>1, <2>2 DEF Shut
  <2>6. \A s \in Slot : s >= fast_num_files \/ s > r => Shut(s) /\ s # r
    BY <1>1, <2>2 DEF HandleInv, Slot
  <2>7. leaked' # 0 => abort_copy'
    BY <1>1 DEF HandleInv
  <2>8. \A s \in Slot : s >= fast_num_files' => Shut(s)'
    BY <1>1, <2>5, <2>6
  <2>9. Act' => \A s \in Slot : s > r' \/ (s = r' /\ i_reading' = 0) => Shut(s)'
    BY <2>1, <2>2, <2>5, <2>6
  <2>. QED
    BY <1>1, <2>4, <2>7, <2>8, <2>9 DEF HandleInv
<1>5. CASE JoinFailsOpen
  <2>. DEFINE fd == -1
  <2>1. NextFragment /\ fd \in Int /\ rfd' = [rfd EXCEPT ![r] = fd]
        /\ files_opened' = files_opened - (IF fd = Closed THEN 1 ELSE 0)
    BY <1>5 DEF JoinFailsOpen
  <2>. HIDE DEF fd
  <2>. QED
    BY <1>4, <2>1
<1>6. CASE JoinMore
  <2>1. ReadEndFacts /\ NextFragment
    BY <1>6, AtReadEnd DEF JoinMore, NextFragment
  <2>2. number_frag[r] + 1 \in Nat /\ number_frag[r] + 1 # Closed
    BY <2>1, EntryFacts DEF NextFragment, ReadEndFacts
  <2>3. rfd' = [rfd EXCEPT ![r] = number_frag[r] + 1] /\ UNCHANGED files_opened
    BY <1>6 DEF JoinMore
  <2>4. files_opened \in Int
    BY DEF IInv, TypeOK, ControlOK
  <2>. DEFINE fd == number_frag[r] + 1
  <2>5. fd \in Int /\ rfd' = [rfd EXCEPT ![r] = fd]
        /\ files_opened' = files_opened - (IF fd = Closed THEN 1 ELSE 0)
    BY <2>2, <2>3, <2>4
  <2>. HIDE DEF fd
  <2>. QED
    BY <1>4, <2>1, <2>5
<1>. QED
  BY <1>2, <1>3, <1>5, <1>6 DEF ReadEnd

\* A finished file has no handles; a fragment that cannot follow the full one leaves one.
LEMMA WriteEndHandles ==
  ASSUME IInv, HandleInv, WriteEnd
  PROVE  HandleInv'
<1>1. /\ fast_num_files \in Nat /\ fast_num_files' = fast_num_files
      /\ pc \notin Leave /\ pc # "over" /\ pc' \notin Caller /\ pc' # "over"
      /\ UNCHANGED << leaked, abort_copy, r, i_reading >>
      /\ Act' => Act
  BY DEF IInv, TypeOK, ControlOK, WriteEnd, WriteNotEnded, WriteError, FileDone, SplitNext, SplitFails,
         WriteMore, WriteAcknowledged, Rolled, Break, Leave, Caller, Act, Active
<1>2. CASE WriteNotEnded \/ WriteError \/ SplitNext \/ WriteMore
  BY <1>1, <1>2, HandleKept DEF WriteNotEnded, WriteError, SplitNext, WriteMore, Rolled
<1>3. ASSUME \A s \in Slot : Shut(s) => Shut(s)',
             files_opened' - files_opened =
               Cardinality(Handle(rfd', wfd')) - Cardinality(Handle(rfd, wfd)),
             files_opened' \in Int
      PROVE  HandleInv'
  <2>1. files_opened' = Cardinality(Handles(MaxFastFiles))' + leaked'
    <3>1. leaked \in Nat
      BY DEF IInv, TypeOK, ControlOK
    <3>2. files_opened = Cardinality(Handle(rfd, wfd)) + leaked /\ Cardinality(Handle(rfd, wfd)) \in Nat
          /\ Cardinality(Handle(rfd', wfd')) \in Nat
      BY <1>1, HandlesAre, HandlesFinite DEF HandleInv
    <3>. QED
      BY <1>1, <1>3, <3>1, <3>2, HandlesAre
  <2>2. leaked' # 0 => abort_copy'
    BY <1>1 DEF HandleInv
  <2>. QED
    BY <1>1, <1>3, <2>1, <2>2 DEF HandleInv
<1>4. CASE FileDone \/ SplitFails
  <2>1. WriteEndFacts
    BY <1>4, AtWriteEnd DEF FileDone, SplitFails, WriteAcknowledged
  <2>2. /\ w \in Slot /\ wfd[w] # Closed /\ rfd \in [Slot -> Int] /\ wfd \in [Slot -> Int]
        /\ files_opened \in Int
    BY <2>1 DEF WriteEndFacts, IInv, TypeOK, SlotsOK, ControlOK
  <2>3. /\ wfd' = [wfd EXCEPT ![w] = Closed]
        /\ rfd' = IF FileDone THEN [rfd EXCEPT ![w] = Closed] ELSE rfd
        /\ files_opened' = IF FileDone THEN files_opened - OpenHandles ELSE files_opened - 1
    BY <1>4 DEF FileDone, SplitFails, SplitNow, Rolled
  <2>4. \A s \in Slot : Shut(s) => Shut(s)'
    BY <2>2, <2>3 DEF Shut
  <2>5. /\ Cardinality(Handle(rfd, wfd)) \in Nat /\ Cardinality(Handle(rfd', wfd)) \in Nat
        /\ Cardinality(Handle(rfd', wfd')) = Cardinality(Handle(rfd', wfd)) - 1
    BY <2>2, <2>3, WriterClosed, HandlesFinite
  <2>6. CASE FileDone
    <3>1. Cardinality(Handle(rfd', wfd))
            = Cardinality(Handle(rfd, wfd)) - (IF rfd[w] # Closed THEN 1 ELSE 0)
      BY <2>2, <2>3, <2>6, ReaderClosed
    <3>2. OpenHandles = (IF rfd[w] # Closed THEN 1 ELSE 0) + 1
      BY <2>2 DEF OpenHandles
    <3>. QED
      BY <1>3, <2>2, <2>3, <2>4, <2>5, <2>6, <3>1, <3>2
  <2>7. CASE ~FileDone
    <3>1. rfd' = rfd /\ files_opened' = files_opened - 1
      BY <2>3, <2>7
    <3>. QED
      BY <1>3, <2>2, <2>4, <2>5, <3>1
  <2>. QED
    BY <2>6, <2>7
<1>. QED
  BY <1>2, <1>4 DEF WriteEnd

\* The final loop closes what is still open in the slots in use.
LEMMA LeavingHandles ==
  ASSUME IInv, HandleInv, PadContinue \/ PadAbort \/ Leaving
  PROVE  HandleInv'
<1>1. fast_num_files \in Nat
  BY DEF IInv, TypeOK, ControlOK
<1>2. CASE PadContinue
  BY <1>1, <1>2, HandleKept DEF PadContinue, Act, Active, Caller, Leave
<1>3. CASE PadAbort
  BY <1>1, <1>3, HandleKept DEF PadAbort, Break, Act, Active, Caller, Leave
<1>4. CASE CancelWrite \/ SleepWrite \/ CancelRead \/ SleepRead
  <2>1. /\ UNCHANGED << rfd, wfd, files_opened, leaked, fast_num_files, abort_copy, error >>
        /\ pc # "over" /\ pc' \in Leave /\ pc' \notin Caller /\ ~Act'
    BY <1>4 DEF CancelWrite, SleepWrite, CancelRead, SleepRead, Leave, Caller, Act, Active
  <2>. QED
    BY <1>1, <2>1, HandleKept
<1>5. CASE Free
  <2>1. /\ rfd' = [s \in Slot |-> IF s < fast_num_files THEN Closed ELSE rfd[s]]
        /\ wfd' = [s \in Slot |-> IF s < fast_num_files THEN Closed ELSE wfd[s]]
        /\ files_opened' = files_opened - Cardinality(Handles(fast_num_files))
        /\ fast_num_files' = 0 /\ UNCHANGED leaked /\ pc = "free" /\ ~Act'
    BY <1>5 DEF Free, Act, Active
  <2>2. abort_copy' = (abort_copy \/ error # 0)
    BY <1>5 DEF Free
  <2>3. \A s \in Slot : Shut(s)'
    <3>1. \A s \in Slot : ~(s < fast_num_files) => Shut(s)
      BY <1>1 DEF HandleInv, Slot
    <3>. QED
      BY <2>1, <3>1 DEF Shut
  <2>4. Handles(MaxFastFiles)' = {}
    BY <2>3, HandlesAre DEF Handle, Shut
  <2>5. files_opened' = Cardinality(Handles(MaxFastFiles))' + leaked'
    <3>1. leaked \in Nat
      BY DEF IInv, TypeOK, ControlOK
    <3>2. files_opened = Cardinality(Handle(rfd, wfd)) + leaked /\ Cardinality(Handle(rfd, wfd)) \in Nat
      BY <2>1, HandlesAre, HandlesFinite DEF HandleInv
    <3>3. files_opened' = files_opened - Cardinality(Handle(rfd, wfd))
      BY <2>1, HandlesUsed DEF IInv
    <3>. QED
      BY <2>1, <2>4, <3>1, <3>2, <3>3, FS_EmptySet
  <2>6. leaked' # 0 => abort_copy'
    BY <2>1, <2>2 DEF HandleInv
  <2>. QED
    BY <2>1, <2>3, <2>5, <2>6 DEF HandleInv
<1>. QED
  BY <1>2, <1>3, <1>4, <1>5 DEF Leaving

LEMMA HandleStep == IInv /\ HandleInv /\ [Next]_vars => HandleInv'
<1>. SUFFICES ASSUME IInv, HandleInv, [Next]_vars
              PROVE  HandleInv'
  OBVIOUS
<1>1. fast_num_files \in Nat
  BY DEF IInv, TypeOK, ControlOK
<1>2. CASE UNCHANGED vars
  BY <1>1, <1>2, HandleKept DEF vars, Act
<1>3. CASE ReadIO \/ WriteIO
  BY <1>1, <1>3, HandleKept DEF ReadIO, WriteIO, ReadDone, ReadDoneLate, ReadSignal, ReadFailed,
     WriteDone, WriteFailed, WriteSignal, Act
<1>. QED
  BY <1>2, <1>3, CallerHandles, OpeningHandles, ReadEndHandles, WriteEndHandles, LeavingHandles
     DEF Next, Main

-----------------------------------------------------------------------------
\* No fragment of a split file outgrows GigaLimit by a whole buffer, and files_opened is the
\* number of handles that are open or forgotten, none after a copy that succeeds, whatever the
\* order of errors, cancellations and completions (fast_copy_process).
THEOREM FragmentsAlwaysSound == Spec => []FragmentsSound
<1>1. Init => RoomInv /\ HandleInv
  <2>. SUFFICES ASSUME Init
                PROVE  RoomInv /\ HandleInv
    OBVIOUS
  <2>1. /\ fast_num_files = 0 /\ wio = "none" /\ ~Act /\ leaked = 0 /\ files_opened = 0
        /\ \A s \in Slot : Shut(s)
    BY DEF Init, Act, Active, Shut, Everywhere
  <2>2. RoomInv
    BY <2>1 DEF RoomInv, FragmentBound, Slot
  <2>3. Handles(MaxFastFiles) = {}
    BY <2>1, HandlesAre DEF Handle, Shut
  <2>4. HandleInv
    BY <2>1, <2>3, FS_EmptySet DEF HandleInv
  <2>. QED
    BY <2>2, <2>4
<1>2. IInv /\ RoomInv /\ HandleInv => FragmentsSound
  <2>. SUFFICES ASSUME IInv, RoomInv, HandleInv
                PROVE  FragmentsSound
    OBVIOUS
  <2>1. ASSUME pc = "drained", ~abort_copy
        PROVE  files_opened = 0
    <3>1. leaked = 0 /\ \A s \in Slot : Shut(s)
      BY <2>1 DEF HandleInv, Caller, Leave
    <3>2. Handles(MaxFastFiles) = {}
      BY <3>1, HandlesAre DEF Handle, Shut
    <3>. QED
      BY <2>1, <3>1, <3>2, FS_EmptySet DEF HandleInv
  <2>. QED
    BY <2>1 DEF FragmentsSound, RoomInv, FilesOpenedExact, HandleInv
<1>. QED
  BY <1>1, <1>2, InitInv, NextInv, RoomStep, HandleStep, PTL DEF Spec

=============================================================================
