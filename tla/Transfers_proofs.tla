-------------------------- MODULE Transfers_proofs ---------------------------
(***************************************************************************)
(* Proofs about the ways a file gets from one place to another             *)
(* (MCTransfers): the copying of single files (FileCopy), for every set of *)
(* files, every size and every buffer; the downloads (Downloads), for any  *)
(* covers, slots, packages and lengths; and the copies from and to a host  *)
(* of the network (NetCopy), for any index, tree, sizes and bound of the   *)
(* list.  TLC shows what an unreadable file does to a move.                *)
(***************************************************************************)
EXTENDS MCTransfers, FiniteSetTheorems, SequenceTheorems, TLAPS

-----------------------------------------------------------------------------
(***************************************************************************)
(* The copying of single files (FileCopy): type correctness; and, when     *)
(* every source opens, that a move loses nothing, that no partial copy is  *)
(* left, and which copy is taken for a failure though nobody disturbed it. *)
(***************************************************************************)
\* file_copy has a file in hand.
InFileCopy == pc \in {"loop", "pad", "close"}

\* What file_copy knows of the file in hand while it copies, and what the destination holds of it.
CopyInv ==
  /\ dst \in [File -> Int]
  /\ InFileCopy => msiz \in {0, Size[cur]} /\ copy_global_bytes = msiz
  /\ pc \in {"loop", "pad"} =>
       /\ abort_copy = 0 /\ chunk \in 1 .. BufSize
       /\ msiz > 0 => chunk <= msiz
       /\ IF handles = "both" THEN dst[cur] = fsiz ELSE dst[cur] = Absent /\ fsiz = 0
  /\ pc = "close" /\ abort_copy = 0 =>
       IF handles = "both" THEN dst[cur] = msiz ELSE dst[cur] = Absent /\ msiz = 0

\* The counters of the two globals agree when nothing went wrong with a file that is not empty; a
\* file with contents leaves its count.
CountInv ==
  /\ counted = TRUE <=> global_device_bytes > 0
  /\ pc \in {"loop", "pad"} /\ fsiz > 0 => global_device_bytes = fsiz
  /\ pc = "close" /\ abort_copy = 0 /\ msiz > 0 => global_device_bytes = msiz

\* A file that is still to be copied is on the source device; the one in hand is no longer selected.
SourceInv ==
  /\ selected \subseteq src
  /\ InFileCopy => cur \in src
  /\ pc \in {"loop", "pad", "close", "after"} => cur \notin selected

\* Each file the destination holds is whole, except the one in hand.
WholeInv ==
  /\ \A f \in File : f # cur \/ ~InFileCopy => dst[f] \in {Absent, Size[f]}
  /\ pc = "after" /\ abort_copy = 0 => dst[cur] = Size[cur] \/ Size[cur] = 0

IInv == TypeOK /\ CopyInv /\ CountInv

-----------------------------------------------------------------------------
(***************************************************************************)
(* What is true of every file.                                             *)
(***************************************************************************)
LEMMA InitIInv == Init => IInv
<1> SUFFICES ASSUME Init PROVE IInv
  OBVIOUS
<1> USE FileAssumption DEF FileAssumption, Init, Absent
<1>1. TypeOK
  <2>1. \A f \in File : dst[f] \in {Absent} \cup (0 .. Size[f])
    BY SMT
  <2>2. same_dev \in BOOLEAN
    BY Zenon
  <2>3. msiz \in { Size[f] : f \in File } \cup {0} /\ fsiz \in 0 .. msiz /\ chunk \in 0 .. BufSize
    BY SMT
  <2>4. copy_global_bytes \in {0} \cup { Size[f] : f \in File } /\ global_device_bytes \in Nat
    BY SMT
  <2> QED
    BY <2>1, <2>2, <2>3, <2>4 DEF TypeOK
<1>2. CopyInv
  BY DEF CopyInv, InFileCopy
<1>3. CountInv
  BY DEF CountInv
<1> QED
  BY <1>1, <1>2, <1>3 DEF IInv

\* What file_copy starts from.
LEMMA Starting ==
  ASSUME IInv, NEW f \in File, FileCopyStarts(f)
  PROVE  /\ msiz' \in {0, Size[f]} /\ chunk' \in 1 .. BufSize /\ fsiz' = 0 /\ copy_global_bytes' = msiz'
         /\ msiz' > 0 => chunk' <= msiz'
         /\ handles' \in {"both", "source"} /\ abort_copy' = 0
         /\ dst' = [dst EXCEPT ![f] = IF handles' = "both" THEN 0 ELSE Absent]
BY FileAssumption DEF FileAssumption, FileCopyStarts, SizeRead, IInv, TypeOK

LEMMA StepIInv == IInv /\ [Next]_vars => IInv'
<1> SUFFICES ASSUME IInv, [Next]_vars PROVE IInv'
  OBVIOUS
<1> USE FileAssumption DEF FileAssumption, IInv, TypeOK, CopyInv, CountInv, InFileCopy, Absent
<1>1. CASE Confirm
  BY <1>1 DEF Confirm, loop, count
<1>2. CASE RenameSelected
  BY <1>2 DEF RenameSelected, loop, count
<1>3. CASE NextSelected
  <2>1. cur' \in File /\ FileCopyStarts(cur') /\ pc' = "loop"
        /\ UNCHANGED << do_move, same_dev, src, global_device_bytes, counted >> /\ selected' \subseteq File
    BY <1>3 DEF NextSelected, count
  <2>2. /\ msiz' \in {0, Size[cur']} /\ chunk' \in 1 .. BufSize /\ fsiz' = 0 /\ copy_global_bytes' = msiz'
        /\ msiz' > 0 => chunk' <= msiz'
        /\ handles' \in {"both", "source"} /\ abort_copy' = 0
        /\ dst' = [dst EXCEPT ![cur'] = IF handles' = "both" THEN 0 ELSE -1]
    BY <2>1, Starting
  <2> QED
    BY <2>1, <2>2
<1>4. CASE BatchEnd
  BY <1>4 DEF BatchEnd, loop, batch, count
<1>5. CASE CopyBuffer
  BY <1>5 DEF CopyBuffer, Copying, Writes, loop, batch, count
<1>6. CASE CopyRest
  BY <1>6 DEF CopyRest, Copying, Writes, loop, batch, count
<1>7. CASE CopyFails
  BY <1>7 DEF CopyFails, Copying, Writes, loop, batch, count
<1>8. CASE PadContinue
  BY <1>8 DEF PadContinue, loop, batch, count
<1>9. CASE PadAbort
  BY <1>9 DEF PadAbort, loop, batch, count
<1>10. CASE LoopEnd
  BY <1>10 DEF LoopEnd, loop, batch, count
<1>11. CASE Close
  BY <1>11 DEF Close, loop, batch, count
<1>12. CASE After
  BY <1>12 DEF After, loop, batch, count
<1>13. CASE UNCHANGED vars
  BY <1>13 DEF vars, count
<1> QED
  BY <1>1, <1>2, <1>3, <1>4, <1>5, <1>6, <1>7, <1>8, <1>9, <1>10, <1>11, <1>12, <1>13 DEF Next, Work

LEMMA Invariance == Spec => []IInv
BY InitIInv, StepIInv, PTL DEF Spec

\* The variables hold what their types say, and a destination never more than its source has, whatever fails and
\* whatever is aborted, for every file.
THEOREM TypeCorrect == Spec => []TypeOK
<1>1. IInv => TypeOK
  BY DEF IInv
<1> QED
  BY <1>1, Invariance, PTL

-----------------------------------------------------------------------------
(***************************************************************************)
(* What is true when every source opens.                                   *)
(***************************************************************************)
Ordinary == Unreadable = {}

\* All that is known of a batch of files that open.
BatchInv == IInv /\ (InFileCopy => msiz = Size[cur]) /\ SourceInv /\ WholeInv /\ MoveLosesNothing

LEMMA InitBatchInv == Init => BatchInv
<1> SUFFICES ASSUME Init PROVE BatchInv
  OBVIOUS
<1>1. IInv
  BY InitIInv
<1>2. /\ InFileCopy => msiz = Size[cur]
      /\ SourceInv /\ WholeInv /\ MoveLosesNothing
  BY DEF Init, InFileCopy, SourceInv, WholeInv, MoveLosesNothing
<1> QED
  BY <1>1, <1>2 DEF BatchInv

\* Each step keeps what is whole whole: only file_copy touches the file in hand, and it leaves it whole or absent.
LEMMA StepBatchInv ==
  ASSUME Ordinary, BatchInv, [Next]_vars
  PROVE  BatchInv'
<1>1. IInv'
  BY StepIInv DEF BatchInv
<1>2. /\ (InFileCopy => msiz = Size[cur])' /\ SourceInv' /\ WholeInv' /\ MoveLosesNothing'
  <2> USE FileAssumption DEF FileAssumption, Ordinary, BatchInv, IInv, TypeOK, CopyInv, InFileCopy, SourceInv,
                            WholeInv, MoveLosesNothing
  <2>1. CASE Confirm
    BY <2>1 DEF Confirm, loop, count
  <2>2. CASE RenameSelected
    BY <2>2 DEF RenameSelected, loop, count
  <2>3. CASE NextSelected
    <3>1. /\ cur' \in selected /\ selected' = selected \ {cur'} /\ pc = "batch"
          /\ FileCopyStarts(cur') /\ pc' = "loop" /\ UNCHANGED src
      BY <2>3 DEF NextSelected, count
    <3>2. msiz' = Size[cur'] /\ dst' = [dst EXCEPT ![cur'] = IF handles' = "both" THEN 0 ELSE Absent]
      BY <3>1 DEF FileCopyStarts, SizeRead
    <3> QED
      BY <3>1, <3>2
  <2>4. CASE BatchEnd
    BY <2>4 DEF BatchEnd, loop, batch, count
  <2>5. CASE CopyBuffer
    BY <2>5 DEF CopyBuffer, Copying, Writes, loop, batch, count
  <2>6. CASE CopyRest
    BY <2>6 DEF CopyRest, Copying, Writes, loop, batch, count
  <2>7. CASE CopyFails
    BY <2>7 DEF CopyFails, Copying, Writes, loop, batch, count
  <2>8. CASE PadContinue
    BY <2>8 DEF PadContinue, loop, batch, count
  <2>9. CASE PadAbort
    BY <2>9 DEF PadAbort, loop, batch, count
  <2>10. CASE LoopEnd
    BY <2>10 DEF LoopEnd, loop, batch, count
  <2>11. CASE Close
    BY <2>11 DEF Close, loop, batch, count
  <2>12. CASE After
    BY <2>12 DEF After, loop, batch, count
  <2>13. CASE UNCHANGED vars
    BY <2>13 DEF vars, count
  <2> QED
    BY <2>1, <2>2, <2>3, <2>4, <2>5, <2>6, <2>7, <2>8, <2>9, <2>10, <2>11, <2>12, <2>13 DEF Next, Work
<1> QED
  BY <1>1, <1>2 DEF BatchInv

LEMMA BatchInvariance == ASSUME Ordinary PROVE Spec => []BatchInv
<1>1. BatchInv /\ [Next]_vars => BatchInv'
  BY StepBatchInv
<1> QED
  BY <1>1, InitBatchInv, PTL DEF Spec

\* A move never removes a file with contents that is not whole at its destination (file_copy, and the loop that
\* calls it), when every source opens.
THEOREM MovesLoseNothing == ASSUME Ordinary PROVE Spec => []MoveLosesNothing
<1>1. BatchInv => MoveLosesNothing
  BY DEF BatchInv
<1> QED
  BY <1>1, BatchInvariance, PTL

\* Between two files the destination holds whole files only, under the same condition.
THEOREM NothingPartial == ASSUME Ordinary PROVE Spec => []WholeOrNothing
<1>1. BatchInv => WholeOrNothing
  BY DEF BatchInv, WholeInv, WholeOrNothing, InFileCopy
<1> QED
  BY <1>1, BatchInvariance, PTL

\* A copy that nobody disturbed is refused at its end exactly when its file is empty and a file with contents was
\* counted before, in this batch or an earlier one (file_copy), for any files, empty ones too, that open.
THEOREM UndisturbedCopies == ASSUME Ordinary PROVE Spec => UndisturbedResult
<1>1. BatchInv /\ [Next]_vars =>
        [Close /\ abort_copy = 0 /\ handles = "both" => (abort_copy' = 1 <=> Size[cur] = 0 /\ counted)]_vars
  <2> SUFFICES ASSUME BatchInv, Close, abort_copy = 0, handles = "both"
               PROVE  abort_copy' = 1 <=> Size[cur] = 0 /\ counted
    OBVIOUS
  <2>1. /\ pc = "close" /\ msiz = Size[cur] /\ msiz \in Nat /\ copy_global_bytes = msiz
        /\ global_device_bytes \in Nat
    BY FileAssumption DEF FileAssumption, BatchInv, IInv, TypeOK, CopyInv, InFileCopy, Close
  <2>2. msiz # 0 => global_device_bytes = msiz
    BY <2>1 DEF BatchInv, IInv, CountInv
  <2>3. abort_copy' = 1 <=> Size[cur] = 0 /\ global_device_bytes > 0
    BY <2>1, <2>2 DEF Close
  <2>4. (counted = TRUE <=> global_device_bytes > 0) /\ counted \in BOOLEAN
    BY DEF BatchInv, IInv, CountInv, TypeOK
  <2> QED
    BY <2>3, <2>4, Zenon
<1> QED
  BY <1>1, BatchInvariance, PTL DEF Spec, UndisturbedResult

-----------------------------------------------------------------------------
(***************************************************************************)
(* The downloads (Downloads): DownloadsSound for any number of covers,     *)
(* slots, packages and lengths.  The thread writes covers only, and the    *)
(* main loop every other file (Own): ThreadInv says what the cover that is *)
(* served is and which covers are whole, MainInv what the job of the main  *)
(* loop has downloaded so far and whether the server sent all of it.       *)
(***************************************************************************)
Own == Http!Name \ (Cover \cup {Http!NoName})
Places == {"idle", "init", "request", "receive", "quit", "done"}
CoverOrNone == Cover \cup {Http!NoName}

HttpTypes ==
  /\ downloads \in [0 .. MAX_DOWN_LIST - 1 -> [url : CoverOrNone, status : 0 .. 2]]
  /\ downloads_max \in 0 .. MAX_DOWN_LIST - 1 /\ slot \in 0 .. MAX_DOWN_LIST - 1
  /\ at \in [{"main", "thread"} -> Places]
  /\ load \in [{"main", "thread"} -> [url : Http!Name, got : Nat, ret : Int]]
  /\ saved \in [{"main", "thread"} -> Http!Name]
  /\ file \in [Http!Name -> [of : Http!Name, size : Nat]]

LibraryInv == http.live \subseteq {"main", "thread"} /\ (http.live # {} => http.up)

Sizes == /\ \A f \in Http!Name : file[f].size <= Length[file[f].of]
         /\ \A p \in {"main", "thread"} : load[p].got <= Length[load[p].url]

\* Unless a slot was written while it was served, the cover that is served is that of the slot, and
\* every other cover on the disk is its own and no stub.
OwnCovers ==
  /\ at["thread"] # "idle" => load["thread"].url = downloads[slot].url
  /\ at["thread"] = "receive" => saved["thread"] = downloads[slot].url
  /\ \A f \in Cover : Http!exist(f) =>
       /\ file[f].of = f
       /\ file[f].size >= Kilo \/ (at["thread"] # "idle" /\ f = downloads[slot].url)

ThreadInv ==
  /\ at["thread"] # "idle" =>
       /\ load["thread"].url \in CoverOrNone
       /\ load["thread"].url # Http!NoName => downloads[slot].url \in Cover
  /\ at["thread"] \in {"init", "request"} => load["thread"].got = 0
  /\ at["thread"] = "receive" =>
       /\ saved["thread"] \in Cover /\ load["thread"].url \in Cover
       /\ file[saved["thread"]] = [of |-> load["thread"].url, size |-> load["thread"].got]
  /\ ~overwritten => OwnCovers

\* What the main loop downloads now, and what became of it.
Url == load["main"].url
Good(f) == Http!Whole(f) \/ f \in early
Downloaded ==
  /\ at["main"] \in {"quit", "done"} /\ Good(Url)
  /\ at["main"] = "quit" => load["main"].got > 0 \/ Url \in early

MainInv ==
  /\ at["main"] = "idle" <=> job = "idle"
  /\ job # "idle" => ~mm_shutdown /\ offered = {} /\ Url \in Own
  /\ at["main"] \in {"init", "request"} => load["main"].got = 0
  /\ at["main"] = "receive" =>
       /\ saved["main"] = Url /\ ~Http!asksSize
       /\ file[Url] = [of |-> Url, size |-> load["main"].got]
  /\ \A f \in Own : Http!exist(f) => file[f].of = f
  /\ Http!asksSize => load["main"].ret \in {0, Length[Url]}
  /\ job # "idle" /\ ~Http!asksSize /\ load["main"].ret = 1 => Downloaded
  /\ job \in {"update", "update_size"} => Url = Http!Update
  /\ job = "theme" => Url = "theme"
  /\ job = "game" =>
       /\ lc \in 1 .. Len(Package) /\ first_pkg \in 1 .. lc /\ Url = Package[lc]
       /\ \A n \in first_pkg .. lc - 1 : Good(Package[n])
  /\ \A f \in offered : f \in Own /\ (Http!Whole(f) \/ (f # Http!Update /\ f \in early))

HttpInv == HttpTypes /\ LibraryInv /\ Sizes /\ ThreadInv /\ MainInv

LEMMA Names ==
  /\ Cover \subseteq Http!Name /\ Http!NoName \in Http!Name /\ Http!NoName \notin Cover
  /\ Http!Fixed \subseteq Own /\ Own \subseteq Http!Name /\ Own \cap CoverOrNone = {}
  /\ \A f \in Http!Name : f \in CoverOrNone \/ f \in Own
<1>1. Cover \cap Http!Fixed = {} /\ Http!NoName \notin Cover
  BY DownloadsAssumption DEF DownloadsAssumption
<1>2. Http!NoName \notin Http!Fixed
  BY DEF Http!NoName, Http!Fixed, Http!Update, Http!Showtime
<1> QED
  BY <1>1, <1>2 DEF Own, CoverOrNone, Http!Name

LEMMA Lengths ==
  /\ \A f \in Http!Name : Length[f] \in Nat \ {0}
  /\ Kilo \in Nat /\ MAX_DOWN_LIST \in Nat \ {0}
  BY DownloadsAssumption DEF DownloadsAssumption

LEMMA Packages ==
  /\ Len(Package) \in Nat /\ DOMAIN Package = 1 .. Len(Package)
  /\ \A n \in 1 .. Len(Package) : Package[n] \in Own /\ Package[n] # Http!Update
  /\ \A m, n \in 1 .. Len(Package) : Package[m] = Package[n] => m = n
<1>1. Package \in Seq(Http!Name)
  BY DownloadsAssumption DEF DownloadsAssumption
<1>2. Len(Package) \in Nat /\ DOMAIN Package = 1 .. Len(Package)
  BY <1>1
<1>3. \A n \in 1 .. Len(Package) :
        Package[n] \in Http!Name /\ Package[n] \notin CoverOrNone /\ Package[n] \notin Http!Fixed
  BY <1>1, <1>2, DownloadsAssumption DEF DownloadsAssumption, CoverOrNone
<1>4. Http!Update \in Http!Fixed
  BY DEF Http!Fixed
<1>5. \A m, n \in 1 .. Len(Package) : Package[m] = Package[n] => m = n
  BY <1>2, DownloadsAssumption DEF DownloadsAssumption
<1> QED
  BY <1>2, <1>3, <1>4, <1>5 DEF Own, CoverOrNone

\* What does not touch the thread, its slot and the covers, and what does not touch the main loop,
\* its job and the other files.
LEMMA ThreadKept ==
  ASSUME ThreadInv, at'["thread"] = at["thread"], load'["thread"] = load["thread"],
         saved'["thread"] = saved["thread"], slot' = slot,
         downloads'[slot].url = downloads[slot].url, overwritten \/ (overwritten' <=> overwritten),
         overwritten' \/ ~overwritten,
         \A f \in Cover : file'[f] = file[f]
  PROVE  ThreadInv'
<1>1. ~overwritten' => ~overwritten
  OBVIOUS
<1>2. OwnCovers => OwnCovers'
  BY DEF OwnCovers, Http!exist, Http!Absent
<1> QED
  BY <1>1, <1>2 DEF ThreadInv

LEMMA MainKept ==
  ASSUME MainInv, at'["main"] = at["main"], load'["main"] = load["main"],
         saved'["main"] = saved["main"], job' = job, lc' = lc, first_pkg' = first_pkg,
         mm_shutdown' <=> mm_shutdown, offered' = offered, early' = early,
         \A f \in Own : file'[f] = file[f]
  PROVE  MainInv'
<1>1. /\ Url' = Url /\ (Http!asksSize' <=> Http!asksSize)
  BY DEF Url, Http!asksSize
<1>2. \A f \in Own : (Http!Whole(f)' <=> Http!Whole(f)) /\ (Good(f)' <=> Good(f))
  BY DEF Http!Whole, Good
<1>3. \A f \in Own : Http!exist(f)' <=> Http!exist(f)
  BY DEF Http!exist, Http!Absent
<1>4. job = "game" => lc \in 1 .. Len(Package) /\ \A n \in first_pkg .. lc - 1 : Package[n] \in Own
  BY Packages DEF MainInv
<1>5. job # "idle" => (Downloaded => Downloaded')
  BY <1>1, <1>2 DEF MainInv, Downloaded
<1> QED
  BY <1>1, <1>2, <1>3, <1>4, <1>5 DEF MainInv

LEMMA ThreadInit ==
  ASSUME HttpInv, Http!HttpInit("thread")
  PROVE  HttpInv'
<1> USE DEF HttpInv
<1>1. /\ at["thread"] = "init" /\ at'["thread"] \in {"quit", "request"} /\ load' = load /\ saved' = saved
      /\ file' = [file EXCEPT ![downloads[slot].url] = Http!Absent]
      /\ at' \in [{"main", "thread"} -> Places] /\ at'["main"] = at["main"]
      /\ load'["main"] = load["main"] /\ saved'["main"] = saved["main"]
      /\ downloads' = downloads /\ downloads_max' = downloads_max /\ slot' = slot
      /\ job' = job /\ lc' = lc /\ first_pkg' = first_pkg /\ (mm_shutdown' <=> mm_shutdown)
      /\ offered' = offered /\ early' = early /\ (overwritten' <=> overwritten)
  BY DEF Http!HttpInit, HttpTypes, Places, Http!Remove, Http!queue, Http!transfer, Http!work, Http!Goes, Http!Saves, Http!Local
<1>2. downloads[slot].url \in CoverOrNone /\ \A f \in Own : file'[f] = file[f]
  <2>1. downloads[slot].url \in CoverOrNone
    BY DEF HttpTypes
  <2> QED
    BY <1>1, <2>1, Names DEF HttpTypes
<1>3. \A f \in Http!Name : file'[f] = IF f = downloads[slot].url THEN Http!Absent ELSE file[f]
  BY <1>1 DEF HttpTypes
<1>5. HttpTypes'
  <2>1. Http!Absent \in [of : Http!Name, size : Nat]
    BY Names DEF Http!Absent
  <2>2. file' \in [Http!Name -> [of : Http!Name, size : Nat]]
    BY <1>1, <2>1 DEF HttpTypes
  <2> QED
    BY <1>1, <2>2 DEF HttpTypes
<1>6. LibraryInv'
  BY DEF Http!HttpInit, LibraryInv, HttpTypes
<1>7. Sizes'
  <2>1. \A f \in Http!Name : file'[f].size <= Length[file'[f].of]
    BY <1>3, Names, Lengths DEF Sizes, Http!Absent
  <2> QED
    BY <1>1, <2>1 DEF Sizes
<1>8. ThreadInv'
  <2>1. ~overwritten => OwnCovers'
    BY <1>1, <1>3, Names DEF ThreadInv, OwnCovers, Http!exist, Http!Absent
  <2> QED
    BY <1>1, <2>1 DEF ThreadInv
<1>9. MainInv'
  BY <1>1, <1>2, MainKept
<1> QED
  BY <1>5, <1>6, <1>7, <1>8, <1>9

LEMMA ThreadRequest ==
  ASSUME HttpInv, Http!Request("thread")
  PROVE  HttpInv'
<1> USE DEF HttpInv
<1>1. /\ at["thread"] = "request" /\ at'["thread"] \in {"quit", "receive"}
      /\ load'["thread"].url = load["thread"].url /\ load'["thread"].got = load["thread"].got
      /\ load' \in [{"main", "thread"} -> [url : Http!Name, got : Nat, ret : Int]]
      /\ at' \in [{"main", "thread"} -> Places] /\ at'["main"] = at["main"]
      /\ load'["main"] = load["main"] /\ saved'["main"] = saved["main"]
      /\ downloads' = downloads /\ downloads_max' = downloads_max /\ slot' = slot
      /\ job' = job /\ lc' = lc /\ first_pkg' = first_pkg /\ (mm_shutdown' <=> mm_shutdown)
      /\ offered' = offered /\ early' = early /\ (overwritten' <=> overwritten)
  <2>1. /\ at["thread"] = "request" /\ at'["thread"] \in {"quit", "receive"}
        /\ at' \in [{"main", "thread"} -> Places] /\ at'["main"] = at["main"]
    BY DEF Http!Request, HttpTypes, Places, Http!Goes
  <2>2. /\ load'["thread"].url = load["thread"].url /\ load'["thread"].got = load["thread"].got
        /\ load' \in [{"main", "thread"} -> [url : Http!Name, got : Nat, ret : Int]]
        /\ load'["main"] = load["main"]
    BY DEF Http!Request, HttpTypes, Http!Saves
  <2>3. saved'["main"] = saved["main"]
    BY DEF Http!Request, HttpTypes, Http!Saves
  <2> QED
    BY <2>1, <2>2, <2>3 DEF Http!Request, Http!queue, Http!work
<1>2. /\ downloads[slot].url \in CoverOrNone
      /\ \/ at'["thread"] = "quit" /\ file' = file /\ saved' = saved
         \/ /\ at'["thread"] = "receive" /\ load["thread"].url # Http!NoName
            /\ saved' = [saved EXCEPT !["thread"] = downloads[slot].url] /\ load' = load
            /\ file' = [file EXCEPT ![downloads[slot].url] = [of |-> load["thread"].url, size |-> 0]]
  BY DEF Http!Request, HttpTypes, Places, Http!queue, Http!transfer, Http!work, Http!Goes, Http!Saves, Http!Local
<1>3. \A f \in Own : file'[f] = file[f]
  BY <1>2, Names DEF HttpTypes
<1>4. load["thread"].got = 0
  BY <1>1 DEF ThreadInv
<1>5. HttpTypes'
  <2>1. saved' \in [{"main", "thread"} -> Http!Name]
    BY <1>2, Names DEF HttpTypes, CoverOrNone
  <2>2. [of |-> load["thread"].url, size |-> 0] \in [of : Http!Name, size : Nat]
    BY DEF HttpTypes
  <2>3. file' \in [Http!Name -> [of : Http!Name, size : Nat]]
    BY <1>2, <2>2 DEF HttpTypes
  <2> QED
    BY <1>1, <2>1, <2>3 DEF HttpTypes
<1>6. LibraryInv'
  BY DEF Http!Request, LibraryInv
<1>7. Sizes'
  <2>1. load["thread"].url \in Http!Name
    BY DEF HttpTypes
  <2>2. \A f \in Http!Name : file'[f].size <= Length[file'[f].of]
    <3>1. CASE file' = file
      BY <3>1 DEF Sizes
    <3>2. CASE file' = [file EXCEPT ![downloads[slot].url] = [of |-> load["thread"].url, size |-> 0]]
      <4> DEFINE new == [of |-> load["thread"].url, size |-> 0]
      <4>1. new.size = 0 /\ new.of \in Http!Name /\ Length[new.of] \in Nat
        BY <2>1, Lengths
      <4> HIDE DEF new
      <4>2. \A f \in Http!Name : file'[f] \in {new, file[f]}
        BY <3>2 DEF HttpTypes, new
      <4> QED
        BY <4>1, <4>2 DEF Sizes
    <3> QED
      BY <1>2, <3>1, <3>2
  <2> QED
    BY <1>1, <2>2 DEF Sizes
<1>8. ThreadInv'
  <2>1. CASE at'["thread"] = "quit"
    <3>1. ~overwritten => OwnCovers'
      BY <1>1, <1>2, <2>1 DEF ThreadInv, OwnCovers, Http!exist, Http!Absent
    <3> QED
      BY <1>1, <2>1, <3>1 DEF ThreadInv
  <2>2. CASE at'["thread"] = "receive"
    <3>1. /\ load["thread"].url \in Cover /\ downloads[slot].url \in Cover
      BY <1>1, <1>2, <2>2 DEF ThreadInv, CoverOrNone
    <3>2. /\ saved'["thread"] = downloads[slot].url
          /\ file'[downloads[slot].url] = [of |-> load["thread"].url, size |-> 0]
          /\ \A f \in Cover : f # downloads[slot].url => file'[f] = file[f]
      BY <1>2, <2>2, <3>1, Names DEF HttpTypes
    <3>3. ~overwritten => OwnCovers'
      BY <1>1, <1>2, <2>2, <3>1, <3>2 DEF ThreadInv, OwnCovers, Http!exist, Http!Absent
    <3>4. load'["thread"].got = 0 /\ load'["thread"].url = load["thread"].url
      BY <1>1, <1>4
    <3> QED
      BY <1>1, <2>2, <3>1, <3>2, <3>3, <3>4 DEF ThreadInv
  <2> QED
    BY <1>1, <2>1, <2>2
<1>9. MainInv'
  BY <1>1, <1>3, MainKept
<1> QED
  BY <1>5, <1>6, <1>7, <1>8, <1>9

LEMMA ThreadReceive ==
  ASSUME HttpInv, Http!Receive("thread")
  PROVE  HttpInv'
<1> USE DEF HttpInv
<1> DEFINE u == load["thread"].url
           g == load["thread"].got
           v == saved["thread"]
<1>1. /\ at["thread"] = "receive" /\ g < Length[u] /\ at' = at /\ saved' = saved
      /\ load' = [load EXCEPT !["thread"].got = g + 1]
      /\ downloads' = downloads /\ downloads_max' = downloads_max /\ slot' = slot
      /\ job' = job /\ lc' = lc /\ first_pkg' = first_pkg /\ (mm_shutdown' <=> mm_shutdown)
      /\ offered' = offered /\ early' = early /\ (overwritten' <=> overwritten)
      /\ http' = http
  BY DEF Http!Receive, Http!queue, Http!work
<1>2. v \in Cover /\ u \in Cover /\ file[v] = [of |-> u, size |-> g] /\ g \in Nat
  BY <1>1 DEF ThreadInv, HttpTypes
<1>3. u # Http!NoName
  BY <1>2, Names
<1>4. file[v].of = u /\ file[v] # Http!Absent /\ file' = [file EXCEPT ![v].size = g + 1]
  <2>1. file[v].of = u /\ file[v].size = g
    BY <1>2
  <2>2. file[v] # Http!Absent
    BY <1>3, <2>1 DEF Http!Absent
  <2> QED
    BY <2>1, <2>2 DEF Http!Receive
<1>10. /\ file'[v] = [of |-> u, size |-> g + 1] /\ \A f \in Http!Name : f # v => file'[f] = file[f]
       /\ file' \in [Http!Name -> [of : Http!Name, size : Nat]]
  BY <1>2, <1>4, Names DEF HttpTypes
<1>11. /\ load'["main"] = load["main"] /\ load'["thread"].url = u /\ load'["thread"].got = g + 1
       /\ load' \in [{"main", "thread"} -> [url : Http!Name, got : Nat, ret : Int]]
  BY <1>1, <1>2 DEF HttpTypes
<1>5. HttpTypes'
  BY <1>1, <1>10, <1>11 DEF HttpTypes
<1>6. LibraryInv'
  BY <1>1 DEF LibraryInv
<1>7. Sizes'
  <2>1. g + 1 <= Length[u]
    BY <1>1, <1>2, Names, Lengths
  <2>2. \A f \in Http!Name : file'[f].size <= Length[file'[f].of]
    BY <1>10, <2>1 DEF Sizes
  <2> QED
    BY <1>11, <2>1, <2>2 DEF Sizes
<1>8. ThreadInv'
  <2>1. ~overwritten => v = downloads[slot].url /\ u = v
    BY <1>1 DEF ThreadInv, OwnCovers
  <2>2. ~overwritten => OwnCovers'
    BY <1>1, <1>2, <1>10, <1>11, <2>1, Names DEF ThreadInv, OwnCovers, Http!exist, Http!Absent
  <2> QED
    BY <1>1, <1>2, <1>10, <1>11, <2>2 DEF ThreadInv
<1>9. MainInv'
  <2>1. \A f \in Own : file'[f] = file[f]
    BY <1>2, <1>10, Names DEF CoverOrNone
  <2> QED
    BY <1>1, <1>11, <2>1, MainKept
<1> QED
  BY <1>5, <1>6, <1>7, <1>8, <1>9

LEMMA ThreadReceived ==
  ASSUME HttpInv, Http!Received("thread") \/ Http!ReceiveFails("thread")
  PROVE  HttpInv'
<1> USE DEF HttpInv
<1>1. /\ at["thread"] = "receive" /\ at'["thread"] = "quit" /\ at'["main"] = at["main"]
      /\ at' \in [{"main", "thread"} -> Places] /\ saved' = saved /\ file' = file
      /\ downloads' = downloads /\ downloads_max' = downloads_max /\ slot' = slot
      /\ job' = job /\ lc' = lc /\ first_pkg' = first_pkg /\ (mm_shutdown' <=> mm_shutdown)
      /\ offered' = offered /\ early' = early /\ (overwritten' <=> overwritten)
      /\ http' = http
  BY DEF Http!Received, Http!ReceiveFails, Http!queue, Http!work, Http!Goes, HttpTypes, Places
<1>2. /\ load'["main"] = load["main"] /\ load'["thread"].url = load["thread"].url
      /\ load'["thread"].got = load["thread"].got
      /\ load' \in [{"main", "thread"} -> [url : Http!Name, got : Nat, ret : Int]]
  BY DEF Http!Received, Http!ReceiveFails, HttpTypes
<1>5. HttpTypes'
  BY <1>1, <1>2 DEF HttpTypes
<1>6. LibraryInv'
  BY <1>1 DEF LibraryInv
<1>7. Sizes'
  BY <1>1, <1>2 DEF Sizes
<1>8. ThreadInv'
  <2>1. ~overwritten => OwnCovers'
    BY <1>1, <1>2 DEF ThreadInv, OwnCovers, Http!exist, Http!Absent
  <2> QED
    BY <1>1, <1>2, <2>1 DEF ThreadInv
<1>9. MainInv'
  BY <1>1, <1>2, MainKept
<1> QED
  BY <1>5, <1>6, <1>7, <1>8, <1>9

LEMMA ThreadQuit ==
  ASSUME HttpInv, Http!Quit("thread")
  PROVE  HttpInv'
<1> USE DEF HttpInv
<1> DEFINE L == downloads[slot].url
<1>1. /\ at["thread"] = "quit" /\ at'["thread"] = "done" /\ at'["main"] = at["main"]
      /\ at' \in [{"main", "thread"} -> Places] /\ load' = load
      /\ downloads' = downloads /\ downloads_max' = downloads_max /\ slot' = slot
      /\ job' = job /\ lc' = lc /\ first_pkg' = first_pkg /\ (mm_shutdown' <=> mm_shutdown)
      /\ offered' = offered /\ early' = early /\ (overwritten' <=> overwritten)
      /\ http'.live = {}
  BY DEF Http!Quit, Http!queue, Http!work, Http!Goes, HttpTypes, Places
<1>2. /\ saved' \in [{"main", "thread"} -> Http!Name] /\ saved'["main"] = saved["main"]
  BY Names DEF Http!Quit, HttpTypes
<1>3. L \in CoverOrNone
  BY DEF HttpTypes
<1>4. file' = file \/ file' = [file EXCEPT ![L] = Http!Absent]
  BY DEF Http!Quit, Http!Remove, Http!Local
<1>10. /\ file' \in [Http!Name -> [of : Http!Name, size : Nat]]
       /\ \A f \in Http!Name : file'[f] = file[f] \/ (f = L /\ file'[f] = Http!Absent)
  <2>1. Http!Absent \in [of : Http!Name, size : Nat]
    BY Names DEF Http!Absent
  <2> QED
    BY <1>4, <2>1 DEF HttpTypes
<1>5. HttpTypes'
  BY <1>1, <1>2, <1>10 DEF HttpTypes
<1>6. LibraryInv'
  BY <1>1 DEF LibraryInv
<1>7. Sizes'
  <2>1. Http!Absent.size = 0 /\ Http!Absent.of = Http!NoName /\ 0 <= Length[Http!NoName]
    BY Names, Lengths DEF Http!Absent
  <2>2. \A f \in Http!Name : file'[f].size <= Length[file'[f].of]
    BY <1>10, <2>1 DEF Sizes
  <2> QED
    BY <1>1, <2>2 DEF Sizes
<1>8. ThreadInv'
  <2>1. ~overwritten => OwnCovers'
    BY <1>1, <1>10, Names DEF ThreadInv, OwnCovers, Http!exist
  <2> QED
    BY <1>1, <2>1 DEF ThreadInv
<1>9. MainInv'
  <2>1. \A f \in Own : file'[f] = file[f]
    BY <1>3, <1>10, Names
  <2> QED
    BY <1>1, <1>2, <2>1, MainKept
<1> QED
  BY <1>5, <1>6, <1>7, <1>8, <1>9

LEMMA LookKeeps ==
  ASSUME HttpInv, Http!Look
  PROVE  HttpInv'
<1> USE DEF HttpInv
<1> DEFINE u == downloads[slot].url
<1>1. /\ at["thread"] = "idle" /\ at'["main"] = at["main"] /\ load'["main"] = load["main"]
      /\ downloads_max' = downloads_max /\ saved' = saved /\ file' = file
      /\ job' = job /\ lc' = lc /\ first_pkg' = first_pkg /\ (mm_shutdown' <=> mm_shutdown)
      /\ offered' = offered /\ early' = early /\ (overwritten' <=> overwritten)
      /\ http' = http
  BY DEF Http!Look, Http!work, Http!Begins, HttpTypes
<1>2. \/ at' = at /\ load' = load /\ slot' = (slot + 1) % MAX_DOWN_LIST
      \/ /\ slot' = slot /\ at' = [at EXCEPT !["thread"] = "init"]
         /\ load' = [load EXCEPT !["thread"] = [url |-> u, got |-> 0, ret |-> 0]]
         /\ file[u] = Http!Absent
  BY DEF Http!Look, Http!Begins, Http!NextSlot, Http!exist
<1>3. /\ downloads' \in [0 .. MAX_DOWN_LIST - 1 -> [url : CoverOrNone, status : 0 .. 2]]
      /\ \A n \in 0 .. MAX_DOWN_LIST - 1 : downloads'[n].url = downloads[n].url
  <2>1. downloads' = downloads \/ downloads' = [downloads EXCEPT ![slot].status = 2]
    BY DEF Http!Look
  <2>2. CASE downloads' = downloads
    BY <2>2 DEF HttpTypes
  <2>3. CASE downloads' = [downloads EXCEPT ![slot].status = 2]
    <3> DEFINE taken == [downloads[slot] EXCEPT !.status = 2]
    <3>1. taken \in [url : CoverOrNone, status : 0 .. 2] /\ taken.url = downloads[slot].url
      BY DEF HttpTypes
    <3>2. downloads' = [downloads EXCEPT ![slot] = taken]
      BY <2>3
    <3> HIDE DEF taken
    <3> QED
      BY <3>1, <3>2 DEF HttpTypes
  <2> QED
    BY <2>1, <2>2, <2>3
<1>4. u \in CoverOrNone /\ u \in Http!Name /\ slot \in 0 .. MAX_DOWN_LIST - 1
  BY Names DEF HttpTypes, CoverOrNone
<1>10. slot' \in 0 .. MAX_DOWN_LIST - 1
  BY <1>2, <1>4, Lengths
<1>11. /\ at' \in [{"main", "thread"} -> Places]
       /\ load' \in [{"main", "thread"} -> [url : Http!Name, got : Nat, ret : Int]]
       /\ load'["thread"] = load["thread"] \/ (load'["thread"].url = u /\ load'["thread"].got = 0)
       /\ at'["thread"] = "idle" \/ (at'["thread"] = "init" /\ load'["thread"].url = u
                                     /\ load'["thread"].got = 0 /\ slot' = slot)
  BY <1>1, <1>2, <1>4 DEF HttpTypes, Places
<1>5. HttpTypes'
  BY <1>1, <1>3, <1>10, <1>11 DEF HttpTypes
<1>6. LibraryInv'
  BY <1>1 DEF LibraryInv
<1>7. Sizes'
  <2>1. Length[u] \in Nat
    BY <1>4, Lengths
  <2> QED
    BY <1>1, <1>11, <2>1 DEF Sizes
<1>8. ThreadInv'
  <2>1. ~overwritten => OwnCovers'
    BY <1>1, <1>3, <1>4, <1>11 DEF ThreadInv, OwnCovers, Http!exist, Http!Absent
  <2> QED
    BY <1>1, <1>3, <1>4, <1>11, <2>1 DEF ThreadInv, CoverOrNone
<1>9. MainInv'
  BY <1>1, MainKept
<1> QED
  BY <1>5, <1>6, <1>7, <1>8, <1>9

LEMMA ServedKeeps ==
  ASSUME HttpInv, Http!Served
  PROVE  HttpInv'
<1> USE DEF HttpInv
<1> DEFINE u == downloads[slot].url
<1>1. /\ at["thread"] = "done" /\ at'["thread"] = "idle" /\ at'["main"] = at["main"]
      /\ at' \in [{"main", "thread"} -> Places]
      /\ downloads' = downloads /\ downloads_max' = downloads_max /\ saved' = saved
      /\ slot' = (slot + 1) % MAX_DOWN_LIST
      /\ job' = job /\ lc' = lc /\ first_pkg' = first_pkg /\ (mm_shutdown' <=> mm_shutdown)
      /\ offered' = offered /\ early' = early /\ (overwritten' <=> overwritten)
      /\ http' = http
  BY DEF Http!Served, Http!queue, Http!work, Http!Goes, Http!NextSlot, HttpTypes, Places
<1>2. /\ load' \in [{"main", "thread"} -> [url : Http!Name, got : Nat, ret : Int]]
      /\ load'["main"] = load["main"]
      /\ load'["thread"].url = Http!NoName /\ load'["thread"].got = 0
  BY Names DEF Http!Served, Http!NoLoad, HttpTypes
<1>3. u \in CoverOrNone /\ u \in Http!Name /\ slot' \in 0 .. MAX_DOWN_LIST - 1
  BY <1>1, Names, Lengths DEF HttpTypes, CoverOrNone
<1>4. IF file[u].size < Kilo THEN file' = [file EXCEPT ![u] = Http!Absent] ELSE file' = file
  BY DEF Http!Served, Http!Remove, Http!Local
<1>10. /\ file' \in [Http!Name -> [of : Http!Name, size : Nat]]
       /\ \A f \in Http!Name : file'[f] = file[f] \/ (f = u /\ file'[f] = Http!Absent)
       /\ file'[u] = Http!Absent \/ (file'[u] = file[u] /\ ~(file[u].size < Kilo))
  <2>1. Http!Absent \in [of : Http!Name, size : Nat]
    BY Names DEF Http!Absent
  <2> QED
    BY <1>3, <1>4, <2>1 DEF HttpTypes
<1>5. HttpTypes'
  BY <1>1, <1>2, <1>3, <1>10 DEF HttpTypes
<1>6. LibraryInv'
  BY <1>1 DEF LibraryInv
<1>7. Sizes'
  <2>1. Http!Absent.size = 0 /\ Http!Absent.of = Http!NoName /\ 0 <= Length[Http!NoName]
    BY Names, Lengths DEF Http!Absent
  <2>2. \A f \in Http!Name : file'[f].size <= Length[file'[f].of]
    BY <1>10, <2>1 DEF Sizes
  <2> QED
    BY <1>2, <2>1, <2>2 DEF Sizes
<1>8. ThreadInv'
  <2>1. \A f \in Http!Name : file[f].size \in Nat
    BY DEF HttpTypes
  <2>2. ASSUME ~overwritten PROVE OwnCovers'
    <3> SUFFICES ASSUME NEW f \in Cover, file'[f] # Http!Absent
                 PROVE  file'[f].of = f /\ file'[f].size >= Kilo
      BY <1>1 DEF OwnCovers, Http!exist, Http!Absent
    <3>1. file'[f] = file[f] /\ f \in Http!Name
      BY <1>10, Names
    <3>2. file[f].of = f /\ (file[f].size >= Kilo \/ f = u)
      BY <2>2, <3>1 DEF ThreadInv, OwnCovers, Http!exist
    <3>3. f = u => ~(file[f].size < Kilo)
      BY <1>10
    <3> QED
      BY <2>1, <3>1, <3>2, <3>3, Lengths
  <2> QED
    BY <1>1, <2>2 DEF ThreadInv
<1>9. MainInv'
  <2>1. \A f \in Own : file'[f] = file[f]
    BY <1>3, <1>10, Names
  <2> QED
    BY <1>1, <1>2, <2>1, MainKept
<1> QED
  BY <1>5, <1>6, <1>7, <1>8, <1>9

LEMMA AskCoverKeeps ==
  ASSUME HttpInv, NEW a, Http!AskCover(a)
  PROVE  HttpInv'
<1> USE DEF HttpInv
<1>1. /\ at' = at /\ load' = load /\ saved' = saved /\ file' = file /\ slot' = slot
      /\ downloads_max' = downloads_max
      /\ job' = job /\ lc' = lc /\ first_pkg' = first_pkg /\ (mm_shutdown' <=> mm_shutdown)
      /\ offered' = offered /\ early' = early /\ http' = http
  BY DEF Http!AskCover, Http!queue, Http!transfer, Http!work
<1>2. \/ downloads' = downloads /\ (overwritten' <=> overwritten)
      \/ /\ \E f \in Cover : downloads' = [downloads EXCEPT ![downloads_max].url = f]
         /\ ~overwritten' => ~overwritten /\ (at["thread"] = "idle" \/ slot # downloads_max)
  <2>1. PICK f \in Cover :
          IF Http!is_in_queue(f) THEN UNCHANGED << Http!queue, overwritten >>
          ELSE /\ downloads' = [downloads EXCEPT ![downloads_max].url = f]
               /\ asking' = [asking EXCEPT ![a] = f]
               /\ overwritten' = (overwritten \/ \E b \in Http!Asker : asking[b] # Http!NoName
                                    \/ (at["thread"] # "idle" /\ slot = downloads_max))
               /\ UNCHANGED downloads_max
    BY Zenon DEF Http!AskCover
  <2>2. CASE Http!is_in_queue(f)
    BY <2>1, <2>2 DEF Http!queue
  <2>3. CASE ~Http!is_in_queue(f)
    <3>1. ~overwritten' => ~overwritten /\ (at["thread"] = "idle" \/ slot # downloads_max)
      <4>1. "main" \in Http!Asker
        BY DEF Http!Asker
      <4> QED
        BY <2>1, <2>3, <4>1, Zenon
    <3>2. downloads' = [downloads EXCEPT ![downloads_max].url = f]
      BY <2>1, <2>3, Zenon
    <3> QED
      BY <3>1, <3>2
  <2> QED
    BY <2>2, <2>3
<1>3. CASE downloads' = downloads /\ (overwritten' <=> overwritten)
  <2>1. HttpTypes' /\ LibraryInv' /\ Sizes'
    BY <1>1, <1>3 DEF HttpTypes, LibraryInv, Sizes
  <2>2. ThreadInv'
    BY <1>1, <1>3, ThreadKept
  <2>3. MainInv'
    BY <1>1, MainKept
  <2> QED
    BY <2>1, <2>2, <2>3
<1>4. ASSUME NEW f \in Cover, downloads' = [downloads EXCEPT ![downloads_max].url = f],
             ~overwritten' => ~overwritten /\ (at["thread"] = "idle" \/ slot # downloads_max)
      PROVE  HttpInv'
  <2> DEFINE asked == [downloads[downloads_max] EXCEPT !.url = f]
  <2>1. asked \in [url : CoverOrNone, status : 0 .. 2] /\ asked.url = f
    BY DEF HttpTypes, CoverOrNone
  <2>2. downloads' = [downloads EXCEPT ![downloads_max] = asked]
    BY <1>4
  <2> HIDE DEF asked
  <2>3. /\ downloads' \in [0 .. MAX_DOWN_LIST - 1 -> [url : CoverOrNone, status : 0 .. 2]]
        /\ downloads'[slot].url \in {f, downloads[slot].url}
        /\ slot # downloads_max => downloads'[slot] = downloads[slot]
    BY <2>1, <2>2 DEF HttpTypes
  <2>4. HttpTypes' /\ LibraryInv' /\ Sizes'
    BY <1>1, <2>3 DEF HttpTypes, LibraryInv, Sizes
  <2>5. ThreadInv'
    <3>1. ~overwritten' => OwnCovers'
      BY <1>1, <1>4, <2>3 DEF ThreadInv, OwnCovers, Http!exist, Http!Absent
    <3> QED
      BY <1>1, <2>3, <3>1 DEF ThreadInv
  <2>6. MainInv'
    BY <1>1, MainKept
  <2> QED
    BY <2>4, <2>5, <2>6
<1> QED
  BY <1>2, <1>3, <1>4

LEMMA AskedKeeps ==
  ASSUME HttpInv, NEW a, Http!Asked(a)
  PROVE  HttpInv'
<1> USE DEF HttpInv
<1>1. /\ at' = at /\ load' = load /\ saved' = saved /\ file' = file /\ slot' = slot
      /\ downloads_max' = (downloads_max + 1) % MAX_DOWN_LIST
      /\ downloads' = [downloads EXCEPT ![downloads_max].status = 1]
      /\ job' = job /\ lc' = lc /\ first_pkg' = first_pkg /\ (mm_shutdown' <=> mm_shutdown)
      /\ offered' = offered /\ early' = early /\ http' = http /\ (overwritten' <=> overwritten)
  BY DEF Http!Asked, Http!transfer, Http!work
<1> DEFINE asked == [downloads[downloads_max] EXCEPT !.status = 1]
<1>2. asked \in [url : CoverOrNone, status : 0 .. 2] /\ asked.url = downloads[downloads_max].url
  BY DEF HttpTypes
<1>3. downloads' = [downloads EXCEPT ![downloads_max] = asked]
  BY <1>1
<1> HIDE DEF asked
<1>4. /\ downloads' \in [0 .. MAX_DOWN_LIST - 1 -> [url : CoverOrNone, status : 0 .. 2]]
      /\ downloads'[slot].url = downloads[slot].url
  BY <1>2, <1>3 DEF HttpTypes
<1>10. downloads_max' \in 0 .. MAX_DOWN_LIST - 1
  BY <1>1, Lengths DEF HttpTypes
<1>5. HttpTypes' /\ LibraryInv' /\ Sizes'
  BY <1>1, <1>4, <1>10 DEF HttpTypes, LibraryInv, Sizes
<1>6. ThreadInv'
  BY <1>1, <1>4, ThreadKept
<1>7. MainInv'
  BY <1>1, MainKept
<1> QED
  BY <1>5, <1>6, <1>7

-----------------------------------------------------------------------------
(***************************************************************************)
(* The download of the main loop.                                          *)
(***************************************************************************)
\* What is true of each: it writes none but its own file, the thread and the ring stay.
OnlyMain(u) ==
  /\ at' \in [{"main", "thread"} -> Places] /\ at'["thread"] = at["thread"]
  /\ load' \in [{"main", "thread"} -> [url : Http!Name, got : Nat, ret : Int]]
  /\ load'["thread"] = load["thread"]
  /\ saved' \in [{"main", "thread"} -> Http!Name] /\ saved'["thread"] = saved["thread"]
  /\ downloads' = downloads /\ downloads_max' = downloads_max /\ slot' = slot
  /\ (overwritten' <=> overwritten)
  /\ file' \in [Http!Name -> [of : Http!Name, size : Nat]]
  /\ \A f \in Http!Name : file'[f] = file[f] \/ f \in u

LEMMA MainStep ==
  ASSUME HttpInv, NEW u \in SUBSET Own, OnlyMain(u),
         \A f \in u : file'[f].size <= Length[file'[f].of],
         load'["main"].got <= Length[load'["main"].url]
  PROVE  HttpTypes' /\ Sizes' /\ ThreadInv'
<1> USE DEF HttpInv
<1>1. HttpTypes'
  BY DEF OnlyMain, HttpTypes
<1>2. Sizes'
  BY DEF OnlyMain, Sizes
<1>3. ThreadInv'
  <2>1. \A f \in Cover : file'[f] = file[f]
    BY Names DEF OnlyMain, CoverOrNone
  <2> QED
    BY <2>1, ThreadKept DEF OnlyMain
<1> QED
  BY <1>1, <1>2, <1>3

\* While a job runs, a step that leaves the files of the earlier packages alone keeps them good.
LEMMA EarlierKept ==
  ASSUME MainInv, job = "game",
         \A f \in Own : f # Url => file'[f] = file[f] /\ (f \in early => f \in early')
  PROVE  \A n \in first_pkg .. lc - 1 : Good(Package[n])'
<1> SUFFICES ASSUME NEW n \in first_pkg .. lc - 1 PROVE Good(Package[n])'
  OBVIOUS
<1>1. /\ lc \in 1 .. Len(Package) /\ first_pkg \in 1 .. lc /\ Url = Package[lc]
      /\ Good(Package[n])
  BY DEF MainInv
<1>2. n \in 1 .. Len(Package) /\ n # lc
  BY <1>1, Packages
<1>3. Package[n] \in Own /\ Package[n] # Url
  BY <1>1, <1>2, Packages
<1> QED
  BY <1>1, <1>3 DEF Good, Http!Whole

LEMMA AbsentFits == /\ Http!Absent \in [of : Http!Name, size : Nat]
                    /\ Http!Absent.size <= Length[Http!Absent.of]
  BY Names, Lengths DEF Http!Absent

LEMMA MainInit ==
  ASSUME HttpInv, Http!HttpInit("main")
  PROVE  HttpInv'
<1> USE DEF HttpInv
<1>1. /\ at["main"] = "init" /\ at'["main"] \in {"quit", "request"} /\ at'["thread"] = at["thread"]
      /\ at' \in [{"main", "thread"} -> Places] /\ load' = load /\ saved' = saved
      /\ downloads' = downloads /\ downloads_max' = downloads_max /\ slot' = slot
      /\ job' = job /\ lc' = lc /\ first_pkg' = first_pkg /\ (mm_shutdown' <=> mm_shutdown)
      /\ offered' = offered /\ early' = early /\ (overwritten' <=> overwritten)
  BY DEF Http!HttpInit, HttpTypes, Places, Http!queue, Http!work, Http!Goes
<1>2. job # "idle" /\ Url \in Own /\ Url \in Http!Name
  BY <1>1, Names DEF MainInv
<1>3. file' = file \/ file' = [file EXCEPT ![Url] = Http!Absent]
  BY DEF Http!HttpInit, Http!Remove, Http!Local, Url
<1>4. /\ file' \in [Http!Name -> [of : Http!Name, size : Nat]]
      /\ \A f \in Http!Name : file'[f] = file[f] \/ (f = Url /\ file'[f] = Http!Absent)
  BY <1>2, <1>3, AbsentFits DEF HttpTypes
<1>5. HttpTypes' /\ Sizes' /\ ThreadInv'
  <2>1. OnlyMain({Url})
    BY <1>1, <1>4 DEF OnlyMain, HttpTypes
  <2>2. file'[Url].size <= Length[file'[Url].of]
    BY <1>2, <1>4, AbsentFits DEF Sizes
  <2> QED
    BY <1>1, <1>2, <2>1, <2>2, MainStep DEF Sizes
<1>6. LibraryInv'
  BY DEF Http!HttpInit, LibraryInv
<1>7. MainInv'
  <2>1. Url' = Url /\ (Http!asksSize' <=> Http!asksSize)
    BY <1>1 DEF Url, Http!asksSize
  <2>2. \A f \in Own : Http!exist(f)' => file'[f].of = f
    BY <1>4, Names DEF MainInv, Http!exist, Http!Absent
  <2>3. job = "game" => \A n \in first_pkg .. lc - 1 : Good(Package[n])'
    BY <1>1, <1>4, Names, EarlierKept
  <2>4. load["main"].ret = 1 => Http!asksSize
    BY <1>1, <1>2 DEF MainInv, Downloaded
  <2> QED
    BY <1>1, <1>2, <2>1, <2>2, <2>3, <2>4 DEF MainInv
<1> QED
  BY <1>5, <1>6, <1>7

LEMMA MainRequest ==
  ASSUME HttpInv, Http!Request("main")
  PROVE  HttpInv'
<1> USE DEF HttpInv
<1>1. /\ at["main"] = "request" /\ at'["main"] \in {"quit", "receive"} /\ at'["thread"] = at["thread"]
      /\ at' \in [{"main", "thread"} -> Places]
      /\ downloads' = downloads /\ downloads_max' = downloads_max /\ slot' = slot
      /\ job' = job /\ lc' = lc /\ first_pkg' = first_pkg /\ (mm_shutdown' <=> mm_shutdown)
      /\ offered' = offered /\ early' = early /\ (overwritten' <=> overwritten) /\ http' = http
  BY DEF Http!Request, HttpTypes, Places, Http!queue, Http!work, Http!Goes
<1>2. job # "idle" /\ Url \in Own /\ Url \in Http!Name /\ load["main"].got = 0
  BY <1>1, Names DEF MainInv
<1>3. Length[Url] \in Nat \ {0}
  BY <1>2, Lengths
<1>4. \/ /\ at'["main"] = "receive" /\ ~Http!asksSize /\ load' = load
         /\ saved' = [saved EXCEPT !["main"] = Url]
         /\ file' = [file EXCEPT ![Url] = [of |-> Url, size |-> 0]]
      \/ /\ at'["main"] = "quit" /\ saved' = saved /\ file' = file /\ Http!asksSize
         /\ load' = [load EXCEPT !["main"].ret = Length[Url]]
      \/ /\ at'["main"] = "quit" /\ saved' = saved /\ file' = file
         /\ load' \in {load, [load EXCEPT !["main"].ret = IF Http!asksSize THEN 0 ELSE -1]}
  <2>1. CASE Http!asksSize
    BY <2>1 DEF Http!Request, Http!Goes, Http!Local, Http!Saves, HttpTypes, Url
  <2>2. CASE ~Http!asksSize
    BY <2>2 DEF Http!Request, Http!Goes, Http!Local, Http!Saves, HttpTypes, Url
  <2> QED
    BY <2>1, <2>2
<1>10. /\ load' \in [{"main", "thread"} -> [url : Http!Name, got : Nat, ret : Int]]
       /\ load'["thread"] = load["thread"] /\ Url' = Url /\ load'["main"].got = 0
       /\ saved' \in [{"main", "thread"} -> Http!Name] /\ saved'["thread"] = saved["thread"]
  BY <1>2, <1>3, <1>4 DEF HttpTypes, Url
<1>11. /\ file' \in [Http!Name -> [of : Http!Name, size : Nat]]
       /\ \A f \in Http!Name : file'[f] = file[f] \/ (f = Url /\ file'[f] = [of |-> Url, size |-> 0])
  <2> DEFINE new == [of |-> Url, size |-> 0]
  <2>1. new \in [of : Http!Name, size : Nat]
    BY <1>2
  <2>2. file' = file \/ file' = [file EXCEPT ![Url] = new]
    BY <1>4
  <2> HIDE DEF new
  <2>3. \A f \in Http!Name : file'[f] = file[f] \/ (f = Url /\ file'[f] = new)
    BY <1>2, <2>1, <2>2 DEF HttpTypes
  <2>4. file' \in [Http!Name -> [of : Http!Name, size : Nat]]
    BY <1>2, <2>1, <2>2 DEF HttpTypes
  <2> QED
    BY <2>3, <2>4 DEF new
<1>5. HttpTypes' /\ Sizes' /\ ThreadInv'
  <2>1. OnlyMain({Url})
    BY <1>1, <1>10, <1>11 DEF OnlyMain
  <2>2. file'[Url].size <= Length[file'[Url].of]
    <3>1. CASE file'[Url] = file[Url]
      BY <1>2, <3>1 DEF Sizes
    <3>2. CASE file'[Url] = [of |-> Url, size |-> 0]
      BY <1>3, <3>2
    <3> QED
      BY <1>2, <1>11, <3>1, <3>2
  <2>3. load'["main"].got <= Length[load'["main"].url]
    BY <1>3, <1>10 DEF Url
  <2> QED
    BY <1>2, <2>1, <2>2, <2>3, MainStep
<1>6. LibraryInv'
  BY <1>1 DEF LibraryInv
<1>7. MainInv'
  <2>1. Http!asksSize' <=> Http!asksSize
    BY <1>1 DEF Http!asksSize
  <2>2. \A f \in Own : Http!exist(f)' => file'[f].of = f
    BY <1>11, Names DEF MainInv, Http!exist, Http!Absent
  <2>3. job = "game" => \A n \in first_pkg .. lc - 1 : Good(Package[n])'
    BY <1>1, <1>11, Names, EarlierKept
  <2>4. load["main"].ret = 1 => Http!asksSize
    BY <1>1, <1>2 DEF MainInv, Downloaded
  <2>5. Http!asksSize => load["main"].ret \in {0, Length[Url]}
    BY DEF MainInv
  <2>6. Http!asksSize => load'["main"].ret \in {0, Length[Url]}
    BY <1>4, <2>5 DEF HttpTypes
  <2>7. load'["main"].ret = 1 => Http!asksSize
    BY <1>4, <2>4 DEF HttpTypes
  <2>8. at'["main"] = "receive" =>
          /\ saved'["main"] = Url /\ ~Http!asksSize /\ file'[Url] = [of |-> Url, size |-> 0]
    BY <1>2, <1>4 DEF HttpTypes
  <2> QED
    BY <1>1, <1>2, <1>10, <2>1, <2>2, <2>3, <2>6, <2>7, <2>8 DEF MainInv
<1> QED
  BY <1>5, <1>6, <1>7

LEMMA MainReceive ==
  ASSUME HttpInv, Http!Receive("main")
  PROVE  HttpInv'
<1> USE DEF HttpInv
<1> DEFINE g == load["main"].got
<1>1. /\ at["main"] = "receive" /\ g < Length[Url] /\ at' = at /\ saved' = saved
      /\ load' = [load EXCEPT !["main"].got = g + 1]
      /\ downloads' = downloads /\ downloads_max' = downloads_max /\ slot' = slot
      /\ job' = job /\ lc' = lc /\ first_pkg' = first_pkg /\ (mm_shutdown' <=> mm_shutdown)
      /\ offered' = offered /\ early' = early /\ (overwritten' <=> overwritten) /\ http' = http
  BY DEF Http!Receive, Http!queue, Http!work, Url
<1>2. job # "idle" /\ Url \in Own /\ Url \in Http!Name /\ Url # Http!NoName
  BY <1>1, Names DEF MainInv, CoverOrNone
<1>3. saved["main"] = Url /\ ~Http!asksSize /\ file[Url] = [of |-> Url, size |-> g] /\ g \in Nat
  BY <1>1 DEF MainInv, HttpTypes
<1>4. file' = [file EXCEPT ![Url].size = g + 1]
  <2>1. file[Url].of = Url /\ file[Url].size = g
    BY <1>3
  <2>2. file[Url] # Http!Absent
    BY <1>2, <2>1 DEF Http!Absent
  <2> QED
    BY <1>3, <2>1, <2>2 DEF Http!Receive
<1>10. /\ file'[Url] = [of |-> Url, size |-> g + 1] /\ \A f \in Http!Name : f # Url => file'[f] = file[f]
       /\ file' \in [Http!Name -> [of : Http!Name, size : Nat]]
  BY <1>2, <1>3, <1>4 DEF HttpTypes
<1>11. /\ load'["thread"] = load["thread"] /\ Url' = Url /\ load'["main"].got = g + 1
       /\ load'["main"].ret = load["main"].ret
       /\ load' \in [{"main", "thread"} -> [url : Http!Name, got : Nat, ret : Int]]
  BY <1>1, <1>3 DEF HttpTypes, Url
<1>12. g + 1 <= Length[Url]
  BY <1>1, <1>2, <1>3, Lengths
<1>5. HttpTypes' /\ Sizes' /\ ThreadInv'
  <2>1. OnlyMain({Url})
    BY <1>1, <1>10, <1>11 DEF OnlyMain, HttpTypes
  <2>2. file'[Url].size <= Length[file'[Url].of]
    BY <1>10, <1>12
  <2>3. load'["main"].got <= Length[load'["main"].url]
    BY <1>11, <1>12 DEF Url
  <2> QED
    BY <1>2, <2>1, <2>2, <2>3, MainStep
<1>6. LibraryInv'
  BY <1>1 DEF LibraryInv
<1>7. MainInv'
  <2>1. Http!asksSize' <=> Http!asksSize
    BY <1>1 DEF Http!asksSize
  <2>2. \A f \in Own : Http!exist(f)' => file'[f].of = f
    BY <1>10, Names DEF MainInv, Http!exist, Http!Absent
  <2>3. job = "game" => \A n \in first_pkg .. lc - 1 : Good(Package[n])'
    BY <1>1, <1>10, Names, EarlierKept
  <2>4. load["main"].ret # 1
    BY <1>1, <1>2, <1>3 DEF MainInv, Downloaded
  <2> QED
    BY <1>1, <1>2, <1>3, <1>10, <1>11, <2>1, <2>2, <2>3, <2>4 DEF MainInv
<1> QED
  BY <1>5, <1>6, <1>7

LEMMA MainReceived ==
  ASSUME HttpInv, Http!Received("main") \/ Http!ReceiveFails("main") \/ Http!Cancel
  PROVE  HttpInv'
<1> USE DEF HttpInv
<1> DEFINE g == load["main"].got
<1>1. /\ at["main"] = "receive" /\ at'["main"] = "quit" /\ at'["thread"] = at["thread"]
      /\ at' \in [{"main", "thread"} -> Places] /\ saved' = saved
      /\ downloads' = downloads /\ downloads_max' = downloads_max /\ slot' = slot
      /\ job' = job /\ lc' = lc /\ first_pkg' = first_pkg /\ (mm_shutdown' <=> mm_shutdown)
      /\ offered' = offered /\ (overwritten' <=> overwritten) /\ http' = http
  BY DEF Http!Received, Http!ReceiveFails, Http!Cancel, Http!queue, Http!work, Http!Goes, HttpTypes,
         Places
<1>2. job # "idle" /\ Url \in Own /\ Url \in Http!Name /\ offered = {} /\ ~mm_shutdown
  BY <1>1, Names DEF MainInv
<1>3. saved["main"] = Url /\ ~Http!asksSize /\ file[Url] = [of |-> Url, size |-> g] /\ g \in Nat
  BY <1>1 DEF MainInv, HttpTypes
<1>4. \/ /\ file' = file /\ load' = [load EXCEPT !["main"].ret = 1]
         /\ early' = IF g < Length[Url] THEN early \cup {Url} ELSE early \ {Url}
      \/ file' = file /\ load' = load /\ early' = early
      \/ /\ file' = [file EXCEPT ![Url] = Http!Absent] /\ load' = [load EXCEPT !["main"].ret = 2]
         /\ early' = early
  BY DEF Http!Received, Http!ReceiveFails, Http!Cancel, Http!Remove, Url
<1>8. file' = file \/ file' = [file EXCEPT ![Url] = Http!Absent]
  BY <1>4
<1>9. load' = load \/ \E n \in {1, 2} : load' = [load EXCEPT !["main"].ret = n]
  BY <1>4
<1>10. /\ file' \in [Http!Name -> [of : Http!Name, size : Nat]]
       /\ \A f \in Http!Name : file'[f] = file[f] \/ (f = Url /\ file'[f] = Http!Absent)
  BY <1>2, <1>8, AbsentFits DEF HttpTypes
<1>11. /\ load'["thread"] = load["thread"] /\ Url' = Url /\ load'["main"].got = g
       /\ load' \in [{"main", "thread"} -> [url : Http!Name, got : Nat, ret : Int]]
  BY <1>9 DEF HttpTypes, Url
<1>5. HttpTypes' /\ Sizes' /\ ThreadInv'
  <2>1. OnlyMain({Url})
    BY <1>1, <1>10, <1>11 DEF OnlyMain, HttpTypes
  <2>2. file'[Url].size <= Length[file'[Url].of]
    BY <1>2, <1>10, AbsentFits DEF Sizes
  <2>3. load'["main"].got <= Length[load'["main"].url]
    BY <1>11 DEF Url, Sizes
  <2> QED
    BY <1>2, <2>1, <2>2, <2>3, MainStep
<1>6. LibraryInv'
  BY <1>1 DEF LibraryInv
<1>7. MainInv'
  <2>1. Http!asksSize' <=> Http!asksSize
    BY <1>1 DEF Http!asksSize
  <2>2. \A f \in Own : Http!exist(f)' => file'[f].of = f
    BY <1>10, Names DEF MainInv, Http!exist, Http!Absent
  <2>3. job = "game" => \A n \in first_pkg .. lc - 1 : Good(Package[n])'
    BY <1>1, <1>4, <1>10, Names, EarlierKept
  <2>4. load["main"].ret # 1
    BY <1>1, <1>2, <1>3 DEF MainInv, Downloaded
  <2>5. load'["main"].ret = 1 => Downloaded'
    <3> SUFFICES ASSUME load'["main"].ret = 1 PROVE Downloaded'
      OBVIOUS
    <3>1. file' = file /\ early' = IF g < Length[Url] THEN early \cup {Url} ELSE early \ {Url}
      BY <1>4, <2>4 DEF HttpTypes
    <3>2. g <= Length[Url] /\ Length[Url] \in Nat \ {0}
      BY <1>2, Lengths DEF Sizes, Url
    <3>3. CASE g < Length[Url]
      BY <1>1, <1>11, <3>1, <3>3 DEF Downloaded, Good
    <3>4. CASE ~(g < Length[Url])
      <4>1. g = Length[Url] /\ g > 0
        BY <1>3, <3>2, <3>4
      <4>2. file'[Url] = [of |-> Url, size |-> Length[Url]]
        BY <1>3, <3>1, <4>1
      <4>3. Good(Url)'
        BY <1>11, <4>2 DEF Good, Http!Whole
      <4> QED
        BY <1>1, <1>11, <4>1, <4>3 DEF Downloaded
    <3> QED
      BY <3>3, <3>4
  <2> QED
    BY <1>1, <1>2, <1>3, <1>11, <2>1, <2>2, <2>3, <2>5 DEF MainInv
<1> QED
  BY <1>5, <1>6, <1>7

LEMMA MainQuit ==
  ASSUME HttpInv, Http!Quit("main")
  PROVE  HttpInv'
<1> USE DEF HttpInv
<1>1. /\ at["main"] = "quit" /\ at'["main"] = "done" /\ at'["thread"] = at["thread"]
      /\ at' \in [{"main", "thread"} -> Places] /\ load' = load
      /\ downloads' = downloads /\ downloads_max' = downloads_max /\ slot' = slot
      /\ job' = job /\ lc' = lc /\ first_pkg' = first_pkg /\ (mm_shutdown' <=> mm_shutdown)
      /\ offered' = offered /\ early' = early /\ (overwritten' <=> overwritten)
      /\ http'.live = {}
  BY DEF Http!Quit, Http!queue, Http!work, Http!Goes, HttpTypes, Places
<1>2. job # "idle" /\ Url \in Own /\ Url \in Http!Name /\ offered = {} /\ ~mm_shutdown
  BY <1>1, Names DEF MainInv
<1>3. /\ saved' \in [{"main", "thread"} -> Http!Name] /\ saved'["thread"] = saved["thread"]
  BY Names DEF Http!Quit, HttpTypes
<1>4. \/ file' = file
      \/ ~Http!asksSize /\ load["main"].got = 0 /\ file' = [file EXCEPT ![Url] = Http!Absent]
  BY <1>2 DEF Http!Quit, Http!Remove, Http!Local, Http!Saves, Url
<1>10. /\ file' \in [Http!Name -> [of : Http!Name, size : Nat]]
       /\ \A f \in Http!Name : file'[f] = file[f] \/ (f = Url /\ file'[f] = Http!Absent)
  BY <1>2, <1>4, AbsentFits DEF HttpTypes
<1>5. HttpTypes' /\ Sizes' /\ ThreadInv'
  <2>1. OnlyMain({Url})
    BY <1>1, <1>3, <1>10 DEF OnlyMain, HttpTypes
  <2>2. file'[Url].size <= Length[file'[Url].of]
    BY <1>2, <1>10, AbsentFits DEF Sizes
  <2>3. load'["main"].got <= Length[load'["main"].url]
    BY <1>1 DEF Sizes
  <2> QED
    BY <1>2, <2>1, <2>2, <2>3, MainStep
<1>6. LibraryInv'
  BY <1>1 DEF LibraryInv
<1>7. MainInv'
  <2>1. Url' = Url /\ (Http!asksSize' <=> Http!asksSize)
    BY <1>1 DEF Url, Http!asksSize
  <2>2. \A f \in Own : Http!exist(f)' => file'[f].of = f
    BY <1>10, Names DEF MainInv, Http!exist, Http!Absent
  <2>3. job = "game" => \A n \in first_pkg .. lc - 1 : Good(Package[n])'
    BY <1>1, <1>10, Names, EarlierKept
  <2>4. ~Http!asksSize /\ load["main"].ret = 1 => Downloaded'
    <3> SUFFICES ASSUME ~Http!asksSize, load["main"].ret = 1 PROVE Downloaded'
      OBVIOUS
    <3>1. Good(Url) /\ (load["main"].got > 0 \/ Url \in early)
      BY <1>1, <1>2 DEF MainInv, Downloaded
    <3>2. Good(Url)'
      BY <1>1, <1>4, <2>1, <3>1 DEF Good, Http!Whole
    <3> QED
      BY <1>1, <3>2 DEF Downloaded
  <2> QED
    BY <1>1, <1>2, <2>1, <2>2, <2>3, <2>4 DEF MainInv
<1> QED
  BY <1>5, <1>6, <1>7

-----------------------------------------------------------------------------
(***************************************************************************)
(* The jobs of the main loop.  A step of a job leaves the thread and its   *)
(* covers alone, and removes files or writes a version of one piece.       *)
(***************************************************************************)
Fresh(f) == [url |-> f, got |-> 0, ret |-> 0]

JobFrame ==
  /\ downloads' = downloads /\ downloads_max' = downloads_max /\ slot' = slot /\ saved' = saved
  /\ http' = http /\ (mm_shutdown' <=> mm_shutdown) /\ (overwritten' <=> overwritten)

JobFiles ==
  /\ file' \in [Http!Name -> [of : Http!Name, size : Nat]]
  /\ \A f \in Http!Name : \/ file'[f] = file[f]
                          \/ f \in Own /\ file'[f] \in {Http!Absent, [of |-> f, size |-> 1]}

LEMMA JobKeeps ==
  ASSUME HttpInv, JobFrame, JobFiles, NEW where \in Places, NEW f \in Http!Name,
         at' = [at EXCEPT !["main"] = where], load' = [load EXCEPT !["main"] = Fresh(f)]
  PROVE  /\ HttpTypes' /\ LibraryInv' /\ Sizes' /\ ThreadInv'
         /\ at'["main"] = where /\ load'["main"] = Fresh(f)
         /\ \A g \in Own : Http!exist(g)' => file'[g].of = g
<1> USE DEF HttpInv
<1>1. /\ at' \in [{"main", "thread"} -> Places] /\ at'["thread"] = at["thread"]
      /\ at'["main"] = where
  BY DEF HttpTypes
<1>2. Fresh(f) \in [url : Http!Name, got : Nat, ret : Int] /\ Fresh(f).got = 0 /\ Fresh(f).url = f
  BY DEF Fresh
<1>3. /\ load' \in [{"main", "thread"} -> [url : Http!Name, got : Nat, ret : Int]]
      /\ load'["thread"] = load["thread"] /\ load'["main"] = Fresh(f)
  BY <1>2 DEF HttpTypes
<1> DEFINE u == {g \in Own : file'[g] # file[g]}
<1>4. OnlyMain(u)
  BY <1>1, <1>3 DEF OnlyMain, JobFrame, JobFiles, HttpTypes
<1>5. \A g \in u : file'[g].size <= Length[file'[g].of]
  <2> SUFFICES ASSUME NEW g \in u PROVE file'[g].size <= Length[file'[g].of]
    OBVIOUS
  <2>1. g \in Http!Name /\ Length[g] \in Nat \ {0}
    BY Names, Lengths
  <2>2. CASE file'[g] = Http!Absent
    BY <2>2, AbsentFits
  <2>3. CASE file'[g] = [of |-> g, size |-> 1]
    BY <2>1, <2>3
  <2> QED
    BY <2>1, <2>2, <2>3 DEF JobFiles
<1>6. load'["main"].got <= Length[load'["main"].url]
  BY <1>2, <1>3, Lengths
<1>7. HttpTypes' /\ Sizes' /\ ThreadInv'
  BY <1>4, <1>5, <1>6, MainStep
<1>8. LibraryInv'
  BY DEF JobFrame, LibraryInv
<1>9. \A g \in Own : Http!exist(g)' => file'[g].of = g
  <2> SUFFICES ASSUME NEW g \in Own, Http!exist(g)' PROVE file'[g].of = g
    OBVIOUS
  <2>1. file'[g] # Http!Absent /\ g \in Http!Name
    BY Names DEF Http!exist, Http!Absent
  <2>2. CASE file'[g] = file[g]
    BY <2>1, <2>2 DEF MainInv, Http!exist
  <2>3. CASE file'[g] = [of |-> g, size |-> 1]
    BY <2>3
  <2> QED
    BY <2>1, <2>2, <2>3 DEF JobFiles
<1> QED
  BY <1>1, <1>3, <1>7, <1>8, <1>9

\* A job that starts or goes on, with a download that begins (or, without a network, is over).
LEMMA JobGoesOn ==
  ASSUME HttpInv, JobFrame, JobFiles, NEW j, NEW where \in {"init", "done"}, NEW f \in Own,
         job' = j, j # "idle", at' = [at EXCEPT !["main"] = where],
         load' = [load EXCEPT !["main"] = Fresh(f)], ~mm_shutdown, offered' = {},
         j \in {"update", "update_size"} => f = Http!Update, j = "theme" => f = "theme",
         j = "game" => /\ lc' \in 1 .. Len(Package) /\ first_pkg' \in 1 .. lc' /\ f = Package[lc']
                       /\ \A n \in first_pkg' .. lc' - 1 : Good(Package[n])'
  PROVE  HttpInv'
<1>1. /\ HttpTypes' /\ LibraryInv' /\ Sizes' /\ ThreadInv'
      /\ at'["main"] = where /\ load'["main"] = Fresh(f)
      /\ \A g \in Own : Http!exist(g)' => file'[g].of = g
  BY JobKeeps, Names DEF Places
<1>2. load'["main"].got = 0 /\ load'["main"].ret = 0 /\ Url' = f
  BY <1>1 DEF Fresh, Url
<1>3. MainInv'
  BY <1>1, <1>2 DEF MainInv, JobFrame
<1> QED
  BY <1>1, <1>3 DEF HttpInv

LEMMA JobOn ==
  ASSUME HttpInv, JobFrame, JobFiles, NEW j, NEW f \in Own, Http!GoesOn(j, f), j # "idle",
         ~mm_shutdown, offered' = {},
         j \in {"update", "update_size"} => f = Http!Update, j = "theme" => f = "theme",
         j = "game" => /\ lc' \in 1 .. Len(Package) /\ first_pkg' \in 1 .. lc' /\ f = Package[lc']
                       /\ \A n \in first_pkg' .. lc' - 1 : Good(Package[n])'
  PROVE  HttpInv'
<1>1. /\ job' = j /\ at' = [at EXCEPT !["main"] = "init"]
      /\ load' = [load EXCEPT !["main"] = Fresh(f)]
  BY DEF Http!GoesOn, Http!Begins, Fresh
<1> DEFINE where == "init"
<1>2. where \in {"init", "done"} /\ at' = [at EXCEPT !["main"] = where]
  BY <1>1
<1> HIDE DEF where
<1> QED
  BY <1>1, <1>2, JobGoesOn

\* A job that ends.
LEMMA JobEnds ==
  ASSUME HttpInv, JobFrame, JobFiles, Http!Ends,
         \A f \in offered' : f \in Own /\ (Http!Whole(f)' \/ (f # Http!Update /\ f \in early'))
  PROVE  HttpInv'
<1>1. Http!NoLoad = Fresh(Http!NoName) /\ Http!NoName \in Http!Name /\ "idle" \in Places
  BY Names DEF Http!NoLoad, Fresh, Places
<1>2. /\ HttpTypes' /\ LibraryInv' /\ Sizes' /\ ThreadInv'
      /\ at'["main"] = "idle" /\ load'["main"] = Fresh(Http!NoName)
      /\ \A g \in Own : Http!exist(g)' => file'[g].of = g
  BY <1>1, JobKeeps DEF Http!Ends, Http!Goes
<1>3. job' = "idle" /\ ~Http!asksSize'
  BY DEF Http!Ends, Http!asksSize
<1>4. MainInv'
  BY <1>2, <1>3 DEF MainInv
<1> QED
  BY <1>2, <1>4 DEF HttpInv

LEMMA JobFilesKept == ASSUME HttpInv, file' = file PROVE JobFiles
  BY DEF HttpInv, HttpTypes, JobFiles

LEMMA JobFilesGone ==
  ASSUME HttpInv, NEW gone \in SUBSET Own,
         file' = [f \in Http!Name |-> IF f \in gone THEN Http!Absent ELSE file[f]]
  PROVE  JobFiles
  BY AbsentFits DEF HttpInv, HttpTypes, JobFiles

LEMMA JobFileGone ==
  ASSUME HttpInv, NEW f \in Own, file' = Http!Remove(f)
  PROVE  JobFiles
<1>1. file' = [g \in Http!Name |-> IF g \in {f} THEN Http!Absent ELSE file[g]]
  BY Names DEF HttpInv, HttpTypes, Http!Remove
<1> QED
  BY <1>1, JobFilesGone

LEMMA FixedOwn ==
  /\ "version" \in Own /\ "whatsnew" \in Own /\ Http!Update \in Own /\ "showtime.txt" \in Own
  /\ "SHOWTIME.VER" \in Own /\ Http!Showtime \in Own /\ "list" \in Own /\ "themes" \in Own
  /\ "image" \in Own /\ "theme" \in Own /\ "page" \in Own
  BY Names DEF Http!Fixed

\* What the end of a download leaves to the job.
LEMMA FinishedFrame ==
  ASSUME HttpInv, NEW j, Http!Finished(j), j # "idle"
  PROVE  /\ JobFrame /\ job = j /\ at["main"] = "done" /\ ~mm_shutdown /\ offered = {}
         /\ Url \in Own /\ early' = early
<1>1. JobFrame /\ job = j /\ at["main"] = "done" /\ early' = early
  BY DEF Http!Finished, Http!queue, JobFrame
<1> QED
  BY <1>1 DEF HttpInv, MainInv

LEMMA ForegroundKeeps ==
  ASSUME HttpInv, Http!Foreground
  PROVE  HttpInv'
<1>1. JobFrame /\ file' = file /\ offered' = {} /\ ~mm_shutdown
  BY DEF Http!Foreground, Http!queue, JobFrame
<1>2. PICK j \in {"update_version", "showtime_version", "game_list", "themes", "theme_image",
                  "theme", "page"},
           f \in {"version", "showtime.txt", "list", "themes", "image", "theme", "page"},
           where \in {"init", "done"} :
        /\ job' = j /\ (j = "theme" => f = "theme")
        /\ at' = [at EXCEPT !["main"] = where] /\ load' = [load EXCEPT !["main"] = Fresh(f)]
  BY DEF Http!Foreground, Http!Begins, Http!Goes, Fresh
<1>3. f \in Own
  BY FixedOwn
<1>4. JobFiles
  BY <1>1, JobFilesKept
<1> QED
  BY <1>1, <1>2, <1>3, <1>4, JobGoesOn

LEMMA UpdateVersionKeeps ==
  ASSUME HttpInv, Http!UpdateVersion
  PROVE  HttpInv'
<1>1. JobFrame /\ ~mm_shutdown /\ offered' = {}
  BY FinishedFrame DEF Http!UpdateVersion
<1>2. CASE Http!Ends /\ file' = file
  BY <1>1, <1>2, JobFilesKept, JobEnds
<1>3. CASE Http!Ends /\ file' = Http!Remove("version")
  BY <1>1, <1>3, JobFileGone, FixedOwn, JobEnds
<1>4. CASE Http!GoesOn("whatsnew", "whatsnew") /\ file' = file
  <2>1. JobFiles
    BY <1>4, JobFilesKept
  <2> QED
    BY <1>1, <1>4, <2>1, FixedOwn, JobOn
<1> QED
  BY <1>2, <1>3, <1>4 DEF Http!UpdateVersion

LEMMA WhatsNewKeeps ==
  ASSUME HttpInv, Http!WhatsNew
  PROVE  HttpInv'
<1>1. JobFrame /\ ~mm_shutdown /\ offered' = {}
  BY FinishedFrame DEF Http!WhatsNew
<1>2. CASE Http!GoesOn("update", Http!Update) /\ (file' = file \/ file' = Http!Remove("whatsnew"))
  <2>1. JobFiles
    BY <1>2, JobFilesKept, JobFileGone, FixedOwn
  <2> QED
    BY <1>1, <1>2, <2>1, FixedOwn, JobOn
<1>3. CASE /\ Http!Ends
           /\ file' = [f \in Http!Name |-> IF f = "version" \/ (f = "whatsnew" /\ Http!ret = 1)
                                           THEN Http!Absent ELSE file[f]]
  <2> DEFINE gone == {f \in {"version", "whatsnew"} : f = "version" \/ Http!ret = 1}
  <2>1. gone \in SUBSET Own
    BY FixedOwn
  <2>2. file' = [f \in Http!Name |-> IF f \in gone THEN Http!Absent ELSE file[f]]
    BY <1>3
  <2>3. JobFiles
    BY <2>1, <2>2, JobFilesGone
  <2> QED
    BY <1>1, <1>3, <2>3, JobEnds
<1> QED
  BY <1>2, <1>3 DEF Http!WhatsNew

LEMMA UpdatePackageKeeps ==
  ASSUME HttpInv, Http!UpdatePackage
  PROVE  HttpInv'
<1>1. JobFrame /\ ~mm_shutdown /\ offered' = {} /\ JobFiles
  BY FinishedFrame, JobFilesKept DEF Http!UpdatePackage
<1> QED
  BY <1>1, FixedOwn, JobOn DEF Http!UpdatePackage

\* The package of the program has the length the server gives for it.
LEMMA UpdateSizeKeeps ==
  ASSUME HttpInv, Http!UpdateSize
  PROVE  HttpInv'
<1> DEFINE good == file[Http!Update].size = Http!ret /\ Http!ret > 0
<1>1. /\ JobFrame /\ job = "update_size" /\ Http!Ends
      /\ offered' = (IF good THEN {Http!Update} ELSE {})
      /\ file' = [f \in Http!Name |-> IF f = "version" \/ (f = Http!Update /\ ~good) THEN Http!Absent
                                      ELSE file[f]]
  BY FinishedFrame DEF Http!UpdateSize
<1>2. JobFiles
  <2> DEFINE gone == {f \in {"version", Http!Update} : f = "version" \/ ~good}
  <2>1. gone \in SUBSET Own
    BY FixedOwn
  <2>2. file' = [f \in Http!Name |-> IF f \in gone THEN Http!Absent ELSE file[f]]
    BY <1>1
  <2> QED
    BY <2>1, <2>2, JobFilesGone
<1>3. ASSUME good PROVE Http!Whole(Http!Update)'
  <2>1. Http!ret = Length[Http!Update]
    <3>1. Http!asksSize /\ Url = Http!Update
      BY <1>1 DEF HttpInv, MainInv, Http!asksSize
    <3> QED
      BY <1>3, <3>1 DEF HttpInv, MainInv, Http!ret
  <2>2. file[Http!Update] \in [of : Http!Name, size : Nat] /\ file[Http!Update].of = Http!Update
    <3>1. Http!Update \in Http!Name /\ Http!exist(Http!Update)
      BY <1>3, FixedOwn, Names DEF Http!exist, Http!Absent
    <3> QED
      BY <3>1, FixedOwn DEF HttpInv, HttpTypes, MainInv
  <2>3. file[Http!Update] = [of |-> Http!Update, size |-> Length[Http!Update]]
    BY <1>3, <2>1, <2>2
  <2>4. file'[Http!Update] = file[Http!Update]
    <3>1. Http!Update \in Http!Name /\ Http!Update # "version"
      BY FixedOwn, Names DEF Http!Update
    <3> QED
      BY <1>1, <1>3, <3>1
  <2> QED
    BY <2>3, <2>4 DEF Http!Whole
<1> QED
  BY <1>1, <1>2, <1>3, FixedOwn, JobEnds

LEMMA ShowtimeVersionKeeps ==
  ASSUME HttpInv, Http!ShowtimeVersion
  PROVE  HttpInv'
<1>1. JobFrame /\ ~mm_shutdown /\ offered' = {} /\ JobFiles
  BY FinishedFrame, JobFilesKept DEF Http!ShowtimeVersion
<1> QED
  BY <1>1, FixedOwn, JobOn DEF Http!ShowtimeVersion

LEMMA ShowtimeSizeKeeps ==
  ASSUME HttpInv, Http!ShowtimeSize
  PROVE  HttpInv'
<1>1. JobFrame /\ ~mm_shutdown /\ offered' = {}
  BY FinishedFrame DEF Http!ShowtimeSize
<1>2. CASE Http!Ends /\ file' = Http!Remove("showtime.txt")
  BY <1>1, <1>2, JobFileGone, FixedOwn, JobEnds
<1>3. CASE /\ Http!GoesOn("showtime", Http!Showtime)
           /\ file' = [file EXCEPT !["SHOWTIME.VER"] = [of |-> "SHOWTIME.VER", size |-> 1]]
  <2>1. JobFiles
    <3>1. "SHOWTIME.VER" \in Own /\ "SHOWTIME.VER" \in Http!Name
      BY FixedOwn, Names
    <3>2. [of |-> "SHOWTIME.VER", size |-> 1] \in [of : Http!Name, size : Nat]
      BY <3>1
    <3> QED
      BY <1>3, <3>1, <3>2 DEF HttpInv, HttpTypes, JobFiles
  <2> QED
    BY <1>1, <1>3, <2>1, FixedOwn, JobOn
<1> QED
  BY <1>2, <1>3 DEF Http!ShowtimeSize

LEMMA ShowtimeProgramKeeps ==
  ASSUME HttpInv, Http!ShowtimeProgram
  PROVE  HttpInv'
<1>1. JobFrame /\ offered' = {} /\ JobFiles
  BY FinishedFrame, JobFileGone, FixedOwn DEF Http!ShowtimeProgram
<1> QED
  BY <1>1, JobEnds DEF Http!ShowtimeProgram

LEMMA GameListKeeps ==
  ASSUME HttpInv, Http!GameList
  PROVE  HttpInv'
<1>1. JobFrame /\ ~mm_shutdown /\ offered' = {} /\ JobFiles
  BY FinishedFrame, JobFilesKept DEF Http!GameList
<1>2. CASE Http!Ends
  BY <1>1, <1>2, JobEnds
<1>3. CASE /\ first_pkg' \in DOMAIN Package /\ lc' = first_pkg'
           /\ Http!GoesOn("game", Package[lc'])
  <2>1. /\ lc' \in 1 .. Len(Package) /\ first_pkg' \in 1 .. lc' /\ first_pkg' .. lc' - 1 = {}
        /\ Package[lc'] \in Own
    BY <1>3, Packages
  <2> QED
    BY <1>1, <1>3, <2>1, JobOn
<1> QED
  BY <1>2, <1>3 DEF Http!GameList

\* A package that was downloaded is whole, unless the server ended it early.
LEMMA GamePackageKeeps ==
  ASSUME HttpInv, Http!GamePackage
  PROVE  HttpInv'
<1>1. /\ JobFrame /\ job = "game" /\ at["main"] = "done" /\ ~mm_shutdown /\ offered = {}
      /\ early' = early /\ file' = file
  BY FinishedFrame DEF Http!GamePackage
<1>2. JobFiles
  BY <1>1, JobFilesKept
<1>3. /\ lc \in 1 .. Len(Package) /\ first_pkg \in 1 .. lc /\ Url = Package[lc]
      /\ \A n \in first_pkg .. lc - 1 : Good(Package[n])
      /\ Http!ret = 1 => Good(Package[lc])
  BY <1>1 DEF HttpInv, MainInv, Downloaded, Http!asksSize, Http!ret
<1>4. \A f \in Own : (Good(f)' <=> Good(f)) /\ (Http!Whole(f)' <=> Http!Whole(f))
  BY <1>1 DEF Good, Http!Whole
<1>5. CASE Http!GoesOn("game", Package[lc]) /\ lc' = lc /\ offered' = offered
  <2>1. first_pkg' = first_pkg
    BY <1>5 DEF Http!GamePackage, Http!GoesOn
  <2>2. /\ lc' \in 1 .. Len(Package) /\ first_pkg' \in 1 .. lc' /\ Package[lc'] \in Own
        /\ \A n \in first_pkg' .. lc' - 1 : Good(Package[n])'
    <3>1. \A n \in first_pkg .. lc - 1 : n \in 1 .. Len(Package)
      BY <1>3, Packages
    <3> QED
      BY <1>3, <1>4, <1>5, <2>1, <3>1, Packages
  <2> QED
    BY <1>1, <1>2, <1>5, <2>2, JobOn
<1>6. CASE /\ Http!ret = 1 /\ lc < Len(Package) /\ Http!GoesOn("game", Package[lc + 1])
           /\ lc' = lc + 1 /\ offered' = offered
  <2>1. first_pkg' = first_pkg
    BY <1>6 DEF Http!GamePackage, Http!GoesOn
  <2>2. /\ lc' \in 1 .. Len(Package) /\ first_pkg' \in 1 .. lc' /\ Package[lc'] \in Own
    BY <1>3, <1>6, <2>1, Packages
  <2>3. \A n \in first_pkg' .. lc' - 1 : Good(Package[n])'
    <3> SUFFICES ASSUME NEW n \in first_pkg .. lc PROVE Good(Package[n])'
      BY <1>3, <1>6, <2>1, Packages
    <3>1. n \in 1 .. Len(Package) /\ (n = lc \/ n \in first_pkg .. lc - 1)
      BY <1>3, Packages
    <3>2. Package[n] \in Own /\ Good(Package[n])
      BY <1>3, <1>6, <3>1, Packages
    <3> QED
      BY <1>1, <3>2 DEF Good, Http!Whole
  <2> QED
    BY <1>1, <1>2, <1>6, <2>2, <2>3, JobOn
<1>7. CASE /\ Http!Ends
           /\ offered' = IF Http!ret = 1 THEN { Package[n] : n \in first_pkg .. lc } ELSE {}
  <2>1. ASSUME NEW f \in offered'
        PROVE  f \in Own /\ (Http!Whole(f)' \/ (f # Http!Update /\ f \in early'))
    <3>1. Http!ret = 1
      BY <1>7, <2>1
    <3>2. PICK n \in first_pkg .. lc : f = Package[n]
      BY <1>7, <2>1, <3>1
    <3>3. n \in 1 .. Len(Package) /\ (n = lc \/ n \in first_pkg .. lc - 1)
      BY <1>3, Packages
    <3>4. f \in Own /\ f # Http!Update /\ Good(f)
      BY <1>3, <3>1, <3>2, <3>3, Packages
    <3> QED
      BY <1>1, <3>4 DEF Good, Http!Whole
  <2> QED
    BY <1>1, <1>2, <1>7, <2>1, JobEnds
<1> QED
  BY <1>5, <1>6, <1>7 DEF Http!GamePackage

LEMMA ThemeKeeps ==
  ASSUME HttpInv, Http!Theme
  PROVE  HttpInv'
<1>1. PICK j \in {"themes", "theme_image", "theme", "page"} :
        /\ Http!Finished(j) /\ file' = IF j = "themes" THEN Http!Remove("themes") ELSE file
        /\ offered' = IF j = "theme" /\ Http!ret = 1 THEN {"theme"} ELSE {}
  BY DEF Http!Theme
<1>2. JobFrame /\ job = j /\ at["main"] = "done" /\ early' = early
  BY <1>1, FinishedFrame
<1>3. JobFiles
  BY <1>1, JobFilesKept, JobFileGone, FixedOwn
<1>4. Http!Ends
  BY DEF Http!Theme
<1>5. ASSUME NEW f \in offered'
      PROVE  f \in Own /\ (Http!Whole(f)' \/ (f # Http!Update /\ f \in early'))
  <2>1. job = "theme" /\ Http!ret = 1 /\ f = "theme"
    BY <1>1, <1>2, <1>5
  <2>2. file' = file
    BY <1>1, <1>2, <2>1
  <2>3. Good("theme")
    BY <1>2, <2>1 DEF HttpInv, MainInv, Downloaded, Http!asksSize, Http!ret
  <2> QED
    BY <1>2, <2>1, <2>2, <2>3, FixedOwn DEF Good, Http!Whole, Http!Update
<1> QED
  BY <1>2, <1>3, <1>4, <1>5, JobEnds

LEMMA ShutdownKeeps ==
  ASSUME HttpInv, Http!Shutdown
  PROVE  HttpInv'
<1> USE DEF HttpInv
<1>1. /\ job = "idle" /\ job' = job /\ at' = at /\ load' = load /\ saved' = saved /\ http' = http
      /\ downloads' = downloads /\ downloads_max' = downloads_max /\ slot' = slot
      /\ lc' = lc /\ first_pkg' = first_pkg /\ file' = file /\ offered' = offered /\ early' = early
      /\ (overwritten' <=> overwritten)
  BY DEF Http!Shutdown, Http!queue, Http!transfer, Http!work
<1>2. HttpTypes' /\ LibraryInv' /\ Sizes'
  BY <1>1 DEF HttpTypes, LibraryInv, Sizes
<1>3. ThreadInv'
  BY <1>1, ThreadKept
<1>4. MainInv'
  <2>1. ~Http!asksSize /\ ~Http!asksSize'
    BY <1>1 DEF Http!asksSize
  <2>2. at["main"] = "idle"
    BY <1>1 DEF MainInv
  <2>3. /\ \A f \in Own : Http!exist(f) => file[f].of = f
        /\ \A f \in offered : f \in Own /\ (Http!Whole(f) \/ (f # Http!Update /\ f \in early))
    BY DEF MainInv
  <2>4. /\ \A f \in Own : Http!exist(f)' => file'[f].of = f
        /\ \A f \in offered' : f \in Own /\ (Http!Whole(f)' \/ (f # Http!Update /\ f \in early'))
    BY <1>1, <2>3 DEF Http!exist, Http!Absent, Http!Whole
  <2> QED
    BY <1>1, <2>1, <2>2, <2>4 DEF MainInv
<1> QED
  BY <1>2, <1>3, <1>4

LEMMA HttpUnchanged ==
  ASSUME HttpInv, UNCHANGED http_vars
  PROVE  HttpInv'
<1> USE DEF HttpInv
<1>1. /\ job' = job /\ at' = at /\ load' = load /\ saved' = saved /\ http' = http
      /\ downloads' = downloads /\ downloads_max' = downloads_max /\ slot' = slot
      /\ lc' = lc /\ first_pkg' = first_pkg /\ file' = file /\ offered' = offered /\ early' = early
      /\ (overwritten' <=> overwritten) /\ (mm_shutdown' <=> mm_shutdown)
  BY DEF http_vars
<1>2. HttpTypes' /\ LibraryInv' /\ Sizes'
  BY <1>1 DEF HttpTypes, LibraryInv, Sizes
<1>3. ThreadInv'
  BY <1>1, ThreadKept
<1>4. MainInv'
  BY <1>1, MainKept
<1> QED
  BY <1>2, <1>3, <1>4

LEMMA HttpStarts ==
  ASSUME Http!Init
  PROVE  HttpInv
<1>1. /\ HttpTypes /\ LibraryInv /\ Sizes
  BY Names, Lengths, AbsentFits
     DEF Http!Init, Http!NoLoad, Http!Loader, HttpTypes, LibraryInv, Sizes, CoverOrNone, Places
<1>2. \A f \in Http!Name : ~Http!exist(f)
  BY DEF Http!Init, Http!exist
<1>3. ThreadInv
  BY <1>2, Names DEF Http!Init, Http!Loader, ThreadInv, OwnCovers
<1>4. MainInv
  BY <1>2, Names DEF Http!Init, Http!Loader, Http!asksSize, MainInv
<1> QED
  BY <1>1, <1>3, <1>4 DEF HttpInv

\* Every step of the downloads.
LEMMA HttpSteps ==
  ASSUME HttpInv, Http!Next
  PROVE  HttpInv'
<1>1. CASE \E a \in Http!Asker : Http!AskCover(a)
  BY <1>1, AskCoverKeeps
<1>2. CASE Http!Asked("column") \/ Http!Asked("main")
  BY <1>2, AskedKeeps
<1>3. CASE Http!Download("main")
  BY <1>3, MainInit, MainRequest, MainReceive, MainReceived, MainQuit DEF Http!Download
<1>4. CASE Http!Cancel
  BY <1>4, MainReceived
<1>5. CASE Http!Download("thread")
  BY <1>5, ThreadInit, ThreadRequest, ThreadReceive, ThreadReceived, ThreadQuit DEF Http!Download
<1>6. CASE Http!Look \/ Http!Served
  BY <1>6, LookKeeps, ServedKeeps
<1>7. CASE Http!Goes_On
  BY <1>7, UpdateVersionKeeps, WhatsNewKeeps, UpdatePackageKeeps, UpdateSizeKeeps,
     ShowtimeVersionKeeps, ShowtimeSizeKeeps, ShowtimeProgramKeeps, GameListKeeps, GamePackageKeeps,
     ThemeKeeps DEF Http!Goes_On
<1>8. CASE Http!Foreground \/ Http!Shutdown
  BY <1>8, ForegroundKeeps, ShutdownKeeps
<1> QED
  BY <1>1, <1>2, <1>3, <1>4, <1>5, <1>6, <1>7, <1>8 DEF Http!Next, Http!MainLoop, Http!Thread

LEMMA HttpStepsOrStays == HttpInv /\ [MCNext]_mcvars => HttpInv'
<1> SUFFICES ASSUME HttpInv, [MCNext]_mcvars PROVE HttpInv'
  OBVIOUS
<1>1. Http!Next \/ UNCHANGED http_vars
  BY DEF MCNext, InDisk, InHttp, InHost, mcvars
<1> QED
  BY <1>1, HttpSteps, HttpUnchanged

\* What is downloaded is what was asked for, and what is offered to install is whole unless the
\* server sent less: for any covers, slots, packages and lengths, while both loaders end the
\* library for each other (download_thread_entry, download_file, check_for_update,
\* check_for_game_update).
THEOREM DownloadsAlwaysSound == MCFairSpec => []DownloadsSound
<1>1. MCInit => HttpInv
  BY HttpStarts DEF MCInit
<1>2. HttpInv => DownloadsSound
  <2> SUFFICES ASSUME HttpInv PROVE Http!TypeOK /\ Http!CoversOwn /\ Http!OfferedIsWhole
    BY DEF DownloadsSound
  <2>1. Http!TypeOK
    <3>1. /\ downloads_max \in DOMAIN downloads /\ slot \in DOMAIN downloads
          /\ \A n \in DOMAIN downloads :
               downloads[n].url \in Cover \cup {Http!NoName} /\ downloads[n].status \in 0 .. 2
      BY DEF HttpInv, HttpTypes, CoverOrNone
    <3>2. \A f \in Http!Name : file[f].of \in Http!Name /\ file[f].size \in 0 .. Length[file[f].of]
      <4> SUFFICES ASSUME NEW f \in Http!Name
                   PROVE  file[f].of \in Http!Name /\ file[f].size \in 0 .. Length[file[f].of]
        OBVIOUS
      <4>1. file[f].of \in Http!Name /\ file[f].size \in Nat
        BY DEF HttpInv, HttpTypes
      <4>2. Length[file[f].of] \in Nat
        BY <4>1, Lengths
      <4> QED
        BY <4>1, <4>2 DEF HttpInv, Sizes
    <3>3. \A p \in Http!Loader : load[p].got \in 0 .. Length[load[p].url]
      <4> SUFFICES ASSUME NEW p \in Http!Loader PROVE load[p].got \in 0 .. Length[load[p].url]
        OBVIOUS
      <4>1. load[p].url \in Http!Name /\ load[p].got \in Nat
        BY DEF HttpInv, HttpTypes, Http!Loader
      <4>2. Length[load[p].url] \in Nat
        BY <4>1, Lengths
      <4> QED
        BY <4>1, <4>2 DEF HttpInv, Sizes, Http!Loader
    <3> QED
      BY <3>1, <3>2, <3>3 DEF HttpInv, LibraryInv, Http!TypeOK, Http!Loader
  <2>2. Http!CoversOwn
    BY DEF HttpInv, ThreadInv, OwnCovers, Http!CoversOwn
  <2>3. Http!OfferedIsWhole
    BY DEF HttpInv, MainInv, Http!OfferedIsWhole
  <2> QED
    BY <2>1, <2>2, <2>3
<1>3. HttpInv /\ [MCNext]_mcvars => HttpInv'
  BY HttpStepsOrStays
<1> QED
  BY <1>1, <1>2, <1>3, PTL DEF MCFairSpec

-----------------------------------------------------------------------------
(***************************************************************************)
(* The copies from and to a host (NetCopy): CopiesSound for any index, any *)
(* tree of directories and any sizes.  GetInv says how much of the file at *)
(* hand has arrived and that the rest of it, and nothing else, is on its   *)
(* way; PutInv that the host has the records before this one whole and     *)
(* waits for what is left of this one, and what the list adds up to;       *)
(* ListInv that no name is listed twice.                                   *)
(***************************************************************************)
\* The first n pieces of a file, and the others.
Pieces(f, n) == [k \in 1 .. n |-> << f, k >>]
Others(f, n) == [k \in 1 .. HostSize[f] - n |-> << f, n + k >>]
OfFile(s, f) == \E n \in 0 .. HostSize[f] : s = Pieces(f, n)

Kept == DOMAIN HostSize
Inside == UNION { { Tree[d][k] : k \in DOMAIN Tree[d] } : d \in DOMAIN Tree }
Listed == { r \in [name : Kept \cup DOMAIN Tree, dir : BOOLEAN, size : Nat] :
              IF r.dir THEN r.size = 0 ELSE r.name \in Kept }

Troubles == {"broken", "skipped", "short", "ended", "full", "deep", "unread", "unlisted", "misread",
             "changed"}

HostTypes ==
  /\ op \in {"idle", "get", "put", "com", "one"} /\ home \in BOOLEAN /\ folder \in Folder
  /\ entry \in Nat \ {0} /\ got \in Nat /\ srv.left \in Nat /\ total \in Nat /\ sent \in Nat
  /\ disk \in [Kept -> Nat] /\ srv = [of |-> srv.of, left |-> srv.left]
  /\ stored = [f \in Kept |-> stored[f]] /\ remote = [f \in Kept |-> remote[f]]
  /\ f_files \in Seq(Listed) /\ todo \in Seq(Seq(Inside)) /\ pos \in Nat /\ readb \in 0 .. 1
  /\ open \subseteq {"socket", "index", "file"} /\ ops \in 0 .. MaxOps
  /\ twice \subseteq {"nothing", "failed"}
  /\ trouble \subseteq Troubles

EntryInv ==
  /\ entry <= Len(Index) + Len(f_files) + 1
  /\ op = "get" => entry <= Len(Index) + 1
  /\ op = "get" /\ step \in {"header", "data", "wait", "closefile", "next"} => entry \in Host!CopyBytes
  /\ op = "put" /\ step = "list" => entry = 1
  /\ op \in {"put", "one"} /\ step # "list" => entry <= Len(f_files)
  /\ op \in {"put", "one"} /\ step = "send" => Host!Record.size > 0
  /\ op = "one" => Len(f_files) = 1

OpenInv ==
  /\ op \in {"idle", "put", "one"} => stream = << >>
  /\ op = "idle" \/ (op = "put" /\ step = "list") => open = {} /\ srv = Host!Nobody
  /\ op = "get" => Host!CopyBytes = {} \/ "index" \in open
  /\ op = "com" /\ step # "connect" => "file" \in open \/ "broken" \in trouble
  /\ "failed" \in twice => "broken" \in trouble
  /\ "nothing" \in twice => Host!CopyBytes = {}

BoundInv ==
  /\ "deep" \notin trouble => Len(f_files) <= MAX_F_FILES
  /\ op = "put" /\ step = "list" /\ "deep" \notin trouble =>
       IF "full" \in trouble THEN todo = << >> ELSE Len(f_files) < MAX_F_FILES

\* The file at hand has come whole.
HereWhole == stored[Host!Here] = Pieces(Host!Here, HostSize[Host!Here]) /\ stream = << >>

Fetched ==
  /\ \A f \in Kept : OfFile(stored[f], f)
  /\ op = "get" /\ step \in {"connect", "entry"} => "broken" \in trouble \/ stream = << >>
  /\ op = "get" /\ step = "header" =>
       /\ got = 0 /\ stored[Host!Here] = << >> /\ "broken" \notin trouble
       /\ stream = Host!Header(Host!Here) \o Host!Data(Host!Here)
  /\ op = "get" /\ step = "data" =>
       /\ got < HostSize[Host!Here] /\ expected = HostSize[Host!Here]
       /\ stored[Host!Here] = Pieces(Host!Here, got) /\ stream = Others(Host!Here, got)
  /\ op = "get" /\ step \in {"wait", "closefile", "next"} => "broken" \in trouble \/ HereWhole
  /\ op = "get" /\ trouble = {} =>
       \A i \in Host!CopyBytes : i < entry => stored[Index[i].name] = Host!Data(Index[i].name)

GetInv == trouble \cap {"skipped", "short"} = {} => Fetched

\* What a name is in: the directory that is copied, or one that is listed.
Above(n, top, list) ==
  \E d \in DOMAIN Tree : /\ d = top \/ (\E i \in DOMAIN list : list[i].name = d)
                         /\ \E k \in DOMAIN Tree[d] : Tree[d][k].name = n

\* No name is listed twice, nor again among the entries that are left.
Distinct(list) ==
  /\ \A i, j \in DOMAIN list : list[i].name = list[j].name => i = j
  /\ \A i \in DOMAIN list : ~list[i].dir => list[i].name \in Kept /\ list[i].size = HostSize[list[i].name]
  /\ \A i \in DOMAIN list : list[i].dir => list[i].size = 0

Unlisted(top, list, left) ==
  /\ \A i \in DOMAIN list : Above(list[i].name, top, list)
  /\ \A l \in DOMAIN left : \A k \in DOMAIN left[l] :
       /\ Above(left[l][k].name, top, list)
       /\ \A i \in DOMAIN list : list[i].name # left[l][k].name
       /\ \A m \in DOMAIN left : \A j \in DOMAIN left[m] :
            left[l][k].name = left[m][j].name => l = m /\ k = j
       /\ left[l][k].dir => PathDepth[left[l][k].name] > PathDepth[top]

ListInv == Distinct(f_files)
TodoInv == Unlisted(folder, f_files, todo)

\* The sizes of the list, added up, are what is sent at most.
Adds(s, list) ==
  /\ s \in [0 .. Len(list) -> Nat] /\ s[0] = 0
  /\ \A i \in DOMAIN list : s[i] = s[i - 1] + list[i].size
  /\ \A i, j \in 0 .. Len(list) : i <= j => s[i] <= s[j]

Sums(s) ==
  /\ Adds(s, f_files) /\ total = s[Len(f_files)]
  /\ sent = s[entry - 1] + (IF step \in {"send", "sent"} THEN got ELSE 0)

\* What the host has of the records before this one, of this one and of those after it.
Arrived ==
  /\ \A i \in DOMAIN f_files : ~f_files[i].dir =>
       /\ i < entry => remote[f_files[i].name] = Pieces(f_files[i].name, HostSize[f_files[i].name])
       /\ i > entry => remote[f_files[i].name] = << >>
  /\ step = "put" => srv.left = 0 /\ (~Host!Record.dir => remote[Host!Record.name] = << >>)
  /\ step \in {"send", "sent"} =>
       /\ got <= Host!Record.size /\ srv.left = Host!Record.size - got
       /\ ~Host!Record.dir => remote[Host!Record.name] = Pieces(Host!Record.name, got)
       /\ srv.left > 0 => srv.of = Host!Record.name
  /\ step = "send" => pos = got
  /\ step = "sent" => got = Host!Record.size

PutInv ==
  trouble \cap {"changed", "full", "misread"} = {} =>
    /\ \A f \in Kept : OfFile(remote[f], f)
    /\ op \in {"put", "one"} =>
         /\ disk = HostSize /\ ListInv
         /\ step \in {"list", "put", "send", "sent"} => \E s : Sums(s)
         /\ step = "list" => TodoInv /\ \A f \in Kept : remote[f] = << >>
         /\ step \in {"put", "send", "sent"} => Arrived
         /\ step = "end" /\ trouble = {} =>
              \A i \in DOMAIN f_files : ~f_files[i].dir =>
                 remote[f_files[i].name] = Host!Data(f_files[i].name)

\* Unless the list is full, or something could not be read, every entry of the directory that is copied
\* and of those that are listed is listed, or left to be.
Everything ==
  \A d \in DOMAIN Tree : d = folder \/ (\E i \in DOMAIN f_files : f_files[i].dir /\ f_files[i].name = d) =>
    \A k \in DOMAIN Tree[d] : \/ \E i \in DOMAIN f_files : f_files[i].name = Tree[d][k].name
                            \/ \E l \in DOMAIN todo : \E j \in DOMAIN todo[l] : todo[l][j] = Tree[d][k]

ListedInv ==
  op = "put" => /\ step # "list" => todo = << >>
                /\ trouble \cap {"full", "unread", "unlisted"} = {} => Everything

HostInv == HostTypes /\ EntryInv /\ OpenInv /\ BoundInv /\ GetInv /\ PutInv

-----------------------------------------------------------------------------
LEMMA HostSizes ==
  /\ \A f \in Kept : HostSize[f] \in Nat
  /\ HostSize \in [Kept -> Nat] /\ MAX_F_FILES \in Nat \ {0} /\ MaxOps \in Nat
  BY CopiesAssumption DEF CopiesAssumption, Kept

LEMMA IndexNames ==
  /\ Len(Index) \in Nat /\ DOMAIN Index = 1 .. Len(Index)
  /\ \A i \in Host!CopyBytes : i \in 1 .. Len(Index) /\ Index[i].name \in Kept /\ HostSize[Index[i].name] > 0
  /\ \A i, j \in Host!CopyBytes : Index[i].name = Index[j].name => i = j
<1>1. Len(Index) \in Nat /\ DOMAIN Index = 1 .. Len(Index)
  <2>1. Index \in Seq({ Index[i] : i \in DOMAIN Index })
    BY CopiesAssumption DEF CopiesAssumption
  <2> QED
    BY <2>1
<1>2. /\ \A i \in DOMAIN Index : ~Index[i].dir => Index[i].name \in Kept
      /\ \A i, j \in DOMAIN Index : Index[i].name = Index[j].name => i = j
  BY CopiesAssumption DEF CopiesAssumption, Kept
<1> QED
  BY <1>1, <1>2 DEF Host!CopyBytes, Host!Wanted

LEMMA TreeTypes ==
  /\ Folder \subseteq DOMAIN Tree /\ \A d \in DOMAIN Tree : PathDepth[d] \in Nat
  /\ \A d \in DOMAIN Tree :
       /\ Len(Tree[d]) \in Nat /\ DOMAIN Tree[d] = 1 .. Len(Tree[d]) /\ Tree[d] \in Seq(Inside)
       /\ \A k \in DOMAIN Tree[d] : Tree[d][k].dir => PathDepth[Tree[d][k].name] = PathDepth[d] + 1
  /\ \A e \in Inside :
       /\ e.dir \in BOOLEAN
       /\ e.dir => e.name \in DOMAIN Tree
       /\ ~e.dir => e.name \in Kept
<1>1. Folder \subseteq DOMAIN Tree /\ \A d \in DOMAIN Tree : PathDepth[d] \in Nat
  BY CopiesAssumption DEF CopiesAssumption
<1>2. ASSUME NEW d \in DOMAIN Tree
      PROVE  /\ Len(Tree[d]) \in Nat /\ DOMAIN Tree[d] = 1 .. Len(Tree[d])
             /\ Tree[d] \in Seq(Inside)
             /\ \A k \in DOMAIN Tree[d] :
                  Tree[d][k].dir => PathDepth[Tree[d][k].name] = PathDepth[d] + 1
  <2>1. Tree[d] \in Seq({ Tree[d][k] : k \in DOMAIN Tree[d] })
    BY CopiesAssumption DEF CopiesAssumption
  <2>2. Len(Tree[d]) \in Nat /\ DOMAIN Tree[d] = 1 .. Len(Tree[d])
    BY <2>1
  <2>3. \A k \in DOMAIN Tree[d] : Tree[d][k] \in Inside
    BY DEF Inside
  <2>4. \A k \in DOMAIN Tree[d] : Tree[d][k].dir => PathDepth[Tree[d][k].name] = PathDepth[d] + 1
    BY CopiesAssumption DEF CopiesAssumption
  <2> QED
    BY <2>1, <2>2, <2>3, <2>4
<1>3. ASSUME NEW e \in Inside
      PROVE  /\ e.dir \in BOOLEAN
             /\ e.dir => e.name \in DOMAIN Tree
             /\ ~e.dir => e.name \in Kept
  <2>1. PICK d \in DOMAIN Tree : \E k \in DOMAIN Tree[d] : e = Tree[d][k]
    BY DEF Inside
  <2>2. PICK k \in DOMAIN Tree[d] : e = Tree[d][k]
    BY <2>1
  <2>3. /\ Tree[d][k].dir \in BOOLEAN
        /\ Tree[d][k].dir => Tree[d][k].name \in DOMAIN Tree
        /\ ~Tree[d][k].dir => Tree[d][k].name \in DOMAIN HostSize
    BY CopiesAssumption DEF CopiesAssumption
  <2> QED
    BY <2>2, <2>3 DEF Kept
<1> QED
  BY <1>1, <1>2, <1>3

LEMMA OneParent ==
  \A c, d \in DOMAIN Tree : \A j \in DOMAIN Tree[c], k \in DOMAIN Tree[d] :
     Tree[c][j].name = Tree[d][k].name => c = d /\ j = k
  BY CopiesAssumption DEF CopiesAssumption

\* The pieces of a file, one after the other.
LEMMA PiecesGrow ==
  ASSUME NEW f, NEW n \in Nat
  PROVE  Pieces(f, 0) = << >> /\ Append(Pieces(f, n), << f, n + 1 >>) = Pieces(f, n + 1)
<1>1. Pieces(f, 0) = << >>
  BY DEF Pieces
<1> DEFINE S == {f} \X Nat
           s == Pieces(f, n)
           t == Pieces(f, n + 1)
           e == << f, n + 1 >>
<1>2. /\ s \in Seq(S) /\ Len(s) = n /\ \A k \in 1 .. n : s[k] = << f, k >>
      /\ t \in Seq(S) /\ Len(t) = n + 1 /\ \A k \in 1 .. n + 1 : t[k] = << f, k >>
  BY DEF Pieces
<1>3. e \in S /\ t[n + 1] = e
  BY <1>2
<1> HIDE DEF S, s, t, e
<1>4. /\ Append(s, e) \in Seq(S) /\ Len(Append(s, e)) = n + 1
      /\ \A k \in 1 .. n + 1 : Append(s, e)[k] = t[k]
  <2>1. Append(s, e) \in Seq(S) /\ Len(Append(s, e)) = n + 1
    BY <1>2, <1>3
  <2>2. ASSUME NEW k \in 1 .. n PROVE Append(s, e)[k] = t[k]
    <3>1. Append(s, e)[k] = s[k]
      BY <1>2, <1>3
    <3>2. k \in 1 .. n + 1
      OBVIOUS
    <3> QED
      BY <1>2, <3>1, <3>2
  <2>3. Append(s, e)[n + 1] = t[n + 1]
    BY <1>2, <1>3
  <2> QED
    BY <2>1, <2>2, <2>3
<1>5. Append(s, e) = t
  BY <1>2, <1>4, SeqEqual
<1> QED
  BY <1>1, <1>5 DEF s, t, e

LEMMA PiecesPrefix ==
  ASSUME NEW f \in Kept
  PROVE  /\ Pieces(f, HostSize[f]) = Host!Data(f)
         /\ \A s : OfFile(s, f) => Host!IsPrefix(s, Host!Data(f))
<1>1. HostSize[f] \in Nat
  BY HostSizes
<1>2. Pieces(f, HostSize[f]) = Host!Data(f)
  BY DEF Pieces, Host!Data
<1>3. ASSUME NEW n \in 0 .. HostSize[f] PROVE Host!IsPrefix(Pieces(f, n), Host!Data(f))
  <2> DEFINE S == {f} \X Nat
             s == Pieces(f, n)
             t == Host!Data(f)
  <2>1. /\ Len(s) = n /\ s \in Seq(S) /\ \A k \in 1 .. n : s[k] = << f, k >>
        /\ Len(t) = HostSize[f] /\ t \in Seq(S) /\ \A k \in 1 .. HostSize[f] : t[k] = << f, k >>
    BY <1>1 DEF Pieces, Host!Data
  <2> HIDE DEF S, s, t
  <2>2. SubSeq(s, 1, n) = SubSeq(t, 1, n)
    <3>1. SubSeq(s, 1, n) = s
      BY <2>1, SubSeqFull
    <3>2. /\ SubSeq(t, 1, n) \in Seq(S) /\ Len(SubSeq(t, 1, n)) = n
          /\ \A k \in 1 .. n : SubSeq(t, 1, n)[k] = s[k]
      <4>1. \A k \in 1 .. n : t[k] \in S
        BY <1>1, <2>1
      <4>2. /\ SubSeq(t, 1, n) \in Seq(S) /\ Len(SubSeq(t, 1, n)) = IF 1 <= n THEN n - 1 + 1 ELSE 0
            /\ \A k \in 1 .. n - 1 + 1 : SubSeq(t, 1, n)[k] = t[1 + k - 1]
        BY <4>1, SubSeqProperties
      <4>3. \A k \in 1 .. n : 1 + k - 1 = k /\ k \in 1 .. n - 1 + 1 /\ k \in 1 .. HostSize[f]
        BY <1>1
      <4>4. Len(SubSeq(t, 1, n)) = n
        BY <4>2
      <4>5. \A k \in 1 .. n : SubSeq(t, 1, n)[k] = t[k]
        BY <4>2, <4>3
      <4> QED
        BY <2>1, <4>2, <4>3, <4>4, <4>5
    <3> QED
      BY <2>1, <3>1, <3>2, SeqEqual
  <2>3. Host!IsPrefix(s, t)
    BY <1>1, <2>1, <2>2 DEF Host!IsPrefix
  <2> QED
    BY <2>3 DEF s, t
<1> QED
  BY <1>2, <1>3 DEF OfFile

LEMMA OthersShrink ==
  ASSUME NEW f \in Kept, NEW n \in Nat, n < HostSize[f]
  PROVE  /\ Others(f, n) # << >> /\ Head(Others(f, n)) = << f, n + 1 >>
         /\ Tail(Others(f, n)) = Others(f, n + 1)
         /\ Others(f, 0) = Host!Data(f) /\ Others(f, HostSize[f]) = << >>
<1>1. HostSize[f] \in Nat
  BY HostSizes
<1>2. Others(f, 0) = Host!Data(f) /\ Others(f, HostSize[f]) = << >>
  BY <1>1 DEF Others, Host!Data
<1> DEFINE S == {f} \X Nat
           s == Others(f, n)
           t == Others(f, n + 1)
           m == HostSize[f] - n
<1>3. m \in Nat \ {0} /\ HostSize[f] - (n + 1) = m - 1
  BY <1>1
<1>4. s \in Seq(S) /\ Len(s) = m /\ \A k \in 1 .. m : s[k] = << f, n + k >>
  <2>1. s = [k \in 1 .. m |-> << f, n + k >>]
    BY DEF Others
  <2> HIDE DEF s, m
  <2> QED
    BY <1>3, <2>1
<1>5. t \in Seq(S) /\ Len(t) = m - 1 /\ \A k \in 1 .. m - 1 : t[k] = << f, (n + 1) + k >>
  <2>1. t = [k \in 1 .. m - 1 |-> << f, (n + 1) + k >>]
    BY <1>3 DEF Others
  <2> HIDE DEF t, m
  <2> QED
    BY <1>3, <2>1
<1> HIDE DEF S, s, t, m
<1>6. s # << >> /\ Head(s) = << f, n + 1 >>
  BY <1>3, <1>4
<1>7. /\ Tail(s) \in Seq(S) /\ Len(Tail(s)) = m - 1
      /\ \A k \in 1 .. m - 1 : Tail(s)[k] = t[k]
  <2>1. /\ Tail(s) \in Seq(S) /\ Len(Tail(s)) = m - 1
        /\ \A k \in 1 .. m - 1 : Tail(s)[k] = s[k + 1]
    BY <1>3, <1>4, <1>6, HeadTailProperties
  <2>2. \A k \in 1 .. m - 1 : k + 1 \in 1 .. m /\ (n + 1) + k = n + (k + 1)
    BY <1>3
  <2> QED
    BY <1>4, <1>5, <2>1, <2>2
<1>8. Tail(s) = t
  BY <1>5, <1>7, SeqEqual
<1> QED
  BY <1>2, <1>6, <1>8 DEF s, t

LEMMA HeaderFirst ==
  ASSUME NEW f \in Kept
  PROVE  LET s == Host!Header(f) \o Host!Data(f)
         IN  s # << >> /\ Head(s) = << "header", HostSize[f] >> /\ Tail(s) = Host!Data(f)
<1> DEFINE h == << "header", HostSize[f] >>
           S == {"header", f} \X Nat
           t == Host!Data(f)
<1>1. h \in S /\ t \in Seq(S) /\ Host!Header(f) = << h >>
  BY HostSizes DEF Host!Data, Host!Header
<1> HIDE DEF h, t, S
<1>2. << h >> \o t # << >> /\ Head(<< h >> \o t) = h /\ Tail(<< h >> \o t) = t
  BY <1>1
<1> QED
  BY <1>1, <1>2 DEF h, t

-----------------------------------------------------------------------------
(***************************************************************************)
(* A folder of the host is fetched.                                        *)
(***************************************************************************)
LEMMA GetIdle ==
  ASSUME GetInv, stored' = stored, op' # "get", trouble \subseteq trouble'
  PROVE  GetInv'
  BY DEF GetInv, Fetched, OfFile, Pieces

LEMMA PutIdle ==
  ASSUME PutInv, remote' = remote, op' \notin {"put", "one"}, trouble \subseteq trouble'
  PROVE  PutInv'
<1>1. trouble' \cap {"changed", "full", "misread"} = {} => trouble \cap {"changed", "full", "misread"} = {}
  OBVIOUS
<1>2. (\A f \in Kept : OfFile(remote[f], f)) => (\A f \in Kept : OfFile(remote[f], f))'
  BY DEF OfFile, Pieces
<1> QED
  BY <1>1, <1>2 DEF PutInv

\* What every step of it leaves as it is.
GetFrame ==
  /\ op = "get" /\ op' = "get" /\ folder' = folder /\ home' = home /\ disk' = disk
  /\ remote' = remote /\ srv' = srv /\ f_files' = f_files /\ todo' = todo /\ total' = total
  /\ sent' = sent /\ pos' = pos /\ readb' = readb /\ ops' = ops /\ twice' = twice
  /\ trouble \subseteq trouble' /\ trouble' \subseteq trouble \cup {"broken", "skipped", "short", "ended"}

LEMMA GetKeeps ==
  ASSUME HostInv, GetFrame, entry' \in 1 .. Len(Index) + 1, got' \in Nat,
         stored' = [f \in Kept |-> stored'[f]], open' \subseteq {"socket", "index", "file"},
         "index" \in open => "index" \in open' \/ Host!CopyBytes = {},
         step' \in {"header", "data", "wait", "closefile", "next"} => entry' \in Host!CopyBytes
  PROVE  /\ HostTypes' /\ EntryInv' /\ OpenInv' /\ BoundInv' /\ PutInv'
         /\ Host!CopyBytes' = Host!CopyBytes
<1> USE DEF HostInv, GetFrame
<1>1. Host!CopyBytes' = Host!CopyBytes
  BY DEF Host!CopyBytes, Host!Wanted
<1>2. Len(Index) \in Nat /\ Len(f_files) \in Nat
  BY IndexNames DEF HostTypes, Troubles
<1>3. HostTypes'
  BY <1>2 DEF HostTypes, Troubles
<1>4. EntryInv'
  BY <1>1, <1>2 DEF EntryInv
<1>5. OpenInv'
  BY <1>1 DEF OpenInv
<1>6. BoundInv'
  BY DEF BoundInv
<1>7. PutInv'
  BY PutIdle
<1> QED
  BY <1>1, <1>3, <1>4, <1>5, <1>6, <1>7

\* The file at hand is one to fetch, and its name no other's.
LEMMA HereIs ==
  ASSUME HostInv, op = "get", entry \in Host!CopyBytes
  PROVE  /\ Host!Here \in Kept /\ HostSize[Host!Here] \in Nat \ {0} /\ entry \in 1 .. Len(Index)
         /\ Len(Index) \in Nat
         /\ \A i \in Host!CopyBytes : i # entry => Index[i].name # Host!Here
  BY IndexNames, HostSizes DEF Host!Here

LEMMA GetConnectKeeps ==
  ASSUME HostInv, Host!GetConnect
  PROVE  HostInv'
<1> USE DEF HostInv
<1>8. /\ op = "get" /\ step = "connect" /\ op' = op /\ folder' = folder /\ home' = home /\ disk' = disk
      /\ remote' = remote /\ srv' = srv /\ f_files' = f_files /\ todo' = todo /\ total' = total
     
      /\ sent' = sent /\ pos' = pos /\ readb' = readb /\ ops' = ops /\ entry' = entry /\ got' = got /\ stored' = stored
      /\ stream' = stream /\ twice' = twice
  BY DEF Host!GetConnect, Host!which, Host!net, Host!files, Host!list, Host!reads
<1>9. \/ step' = "end" /\ trouble' = trouble \cup {"broken"} /\ open' = open
      \/ step' = "end" /\ trouble' = trouble /\ open' = open \ {"index"} /\ Host!CopyBytes = {}
      \/ step' = "entry" /\ trouble' = trouble /\ open' = open
  BY DEF Host!GetConnect, Host!Breaks
<1>1. /\ GetFrame /\ step = "connect" /\ step' \in {"end", "entry"} /\ entry' = entry /\ got' = got
      /\ stored' = stored /\ stream' = stream /\ open' \subseteq open
      /\ "index" \in open => "index" \in open' \/ Host!CopyBytes = {}
      /\ trouble' = trouble \/ (step' = "end" /\ trouble' = trouble \cup {"broken"})
  BY <1>8, <1>9 DEF GetFrame
<1>2. /\ HostTypes' /\ EntryInv' /\ OpenInv' /\ BoundInv' /\ PutInv' /\ Host!CopyBytes' = Host!CopyBytes
  <2>1. entry' \in 1 .. Len(Index) + 1 /\ got' \in Nat
    BY <1>1, IndexNames DEF HostTypes, Troubles, EntryInv, GetFrame
  <2> QED
    BY <1>1, <2>1, GetKeeps DEF HostTypes, Troubles
<1>3. GetInv'
  <2> SUFFICES ASSUME trouble' \cap {"skipped", "short"} = {} PROVE Fetched'
    BY DEF GetInv
  <2>1. Fetched
    BY <1>1 DEF GetInv, GetFrame
  <2>2. (\A f \in Kept : OfFile(stored[f], f))'
    BY <1>1, <2>1 DEF Fetched, OfFile, Pieces
  <2>3. trouble' = {} => trouble = {}
    BY <1>1
  <2>4. (\A i \in Host!CopyBytes : i < entry => stored[Index[i].name] = Host!Data(Index[i].name))' <=>
        \A i \in Host!CopyBytes : i < entry => stored[Index[i].name] = Host!Data(Index[i].name)
    BY <1>1, <1>2 DEF Host!Data
  <2> QED
    BY <1>1, <2>1, <2>2, <2>3, <2>4 DEF Fetched, GetFrame
<1> QED
  BY <1>2, <1>3

LEMMA NextEntryKeeps ==
  ASSUME HostInv, Host!NextEntry
  PROVE  HostInv'
<1> USE DEF HostInv
<1>1. /\ GetFrame /\ step = "entry" /\ step' = step /\ entry <= Len(Index) /\ entry \notin Host!CopyBytes
      /\ entry' = entry + 1 /\ got' = got /\ stored' = stored /\ stream' = stream /\ open' = open
      /\ trouble' = trouble
  BY DEF Host!NextEntry, Host!Skipped, Host!which, Host!net, Host!files, Host!list, Host!reads, GetFrame
<1>2. /\ HostTypes' /\ EntryInv' /\ OpenInv' /\ BoundInv' /\ PutInv' /\ Host!CopyBytes' = Host!CopyBytes
  <2>1. entry' \in 1 .. Len(Index) + 1 /\ got' \in Nat
    BY <1>1, IndexNames DEF HostTypes, Troubles
  <2> QED
    BY <1>1, <2>1, GetKeeps DEF HostTypes, Troubles
<1>3. GetInv'
  <2> SUFFICES ASSUME trouble' \cap {"skipped", "short"} = {} PROVE Fetched'
    BY DEF GetInv
  <2>1. Fetched
    BY <1>1 DEF GetInv
  <2>2. (\A f \in Kept : OfFile(stored[f], f))'
    BY <1>1, <2>1 DEF Fetched, OfFile, Pieces
  <2>3. ASSUME trouble' = {}, NEW i \in Host!CopyBytes, i < entry'
        PROVE  stored'[Index[i].name] = Host!Data(Index[i].name)
    <3>1. i < entry
      BY <1>1, <2>3, IndexNames DEF HostTypes, Troubles
    <3> QED
      BY <1>1, <2>1, <2>3, <3>1 DEF Fetched, GetFrame
  <2>4. trouble' = {} => (\A i \in Host!CopyBytes : i < entry => stored[Index[i].name] = Host!Data(Index[i].name))'
    BY <1>2, <2>3 DEF Host!Data
  <2> QED
    BY <1>1, <2>1, <2>2, <2>4 DEF Fetched, GetFrame
<1> QED
  BY <1>2, <1>3

LEMMA GetCommandKeeps ==
  ASSUME HostInv, Host!Get
  PROVE  HostInv'
<1> USE DEF HostInv
<1> DEFINE f == Host!Here
<1>8. /\ op = "get" /\ step = "entry" /\ op' = op /\ folder' = folder /\ home' = home /\ disk' = disk
      /\ remote' = remote /\ srv' = srv /\ f_files' = f_files /\ todo' = todo /\ total' = total
     
      /\ sent' = sent /\ pos' = pos /\ readb' = readb /\ ops' = ops /\ entry' = entry /\ got' = 0 /\ twice' = twice
      /\ stored' = [stored EXCEPT ![f] = << >>] /\ entry \in Host!CopyBytes
  BY DEF Host!Get, Host!Skipped, Host!which, Host!list, Host!reads
<1>9. \/ step' = "next" /\ "broken" \in trouble' /\ stream' = stream /\ open' = open
         /\ trouble' = trouble \cup {"broken"}
      \/ step' = "header" /\ "broken" \notin trouble /\ trouble' = trouble
         /\ open' = open \cup {"file"} /\ stream' = stream \o Host!Header(f) \o Host!Data(f)
  <2>1. CASE "broken" \in trouble
    <3>1. trouble = trouble \cup {"broken"}
      BY <2>1
    <3> QED
      BY <2>1, <3>1 DEF Host!Get
  <2>2. CASE "broken" \notin trouble
    BY <2>2 DEF Host!Get, Host!Breaks
  <2> QED
    BY <2>1, <2>2
<1>1. GetFrame
  BY <1>8, <1>9 DEF GetFrame
<1>10. f \in Kept /\ \A i \in Host!CopyBytes : i # entry => Index[i].name # f
  BY <1>8, HereIs
<1>11. /\ stored' = [g \in Kept |-> stored'[g]] /\ stored'[f] = << >>
       /\ \A g \in Kept : g # f => stored'[g] = stored[g]
  BY <1>8, <1>10 DEF HostTypes, Troubles
<1>2. /\ HostTypes' /\ EntryInv' /\ OpenInv' /\ BoundInv' /\ PutInv' /\ Host!CopyBytes' = Host!CopyBytes
  <2>1. entry' \in 1 .. Len(Index) + 1 /\ got' \in Nat
    BY <1>8, <1>10, HereIs
  <2>2. open' \subseteq {"socket", "index", "file"} /\ ("index" \in open => "index" \in open')
    BY <1>9 DEF HostTypes, Troubles
  <2> QED
    BY <1>1, <1>8, <1>11, <2>1, <2>2, GetKeeps
<1>3. GetInv'
  <2> SUFFICES ASSUME trouble' \cap {"skipped", "short"} = {} PROVE Fetched'
    BY DEF GetInv
  <2>1. Fetched
    BY <1>1 DEF GetInv, GetFrame
  <2>2. (\A g \in Kept : OfFile(stored[g], g))'
    <3>1. Pieces(f, 0) = << >> /\ HostSize[f] \in Nat
      BY <1>10, PiecesGrow, HostSizes
    <3>2. OfFile(stored'[f], f)
      BY <1>11, <3>1 DEF OfFile
    <3>3. \A g \in Kept : g # f => OfFile(stored'[g], g)
      BY <1>11, <2>1 DEF Fetched
    <3>4. \A g \in Kept : OfFile(stored'[g], g)
      BY <3>2, <3>3
    <3> QED
      BY <3>4 DEF OfFile, Pieces
  <2>3. f' = f
    BY <1>8 DEF Host!Here
  <2>4. step' = "header" => stream' = Host!Header(f) \o Host!Data(f)
    <3> SUFFICES ASSUME step' = "header" PROVE stream' = Host!Header(f) \o Host!Data(f)
      OBVIOUS
    <3> DEFINE S == {"header", f} \X Nat
               h == Host!Header(f)
    <3>1. stream = << >> /\ stream' = stream \o h \o Host!Data(f)
      BY <1>8, <1>9, <2>1 DEF Fetched
    <3>2. h \in Seq(S)
      BY <1>10, HostSizes DEF Host!Header
    <3> HIDE DEF S, h
    <3>3. << >> \o h = h
      BY <3>2, ConcatEmptySeq
    <3>4. stream \o h = h
      BY <3>1, <3>3
    <3> QED
      BY <3>1, <3>4 DEF h
  <2>5. ASSUME trouble' = {}, NEW i \in Host!CopyBytes, i < entry'
        PROVE  stored'[Index[i].name] = Host!Data(Index[i].name)
    <3>1. Index[i].name # f /\ Index[i].name \in Kept /\ trouble = {}
      BY <1>8, <1>9, <1>10, <2>5, IndexNames DEF HostTypes, Troubles
    <3> QED
      BY <1>8, <1>11, <2>1, <2>5, <3>1 DEF Fetched
  <2>6. trouble' = {} => (\A i \in Host!CopyBytes : i < entry => stored[Index[i].name] = Host!Data(Index[i].name))'
    BY <1>2, <2>5 DEF Host!Data
  <2>7. step' = "header" => stream' = (Host!Header(f) \o Host!Data(f))'
    BY <2>3, <2>4 DEF Host!Header, Host!Data
  <2> QED
    BY <1>8, <1>9, <1>11, <2>2, <2>3, <2>6, <2>7 DEF Fetched
<1> QED
  BY <1>2, <1>3

LEMMA GetHeaderKeeps ==
  ASSUME HostInv, op = "get", Host!ReadHeader
  PROVE  HostInv'
<1> USE DEF HostInv
<1> DEFINE f == Host!Here
<1>8. /\ op = "get" /\ step = "header" /\ op' = op /\ folder' = folder /\ home' = home /\ disk' = disk
      /\ remote' = remote /\ srv' = srv /\ f_files' = f_files /\ todo' = todo /\ total' = total
     
      /\ sent' = sent /\ pos' = pos /\ readb' = readb /\ ops' = ops /\ entry' = entry /\ got' = got /\ twice' = twice
      /\ stored' = stored /\ open' = open /\ step' = IF expected' = 0 THEN "closefile" ELSE "data"
  BY DEF Host!ReadHeader, Host!which, Host!files, Host!list, Host!reads
<1>9. \/ /\ stream # << >> /\ stream' = Tail(stream) /\ trouble' = trouble
         /\ expected' \in IF Head(stream)[1] = "header" THEN {Head(stream)[2]} ELSE Host!AnySize
      \/ trouble' = trouble \cup {"short"}
      \/ trouble' = trouble \cup {"broken"} /\ expected' = 0 /\ stream' = stream
  BY DEF Host!ReadHeader, Host!Breaks
<1>1. GetFrame
  BY <1>8, <1>9 DEF GetFrame
<1>10. entry \in Host!CopyBytes
  BY <1>8 DEF EntryInv
<1>11. f \in Kept /\ HostSize[f] \in Nat \ {0} /\ entry \in 1 .. Len(Index) /\ Len(Index) \in Nat
  BY <1>8, <1>10, HereIs
<1>2. /\ HostTypes' /\ EntryInv' /\ OpenInv' /\ BoundInv' /\ PutInv' /\ Host!CopyBytes' = Host!CopyBytes
  BY <1>1, <1>8, <1>10, <1>11, GetKeeps DEF HostTypes, Troubles
<1>3. GetInv'
  <2> SUFFICES ASSUME trouble' \cap {"skipped", "short"} = {} PROVE Fetched'
    BY DEF GetInv
  <2>1. Fetched
    BY <1>1 DEF GetInv, GetFrame
  <2>2. (\A g \in Kept : OfFile(stored[g], g))'
    BY <1>8, <2>1 DEF Fetched, OfFile, Pieces
  <2>3. f' = f
    BY <1>8 DEF Host!Here
  <2>4. \/ step' = "closefile" /\ "broken" \in trouble'
        \/ step' = "data" /\ expected' = HostSize[f] /\ stream' = Host!Data(f) /\ trouble' = trouble
    <3>1. got = 0 /\ stream = Host!Header(f) \o Host!Data(f)
      BY <1>8, <2>1 DEF Fetched
    <3>2. stream # << >> /\ Head(stream) = << "header", HostSize[f] >> /\ Tail(stream) = Host!Data(f)
      BY <1>11, <3>1, HeaderFirst
    <3>3. Head(stream)[1] = "header" /\ Head(stream)[2] = HostSize[f]
      BY <3>2
    <3>4. CASE trouble' = trouble \cup {"broken"} /\ expected' = 0
      BY <1>8, <3>4
    <3>5. CASE /\ stream' = Tail(stream) /\ trouble' = trouble
               /\ expected' \in IF Head(stream)[1] = "header" THEN {Head(stream)[2]} ELSE Host!AnySize
      <4>1. expected' = HostSize[f]
        BY <3>3, <3>5
      <4> QED
        BY <1>8, <1>11, <3>2, <3>5, <4>1
    <3>6. trouble' # trouble \cup {"short"}
      OBVIOUS
    <3> QED
      BY <1>9, <3>4, <3>5, <3>6
  <2>5. step' = "data" =>
          /\ got' < HostSize[f] /\ stored'[f] = Pieces(f, got') /\ stream' = Others(f, got')
    <3>1. got = 0 /\ stored[f] = << >>
      BY <1>8, <2>1 DEF Fetched
    <3>2. Pieces(f, 0) = << >> /\ Others(f, 0) = Host!Data(f)
      BY <1>11, PiecesGrow, OthersShrink
    <3> QED
      BY <1>8, <1>11, <2>4, <3>1, <3>2
  <2>6. trouble' = {} => (\A i \in Host!CopyBytes : i < entry => stored[Index[i].name] = Host!Data(Index[i].name))'
    <3>1. trouble' = {} => trouble = {}
      BY <1>9
    <3> QED
      BY <1>2, <1>8, <2>1, <3>1 DEF Fetched, Host!Data
  <2>7. step' = "data" => /\ expected' = HostSize[f] /\ stored'[f] = Pieces(f, got)'
                          /\ stream' = Others(f, got)'
    BY <2>3, <2>4, <2>5 DEF Pieces, Others
  <2> QED
    BY <1>8, <2>2, <2>3, <2>4, <2>5, <2>6, <2>7 DEF Fetched
<1> QED
  BY <1>2, <1>3

LEMMA ReceiveKeeps ==
  ASSUME HostInv, Host!Receive
  PROVE  HostInv'
<1> USE DEF HostInv
<1> DEFINE f == Host!Here
<1>8. /\ op = "get" /\ step = "data" /\ op' = op /\ folder' = folder /\ home' = home /\ disk' = disk
      /\ remote' = remote /\ srv' = srv /\ f_files' = f_files /\ todo' = todo /\ total' = total
     
      /\ sent' = sent /\ pos' = pos /\ readb' = readb /\ ops' = ops /\ entry' = entry /\ got' = got + 1 /\ twice' = twice
      /\ open' = open /\ trouble' = trouble /\ expected' = expected
      /\ stream # << >> /\ stream' = Tail(stream) /\ stored' = [stored EXCEPT ![f] = Append(@, Head(stream))]
      /\ step' = IF got' >= expected THEN "wait" ELSE "data"
  BY DEF Host!Receive, Host!which, Host!list, Host!reads
<1>1. GetFrame
  BY <1>8 DEF GetFrame
<1>10. entry \in Host!CopyBytes
  BY <1>8 DEF EntryInv
<1>11. /\ f \in Kept /\ HostSize[f] \in Nat \ {0} /\ entry \in 1 .. Len(Index) /\ Len(Index) \in Nat
       /\ \A i \in Host!CopyBytes : i # entry => Index[i].name # f
  BY <1>8, <1>10, HereIs
<1>12. /\ stored' = [g \in Kept |-> stored'[g]] /\ stored'[f] = Append(stored[f], Head(stream))
       /\ \A g \in Kept : g # f => stored'[g] = stored[g]
  BY <1>8, <1>11 DEF HostTypes, Troubles
<1>13. got \in Nat
  BY DEF HostTypes, Troubles
<1>2. /\ HostTypes' /\ EntryInv' /\ OpenInv' /\ BoundInv' /\ PutInv' /\ Host!CopyBytes' = Host!CopyBytes
  <2>1. entry' \in 1 .. Len(Index) + 1 /\ got' \in Nat
    BY <1>8, <1>11, <1>13
  <2> QED
    BY <1>1, <1>8, <1>10, <1>12, <2>1, GetKeeps DEF HostTypes, Troubles
<1>3. GetInv'
  <2> SUFFICES ASSUME trouble' \cap {"skipped", "short"} = {} PROVE Fetched'
    BY DEF GetInv
  <2>1. Fetched
    BY <1>8 DEF GetInv
  <2>2. /\ got < HostSize[f] /\ expected = HostSize[f]
        /\ stored[f] = Pieces(f, got) /\ stream = Others(f, got)
    BY <1>8, <2>1 DEF Fetched
  <2>3. /\ stored'[f] = Pieces(f, got + 1) /\ stream' = Others(f, got + 1)
        /\ Others(f, HostSize[f]) = << >>
    <3>1. /\ Head(stream) = << f, got + 1 >> /\ Tail(stream) = Others(f, got + 1)
          /\ Others(f, HostSize[f]) = << >>
      BY <1>11, <1>13, <2>2, OthersShrink
    <3>2. Append(Pieces(f, got), << f, got + 1 >>) = Pieces(f, got + 1)
      BY <1>13, PiecesGrow
    <3> QED
      BY <1>8, <1>12, <2>2, <3>1, <3>2
  <2>4. (\A g \in Kept : OfFile(stored[g], g))'
    <3>1. got + 1 \in 0 .. HostSize[f]
      BY <1>11, <1>13, <2>2
    <3>2. OfFile(stored'[f], f)
      BY <2>3, <3>1 DEF OfFile
    <3>3. \A g \in Kept : OfFile(stored'[g], g)
      BY <1>12, <2>1, <3>2 DEF Fetched
    <3> QED
      BY <3>3 DEF OfFile, Pieces
  <2>5. f' = f
    BY <1>8 DEF Host!Here
  <2>6. CASE got + 1 >= HostSize[f]
    <3>1. got + 1 = HostSize[f] /\ step' = "wait"
      BY <1>8, <1>11, <1>13, <2>2, <2>6
    <3>2. stored'[f] = Pieces(f, HostSize[f]) /\ stream' = << >>
      BY <2>3, <3>1
    <3>3. HereWhole'
      BY <2>5, <3>2 DEF HereWhole, Pieces
    <3>4. (trouble = {} => \A i \in Host!CopyBytes : i < entry => stored[Index[i].name] = Host!Data(Index[i].name))'
      <4> SUFFICES ASSUME trouble = {}, NEW i \in Host!CopyBytes, i < entry
                   PROVE  stored'[Index[i].name] = Host!Data(Index[i].name)
        BY <1>2, <1>8 DEF Host!Data
      <4>1. Index[i].name # f /\ Index[i].name \in Kept
        BY <1>11, IndexNames
      <4> QED
        BY <1>8, <1>12, <2>1, <4>1 DEF Fetched
    <3> QED
      BY <1>8, <2>4, <3>1, <3>3, <3>4 DEF Fetched
  <2>7. CASE ~(got + 1 >= HostSize[f])
    <3>1. got' < HostSize[f] /\ step' = "data"
      BY <1>8, <1>11, <1>13, <2>2, <2>7
    <3>2. /\ expected' = HostSize[f] /\ stored'[f] = Pieces(f, got)' /\ stream' = Others(f, got)'
      BY <1>8, <2>2, <2>3, <2>5 DEF Pieces, Others
    <3>4. (trouble = {} => \A i \in Host!CopyBytes : i < entry => stored[Index[i].name] = Host!Data(Index[i].name))'
      <4> SUFFICES ASSUME trouble = {}, NEW i \in Host!CopyBytes, i < entry
                   PROVE  stored'[Index[i].name] = Host!Data(Index[i].name)
        BY <1>2, <1>8 DEF Host!Data
      <4>1. Index[i].name # f /\ Index[i].name \in Kept
        BY <1>11, IndexNames
      <4> QED
        BY <1>8, <1>12, <2>1, <4>1 DEF Fetched
    <3> QED
      BY <1>8, <2>4, <2>5, <3>1, <3>2, <3>4 DEF Fetched
  <2> QED
    BY <2>6, <2>7
<1> QED
  BY <1>2, <1>3

LEMMA FileOverKeeps ==
  ASSUME HostInv, Host!ReceiveFails \/ Host!SkipFile \/ Host!CloseFile
  PROVE  HostInv'
<1> USE DEF HostInv
<1> DEFINE f == Host!Here
<1>8. /\ op = "get" /\ op' = op /\ folder' = folder /\ home' = home /\ disk' = disk
      /\ remote' = remote /\ srv' = srv /\ f_files' = f_files /\ todo' = todo /\ total' = total
     
      /\ sent' = sent /\ pos' = pos /\ readb' = readb /\ ops' = ops /\ entry' = entry /\ got' = got /\ twice' = twice
      /\ stored' = stored /\ stream' = stream /\ (open' = open \/ open' = open \ {"file"})
      /\ step \in {"data", "wait", "closefile"} /\ step' \in {"wait", "closefile", "next"}
  BY DEF Host!ReceiveFails, Host!SkipFile, Host!CloseFile, Host!which, Host!files, Host!list, Host!reads, Host!net
<1>9. \/ trouble' = trouble \cup {"broken"}
      \/ trouble' = trouble \cup {"skipped"}
      \/ trouble' = trouble /\ step \in {"wait", "closefile"}
  BY DEF Host!ReceiveFails, Host!SkipFile, Host!CloseFile, Host!Breaks
<1>1. GetFrame
  BY <1>8, <1>9 DEF GetFrame
<1>10. entry \in Host!CopyBytes
  BY <1>8 DEF EntryInv
<1>11. entry \in 1 .. Len(Index) /\ Len(Index) \in Nat
  BY <1>8, <1>10, HereIs
<1>2. /\ HostTypes' /\ EntryInv' /\ OpenInv' /\ BoundInv' /\ PutInv' /\ Host!CopyBytes' = Host!CopyBytes
  <2>1. entry' \in 1 .. Len(Index) + 1 /\ got' \in Nat
    BY <1>8, <1>11 DEF HostTypes, Troubles
  <2>2. open' \subseteq {"socket", "index", "file"} /\ ("index" \in open => "index" \in open')
    BY <1>8 DEF HostTypes, Troubles
  <2> QED
    BY <1>1, <1>8, <1>10, <2>1, <2>2, GetKeeps DEF HostTypes, Troubles
<1>3. GetInv'
  <2> SUFFICES ASSUME trouble' \cap {"skipped", "short"} = {} PROVE Fetched'
    BY DEF GetInv
  <2>1. Fetched
    BY <1>1 DEF GetInv, GetFrame
  <2>2. (\A g \in Kept : OfFile(stored[g], g))'
    BY <1>8, <2>1 DEF Fetched, OfFile, Pieces
  <2>3. "broken" \in trouble' \/ HereWhole'
    <3>1. CASE trouble' = trouble \cup {"broken"}
      BY <3>1
    <3>2. CASE trouble' = trouble /\ step \in {"wait", "closefile"}
      <4>1. "broken" \in trouble \/ HereWhole
        BY <1>8, <2>1, <3>2 DEF Fetched
      <4> QED
        BY <1>8, <3>2, <4>1 DEF HereWhole, Host!Here, Pieces
    <3> QED
      BY <1>9, <3>1, <3>2
  <2>4. trouble' = {} => (\A i \in Host!CopyBytes : i < entry => stored[Index[i].name] = Host!Data(Index[i].name))'
    <3>1. trouble' = {} => trouble = {}
      BY <1>9
    <3> QED
      BY <1>2, <1>8, <2>1, <3>1 DEF Fetched, Host!Data
  <2> QED
    BY <1>8, <2>2, <2>3, <2>4 DEF Fetched
<1> QED
  BY <1>2, <1>3

\* The next entry, with all before it fetched unless something went wrong.
LEMMA AfterFileKeeps ==
  ASSUME HostInv, Host!AfterFile
  PROVE  HostInv'
<1> USE DEF HostInv
<1> DEFINE f == Host!Here
<1>8. /\ op = "get" /\ op' = op /\ folder' = folder /\ home' = home /\ disk' = disk
      /\ remote' = remote /\ srv' = srv /\ f_files' = f_files /\ todo' = todo /\ total' = total
      /\ sent' = sent /\ pos' = pos /\ readb' = readb /\ ops' = ops /\ got' = got /\ twice' = twice
      /\ stored' = stored /\ stream' = stream /\ open' = open \ {"file"} /\ step = "next"
  BY DEF Host!AfterFile, Host!which, Host!files, Host!list, Host!reads, Host!net
<1>9. \/ entry' = entry + 1 /\ step' = "entry" /\ trouble' = trouble
      \/ step' = "end" /\ trouble' = trouble \cup {"ended"} /\ entry' = entry
  BY DEF Host!AfterFile
<1>1. GetFrame
  BY <1>8, <1>9 DEF GetFrame
<1>10. entry \in Host!CopyBytes
  BY <1>8 DEF EntryInv
<1>11. /\ f \in Kept /\ entry \in 1 .. Len(Index) /\ Len(Index) \in Nat
  BY <1>8, <1>10, HereIs
<1>2. /\ HostTypes' /\ EntryInv' /\ OpenInv' /\ BoundInv' /\ PutInv' /\ Host!CopyBytes' = Host!CopyBytes
  <2>1. entry' \in 1 .. Len(Index) + 1 /\ got' \in Nat /\ step' \in {"entry", "end"}
    BY <1>8, <1>9, <1>11 DEF HostTypes, Troubles
  <2>2. open' \subseteq {"socket", "index", "file"} /\ ("index" \in open => "index" \in open')
    BY <1>8 DEF HostTypes, Troubles
  <2> QED
    BY <1>1, <1>8, <2>1, <2>2, GetKeeps DEF HostTypes, Troubles
<1>3. GetInv'
  <2> SUFFICES ASSUME trouble' \cap {"skipped", "short"} = {} PROVE Fetched'
    BY DEF GetInv
  <2>1. Fetched
    BY <1>1 DEF GetInv, GetFrame
  <2>2. (\A g \in Kept : OfFile(stored[g], g))'
    BY <1>8, <2>1 DEF Fetched, OfFile, Pieces
  <2>3. "broken" \in trouble \/ HereWhole
    BY <1>8, <2>1 DEF Fetched
  <2>4. step' = "entry" => "broken" \in trouble' \/ stream' = << >>
    BY <1>8, <1>9, <2>3 DEF HereWhole
  <2>5. ASSUME trouble' = {}, NEW i \in Host!CopyBytes, i < entry'
        PROVE  stored'[Index[i].name] = Host!Data(Index[i].name)
    <3>1. entry' = entry + 1 /\ trouble = {}
      BY <1>9, <2>5
    <3>2. i < entry \/ i = entry
      BY <1>11, <2>5, <3>1, IndexNames
    <3>3. CASE i < entry
      BY <1>8, <2>1, <3>1, <3>3 DEF Fetched
    <3>4. CASE i = entry
      <4>1. stored[f] = Host!Data(f) /\ Index[i].name = f
        BY <1>11, <2>3, <3>1, <3>4, PiecesPrefix DEF HereWhole, Host!Here
      <4> QED
        BY <1>8, <4>1
    <3> QED
      BY <3>2, <3>3, <3>4
  <2>6. trouble' = {} => (\A i \in Host!CopyBytes : i < entry => stored[Index[i].name] = Host!Data(Index[i].name))'
    BY <1>2, <2>5 DEF Host!Data
  <2> QED
    BY <1>8, <1>9, <2>2, <2>4, <2>6 DEF Fetched
<1> QED
  BY <1>2, <1>3

LEMMA GetEndsKeeps ==
  ASSUME HostInv, Host!GetEnds
  PROVE  HostInv'
<1> USE DEF HostInv
<1>1. /\ op = "get" /\ op' = "idle" /\ step' = "idle" /\ open' = {} /\ stream' = << >>
      /\ srv' = Host!Nobody /\ folder' = folder /\ home' = home /\ disk' = disk /\ entry' = entry
      /\ got' = got /\ stored' = stored /\ remote' = remote /\ f_files' = f_files /\ todo' = todo
      /\ total' = total /\ sent' = sent /\ pos' = pos /\ readb' = readb /\ ops' = ops /\ trouble' = trouble
      /\ twice' = IF "index" \in open THEN twice ELSE twice \cup {"nothing"}
  BY DEF Host!GetEnds, Host!Closes, Host!Hangs, Host!which, Host!files, Host!list, Host!reads
<1>2. Host!CopyBytes' = Host!CopyBytes
  BY <1>1 DEF Host!CopyBytes, Host!Wanted
<1>3. HostTypes'
  BY <1>1 DEF HostTypes, Troubles, Host!Nobody
<1>4. EntryInv'
  BY <1>1 DEF EntryInv
<1>5. OpenInv'
  BY <1>1, <1>2 DEF OpenInv
<1>6. BoundInv'
  BY <1>1 DEF BoundInv
<1>7. GetInv'
  BY <1>1, GetIdle
<1>8. PutInv'
  BY <1>1, PutIdle
<1> QED
  BY <1>3, <1>4, <1>5, <1>6, <1>7, <1>8

-----------------------------------------------------------------------------
(***************************************************************************)
(* An operation starts.                                                    *)
(***************************************************************************)
\* With nothing copied, both invariants ask for little.
LEMMA Nothing ==
  ASSUME stored' = [f \in Kept |-> << >>], remote' = [f \in Kept |-> << >>]
  PROVE  /\ (\A f \in Kept : OfFile(stored[f], f))' /\ (\A f \in Kept : OfFile(remote[f], f))'
         /\ \A f \in Kept : stored'[f] = << >> /\ remote'[f] = << >>
<1>1. \A f \in Kept : OfFile(<< >>, f)
  <2> SUFFICES ASSUME NEW f \in Kept PROVE OfFile(<< >>, f)
    OBVIOUS
  <2>1. Pieces(f, 0) = << >> /\ 0 \in 0 .. HostSize[f]
    BY PiecesGrow, HostSizes
  <2> QED
    BY <2>1 DEF OfFile
<1>2. \A f \in Kept : stored'[f] = << >> /\ remote'[f] = << >>
  OBVIOUS
<1>3. \A f \in Kept : OfFile(stored'[f], f) /\ OfFile(remote'[f], f)
  BY <1>1, <1>2
<1> QED
  BY <1>2, <1>3 DEF OfFile, Pieces

LEMMA StartsEffect ==
  ASSUME HostInv, NEW o, NEW first, Host!Starts(o, first)
  PROVE  /\ op = "idle" /\ op' = o /\ step' = first /\ ops' \in 0 .. MaxOps /\ entry' = 1 /\ got' = 0
         /\ sent' = 0 /\ pos' = 0 /\ readb' = 0 /\ disk' = HostSize /\ twice' = {}
         /\ stream' = << >> /\ srv' = Host!Nobody
         /\ stored' = [f \in Kept |-> << >>] /\ remote' = [f \in Kept |-> << >>]
<1>1. /\ op = "idle" /\ ops < MaxOps /\ ops' = ops + 1 /\ op' = o /\ step' = first
      /\ entry' = 1 /\ got' = 0 /\ sent' = 0 /\ pos' = 0 /\ readb' = 0 /\ disk' = HostSize /\ twice' = {}
      /\ stream' = stream /\ srv' = srv
      /\ stored' = [f \in Kept |-> << >>] /\ remote' = [f \in Kept |-> << >>]
  BY DEF Host!Starts, Host!net, Host!HostFile, Kept
<1>2. ops' \in 0 .. MaxOps
  BY <1>1, HostSizes DEF HostInv, HostTypes
<1> QED
  BY <1>1, <1>2 DEF HostInv, OpenInv

LEMMA StartTypes ==
  ASSUME HostInv, NEW o \in {"get", "put", "com", "one"}, NEW first, Host!Starts(o, first),
         folder' \in Folder, home' \in BOOLEAN, f_files' \in Seq(Listed), todo' \in Seq(Seq(Inside)),
         total' \in Nat, open' \subseteq {"socket", "index", "file"}, trouble' \subseteq {"broken", "unlisted"}
  PROVE  HostTypes'
<1>1. /\ op' = o /\ ops' \in 0 .. MaxOps /\ entry' = 1 /\ got' = 0
      /\ sent' = 0 /\ pos' = 0 /\ readb' = 0 /\ disk' = HostSize /\ twice' = {} /\ srv' = Host!Nobody
      /\ stored' = [f \in Kept |-> << >>] /\ remote' = [f \in Kept |-> << >>]
  BY StartsEffect
<1> QED
  BY <1>1, HostSizes DEF HostTypes, Troubles, Host!Nobody

LEMMA StartGetKeeps ==
  ASSUME HostInv, Host!StartGet
  PROVE  HostInv'
<1> USE DEF HostInv
<1>1. /\ Host!Starts("get", "connect") /\ home' \in BOOLEAN /\ folder' \in Folder
      /\ open' = {"index", "socket"} /\ trouble' = {} /\ f_files' = << >> /\ todo' = << >> /\ total' = 0
  BY DEF Host!StartGet
<1>2. /\ op' = "get" /\ step' = "connect" /\ entry' = 1 /\ twice' = {} /\ stream' = << >>
      /\ stored' = [f \in Kept |-> << >>] /\ remote' = [f \in Kept |-> << >>]
  BY <1>1, StartsEffect
<1>3. HostTypes'
  BY <1>1, StartTypes
<1>4. EntryInv'
  BY <1>1, <1>2, IndexNames DEF EntryInv
<1>5. OpenInv'
  BY <1>1, <1>2 DEF OpenInv
<1>6. BoundInv'
  BY <1>1, <1>2, HostSizes DEF BoundInv
<1>7. GetInv'
  <2>1. (\A i \in Host!CopyBytes : i \in 1 .. Len(Index))'
    <3>1. Host!CopyBytes' \subseteq DOMAIN Index
      BY DEF Host!CopyBytes
    <3> QED
      BY <3>1, IndexNames
  <2>2. (\A i \in Host!CopyBytes : ~(i < entry))'
    BY <1>2, <2>1, IndexNames
  <2> QED
    BY <1>2, <2>2, Nothing DEF GetInv, Fetched
<1>8. PutInv'
  BY <1>2, Nothing DEF PutInv
<1> QED
  BY <1>3, <1>4, <1>5, <1>6, <1>7, <1>8

LEMMA StartComKeeps ==
  ASSUME HostInv, Host!StartCom
  PROVE  HostInv'
<1> USE DEF HostInv
<1>1. /\ Host!Starts("com", "connect") /\ home' = home /\ folder' = folder
      /\ open' = {} /\ trouble' = {} /\ f_files' = << >> /\ todo' = << >> /\ total' = 0
  BY DEF Host!StartCom, Host!which
<1>2. /\ op' = "com" /\ step' = "connect" /\ entry' = 1 /\ twice' = {} /\ stream' = << >>
      /\ stored' = [f \in Kept |-> << >>] /\ remote' = [f \in Kept |-> << >>]
  BY <1>1, StartsEffect
<1>3. HostTypes'
  <2>1. home' \in BOOLEAN /\ folder' \in Folder
    BY <1>1 DEF HostTypes, Troubles
  <2> QED
    BY <1>1, <2>1, StartTypes
<1>4. EntryInv'
  BY <1>1, <1>2, IndexNames DEF EntryInv
<1>5. OpenInv'
  BY <1>1, <1>2 DEF OpenInv
<1>6. BoundInv'
  BY <1>1, <1>2, HostSizes DEF BoundInv
<1>7. GetInv'
  BY <1>2, Nothing DEF GetInv, Fetched
<1>8. PutInv'
  BY <1>2, Nothing DEF PutInv
<1> QED
  BY <1>3, <1>4, <1>5, <1>6, <1>7, <1>8

\* The list of a folder is empty, and every entry left is in the folder.
LEMMA StartPutKeeps ==
  ASSUME HostInv, Host!StartPut
  PROVE  HostInv'
<1> USE DEF HostInv
<1>1. /\ Host!Starts("put", "list") /\ home' = home /\ folder' \in Folder
      /\ open' = {} /\ trouble' \subseteq {"unlisted"} /\ f_files' = << >> /\ total' = 0
      /\ todo' = << Tree[folder'] >> \/ todo' = << >>
  BY DEF Host!StartPut
<1>2. /\ op' = "put" /\ step' = "list" /\ entry' = 1 /\ twice' = {} /\ stream' = << >>
      /\ got' = 0 /\ sent' = 0 /\ srv' = Host!Nobody /\ disk' = HostSize
      /\ stored' = [f \in Kept |-> << >>] /\ remote' = [f \in Kept |-> << >>]
  BY <1>1, StartsEffect
<1>10. folder' \in DOMAIN Tree /\ Tree[folder'] \in Seq(Inside)
  BY <1>1, TreeTypes
<1>3. HostTypes'
  <2>1. home' \in BOOLEAN /\ << Tree[folder'] >> \in Seq(Seq(Inside)) /\ << >> \in Seq(Seq(Inside))
    BY <1>1, <1>10 DEF HostTypes
  <2>5. f_files' = << >> /\ trouble' \subseteq {"unlisted"} /\ (todo' = << Tree[folder'] >> \/ todo' = << >>)
    BY <1>1
  <2>8. f_files' \in Seq(Listed)
    <3>1. << >> \in Seq(Listed)
      OBVIOUS
    <3> QED
      BY <2>5, <3>1
  <2>9. todo' \in Seq(Seq(Inside))
    <3>1. CASE todo' = << Tree[folder'] >>
      BY <2>1, <3>1
    <3>2. CASE todo' = << >>
      BY <2>1, <3>2
    <3> QED
      BY <2>5, <3>1, <3>2
  <2>6. f_files' \in Seq(Listed) /\ todo' \in Seq(Seq(Inside))
    BY <2>8, <2>9
  <2>7. trouble' \subseteq {"broken", "unlisted"}
    BY <2>5
  <2>2. f_files' \in Seq(Listed) /\ todo' \in Seq(Seq(Inside)) /\ trouble' \subseteq {"broken", "unlisted"}
    BY <2>6, <2>7
  <2>3. total' \in Nat /\ open' \subseteq {"socket", "index", "file"}
    BY <1>1
  <2> HIDE DEF HostInv
  <2>4. HostInv /\ Host!Starts("put", "list") /\ folder' \in Folder
    BY <1>1 DEF HostInv
  <2> QED
    BY <2>1, <2>2, <2>3, <2>4, StartTypes
<1>4. EntryInv'
  BY <1>1, <1>2, IndexNames DEF EntryInv
<1>5. OpenInv'
  BY <1>1, <1>2 DEF OpenInv
<1>6. BoundInv'
  BY <1>1, <1>2, HostSizes DEF BoundInv
<1>7. GetInv'
  BY <1>2, Nothing DEF GetInv, Fetched
<1>8. PutInv'
  <2>1. DOMAIN f_files' = {} /\ Len(f_files') = 0
    BY <1>1
  <2>2. ListInv'
    BY <2>1 DEF ListInv, Distinct
  <2>3. (\E s : Sums(s))'
    <3> DEFINE s == [i \in 0 .. 0 |-> 0]
    <3>1. Sums(s)'
      BY <1>1, <1>2, <2>1 DEF Sums, Adds
    <3> QED
      BY <3>1
  <2>5. CASE todo' = << >>
    <3>1. DOMAIN todo' = {}
      BY <2>5
    <3>2. TodoInv'
      BY <2>1, <3>1 DEF TodoInv, Unlisted
    <3> QED
      BY <1>2, <2>2, <2>3, <3>2, Nothing DEF PutInv
  <2>4. ASSUME todo' = << Tree[folder'] >> PROVE TodoInv'
    <3>1. DOMAIN todo' = {1} /\ todo'[1] = Tree[folder']
      BY <2>4
    <3>2. \A k \in DOMAIN Tree[folder'] : Above(Tree[folder'][k].name, folder', f_files')
      BY <1>10 DEF Above
    <3>3. \A k, j \in DOMAIN Tree[folder'] : Tree[folder'][k].name = Tree[folder'][j].name => k = j
      BY <1>10, OneParent
    <3>4. \A l \in DOMAIN todo' : \A k \in DOMAIN todo'[l] : Above(todo'[l][k].name, folder', f_files')
      BY <3>1, <3>2
    <3>5. /\ \A i \in DOMAIN f_files' : FALSE
          /\ \A l, m \in DOMAIN todo' : l = m
      BY <2>1, <3>1
    <3>6. \A l, m \in DOMAIN todo' : \A k \in DOMAIN todo'[l], j \in DOMAIN todo'[m] :
            todo'[l][k].name = todo'[m][j].name => l = m /\ k = j
      BY <3>1, <3>3
    <3>7. \A l \in DOMAIN todo' : \A k \in DOMAIN todo'[l] :
            todo'[l][k].dir => PathDepth[todo'[l][k].name] > PathDepth[folder']
      <4>1. \A k \in DOMAIN Tree[folder'] :
              Tree[folder'][k].dir => PathDepth[Tree[folder'][k].name] > PathDepth[folder']
        BY <1>10, TreeTypes
      <4> QED
        BY <3>1, <4>1
    <3> QED
      BY <3>4, <3>5, <3>6, <3>7 DEF TodoInv, Unlisted
  <2> QED
    BY <1>1, <1>2, <2>2, <2>3, <2>4, <2>5, Nothing DEF PutInv
<1> QED
  BY <1>3, <1>4, <1>5, <1>6, <1>7, <1>8

\* One file that is sent is a list of one record.
LEMMA StartPutOneKeeps ==
  ASSUME HostInv, Host!StartPutOne
  PROVE  HostInv'
<1> USE DEF HostInv
<1>1. PICK f \in Kept : f_files' = << [name |-> f, dir |-> FALSE, size |-> HostSize[f]] >> /\ total' = HostSize[f]
  BY DEF Host!StartPutOne, Host!HostFile, Kept
<1>2. /\ todo' = << >> /\ open' = {"socket", "file"} /\ home' = home /\ folder' = folder
      /\ trouble' \subseteq {"broken"}
  BY DEF Host!StartPutOne, Host!which
<1>3. PICK first \in {"put", "end"} : Host!Starts("one", first) /\ (trouble' = {} => first = "put")
  BY DEF Host!StartPutOne
<1>4. /\ op' = "one" /\ step' = first /\ entry' = 1 /\ twice' = {} /\ stream' = << >>
      /\ got' = 0 /\ sent' = 0 /\ srv' = Host!Nobody /\ disk' = HostSize
      /\ stored' = [g \in Kept |-> << >>] /\ remote' = [g \in Kept |-> << >>]
  BY <1>3, StartsEffect
<1> DEFINE r == [name |-> f, dir |-> FALSE, size |-> HostSize[f]]
<1>5. HostSize[f] \in Nat
  BY HostSizes
<1>6. r \in Listed /\ r.name = f /\ ~r.dir /\ r.size = HostSize[f]
  BY <1>5 DEF Listed
<1>7. f_files' = << r >>
  BY <1>1
<1> HIDE DEF r
<1>8. /\ f_files' \in Seq(Listed) /\ Len(f_files') = 1 /\ DOMAIN f_files' = {1} /\ f_files'[1] = r
  BY <1>6, <1>7
<1>9. HostTypes'
  <2>1. home' \in BOOLEAN /\ folder' \in Folder /\ todo' \in Seq(Seq(Inside)) /\ total' \in Nat
    BY <1>1, <1>2, <1>5 DEF HostTypes, Troubles
  <2> QED
    BY <1>2, <1>3, <1>8, <2>1, StartTypes
<1>10. EntryInv'
  BY <1>4, <1>8, IndexNames DEF EntryInv
<1>11. OpenInv'
  BY <1>2, <1>4 DEF OpenInv
<1>12. BoundInv'
  BY <1>4, <1>8, HostSizes DEF BoundInv
<1>13. GetInv'
  BY <1>4, Nothing DEF GetInv, Fetched
<1>14. PutInv'
  <2>1. ListInv'
    BY <1>6, <1>8 DEF ListInv, Distinct
  <2>2. (\E s : Sums(s))'
    <3> DEFINE s == [i \in 0 .. 1 |-> IF i = 0 THEN 0 ELSE HostSize[f]]
    <3>1. s \in [0 .. 1 -> Nat] /\ s[0] = 0 /\ s[1] = HostSize[f]
      BY <1>5
    <3> HIDE DEF s
    <3>2. Sums(s)'
      BY <1>1, <1>4, <1>5, <1>6, <1>8, <3>1 DEF Sums, Adds
    <3> QED
      BY <3>2
  <2>3. step' = "put" => Arrived'
    <3>1. ~(\E i \in DOMAIN f_files' : i < entry' \/ i > entry')
      BY <1>4, <1>8
    <3>2. Host!Record' = r
      BY <1>4, <1>8 DEF Host!Record
    <3>3. srv'.left = 0 /\ remote'[f] = << >>
      BY <1>4 DEF Host!Nobody
    <3> QED
      BY <1>6, <3>1, <3>2, <3>3 DEF Arrived
  <2>4. step' \in {"put", "end"} /\ (step' = "end" => trouble' # {})
    BY <1>3, <1>4
  <2> QED
    BY <1>4, <2>1, <2>2, <2>3, <2>4, Nothing DEF PutInv
<1> QED
  BY <1>9, <1>10, <1>11, <1>12, <1>13, <1>14

-----------------------------------------------------------------------------
(***************************************************************************)
(* A command on a connection of its own.                                   *)
(***************************************************************************)
LEMMA ComKeeps ==
  ASSUME HostInv, Host!Com \/ (op = "com" /\ Host!ReadHeader) \/ Host!ComReceive
  PROVE  HostInv'
<1> USE DEF HostInv
<1>1. /\ op = "com" /\ op' = op /\ folder' = folder /\ home' = home /\ disk' = disk /\ entry' = entry
      /\ stored' = stored /\ remote' = remote /\ srv' = srv /\ f_files' = f_files /\ todo' = todo
      /\ total' = total /\ sent' = sent /\ pos' = pos /\ readb' = readb /\ ops' = ops /\ twice' = twice
  BY DEF Host!Com, Host!ReadHeader, Host!ComReceive, Host!which, Host!net, Host!files, Host!list, Host!reads
<1>2. got' \in {0, got, got + 1}
  BY DEF Host!Com, Host!ReadHeader, Host!ComReceive
<1>3. trouble' = trouble \/ trouble' = trouble \cup {"broken"} \/ trouble' = trouble \cup {"short"}
  BY DEF Host!Com, Host!ReadHeader, Host!ComReceive, Host!Breaks
<1>4. \/ open' = {"socket", "file"}
      \/ open' = open /\ step # "connect"
      \/ open' = open \ {"file"} /\ trouble' = trouble \cup {"broken"}
  BY DEF Host!Com, Host!ReadHeader, Host!ComReceive, Host!Breaks
<1>5. HostTypes'
  <2>1. open' \subseteq {"socket", "index", "file"}
    BY <1>4 DEF HostTypes, Troubles
  <2>2. got' \in Nat
    BY <1>2 DEF HostTypes, Troubles
  <2>3. trouble' \subseteq Troubles
    BY <1>3 DEF HostTypes, Troubles
  <2> QED
    BY <1>1, <2>1, <2>2, <2>3 DEF HostTypes, Troubles
<1>6. EntryInv'
  BY <1>1 DEF EntryInv
<1>7. OpenInv'
  <2>1. Host!CopyBytes' = Host!CopyBytes
    BY <1>1 DEF Host!CopyBytes, Host!Wanted
  <2>2. "file" \in open' \/ "broken" \in trouble'
    BY <1>1, <1>3, <1>4 DEF OpenInv
  <2> QED
    BY <1>1, <1>3, <2>1, <2>2 DEF OpenInv
<1>8. BoundInv'
  BY <1>1, <1>3 DEF BoundInv
<1>9. trouble \subseteq trouble' /\ op' \notin {"get", "put", "one"}
  BY <1>1, <1>3
<1>10. GetInv' /\ PutInv'
  BY <1>1, <1>9, GetIdle, PutIdle
<1> QED
  BY <1>5, <1>6, <1>7, <1>8, <1>10

\* What ends a command or a copy to the host.
LEMMA EndsKeeps ==
  ASSUME HostInv, Host!ComEnds \/ Host!PutEnds \/ Host!PutOneEnds
  PROVE  HostInv'
<1> USE DEF HostInv
<1>1. /\ op \in {"com", "put", "one"} /\ folder' = folder /\ home' = home /\ disk' = disk /\ entry' = entry
      /\ stored' = stored /\ remote' = remote /\ f_files' = f_files /\ todo' = todo /\ got' = got
      /\ total' = total /\ sent' = sent /\ pos' = pos /\ readb' = readb /\ ops' = ops /\ trouble' = trouble
      /\ open' = {} /\ stream' = << >> /\ srv' = Host!Nobody
  BY DEF Host!ComEnds, Host!PutEnds, Host!PutOneEnds, Host!Hangs, Host!which, Host!files, Host!list, Host!reads
<1>2. op' = "idle" \/ (op' = "com" /\ step' = "connect")
  BY DEF Host!ComEnds, Host!PutEnds, Host!PutOneEnds
<1>3. twice' = twice \/ (twice' = twice \cup {"failed"} /\ "broken" \in trouble)
  <2>1. CASE Host!ComEnds
    <3>1. "file" \in open \/ "broken" \in trouble
      BY <2>1 DEF Host!ComEnds, OpenInv
    <3> QED
      BY <2>1, <3>1 DEF Host!ComEnds, Host!Closes
  <2>2. CASE Host!PutEnds \/ Host!PutOneEnds
    BY <2>2 DEF Host!PutEnds, Host!PutOneEnds
  <2> QED
    BY <2>1, <2>2
<1>4. HostTypes'
  BY <1>1, <1>2, <1>3 DEF HostTypes, Troubles, Host!Nobody
<1>5. EntryInv'
  BY <1>1, <1>2 DEF EntryInv
<1>6. OpenInv'
  <2>1. Host!CopyBytes' = Host!CopyBytes
    BY <1>1 DEF Host!CopyBytes, Host!Wanted
  <2> QED
    BY <1>1, <1>2, <1>3, <2>1 DEF OpenInv
<1>7. BoundInv'
  BY <1>1, <1>2 DEF BoundInv
<1>8. GetInv' /\ PutInv'
  BY <1>1, <1>2, GetIdle, PutIdle
<1> QED
  BY <1>4, <1>5, <1>6, <1>7, <1>8

-----------------------------------------------------------------------------
(***************************************************************************)
(* A folder is listed and sent to the host.                                *)
(***************************************************************************)
LEMMA GetStays ==
  ASSUME HostInv, op \in {"put", "one"}, op' \in {"put", "one", "idle"}, stored' = stored,
         folder' = folder, home' = home, trouble \subseteq trouble'
  PROVE  GetInv' /\ Host!CopyBytes' = Host!CopyBytes
<1>1. GetInv'
  BY GetIdle DEF HostInv
<1>2. Host!CopyBytes' = Host!CopyBytes
  BY DEF Host!CopyBytes, Host!Wanted
<1> QED
  BY <1>1, <1>2

\* The deepest level, its first entry, and the record of it.
Depth == Len(todo)
First == Head(todo[Depth])
Rest == [todo EXCEPT ![Depth] = Tail(todo[Depth])]
NewRecord == [name |-> First.name, dir |-> First.dir,
              size |-> IF First.dir THEN 0 ELSE disk[First.name]]

LEMMA LevelTypes ==
  ASSUME HostInv, todo # << >>
  PROVE  /\ Depth \in Nat \ {0} /\ DOMAIN todo = 1 .. Depth /\ todo \in Seq(Seq(Inside))
         /\ todo[Depth] \in Seq(Inside)
         /\ SubSeq(todo, 1, Depth - 1) \in Seq(Seq(Inside))
         /\ DOMAIN SubSeq(todo, 1, Depth - 1) = 1 .. Depth - 1
         /\ \A l \in 1 .. Depth - 1 : SubSeq(todo, 1, Depth - 1)[l] = todo[l]
         /\ Depth = 1 => SubSeq(todo, 1, Depth - 1) = << >>
<1>1. /\ Depth \in Nat \ {0} /\ DOMAIN todo = 1 .. Depth /\ todo \in Seq(Seq(Inside))
      /\ todo[Depth] \in Seq(Inside)
  BY DEF HostInv, HostTypes, Depth
<1> DEFINE S == Seq(Inside)
           n == Depth
           t == SubSeq(todo, 1, n - 1)
<1>2. n \in Nat \ {0} /\ \A l \in 1 .. n : todo[l] \in S
  BY <1>1
<1> HIDE DEF S, n
<1>3. \A l \in 1 .. n - 1 : todo[l] \in S
  BY <1>2
<1>4. /\ t \in Seq(S) /\ Len(t) = (IF 1 <= n - 1 THEN (n - 1) - 1 + 1 ELSE 0)
      /\ \A i \in 1 .. (n - 1) - 1 + 1 : t[i] = todo[1 + i - 1]
  BY <1>2, <1>3, SubSeqProperties
<1>5. Len(t) = n - 1
  BY <1>2, <1>4
<1>6. \A i \in 1 .. n - 1 : i \in 1 .. (n - 1) - 1 + 1 /\ 1 + i - 1 = i
  BY <1>2
<1>7. \A i \in 1 .. n - 1 : t[i] = todo[i]
  BY <1>4, <1>6
<1>8. DOMAIN t = 1 .. n - 1
  BY <1>4, <1>5
<1>9. n = 1 => t = << >>
  BY <1>2, <1>4, <1>5
<1> QED
  BY <1>1, <1>4, <1>7, <1>8, <1>9 DEF S, n

LEMMA FirstTypes ==
  ASSUME HostInv, todo # << >>, todo[Depth] # << >>
  PROVE  /\ First \in Inside /\ First = todo[Depth][1] /\ 1 \in DOMAIN todo[Depth]
         /\ Rest \in Seq(Seq(Inside)) /\ Len(Rest) = Depth /\ DOMAIN Rest = 1 .. Depth
         /\ \A l \in 1 .. Depth : \A k \in DOMAIN Rest[l] :
              IF l = Depth THEN k + 1 \in DOMAIN todo[l] /\ Rest[l][k] = todo[l][k + 1] /\ k + 1 # 1
              ELSE k \in DOMAIN todo[l] /\ Rest[l][k] = todo[l][k]
         /\ NewRecord \in Listed /\ NewRecord.name = First.name /\ NewRecord.dir = First.dir
         /\ NewRecord.size = IF First.dir THEN 0 ELSE disk[First.name]
         /\ First.dir => First.name \in DOMAIN Tree /\ Tree[First.name] \in Seq(Inside)
         /\ ~First.dir => First.name \in Kept /\ disk[First.name] \in Nat
<1> DEFINE L == todo[Depth]
           n == Depth
           T == Tail(L)
<1>1. n \in Nat \ {0} /\ DOMAIN todo = 1 .. n /\ todo \in Seq(Seq(Inside)) /\ L \in Seq(Inside)
  BY LevelTypes
<1>2. /\ Head(L) \in Inside /\ Head(L) = L[1] /\ 1 \in DOMAIN L
      /\ T \in Seq(Inside) /\ Len(T) = Len(L) - 1 /\ \A k \in 1 .. Len(T) : T[k] = L[k + 1]
  <2>1. /\ Head(L) \in Inside /\ T \in Seq(Inside) /\ Len(T) = Len(L) - 1
        /\ \A k \in 1 .. Len(T) : T[k] = L[k + 1]
    BY <1>1, HeadTailProperties
  <2>2. Head(L) = L[1] /\ 1 \in DOMAIN L
    BY <1>1
  <2> QED
    BY <2>1, <2>2
<1>3. \A k \in DOMAIN T : k \in Nat \ {0} /\ k + 1 \in DOMAIN L /\ T[k] = L[k + 1] /\ k + 1 # 1
  BY <1>1, <1>2
<1>4. First \in Inside /\ First = L[1] /\ 1 \in DOMAIN L
  BY <1>2 DEF First
<1>5. Rest = [todo EXCEPT ![n] = T]
  BY DEF Rest
<1> HIDE DEF T, n
<1>6. /\ Rest \in Seq(Seq(Inside)) /\ Len(Rest) = n /\ DOMAIN Rest = 1 .. n
      /\ Rest[n] = T /\ \A l \in 1 .. n : l # n => Rest[l] = todo[l]
  <2>1. Len(todo) = n /\ n \in 1 .. Len(todo)
    BY <1>1 DEF n, Depth
  <2> QED
    BY <1>1, <1>2, <1>5, <2>1, ExceptSeq
<1>7. \A l \in 1 .. n : \A k \in DOMAIN Rest[l] :
        IF l = n THEN k + 1 \in DOMAIN todo[l] /\ Rest[l][k] = todo[l][k + 1] /\ k + 1 # 1
        ELSE k \in DOMAIN todo[l] /\ Rest[l][k] = todo[l][k]
  BY <1>3, <1>6 DEF n
<1>8. /\ First.dir \in BOOLEAN
      /\ First.dir => First.name \in DOMAIN Tree /\ Tree[First.name] \in Seq(Inside)
      /\ ~First.dir => First.name \in Kept
  BY <1>4, TreeTypes
<1>9. ~First.dir => disk[First.name] \in Nat
  BY <1>8 DEF HostInv, HostTypes
<1>10. /\ NewRecord \in Listed /\ NewRecord.name = First.name /\ NewRecord.dir = First.dir
       /\ NewRecord.size = IF First.dir THEN 0 ELSE disk[First.name]
  BY <1>8, <1>9 DEF NewRecord, Listed
<1> QED
  BY <1>4, <1>6, <1>7, <1>8, <1>9, <1>10 DEF n

\* What is left, other than the first entry, stays where it is.
LEMMA RestHas ==
  ASSUME HostInv, todo # << >>, todo[Depth] # << >>,
         NEW l \in 1 .. Depth, NEW j \in DOMAIN todo[l], ~(l = Depth /\ j = 1)
  PROVE  \E m \in DOMAIN Rest[l] : Rest[l][m] = todo[l][j]
<1> DEFINE L == todo[Depth]
           n == Depth
           T == Tail(L)
<1>1. /\ n \in Nat \ {0} /\ DOMAIN todo = 1 .. n /\ todo \in Seq(Seq(Inside)) /\ L \in Seq(Inside)
      /\ Len(todo) = n
  BY LevelTypes DEF Depth
<1>2. T \in Seq(Inside) /\ Len(T) = Len(L) - 1 /\ \A k \in 1 .. Len(T) : T[k] = L[k + 1]
  BY <1>1, HeadTailProperties
<1>3. DOMAIN L = 1 .. Len(L) /\ Len(L) \in Nat /\ DOMAIN T = 1 .. Len(T)
  BY <1>1, <1>2
<1>4. Rest = [todo EXCEPT ![n] = T]
  BY DEF Rest
<1> HIDE DEF T, n
<1>5. Rest[n] = T /\ \A i \in 1 .. n : i # n => Rest[i] = todo[i]
  BY <1>1, <1>2, <1>4, ExceptSeq
<1>6. CASE l # n
  BY <1>5, <1>6 DEF n
<1>7. CASE l = n
  <2>1. j \in 1 .. Len(L) /\ j # 1
    BY <1>3, <1>7 DEF n
  <2>2. j - 1 \in 1 .. Len(T) /\ (j - 1) + 1 = j
    BY <1>2, <1>3, <2>1
  <2>3. T[j - 1] = L[j]
    BY <1>2, <2>2
  <2> QED
    BY <1>3, <1>5, <1>7, <2>2, <2>3 DEF n
<1> QED
  BY <1>6, <1>7

\* A record more: the names stay apart, whichever entries are left (pure facts about lists).
LEMMA DistinctGrows ==
  ASSUME NEW list \in Seq(Listed), Distinct(list), NEW r \in Listed,
         ~r.dir => r.name \in Kept /\ r.size = HostSize[r.name], r.dir => r.size = 0,
         \A i \in DOMAIN list : list[i].name # r.name
  PROVE  Distinct(Append(list, r))
<1> DEFINE m == Len(list)
           F == Append(list, r)
<1>1. /\ m \in Nat /\ DOMAIN list = 1 .. m
      /\ DOMAIN F = 1 .. m + 1 /\ F[m + 1] = r /\ \A i \in 1 .. m : F[i] = list[i]
  OBVIOUS
<1> HIDE DEF m, F
<1>2. /\ \A i \in 1 .. m + 1 : i = m + 1 \/ i \in 1 .. m
  BY <1>1
<1>3. \A i, j \in 1 .. m + 1 : F[i].name = F[j].name => i = j
  <2> SUFFICES ASSUME NEW i \in 1 .. m + 1, NEW j \in 1 .. m + 1, F[i].name = F[j].name PROVE i = j
    OBVIOUS
  <2>1. CASE i \in 1 .. m /\ j \in 1 .. m
    BY <1>1, <2>1 DEF Distinct
  <2>2. CASE i = m + 1 /\ j \in 1 .. m
    BY <1>1, <2>2
  <2>3. CASE i \in 1 .. m /\ j = m + 1
    BY <1>1, <2>3
  <2> QED
    BY <1>2, <2>1, <2>2, <2>3
<1>4. ASSUME NEW i \in 1 .. m + 1
      PROVE  /\ ~F[i].dir => F[i].name \in Kept /\ F[i].size = HostSize[F[i].name]
             /\ F[i].dir => F[i].size = 0
  <2>1. CASE i = m + 1
    BY <1>1, <2>1
  <2>2. CASE i \in 1 .. m
    BY <1>1, <2>2 DEF Distinct
  <2> QED
    BY <1>2, <2>1, <2>2
<1> QED
  BY <1>1, <1>3, <1>4 DEF Distinct, F

LEMMA AboveGrows ==
  ASSUME NEW list \in Seq(Listed), NEW r \in Listed, NEW top, NEW x, Above(x, top, list)
  PROVE  Above(x, top, Append(list, r))
<1> DEFINE F == Append(list, r)
<1>1. \A i \in DOMAIN list : i \in DOMAIN F /\ F[i] = list[i]
  OBVIOUS
<1> HIDE DEF F
<1>2. Above(x, top, F)
  BY <1>1 DEF Above
<1> QED
  BY <1>2 DEF F

\* What is in a directory that is listed only now was not met before.
LEMMA NewBelow ==
  ASSUME NEW top, NEW list, NEW e \in Inside, e.dir, PathDepth[e.name] > PathDepth[top],
         \A i \in DOMAIN list : list[i].name # e.name,
         NEW x, Above(x, top, list)
  PROVE  \A k \in DOMAIN Tree[e.name] : Tree[e.name][k].name # x
<1> SUFFICES ASSUME NEW k \in DOMAIN Tree[e.name], Tree[e.name][k].name = x PROVE FALSE
  OBVIOUS
<1>1. PICK d \in DOMAIN Tree :
        /\ d = top \/ \E i \in DOMAIN list : list[i].name = d
        /\ \E j \in DOMAIN Tree[d] : Tree[d][j].name = x
  BY DEF Above
<1>2. e.name \in DOMAIN Tree /\ e.name # top
  <2>1. e.name \in DOMAIN Tree /\ PathDepth[e.name] \in Nat
    BY TreeTypes
  <2> QED
    BY <2>1
<1>3. d = e.name
  BY <1>1, <1>2, OneParent
<1> QED
  BY <1>1, <1>2, <1>3

\* The entries that are left after the first of the deepest level is listed.
LEMMA RestUnlisted ==
  ASSUME NEW list \in Seq(Listed), NEW r \in Listed, NEW top, NEW left, NEW n \in Nat, NEW rest,
         Unlisted(top, list, left), DOMAIN left = 1 .. n, DOMAIN rest = 1 .. n, n # 0,
         1 \in DOMAIN left[n], r.name = left[n][1].name,
         \A l \in 1 .. n : \A k \in DOMAIN rest[l] :
           IF l = n THEN k + 1 \in DOMAIN left[l] /\ rest[l][k] = left[l][k + 1] /\ k + 1 # 1
           ELSE k \in DOMAIN left[l] /\ rest[l][k] = left[l][k],
         \A l \in 1 .. n : DOMAIN rest[l] \subseteq Nat
  PROVE  Unlisted(top, Append(list, r), rest)
<1> DEFINE F == Append(list, r)
           m == Len(list)
<1>1. /\ m \in Nat /\ DOMAIN list = 1 .. m
      /\ DOMAIN F = 1 .. m + 1 /\ F[m + 1] = r /\ \A i \in 1 .. m : F[i] = list[i]
  OBVIOUS
<1>2. \A x : Above(x, top, list) => Above(x, top, F)
  BY AboveGrows
<1> HIDE DEF F, m
<1>3. \A i \in 1 .. m + 1 : i = m + 1 \/ i \in 1 .. m
  BY <1>1
<1>4. n \in DOMAIN left
  OBVIOUS
<1>5. \A i \in DOMAIN F : Above(F[i].name, top, F)
  <2>1. Above(r.name, top, list)
    BY <1>4 DEF Unlisted
  <2>2. \A i \in 1 .. m : Above(list[i].name, top, list)
    BY <1>1 DEF Unlisted
  <2> QED
    BY <1>1, <1>2, <1>3, <2>1, <2>2
<1> DEFINE Old(l, k) == IF l = n THEN k + 1 ELSE k
<1>6. ASSUME NEW l \in 1 .. n, NEW k \in DOMAIN rest[l]
      PROVE  /\ Old(l, k) \in DOMAIN left[l] /\ rest[l][k] = left[l][Old(l, k)]
             /\ ~(l = n /\ Old(l, k) = 1)
  OBVIOUS
<1>7. \A l \in 1 .. n : \A k, j \in DOMAIN rest[l] : Old(l, k) = Old(l, j) => k = j
  OBVIOUS
<1> HIDE DEF Old
<1>8. ASSUME NEW l \in 1 .. n, NEW k \in DOMAIN rest[l]
      PROVE  /\ Above(rest[l][k].name, top, F)
             /\ \A i \in DOMAIN F : F[i].name # rest[l][k].name
             /\ \A p \in 1 .. n : \A j \in DOMAIN rest[p] :
                  rest[l][k].name = rest[p][j].name => l = p /\ k = j
             /\ rest[l][k].dir => PathDepth[rest[l][k].name] > PathDepth[top]
  <2>1. Above(rest[l][k].name, top, list)
    BY <1>6 DEF Unlisted
  <2>2. \A i \in 1 .. m : list[i].name # rest[l][k].name
    BY <1>1, <1>6 DEF Unlisted
  <2>3. r.name # rest[l][k].name
    BY <1>4, <1>6 DEF Unlisted
  <2>4. ASSUME NEW p \in 1 .. n, NEW j \in DOMAIN rest[p], rest[l][k].name = rest[p][j].name
        PROVE  l = p /\ k = j
    <3> DEFINE a == Old(l, k)
               b == Old(p, j)
    <3>1. /\ l \in DOMAIN left /\ p \in DOMAIN left /\ a \in DOMAIN left[l] /\ b \in DOMAIN left[p]
          /\ left[l][a].name = left[p][b].name
      BY <1>6, <2>4
    <3> HIDE DEF a, b
    <3>2. l = p /\ a = b
      BY <3>1 DEF Unlisted
    <3> QED
      BY <1>7, <3>2 DEF a, b
  <2>5. \A i \in DOMAIN F : F[i].name # rest[l][k].name
    BY <1>1, <1>3, <2>2, <2>3
  <2>6. rest[l][k].dir => PathDepth[rest[l][k].name] > PathDepth[top]
    BY <1>6 DEF Unlisted
  <2> QED
    BY <1>2, <2>1, <2>4, <2>5, <2>6
<1>9. Unlisted(top, F, rest)
  BY <1>5, <1>8 DEF Unlisted
<1> QED
  BY <1>9 DEF F

\* And with the entries of a directory that was just listed.
LEMMA BelowUnlisted ==
  ASSUME NEW top \in DOMAIN Tree, NEW list \in Seq(Listed), NEW e \in Inside, e.dir,
         PathDepth[e.name] > PathDepth[top], NEW r \in Listed, r.name = e.name,
         \A i \in DOMAIN list : list[i].name # e.name,
         Above(e.name, top, list), \A i \in DOMAIN list : Above(list[i].name, top, list),
         NEW rest \in Seq(Seq(Inside)), Unlisted(top, Append(list, r), rest),
         \A l \in DOMAIN rest : \A k \in DOMAIN rest[l] : Above(rest[l][k].name, top, list)
  PROVE  Unlisted(top, Append(list, r), Append(rest, Tree[e.name]))
<1> DEFINE F == Append(list, r)
           m == Len(list)
           n == Len(rest)
           D == Tree[e.name]
           T == Append(rest, D)
<1>1. /\ m \in Nat /\ DOMAIN list = 1 .. m
      /\ DOMAIN F = 1 .. m + 1 /\ F[m + 1] = r /\ \A i \in 1 .. m : F[i] = list[i]
  OBVIOUS
<1>2. e.name \in DOMAIN Tree /\ D \in Seq(Inside)
  BY TreeTypes
<1>3. /\ n \in Nat /\ DOMAIN rest = 1 .. n
      /\ DOMAIN T = 1 .. n + 1 /\ T[n + 1] = D /\ \A l \in 1 .. n : T[l] = rest[l]
  <2> HIDE DEF D
  <2> QED
    BY <1>2
<1>4. \A x : Above(x, top, list) => \A k \in DOMAIN D : D[k].name # x
  BY NewBelow
<1>5. Unlisted(top, F, rest)
  OBVIOUS
<1>6. \A k, j \in DOMAIN D : D[k].name = D[j].name => k = j
  BY <1>2, OneParent
<1>7. \A k \in DOMAIN D : Above(D[k].name, top, F)
  <2>1. m + 1 \in DOMAIN F /\ F[m + 1].name = e.name
    BY <1>1
  <2> HIDE DEF F
  <2> QED
    BY <1>2, <2>1 DEF Above
<1>14. \A k \in DOMAIN D : D[k].dir => PathDepth[D[k].name] > PathDepth[top]
  <2>1. /\ PathDepth[e.name] \in Nat /\ PathDepth[top] \in Nat
        /\ \A k \in DOMAIN D : D[k].dir => PathDepth[D[k].name] = PathDepth[e.name] + 1
    BY <1>2, TreeTypes
  <2> HIDE DEF D
  <2> QED
    BY <2>1
<1> HIDE DEF F, m, n, D, T
<1>8. \A i \in 1 .. m + 1 : i = m + 1 \/ i \in 1 .. m
  BY <1>1
<1>9. \A l \in 1 .. n + 1 : l = n + 1 \/ l \in 1 .. n
  BY <1>3
<1>10. \A k \in DOMAIN D : \A i \in DOMAIN F : F[i].name # D[k].name
  BY <1>1, <1>4, <1>8
<1>11. ASSUME NEW l \in 1 .. n + 1, NEW k \in DOMAIN T[l]
       PROVE  /\ Above(T[l][k].name, top, F)
              /\ \A i \in DOMAIN F : F[i].name # T[l][k].name
              /\ T[l][k].dir => PathDepth[T[l][k].name] > PathDepth[top]
  <2>1. CASE l = n + 1
    BY <1>3, <1>7, <1>10, <1>14, <2>1
  <2>2. CASE l \in 1 .. n
    <3>1. l \in DOMAIN rest /\ k \in DOMAIN rest[l] /\ T[l] = rest[l]
      BY <1>3, <2>2
    <3>2. /\ Above(rest[l][k].name, top, F)
          /\ \A i \in DOMAIN F : F[i].name # rest[l][k].name
          /\ rest[l][k].dir => PathDepth[rest[l][k].name] > PathDepth[top]
      BY <1>5, <3>1 DEF Unlisted
    <3> QED
      BY <3>1, <3>2
  <2> QED
    BY <1>9, <2>1, <2>2
<1>12. ASSUME NEW l \in 1 .. n + 1, NEW p \in 1 .. n + 1, NEW k \in DOMAIN T[l], NEW j \in DOMAIN T[p],
              T[l][k].name = T[p][j].name
       PROVE  l = p /\ k = j
  <2>1. CASE l \in 1 .. n /\ p \in 1 .. n
    <3>1. /\ l \in DOMAIN rest /\ p \in DOMAIN rest /\ T[l] = rest[l] /\ T[p] = rest[p]
          /\ k \in DOMAIN rest[l] /\ j \in DOMAIN rest[p] /\ rest[l][k].name = rest[p][j].name
      BY <1>3, <1>12, <2>1
    <3> QED
      BY <1>5, <3>1 DEF Unlisted
  <2>2. CASE l \in 1 .. n /\ p = n + 1
    BY <1>3, <1>4, <1>12, <2>2
  <2>3. CASE l = n + 1 /\ p \in 1 .. n
    BY <1>3, <1>4, <1>12, <2>3
  <2>4. CASE l = n + 1 /\ p = n + 1
    BY <1>3, <1>6, <1>12, <2>4
  <2> QED
    BY <1>9, <2>1, <2>2, <2>3, <2>4
<1>13. Unlisted(top, F, T)
  BY <1>3, <1>5, <1>11, <1>12 DEF Unlisted
<1> QED
  BY <1>13 DEF F, T, D

\* The sizes of a list that grows by one record.
LEMMA AddsGrow ==
  ASSUME NEW list \in Seq(Listed), NEW r \in Listed, NEW s, Adds(s, list)
  PROVE  \E t : Adds(t, Append(list, r)) /\ t[Len(Append(list, r))] = s[Len(list)] + r.size /\ t[0] = 0
<1> DEFINE m == Len(list)
           F == Append(list, r)
           t == [i \in 0 .. m + 1 |-> IF i <= m THEN s[i] ELSE s[m] + r.size]
<1>1. /\ m \in Nat /\ DOMAIN list = 1 .. m /\ Len(F) = m + 1
      /\ DOMAIN F = 1 .. m + 1 /\ F[m + 1] = r /\ \A i \in 1 .. m : F[i] = list[i]
  OBVIOUS
<1>2. r.size \in Nat
  BY DEF Listed
<1>3. /\ s \in [0 .. m -> Nat] /\ s[0] = 0 /\ \A i \in 1 .. m : s[i] = s[i - 1] + list[i].size
      /\ \A i, j \in 0 .. m : i <= j => s[i] <= s[j]
  BY <1>1 DEF Adds
<1>4. t = [i \in 0 .. m + 1 |-> IF i <= m THEN s[i] ELSE s[m] + r.size]
  OBVIOUS
<1> HIDE DEF m, F, t
<1>5. /\ \A i \in 0 .. m : i \in 0 .. m + 1 /\ i <= m
      /\ \A i \in 0 .. m + 1 : i = m + 1 \/ i \in 0 .. m
      /\ m \in 0 .. m /\ 0 \in 0 .. m /\ m + 1 \in 0 .. m + 1 /\ ~(m + 1 <= m)
  BY <1>1
<1>6. t[m + 1] = s[m] + r.size /\ \A i \in 0 .. m : t[i] = s[i]
  BY <1>4, <1>5
<1>7. t \in [0 .. m + 1 -> Nat]
  <2>1. s[m] \in Nat /\ s[m] + r.size \in Nat
    BY <1>2, <1>3, <1>5
  <2>2. \A i \in 0 .. m + 1 : i <= m => s[i] \in Nat
    BY <1>3, <1>5
  <2> QED
    BY <1>4, <2>1, <2>2
<1>8. \A i \in 1 .. m + 1 : t[i] = t[i - 1] + F[i].size
  <2>1. ASSUME NEW i \in 1 .. m PROVE t[i] = t[i - 1] + F[i].size
    <3>1. i \in 0 .. m /\ i - 1 \in 0 .. m
      BY <1>1
    <3> QED
      BY <1>1, <1>3, <1>6, <3>1
  <2>2. t[m + 1] = t[m + 1 - 1] + F[m + 1].size
    <3>1. m + 1 - 1 = m
      BY <1>1
    <3> QED
      BY <1>1, <1>5, <1>6, <3>1
  <2>3. ASSUME NEW i \in 1 .. m + 1 PROVE i = m + 1 \/ i \in 1 .. m
    BY <1>1
  <2>4. ASSUME NEW i \in 1 .. m + 1 PROVE t[i] = t[i - 1] + F[i].size
    <3>1. CASE i = m + 1
      <4>1. i - 1 = m /\ m + 1 - 1 = m
        BY <1>1, <3>1
      <4> QED
        BY <2>2, <3>1, <4>1
    <3>2. CASE i \in 1 .. m
      BY <2>1, <3>2
    <3> QED
      BY <2>3, <3>1, <3>2
  <2> QED
    BY <2>4
<1>9. \A i, j \in 0 .. m + 1 : i <= j => t[i] <= t[j]
  <2> SUFFICES ASSUME NEW i \in 0 .. m + 1, NEW j \in 0 .. m + 1, i <= j PROVE t[i] <= t[j]
    OBVIOUS
  <2>1. CASE j \in 0 .. m
    <3>1. i \in 0 .. m
      BY <1>1, <2>1
    <3> QED
      BY <1>3, <1>6, <2>1, <3>1
  <2>2. CASE j = m + 1 /\ i \in 0 .. m
    <3>1. s[i] <= s[m] /\ s[i] \in Nat /\ s[m] \in Nat
      <4>1. m \in 0 .. m /\ i <= m
        BY <1>5, <2>2
      <4> QED
        BY <1>3, <2>2, <4>1
    <3>2. s[i] <= s[m] + r.size
      BY <1>2, <3>1
    <3> QED
      BY <1>6, <2>2, <3>2
  <2>3. CASE j = m + 1 /\ i = m + 1
    <3>1. t[m + 1] \in Nat
      BY <1>5, <1>7
    <3> QED
      BY <2>3, <3>1
  <2> QED
    BY <1>5, <2>1, <2>2, <2>3
<1>10. Adds(t, F) /\ t[Len(F)] = s[m] + r.size /\ t[0] = 0
  <2>1. t[0] = 0
    BY <1>3, <1>5, <1>6
  <2> QED
    BY <1>1, <1>6, <1>7, <1>8, <1>9, <2>1 DEF Adds
<1> QED
  BY <1>10 DEF F, m

LEMMA ReadEntryKeeps ==
  ASSUME HostInv, Host!ReadEntry
  PROVE  HostInv'
<1> USE DEF HostInv
<1> DEFINE full == Len(f_files) + 1 >= MAX_F_FILES
<1>1. /\ op = "put" /\ step = "list" /\ todo # << >> /\ todo[Depth] # << >>
      /\ op' = op /\ step' = step /\ folder' = folder /\ home' = home /\ entry' = entry /\ got' = got
      /\ stream' = stream /\ srv' = srv /\ disk' = disk /\ stored' = stored /\ remote' = remote
      /\ sent' = sent /\ pos' = pos /\ readb' = readb /\ open' = open /\ twice' = twice /\ ops' = ops
      /\ f_files' = Append(f_files, NewRecord)
  BY DEF Host!ReadEntry, Host!Level, Host!which, Host!net, Host!files, Host!reads, Depth, First, NewRecord
<1>2. \/ /\ full /\ todo' = SubSeq(todo, 1, Depth - 1) /\ total' = total
         /\ trouble' = trouble \cup {"full"} \cup (IF Depth > 1 THEN {"deep"} ELSE {})
      \/ /\ ~full /\ First.dir /\ todo' = Append(Rest, Tree[First.name]) /\ total' = total
         /\ trouble' = trouble
      \/ /\ ~full /\ First.dir /\ todo' = Rest /\ total' = total
         /\ trouble' = trouble \cup {"unlisted"}
      \/ /\ ~full /\ ~First.dir /\ todo' = Rest /\ total' = total + disk[First.name]
         /\ trouble' = trouble
  BY DEF Host!ReadEntry, Host!Level, Host!LeavesLevel, Depth, First, Rest
<1>3. /\ First \in Inside /\ First = todo[Depth][1] /\ 1 \in DOMAIN todo[Depth]
      /\ Rest \in Seq(Seq(Inside)) /\ Len(Rest) = Depth /\ DOMAIN Rest = 1 .. Depth
      /\ NewRecord \in Listed /\ NewRecord.name = First.name /\ NewRecord.dir = First.dir
      /\ NewRecord.size = IF First.dir THEN 0 ELSE disk[First.name]
      /\ First.dir => First.name \in DOMAIN Tree /\ Tree[First.name] \in Seq(Inside)
      /\ ~First.dir => First.name \in Kept /\ disk[First.name] \in Nat
  BY <1>1, FirstTypes
<1>4. /\ Depth \in Nat \ {0} /\ DOMAIN todo = 1 .. Depth
      /\ SubSeq(todo, 1, Depth - 1) \in Seq(Seq(Inside))
      /\ Depth = 1 => SubSeq(todo, 1, Depth - 1) = << >>
  BY <1>1, LevelTypes
<1>5. /\ f_files \in Seq(Listed) /\ Len(f_files) \in Nat
      /\ f_files' \in Seq(Listed) /\ Len(f_files') = Len(f_files) + 1
  BY <1>1, <1>3 DEF HostTypes, Troubles
<1>6. HostTypes'
  <2>1. todo' \in Seq(Seq(Inside))
    <3>1. CASE full
      BY <1>2, <1>4, <3>1
    <3>4. CASE todo' = Rest
      BY <1>3, <3>4
    <3>2. CASE ~full /\ First.dir /\ todo' # Rest
      <4> DEFINE S == Seq(Inside)
                 D == Tree[First.name]
      <4>1. todo' = Append(Rest, D) /\ Rest \in Seq(S) /\ D \in S
        BY <1>2, <1>3, <3>2
      <4> HIDE DEF S, D
      <4>2. Append(Rest, D) \in Seq(S)
        BY <4>1
      <4> QED
        BY <4>1, <4>2 DEF S
    <3>3. CASE ~full /\ ~First.dir
      BY <1>2, <1>3, <3>3
    <3> QED
      BY <3>1, <3>2, <3>3, <3>4
  <2>2. total' \in Nat
    <3>1. total \in Nat
      BY DEF HostTypes, Troubles
    <3>2. CASE total' = total
      BY <3>1, <3>2
    <3>3. CASE total' # total
      <4>1. ~First.dir /\ total' = total + disk[First.name]
        BY <1>2, <3>3
      <4>2. disk[First.name] \in Nat
        BY <1>3, <4>1
      <4> QED
        BY <3>1, <4>1, <4>2
    <3> QED
      BY <3>2, <3>3
  <2>3. trouble' \subseteq Troubles
    BY <1>2 DEF HostTypes, Troubles
  <2> QED
    BY <1>1, <1>5, <2>1, <2>2, <2>3 DEF HostTypes, Troubles
<1>7. trouble \subseteq trouble'
  BY <1>2
<1>8. GetInv' /\ Host!CopyBytes' = Host!CopyBytes
  BY <1>1, <1>7, GetStays
<1>9. EntryInv'
  BY <1>1, <1>5, IndexNames DEF EntryInv
<1>10. OpenInv'
  BY <1>1, <1>7, <1>8 DEF OpenInv
<1>11. BoundInv'
  <2> SUFFICES ASSUME "deep" \notin trouble'
               PROVE  /\ Len(f_files') <= MAX_F_FILES
                      /\ IF "full" \in trouble' THEN todo' = << >> ELSE Len(f_files') < MAX_F_FILES
    BY <1>1 DEF BoundInv
  <2>1. "full" \notin trouble /\ Len(f_files) < MAX_F_FILES
    BY <1>1, <1>7 DEF BoundInv
  <2>2. CASE full
    <3>1. Depth = 1 /\ todo' = SubSeq(todo, 1, Depth - 1) /\ "full" \in trouble'
      BY <1>2, <1>4, <2>2
    <3> QED
      BY <1>4, <1>5, <2>1, <3>1, HostSizes
  <2>3. CASE ~full
    BY <1>2, <1>5, <2>1, <2>3, HostSizes
  <2> QED
    BY <2>2, <2>3
<1>12. PutInv'
  <2> SUFFICES ASSUME trouble' \cap {"changed", "full", "misread"} = {}
               PROVE  /\ (\A f \in Kept : OfFile(remote[f], f))' /\ disk' = HostSize /\ ListInv'
                      /\ (\E s : Sums(s))' /\ TodoInv' /\ \A f \in Kept : remote'[f] = << >>
    BY <1>1 DEF PutInv
  <2>1. /\ trouble \cap {"changed", "full", "misread"} = {} /\ total' = total + NewRecord.size
        /\ todo' = Rest \/ (First.dir /\ todo' = Append(Rest, Tree[First.name]))
    <3>1. total \in Nat
      BY DEF HostTypes
    <3>2. ~full /\ trouble \cap {"changed", "full", "misread"} = {}
      BY <1>2
    <3>3. CASE First.dir
      <4>1. NewRecord.size = 0
        BY <1>3, <3>3
      <4>2. (todo' = Rest \/ todo' = Append(Rest, Tree[First.name])) /\ total' = total
        BY <1>2, <3>2, <3>3
      <4> QED
        BY <3>1, <3>2, <3>3, <4>1, <4>2
    <3>4. CASE ~First.dir
      <4>1. NewRecord.size = disk[First.name]
        BY <1>3, <3>4
      <4>2. todo' = Rest /\ total' = total + disk[First.name]
        BY <1>2, <3>2, <3>4
      <4> QED
        BY <3>2, <3>4, <4>1, <4>2
    <3> QED
      BY <3>3, <3>4
  <2>2. /\ \A f \in Kept : OfFile(remote[f], f) /\ remote[f] = << >>
        /\ disk = HostSize /\ ListInv /\ TodoInv /\ \E s : Sums(s)
    BY <1>1, <2>1 DEF PutInv
  <2>3. (\A f \in Kept : OfFile(remote[f], f))'
    BY <1>1, <2>2 DEF OfFile, Pieces
  <2>4. \A i \in DOMAIN f_files : f_files[i].name # First.name
    <3>1. Depth \in DOMAIN todo
      BY <1>4
    <3> QED
      BY <1>3, <2>2, <3>1 DEF TodoInv, Unlisted
  <2>5. ListInv'
    <3>1. Distinct(Append(f_files, NewRecord))
      BY <1>3, <1>5, <2>2, <2>4, DistinctGrows DEF ListInv
    <3> QED
      BY <1>1, <3>1 DEF ListInv
  <2>6. (\E s : Sums(s))'
    <3>1. PICK s : Sums(s)
      BY <2>2
    <3>2. PICK t : /\ Adds(t, Append(f_files, NewRecord))
                   /\ t[Len(Append(f_files, NewRecord))] = s[Len(f_files)] + NewRecord.size /\ t[0] = 0
      BY <1>3, <1>5, <3>1, AddsGrow DEF Sums
    <3>3. sent = s[0] + 0 /\ s[0] = 0 /\ entry = 1
      BY <1>1, <3>1 DEF Sums, Adds, EntryInv
    <3>4. sent' = 0 /\ entry' - 1 = 0 /\ t[entry' - 1] = 0
      BY <1>1, <3>2, <3>3
    <3>5. Adds(t, f_files') /\ total' = t[Len(f_files')]
      BY <1>1, <2>1, <3>1, <3>2 DEF Sums
    <3>6. step' \notin {"send", "sent"}
      BY <1>1
    <3>7. sent' = t[entry' - 1] + (IF step' \in {"send", "sent"} THEN got' ELSE 0)
      BY <3>4, <3>6
    <3>8. Sums(t)'
      BY <3>5, <3>7 DEF Sums, Adds
    <3> QED
      BY <3>8
  <2>7. Unlisted(folder, Append(f_files, NewRecord), Rest)
    <3>1. Unlisted(folder, f_files, todo)
      BY <2>2 DEF TodoInv
    <3>2. \A l \in 1 .. Depth : DOMAIN Rest[l] \subseteq Nat
      BY <1>3
    <3>3. \A l \in 1 .. Depth : \A k \in DOMAIN Rest[l] :
            IF l = Depth THEN k + 1 \in DOMAIN todo[l] /\ Rest[l][k] = todo[l][k + 1] /\ k + 1 # 1
            ELSE k \in DOMAIN todo[l] /\ Rest[l][k] = todo[l][k]
      BY <1>1, FirstTypes
    <3>4. /\ f_files \in Seq(Listed) /\ NewRecord \in Listed /\ Depth \in Nat /\ Depth # 0
          /\ DOMAIN todo = 1 .. Depth /\ DOMAIN Rest = 1 .. Depth
          /\ 1 \in DOMAIN todo[Depth] /\ NewRecord.name = todo[Depth][1].name
      BY <1>3, <1>4, <1>5
    <3> QED
      BY <3>1, <3>2, <3>3, <3>4, RestUnlisted
  <2>8. TodoInv'
    <3>1. CASE todo' = Rest
      BY <1>1, <2>7, <3>1 DEF TodoInv
    <3>2. CASE First.dir /\ todo' = Append(Rest, Tree[First.name])
      <4>1. /\ Above(First.name, folder, f_files) /\ \A i \in DOMAIN f_files : Above(f_files[i].name, folder, f_files)
            /\ PathDepth[First.name] > PathDepth[folder]
        <5>1. Depth \in DOMAIN todo
          BY <1>4
        <5> QED
          BY <1>3, <2>2, <3>2, <5>1 DEF TodoInv, Unlisted
      <4>2. \A l \in DOMAIN Rest : \A k \in DOMAIN Rest[l] : Above(Rest[l][k].name, folder, f_files)
        <5>1. ASSUME NEW l \in 1 .. Depth, NEW k \in DOMAIN Rest[l]
              PROVE  \E j \in DOMAIN todo[l] : Rest[l][k] = todo[l][j]
          BY <1>1, <5>1, FirstTypes
        <5> QED
          BY <1>3, <1>4, <2>2, <5>1 DEF TodoInv, Unlisted
      <4>3. folder \in DOMAIN Tree
        BY TreeTypes DEF HostTypes, Troubles
      <4>4. Unlisted(folder, Append(f_files, NewRecord), Append(Rest, Tree[First.name]))
        BY <1>3, <1>5, <2>4, <2>7, <3>2, <4>1, <4>2, <4>3, BelowUnlisted
      <4> QED
        BY <1>1, <3>2, <4>4 DEF TodoInv
    <3> QED
      BY <2>1, <3>1, <3>2
  <2> QED
    BY <1>1, <2>2, <2>3, <2>5, <2>6, <2>8
<1> QED
  BY <1>6, <1>8, <1>9, <1>10, <1>11, <1>12

\* A level that ends, or a file that cannot be read and ends them all.
LEMMA LevelOverKeeps ==
  ASSUME HostInv, Host!EndOfLevel \/ Host!ReadFails
  PROVE  HostInv'
<1> USE DEF HostInv
<1>1. /\ op = "put" /\ step = "list" /\ todo # << >>
      /\ op' = op /\ step' = step /\ folder' = folder /\ home' = home /\ entry' = entry /\ got' = got
      /\ stream' = stream /\ srv' = srv /\ disk' = disk /\ stored' = stored /\ remote' = remote
      /\ sent' = sent /\ pos' = pos /\ readb' = readb /\ open' = open /\ twice' = twice /\ ops' = ops
      /\ f_files' = f_files /\ total' = total
      /\ (trouble' = trouble \/ trouble' = trouble \cup {"unread"})
      /\ (todo' = << >> \/ todo' = SubSeq(todo, 1, Depth - 1))
  BY DEF Host!EndOfLevel, Host!ReadFails, Host!LeavesLevel, Host!which, Host!net, Host!files, Host!reads, Depth
<1>2. /\ Depth \in Nat \ {0} /\ DOMAIN todo = 1 .. Depth
      /\ SubSeq(todo, 1, Depth - 1) \in Seq(Seq(Inside))
      /\ DOMAIN SubSeq(todo, 1, Depth - 1) = 1 .. Depth - 1
      /\ \A l \in 1 .. Depth - 1 : SubSeq(todo, 1, Depth - 1)[l] = todo[l]
  BY <1>1, LevelTypes
<1>3. \A l \in DOMAIN todo' : l \in DOMAIN todo /\ todo'[l] = todo[l]
  BY <1>1, <1>2
<1>4. HostTypes'
  <2>1. todo' \in Seq(Seq(Inside))
    <3>1. CASE todo' = << >>
      <4> DEFINE S == Seq(Inside)
      <4>1. << >> \in Seq(S)
        OBVIOUS
      <4> QED
        BY <3>1, <4>1
    <3>2. CASE todo' = SubSeq(todo, 1, Depth - 1)
      BY <1>2, <3>2
    <3> QED
      BY <1>1, <3>1, <3>2
  <2>2. trouble' \subseteq Troubles
    BY <1>1 DEF HostTypes, Troubles
  <2> QED
    BY <1>1, <2>1, <2>2 DEF HostTypes, Troubles
<1>5. GetInv' /\ Host!CopyBytes' = Host!CopyBytes
  BY <1>1, GetStays
<1>6. EntryInv'
  BY <1>1 DEF EntryInv
<1>7. OpenInv'
  BY <1>1, <1>5 DEF OpenInv
<1>8. BoundInv'
  <2>1. "full" \in trouble' <=> "full" \in trouble
    BY <1>1
  <2>2. "deep" \in trouble' <=> "deep" \in trouble
    BY <1>1
  <2>3. "deep" \notin trouble => "full" \notin trouble
    BY <1>1 DEF BoundInv
  <2> QED
    BY <1>1, <2>1, <2>2, <2>3 DEF BoundInv
<1>9. PutInv'
  <2> SUFFICES ASSUME trouble' \cap {"changed", "full", "misread"} = {}
               PROVE  /\ (\A f \in Kept : OfFile(remote[f], f))' /\ disk' = HostSize /\ ListInv'
                      /\ (\E s : Sums(s))' /\ TodoInv' /\ \A f \in Kept : remote'[f] = << >>
    BY <1>1 DEF PutInv
  <2>1. trouble \cap {"changed", "full", "misread"} = {}
    BY <1>1
  <2>2. /\ \A f \in Kept : OfFile(remote[f], f) /\ remote[f] = << >>
        /\ disk = HostSize /\ ListInv /\ TodoInv /\ \E s : Sums(s)
    BY <1>1, <2>1 DEF PutInv
  <2>3. (\A f \in Kept : OfFile(remote[f], f))'
    BY <1>1, <2>2 DEF OfFile, Pieces
  <2>4. (\E s : Sums(s))'
    <3>1. PICK s : Sums(s)
      BY <2>2
    <3>2. Sums(s)'
      BY <1>1, <3>1 DEF Sums, Adds
    <3> QED
      BY <3>2
  <2>5. TodoInv'
    BY <1>1, <1>3, <2>2 DEF TodoInv, Unlisted, Above
  <2> QED
    BY <1>1, <2>2, <2>3, <2>4, <2>5 DEF ListInv
<1> QED
  BY <1>4, <1>5, <1>6, <1>7, <1>8, <1>9

-----------------------------------------------------------------------------
(***************************************************************************)
(* The records of the list are sent.                                       *)
(***************************************************************************)
\* What every step of it leaves as it is.
PutFrame ==
  /\ op \in {"put", "one"} /\ op' = op /\ folder' = folder /\ home' = home /\ stored' = stored
  /\ stream' = stream /\ f_files' = f_files /\ todo' = todo /\ total' = total /\ ops' = ops
  /\ twice' = twice
  /\ trouble \subseteq trouble' /\ trouble' \subseteq trouble \cup {"broken", "ended", "misread", "changed"}

LEMMA PutKeeps ==
  ASSUME HostInv, PutFrame, entry' \in Nat \ {0}, got' \in Nat, sent' \in Nat, srv'.left \in Nat,
         pos' \in Nat, readb' \in 0 .. 1,
         srv' = [of |-> srv'.of, left |-> srv'.left], disk' \in [Kept -> Nat],
         remote' = [f \in Kept |-> remote'[f]], open' \subseteq {"socket", "index", "file"},
         step' = "list" => step = "list" /\ entry' = entry /\ open' = open /\ srv' = srv,
         step' # "list" => entry' <= Len(f_files), step' = "send" => Host!Record.size > 0,
         step' = "send" => entry' = entry
  PROVE  HostTypes' /\ EntryInv' /\ OpenInv' /\ BoundInv' /\ GetInv'
<1> USE DEF HostInv, PutFrame
<1>1. GetInv' /\ Host!CopyBytes' = Host!CopyBytes
  BY GetStays
<1>2. Len(Index) \in Nat /\ Len(f_files) \in Nat
  BY IndexNames DEF HostTypes, Troubles
<1>3. HostTypes'
  BY DEF HostTypes, Troubles
<1>7. step' = "send" => Host!Record' = Host!Record
  BY DEF Host!Record
<1>4. EntryInv'
  BY <1>2, <1>7 DEF EntryInv
<1>5. OpenInv'
  BY <1>1 DEF OpenInv
<1>6. BoundInv'
  BY DEF BoundInv
<1> QED
  BY <1>1, <1>3, <1>4, <1>5, <1>6

\* The record at hand.
LEMMA RecordIs ==
  ASSUME HostInv, op \in {"put", "one"}, step # "list"
  PROVE  /\ Len(f_files) \in Nat /\ DOMAIN f_files = 1 .. Len(f_files) /\ entry \in 1 .. Len(f_files)
         /\ Host!Record = f_files[entry] /\ Host!Record \in Listed /\ Host!Record.size \in Nat
<1>1. /\ f_files \in Seq(Listed) /\ entry \in Nat \ {0}
  BY DEF HostInv, HostTypes
<1>2. entry <= Len(f_files)
  BY DEF HostInv, EntryInv
<1>3. Len(f_files) \in Nat /\ DOMAIN f_files = 1 .. Len(f_files) /\ entry \in 1 .. Len(f_files)
  BY <1>1, <1>2
<1>4. f_files[entry] \in Listed
  BY <1>1, <1>3
<1> QED
  BY <1>3, <1>4 DEF Host!Record, Listed

LEMMA TakesEffect ==
  ASSUME HostTypes, NEW piece, Host!Takes(piece)
  PROVE  /\ srv'.left \in Nat /\ srv' = [of |-> srv'.of, left |-> srv'.left]
         /\ remote' = [f \in Kept |-> remote'[f]]
         /\ srv.left = 0 => remote' = remote /\ srv'.left = 0
         /\ srv.left > 0 =>
              /\ srv'.left = srv.left - 1 /\ (srv'.left > 0 => srv'.of = srv.of)
              /\ \A f \in Kept : remote'[f] = IF f = srv.of THEN Append(remote[f], piece) ELSE remote[f]
<1>1. /\ srv.left \in Nat /\ srv = [of |-> srv.of, left |-> srv.left]
      /\ remote = [f \in Kept |-> remote[f]]
  BY DEF HostTypes, Troubles
<1>2. /\ remote' = IF srv.left > 0 THEN [remote EXCEPT ![srv.of] = Append(@, piece)] ELSE remote
      /\ srv' = IF srv.left > 1 THEN [srv EXCEPT !.left = @ - 1] ELSE Host!Nobody
  BY DEF Host!Takes
<1>3. CASE srv.left > 0
  <2>1. remote' = [remote EXCEPT ![srv.of] = Append(@, piece)]
    BY <1>2, <1>3
  <2>2. remote' = [f \in Kept |-> remote'[f]]
    BY <1>1, <2>1
  <2>3. \A f \in Kept : remote'[f] = IF f = srv.of THEN Append(remote[f], piece) ELSE remote[f]
    BY <1>1, <2>1
  <2>4. /\ srv'.left = srv.left - 1 /\ (srv'.left > 0 => srv'.of = srv.of)
        /\ srv' = [of |-> srv'.of, left |-> srv'.left]
    <3>1. CASE srv.left > 1
      <4>1. srv' = [of |-> srv.of, left |-> srv.left - 1]
        BY <1>1, <1>2, <3>1
      <4> QED
        BY <4>1
    <3>2. CASE srv.left = 1
      <4>1. srv' = [of |-> "none", left |-> 0]
        BY <1>1, <1>2, <3>2 DEF Host!Nobody
      <4> QED
        BY <3>2, <4>1
    <3> QED
      BY <1>1, <1>3, <3>1, <3>2
  <2>5. srv'.left \in Nat
    BY <1>1, <1>3, <2>4
  <2> QED
    BY <1>3, <2>2, <2>3, <2>4, <2>5
<1>5. CASE srv.left = 0
  <2>1. srv' = [of |-> "none", left |-> 0]
    BY <1>1, <1>2, <1>5 DEF Host!Nobody
  <2> QED
    BY <1>1, <1>2, <1>5, <2>1
<1> QED
  BY <1>1, <1>3, <1>5

LEMMA PutConnectKeeps ==
  ASSUME HostInv, Host!PutConnect
  PROVE  HostInv'
<1> USE DEF HostInv
<1>1. /\ op = "put" /\ step = "list" /\ folder' = folder /\ home' = home /\ stored' = stored
      /\ stream' = stream /\ f_files' = f_files /\ todo' = todo /\ total' = total /\ ops' = ops
      /\ twice' = twice /\ entry' = entry /\ got' = got
      /\ sent' = sent /\ pos' = pos /\ readb' = readb /\ srv' = srv /\ disk' = disk
      /\ remote' = remote
  BY DEF Host!PutConnect, Host!which, Host!net, Host!files, Host!list, Host!reads
<1>2. \/ f_files = << >> /\ step' = "idle" /\ op' = "idle" /\ open' = open /\ trouble' = trouble
      \/ f_files # << >> /\ op' = op /\ open' = {"socket"} /\ step' = "put" /\ trouble' = trouble
      \/ /\ f_files # << >> /\ op' = op /\ open' = {"socket"} /\ step' = "end"
         /\ trouble' = trouble \cup {"broken"}
  BY DEF Host!PutConnect, Host!Breaks
<1>3. CASE op' = "idle"
  <2>1. open' = open /\ trouble' = trouble
    BY <1>1, <1>2, <1>3
  <2>2. GetInv' /\ Host!CopyBytes' = Host!CopyBytes
    BY <1>1, <1>3, <2>1, GetStays
  <2>3. HostTypes'
    BY <1>1, <1>3, <2>1 DEF HostTypes, Troubles
  <2>4. EntryInv'
    BY <1>1, <1>3 DEF EntryInv
  <2>5. OpenInv'
    BY <1>1, <1>3, <2>1, <2>2 DEF OpenInv
  <2>6. BoundInv'
    BY <1>1, <1>3, <2>1 DEF BoundInv
  <2>7. PutInv'
    BY <1>1, <1>3, <2>1, PutIdle
  <2> QED
    BY <2>2, <2>3, <2>4, <2>5, <2>6, <2>7
<1>4. CASE op' = op
  <2>1. f_files # << >> /\ open' = {"socket"} /\ step' \in {"put", "end"}
    BY <1>1, <1>2, <1>4
  <2>2. trouble' = trouble \/ (step' = "end" /\ trouble' = trouble \cup {"broken"})
    BY <1>1, <1>2, <1>4
  <2>3. /\ Len(f_files) \in Nat \ {0} /\ DOMAIN f_files = 1 .. Len(f_files) /\ entry = 1
    BY <1>1, <2>1 DEF HostTypes, Troubles, EntryInv
  <2>4. PutFrame
    BY <1>1, <1>4, <2>2 DEF PutFrame
  <2>5. HostTypes' /\ EntryInv' /\ OpenInv' /\ BoundInv' /\ GetInv'
    <3>1. /\ entry' \in Nat \ {0} /\ got' \in Nat /\ sent' \in Nat /\ srv'.left \in Nat
          /\ srv' = [of |-> srv'.of, left |-> srv'.left] /\ disk' \in [Kept -> Nat]
          /\ remote' = [f \in Kept |-> remote'[f]] /\ open' \subseteq {"socket", "index", "file"}
      BY <1>1, <2>1 DEF HostTypes, Troubles
    <3>2. step' \notin {"list", "send"} /\ entry' <= Len(f_files) /\ pos' \in Nat /\ readb' \in 0 .. 1
      BY <1>1, <2>1, <2>3 DEF HostTypes
    <3> QED
      BY <2>4, <3>1, <3>2, PutKeeps
  <2>6. PutInv'
    <3> SUFFICES ASSUME trouble' \cap {"changed", "full", "misread"} = {}
                 PROVE  /\ (\A f \in Kept : OfFile(remote[f], f))' /\ disk' = HostSize /\ ListInv'
                        /\ (step \in {"put", "send", "sent"} => Arrived)'
                        /\ step' = "put" => (\E s : Sums(s))'
                        /\ step' = "end" => trouble' # {}
      BY <2>1 DEF PutInv
    <3>1. trouble \cap {"changed", "full", "misread"} = {}
      BY <2>2
    <3>2. /\ \A f \in Kept : OfFile(remote[f], f) /\ remote[f] = << >>
          /\ disk = HostSize /\ ListInv /\ \E s : Sums(s)
      BY <1>1, <3>1 DEF PutInv
    <3>3. (\A f \in Kept : OfFile(remote[f], f))'
      BY <1>1, <3>2 DEF OfFile, Pieces
    <3>4. ListInv'
      BY <1>1, <3>2 DEF ListInv
    <3>5. ASSUME step' = "put" PROVE (\E s : Sums(s))'
      <4>1. PICK s : Sums(s)
        BY <3>2
      <4>2. Sums(s)'
        BY <1>1, <3>5, <4>1 DEF Sums, Adds
      <4> QED
        BY <4>2
    <3>6. (step \in {"put", "send", "sent"} => Arrived)'
      <4>1. srv'.left = 0
        BY <1>1 DEF OpenInv, Host!Nobody
      <4>2. \A i \in DOMAIN f_files : ~(i < entry)
        BY <2>3
      <4>3. \A i \in DOMAIN f_files : ~f_files[i].dir => remote[f_files[i].name] = << >>
        BY <3>2 DEF ListInv, Distinct
      <4>4. Host!Record' = f_files[entry] /\ entry \in DOMAIN f_files
        BY <1>1, <2>3 DEF Host!Record
      <4>5. step' \notin {"send", "sent"}
        BY <2>1
      <4> QED
        BY <1>1, <4>1, <4>2, <4>3, <4>4, <4>5 DEF Arrived
    <3>7. step' = "end" => trouble' # {}
      BY <1>2, <1>4, <2>1
    <3> QED
      BY <1>1, <3>2, <3>3, <3>4, <3>5, <3>6, <3>7
  <2> QED
    BY <2>5, <2>6
<1> QED
  BY <1>1, <1>2, <1>3, <1>4

\* What the list says of the file at hand, while no file is cut.
LEMMA WholeRecord ==
  ASSUME HostInv, op \in {"put", "one"}, step # "list", trouble \cap {"changed", "full", "misread"} = {}, ~Host!Record.dir
  PROVE  /\ Host!Record.name \in Kept /\ Host!Record.size = HostSize[Host!Record.name]
         /\ disk = HostSize
         /\ \A i \in DOMAIN f_files : i # entry => f_files[i].name # Host!Record.name
<1>1. entry \in DOMAIN f_files /\ Host!Record = f_files[entry]
  BY RecordIs
<1>2. ListInv /\ disk = HostSize
  BY DEF HostInv, PutInv
<1> QED
  BY <1>1, <1>2 DEF ListInv, Distinct

\* What a sum of the list says of the record at hand.
LEMMA SumsHere ==
  ASSUME HostInv, op \in {"put", "one"}, step # "list", NEW s, Sums(s)
  PROVE  /\ s[entry] \in Nat /\ s[entry - 1] \in Nat /\ total \in Nat
         /\ s[entry] = s[entry - 1] + Host!Record.size /\ s[entry] <= total
<1> DEFINE m == Len(f_files)
<1>1. m \in Nat /\ DOMAIN f_files = 1 .. m /\ entry \in 1 .. m /\ Host!Record = f_files[entry]
  BY RecordIs
<1>2. /\ s \in [0 .. m -> Nat] /\ \A i \in 1 .. m : s[i] = s[i - 1] + f_files[i].size
      /\ \A i, j \in 0 .. m : i <= j => s[i] <= s[j]
      /\ total = s[m]
  BY <1>1 DEF Sums, Adds
<1> HIDE DEF m
<1>3. entry \in 0 .. m /\ entry - 1 \in 0 .. m /\ m \in 0 .. m /\ entry <= m
  BY <1>1
<1> QED
  BY <1>1, <1>2, <1>3

\* The command of a record: the host waits for as many pieces as it says.
LEMMA SendsCommandKeeps ==
  ASSUME HostInv, Host!Put
  PROVE  HostInv'
<1> USE DEF HostInv
<1>1. /\ op \in {"put", "one"} /\ step = "put" /\ got' = 0 /\ op' = op /\ folder' = folder /\ home' = home
      /\ entry' = entry /\ stream' = stream /\ stored' = stored /\ disk' = disk /\ f_files' = f_files
      /\ todo' = todo /\ total' = total /\ sent' = sent /\ pos' = 0 /\ readb' = readb /\ open' = open /\ twice' = twice /\ ops' = ops
  BY DEF Host!Put, Host!which, Host!list, Host!reads
<1>2. \/ /\ step' = (IF Host!Record.size = 0 THEN "sent" ELSE "send") /\ trouble' = trouble
         /\ srv.left > 0 /\ Host!Takes(<< "command", 0 >>)
      \/ /\ step' = (IF Host!Record.size = 0 THEN "sent" ELSE "send") /\ trouble' = trouble
         /\ ~(srv.left > 0) /\ remote' = remote
         /\ srv' = IF Host!Record.size = 0 THEN Host!Nobody
                   ELSE [of |-> Host!Record.name, left |-> Host!Record.size]
      \/ step' = "end" /\ trouble' = trouble \cup {"broken"} /\ srv' = srv /\ remote' = remote
  BY DEF Host!Put, Host!Breaks
<1>3. /\ Len(f_files) \in Nat /\ DOMAIN f_files = 1 .. Len(f_files) /\ entry \in 1 .. Len(f_files)
      /\ Host!Record = f_files[entry] /\ Host!Record \in Listed /\ Host!Record.size \in Nat
  BY <1>1, RecordIs
<1>4. Host!Record' = Host!Record
  BY <1>1 DEF Host!Record
<1>5. PutFrame
  BY <1>1, <1>2 DEF PutFrame
<1>6. step' \in {"send", "sent", "end"}
  BY <1>2
<1>7. HostTypes' /\ EntryInv' /\ OpenInv' /\ BoundInv' /\ GetInv'
  <2>1. /\ srv'.left \in Nat /\ srv' = [of |-> srv'.of, left |-> srv'.left]
        /\ remote' = [f \in Kept |-> remote'[f]]
    <3>1. CASE Host!Takes(<< "command", 0 >>)
      BY <3>1, TakesEffect
    <3>2. CASE srv' = srv /\ remote' = remote
      BY <3>2 DEF HostTypes, Troubles
    <3>3. CASE /\ remote' = remote
               /\ srv' = IF Host!Record.size = 0 THEN Host!Nobody
                         ELSE [of |-> Host!Record.name, left |-> Host!Record.size]
      <4>1. remote' = [f \in Kept |-> remote'[f]]
        BY <3>3 DEF HostTypes, Troubles
      <4>2. CASE Host!Record.size = 0
        BY <3>3, <4>1, <4>2 DEF Host!Nobody
      <4>3. CASE Host!Record.size # 0
        BY <1>3, <3>3, <4>1, <4>3
      <4> QED
        BY <4>2, <4>3
    <3> QED
      BY <1>2, <3>1, <3>2, <3>3
  <2>2. /\ entry' \in Nat \ {0} /\ got' \in Nat /\ sent' \in Nat
  /\ pos' \in Nat /\ readb' \in 0 .. 1 /\ disk' \in [Kept -> Nat]
        /\ open' \subseteq {"socket", "index", "file"}
    BY <1>1 DEF HostTypes, Troubles
  <2>3. /\ step' # "list" /\ entry' <= Len(f_files) /\ (step' = "send" => Host!Record.size > 0)
        /\ entry' = entry
    BY <1>1, <1>2, <1>3, <1>6
  <2> QED
    BY <1>5, <2>1, <2>2, <2>3, PutKeeps
<1>8. PutInv'
  <2> SUFFICES ASSUME trouble' \cap {"changed", "full", "misread"} = {}
               PROVE  /\ (\A f \in Kept : OfFile(remote[f], f))' /\ disk' = HostSize /\ ListInv'
                      /\ (step \in {"put", "send", "sent"} => Arrived)'
                      /\ (step \in {"put", "send", "sent"} => \E s : Sums(s))'
                      /\ step' = "end" => trouble' # {}
    BY <1>6 DEF PutInv
  <2>1. trouble \cap {"changed", "full", "misread"} = {}
    BY <1>2
  <2>2. /\ \A f \in Kept : OfFile(remote[f], f)
        /\ disk = HostSize /\ ListInv /\ Arrived /\ \E s : Sums(s)
    BY <1>1, <2>1 DEF PutInv
  <2>3. srv.left = 0 /\ (~Host!Record.dir => remote[Host!Record.name] = << >>)
    BY <1>1, <2>2 DEF Arrived
  <2>4. remote' = remote
    BY <1>2, <2>3
  <2>5. (\A f \in Kept : OfFile(remote[f], f))'
    BY <2>2, <2>4 DEF OfFile, Pieces
  <2>6. ListInv'
    BY <1>1, <2>2 DEF ListInv
  <2>7. step' = "end" => trouble' # {}
    BY <1>2
  <2>8. (step \in {"put", "send", "sent"} => \E s : Sums(s))'
    <3>1. PICK s : Sums(s)
      BY <2>2
    <3>2. sent = s[entry - 1] + 0
      BY <1>1, <3>1 DEF Sums
    <3>3. s[entry - 1] \in Nat
      BY <1>1, <3>1, SumsHere
    <3>4. Sums(s)'
      BY <1>1, <3>1, <3>2, <3>3 DEF Sums, Adds
    <3> QED
      BY <3>4
  <2>9. ASSUME step' \in {"send", "sent"} PROVE Arrived'
    <3>1. srv' = IF Host!Record.size = 0 THEN Host!Nobody
                 ELSE [of |-> Host!Record.name, left |-> Host!Record.size]
      BY <1>2, <2>3, <2>9
    <3>2. srv'.left = Host!Record.size /\ (srv'.left > 0 => srv'.of = Host!Record.name)
      <4>1. CASE Host!Record.size = 0
        BY <3>1, <4>1 DEF Host!Nobody
      <4>2. CASE Host!Record.size # 0
        BY <3>1, <4>2
      <4> QED
        BY <4>1, <4>2
    <3>3. (Host!Record.size = 0 <=> step' = "sent") /\ (Host!Record.size # 0 <=> step' = "send")
      BY <1>2, <2>9
    <3>5. (\A i \in DOMAIN f_files : ~f_files[i].dir =>
            /\ i < entry => remote[f_files[i].name] = Pieces(f_files[i].name, HostSize[f_files[i].name])
            /\ i > entry => remote[f_files[i].name] = << >>)'
      BY <1>1, <2>2, <2>4 DEF Arrived, Pieces
    <3>6. got' <= Host!Record.size /\ srv'.left = Host!Record.size - got'
      BY <1>1, <1>3, <3>2
    <3>7. ~Host!Record.dir => remote[Host!Record.name] = Pieces(Host!Record.name, 0)
      BY <2>3, PiecesGrow
    <3>8. (~Host!Record.dir => remote[Host!Record.name] = Pieces(Host!Record.name, got))'
      BY <1>1, <1>4, <2>4, <3>7 DEF Pieces
    <3>9. step' = "send" => pos' = got'
      BY <1>1
    <3>10. step' = "sent" => got' = Host!Record.size
      BY <1>1, <3>3
    <3> QED
      BY <1>4, <2>9, <3>2, <3>5, <3>6, <3>8, <3>9, <3>10 DEF Arrived
  <2> QED
    BY <1>1, <1>6, <2>2, <2>5, <2>6, <2>7, <2>8, <2>9
<1> QED
  BY <1>7, <1>8

\* The file of a record that is being sent.
LEMMA SendingIs ==
  ASSUME HostInv, op \in {"put", "one"}, step = "send"
  PROVE  /\ ~Host!Record.dir /\ Host!Record.name \in Kept /\ Host!Record.size \in Nat \ {0}
         /\ disk[Host!Record.name] \in Nat /\ pos \in Nat
         /\ Host!Left \in 0 .. 1 /\ Host!LeftUncut \in Nat
         /\ pos < Host!Record.size /\ disk[Host!Record.name] = Host!Record.size =>
              Host!Left = 1 /\ Host!LeftUncut = 1
         /\ pos >= disk[Host!Record.name] => Host!Left = 0 /\ Host!LeftUncut = 0
<1>1. Host!Record \in Listed /\ Host!Record.size \in Nat
  BY RecordIs
<1>2. Host!Record.size > 0
  BY DEF HostInv, EntryInv
<1>3. ~Host!Record.dir /\ Host!Record.name \in Kept
  BY <1>1, <1>2 DEF Listed
<1>4. disk[Host!Record.name] \in Nat /\ pos \in Nat
  BY <1>3 DEF HostInv, HostTypes
<1> DEFINE d == disk[Host!Record.name]
           size == Host!Record.size
<1>5. /\ Host!Left = IF pos < d THEN 1 ELSE 0
      /\ Host!LeftUncut = IF pos < d /\ pos + 1 >= size THEN d - pos ELSE Host!Left
  BY DEF Host!Left, Host!LeftUncut
<1>6. d \in Nat /\ size \in Nat \ {0} /\ pos \in Nat
  BY <1>1, <1>2, <1>4
<1> HIDE DEF d, size
<1>7. /\ Host!Left \in 0 .. 1 /\ Host!LeftUncut \in Nat
      /\ pos < size /\ d = size => Host!Left = 1 /\ Host!LeftUncut = 1
      /\ pos >= d => Host!Left = 0 /\ Host!LeftUncut = 0
  BY <1>5, <1>6
<1> QED
  BY <1>3, <1>6, <1>7 DEF d, size

\* What is sent next of it, or nothing more when there is nothing, or the sum of the list has been sent.
LEMMA SendsEffect ==
  ASSUME HostInv, NEW o \in {"put", "one"}, Host!Sending(o), NEW piece, NEW n \in Nat, Host!Sends(piece, n),
         pos' \in Nat, readb' \in 0 .. 1, trouble' \in {trouble, trouble \cup {"misread"}}
  PROVE  /\ HostTypes' /\ EntryInv' /\ OpenInv' /\ BoundInv' /\ GetInv'
         /\ step' \in {"send", "sent"} /\ Host!Record' = Host!Record
         /\ op' = op /\ entry' = entry /\ disk' = disk /\ f_files' = f_files /\ total' = total
         /\ \/ /\ n = 0 \/ sent >= total
               /\ step' = "sent" /\ got' = got /\ sent' = sent /\ remote' = remote /\ srv' = srv
            \/ /\ got' = got + n /\ sent' = sent + n /\ Host!Takes(piece)
               /\ step' = (IF got' >= Host!Record.size THEN "sent" ELSE "send")
               /\ n # 0 /\ ~(sent >= total)
<1> USE DEF HostInv
<1>1. /\ op = o /\ step = "send" /\ op' = op /\ folder' = folder /\ home' = home
      /\ entry' = entry /\ stream' = stream /\ stored' = stored /\ disk' = disk /\ f_files' = f_files
      /\ todo' = todo /\ total' = total /\ open' = open /\ twice' = twice /\ ops' = ops
  BY DEF Host!Sending, Host!which
<1>2. \/ /\ n = 0 \/ sent >= total
         /\ step' = "sent" /\ got' = got /\ sent' = sent /\ remote' = remote /\ srv' = srv
      \/ /\ got' = got + n /\ sent' = sent + n /\ Host!Takes(piece)
         /\ step' = (IF got' >= Host!Record.size THEN "sent" ELSE "send")
         /\ n # 0 /\ ~(sent >= total)
  BY DEF Host!Sends
<1>3. /\ Len(f_files) \in Nat /\ entry \in 1 .. Len(f_files) /\ Host!Record.size > 0
  BY <1>1, RecordIs, SendingIs
<1>4. Host!Record' = Host!Record
  BY <1>1 DEF Host!Record
<1>5. PutFrame
  BY <1>1 DEF PutFrame
<1>6. step' \in {"send", "sent"}
  BY <1>2
<1>7. got' \in Nat /\ sent' \in Nat
  BY <1>2 DEF HostTypes
<1>8. HostTypes' /\ EntryInv' /\ OpenInv' /\ BoundInv' /\ GetInv'
  <2>1. /\ srv'.left \in Nat /\ srv' = [of |-> srv'.of, left |-> srv'.left]
        /\ remote' = [f \in Kept |-> remote'[f]]
    <3>1. CASE Host!Takes(piece)
      BY <3>1, TakesEffect
    <3>2. CASE srv' = srv /\ remote' = remote
      BY <3>2 DEF HostTypes
    <3> QED
      BY <1>2, <3>1, <3>2
  <2>2. /\ entry' \in Nat \ {0} /\ disk' \in [Kept -> Nat] /\ open' \subseteq {"socket", "index", "file"}
    BY <1>1 DEF HostTypes
  <2>3. step' # "list" /\ entry' <= Len(f_files)
    BY <1>1, <1>3, <1>6
  <2> QED
    BY <1>1, <1>3, <1>5, <1>7, <2>1, <2>2, <2>3, PutKeeps
<1> QED
  BY <1>1, <1>2, <1>4, <1>6, <1>8

\* A piece of it is sent, while the sum of the list has not been.
LEMMA SendKeeps ==
  ASSUME HostInv, Host!Send \/ Host!SendOne
  PROVE  HostInv'
<1> USE DEF HostInv
<1> DEFINE name == Host!Record.name
           size == Host!Record.size
<1>1. op \in {"put", "one"} /\ step = "send" /\ trouble' = trouble
  BY DEF Host!Send, Host!SendOne, Host!Sending
<1>2. PICK n \in {Host!Left, Host!LeftUncut} :
        /\ Host!Sending(op) /\ Host!Sends(Host!Piece, n) /\ pos' = pos + n
        /\ readb' \in {readb, Host!Left}
  BY DEF Host!Send, Host!SendOne, Host!Sending
<1>3. /\ ~Host!Record.dir /\ name \in Kept /\ size \in Nat \ {0} /\ disk[name] \in Nat /\ pos \in Nat
      /\ n \in Nat /\ Host!Left \in 0 .. 1
      /\ pos < size /\ disk[name] = size => n = 1
      /\ pos >= disk[name] => n = 0
  BY <1>1, <1>2, SendingIs
<1>4. /\ entry \in 1 .. Len(f_files) /\ Host!Record = f_files[entry] /\ DOMAIN f_files = 1 .. Len(f_files)
      /\ Len(f_files) \in Nat
  BY <1>1, RecordIs
<1>5. pos' \in Nat /\ readb' \in 0 .. 1
  BY <1>2, <1>3 DEF HostTypes
<1>6. /\ HostTypes' /\ EntryInv' /\ OpenInv' /\ BoundInv' /\ GetInv'
      /\ step' \in {"send", "sent"} /\ Host!Record' = Host!Record
      /\ op' = op /\ entry' = entry /\ disk' = disk /\ f_files' = f_files /\ total' = total
      /\ \/ /\ n = 0 \/ sent >= total
            /\ step' = "sent" /\ got' = got /\ sent' = sent /\ remote' = remote /\ srv' = srv
         \/ /\ got' = got + n /\ sent' = sent + n /\ Host!Takes(Host!Piece)
            /\ step' = (IF got' >= size THEN "sent" ELSE "send")
            /\ n # 0 /\ ~(sent >= total)
  BY <1>1, <1>2, <1>3, <1>5, SendsEffect
<1>7. got \in Nat /\ sent \in Nat
  BY DEF HostTypes
<1>9. PutInv'
  <2> SUFFICES ASSUME trouble' \cap {"changed", "full", "misread"} = {}
               PROVE  /\ (\A f \in Kept : OfFile(remote[f], f))' /\ disk' = HostSize /\ ListInv'
                      /\ Arrived' /\ (\E s : Sums(s))'
    BY <1>6 DEF PutInv
  <2>1. trouble \cap {"changed", "full", "misread"} = {}
    BY <1>1
  <2>2. /\ \A f \in Kept : OfFile(remote[f], f)
        /\ disk = HostSize /\ ListInv /\ Arrived /\ \E s : Sums(s)
    BY <1>1, <2>1 DEF PutInv
  <2>3. /\ got <= size /\ srv.left = size - got /\ pos = got
        /\ remote[name] = Pieces(name, got) /\ (srv.left > 0 => srv.of = name)
    BY <1>1, <1>3, <2>2 DEF Arrived
  <2>4. /\ size = HostSize[name] /\ disk[name] = size
        /\ \A i \in DOMAIN f_files : i # entry => f_files[i].name # name
    BY <1>1, <1>3, <2>1, WholeRecord
  <2>5. PICK s : Sums(s)
    BY <2>2
  <2>6. /\ s[entry] \in Nat /\ s[entry - 1] \in Nat /\ total \in Nat
        /\ s[entry] = s[entry - 1] + size /\ s[entry] <= total
    BY <1>1, <2>5, SumsHere
  <2>7. sent = s[entry - 1] + got
    BY <1>1, <2>5 DEF Sums
  <2>8. /\ n = 0 \/ sent >= total => got = size
        /\ n # 0 => n = 1 /\ got < size
    <3> DEFINE a == s[entry - 1]
               b == s[entry]
    <3>1. /\ a \in Nat /\ b = a + size /\ b <= total /\ total \in Nat /\ sent = a + got
          /\ size \in Nat /\ got \in Nat /\ got <= size /\ disk[name] = size /\ n \in Nat
          /\ got < size => n = 1
          /\ got >= size => n = 0
      BY <1>3, <1>7, <2>3, <2>4, <2>6, <2>7
    <3> HIDE DEF a, b, size, name
    <3>2. got < size => n = 1 /\ ~(sent >= total)
      BY <3>1
    <3>3. got < size \/ (got = size /\ n = 0)
      BY <3>1
    <3> QED
      BY <3>2, <3>3
  <2>9. ListInv'
    BY <1>6, <2>2 DEF ListInv
  <2>11. CASE /\ n = 0 \/ sent >= total
              /\ step' = "sent" /\ got' = got /\ sent' = sent /\ remote' = remote /\ srv' = srv
    <3>1. (\A f \in Kept : OfFile(remote[f], f))'
      BY <2>2, <2>11 DEF OfFile, Pieces
    <3>2. Sums(s)'
      BY <1>1, <1>6, <2>5, <2>11 DEF Sums, Adds
    <3>3. Arrived'
      <4>1. (\A i \in DOMAIN f_files : ~f_files[i].dir =>
              /\ i < entry => remote[f_files[i].name] = Pieces(f_files[i].name, HostSize[f_files[i].name])
              /\ i > entry => remote[f_files[i].name] = << >>)'
        BY <1>6, <2>2, <2>11 DEF Arrived, Pieces
      <4>2. (~Host!Record.dir => remote[Host!Record.name] = Pieces(Host!Record.name, got))'
        BY <1>6, <2>3, <2>11 DEF Pieces
      <4>3. /\ got' <= size /\ srv'.left = size - got' /\ (srv'.left > 0 => srv'.of = name)
            /\ got' = size
        BY <1>7, <2>3, <2>8, <2>11
      <4> QED
        BY <1>6, <2>11, <4>1, <4>2, <4>3 DEF Arrived
    <3> QED
      BY <1>6, <2>2, <2>9, <3>1, <3>2, <3>3
  <2>12. CASE /\ got' = got + n /\ sent' = sent + n /\ Host!Takes(Host!Piece)
              /\ step' = (IF got' >= size THEN "sent" ELSE "send")
              /\ n # 0 /\ ~(sent >= total)
    <3>0. Host!Piece = << name, pos + 1 >>
      BY DEF Host!Piece
    <3>1. got < size /\ srv.left > 0 /\ got' <= size /\ got' = got + 1 /\ Host!Piece = << name, got' >>
      BY <1>3, <1>7, <2>3, <2>8, <2>12, <3>0
    <3>2. /\ srv'.left = srv.left - 1 /\ (srv'.left > 0 => srv'.of = srv.of)
          /\ \A f \in Kept : remote'[f] = IF f = srv.of THEN Append(remote[f], << name, got' >>) ELSE remote[f]
      BY <2>12, <3>1, TakesEffect
    <3>3. srv.of = name
      BY <2>3, <3>1
    <3>4. remote'[name] = Pieces(name, got')
      <4>1. Append(Pieces(name, got), << name, got + 1 >>) = Pieces(name, got + 1)
        BY <1>7, PiecesGrow
      <4> HIDE DEF name
      <4> QED
        BY <1>3, <2>3, <3>1, <3>2, <3>3, <4>1
    <3>5. \A f \in Kept : f # name => remote'[f] = remote[f]
      BY <3>2, <3>3
    <3>6. \A f \in Kept : OfFile(remote'[f], f)
      <4> SUFFICES ASSUME NEW f \in Kept PROVE OfFile(remote'[f], f)
        OBVIOUS
      <4>1. CASE f = name
        <5>1. got' \in 0 .. HostSize[name]
          BY <1>3, <1>7, <2>4, <3>1
        <5> QED
          BY <3>4, <4>1, <5>1 DEF OfFile
      <4>2. CASE f # name
        BY <2>2, <3>5, <4>2
      <4> QED
        BY <4>1, <4>2
    <3>7. (\A f \in Kept : OfFile(remote[f], f))'
      BY <3>6 DEF OfFile, Pieces
    <3>8. Sums(s)'
      <4>1. sent' = s[entry - 1] + got'
        BY <1>7, <2>6, <2>7, <2>8, <2>12
      <4>2. step' \in {"send", "sent"}
        BY <2>12
      <4> QED
        BY <1>6, <2>5, <4>1, <4>2 DEF Sums, Adds
    <3>9. Arrived'
      <4>1. ASSUME NEW i \in DOMAIN f_files, ~f_files[i].dir
            PROVE  /\ i < entry => remote'[f_files[i].name] = Pieces(f_files[i].name, HostSize[f_files[i].name])
                   /\ i > entry => remote'[f_files[i].name] = << >>
        <5>1. f_files[i].name \in Kept
          BY <2>2, <4>1 DEF ListInv, Distinct
        <5>2. /\ i < entry => remote[f_files[i].name] = Pieces(f_files[i].name, HostSize[f_files[i].name])
              /\ i > entry => remote[f_files[i].name] = << >>
          BY <2>2, <4>1 DEF Arrived
        <5>3. i < entry \/ i > entry => i # entry
          BY <1>4
        <5> QED
          BY <2>4, <3>5, <5>1, <5>2, <5>3
      <4>2. (\A i \in DOMAIN f_files : ~f_files[i].dir =>
              /\ i < entry => remote[f_files[i].name] = Pieces(f_files[i].name, HostSize[f_files[i].name])
              /\ i > entry => remote[f_files[i].name] = << >>)'
        BY <1>6, <4>1 DEF Pieces
      <4>3. (~Host!Record.dir => remote[Host!Record.name] = Pieces(Host!Record.name, got))'
        BY <1>6, <3>4 DEF Pieces
      <4>4. got' <= size /\ srv'.left = size - got' /\ (srv'.left > 0 => srv'.of = name)
        BY <1>3, <1>7, <2>3, <2>12, <3>1, <3>2, <3>3
      <4>5. step' = "sent" => got' = size
        BY <1>3, <1>7, <2>12, <3>1
      <4>6. step' # "put" /\ step' \in {"send", "sent"} /\ pos' = got'
        BY <1>2, <2>3, <2>12
      <4> QED
        BY <1>6, <4>2, <4>3, <4>4, <4>5, <4>6 DEF Arrived
    <3> QED
      BY <1>6, <2>2, <2>9, <3>7, <3>8, <3>9
  <2> QED
    BY <1>6, <2>11, <2>12
<1> QED
  BY <1>6, <1>9

\* A read that fails is not looked at: what is sent then is excused.
LEMMA UnreadKeeps ==
  ASSUME HostInv, Host!SendUnread
  PROVE  HostInv'
<1>1. /\ Host!Sending("put") /\ Host!Sends(<< "stale", 0 >>, readb') /\ readb' \in {0, readb} /\ pos' = pos
      /\ trouble' = trouble \cup {"misread"}
  BY DEF Host!SendUnread
<1>2. readb' \in Nat /\ readb' \in 0 .. 1 /\ pos' \in Nat
  BY <1>1 DEF HostInv, HostTypes
<1>3. HostTypes' /\ EntryInv' /\ OpenInv' /\ BoundInv' /\ GetInv'
  BY <1>1, <1>2, SendsEffect
<1>4. PutInv'
  BY <1>1 DEF PutInv
<1> QED
  BY <1>3, <1>4 DEF HostInv

\* A button or the connection breaks off the copy, and another program changes a file.
LEMMA BreaksOffKeeps ==
  ASSUME HostInv, Host!BreakOff \/ Host!SendFails \/ Host!Change
  PROVE  HostInv'
<1> USE DEF HostInv
<1>1. /\ op \in {"put", "one"} /\ op' = op /\ folder' = folder /\ home' = home
      /\ entry' = entry /\ got' = got /\ stream' = stream /\ srv' = srv /\ stored' = stored
      /\ remote' = remote /\ f_files' = f_files /\ todo' = todo /\ total' = total
      /\ sent' = sent /\ pos' = pos /\ readb' = readb
      /\ open' = open /\ twice' = twice /\ ops' = ops
  BY DEF Host!BreakOff, Host!SendFails, Host!Sending, Host!Breaks, Host!Change, Host!which, Host!net, Host!files, Host!list, Host!reads
<1>2. \/ step = "send" /\ step' = "end" /\ trouble' \in {trouble \cup {"ended"}, trouble \cup {"broken"}} /\ disk' = disk
      \/ step' = step /\ trouble' = trouble \cup {"changed"}
  BY DEF Host!BreakOff, Host!SendFails, Host!Sending, Host!Breaks, Host!Change, Host!files
<1>3. PutFrame
  BY <1>1, <1>2 DEF PutFrame
<1>4. disk' \in [Kept -> Nat]
  <2>1. disk \in [Kept -> Nat]
    BY DEF HostTypes, Troubles
  <2>2. CASE Host!BreakOff \/ Host!SendFails
    BY <2>1, <2>2 DEF Host!BreakOff, Host!SendFails, Host!Sending, Host!files
  <2>3. CASE Host!Change
    <3>1. PICK f \in Kept : \E n \in {disk[f] - 1, disk[f] + 1} \cap Nat : disk' = [disk EXCEPT ![f] = n]
      BY <2>3 DEF Host!Change, Host!HostFile, Kept
    <3>2. PICK n \in Nat : disk' = [disk EXCEPT ![f] = n]
      BY <3>1
    <3> QED
      BY <2>1, <3>1, <3>2
  <2> QED
    BY <2>2, <2>3
<1>5. HostTypes' /\ EntryInv' /\ OpenInv' /\ BoundInv' /\ GetInv'
  <2>1. /\ entry' \in Nat \ {0} /\ got' \in Nat /\ sent' \in Nat /\ srv'.left \in Nat
        /\ srv' = [of |-> srv'.of, left |-> srv'.left]
        /\ remote' = [f \in Kept |-> remote'[f]] /\ open' \subseteq {"socket", "index", "file"}
    BY <1>1 DEF HostTypes, Troubles
  <2>4. pos' \in Nat /\ readb' \in 0 .. 1
    BY <1>1 DEF HostTypes
  <2>5. step' = "send" => Host!Record.size > 0
    BY <1>1, <1>2 DEF EntryInv
  <2>2. step' = "list" => step = "list"
    BY <1>2
  <2>3. step' # "list" => entry' <= Len(f_files)
    BY <1>1, <1>2 DEF EntryInv
  <2> QED
    BY <1>1, <1>3, <1>4, <2>1, <2>2, <2>3, <2>4, <2>5, PutKeeps
<1>6. PutInv'
  <2>1. CASE step' = step /\ trouble' = trouble \cup {"changed"}
    BY <2>1 DEF PutInv
  <2>2. CASE step = "send" /\ step' = "end" /\ trouble' \in {trouble \cup {"ended"}, trouble \cup {"broken"}} /\ disk' = disk
    <3> SUFFICES ASSUME trouble' \cap {"changed", "full", "misread"} = {}
                 PROVE  /\ (\A f \in Kept : OfFile(remote[f], f))' /\ disk' = HostSize /\ ListInv'
                        /\ trouble' # {}
      BY <2>2 DEF PutInv
    <3>1. trouble \cap {"changed", "full", "misread"} = {}
      BY <2>2
    <3>2. (\A f \in Kept : OfFile(remote[f], f)) /\ disk = HostSize /\ ListInv
      BY <1>1, <3>1 DEF PutInv
    <3>3. (\A f \in Kept : OfFile(remote[f], f))'
      BY <1>1, <3>2 DEF OfFile, Pieces
    <3> QED
      BY <1>1, <2>2, <3>2, <3>3 DEF ListInv
  <2> QED
    BY <1>2, <2>1, <2>2
<1> QED
  BY <1>5, <1>6

\* The next record, or the end with all of them at the host.
LEMMA PutNextKeeps ==
  ASSUME HostInv, Host!PutNext
  PROVE  HostInv'
<1> USE DEF HostInv
<1> DEFINE name == Host!Record.name
           size == Host!Record.size
<1>1. /\ op = "put" /\ step = "sent" /\ op' = op /\ folder' = folder /\ home' = home
      /\ got' = got /\ stream' = stream /\ stored' = stored /\ disk' = disk
      /\ f_files' = f_files /\ todo' = todo /\ total' = total
      /\ sent' = sent /\ pos' = pos /\ readb' = readb
      /\ open' = open /\ twice' = twice /\ ops' = ops /\ trouble' = trouble
      /\ Host!Takes(<< "command", 0 >>)
  <2>1. UNCHANGED << Host!which, Host!list >> /\ Host!Takes(<< "command", 0 >>)
    BY DEF Host!PutNext
  <2> QED
    BY <2>1 DEF Host!PutNext, Host!which, Host!list, Host!reads
<1>2. \/ entry = Len(f_files) /\ step' = "end" /\ entry' = entry
      \/ entry # Len(f_files) /\ step' = "put" /\ entry' = entry + 1
  BY DEF Host!PutNext
<1>3. /\ Len(f_files) \in Nat /\ DOMAIN f_files = 1 .. Len(f_files) /\ entry \in 1 .. Len(f_files)
      /\ Host!Record = f_files[entry] /\ size \in Nat
  BY <1>1, RecordIs
<1>4. PutFrame
  BY <1>1 DEF PutFrame
<1>5. step' \in {"put", "end"} /\ entry' \in 1 .. Len(f_files)
  <2>1. CASE entry = Len(f_files) /\ step' = "end" /\ entry' = entry
    BY <1>3, <2>1
  <2>2. CASE entry # Len(f_files) /\ step' = "put" /\ entry' = entry + 1
    <3>1. entry \in 1 .. Len(f_files) /\ Len(f_files) \in Nat
      BY <1>3
    <3>2. entry' \in 1 .. Len(f_files)
      BY <2>2, <3>1
    <3> QED
      BY <2>2, <3>2
  <2> QED
    BY <1>2, <2>1, <2>2
<1>6. HostTypes' /\ EntryInv' /\ OpenInv' /\ BoundInv' /\ GetInv'
  <2>1. /\ srv'.left \in Nat /\ srv' = [of |-> srv'.of, left |-> srv'.left]
        /\ remote' = [f \in Kept |-> remote'[f]]
    BY <1>1, TakesEffect
  <2>2. /\ got' \in Nat /\ sent' \in Nat /\ disk' \in [Kept -> Nat]
        /\ open' \subseteq {"socket", "index", "file"}
    BY <1>1 DEF HostTypes, Troubles
  <2>3. step' \notin {"list", "send"} /\ entry' \in Nat \ {0} /\ entry' <= Len(f_files)
    BY <1>3, <1>5
  <2>4. pos' \in Nat /\ readb' \in 0 .. 1
    BY <1>1 DEF HostTypes
  <2> QED
    BY <1>4, <2>1, <2>2, <2>3, <2>4, PutKeeps
<1>7. PutInv'
  <2> SUFFICES ASSUME trouble' \cap {"changed", "full", "misread"} = {}
               PROVE  /\ (\A f \in Kept : OfFile(remote[f], f))' /\ disk' = HostSize /\ ListInv'
                      /\ step' = "put" => Arrived'
                      /\ step' = "put" => (\E s : Sums(s))'
                      /\ step' = "end" => (\A i \in DOMAIN f_files : ~f_files[i].dir =>
                                             remote[f_files[i].name] = Host!Data(f_files[i].name))'
    BY <1>5 DEF PutInv
  <2>1. trouble \cap {"changed", "full", "misread"} = {}
    BY <1>1
  <2>2. /\ \A f \in Kept : OfFile(remote[f], f)
        /\ disk = HostSize /\ ListInv /\ Arrived /\ \E s : Sums(s)
    BY <1>1, <2>1 DEF PutInv
  <2>3. /\ got = size /\ srv.left = size - got
        /\ ~Host!Record.dir => remote[name] = Pieces(name, got)
    BY <1>1, <2>2 DEF Arrived
  <2>4. remote' = remote /\ srv'.left = 0
    <3>1. srv.left = 0
      BY <1>3, <2>3
    <3> QED
      BY <1>1, <3>1, TakesEffect
  <2>5. (\A f \in Kept : OfFile(remote[f], f))'
    BY <2>2, <2>4 DEF OfFile, Pieces
  <2>6. ListInv'
    BY <1>1, <2>2 DEF ListInv
  <2>7. \A i \in DOMAIN f_files : ~f_files[i].dir =>
          /\ i <= entry => remote[f_files[i].name] = Pieces(f_files[i].name, HostSize[f_files[i].name])
          /\ i > entry => remote[f_files[i].name] = << >>
    <3> SUFFICES ASSUME NEW i \in DOMAIN f_files, ~f_files[i].dir
                 PROVE  /\ i <= entry =>
                             remote[f_files[i].name] = Pieces(f_files[i].name, HostSize[f_files[i].name])
                        /\ i > entry => remote[f_files[i].name] = << >>
      OBVIOUS
    <3>1. /\ i < entry => remote[f_files[i].name] = Pieces(f_files[i].name, HostSize[f_files[i].name])
          /\ i > entry => remote[f_files[i].name] = << >>
      BY <2>2 DEF Arrived
    <3>2. i = entry => remote[f_files[i].name] = Pieces(f_files[i].name, HostSize[f_files[i].name])
      <4> SUFFICES ASSUME i = entry
                   PROVE  remote[f_files[i].name] = Pieces(f_files[i].name, HostSize[f_files[i].name])
        OBVIOUS
      <4>1. ~Host!Record.dir /\ f_files[i].name = name
        BY <1>3
      <4>2. size = HostSize[name]
        BY <1>1, <2>1, <4>1, WholeRecord
      <4> QED
        BY <2>3, <4>1, <4>2
    <3>3. i <= entry => i < entry \/ i = entry
      BY <1>3
    <3> QED
      BY <3>1, <3>2, <3>3
  <2>8. ASSUME step' = "end"
        PROVE  (\A i \in DOMAIN f_files : ~f_files[i].dir =>
                  remote[f_files[i].name] = Host!Data(f_files[i].name))'
    <3>1. \A i \in DOMAIN f_files : i <= entry
      BY <1>2, <1>3, <2>8
    <3>2. \A i \in DOMAIN f_files : ~f_files[i].dir => f_files[i].name \in Kept
      BY <2>2 DEF ListInv, Distinct
    <3>3. \A i \in DOMAIN f_files : ~f_files[i].dir =>
            remote[f_files[i].name] = Host!Data(f_files[i].name)
      BY <2>7, <3>1, <3>2, PiecesPrefix
    <3> QED
      BY <1>1, <2>4, <3>3 DEF Host!Data
  <2>9. ASSUME step' = "put" PROVE Arrived' /\ (\E s : Sums(s))'
    <3>1. entry' = entry + 1
      BY <1>2, <2>9
    <3>2. \A i \in DOMAIN f_files : (i < entry' => i <= entry) /\ (i >= entry' => i > entry)
      BY <1>3, <3>1
    <3>3. (\A i \in DOMAIN f_files : ~f_files[i].dir =>
            /\ i < entry => remote[f_files[i].name] = Pieces(f_files[i].name, HostSize[f_files[i].name])
            /\ i > entry => remote[f_files[i].name] = << >>)'
      <4>1. \A i \in DOMAIN f_files : i > entry' => i >= entry'
        BY <1>3, <1>5
      <4> QED
        BY <1>1, <2>4, <2>7, <3>2, <4>1 DEF Pieces
    <3>4. Host!Record' = f_files[entry'] /\ entry' \in DOMAIN f_files /\ entry' > entry
      BY <1>1, <1>3, <1>5, <3>1 DEF Host!Record
    <3>5. (~Host!Record.dir => remote[Host!Record.name] = << >>)'
      BY <2>4, <2>7, <3>4
    <3>6. Arrived'
      BY <2>4, <2>9, <3>3, <3>5 DEF Arrived
    <3>7. PICK s : Sums(s)
      BY <2>2
    <3>8. sent = s[entry - 1] + got /\ s[entry] = s[entry - 1] + size /\ s[entry] \in Nat
      BY <1>1, <3>7, SumsHere DEF Sums
    <3>9. sent' = s[entry' - 1] + 0
      <4>1. entry' - 1 = entry
        BY <1>3, <3>1
      <4> QED
        BY <1>1, <2>3, <3>8, <4>1
    <3>10. Sums(s)'
      BY <1>1, <2>9, <3>7, <3>9 DEF Sums, Adds
    <3> QED
      BY <3>6, <3>10
  <2> QED
    BY <1>1, <2>2, <2>5, <2>6, <2>8, <2>9
<1> QED
  BY <1>6, <1>7

-----------------------------------------------------------------------------
(***************************************************************************)
(* Every step of the copies from and to a host.                            *)
(***************************************************************************)
LEMMA HostStarts == Host!Init => HostInv
<1> SUFFICES ASSUME Host!Init PROVE HostInv
  OBVIOUS
<1>1. /\ op = "idle" /\ step = "idle" /\ home = FALSE /\ folder \in Folder /\ entry = 1 /\ got = 0
      /\ stream = << >> /\ srv = Host!Nobody /\ disk = HostSize
      /\ stored = [f \in Kept |-> << >>] /\ remote = [f \in Kept |-> << >>]
      /\ f_files = << >> /\ todo = << >> /\ total = 0 /\ sent = 0 /\ pos = 0 /\ readb = 0
      /\ open = {} /\ twice = {} /\ trouble = {} /\ ops = 0
  BY DEF Host!Init, Host!HostFile, Kept
<1>2. HostTypes
  <2>1. srv = [of |-> srv.of, left |-> srv.left] /\ srv.left \in Nat
    BY <1>1 DEF Host!Nobody
  <2>2. disk \in [Kept -> Nat] /\ ops \in 0 .. MaxOps
    BY <1>1, HostSizes
  <2>3. stored = [f \in Kept |-> stored[f]] /\ remote = [f \in Kept |-> remote[f]]
    BY <1>1
  <2>4. f_files \in Seq(Listed) /\ todo \in Seq(Seq(Inside))
    BY <1>1
  <2>5. /\ op \in {"idle", "get", "put", "com", "one"} /\ folder \in Folder
        /\ entry \in Nat \ {0} /\ got \in Nat /\ total \in Nat /\ sent \in Nat /\ pos \in Nat /\ readb \in 0 .. 1
    BY <1>1
  <2>7. home \in BOOLEAN
    BY <1>1, Zenon
  <2>6. /\ open \subseteq {"socket", "index", "file"} /\ twice \subseteq {"nothing", "failed"}
        /\ trouble \subseteq Troubles
    BY <1>1
  <2> QED
    BY <2>1, <2>2, <2>3, <2>4, <2>5, <2>6, <2>7 DEF HostTypes, Troubles
<1>3. EntryInv
  BY <1>1, IndexNames DEF EntryInv
<1>4. OpenInv
  BY <1>1 DEF OpenInv
<1>5. BoundInv
  BY <1>1, HostSizes DEF BoundInv
<1>6. \A f \in Kept : OfFile(stored[f], f) /\ OfFile(remote[f], f)
  <2> SUFFICES ASSUME NEW f \in Kept PROVE OfFile(stored[f], f) /\ OfFile(remote[f], f)
    OBVIOUS
  <2>1. stored[f] = << >> /\ remote[f] = << >>
    BY <1>1
  <2>2. Pieces(f, 0) = << >> /\ 0 \in 0 .. HostSize[f]
    BY PiecesGrow, HostSizes
  <2> QED
    BY <2>1, <2>2 DEF OfFile
<1>7. GetInv
  BY <1>1, <1>6 DEF GetInv, Fetched
<1>8. PutInv
  BY <1>1, <1>6 DEF PutInv
<1> QED
  BY <1>2, <1>3, <1>4, <1>5, <1>7, <1>8 DEF HostInv

LEMMA HostUnchanged == HostInv /\ UNCHANGED host => HostInv'
<1> SUFFICES ASSUME HostInv, UNCHANGED host PROVE HostInv'
  OBVIOUS
<1>1. /\ op' = op /\ step' = step /\ folder' = folder /\ home' = home /\ entry' = entry /\ got' = got
      /\ expected' = expected /\ stream' = stream /\ srv' = srv /\ disk' = disk /\ stored' = stored
      /\ remote' = remote /\ f_files' = f_files /\ todo' = todo /\ total' = total
      /\ sent' = sent /\ pos' = pos /\ readb' = readb
      /\ open' = open /\ twice' = twice /\ trouble' = trouble /\ ops' = ops
  BY DEF host
<1>2. Host!CopyBytes' = Host!CopyBytes
  BY <1>1 DEF Host!CopyBytes, Host!Wanted
<1>3. (\A f \in Kept : OfFile(stored[f], f)) => (\A f \in Kept : OfFile(stored[f], f))'
  BY <1>1 DEF OfFile, Pieces
<1>4. (\A f \in Kept : OfFile(remote[f], f)) => (\A f \in Kept : OfFile(remote[f], f))'
  BY <1>1 DEF OfFile, Pieces
<1>5. HereWhole' = HereWhole
  BY <1>1 DEF HereWhole, Pieces, Host!Here
<1>6. Fetched => Fetched'
  BY <1>1, <1>2, <1>3, <1>5 DEF Fetched, Host!Here, Host!Header, Host!Data, Pieces, Others
<1>7. GetInv'
  BY <1>1, <1>6 DEF GetInv, HostInv
<1>8. Arrived => Arrived'
  BY <1>1 DEF Arrived, Host!Record, Pieces
<1>9. (\E s : Sums(s)) => (\E s : Sums(s))'
  BY <1>1 DEF Sums, Adds
<1>10. ListInv => ListInv'
  BY <1>1 DEF ListInv
<1>11. TodoInv => TodoInv'
  BY <1>1 DEF TodoInv
<1>12. PutInv'
  BY <1>1, <1>4, <1>8, <1>9, <1>10, <1>11 DEF PutInv, HostInv, Host!Data
<1>13. HostTypes' /\ EntryInv' /\ OpenInv' /\ BoundInv'
  <2>1. HostTypes'
    BY <1>1 DEF HostTypes, Troubles, HostInv
  <2>2. EntryInv'
    BY <1>1, <1>2 DEF EntryInv, HostInv, Host!Record
  <2>3. OpenInv'
    BY <1>1, <1>2 DEF OpenInv, HostInv
  <2>4. BoundInv'
    BY <1>1 DEF BoundInv, HostInv
  <2> QED
    BY <2>1, <2>2, <2>3, <2>4
<1> QED
  BY <1>7, <1>12, <1>13 DEF HostInv

\* The list grows by the first entry that is left, and what is left by what that has in it.
LEMMA ReadEntryLists ==
  ASSUME HostInv, ListedInv, Host!ReadEntry
  PROVE  ListedInv'
<1>1. /\ op = "put" /\ step = "list" /\ todo # << >> /\ todo[Depth] # << >> /\ step' = step /\ folder' = folder
      /\ f_files' = Append(f_files, NewRecord) /\ trouble \subseteq trouble'
  BY DEF Host!ReadEntry, Host!Level, Host!which, Depth, First, NewRecord
<1>2. \/ "full" \in trouble' \/ "unlisted" \in trouble'
      \/ todo' = IF First.dir THEN Append(Rest, Tree[First.name]) ELSE Rest
  BY DEF Host!ReadEntry, Host!Level, Depth, First, Rest
<1>3. /\ First \in Inside /\ First = todo[Depth][1] /\ 1 \in DOMAIN todo[Depth]
      /\ Rest \in Seq(Seq(Inside)) /\ Len(Rest) = Depth /\ DOMAIN Rest = 1 .. Depth
      /\ NewRecord \in Listed /\ NewRecord.name = First.name /\ NewRecord.dir = First.dir
      /\ First.dir => Tree[First.name] \in Seq(Inside)
  BY <1>1, FirstTypes
<1>4. Depth \in Nat \ {0} /\ DOMAIN todo = 1 .. Depth
  BY <1>1, LevelTypes
<1>5. /\ Len(f_files) \in Nat /\ DOMAIN f_files = 1 .. Len(f_files)
      /\ DOMAIN f_files' = 1 .. Len(f_files) + 1 /\ f_files'[Len(f_files) + 1] = NewRecord
      /\ \A i \in 1 .. Len(f_files) : f_files'[i] = f_files[i]
  BY <1>1, <1>3 DEF HostInv, HostTypes
<1> SUFFICES ASSUME trouble' \cap {"full", "unread", "unlisted"} = {} PROVE Everything'
  BY <1>1 DEF ListedInv
<1>6. Everything /\ todo' = IF First.dir THEN Append(Rest, Tree[First.name]) ELSE Rest
  BY <1>1, <1>2 DEF ListedInv
<1>7. \A l \in 1 .. Depth : l \in DOMAIN todo' /\ todo'[l] = Rest[l]
  BY <1>3, <1>4, <1>6
<1>8. \A i \in DOMAIN f_files : i \in DOMAIN f_files' /\ f_files'[i] = f_files[i]
  BY <1>5
<1>9. ASSUME NEW d \in DOMAIN Tree, NEW k \in DOMAIN Tree[d],
             d = folder \/ \E i \in DOMAIN f_files : f_files[i].dir /\ f_files[i].name = d
      PROVE  \/ \E i \in DOMAIN f_files' : f_files'[i].name = Tree[d][k].name
             \/ \E l \in DOMAIN todo' : \E j \in DOMAIN todo'[l] : todo'[l][j] = Tree[d][k]
  <2>1. CASE \E i \in DOMAIN f_files : f_files[i].name = Tree[d][k].name
    BY <1>8, <2>1
  <2>2. CASE \E l \in DOMAIN todo : \E j \in DOMAIN todo[l] : todo[l][j] = Tree[d][k]
    <3>1. PICK l \in 1 .. Depth : \E j \in DOMAIN todo[l] : todo[l][j] = Tree[d][k]
      BY <1>4, <2>2
    <3>2. PICK j \in DOMAIN todo[l] : todo[l][j] = Tree[d][k]
      BY <3>1
    <3>3. CASE l = Depth /\ j = 1
      <4>1. Tree[d][k] = First
        BY <1>3, <3>2, <3>3
      <4> QED
        BY <1>3, <1>5, <4>1
    <3>4. CASE ~(l = Depth /\ j = 1)
      <4>1. \E m \in DOMAIN Rest[l] : Rest[l][m] = todo[l][j]
        BY <1>1, <1>3, <3>4, RestHas
      <4> QED
        BY <1>7, <3>2, <4>1
    <3> QED
      BY <3>3, <3>4
  <2> QED
    BY <1>6, <1>9, <2>1, <2>2 DEF Everything
<1>10. ASSUME First.dir, NEW k \in DOMAIN Tree[First.name]
       PROVE  \E l \in DOMAIN todo' : \E j \in DOMAIN todo'[l] : todo'[l][j] = Tree[First.name][k]
  <2>1. todo' = Append(Rest, Tree[First.name])
    BY <1>6, <1>10
  <2>2. Depth + 1 \in DOMAIN todo' /\ todo'[Depth + 1] = Tree[First.name]
    BY <1>3, <1>4, <1>10, <2>1
  <2> QED
    BY <2>2
<1>11. ASSUME NEW d \in DOMAIN Tree, NEW k \in DOMAIN Tree[d],
              d = folder \/ \E i \in DOMAIN f_files' : f_files'[i].dir /\ f_files'[i].name = d
       PROVE  \/ \E i \in DOMAIN f_files' : f_files'[i].name = Tree[d][k].name
              \/ \E l \in DOMAIN todo' : \E j \in DOMAIN todo'[l] : todo'[l][j] = Tree[d][k]
  <2>1. CASE d = folder \/ \E i \in DOMAIN f_files : f_files[i].dir /\ f_files[i].name = d
    BY <1>9, <2>1
  <2>2. CASE NewRecord.dir /\ NewRecord.name = d
    BY <1>3, <1>10, <2>2
  <2> QED
    BY <1>5, <1>11, <2>1, <2>2
<1> QED
  BY <1>1, <1>11 DEF Everything

LEMMA ListedSteps == HostInv /\ ListedInv /\ Host!Next => ListedInv'
<1> SUFFICES ASSUME HostInv, ListedInv, Host!Next PROVE ListedInv'
  OBVIOUS
<1>1. CASE Host!ReadEntry
  BY <1>1, ReadEntryLists
<1>2. CASE Host!EndOfLevel \/ Host!ReadFails
  <2>1. /\ op = "put" /\ step = "list" /\ todo # << >> /\ step' = step /\ folder' = folder
        /\ f_files' = f_files
    BY <1>2 DEF Host!EndOfLevel, Host!ReadFails, Host!which
  <2>2. CASE Host!ReadFails
    BY <2>1, <2>2 DEF Host!ReadFails, ListedInv
  <2>3. CASE Host!EndOfLevel
    <3>1. todo[Depth] = << >> /\ todo' = SubSeq(todo, 1, Depth - 1) /\ trouble' = trouble
      BY <2>3 DEF Host!EndOfLevel, Host!Level, Host!LeavesLevel, Depth
    <3>2. /\ Depth \in Nat \ {0} /\ DOMAIN todo = 1 .. Depth
          /\ DOMAIN todo' = 1 .. Depth - 1 /\ \A l \in 1 .. Depth - 1 : todo'[l] = todo[l]
      BY <2>1, <3>1, LevelTypes
    <3>3. ASSUME NEW l \in DOMAIN todo, NEW j \in DOMAIN todo[l]
          PROVE  l \in DOMAIN todo' /\ j \in DOMAIN todo'[l] /\ todo'[l][j] = todo[l][j]
      <4>1. l # Depth
        BY <3>1
      <4>2. l \in 1 .. Depth - 1
        BY <3>2, <4>1
      <4> QED
        BY <3>2, <4>2
    <3>4. Everything => Everything'
      BY <2>1, <3>3 DEF Everything
    <3> QED
      BY <2>1, <3>1, <3>4 DEF ListedInv
  <2> QED
    BY <1>2, <2>2, <2>3
<1>3. CASE Host!StartPut
  <2>1. /\ folder' \in Folder /\ f_files' = << >> /\ step' = "list"
        /\ todo' = << Tree[folder'] >> \/ "unlisted" \in trouble'
    BY <1>3 DEF Host!StartPut, Host!Starts
  <2>2. ASSUME todo' = << Tree[folder'] >> PROVE Everything'
    <3>1. DOMAIN f_files' = {} /\ DOMAIN todo' = {1} /\ todo'[1] = Tree[folder']
      BY <2>1, <2>2
    <3> QED
      BY <3>1 DEF Everything
  <2> QED
    BY <2>1, <2>2 DEF ListedInv
<1>4. CASE \/ Host!PutConnect \/ Host!Put \/ Host!Send \/ Host!SendUnread \/ Host!SendOne \/ Host!SendFails
           \/ Host!PutNext \/ Host!BreakOff \/ Host!Change
  <2>1. /\ folder' = folder /\ f_files' = f_files /\ todo' = todo /\ trouble \subseteq trouble'
        /\ op' = op \/ op' = "idle"
        /\ step' = step \/ step # "list" \/ todo = << >>
    BY <1>4 DEF Host!PutConnect, Host!Put, Host!Send, Host!SendUnread, Host!SendOne, Host!SendFails, Host!Sending,
                Host!PutNext, Host!BreakOff, Host!Change, Host!Breaks, Host!which, Host!list
  <2>2. Everything => Everything'
    BY <2>1 DEF Everything
  <2> QED
    BY <2>1, <2>2 DEF ListedInv
<1>5. CASE op' # "put"
  BY <1>5 DEF ListedInv
<1>6. ASSUME op' = "put"
      PROVE  \/ Host!ReadEntry \/ Host!EndOfLevel \/ Host!ReadFails \/ Host!StartPut
             \/ Host!PutConnect \/ Host!Put \/ Host!Send \/ Host!SendUnread \/ Host!SendOne \/ Host!SendFails
             \/ Host!PutNext \/ Host!BreakOff \/ Host!Change
  <2>1. ~(\/ Host!GetStep \/ Host!ComStep \/ Host!SkipFile \/ Host!PutEnds \/ Host!PutOneEnds)
    <3>1. ~Host!GetStep /\ ~Host!SkipFile
      BY <1>6 DEF Host!GetStep, Host!GetConnect, Host!NextEntry, Host!Get, Host!ReadHeader, Host!Receive,
                  Host!ReceiveFails, Host!CloseFile, Host!AfterFile, Host!GetEnds, Host!SkipFile
    <3> QED
      BY <1>6, <3>1 DEF Host!ComStep, Host!Com, Host!ComReceive, Host!ComEnds, Host!PutEnds, Host!PutOneEnds
  <2>2. ~(Host!StartGet \/ Host!StartCom \/ Host!StartPutOne)
    BY <1>6 DEF Host!StartGet, Host!StartCom, Host!StartPutOne, Host!Starts
  <2> QED
    BY <2>1, <2>2 DEF Host!Next, Host!PutStep
<1> QED
  BY <1>1, <1>2, <1>3, <1>4, <1>5, <1>6

LEMMA HostSteps == HostInv /\ Host!Next => HostInv'
<1> SUFFICES ASSUME HostInv, Host!Next PROVE HostInv'
  OBVIOUS
<1>1. CASE Host!GetConnect \/ Host!NextEntry \/ Host!Get
  BY <1>1, GetConnectKeeps, NextEntryKeeps, GetCommandKeeps
<1>2. CASE Host!ReadHeader
  <2>1. op = "get" \/ op = "com"
    BY <1>2 DEF Host!ReadHeader
  <2> QED
    BY <1>2, <2>1, GetHeaderKeeps, ComKeeps
<1>3. CASE Host!Receive
  BY <1>3, ReceiveKeeps
<1>4. CASE Host!ReceiveFails \/ Host!SkipFile \/ Host!CloseFile
  BY <1>4, FileOverKeeps
<1>5. CASE Host!AfterFile \/ Host!GetEnds
  BY <1>5, AfterFileKeeps, GetEndsKeeps
<1>6. CASE Host!ReadEntry \/ Host!EndOfLevel \/ Host!ReadFails
  BY <1>6, ReadEntryKeeps, LevelOverKeeps
<1>7. CASE \/ Host!PutConnect \/ Host!Put \/ Host!Send \/ Host!SendOne
           \/ Host!SendUnread \/ Host!PutNext
  BY <1>7, PutConnectKeeps, SendsCommandKeeps, SendKeeps, UnreadKeeps, PutNextKeeps
<1>8. CASE Host!BreakOff \/ Host!SendFails \/ Host!Change
  BY <1>8, BreaksOffKeeps
<1>9. CASE Host!ComEnds \/ Host!PutEnds \/ Host!PutOneEnds
  BY <1>9, EndsKeeps
<1>10. CASE Host!Com \/ Host!ComReceive
  BY <1>10, ComKeeps
<1>11. CASE Host!StartGet \/ Host!StartPut \/ Host!StartCom \/ Host!StartPutOne
  BY <1>11, StartGetKeeps, StartPutKeeps, StartComKeeps, StartPutOneKeeps
<1> QED
  BY <1>1, <1>2, <1>3, <1>4, <1>5, <1>6, <1>7, <1>8, <1>9, <1>10, <1>11
     DEF Host!Next, Host!GetStep, Host!PutStep, Host!ComStep

\* A file that is copied from or to a host is made of its own bytes, in order, and is all there when
\* nothing went wrong; the list of read_folder stays within its bound; and what an operation opened
\* it closes: for any index, tree of directories, sizes and bound, wherever the connection breaks
\* or the user breaks off (net_folder_copy, net_folder_copy_put, network_com, network_put).
THEOREM CopiesAlwaysSound == MCFairSpec => []CopiesSound
<1>1. MCInit => HostInv /\ ListedInv
  BY HostStarts DEF MCInit, Host!Init, ListedInv
<1>2. HostInv /\ ListedInv => CopiesSound
  <2> SUFFICES ASSUME HostInv, ListedInv
               PROVE  /\ Host!TypeOK /\ Host!GotOwn /\ Host!PutOwn /\ Host!ListBounded
                      /\ Host!ClosedOnce
    BY DEF CopiesSound
  <2>1. Host!TypeOK
    <3>1. entry \in 1 .. Len(Index) + Len(f_files) + 1
      <4>1. entry \in Nat \ {0} /\ Len(f_files) \in Nat /\ Len(Index) \in Nat
        BY IndexNames DEF HostInv, HostTypes
      <4> QED
        BY <4>1 DEF HostInv, EntryInv
    <3>2. srv.left >= 0
      BY DEF HostInv, HostTypes
    <3> QED
      BY <3>1, <3>2 DEF HostInv, HostTypes, Host!TypeOK, Troubles
  <2>2. Host!GotOwn
    <3> SUFFICES ASSUME trouble \cap {"skipped", "short"} = {}, NEW f \in Kept
                 PROVE  /\ Host!IsPrefix(stored[f], Host!Data(f))
                        /\ op = "get" /\ step = "entry" /\ entry > Len(Index) /\ trouble = {} =>
                             \A i \in Host!CopyBytes : stored[Index[i].name] = Host!Data(Index[i].name)
      BY DEF Host!GotOwn, Host!HostFile, Kept
    <3>1. Fetched
      BY DEF HostInv, GetInv
    <3>2. Host!IsPrefix(stored[f], Host!Data(f))
      BY <3>1, PiecesPrefix DEF Fetched
    <3>3. entry > Len(Index) => \A i \in Host!CopyBytes : i < entry
      BY IndexNames DEF HostInv, HostTypes
    <3> QED
      BY <3>1, <3>2, <3>3 DEF Fetched
  <2>3. Host!PutOwn
    <3>1. trouble \cap {"changed", "full", "misread"} = {} =>
            \A f \in Kept : Host!IsPrefix(remote[f], Host!Data(f))
      BY PiecesPrefix DEF HostInv, PutInv
    <3>2. ASSUME trouble = {}, << op, step >> = << "put", "end" >>
          PROVE  /\ \A i \in DOMAIN f_files : ~f_files[i].dir =>
                      remote[f_files[i].name] = Host!Data(f_files[i].name)
                 /\ Host!AllListed
      <4>1. op = "put" /\ step = "end"
        BY <3>2
      <4>2. Host!AllListed
        BY <3>2, <4>1 DEF ListedInv, Everything, Host!AllListed
      <4> QED
        BY <3>2, <4>1, <4>2 DEF HostInv, PutInv
    <3>3. ASSUME trouble = {}, << op, step >> = << "one", "sent" >>
          PROVE  op = "one" /\ \A i \in DOMAIN f_files : ~f_files[i].dir =>
                                  remote[f_files[i].name] = Host!Data(f_files[i].name)
      <4>1. op = "one" /\ step = "sent"
        BY <3>3
      <4>2. ListInv /\ Arrived /\ Len(f_files) = 1 /\ DOMAIN f_files = {1} /\ entry = 1
        BY <3>3, <4>1, RecordIs DEF HostInv, PutInv, EntryInv
      <4>3. Host!Record = f_files[1] /\ (~f_files[1].dir => f_files[1].name \in Kept)
        BY <4>2 DEF Host!Record, ListInv, Distinct
      <4>4. ~f_files[1].dir => remote[f_files[1].name] = Pieces(f_files[1].name, HostSize[f_files[1].name])
        BY <4>1, <4>2, <4>3 DEF Arrived, ListInv, Distinct
      <4> QED
        BY <4>1, <4>2, <4>3, <4>4, PiecesPrefix
    <3> QED
      BY <3>1, <3>2, <3>3 DEF Host!PutOwn, Host!HostFile, Kept
  <2>4. Host!ListBounded
    <3>1. Len(f_files) \in Nat /\ MAX_F_FILES \in Nat
      BY HostSizes DEF HostInv, HostTypes
    <3> QED
      BY <3>1 DEF HostInv, BoundInv, Host!ListBounded
  <2>5. Host!ClosedOnce
    BY DEF HostInv, OpenInv, Host!ClosedOnce
  <2> QED
    BY <2>1, <2>2, <2>3, <2>4, <2>5
<1>3. HostInv /\ ListedInv /\ [MCNext]_mcvars => (HostInv /\ ListedInv)'
  <2> SUFFICES ASSUME HostInv, ListedInv, [MCNext]_mcvars PROVE HostInv' /\ ListedInv'
    OBVIOUS
  <2>1. Host!Next \/ UNCHANGED host
    BY DEF MCNext, InDisk, InHttp, InHost, mcvars
  <2>2. UNCHANGED host => ListedInv'
    BY DEF host, ListedInv, Everything
  <2> QED
    BY <2>1, <2>2, HostSteps, HostUnchanged, ListedSteps
<1> QED
  BY <1>1, <1>2, <1>3, PTL DEF MCFairSpec
==============================================================================
