------------------------------ MODULE GameCopy ------------------------------
(***************************************************************************)
(* Copying and moving folders (source/multiman.cpp): my_game_copy, the     *)
(* recursive walks it is made of (my_game_test counts, _my_game_copy       *)
(* copies, my_game_delete deletes), and two of its callers: the folder     *)
(* copy of the file manager, which moves when it is asked to, and the game *)
(* copy of the main menu, which marks a folder that is not a plain copy by *)
(* an underscore before its name, if no folder has that name already.      *)
(*                                                                         *)
(* The walks tell their failures only through the global abort_copy: the   *)
(* results of the recursive calls are ignored.  The copy engine is taken   *)
(* by what module FastCopy shows of it: of the files queued it finishes a  *)
(* prefix, and unless it sets abort_copy that is all of them.              *)
(*                                                                         *)
(* use_symlinks and join_copy are 0 here, the devices are no /pvd_usb, and *)
(* the game copy has one destination folder.                               *)
(***************************************************************************)
EXTENDS Integers, FiniteSets, Sequences, FiniteSetsExt, Functions

CONSTANTS
  Dir, File,       \* the directories and files of the source
  Root,            \* the folders the user can select
  Parent,          \* Parent[n]: the directory n is in, for every n that is no root
  Tree,            \* Tree[r]: folder r and what is in it at any depth
  Kind,            \* "plain", "first" (.66600), "later" (.66601, ...), "hidden" (._*)
  Pieces,          \* Pieces[f]: the later fragments of a first one, in order
  Size,            \* Size[f]: size of a file
  CopyMode,        \* copy_mode: 1 when the destination is an external device
  BigFile,         \* 0x100000000, size from which a file is split
  MaxFastFiles,    \* MAX_FAST_FILES
  FreeSpace,       \* what the destination may tell of its free space, 0: nothing
  OnHdd,           \* the source is on /dev_hdd0
  CountMayFail,    \* the counting walk may meet what it cannot open or stat
  DeleteMayFail    \* the deletion may fail or be aborted

Node == Dir \cup File

\* Nothing in a directory of S is outside S.
ClosedTree(S) == \A n \in Node \ Root : Parent[n] \in S => n \in S

ASSUME TreeAssumption ==
  /\ Root \subseteq Dir /\ Dir \cap File = {}
  /\ IsFiniteSet(Dir) /\ IsFiniteSet(File)
  /\ \A n \in Node \ Root : Parent[n] \in Dir
  /\ \A r \in Root : /\ r \in Tree[r] /\ Tree[r] \subseteq Node /\ ClosedTree(Tree[r])
                     /\ \A S \in SUBSET Node : r \in S /\ ClosedTree(S) => Tree[r] \subseteq S
  /\ \A f \in File : /\ Kind[f] \in {"plain", "first", "later", "hidden"}
                     /\ Pieces[f] \in Seq({ g \in File : Kind[g] = "later" })
                     /\ Kind[f] # "first" => Pieces[f] = << >>
                     /\ \A g \in Range(Pieces[f]) : Parent[g] = Parent[f]
                     /\ Kind[f] = "later" => \E g \in File : f \in Range(Pieces[g])
                     /\ Size[f] \in Nat
  /\ CopyMode \in {0, 1} /\ MaxFastFiles \in Nat \ {0} /\ FreeSpace \subseteq Nat
  /\ BigFile \in Nat \ {0}
  /\ {OnHdd, CountMayFail, DeleteMayFail} \subseteq BOOLEAN

In(d) == { n \in Node \ Root : Parent[n] = d }
Visible == { n \in Dir \cup File : n \in File => Kind[n] # "hidden" }

VARIABLES
  pc,                \* where the main thread is
  caller,            \* "folders" (file manager) or "game" (main menu)
  do_move,           \* the user asked for a move
  same_dev,          \* both panes show one device
  selected, cur,     \* folders left to do, the one in hand
  walk,              \* the recursion: directories with their entries not read yet
  to_abort,          \* the mode of my_game_test
  abort_copy,        \* 0, or why the copy is given up
  global_device_bytes, copy_global_bytes, no_real_progress,
  copy_is_split,     \* a file of this copy was split
  queue,             \* the files in the engine
  src,               \* what is on the source device
  made, saved, partial, \* destination: directories, whole files, begun files
  home,              \* what goes by the name of the game: "none", "plain", its copy, or
                     \* "rest", a copy whose deletion did not come to the end
  marked             \* games an earlier copy of which goes by the name with an underscore

vars == << pc, caller, do_move, same_dev, selected, cur, walk, to_abort, abort_copy,
           global_device_bytes, copy_global_bytes, no_real_progress, copy_is_split, queue,
           src, made, saved, partial, home, marked >>

names    == << home, marked >>
job      == << caller, do_move, same_dev, cur >>
progress == << copy_global_bytes, no_real_progress >>
dest     == << made, saved, partial >>

Init ==
  /\ pc = "pane"
  /\ caller = "folders" /\ do_move = 0 /\ same_dev = FALSE /\ selected = {} /\ cur \in Root
  /\ walk = << >> /\ to_abort = 0
  /\ abort_copy = 0
  /\ global_device_bytes = 0 /\ copy_global_bytes = 0 /\ no_real_progress = 0
  /\ copy_is_split = 0
  /\ queue = << >>
  /\ src = Dir \cup File /\ made = {} /\ saved = {} /\ partial = {}
  /\ home = "none" /\ marked = {}

-----------------------------------------------------------------------------
(***************************************************************************)
(* The callers                                                             *)
(***************************************************************************)

\* File manager: folders of the pane are selected for a copy or a move.
CopyFolders ==
  /\ pc = "pane" /\ home = "none" /\ marked = {}
  /\ caller' = "folders" /\ do_move' \in {0, 1} /\ same_dev' \in BOOLEAN
  /\ \E picked \in SUBSET (Root \cap src) \ {{}} : selected' = picked
  /\ pc' = "batch" /\ abort_copy' = 0
  /\ UNCHANGED << cur, walk, to_abort, global_device_bytes, progress, copy_is_split,
                  queue, src, dest, names >>

\* Main menu: one game is copied to a folder that does not exist yet; whether there is one with
\* the underscore is not looked at.  Bound: one game is copied, but as often as its name is free.
CopyGame ==
  /\ pc = "pane" /\ home = "none" /\ made = {}
  /\ caller' = "game" /\ do_move' = 0 /\ same_dev' = FALSE
  /\ \E game \in Root \cap src : marked \subseteq {game} /\ selected' = {game}
  /\ pc' = "batch" /\ abort_copy' = 0
  /\ UNCHANGED << cur, walk, to_abort, global_device_bytes, progress, copy_is_split,
                  queue, src, dest, names >>

\* The loop over the selected folders ends when one of them was given up.
BatchEnd ==
  /\ pc = "batch" /\ (selected = {} \/ abort_copy # 0)
  /\ pc' = "pane" /\ selected' = {}
  /\ UNCHANGED << job, walk, to_abort, abort_copy, global_device_bytes, progress,
                  copy_is_split, queue, src, dest, names >>

ByRename == caller = "folders" /\ same_dev /\ do_move = 1

\* A move within one device renames the folder, whether that succeeds or not.
MoveByRename ==
  /\ pc = "batch" /\ selected # {} /\ abort_copy = 0
  /\ ByRename
  /\ cur' \in selected /\ selected' = selected \ {cur'}
  /\ LET moved == src \cap Tree[cur']
     IN \/ /\ src' = src \ moved
           /\ saved' = saved \cup (moved \cap File)
           /\ made' = made \cup (moved \cap Dir)
        \/ UNCHANGED << src, saved, made >>
  /\ UNCHANGED << pc, caller, do_move, same_dev, walk, to_abort, abort_copy,
                  global_device_bytes, progress, copy_is_split, queue, partial, names >>

\* A directory is opened and holds what of it is on the source.
Enter(d)   == [dir |-> d, left |-> In(d) \cap src]
Top        == walk[Len(walk)]
Popped     == SubSeq(walk, 1, Len(walk) - 1)
Visit(n)   == [walk EXCEPT ![Len(walk)] = [dir |-> Top.dir, left |-> Top.left \ {n}]]

\* The folder is at the destination already and the user would not overwrite it.
OverwriteDeclined ==
  /\ pc = "batch" /\ selected \cap made # {} /\ abort_copy = 0
  /\ caller = "folders" /\ ~ByRename
  /\ pc' = "pane" /\ selected' = {}
  /\ UNCHANGED << job, walk, to_abort, abort_copy, global_device_bytes, progress,
                  copy_is_split, queue, src, dest, names >>

\* Wrong variant: the folder stays selected.
StartFolder_Again ==
  /\ pc = "batch" /\ selected # {} /\ abort_copy = 0
  /\ ~ByRename
  /\ cur' \in selected /\ UNCHANGED selected
  /\ made' = made \cup {cur'}
  /\ home' = IF caller = "game" THEN "plain" ELSE home
  /\ copy_is_split' = 0
  /\ global_device_bytes' = 0 /\ abort_copy' = 0
  /\ to_abort' = IF OnHdd THEN 0 ELSE 1
  /\ walk' = << Enter(cur') >>
  /\ pc' = "test"
  /\ UNCHANGED << caller, do_move, same_dev, progress, queue, src, saved, partial,
                  marked >>

\* my_game_copy: the destination folder exists, the counting starts.
StartFolder ==
  /\ pc = "batch" /\ selected # {} /\ abort_copy = 0
  /\ ~ByRename
  /\ cur' \in selected /\ selected' = selected \ {cur'}
  /\ made' = made \cup {cur'}
  /\ home' = IF caller = "game" THEN "plain" ELSE home
  /\ copy_is_split' = 0
  /\ global_device_bytes' = 0 /\ abort_copy' = 0
  /\ to_abort' = IF OnHdd THEN 0 ELSE 1
  /\ walk' = << Enter(cur') >>
  /\ pc' = "test"
  /\ UNCHANGED << caller, do_move, same_dev, progress, queue, src, saved, partial,
                  marked >>

-----------------------------------------------------------------------------
(***************************************************************************)
(* my_game_test counts what is to be copied                                *)
(***************************************************************************)

testing == << job, selected, progress, copy_is_split, queue, src, dest, names >>

\* The next entry is a directory; one that cannot be opened is not counted.
\* abort_copy is 2 when there is no memory.
TestDir ==
  /\ pc = "test" /\ walk # << >> /\ abort_copy = 0
  /\ \E d \in Top.left \cap Dir :
       \/ walk' = Append(Visit(d), Enter(d)) /\ UNCHANGED abort_copy
       \/ CountMayFail /\ walk' = Visit(d) /\ abort_copy' \in {0, 2}
  /\ UNCHANGED << pc, to_abort, global_device_bytes, testing >>

\* The next entry is a file: its size is added, unless the walk only counts files.
\* It is stopped by the user (triangle), after ten seconds, or by a failing stat.
TestFile ==
  /\ pc = "test" /\ walk # << >> /\ abort_copy = 0
  /\ \E f \in Top.left \cap File \cap Visible :
       /\ walk' = Visit(f)
       /\ \/ /\ global_device_bytes' =
                  IF to_abort # 3 THEN global_device_bytes + Size[f] ELSE global_device_bytes
             /\ abort_copy' \in {0, 1}
          \/ /\ CountMayFail /\ to_abort # 3
             /\ abort_copy' = 3
             /\ UNCHANGED global_device_bytes
  /\ UNCHANGED << pc, to_abort, testing >>

TestReturn ==
  /\ pc = "test" /\ walk # << >>
  /\ Top.left \cap Visible = {} \/ abort_copy # 0
  /\ walk' = Popped
  /\ UNCHANGED << pc, to_abort, abort_copy, global_device_bytes, testing >>

\* A count that was stopped is started again for the number of files alone.
TestAgain ==
  /\ pc = "test" /\ walk = << >> /\ to_abort = 1 /\ abort_copy = 1
  /\ to_abort' = 3 /\ abort_copy' = 0
  /\ walk' = << Enter(cur) >>
  /\ UNCHANGED << pc, global_device_bytes, testing >>

Counted == pc = "test" /\ walk = << >> /\ ~(to_abort = 1 /\ abort_copy = 1)

\* What was counted does not fit: nothing is copied.
NoSpace ==
  /\ Counted
  /\ \E free \in FreeSpace : free # 0 /\ global_device_bytes > free
  /\ pc' = "after" /\ abort_copy' = 1
  /\ UNCHANGED << walk, to_abort, global_device_bytes, testing >>

\* Wrong variant: that the count was stopped is forgotten.
Stopped_Forgotten == 0

\* The count was stopped by the user or by the clock.
Stopped == IF to_abort = 3 \/ abort_copy = 1 THEN 1 ELSE 0

\* The copy begins.  Its engine (fast_copy_async) may fail to open (665), and so
\* may the folder (7).
Space ==
  /\ Counted
  /\ \E free \in FreeSpace : free = 0 \/ global_device_bytes <= free
  /\ copy_global_bytes' = global_device_bytes
  /\ no_real_progress' = Stopped
  /\ global_device_bytes' = 0
  /\ \/ abort_copy' = 0 /\ pc' = "copy" /\ walk' = << Enter(cur) >>
     \/ abort_copy' = 7 /\ pc' = "flush" /\ UNCHANGED walk
     \/ abort_copy' = 665 /\ pc' = "after" /\ UNCHANGED walk
  /\ UNCHANGED << job, selected, to_abort, copy_is_split, queue, src, dest, names >>

-----------------------------------------------------------------------------
(***************************************************************************)
(* _my_game_copy copies                                                    *)
(***************************************************************************)

copying == << job, selected, to_abort, progress, src, names >>

\* Wrong variant: a directory that cannot be opened is passed over.
CopyDir_Skipped ==
  /\ pc = "copy" /\ walk # << >> /\ abort_copy = 0
  /\ \E d \in Top.left \cap Dir :
       \/ /\ walk' = Append(Visit(d), Enter(d)) /\ made' = made \cup {d}
          /\ UNCHANGED abort_copy
       \/ /\ walk' = Visit(d) /\ made' = made \cup {d}
          /\ UNCHANGED abort_copy
  /\ UNCHANGED << pc, copying, global_device_bytes, copy_is_split, queue, saved, partial >>

\* The next entry is a directory: it is made and entered.  abort_copy is 2 when
\* there is no memory, 7 when it cannot be opened.
CopyDir ==
  /\ pc = "copy" /\ walk # << >> /\ abort_copy = 0
  /\ \E d \in Top.left \cap Dir :
       \/ /\ walk' = Append(Visit(d), Enter(d)) /\ made' = made \cup {d}
          /\ UNCHANGED abort_copy
       \/ /\ walk' = Visit(d) /\ made' = made \cup {d} /\ abort_copy' = 7
       \/ /\ walk' = Popped /\ abort_copy' = 2 /\ UNCHANGED made
  /\ UNCHANGED << pc, copying, global_device_bytes, copy_is_split, queue, saved, partial >>

\* All that one file of the destination may hold: f and what is joined to it.
Parts(f) == IF CopyMode = 0 THEN {f} \cup Range(Pieces[f]) ELSE {f}

\* What it does hold when the engine has finished f: the joining ends at the first
\* fragment that is missing.
Saves(f) ==
  {f} \cup { g \in Parts(f) : \E i \in DOMAIN Pieces[f] :
                /\ g = Pieces[f][i]
                /\ \A j \in 1 .. i : Pieces[f][j] \in src }
Bytes(f) == MapThenSumSet(LAMBDA g : Size[g], Saves(f))
Volume(files) == MapThenSumSet(Bytes, files)
Done(n)  == { queue[i] : i \in 1 .. n }

\* The engine has finished the files of done and begun those of begun: what the
\* destination had under these names is overwritten.
Writes(done, begun) ==
  /\ saved' = (saved \ UNION { Parts(f) : f \in done \cup begun })
                 \cup UNION { Saves(f) : f \in done }
  /\ partial' = (partial \ done) \cup begun

\* Wrong variant: the engine passes over a file that fails.
Process_SkipsBad(failed) ==
  \E n \in 0 .. Len(queue) :
    /\ ~failed
    /\ Writes(Done(n), IF n < Len(queue) THEN {queue[n + 1]} ELSE {})
    /\ global_device_bytes' = global_device_bytes + Volume(Done(n))
    /\ queue' = << >>

\* fast_copy_process: it finishes a prefix of the queue, and all of it when it does
\* not fail.
Process(failed) ==
  \E n \in 0 .. Len(queue) :
    /\ \/ (failed \/ n = Len(queue)) /\ Writes(Done(n), {})
       \/ failed /\ n < Len(queue) /\ Writes(Done(n), {queue[n + 1]})
    /\ global_device_bytes' = global_device_bytes + Volume(Done(n))
    /\ queue' = << >>

\* Wrong variant: the queue is never full.
QueueFull_Never == FALSE

QueueFull == Len(queue) >= MaxFastFiles

\* fast_copy_add finds the queue full: it is processed first.  The user aborts it
\* (1) or it fails (666).
CopyFlush ==
  /\ pc = "copy" /\ walk # << >> /\ abort_copy = 0
  /\ Top.left \cap File \cap Visible # {}
  /\ QueueFull
  /\ \/ Process(FALSE) /\ UNCHANGED << abort_copy, walk >>
     \/ Process(TRUE) /\ abort_copy' \in {1, 666} /\ walk' = Popped
  /\ UNCHANGED << pc, copying, copy_is_split, made >>

\* fast_copy_add takes a file that is not a later fragment.
CopyFile ==
  /\ pc = "copy" /\ walk # << >> /\ abort_copy = 0 /\ ~QueueFull
  /\ \E f \in Top.left \cap File \cap Visible :
       IF Kind[f] = "later"
       THEN walk' = Visit(f) /\ UNCHANGED << abort_copy, queue, saved, copy_is_split >>
       ELSE \/ /\ Size[f] = 0 /\ saved' = saved \cup {f}
               /\ walk' = Visit(f) /\ UNCHANGED << abort_copy, queue, copy_is_split >>
            \/ /\ Size[f] > 0 /\ queue' = Append(queue, f)
               /\ walk' = Visit(f)
               /\ copy_is_split' = IF CopyMode = 1 /\ Size[f] >= BigFile THEN 1
                                   ELSE copy_is_split
               /\ UNCHANGED << abort_copy, saved >>
            \/ /\ abort_copy' = 666 /\ walk' = Popped
               /\ UNCHANGED << queue, saved, copy_is_split >>
  /\ UNCHANGED << pc, copying, global_device_bytes, made, partial >>

\* A directory is done, or given up with all those it is in.
CopyReturn ==
  /\ pc = "copy" /\ walk # << >>
  /\ Top.left \cap Visible = {} \/ abort_copy # 0
  /\ walk' = Popped
  /\ UNCHANGED << pc, copying, abort_copy, global_device_bytes, copy_is_split, queue, dest >>

CopyWalked ==
  /\ pc = "copy" /\ walk = << >>
  /\ pc' = "flush"
  /\ UNCHANGED << copying, walk, abort_copy, global_device_bytes, copy_is_split, queue,
                  dest >>

\* The last fast_copy_process of my_game_copy; after a failure it only drops the
\* queue.
LastFlush ==
  /\ pc = "flush"
  /\ IF abort_copy # 0
     THEN queue' = << >> /\ UNCHANGED << saved, partial, global_device_bytes, abort_copy >>
     ELSE \/ Process(FALSE) /\ UNCHANGED abort_copy
          \/ Process(TRUE) /\ abort_copy' \in {1, 666}
  /\ pc' = "after"
  /\ UNCHANGED << copying, walk, copy_is_split, made >>

-----------------------------------------------------------------------------
(***************************************************************************)
(* After the copy: the source of a move, or what a given up game copy left *)
(* behind, is deleted by my_game_delete.                                   *)
(***************************************************************************)

\* What a directory holds on the device that is deleted from: a joined file of the
\* destination goes by its first fragment.
There(d) ==
  In(d) \cap IF caller = "folders" THEN src
             ELSE made \cup { f \in saved \cup partial : Kind[f] # "later" }

\* The file manager goes on with the next folder.
AfterCopy ==
  /\ pc = "after" /\ caller = "folders" /\ ~(do_move = 1 /\ abort_copy = 0)
  /\ pc' = "batch"
  /\ UNCHANGED << copying, walk, abort_copy, global_device_bytes, copy_is_split, queue,
                  dest >>

\* A move deletes the source only when nothing was given up.
AfterMove ==
  /\ pc = "after" /\ caller = "folders" /\ do_move = 1 /\ abort_copy = 0
  /\ pc' = "delete"
  /\ walk' = << [dir |-> cur, left |-> There(cur)] >>
  /\ UNCHANGED << copying, abort_copy, global_device_bytes, copy_is_split, queue, dest >>

\* Wrong variant: a split copy keeps its name.
AfterGame_Unmarked ==
  /\ pc = "after" /\ caller = "game" /\ abort_copy = 0
  /\ pc' = "batch"
  /\ UNCHANGED << copying, walk, abort_copy, global_device_bytes, copy_is_split, queue,
                  dest >>

\* rename(name, filename): the folder gets the name with the underscore, unless there is one of
\* that name.  The result is not looked at.
Mark ==
  IF cur \in marked
  THEN UNCHANGED << names, dest >>
  ELSE /\ home' = "none" /\ marked' = marked \cup {cur}
       /\ made' = {} /\ saved' = {} /\ partial' = {}

\* A game copy that split a file is to be marked.
AfterGame ==
  /\ pc = "after" /\ caller = "game" /\ abort_copy = 0
  /\ IF copy_is_split = 1 THEN Mark ELSE UNCHANGED << names, dest >>
  /\ pc' = "batch"
  /\ UNCHANGED << job, selected, to_abort, progress, src, walk, abort_copy,
                  global_device_bytes, copy_is_split, queue >>

\* Wrong variant: what is kept is not marked.
AfterGameKept_Unmarked ==
  /\ pc = "after" /\ caller = "game" /\ abort_copy # 0
  /\ pc' = "batch"
  /\ UNCHANGED << copying, walk, abort_copy, global_device_bytes, copy_is_split, queue,
                  dest >>

\* The user keeps what a given up copy left: it is to be marked.
AfterGameKept ==
  /\ pc = "after" /\ caller = "game" /\ abort_copy # 0
  /\ Mark
  /\ pc' = "batch"
  /\ UNCHANGED << job, selected, to_abort, progress, src, walk, abort_copy,
                  global_device_bytes, copy_is_split, queue >>

\* The user has it deleted.
AfterGameDeleted ==
  /\ pc = "after" /\ caller = "game" /\ abort_copy # 0
  /\ abort_copy' = 0
  /\ pc' = "delete"
  /\ walk' = << [dir |-> cur, left |-> There(cur)] >>
  /\ UNCHANGED << copying, global_device_bytes, copy_is_split, queue, dest >>

deleting == << job, selected, to_abort, progress, global_device_bytes, copy_is_split, queue,
               names >>

\* n disappears from the device the walk is on; joined fragments go with the first.
Remove(n) ==
  IF caller = "folders"
  THEN src' = src \ {n} /\ UNCHANGED dest
  ELSE /\ made' = made \ {n}
       /\ partial' = partial \ {n}
       /\ saved' = saved \ (IF n \in File THEN Parts(n) ELSE {})
       /\ UNCHANGED src

\* The user may hold triangle.
Triangle == IF DeleteMayFail THEN {0, 1} ELSE {0}

\* A file is removed, if the disk lets it.
DeleteFile ==
  /\ pc = "delete" /\ walk # << >> /\ abort_copy = 0
  /\ \E f \in Top.left \cap File :
       /\ walk' = Visit(f)
       /\ \/ Remove(f)
          \/ DeleteMayFail /\ UNCHANGED << src, dest >>
       /\ abort_copy' \in Triangle
  /\ UNCHANGED << pc, deleting >>

\* A directory is entered; one that cannot be opened is as good as empty.
DeleteDir ==
  /\ pc = "delete" /\ walk # << >> /\ abort_copy = 0
  /\ \E d \in Top.left \cap Dir :
       \/ walk' = Append(Visit(d), [dir |-> d, left |-> There(d)])
       \/ DeleteMayFail /\ walk' = Append(Visit(d), [dir |-> d, left |-> {}])
  /\ UNCHANGED << pc, deleting, abort_copy, src, dest >>

\* The directory has been walked: rmdir removes it when it is empty, if the disk
\* lets it; abort_copy is 3 when it stays.  That of the top is not checked.
DeleteReturn ==
  /\ pc = "delete" /\ walk # << >>
  /\ Top.left = {} \/ abort_copy # 0
  /\ walk' = Popped
  /\ \/ /\ There(Top.dir) = {}
        /\ Remove(Top.dir)
        /\ abort_copy' \in IF abort_copy = 0 /\ Len(walk) > 1 THEN Triangle ELSE {abort_copy}
     \/ /\ DeleteMayFail
        /\ UNCHANGED << src, dest >>
        /\ abort_copy' = IF Len(walk) > 1 THEN 3 ELSE abort_copy
  /\ UNCHANGED << pc, deleting >>

\* The name of the destination is free again when the folder is gone; nothing is
\* done about a folder that stays.
DeleteEnd ==
  /\ pc = "delete" /\ walk = << >>
  /\ pc' = "batch"
  /\ home' = CASE caller = "folders" -> home
               [] caller = "game" /\ cur \notin made -> "none"
               [] caller = "game" /\ cur \in made -> "rest"
  /\ UNCHANGED << job, selected, to_abort, progress, src, walk, abort_copy, marked,
                  global_device_bytes, copy_is_split, queue, dest >>

Work ==
  \/ BatchEnd \/ MoveByRename \/ OverwriteDeclined \/ StartFolder
  \/ TestDir \/ TestFile \/ TestReturn \/ TestAgain \/ NoSpace \/ Space
  \/ CopyDir \/ CopyFlush \/ CopyFile \/ CopyReturn \/ CopyWalked \/ LastFlush
  \/ AfterCopy \/ AfterMove \/ AfterGame \/ AfterGameKept \/ AfterGameDeleted
  \/ DeleteFile \/ DeleteDir \/ DeleteReturn \/ DeleteEnd

Next == CopyFolders \/ CopyGame \/ Work

Spec == Init /\ [][Next]_vars

\* The main thread runs on; only the choice of the user may be awaited for ever.
FairSpec == Spec /\ WF_vars(Work)

-----------------------------------------------------------------------------
TypeOK ==
  /\ pc \in {"pane", "batch", "test", "copy", "flush", "after", "delete"}
  /\ caller \in {"folders", "game"} /\ do_move \in {0, 1} /\ same_dev \in BOOLEAN
  /\ selected \subseteq Root /\ cur \in Root
  /\ walk \in Seq([dir : Dir, left : SUBSET (Dir \cup File)])
  /\ to_abort \in {0, 1, 3}
  /\ abort_copy \in {0, 1, 2, 3, 7, 665, 666}
  /\ {global_device_bytes, copy_global_bytes} \subseteq Nat
  /\ {no_real_progress, copy_is_split} \subseteq {0, 1}
  /\ queue \in Seq(File) /\ Len(queue) <= MaxFastFiles
  /\ src \subseteq Dir \cup File /\ made \subseteq Dir
  /\ saved \subseteq File /\ partial \subseteq File
  /\ home \in {"none", "plain", "rest"} /\ marked \subseteq Root

\* A move never deletes a file whose bytes are not whole at the destination: not
\* after a failure deep in the tree, an abort, or a folder that came before.  The
\* "._" files, which the copy passes over on purpose, are left out.
MoveLosesNothing ==
  \A f \in File \ src : f \in saved \/ Kind[f] = "hidden"

\* A copy that ends well has copied exactly what was counted, unless the count
\* was known not to be complete.
ProgressReal ==
  pc = "after" /\ abort_copy = 0 /\ no_real_progress = 0 =>
    global_device_bytes = copy_global_bytes

\* When the copy of a game is over, a folder without an underscore holds the whole game, no file
\* of it in fragments, however the copy ended, unless the user began to delete it.  There is one
\* exception: the name with the underscore was taken by an earlier copy.
UnmarkedIsWhole ==
  pc = "batch" /\ home = "plain" =>
    \/ cur \in marked
    \/ \A f \in File \cap Tree[cur] : Kind[f] # "hidden" =>
         f \in saved /\ ~(CopyMode = 1 /\ Size[f] >= BigFile)

\* A folder that was chosen is done or given up in the end.
BatchEnds == pc = "batch" ~> pc = "pane"

=============================================================================
