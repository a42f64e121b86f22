--------------------------- MODULE GameCopy_proofs ---------------------------
(***************************************************************************)
(* Proofs about the copying and moving of folders, for every tree of       *)
(* directories and files: a move loses nothing, and a game that is not     *)
(* marked by an underscore is whole.                                       *)
(*                                                                         *)
(* The walk that copies visits a set of directories (CopyInv); where all   *)
(* of it was visited, the walk that deletes finds in these directories     *)
(* only what is at the destination (DeleteInv).  What a joined file needs  *)
(* is that its fragments are on the source together (Together).            *)
(***************************************************************************)
EXTENDS GameCopy, SequenceTheorems, TLAPS

\* Where the code does lose files is excluded by name.  Lone: no fragments are copied to an external
\* device, which takes only the first, and no first one is empty.  Certain: where fragments are
\* joined no deletion stops half way, as in the run gamecopy_retry.
Lone ==
  /\ CopyMode = 1 => \A f \in File : Kind[f] # "later"
  /\ \A f \in File : Kind[f] = "first" => Size[f] > 0
Certain == CopyMode = 1 \/ ~DeleteMayFail

Entry == [dir : Dir, left : SUBSET Node]
InFolder == pc \in {"test", "copy", "flush", "after", "delete"}

Shape ==
  /\ pc \in {"pane", "batch"} \/ InFolder
  /\ caller \in {"folders", "game"}
  /\ selected \subseteq Root /\ cur \in Root
  /\ walk \in Seq(Entry)
  /\ copy_is_split \in {0, 1}
  /\ queue \in Seq(File)
  /\ src \subseteq Node /\ made \subseteq Dir /\ saved \subseteq File /\ partial \subseteq File
  /\ home \in {"none", "plain", "rest"}

\* A game is copied while nothing was moved, one at a time; its folder is marked when it is over.
CallerInv ==
  /\ src # Node => made # {}
  /\ caller = "folders" => home = "none" /\ (InFolder => cur \in made)
  /\ caller = "game" =>
       /\ src = Node
       /\ InFolder => home = "plain" /\ selected = {}
       /\ selected = {} \/ (pc = "batch" /\ home = "none" /\ \E g \in Root : selected = {g})

\* The engine has files of the source.
QueueInv ==
  /\ pc \notin {"copy", "flush"} => queue = << >>
  /\ \A i \in 1 .. Len(queue) : queue[i] \in src /\ Kind[queue[i]] # "later"

\* The fragments of a file are on the source together, except in a directory that is being deleted.
Deleting == pc = "delete" /\ caller = "folders"
Together ==
  CopyMode = 0 /\ ~DeleteMayFail =>
    /\ \A f \in File : \A g \in Range(Pieces[f]) :
         (f \in src <=> g \in src) \/ (Deleting /\ \E i \in 1 .. Len(walk) : walk[i].dir = Parent[f])
    /\ Deleting => /\ abort_copy = 0
                   /\ \A i \in 1 .. Len(walk) :
                        /\ In(walk[i].dir) \cap src \cap File \subseteq walk[i].left
                        /\ walk[i].left \subseteq In(walk[i].dir)

-----------------------------------------------------------------------------
\* n is still to be visited by walk w.
Awaits(w, n) == \E i \in 1 .. Len(w) : w[i].dir = Parent[n] /\ n \in w[i].left

\* The directories of walk w are in E; what they still list is on the source.
DirsIn(w, E) == \A i \in 1 .. Len(w) : w[i].dir \in E
LeftOk(w) == \A i \in 1 .. Len(w) : w[i].left \subseteq In(w[i].dir) \cap src

Queued == UNION { Parts(f) : f \in Done(Len(queue)) }
Unsplit(f) == ~(CopyMode = 1 /\ Size[f] >= BigFile)
Kept(f) == Parts(f) \subseteq saved \cup Queued /\ (copy_is_split = 0 => Unsplit(f))

\* Of the directories E that were entered, n was visited.
Covered(E, n) == IF n \in Dir THEN n \in E ELSE Kind[n] \in {"hidden", "later"} \/ Kept(n)

Walked(E) ==
  /\ cur \in E
  /\ DirsIn(walk, E)
  /\ \A d \in E : \A n \in In(d) \cap src : Awaits(walk, n) \/ Covered(E, n)

Joins == caller = "game" \/ Certain

CopyInv ==
  /\ pc = "copy" => LeftOk(walk)
  /\ pc \in {"copy", "flush", "after"} /\ abort_copy = 0 /\ Joins =>
       (\E E \in SUBSET Dir : Walked(E)) /\ (pc # "copy" => walk = << >>)

\* Of the directories E that a deletion can reach, n is at the destination.
Safe(E, n) == IF n \in Dir THEN n \in E ELSE Kind[n] = "hidden" \/ n \in saved

SafeToDelete(E) ==
  /\ \A d \in E : \A n \in In(d) \cap src : Safe(E, n)
  /\ DirsIn(walk, E)
  /\ \A i \in 1 .. Len(walk) : \A n \in walk[i].left : Safe(E, n)

DeleteInv == Deleting /\ Certain => \E E \in SUBSET Dir : SafeToDelete(E)

\* What is not marked is whole when its copy is over, unless it could not be marked.
WholeInv ==
  pc = "batch" /\ home = "plain" =>
    \/ cur \in marked
    \/ \A f \in File \cap Tree[cur] : Kind[f] # "hidden" => f \in saved /\ Unsplit(f)

FolderInv ==
  /\ Shape /\ CallerInv /\ QueueInv /\ Together /\ CopyInv /\ DeleteInv /\ WholeInv
  /\ Certain => MoveLosesNothing

-----------------------------------------------------------------------------
(***************************************************************************)
(* Facts about the walk, the fragments and the tree.                       *)
(***************************************************************************)
LEMMA TopFact ==
  ASSUME walk \in Seq(Entry), walk # << >>
  PROVE  Len(walk) \in Nat \ {0} /\ Top = walk[Len(walk)] /\ Top \in Entry
BY DEF Top

LEMMA PoppedFact ==
  ASSUME walk \in Seq(Entry), walk # << >>
  PROVE  /\ Popped \in Seq(Entry) /\ Len(Popped) = Len(walk) - 1
         /\ \A i \in 1 .. Len(walk) - 1 : Popped[i] = walk[i]
<1> DEFINE n == Len(walk) - 1
           t == SubSeq(walk, 1, n)
<1>1. n \in Nat /\ 1 \in Int /\ n \in Int /\ \A i \in 1 .. n : walk[i] \in Entry
  OBVIOUS
<1> HIDE DEF n
<1>2. /\ t \in Seq(Entry)
      /\ Len(t) = IF 1 <= n THEN n - 1 + 1 ELSE 0
      /\ \A i \in 1 .. n - 1 + 1 : t[i] = walk[1 + i - 1]
  BY <1>1, SubSeqProperties
<1> HIDE DEF t
<1>3. Len(t) = n /\ \A i \in 1 .. n : t[i] = walk[i]
  BY <1>1, <1>2
<1> QED  BY <1>2, <1>3 DEF Popped, t, n

LEMMA VisitFact ==
  ASSUME walk \in Seq(Entry), walk # << >>, NEW n
  PROVE  /\ Visit(n) \in Seq(Entry) /\ Len(Visit(n)) = Len(walk)
         /\ \A i \in 1 .. Len(walk) - 1 : Visit(n)[i] = walk[i]
         /\ Visit(n)[Len(walk)] = [dir |-> Top.dir, left |-> Top.left \ {n}]
<1>1. Len(walk) \in Nat \ {0} /\ Top = walk[Len(walk)] /\ Top \in Entry
  BY TopFact
<1>2. [dir |-> Top.dir, left |-> Top.left \ {n}] \in Entry
  BY <1>1 DEF Entry
<1>3. [walk EXCEPT ![Len(walk)] = [dir |-> Top.dir, left |-> Top.left \ {n}]] \in Seq(Entry)
  BY <1>1, <1>2, ExceptSeq
<1>4. Len(Visit(n)) = Len(walk)
  BY <1>1, <1>2, <1>3, ExceptSeq DEF Visit
<1>5. \A i \in 1 .. Len(walk) - 1 : Visit(n)[i] = walk[i]
  BY <1>1 DEF Visit
<1>6. Visit(n)[Len(walk)] = [dir |-> Top.dir, left |-> Top.left \ {n}]
  <2>1. Len(walk) \in 1 .. Len(walk)
    BY <1>1
  <2>2. [walk EXCEPT ![Len(walk)] = [dir |-> Top.dir, left |-> Top.left \ {n}]][Len(walk)]
          = [dir |-> Top.dir, left |-> Top.left \ {n}]
    BY <1>2, <2>1, ExceptSeq
  <2> QED  BY <2>2 DEF Visit
<1> QED  BY <1>3, <1>4, <1>5, <1>6 DEF Visit

LEMMA PushFact ==
  ASSUME NEW w \in Seq(Entry), NEW e \in Entry
  PROVE  /\ Append(w, e) \in Seq(Entry) /\ Len(Append(w, e)) = Len(w) + 1
         /\ \A i \in 1 .. Len(w) : Append(w, e)[i] = w[i]
         /\ Append(w, e)[Len(w) + 1] = e
OBVIOUS

LEMMA OneEntry ==
  ASSUME NEW e \in Entry
  PROVE  << e >> \in Seq(Entry) /\ Len(<< e >>) = 1 /\ << e >>[1] = e
OBVIOUS

\* What is awaited stays awaited, but for what was visited.
LEMMA VisitAwaits ==
  ASSUME walk \in Seq(Entry), walk # << >>, NEW n, NEW m, Awaits(walk, m), m # n
  PROVE  Awaits(Visit(n), m)
<1>1. Len(walk) \in Nat \ {0} /\ Top = walk[Len(walk)]
  BY TopFact
<1>2. PICK i \in 1 .. Len(walk) : walk[i].dir = Parent[m] /\ m \in walk[i].left
  BY DEF Awaits
<1>3. CASE i = Len(walk)
  <2>1. Visit(n)[i] = [dir |-> Top.dir, left |-> Top.left \ {n}] /\ Len(Visit(n)) = Len(walk)
    BY <1>3, VisitFact
  <2>2. Visit(n)[i].dir = Parent[m] /\ m \in Visit(n)[i].left
    BY <1>1, <1>2, <1>3, <2>1
  <2> QED  BY <2>1, <2>2 DEF Awaits
<1>4. CASE i # Len(walk)
  <2>1. i \in 1 .. Len(walk) - 1
    BY <1>1, <1>4
  <2>2. Visit(n)[i] = walk[i] /\ Len(Visit(n)) = Len(walk)
    BY <2>1, VisitFact
  <2> QED  BY <1>2, <2>2 DEF Awaits
<1> QED  BY <1>3, <1>4

LEMMA PushAwaits ==
  ASSUME NEW w \in Seq(Entry), NEW e \in Entry, NEW m,
         Awaits(w, m) \/ (e.dir = Parent[m] /\ m \in e.left)
  PROVE  Awaits(Append(w, e), m)
<1>1. Len(w) \in Nat
  OBVIOUS
<1>2. CASE Awaits(w, m)
  <2>1. PICK i \in 1 .. Len(w) : w[i].dir = Parent[m] /\ m \in w[i].left
    BY <1>2 DEF Awaits
  <2>2. i \in 1 .. Len(Append(w, e)) /\ Append(w, e)[i] = w[i]
    BY <1>1, PushFact
  <2> QED  BY <2>1, <2>2 DEF Awaits
<1>3. CASE e.dir = Parent[m] /\ m \in e.left
  <2>1. Len(w) + 1 \in 1 .. Len(Append(w, e)) /\ Append(w, e)[Len(w) + 1] = e
    BY <1>1, PushFact
  <2> QED  BY <1>3, <2>1 DEF Awaits
<1> QED  BY <1>2, <1>3

LEMMA PoppedAwaits ==
  ASSUME walk \in Seq(Entry), walk # << >>, NEW m, Awaits(walk, m)
  PROVE  Awaits(Popped, m) \/ (m \in Top.left /\ Top.dir = Parent[m])
<1>1. Len(walk) \in Nat \ {0} /\ Top = walk[Len(walk)]
  BY TopFact
<1>2. PICK i \in 1 .. Len(walk) : walk[i].dir = Parent[m] /\ m \in walk[i].left
  BY DEF Awaits
<1>3. CASE i # Len(walk)
  <2>1. i \in 1 .. Len(Popped) /\ Popped[i] = walk[i]
    BY <1>1, <1>3, PoppedFact
  <2> QED  BY <1>2, <2>1 DEF Awaits
<1> QED  BY <1>1, <1>2, <1>3

\* A fragment lies beside the first one.
LEMMA PieceFact ==
  ASSUME NEW f \in File, NEW g \in Range(Pieces[f])
  PROVE  g \in File /\ Kind[g] = "later" /\ Kind[f] = "first" /\ Parent[g] = Parent[f]
<1>1. Pieces[f] \in Seq({ h \in File : Kind[h] = "later" }) /\ (Kind[f] # "first" => Pieces[f] = << >>)
  BY TreeAssumption DEF TreeAssumption
<1>2. PICK i \in DOMAIN Pieces[f] : g = Pieces[f][i]
  BY DEF Range
<1>3. g \in { h \in File : Kind[h] = "later" } /\ Pieces[f] # << >>
  BY <1>1, <1>2
<1>4. Parent[g] = Parent[f]
  BY TreeAssumption DEF TreeAssumption
<1> QED  BY <1>1, <1>3, <1>4

LEMMA Places ==
  /\ Root \subseteq Dir /\ Dir \subseteq Node /\ File \subseteq Node
  /\ CopyMode \in {0, 1}
  /\ \A d : In(d) \subseteq Node
BY TreeAssumption DEF TreeAssumption, Node, In

LEMMA FileIsInside ==
  ASSUME NEW f \in File
  PROVE  f \notin Dir /\ f \notin Root /\ f \in Node /\ Parent[f] \in Dir
BY TreeAssumption DEF TreeAssumption, Node

\* A file is in a tree with its directory.
LEMMA TreeOfFile ==
  ASSUME NEW r \in Root, NEW f \in File
  PROVE  f \in Tree[r] <=> Parent[f] \in Tree[r]
<1>1. /\ r \in Tree[r] /\ Tree[r] \subseteq Node /\ ClosedTree(Tree[r])
      /\ \A S \in SUBSET Node : r \in S /\ ClosedTree(S) => Tree[r] \subseteq S
  BY TreeAssumption DEF TreeAssumption
<1>2. ASSUME f \in Tree[r], Parent[f] \notin Tree[r]
      PROVE  FALSE
  <2>1. Tree[r] \ {f} \in SUBSET Node /\ r \in Tree[r] \ {f}
    BY <1>1, FileIsInside
  <2>2. ClosedTree(Tree[r] \ {f})
    BY <1>1, <1>2 DEF ClosedTree
  <2> QED  BY <1>1, <1>2, <2>1, <2>2
<1>3. Parent[f] \in Tree[r] => f \in Tree[r]
  BY <1>1, FileIsInside DEF ClosedTree
<1> QED  BY <1>2, <1>3

\* A joined file is saved with all its fragments when they are there.
LEMMA PartsFact ==
  ASSUME NEW f \in File
  PROVE  /\ f \in Parts(f) /\ Parts(f) \subseteq File
         /\ Saves(f) \subseteq Parts(f)
         /\ Parts(f) \subseteq src => Saves(f) = Parts(f)
<1>1. f \in Parts(f)
  BY DEF Parts
<1>2. Parts(f) \subseteq File
  BY PieceFact DEF Parts
<1>3. Saves(f) \subseteq Parts(f)
  BY <1>1 DEF Saves
<1>4. ASSUME Parts(f) \subseteq src, NEW g \in Parts(f)
      PROVE  g \in Saves(f)
  <2>1. CASE g = f
    BY <2>1 DEF Saves
  <2>2. CASE g # f
    <3>1. Range(Pieces[f]) \subseteq Parts(f) /\ g \in Range(Pieces[f])
      BY <1>4, <2>2 DEF Parts
    <3>2. PICK i \in DOMAIN Pieces[f] : g = Pieces[f][i]
      BY <3>1 DEF Range
    <3>3. Pieces[f] \in Seq({ h \in File : Kind[h] = "later" })
      BY TreeAssumption DEF TreeAssumption
    <3>4. ASSUME NEW j \in 1 .. i
          PROVE  Pieces[f][j] \in src
      <4>1. j \in DOMAIN Pieces[f]
        BY <3>2, <3>3
      <4>2. Pieces[f][j] \in Range(Pieces[f])
        BY <4>1 DEF Range
      <4> QED  BY <1>4, <3>1, <4>2
    <3> QED  BY <1>4, <3>2, <3>4 DEF Saves
  <2> QED  BY <2>1, <2>2
<1> QED  BY <1>1, <1>2, <1>3, <1>4

\* Outside a deletion a file of the source has its fragments there.
LEMMA StillThere ==
  ASSUME FolderInv, Joins, pc # "delete", NEW f \in File, f \in src
  PROVE  Parts(f) \subseteq src
<1>1. CASE CopyMode = 1
  BY <1>1 DEF Parts
<1>2. CASE CopyMode = 0
  <2>1. CASE caller = "game"
    BY <2>1, PartsFact DEF FolderInv, CallerInv, Node
  <2>2. CASE Certain
    BY <1>2, <2>2 DEF FolderInv, Together, Deleting, Certain, Parts
  <2> QED  BY <2>1, <2>2 DEF Joins
<1> QED  BY <1>1, <1>2, TreeAssumption DEF TreeAssumption

LEMMA QueueFact ==
  ASSUME FolderInv
  PROVE  /\ \A n \in 0 .. Len(queue) : Done(n) \subseteq src \cap File
         /\ Len(queue) \in Nat /\ \A i \in 1 .. Len(queue) : queue[i] \in src \cap File
<1>1. queue \in Seq(File) /\ Len(queue) \in Nat /\ \A i \in 1 .. Len(queue) : queue[i] \in src
  <2>1. queue \in Seq(File)
    BY DEF FolderInv, Shape
  <2>2. \A i \in 1 .. Len(queue) : queue[i] \in src
    BY DEF FolderInv, QueueInv
  <2> QED  BY <2>1, <2>2
<1>2. \A i \in 1 .. Len(queue) : queue[i] \in src \cap File
  BY <1>1
<1>3. ASSUME NEW n \in 0 .. Len(queue)
      PROVE  Done(n) \subseteq src \cap File
  <2>1. \A i \in 1 .. n : i \in 1 .. Len(queue)
    BY <1>1
  <2> QED  BY <1>2, <2>1 DEF Done
<1> QED  BY <1>1, <1>2, <1>3

\* Whatever a step of the engine overwrites is still on the source.
LEMMA ProcessFact ==
  ASSUME FolderInv, pc # "delete", NEW failed \in BOOLEAN, Process(failed), src' = src
  PROVE  /\ queue' = << >> /\ saved' \subseteq File /\ partial' \subseteq File
         /\ Certain => MoveLosesNothing'
<1>1. PICK n \in 0 .. Len(queue) :
        /\ \/ (failed \/ n = Len(queue)) /\ Writes(Done(n), {})
           \/ failed /\ n < Len(queue) /\ Writes(Done(n), {queue[n + 1]})
        /\ queue' = << >>
  BY DEF Process
<1>2. PICK begun \in SUBSET (src \cap File) : Writes(Done(n), begun)
  <2>1. CASE Writes(Done(n), {})
    BY <2>1
  <2>2. CASE n < Len(queue) /\ Writes(Done(n), {queue[n + 1]})
    <3>1. n + 1 \in 1 .. Len(queue)
      BY <2>2, QueueFact
    <3> QED  BY <2>2, <3>1, QueueFact
  <2> QED  BY <1>1, <2>1, <2>2
<1>3. Done(n) \subseteq src \cap File
  BY QueueFact
<1>4. saved' \subseteq File
  BY <1>2, <1>3, PartsFact DEF Writes, FolderInv, Shape
<1>5. partial' \subseteq File
  BY <1>2, <1>3 DEF Writes, FolderInv, Shape
<1>6. ASSUME Certain
      PROVE  MoveLosesNothing'
  <2>1. \A f \in Done(n) \cup begun : Parts(f) \subseteq src
    BY <1>2, <1>3, <1>6, StillThere DEF Joins
  <2>2. \A f \in File \ src : f \in saved => f \in saved'
    BY <1>2, <2>1 DEF Writes
  <2> QED  BY <1>6, <2>2 DEF FolderInv, MoveLosesNothing
<1> QED  BY <1>1, <1>4, <1>5, <1>6

\* When it does not fail it saves all that is queued.
LEMMA ProcessAll ==
  ASSUME FolderInv, pc # "delete", Joins, Process(FALSE)
  PROVE  saved' = saved \cup Queued
<1>1. Writes(Done(Len(queue)), {})
  BY DEF Process
<1>2. Len(queue) \in 0 .. Len(queue)
  BY QueueFact
<1>3. \A f \in Done(Len(queue)) : f \in File /\ f \in src
  BY <1>2, QueueFact
<1>4. \A f \in Done(Len(queue)) : Saves(f) = Parts(f)
  BY <1>3, StillThere, PartsFact
<1>5. saved' = (saved \ Queued) \cup UNION { Saves(f) : f \in Done(Len(queue)) }
  BY <1>1 DEF Writes, Queued
<1>6. UNION { Saves(f) : f \in Done(Len(queue)) } = Queued
  BY <1>4 DEF Queued
<1> QED  BY <1>5, <1>6

-----------------------------------------------------------------------------
(***************************************************************************)
(* Steps that leave source, destination and queue alone.                   *)
(***************************************************************************)
LEMMA AwayStep ==
  ASSUME FolderInv, pc \notin {"copy", "flush", "delete"},
         pc' \notin {"copy", "flush", "delete"}, pc' = "after" => abort_copy' # 0,
         UNCHANGED << src, saved, queue >>
  PROVE  QueueInv' /\ Together' /\ CopyInv' /\ DeleteInv' /\ (Certain => MoveLosesNothing')
<1>1. QueueInv'
  BY DEF FolderInv, QueueInv
<1>2. Together'
  BY DEF FolderInv, Together, Deleting
<1>3. CopyInv'
  BY DEF CopyInv
<1>4. DeleteInv'
  BY DEF DeleteInv, Deleting
<1>5. Certain => MoveLosesNothing'
  BY DEF FolderInv, MoveLosesNothing
<1> QED  BY <1>1, <1>2, <1>3, <1>4, <1>5

LEMMA PaneSteps ==
  ASSUME FolderInv, CopyFolders \/ CopyGame \/ BatchEnd \/ OverwriteDeclined \/ StartFolder
  PROVE  FolderInv'
<1>1. /\ pc \in {"pane", "batch"} /\ pc' \in {"pane", "batch", "test"}
      /\ UNCHANGED << src, saved, queue, partial >>
  BY DEF CopyFolders, CopyGame, BatchEnd, OverwriteDeclined, StartFolder, dest, job
<1>2. QueueInv' /\ Together' /\ CopyInv' /\ DeleteInv' /\ (Certain => MoveLosesNothing')
  BY <1>1, AwayStep
<1>3. CASE CopyFolders
  <2>1. Shape'
    BY <1>1, <1>3 DEF FolderInv, Shape, InFolder, CopyFolders, dest, progress, names
  <2>2. CallerInv' /\ WholeInv'
    BY <1>1, <1>3 DEF FolderInv, CallerInv, WholeInv, InFolder, CopyFolders, dest, progress, names
  <2> QED  BY <1>2, <2>1, <2>2 DEF FolderInv
<1>4. CASE CopyGame
  <2>1. Shape'
    BY <1>1, <1>4 DEF FolderInv, Shape, InFolder, CopyGame, dest, progress, names
  <2>2. CallerInv' /\ WholeInv'
    BY <1>1, <1>4 DEF FolderInv, CallerInv, WholeInv, InFolder, CopyGame, dest, progress, names
  <2> QED  BY <1>2, <2>1, <2>2 DEF FolderInv
<1>5. CASE BatchEnd
  <2>1. Shape'
    BY <1>1, <1>5 DEF FolderInv, Shape, InFolder, BatchEnd, dest, progress, job, names
  <2>2. CallerInv' /\ WholeInv'
    BY <1>1, <1>5 DEF FolderInv, CallerInv, WholeInv, Unsplit, InFolder, BatchEnd, dest, progress, job, names
  <2> QED  BY <1>2, <2>1, <2>2 DEF FolderInv
<1>6. CASE OverwriteDeclined
  <2>1. Shape'
    BY <1>1, <1>6 DEF FolderInv, Shape, InFolder, OverwriteDeclined, dest, progress, job, names
  <2>2. CallerInv' /\ WholeInv'
    BY <1>1, <1>6 DEF FolderInv, CallerInv, WholeInv, Unsplit, InFolder, OverwriteDeclined, dest, progress, job, names
  <2> QED  BY <1>2, <2>1, <2>2 DEF FolderInv
<1>7. CASE StartFolder
  <2>1. walk' \in Seq(Entry)
    <3>1. Enter(cur') \in Entry
      BY <1>7, Places DEF FolderInv, Shape, StartFolder, Enter, Entry
    <3> QED  BY <1>7, <3>1, OneEntry DEF StartFolder
  <2>2. made' \subseteq Dir /\ cur' \in made' /\ selected' \subseteq Root /\ cur' \in Root
    BY <1>7, Places DEF FolderInv, Shape, StartFolder
  <2>3. Shape'
    BY <1>1, <1>7, <2>1, <2>2 DEF FolderInv, Shape, InFolder, StartFolder, progress
  <2>4. caller' = caller /\ pc = "batch" /\ pc' = "test" /\ made' # {} /\ cur' \in selected
        /\ home' = (IF caller = "game" THEN "plain" ELSE home) /\ selected' = selected \ {cur'}
    BY <1>7, <2>2 DEF StartFolder
  <2>5. CallerInv'
    BY <1>1, <2>2, <2>4 DEF FolderInv, CallerInv, InFolder, Shape
  <2>6. WholeInv'
    BY <2>4 DEF WholeInv
  <2> QED  BY <1>2, <2>3, <2>5, <2>6 DEF FolderInv
<1> QED  BY <1>3, <1>4, <1>5, <1>6, <1>7

LEMMA RenameStep ==
  ASSUME FolderInv, MoveByRename
  PROVE  FolderInv'
<1> DEFINE moved == src \cap Tree[cur']
<1>1. /\ pc = "batch" /\ pc' = "batch" /\ caller = "folders" /\ caller' = "folders"
      /\ home = "none" /\ home' = "none" /\ queue = << >> /\ queue' = << >>
      /\ cur' \in Root /\ selected' \subseteq Root /\ walk' = walk
      /\ copy_is_split' = copy_is_split /\ partial' = partial
  <2>1. pc = "batch" /\ caller = "folders" /\ cur' \in selected /\ selected' = selected \ {cur'}
    BY DEF MoveByRename, ByRename
  <2>2. home = "none" /\ queue = << >> /\ selected \subseteq Root
    BY <2>1 DEF FolderInv, CallerInv, QueueInv, Shape
  <2> QED  BY <2>1, <2>2 DEF MoveByRename, names
<1>2. \/ src' = src \ moved /\ saved' = saved \cup (moved \cap File) /\ made' = made \cup (moved \cap Dir)
      \/ UNCHANGED << src, saved, made >>
  BY DEF MoveByRename
<1>3. Shape'
  BY <1>1, <1>2 DEF FolderInv, Shape, InFolder
<1>4. WholeInv' /\ CopyInv' /\ DeleteInv'
  BY <1>1 DEF WholeInv, CopyInv, DeleteInv, Deleting
<1>5. QueueInv'
  BY <1>1 DEF QueueInv
<1>6. CASE UNCHANGED << src, saved, made >>
  <2>1. Together' /\ (Certain => MoveLosesNothing')
    BY <1>1, <1>6, AwayStep
  <2>2. CallerInv'
    BY <1>1, <1>6 DEF FolderInv, CallerInv, InFolder
  <2> QED  BY <1>3, <1>4, <1>5, <2>1, <2>2 DEF FolderInv
<1>7. CASE src' = src \ moved /\ saved' = saved \cup (moved \cap File)
             /\ made' = made \cup (moved \cap Dir)
  <2>1. CallerInv'
    <3>1. made' # {}
      <4>1. CASE src = Node
        <5>1. cur' \in moved \cap Dir
          BY <1>1, <4>1, Places, TreeAssumption DEF TreeAssumption
        <5> QED  BY <1>7, <5>1
      <4>2. CASE src # Node
        BY <1>7, <4>2 DEF FolderInv, CallerInv
      <4> QED  BY <4>1, <4>2
    <3> QED  BY <1>1, <3>1 DEF CallerInv, InFolder
  <2>2. Together'
    <3>1. SUFFICES ASSUME CopyMode = 0, ~DeleteMayFail, NEW f \in File, NEW g \in Range(Pieces[f])
                   PROVE  f \in src' <=> g \in src'
      BY <1>1 DEF Together, Deleting
    <3>2. f \in src <=> g \in src
      BY <1>1, <3>1 DEF FolderInv, Together, Deleting
    <3>3. f \in Tree[cur'] <=> g \in Tree[cur']
      BY <1>1, PieceFact, TreeOfFile
    <3> QED  BY <1>7, <3>2, <3>3
  <2>3. Certain => MoveLosesNothing'
    BY <1>7 DEF FolderInv, MoveLosesNothing
  <2> QED  BY <1>3, <1>4, <1>5, <2>1, <2>2, <2>3 DEF FolderInv
<1> QED  BY <1>2, <1>6, <1>7

-----------------------------------------------------------------------------
(***************************************************************************)
(* Walks                                                                   *)
(***************************************************************************)
LEMMA EnterFact ==
  ASSUME NEW d \in Dir
  PROVE  Enter(d) \in Entry /\ Enter(d).dir = d /\ Enter(d).left = In(d) \cap src
BY Places DEF Enter, Entry

LEMMA ThereFact ==
  ASSUME NEW d \in Dir
  PROVE  /\ There(d) \subseteq In(d)
         /\ caller = "folders" => There(d) = In(d) \cap src
         /\ [dir |-> d, left |-> There(d)] \in Entry /\ [dir |-> d, left |-> {}] \in Entry
<1>1. There(d) \subseteq In(d) /\ (caller = "folders" => There(d) = In(d) \cap src)
  BY DEF There
<1> QED  BY <1>1, Places DEF Entry

LEMMA InFact ==
  ASSUME NEW d, NEW n \in In(d)
  PROVE  Parent[n] = d /\ n \in Node
BY DEF In

\* A step of a walk keeps what is said of all its directories.
LEMMA VisitKeeps ==
  ASSUME walk \in Seq(Entry), walk # << >>, NEW n
  PROVE  /\ LeftOk(walk) => LeftOk(Visit(n))
         /\ \A E : DirsIn(walk, E) => DirsIn(Visit(n), E)
         /\ \A i \in 1 .. Len(walk) : /\ Visit(n)[i].dir = walk[i].dir
                                      /\ Visit(n)[i].left \subseteq walk[i].left
<1>1. Len(walk) \in Nat \ {0} /\ Top = walk[Len(walk)] /\ Top \in Entry
  BY TopFact
<1>2. ASSUME NEW i \in 1 .. Len(walk)
      PROVE  Visit(n)[i].dir = walk[i].dir /\ Visit(n)[i].left \subseteq walk[i].left
  <2>1. CASE i = Len(walk)
    <3>1. Visit(n)[i] = [dir |-> Top.dir, left |-> Top.left \ {n}]
      BY <2>1, VisitFact
    <3> QED  BY <1>1, <2>1, <3>1
  <2>2. CASE i # Len(walk)
    <3>1. i \in 1 .. Len(walk) - 1
      BY <1>1, <2>2
    <3> QED  BY <3>1, VisitFact
  <2> QED  BY <2>1, <2>2
<1>3. Len(Visit(n)) = Len(walk)
  BY VisitFact
<1> QED  BY <1>2, <1>3 DEF LeftOk, DirsIn

LEMMA PoppedKeeps ==
  ASSUME walk \in Seq(Entry), walk # << >>
  PROVE  /\ LeftOk(walk) => LeftOk(Popped)
         /\ \A E : DirsIn(walk, E) => DirsIn(Popped, E)
         /\ \A i \in 1 .. Len(Popped) : i \in 1 .. Len(walk) /\ Popped[i] = walk[i]
<1>1. Len(walk) \in Nat \ {0} /\ Len(Popped) = Len(walk) - 1
  BY TopFact, PoppedFact
<1>2. \A i \in 1 .. Len(Popped) : i \in 1 .. Len(walk) /\ Popped[i] = walk[i]
  BY <1>1, PoppedFact
<1> QED  BY <1>2 DEF LeftOk, DirsIn

LEMMA PushKeeps ==
  ASSUME NEW w \in Seq(Entry), NEW e \in Entry
  PROVE  /\ LeftOk(w) /\ e.left \subseteq In(e.dir) \cap src => LeftOk(Append(w, e))
         /\ \A E : DirsIn(w, E) /\ e.dir \in E => DirsIn(Append(w, e), E)
         /\ \A i \in 1 .. Len(Append(w, e)) :
              (i \in 1 .. Len(w) /\ Append(w, e)[i] = w[i]) \/ (i = Len(w) + 1 /\ Append(w, e)[i] = e)
<1>1. Len(w) \in Nat
  OBVIOUS
<1>2. \A i \in 1 .. Len(Append(w, e)) :
        (i \in 1 .. Len(w) /\ Append(w, e)[i] = w[i]) \/ (i = Len(w) + 1 /\ Append(w, e)[i] = e)
  BY <1>1, PushFact
<1> QED  BY <1>2 DEF LeftOk, DirsIn

LEMMA StartKeeps ==
  ASSUME NEW e \in Entry
  PROVE  /\ << e >> \in Seq(Entry)
         /\ e.left \subseteq In(e.dir) \cap src => LeftOk(<< e >>)
         /\ \A E : e.dir \in E => DirsIn(<< e >>, E)
         /\ \A i \in 1 .. Len(<< e >>) : << e >>[i] = e
         /\ \A n : e.dir = Parent[n] /\ n \in e.left => Awaits(<< e >>, n)
<1>1. << e >> \in Seq(Entry) /\ Len(<< e >>) = 1 /\ << e >>[1] = e
  BY OneEntry
<1>2. \A i \in 1 .. Len(<< e >>) : << e >>[i] = e
  BY <1>1
<1>3. 1 \in 1 .. Len(<< e >>)
  BY <1>1
<1> QED  BY <1>1, <1>2, <1>3 DEF LeftOk, DirsIn, Awaits

-----------------------------------------------------------------------------
(***************************************************************************)
(* my_game_test                                                            *)
(***************************************************************************)
\* A step that only counts.
LEMMA CountStep ==
  ASSUME FolderInv, pc = "test", pc' \in {"test", "after"}, pc' = "after" => abort_copy' # 0,
         walk' \in Seq(Entry), UNCHANGED testing
  PROVE  FolderInv'
<1>1. QueueInv' /\ Together' /\ CopyInv' /\ DeleteInv' /\ (Certain => MoveLosesNothing')
  BY AwayStep DEF testing, dest
<1>2. Shape'
  BY DEF FolderInv, Shape, InFolder, testing, dest, job, names
<1>3. CallerInv'
  BY DEF FolderInv, CallerInv, InFolder, testing, dest, job, names
<1>4. WholeInv'
  BY DEF WholeInv
<1> QED  BY <1>1, <1>2, <1>3, <1>4 DEF FolderInv

LEMMA TestSteps ==
  ASSUME FolderInv, TestDir \/ TestFile \/ TestReturn \/ TestAgain \/ NoSpace
  PROVE  FolderInv'
<1>1. walk \in Seq(Entry) /\ cur \in Dir
  BY Places DEF FolderInv, Shape
<1>2. CASE TestDir
  <2>1. PICK d \in Top.left \cap Dir : walk' = Append(Visit(d), Enter(d)) \/ walk' = Visit(d)
    BY <1>2 DEF TestDir
  <2>2. Visit(d) \in Seq(Entry) /\ Enter(d) \in Entry
    BY <1>1, <1>2, VisitFact, EnterFact DEF TestDir
  <2>3. walk' \in Seq(Entry)
    BY <2>1, <2>2, PushFact
  <2> QED  BY <1>2, <2>3, CountStep DEF TestDir
<1>3. CASE TestFile
  <2>1. walk' \in Seq(Entry)
    BY <1>1, <1>3, VisitFact DEF TestFile
  <2> QED  BY <1>3, <2>1, CountStep DEF TestFile
<1>4. CASE TestReturn
  <2>1. walk' \in Seq(Entry)
    BY <1>1, <1>4, PoppedFact DEF TestReturn
  <2> QED  BY <1>4, <2>1, CountStep DEF TestReturn
<1>5. CASE TestAgain
  <2>1. walk' \in Seq(Entry)
    BY <1>1, <1>5, EnterFact, StartKeeps DEF TestAgain
  <2> QED  BY <1>5, <2>1, CountStep DEF TestAgain
<1>6. CASE NoSpace
  <2>1. walk' \in Seq(Entry)
    BY <1>1, <1>6 DEF NoSpace
  <2> QED  BY <1>6, <2>1, CountStep DEF NoSpace, Counted
<1> QED  BY <1>2, <1>3, <1>4, <1>5, <1>6

LEMMA SpaceStep ==
  ASSUME FolderInv, Space
  PROVE  FolderInv'
<1>1. /\ pc = "test" /\ walk = << >> /\ walk \in Seq(Entry) /\ cur \in Dir /\ queue = << >>
      /\ UNCHANGED << caller, do_move, same_dev, cur, selected, to_abort, copy_is_split, queue,
                      src, made, saved, partial, home >>
  BY Places DEF FolderInv, Shape, QueueInv, Space, Counted, job, dest, names
<1>2. CASE abort_copy' = 665 /\ pc' = "after" /\ UNCHANGED walk
  <2>1. walk' \in Seq(Entry)
    BY <1>1, <1>2
  <2>2. UNCHANGED << src, saved, queue >> /\ pc \notin {"copy", "flush", "delete"}
        /\ pc' \notin {"copy", "flush", "delete"} /\ abort_copy' # 0
    BY <1>1, <1>2
  <2>3. QueueInv' /\ Together' /\ CopyInv' /\ DeleteInv' /\ (Certain => MoveLosesNothing')
    BY <2>2, AwayStep
  <2>4. Shape'
    BY <1>1, <1>2, <2>1 DEF FolderInv, Shape, InFolder
  <2>5. CallerInv'
    BY <1>1, <1>2 DEF FolderInv, CallerInv, InFolder
  <2>6. WholeInv'
    BY <1>2 DEF WholeInv
  <2> QED  BY <2>3, <2>4, <2>5, <2>6 DEF FolderInv
<1>3. CASE /\ pc' \in {"copy", "flush"}
           /\ \/ abort_copy' = 0 /\ pc' = "copy" /\ walk' = << Enter(cur) >>
              \/ abort_copy' = 7 /\ pc' = "flush" /\ UNCHANGED walk
  <2>1. walk' \in Seq(Entry)
    BY <1>1, <1>3, EnterFact, StartKeeps
  <2>2. Shape'
    BY <1>1, <1>3, <2>1 DEF FolderInv, Shape, InFolder
  <2>3. CallerInv'
    BY <1>1, <1>3 DEF FolderInv, CallerInv, InFolder
  <2>4. QueueInv'
    BY <1>1, <1>3 DEF QueueInv
  <2>5. Together' /\ DeleteInv'
    BY <1>1, <1>3 DEF FolderInv, Together, DeleteInv, Deleting
  <2>6. WholeInv'
    BY <1>3 DEF WholeInv
  <2>7. Certain => MoveLosesNothing'
    BY <1>1 DEF FolderInv, MoveLosesNothing
  <2>8. CopyInv'
    <3>1. CASE abort_copy' = 7 /\ pc' = "flush"
      BY <3>1 DEF CopyInv
    <3>2. CASE abort_copy' = 0 /\ pc' = "copy" /\ walk' = << Enter(cur) >>
      <4>1. Enter(cur) \in Entry /\ Enter(cur).dir = cur /\ Enter(cur).left = In(cur) \cap src
        BY <1>1, EnterFact
      <4>2. LeftOk(<< Enter(cur) >>) /\ DirsIn(<< Enter(cur) >>, {cur})
            /\ \A n : cur = Parent[n] /\ n \in In(cur) \cap src => Awaits(<< Enter(cur) >>, n)
        BY <4>1, StartKeeps
      <4>3. LeftOk(<< Enter(cur) >>)'
        BY <1>1, <4>2 DEF LeftOk, Enter
      <4>4. PICK E \in SUBSET Dir : E = {cur}
        BY <1>1
      <4>5. Walked(E)'
        <5>1. \A n \in In(cur) \cap src : Awaits(<< Enter(cur) >>, n)
          BY <4>2, InFact
        <5>2. DirsIn(walk, E)'
          BY <3>2, <4>2, <4>4 DEF DirsIn
        <5>3. \A n \in In(cur) \cap src : Awaits(walk, n)'
          BY <3>2, <5>1 DEF Awaits
        <5> QED  BY <1>1, <4>4, <5>2, <5>3 DEF Walked
      <4>6. (\E D \in SUBSET Dir : Walked(D))'
        BY <4>5
      <4>7. LeftOk(walk)'
        BY <1>1, <3>2, <4>2 DEF LeftOk
      <4> QED  BY <3>2, <4>6, <4>7 DEF CopyInv
    <3> QED  BY <1>3, <3>1, <3>2
  <2> QED  BY <2>2, <2>3, <2>4, <2>5, <2>6, <2>7, <2>8 DEF FolderInv
<1> QED  BY <1>2, <1>3 DEF Space

-----------------------------------------------------------------------------
(***************************************************************************)
(* _my_game_copy                                                           *)
(***************************************************************************)
\* What a copying step leaves alone.
LEMMA CopyFrame ==
  ASSUME FolderInv, pc \in {"copy", "flush"}, pc' \in {"copy", "flush", "after"},
         UNCHANGED copying, made \subseteq made'
  PROVE  CallerInv' /\ Together' /\ DeleteInv' /\ WholeInv'
<1>1. CallerInv'
  BY DEF FolderInv, CallerInv, InFolder, copying, job, names
<1>2. Together' /\ DeleteInv'
  BY DEF FolderInv, Together, DeleteInv, Deleting, copying
<1>3. WholeInv'
  BY DEF WholeInv
<1> QED  BY <1>1, <1>2, <1>3

LEMMA CopyShape ==
  ASSUME FolderInv, pc' \in {"copy", "flush", "after"}, UNCHANGED copying,
         made' \subseteq Dir, saved' \subseteq File, partial' \subseteq File,
         walk' \in Seq(Entry), queue' \in Seq(File), copy_is_split' \in {0, 1}
  PROVE  Shape'
BY DEF FolderInv, Shape, InFolder, copying, job, names

\* What is not overwritten is not lost.
LEMMA SavedKept ==
  ASSUME FolderInv, src' = src, saved \subseteq saved'
  PROVE  Certain => MoveLosesNothing'
BY DEF FolderInv, MoveLosesNothing

LEMMA QueuedAppend ==
  ASSUME queue \in Seq(File), NEW f \in File, queue' = Append(queue, f)
  PROVE  Queued' = Queued \cup Parts(f)
<1>1. /\ Len(queue) \in Nat /\ Len(queue') = Len(queue) + 1
      /\ \A i \in 1 .. Len(queue) : queue'[i] = queue[i]
      /\ queue'[Len(queue) + 1] = f
  OBVIOUS
<1>2. Done(Len(queue))' = Done(Len(queue)) \cup {f}
  <2>1. Done(Len(queue))' = { queue'[i] : i \in 1 .. Len(queue) + 1 }
    BY <1>1 DEF Done
  <2> QED  BY <1>1, <2>1 DEF Done
<1> QED  BY <1>2 DEF Queued

LEMMA QueuedEmpty ==
  ASSUME queue' = << >>
  PROVE  Queued' = {}
BY DEF Queued, Done

\* What was visited stays visited.
LEMMA CoverKeeps ==
  ASSUME NEW E, NEW F, E \subseteq F, NEW n, Covered(E, n),
         saved \cup Queued \subseteq saved' \cup Queued',
         copy_is_split' = 0 => copy_is_split = 0
  PROVE  Covered(F, n)'
<1>1. Kept(n) => Kept(n)'
  BY DEF Kept, Unsplit, Parts
<1> QED  BY <1>1 DEF Covered

LEMMA WalkedKeeps ==
  ASSUME NEW E, NEW F, E \subseteq F, Walked(E), UNCHANGED << cur, src >>,
         saved \cup Queued \subseteq saved' \cup Queued',
         copy_is_split' = 0 => copy_is_split = 0,
         DirsIn(walk', F),
         \A d \in F \ E : \A n \in In(d) \cap src : Awaits(walk', n),
         \A n \in src : Awaits(walk, n) => Awaits(walk', n) \/ Covered(F, n)'
  PROVE  Walked(F)'
<1>1. ASSUME NEW d \in F, NEW n \in In(d) \cap src
      PROVE  Awaits(walk', n) \/ Covered(F, n)'
  <2>1. CASE d \notin E
    BY <2>1
  <2>2. CASE d \in E
    <3>1. Awaits(walk, n) \/ Covered(E, n)
      BY <2>2 DEF Walked
    <3> QED  BY <3>1, CoverKeeps
  <2> QED  BY <2>1, <2>2
<1>2. cur' \in F /\ src' = src
  BY DEF Walked
<1>3. DirsIn(walk, F)'
  BY DEF DirsIn
<1>4. \A n : Awaits(walk', n) => Awaits(walk, n)'
  BY DEF Awaits
<1> QED  BY <1>1, <1>2, <1>3, <1>4 DEF Walked, In

\* Where nothing was given up, the directories of the walk are known.
LEMMA CopyInvFrom ==
  ASSUME pc' = "copy" => LeftOk(walk)',
         abort_copy' = 0 /\ Joins' => \E E \in SUBSET Dir : Walked(E)',
         abort_copy' = 0 /\ Joins' /\ pc' # "copy" => walk' = << >>
  PROVE  CopyInv'
<1>1. (\E E \in SUBSET Dir : Walked(E)') => (\E E \in SUBSET Dir : Walked(E))'
  OBVIOUS
<1> QED  BY <1>1 DEF CopyInv

LEMMA CopyDirStep ==
  ASSUME FolderInv, CopyDir
  PROVE  FolderInv'
<1>1. /\ pc = "copy" /\ pc' = "copy" /\ walk # << >> /\ abort_copy = 0 /\ UNCHANGED copying
      /\ UNCHANGED << copy_is_split, queue, saved, partial, src, cur, caller >>
  BY DEF CopyDir, copying, job
<1>2. /\ walk \in Seq(Entry) /\ made \subseteq Dir /\ saved \subseteq File
      /\ partial \subseteq File /\ queue \in Seq(File) /\ copy_is_split \in {0, 1}
      /\ LeftOk(walk) /\ src \subseteq Node
  BY <1>1 DEF FolderInv, Shape, CopyInv
<1>3. PICK d \in Top.left \cap Dir :
        \/ walk' = Append(Visit(d), Enter(d)) /\ made' = made \cup {d} /\ abort_copy' = abort_copy
        \/ walk' = Visit(d) /\ made' = made \cup {d} /\ abort_copy' = 7
        \/ walk' = Popped /\ abort_copy' = 2 /\ made' = made
  BY DEF CopyDir
<1>4. Visit(d) \in Seq(Entry) /\ Enter(d) \in Entry /\ Popped \in Seq(Entry)
      /\ Enter(d).dir = d /\ Enter(d).left = In(d) \cap src
  BY <1>1, <1>2, VisitFact, EnterFact, PoppedFact
<1>5. walk' \in Seq(Entry) /\ LeftOk(walk')
  <2>1. LeftOk(Visit(d)) /\ LeftOk(Popped)
    BY <1>1, <1>2, VisitKeeps, PoppedKeeps
  <2>2. Append(Visit(d), Enter(d)) \in Seq(Entry) /\ LeftOk(Append(Visit(d), Enter(d)))
    BY <1>4, <2>1, PushFact, PushKeeps
  <2> QED  BY <1>3, <1>4, <2>1, <2>2
<1>6. LeftOk(walk)'
  BY <1>1, <1>5 DEF LeftOk, In
<1>7. Shape'
  BY <1>1, <1>2, <1>3, <1>5, CopyShape
<1>8. CallerInv' /\ Together' /\ DeleteInv' /\ WholeInv'
  BY <1>1, <1>3, CopyFrame
<1>9. QueueInv'
  BY <1>1 DEF FolderInv, QueueInv
<1>10. Certain => MoveLosesNothing'
  BY <1>1, SavedKept
<1>11. ASSUME abort_copy' = 0, Joins'
       PROVE  \E E \in SUBSET Dir : Walked(E)'
  <2>1. Joins
    BY <1>1, <1>11 DEF Joins, Certain
  <2>2. PICK E \in SUBSET Dir : Walked(E)
    BY <1>1, <2>1 DEF FolderInv, CopyInv
  <2>3. walk' = Append(Visit(d), Enter(d))
    BY <1>3, <1>11
  <2>4. DirsIn(walk', E \cup {d})
    <3>1. DirsIn(Visit(d), E)
      BY <1>1, <1>2, <2>2, VisitKeeps DEF Walked
    <3>2. DirsIn(Visit(d), E \cup {d})
      BY <3>1 DEF DirsIn
    <3> QED  BY <1>4, <2>3, <3>2, PushKeeps
  <2>5. \A n \in In(d) \cap src : Awaits(walk', n)
    BY <1>4, <2>3, InFact, PushAwaits
  <2>6. ASSUME NEW n \in src, Awaits(walk, n)
        PROVE  Awaits(walk', n) \/ Covered(E \cup {d}, n)'
    <3>1. CASE n = d
      BY <3>1 DEF Covered
    <3>2. CASE n # d
      <4>1. Awaits(Visit(d), n)
        BY <1>1, <1>2, <2>6, <3>2, VisitAwaits
      <4> QED  BY <1>4, <2>3, <4>1, PushAwaits
    <3> QED  BY <3>1, <3>2
  <2>7. PICK F \in SUBSET Dir : F = E \cup {d}
    OBVIOUS
  <2>8. Queued' = Queued
    BY <1>1 DEF Queued, Done
  <2>9. Walked(F)'
    BY <1>1, <2>2, <2>4, <2>5, <2>6, <2>7, <2>8, WalkedKeeps
  <2> QED  BY <2>9
<1>12. CopyInv'
  BY <1>1, <1>6, <1>11, CopyInvFrom
<1> QED  BY <1>7, <1>8, <1>9, <1>10, <1>12 DEF FolderInv

\* The directories are those of before, and each entry was visited or is still awaited.
LEMMA SameDirs ==
  ASSUME FolderInv, abort_copy = 0, pc \in {"copy", "flush"}, Joins, UNCHANGED << cur, src >>,
         saved \cup Queued \subseteq saved' \cup Queued',
         copy_is_split' = 0 => copy_is_split = 0,
         \A E : DirsIn(walk, E) => DirsIn(walk', E),
         \A n \in src, E \in SUBSET Dir :
           Awaits(walk, n) => Awaits(walk', n) \/ Covered(E, n)'
  PROVE  \E E \in SUBSET Dir : Walked(E)'
<1>1. PICK E \in SUBSET Dir : Walked(E)
  BY DEF FolderInv, CopyInv
<1>2. DirsIn(walk', E)
  BY <1>1 DEF Walked
<1>3. \A d \in E \ E : \A n \in In(d) \cap src : Awaits(walk', n)
  OBVIOUS
<1>4. Walked(E)'
  BY <1>1, <1>2, <1>3, WalkedKeeps
<1> QED  BY <1>4

LEMMA CopyFlushStep ==
  ASSUME FolderInv, CopyFlush
  PROVE  FolderInv'
<1>1. /\ pc = "copy" /\ pc' = "copy" /\ walk # << >> /\ abort_copy = 0 /\ UNCHANGED copying
      /\ UNCHANGED << copy_is_split, made, src, cur, caller >>
  BY DEF CopyFlush, copying, job
<1>2. /\ walk \in Seq(Entry) /\ made \subseteq Dir /\ copy_is_split \in {0, 1} /\ LeftOk(walk)
  BY <1>1 DEF FolderInv, Shape, CopyInv
<1>3. \/ Process(FALSE) /\ UNCHANGED << abort_copy, walk >>
      \/ Process(TRUE) /\ abort_copy' \in {1, 666} /\ walk' = Popped
  BY DEF CopyFlush
<1>4. /\ queue' = << >> /\ saved' \subseteq File /\ partial' \subseteq File
      /\ Certain => MoveLosesNothing'
  BY <1>1, <1>3, ProcessFact
<1>5. walk' \in Seq(Entry) /\ LeftOk(walk')
  BY <1>1, <1>2, <1>3, PoppedFact, PoppedKeeps
<1>6. LeftOk(walk)'
  BY <1>1, <1>5 DEF LeftOk, In
<1>7. Shape'
  BY <1>1, <1>2, <1>4, <1>5, CopyShape
<1>8. CallerInv' /\ Together' /\ DeleteInv' /\ WholeInv'
  BY <1>1, CopyFrame
<1>9. QueueInv'
  BY <1>4 DEF QueueInv
<1>10. ASSUME abort_copy' = 0, Joins'
       PROVE  \E E \in SUBSET Dir : Walked(E)'
  <2>1. Joins
    BY <1>1, <1>10 DEF Joins, Certain
  <2>2. abort_copy' \notin {1, 666}
    BY <1>10
  <2>3. Process(FALSE) /\ UNCHANGED << abort_copy, walk >>
    BY <1>3, <2>2
  <2>4. walk' = walk
    BY <2>3
  <2>5. saved' = saved \cup Queued
    BY <1>1, <2>1, <2>3, ProcessAll
  <2> QED  BY <1>1, <2>1, <2>4, <2>5, SameDirs
<1>11. CopyInv'
  BY <1>1, <1>6, <1>10, CopyInvFrom
<1> QED  BY <1>4, <1>7, <1>8, <1>9, <1>11 DEF FolderInv

LEMMA CopyReturnStep ==
  ASSUME FolderInv, CopyReturn
  PROVE  FolderInv'
<1>1. /\ pc = "copy" /\ pc' = "copy" /\ walk # << >> /\ UNCHANGED copying
      /\ UNCHANGED << abort_copy, copy_is_split, queue, made, saved, partial, src, cur, caller >>
      /\ walk' = Popped
  BY DEF CopyReturn, copying, job, dest
<1>2. /\ walk \in Seq(Entry) /\ made \subseteq Dir /\ saved \subseteq File
      /\ partial \subseteq File /\ queue \in Seq(File) /\ copy_is_split \in {0, 1} /\ LeftOk(walk)
  BY <1>1 DEF FolderInv, Shape, CopyInv
<1>3. walk' \in Seq(Entry) /\ LeftOk(walk')
  BY <1>1, <1>2, PoppedFact, PoppedKeeps
<1>4. LeftOk(walk)'
  BY <1>1, <1>3 DEF LeftOk, In
<1>5. Shape'
  BY <1>1, <1>2, <1>3, CopyShape
<1>6. CallerInv' /\ Together' /\ DeleteInv' /\ WholeInv'
  BY <1>1, CopyFrame
<1>7. QueueInv' /\ (Certain => MoveLosesNothing')
  BY <1>1, SavedKept DEF FolderInv, QueueInv
<1>8. ASSUME abort_copy' = 0, Joins'
      PROVE  \E E \in SUBSET Dir : Walked(E)'
  <2>1. Joins /\ abort_copy = 0
    BY <1>1, <1>8 DEF Joins, Certain
  <2>2. Top.left \cap Visible = {} /\ Top \in Entry
    BY <1>1, <1>2, <2>1, TopFact DEF CopyReturn
  <2>3. ASSUME NEW n \in Top.left
        PROVE  n \notin Dir /\ Kind[n] = "hidden"
    <3>1. n \in Node /\ n \notin Visible
      BY <2>2 DEF Entry
    <3>2. n \in Dir \cup File /\ ~(n \in File => Kind[n] # "hidden")
      BY <3>1 DEF Visible, Node
    <3> QED  BY <3>2, FileIsInside
  <2>4. ASSUME NEW n \in src, NEW E, Awaits(walk, n)
        PROVE  Awaits(walk', n) \/ Covered(E, n)'
    <3>1. Awaits(Popped, n) \/ n \in Top.left
      BY <1>1, <1>2, <2>4, PoppedAwaits
    <3> QED  BY <1>1, <2>3, <3>1 DEF Covered
  <2>5. Queued' = Queued
    BY <1>1 DEF Queued, Done
  <2>6. \A E : DirsIn(walk, E) => DirsIn(walk', E)
    BY <1>1, <1>2, PoppedKeeps
  <2> QED  BY <1>1, <2>1, <2>4, <2>5, <2>6, SameDirs
<1>9. CopyInv'
  BY <1>1, <1>4, <1>8, CopyInvFrom
<1> QED  BY <1>5, <1>6, <1>7, <1>9 DEF FolderInv

LEMMA CopyWalkedStep ==
  ASSUME FolderInv, CopyWalked
  PROVE  FolderInv'
<1>1. /\ pc = "copy" /\ pc' = "flush" /\ walk = << >> /\ walk' = << >> /\ UNCHANGED copying
      /\ UNCHANGED << abort_copy, copy_is_split, queue, made, saved, partial, src, cur, caller,
                      walk >>
  BY DEF CopyWalked, copying, job, dest
<1>2. /\ walk \in Seq(Entry) /\ made \subseteq Dir /\ saved \subseteq File
      /\ partial \subseteq File /\ queue \in Seq(File) /\ copy_is_split \in {0, 1}
  BY DEF FolderInv, Shape
<1>3. walk' \in Seq(Entry)
  BY <1>1, <1>2
<1>4. Shape'
  BY <1>1, <1>2, <1>3, CopyShape
<1>5. CallerInv' /\ Together' /\ DeleteInv' /\ WholeInv'
  BY <1>1, CopyFrame
<1>6. QueueInv' /\ (Certain => MoveLosesNothing')
  BY <1>1, SavedKept DEF FolderInv, QueueInv
<1>7. ASSUME abort_copy' = 0, Joins'
      PROVE  \E E \in SUBSET Dir : Walked(E)'
  <2>1. Joins /\ abort_copy = 0
    BY <1>1, <1>7 DEF Joins, Certain
  <2>2. Queued' = Queued
    BY <1>1 DEF Queued, Done
  <2> QED  BY <1>1, <2>1, <2>2, SameDirs
<1>8. CopyInv'
  BY <1>1, <1>7, CopyInvFrom
<1> QED  BY <1>4, <1>5, <1>6, <1>8 DEF FolderInv

LEMMA LastFlushStep ==
  ASSUME FolderInv, LastFlush
  PROVE  FolderInv'
<1>1. /\ pc = "flush" /\ pc' = "after" /\ UNCHANGED copying
      /\ UNCHANGED << copy_is_split, made, src, cur, caller, walk >>
  BY DEF LastFlush, copying, job
<1>2. /\ walk \in Seq(Entry) /\ made \subseteq Dir /\ saved \subseteq File
      /\ partial \subseteq File /\ copy_is_split \in {0, 1}
  BY DEF FolderInv, Shape
<1>3. \/ /\ abort_copy # 0 /\ queue' = << >>
         /\ UNCHANGED << saved, partial, global_device_bytes, abort_copy >>
      \/ abort_copy = 0 /\ Process(FALSE) /\ UNCHANGED abort_copy
      \/ abort_copy = 0 /\ Process(TRUE) /\ abort_copy' \in {1, 666}
  <2>1. CASE abort_copy # 0
    BY <2>1 DEF LastFlush
  <2>2. CASE abort_copy = 0
    <3>1. \/ Process(FALSE) /\ UNCHANGED abort_copy
          \/ Process(TRUE) /\ abort_copy' \in {1, 666}
      BY <2>2 DEF LastFlush
    <3> QED  BY <2>2, <3>1
  <2> QED  BY <2>1, <2>2
<1>4. /\ queue' = << >> /\ saved' \subseteq File /\ partial' \subseteq File
      /\ Certain => MoveLosesNothing'
  <2>1. CASE queue' = << >> /\ UNCHANGED << saved, partial >>
    BY <1>1, <1>2, <2>1, SavedKept
  <2>2. CASE \E failed \in BOOLEAN : Process(failed)
    BY <1>1, <2>2, ProcessFact
  <2> QED  BY <1>3, <2>1, <2>2
<1>5. walk' \in Seq(Entry) /\ queue' \in Seq(File)
  BY <1>1, <1>2, <1>4
<1>6. Shape'
  BY <1>1, <1>2, <1>4, <1>5, CopyShape
<1>7. CallerInv' /\ Together' /\ DeleteInv' /\ WholeInv'
  BY <1>1, CopyFrame
<1>8. QueueInv'
  BY <1>4 DEF QueueInv
<1>9. ASSUME abort_copy' = 0, Joins'
      PROVE  (\E E \in SUBSET Dir : Walked(E)') /\ walk' = << >>
  <2>1. Joins /\ abort_copy = 0 /\ Process(FALSE)
    <3>1. Joins
      BY <1>1, <1>9 DEF Joins, Certain
    <3>2. abort_copy' \notin {1, 666}
      BY <1>9
    <3>3. abort_copy # 0 => abort_copy' # 0
      BY <1>3
    <3>4. abort_copy = 0
      BY <1>9, <3>3
    <3>5. Process(FALSE)
      BY <1>3, <3>2, <3>4
    <3> QED  BY <3>1, <3>4, <3>5
  <2>2. saved' = saved \cup Queued
    BY <1>1, <2>1, ProcessAll
  <2>3. \E E \in SUBSET Dir : Walked(E)'
    BY <1>1, <2>1, <2>2, SameDirs
  <2>4. walk = << >>
    BY <1>1, <2>1 DEF FolderInv, CopyInv
  <2> QED  BY <1>1, <2>3, <2>4
<1>10. CopyInv'
  BY <1>1, <1>9, CopyInvFrom
<1> QED  BY <1>4, <1>6, <1>7, <1>8, <1>10 DEF FolderInv

\* A file that was taken: a fragment waits for its first file, an empty file is there, the others
\* are queued.
LEMMA FileCovered ==
  ASSUME Lone, NEW f \in File, NEW E,
         \/ Kind[f] = "later"
         \/ Size[f] = 0 /\ f \in saved'
         \/ /\ Parts(f) \subseteq Queued'
            /\ copy_is_split' = 0 => ~(CopyMode = 1 /\ Size[f] >= BigFile)
  PROVE  Covered(E, f)'
<1>1. f \notin Dir /\ Size[f] \in Nat /\ BigFile \in Nat \ {0}
  BY FileIsInside, TreeAssumption DEF TreeAssumption
<1>2. CASE Kind[f] = "later"
  BY <1>1, <1>2 DEF Covered
<1>3. CASE Size[f] = 0 /\ f \in saved'
  <2>1. Kind[f] # "first"
    BY <1>3 DEF Lone
  <2>2. Pieces[f] = << >>
    BY <2>1, TreeAssumption DEF TreeAssumption
  <2>3. Range(Pieces[f]) = {}
    BY <2>2 DEF Range
  <2>4. Parts(f) = {f}
    BY <2>3 DEF Parts
  <2>5. Parts(f) \subseteq (saved \cup Queued)'
    BY <1>3, <2>4
  <2>6. Unsplit(f)
    BY <1>1, <1>3 DEF Unsplit
  <2>7. Kept(f)'
    BY <2>5, <2>6 DEF Kept, Parts, Unsplit
  <2> QED  BY <1>1, <2>7 DEF Covered
<1>4. CASE /\ Parts(f) \subseteq Queued'
           /\ copy_is_split' = 0 => ~(CopyMode = 1 /\ Size[f] >= BigFile)
  <2>1. Kept(f)'
    BY <1>4 DEF Kept, Parts, Unsplit
  <2> QED  BY <1>1, <2>1 DEF Covered
<1> QED  BY <1>2, <1>3, <1>4

LEMMA CopyFileStep ==
  ASSUME Lone, FolderInv, CopyFile
  PROVE  FolderInv'
<1>1. /\ pc = "copy" /\ pc' = "copy" /\ walk # << >> /\ abort_copy = 0 /\ UNCHANGED copying
      /\ UNCHANGED << made, partial, src, cur, caller >>
  BY DEF CopyFile, copying, job
<1>2. /\ walk \in Seq(Entry) /\ made \subseteq Dir /\ saved \subseteq File
      /\ partial \subseteq File /\ queue \in Seq(File) /\ copy_is_split \in {0, 1} /\ LeftOk(walk)
  BY <1>1 DEF FolderInv, Shape, CopyInv
<1>3. PICK f \in Top.left \cap File \cap Visible :
        \/ /\ Kind[f] = "later" /\ walk' = Visit(f)
           /\ UNCHANGED << abort_copy, queue, saved, copy_is_split >>
        \/ /\ Size[f] = 0 /\ saved' = saved \cup {f} /\ walk' = Visit(f)
           /\ UNCHANGED << abort_copy, queue, copy_is_split >>
        \/ /\ Kind[f] # "later" /\ queue' = Append(queue, f) /\ walk' = Visit(f)
           /\ copy_is_split' = IF CopyMode = 1 /\ Size[f] >= BigFile THEN 1 ELSE copy_is_split
           /\ UNCHANGED << abort_copy, saved >>
        \/ abort_copy' = 666 /\ walk' = Popped /\ UNCHANGED << queue, saved, copy_is_split >>
  BY DEF CopyFile
<1>4. f \in src /\ f \in File
  <2>1. Len(walk) \in 1 .. Len(walk) /\ Top = walk[Len(walk)]
    BY <1>1, <1>2, TopFact
  <2>2. walk[Len(walk)].left \subseteq src
    BY <1>2, <2>1 DEF LeftOk
  <2> QED  BY <2>1, <2>2
<1>5. walk' = Visit(f) \/ walk' = Popped
  BY <1>3
<1>6. walk' \in Seq(Entry) /\ LeftOk(walk')
  BY <1>1, <1>2, <1>5, VisitFact, VisitKeeps, PoppedFact, PoppedKeeps
<1>7. LeftOk(walk)'
  BY <1>1, <1>6 DEF LeftOk, In
<1>8. saved' \subseteq File /\ saved \subseteq saved' /\ copy_is_split' \in {0, 1}
      /\ (copy_is_split' = 0 => copy_is_split = 0)
  BY <1>2, <1>3
<1>9. queue' = queue \/ (queue' = Append(queue, f) /\ Kind[f] # "later")
  BY <1>3
<1>10. queue' \in Seq(File)
  BY <1>2, <1>4, <1>9
<1>11. Shape'
  BY <1>1, <1>2, <1>6, <1>8, <1>10, CopyShape
<1>12. CallerInv' /\ Together' /\ DeleteInv' /\ WholeInv'
  BY <1>1, CopyFrame
<1>13. Certain => MoveLosesNothing'
  BY <1>1, <1>8, SavedKept
<1>14. QueueInv'
  <2>1. \A i \in 1 .. Len(queue) : queue[i] \in src /\ Kind[queue[i]] # "later"
    BY DEF FolderInv, QueueInv
  <2>2. \A i \in 1 .. Len(queue') : queue'[i] \in src /\ Kind[queue'[i]] # "later"
    <3>1. CASE queue' = queue
      BY <2>1, <3>1
    <3>2. CASE queue' = Append(queue, f) /\ Kind[f] # "later"
      <4>1. \A i \in 1 .. Len(queue') : (i \in 1 .. Len(queue) /\ queue'[i] = queue[i]) \/ queue'[i] = f
        BY <1>2, <3>2
      <4> QED  BY <1>4, <2>1, <3>2, <4>1
    <3> QED  BY <1>9, <3>1, <3>2
  <2> QED  BY <1>1, <2>2 DEF QueueInv
<1>15. Queued \subseteq Queued' /\ (queue' = Append(queue, f) => Parts(f) \subseteq Queued')
  <2>1. CASE queue' = queue
    <3>1. Queued' = Queued
      BY <2>1 DEF Queued, Done
    <3>2. queue' # Append(queue, f)
      BY <1>2, <2>1, <1>4
    <3> QED  BY <3>1, <3>2
  <2>2. CASE queue' = Append(queue, f)
    BY <1>2, <1>4, <2>2, QueuedAppend
  <2> QED  BY <1>9, <2>1, <2>2
<1>16. ASSUME abort_copy' = 0, Joins'
       PROVE  \E E \in SUBSET Dir : Walked(E)'
  <2>1. Joins /\ walk' = Visit(f)
    BY <1>1, <1>3, <1>16 DEF Joins, Certain
  <2>2. ASSUME NEW E
        PROVE  Covered(E, f)'
    <3>1. \/ Kind[f] = "later"
          \/ Size[f] = 0 /\ f \in saved'
          \/ /\ queue' = Append(queue, f)
             /\ copy_is_split' = 0 => ~(CopyMode = 1 /\ Size[f] >= BigFile)
      BY <1>3, <1>16
    <3> QED  BY <1>4, <1>15, <3>1, FileCovered
  <2>3. ASSUME NEW n \in src, NEW E, Awaits(walk, n)
        PROVE  Awaits(walk', n) \/ Covered(E, n)'
    BY <1>1, <1>2, <2>1, <2>2, <2>3, VisitAwaits
  <2>4. \A E : DirsIn(walk, E) => DirsIn(walk', E)
    BY <1>1, <1>2, <2>1, VisitKeeps
  <2> QED  BY <1>1, <1>8, <1>15, <2>1, <2>3, <2>4, SameDirs
<1>17. CopyInv'
  BY <1>1, <1>7, <1>16, CopyInvFrom
<1> QED  BY <1>11, <1>12, <1>13, <1>14, <1>17 DEF FolderInv

-----------------------------------------------------------------------------
(***************************************************************************)
(* After the copy                                                          *)
(***************************************************************************)
\* All that the directories of a copy hold is at the destination, when nothing was given up.
AllSafe(E) ==
  /\ cur \in E
  /\ \A d \in E : \A n \in In(d) \cap src :
       Safe(E, n) /\ (n \in File /\ Kind[n] # "hidden" /\ copy_is_split = 0 => Unsplit(n))

LEMMA CopiedIsSafe ==
  ASSUME Lone, FolderInv, Joins, pc = "after", abort_copy = 0
  PROVE  \E E \in SUBSET Dir : AllSafe(E)
<1>1. PICK E \in SUBSET Dir : Walked(E)
  BY DEF FolderInv, CopyInv
<1>2. walk = << >> /\ queue = << >>
  BY DEF FolderInv, CopyInv, QueueInv
<1>3. Queued = {}
  BY <1>2 DEF Queued, Done
<1>4. \A n : ~Awaits(walk, n)
  BY <1>2 DEF Awaits
<1>5. \A d \in E : \A n \in In(d) \cap src : Covered(E, n)
  BY <1>1, <1>4 DEF Walked
<1>6. ASSUME NEW d \in E, NEW f \in In(d) \cap src, f \in File, Kind[f] # "hidden"
      PROVE  f \in saved /\ (copy_is_split = 0 => Unsplit(f))
  <2>1. f \notin Dir
    BY <1>6, FileIsInside
  <2>2. CASE Kind[f] # "later"
    <3>1. Kept(f)
      BY <1>5, <1>6, <2>1, <2>2 DEF Covered
    <3> QED  BY <1>3, <1>6, <3>1, PartsFact DEF Kept
  <2>3. CASE Kind[f] = "later"
    <3>1. CopyMode = 0
      BY <1>6, <2>3, TreeAssumption DEF Lone, TreeAssumption
    <3>2. PICK g \in File : f \in Range(Pieces[g])
      BY <1>6, <2>3, TreeAssumption DEF TreeAssumption
    <3>3. Kind[g] = "first" /\ Parent[g] = d /\ g \notin Dir /\ g \notin Root /\ g \in Node
      BY <1>6, <3>2, PieceFact, FileIsInside, InFact
    <3>4. g \in src
      <4>1. CASE caller = "game"
        BY <3>3, <4>1 DEF FolderInv, CallerInv
      <4>2. CASE Certain
        BY <1>6, <3>1, <3>2, <4>2 DEF FolderInv, Together, Deleting, Certain
      <4> QED  BY <4>1, <4>2 DEF Joins
    <3>5. g \in In(d) \cap src
      BY <3>3, <3>4 DEF In
    <3>6. Kept(g)
      BY <1>5, <3>3, <3>5 DEF Covered
    <3>7. f \in Parts(g)
      BY <3>1, <3>2 DEF Parts
    <3>8. Unsplit(f)
      BY <3>1 DEF Unsplit
    <3> QED  BY <1>3, <3>6, <3>7, <3>8 DEF Kept
  <2> QED  BY <2>2, <2>3
<1>7. ASSUME NEW d \in E, NEW n \in In(d) \cap src
      PROVE  Safe(E, n)
  <2>1. CASE n \in Dir
    BY <1>5, <2>1 DEF Covered, Safe
  <2>2. CASE n \notin Dir
    <3>1. n \in File
      BY <2>2, InFact DEF Node
    <3> QED  BY <1>6, <2>2, <3>1 DEF Safe
  <2> QED  BY <2>1, <2>2
<1>8. cur \in E
  BY <1>1 DEF Walked
<1> QED  BY <1>6, <1>7, <1>8 DEF AllSafe

\* A game folder whose copy did not fail is whole.
LEMMA GameIsWhole ==
  ASSUME Lone, FolderInv, caller = "game", pc = "after", abort_copy = 0, copy_is_split = 0,
         NEW f \in File \cap Tree[cur], Kind[f] # "hidden"
  PROVE  f \in saved /\ Unsplit(f)
<1>1. PICK E \in SUBSET Dir : AllSafe(E)
  BY CopiedIsSafe DEF Joins
<1>2. src = Node /\ cur \in Root
  BY DEF FolderInv, CallerInv, Shape
<1> DEFINE S == E \cup { g \in File : Parent[g] \in E }
<1>3. S \in SUBSET Node /\ cur \in S
  BY <1>1, Places DEF AllSafe
<1>4. ClosedTree(S)
  <2>1. SUFFICES ASSUME NEW n \in Node \ Root, Parent[n] \in S
                 PROVE  n \in S
    BY DEF ClosedTree
  <2>2. Parent[n] \in Dir
    BY TreeAssumption DEF TreeAssumption
  <2>3. Parent[n] \in E
    BY <2>1, <2>2, FileIsInside
  <2>4. CASE n \in File
    BY <2>3, <2>4
  <2>5. CASE n \in Dir
    <3>1. n \in In(Parent[n]) \cap src
      BY <1>2 DEF In
    <3>2. Safe(E, n)
      BY <1>1, <2>3, <3>1 DEF AllSafe
    <3> QED  BY <2>5, <3>2 DEF Safe
  <2> QED  BY <2>4, <2>5 DEF Node
<1>5. Tree[cur] \subseteq S
  BY <1>2, <1>3, <1>4, TreeAssumption DEF TreeAssumption
<1>6. f \in File /\ f \notin Dir /\ f \notin Root /\ f \in Node /\ Parent[f] \in E
  BY <1>5, FileIsInside
<1>7. f \in In(Parent[f]) \cap src
  BY <1>2, <1>6 DEF In
<1>8. Safe(E, f) /\ Unsplit(f)
  BY <1>1, <1>6, <1>7 DEF AllSafe
<1> QED  BY <1>6, <1>8 DEF Safe

\* A step on whose way nothing is copied or deleted.
LEMMA AfterFrame ==
  ASSUME FolderInv, pc = "after", pc' \in {"batch", "delete"}, walk' \in Seq(Entry),
         home' \in {"none", "plain", "rest"},
         UNCHANGED << caller, selected, cur, copy_is_split, queue, src >>,
         \/ UNCHANGED << made, saved, partial >>
         \/ caller = "game" /\ made' = {} /\ saved' = {} /\ partial' = {}
  PROVE  Shape' /\ QueueInv' /\ CopyInv' /\ (Certain => MoveLosesNothing')
<1>1. Shape'
  BY DEF FolderInv, Shape, InFolder
<1>2. QueueInv'
  BY DEF FolderInv, QueueInv
<1>3. CopyInv'
  BY DEF CopyInv
<1>4. Certain => MoveLosesNothing'
  <2>1. caller = "game" => File \ src = {}
    BY DEF FolderInv, CallerInv, Node
  <2> QED  BY <2>1 DEF FolderInv, MoveLosesNothing
<1> QED  BY <1>1, <1>2, <1>3, <1>4

LEMMA AfterSteps ==
  ASSUME Lone, FolderInv, AfterCopy \/ AfterGame \/ AfterGameKept
  PROVE  FolderInv'
<1>1. /\ pc = "after" /\ pc' = "batch" /\ walk' = walk
      /\ UNCHANGED << caller, selected, cur, copy_is_split, queue, src >>
  BY DEF AfterCopy, AfterGame, AfterGameKept, copying, job
<1>2. \/ UNCHANGED << made, saved, partial, home, marked >>
         /\ (caller = "folders" \/ cur \in marked \/ (abort_copy = 0 /\ copy_is_split # 1))
      \/ caller = "game" /\ home' = "none" /\ made' = {} /\ saved' = {} /\ partial' = {}
  BY DEF AfterCopy, AfterGame, AfterGameKept, Mark, copying, dest, names
<1>3. /\ walk \in Seq(Entry) /\ home \in {"none", "plain", "rest"}
      /\ caller = "folders" => home = "none"
      /\ caller = "game" => src = Node /\ selected = {} /\ home = "plain"
      /\ copy_is_split \in {0, 1}
  BY <1>1 DEF FolderInv, Shape, CallerInv, InFolder
<1>4. Shape' /\ QueueInv' /\ CopyInv' /\ (Certain => MoveLosesNothing')
  BY <1>1, <1>2, <1>3, AfterFrame
<1>5. CallerInv'
  BY <1>1, <1>2, <1>3 DEF FolderInv, CallerInv, InFolder
<1>6. Together' /\ DeleteInv'
  BY <1>1 DEF FolderInv, Together, DeleteInv, Deleting
<1>7. WholeInv'
  <2>1. SUFFICES ASSUME home' = "plain", cur \notin marked',
                        NEW f \in File \cap Tree[cur], Kind[f] # "hidden"
                 PROVE  f \in saved' /\ Unsplit(f)
    BY <1>1 DEF WholeInv, Unsplit
  <2>2. caller = "game" /\ abort_copy = 0 /\ copy_is_split = 0 /\ saved' = saved
    BY <1>1, <1>2, <1>3, <2>1 DEF FolderInv, Shape
  <2> QED  BY <1>1, <2>1, <2>2, GameIsWhole
<1> QED  BY <1>4, <1>5, <1>6, <1>7 DEF FolderInv

LEMMA AfterDelete ==
  ASSUME Lone, FolderInv, AfterMove \/ AfterGameDeleted
  PROVE  FolderInv'
<1>1. /\ pc = "after" /\ pc' = "delete" /\ walk' = << [dir |-> cur, left |-> There(cur)] >>
      /\ UNCHANGED << caller, selected, cur, copy_is_split, queue, src, made, saved, partial, home >>
  BY DEF AfterMove, AfterGameDeleted, copying, job, dest, names
<1>2. /\ home \in {"none", "plain", "rest"} /\ cur \in Dir
  BY Places DEF FolderInv, Shape
<1> DEFINE e == [dir |-> cur, left |-> There(cur)]
<1>3. e \in Entry /\ e.dir = cur /\ e.left = There(cur) /\ (caller = "folders" => e.left = In(cur) \cap src)
  BY <1>2, ThereFact
<1>4. /\ << e >> \in Seq(Entry) /\ \A i \in 1 .. Len(<< e >>) : << e >>[i] = e
      /\ \A E : e.dir \in E => DirsIn(<< e >>, E)
  <2> HIDE DEF e
  <2> QED  BY <1>3, StartKeeps
<1> HIDE DEF e
<1>5. walk' = << e >> /\ \A i \in 1 .. Len(walk') : walk'[i] = e
  BY <1>1, <1>4 DEF e
<1>6. Shape' /\ QueueInv' /\ CopyInv' /\ (Certain => MoveLosesNothing')
  BY <1>1, <1>2, <1>4, <1>5, AfterFrame
<1>7. CallerInv'
  BY <1>1 DEF FolderInv, CallerInv, InFolder
<1>8. WholeInv'
  BY <1>1 DEF WholeInv
<1>9. caller = "folders" => abort_copy = 0 /\ abort_copy' = 0
  BY DEF AfterMove, AfterGameDeleted
<1>10. Together'
  <2>1. SUFFICES ASSUME CopyMode = 0, ~DeleteMayFail
                 PROVE  /\ \A f \in File : \A g \in Range(Pieces[f]) : f \in src <=> g \in src
                        /\ Deleting' => /\ abort_copy' = 0
                                        /\ \A i \in 1 .. Len(walk') :
                                             /\ In(walk'[i].dir) \cap src \cap File \subseteq walk'[i].left
                                             /\ walk'[i].left \subseteq In(walk'[i].dir)
    BY <1>1 DEF Together, In
  <2>2. \A f \in File : \A g \in Range(Pieces[f]) : f \in src <=> g \in src
    BY <1>1, <2>1 DEF FolderInv, Together, Deleting
  <2>3. Deleting' => caller = "folders"
    BY <1>1 DEF Deleting
  <2> QED  BY <1>3, <1>5, <1>9, <2>2, <2>3
<1>11. DeleteInv'
  <2>1. SUFFICES ASSUME caller = "folders", Certain
                 PROVE  \E E \in SUBSET Dir : SafeToDelete(E)'
    BY <1>1 DEF DeleteInv, Deleting
  <2>2. PICK E \in SUBSET Dir : AllSafe(E)
    BY <1>1, <1>9, <2>1, CopiedIsSafe DEF Joins
  <2>3. \A d \in E : \A n \in In(d) \cap src : Safe(E, n)
    BY <2>2 DEF AllSafe
  <2>4. \A n : Safe(E, n) => Safe(E, n)'
    BY <1>1 DEF Safe
  <2>5. DirsIn(walk, E)'
    BY <1>3, <1>4, <1>5, <2>2 DEF AllSafe, DirsIn
  <2>6. \A i \in 1 .. Len(walk') : \A n \in walk'[i].left : Safe(E, n)
    BY <1>3, <1>5, <2>1, <2>2, <2>3 DEF AllSafe
  <2>7. SafeToDelete(E)'
    BY <1>1, <2>3, <2>4, <2>5, <2>6 DEF SafeToDelete, In
  <2> QED  BY <2>7
<1> QED  BY <1>6, <1>7, <1>8, <1>10, <1>11 DEF FolderInv

-----------------------------------------------------------------------------
(***************************************************************************)
(* my_game_delete on what a game copy left                                 *)
(***************************************************************************)
LEMMA DeleteCopyStep ==
  ASSUME FolderInv, pc = "delete", caller = "game", DeleteFile \/ DeleteDir \/ DeleteReturn
  PROVE  FolderInv'
<1>1. /\ pc' = "delete" /\ walk # << >>
      /\ UNCHANGED << caller, selected, cur, copy_is_split, queue, home >>
  BY DEF DeleteFile, DeleteDir, DeleteReturn, deleting, job, names
<1>2. /\ src = Node /\ walk \in Seq(Entry) /\ made \subseteq Dir /\ saved \subseteq File
      /\ partial \subseteq File /\ queue = << >> /\ home = "plain" /\ selected = {}
      /\ copy_is_split \in {0, 1}
  BY DEF FolderInv, Shape, CallerInv, QueueInv, InFolder
<1>3. \A n : Remove(n) => /\ src' = src /\ made' \subseteq made /\ saved' \subseteq saved
                          /\ partial' \subseteq partial
  BY DEF Remove
<1>4. /\ src' = src /\ made' \subseteq made /\ saved' \subseteq saved
      /\ partial' \subseteq partial /\ walk' \in Seq(Entry)
  <2>1. CASE DeleteFile
    <3>1. PICK f \in Top.left \cap File : walk' = Visit(f) /\ (Remove(f) \/ UNCHANGED << src, dest >>)
      BY <2>1 DEF DeleteFile
    <3> QED  BY <1>1, <1>2, <1>3, <3>1, VisitFact DEF dest
  <2>2. CASE DeleteDir
    <3>1. PICK d \in Top.left \cap Dir : \E here \in {There(d), {}} :
            walk' = Append(Visit(d), [dir |-> d, left |-> here])
      BY <2>2 DEF DeleteDir
    <3> PICK here \in {There(d), {}} : walk' = Append(Visit(d), [dir |-> d, left |-> here])
      BY <3>1
    <3>2. [dir |-> d, left |-> here] \in Entry /\ Visit(d) \in Seq(Entry)
      BY <1>1, <1>2, ThereFact, VisitFact
    <3>3. walk' \in Seq(Entry)
      BY <3>2, PushFact
    <3> QED  BY <2>2, <3>3 DEF DeleteDir, dest
  <2>3. CASE DeleteReturn
    <3>1. walk' = Popped /\ (Remove(Top.dir) \/ UNCHANGED << src, dest >>)
      BY <2>3 DEF DeleteReturn
    <3> QED  BY <1>1, <1>2, <1>3, <3>1, PoppedFact DEF dest
  <2> QED  BY <2>1, <2>2, <2>3
<1>5. Shape'
  BY <1>1, <1>2, <1>4 DEF FolderInv, Shape, InFolder
<1>6. CallerInv' /\ QueueInv' /\ CopyInv' /\ WholeInv' /\ DeleteInv'
  <2>1. CallerInv'
    BY <1>1, <1>2, <1>4 DEF FolderInv, CallerInv, InFolder
  <2>2. QueueInv' /\ CopyInv' /\ WholeInv' /\ DeleteInv'
    BY <1>1, <1>2 DEF QueueInv, CopyInv, WholeInv, DeleteInv, Deleting
  <2> QED  BY <2>1, <2>2
<1>7. Together'
  <2>1. ~Deleting'
    BY <1>1 DEF Deleting
  <2>2. \A f \in File : \A g \in Range(Pieces[f]) : f \in src' /\ g \in src'
    BY <1>2, <1>4, PieceFact, Places
  <2> QED  BY <2>1, <2>2 DEF Together
<1>8. MoveLosesNothing'
  BY <1>2, <1>4, Places DEF MoveLosesNothing
<1> QED  BY <1>5, <1>6, <1>7, <1>8 DEF FolderInv

-----------------------------------------------------------------------------
(***************************************************************************)
(* my_game_delete on the source of a move                                  *)
(***************************************************************************)
LEMMA DeleteSourceFrame ==
  ASSUME FolderInv, pc = "delete", caller = "folders", pc' = "delete", src' \subseteq src,
         walk' \in Seq(Entry), Together',
         UNCHANGED << caller, selected, cur, copy_is_split, queue, made, saved, partial, home >>,
         Certain => \A E \in SUBSET Dir : SafeToDelete(E) =>
           /\ DirsIn(walk', E)
           /\ \A i \in 1 .. Len(walk') : \A n \in walk'[i].left : Safe(E, n)
           /\ \A f \in File : f \in src /\ f \notin src' => Safe(E, f)
  PROVE  FolderInv'
<1>1. /\ src \subseteq Node /\ queue = << >> /\ home = "none" /\ cur \in made
  BY DEF FolderInv, Shape, QueueInv, CallerInv, InFolder
<1>2. Shape'
  BY DEF FolderInv, Shape, InFolder
<1>3. CallerInv'
  BY <1>1 DEF FolderInv, CallerInv, InFolder
<1>4. QueueInv' /\ CopyInv' /\ WholeInv'
  BY <1>1 DEF QueueInv, CopyInv, WholeInv
<1>5. ASSUME Certain
      PROVE  DeleteInv' /\ MoveLosesNothing'
  <2>1. PICK E \in SUBSET Dir : SafeToDelete(E)
    BY <1>5 DEF FolderInv, DeleteInv, Deleting
  <2>2. /\ DirsIn(walk', E)
        /\ \A i \in 1 .. Len(walk') : \A n \in walk'[i].left : Safe(E, n)
        /\ \A f \in File : f \in src /\ f \notin src' => Safe(E, f)
    BY <1>5, <2>1
  <2>3. \A n : Safe(E, n) => Safe(E, n)'
    BY DEF Safe
  <2>4. SafeToDelete(E)'
    BY <2>1, <2>2, <2>3 DEF SafeToDelete, In, DirsIn
  <2>5. DeleteInv'
    BY <2>4 DEF DeleteInv
  <2>6. \A f \in File \ src : f \in saved \/ Kind[f] = "hidden"
    BY <1>5 DEF FolderInv, MoveLosesNothing
  <2>7. \A f \in File : f \in src /\ f \notin src' => f \in saved \/ Kind[f] = "hidden"
    BY <2>2, FileIsInside DEF Safe
  <2>8. MoveLosesNothing'
    BY <2>6, <2>7 DEF MoveLosesNothing
  <2> QED  BY <2>5, <2>8
<1>6. DeleteInv'
  BY <1>5 DEF DeleteInv
<1> QED  BY <1>2, <1>3, <1>4, <1>5, <1>6 DEF FolderInv

LEMMA DeleteFileStep ==
  ASSUME FolderInv, DeleteFile, caller = "folders"
  PROVE  FolderInv'
<1>1. /\ pc = "delete" /\ pc' = "delete" /\ walk # << >> /\ walk \in Seq(Entry)
      /\ UNCHANGED << caller, selected, cur, copy_is_split, queue, home >>
  BY DEF DeleteFile, deleting, job, FolderInv, Shape, names
<1>2. PICK f \in Top.left \cap File :
        /\ walk' = Visit(f)
        /\ Remove(f) \/ (DeleteMayFail /\ UNCHANGED << src, dest >>)
  BY DEF DeleteFile
<1>3. UNCHANGED << made, saved, partial >> /\ (src' = src \ {f} \/ (DeleteMayFail /\ src' = src))
  BY <1>2 DEF Remove, dest
<1>4. /\ walk' \in Seq(Entry) /\ Len(walk') = Len(walk) /\ Len(walk) \in Nat \ {0}
      /\ \A i \in 1 .. Len(walk) : walk'[i].dir = walk[i].dir /\ walk'[i].left \subseteq walk[i].left
      /\ \A i \in 1 .. Len(walk) - 1 : walk'[i] = walk[i]
      /\ walk'[Len(walk)].left = walk[Len(walk)].left \ {f}
      /\ f \in walk[Len(walk)].left
  <2>1. Top = walk[Len(walk)] /\ Len(walk) \in Nat \ {0} /\ walk' \in Seq(Entry) /\ Len(walk') = Len(walk)
    BY <1>1, <1>2, TopFact, VisitFact
  <2>2. \A i \in 1 .. Len(walk) : walk'[i].dir = walk[i].dir /\ walk'[i].left \subseteq walk[i].left
    BY <1>1, <1>2, VisitKeeps
  <2>3. /\ \A i \in 1 .. Len(walk) - 1 : walk'[i] = walk[i]
        /\ walk'[Len(walk)] = [dir |-> Top.dir, left |-> Top.left \ {f}]
    BY <1>1, <1>2, VisitFact
  <2> QED  BY <1>2, <2>1, <2>2, <2>3
<1>5. Together'
  <2>1. SUFFICES ASSUME CopyMode = 0, ~DeleteMayFail
                 PROVE  /\ \A g \in File : \A h \in Range(Pieces[g]) :
                             (g \in src' <=> h \in src') \/ \E i \in 1 .. Len(walk') : walk'[i].dir = Parent[g]
                        /\ abort_copy' = 0
                        /\ \A i \in 1 .. Len(walk') :
                             /\ In(walk'[i].dir) \cap src' \cap File \subseteq walk'[i].left
                             /\ walk'[i].left \subseteq In(walk'[i].dir)
    BY <1>1 DEF Together, Deleting, In
  <2>2. src' = src \ {f} /\ abort_copy' = 0
    BY <1>3, <2>1 DEF DeleteFile, Triangle
  <2>3. /\ \A g \in File : \A h \in Range(Pieces[g]) :
             (g \in src <=> h \in src) \/ \E i \in 1 .. Len(walk) : walk[i].dir = Parent[g]
        /\ \A i \in 1 .. Len(walk) : /\ In(walk[i].dir) \cap src \cap File \subseteq walk[i].left
                                     /\ walk[i].left \subseteq In(walk[i].dir)
    BY <1>1, <2>1 DEF FolderInv, Together, Deleting
  <2>4. f \in In(walk[Len(walk)].dir) /\ Len(walk) \in 1 .. Len(walk)
    BY <1>4, <2>3
  <2>5. Parent[f] = walk'[Len(walk)].dir
    BY <1>4, <2>4, InFact
  <2>6. ASSUME NEW g \in File, NEW h \in Range(Pieces[g])
        PROVE  (g \in src' <=> h \in src') \/ \E i \in 1 .. Len(walk') : walk'[i].dir = Parent[g]
    <3>1. CASE f \in {g, h}
      <4>1. Parent[g] = Parent[f]
        BY <3>1, PieceFact
      <4> QED  BY <1>4, <2>4, <2>5, <4>1
    <3>2. CASE f \notin {g, h}
      BY <1>4, <2>2, <2>3, <3>2
    <3> QED  BY <3>1, <3>2
  <2>7. ASSUME NEW i \in 1 .. Len(walk')
        PROVE  /\ In(walk'[i].dir) \cap src' \cap File \subseteq walk'[i].left
               /\ walk'[i].left \subseteq In(walk'[i].dir)
    <3>1. walk'[i].left = walk[i].left \/ walk'[i].left = walk[i].left \ {f}
      BY <1>4
    <3> QED  BY <1>4, <2>2, <2>3, <3>1
  <2> QED  BY <2>2, <2>6, <2>7
<1>6. ASSUME NEW E \in SUBSET Dir, SafeToDelete(E)
      PROVE  /\ DirsIn(walk', E)
             /\ \A i \in 1 .. Len(walk') : \A n \in walk'[i].left : Safe(E, n)
             /\ \A g \in File : g \in src /\ g \notin src' => Safe(E, g)
  <2>1. DirsIn(walk', E)
    BY <1>4, <1>6 DEF SafeToDelete, DirsIn
  <2>2. \A i \in 1 .. Len(walk') : \A n \in walk'[i].left : Safe(E, n)
    BY <1>4, <1>6 DEF SafeToDelete
  <2>3. Safe(E, f)
    BY <1>4, <1>6 DEF SafeToDelete
  <2>4. \A g \in File : g \in src /\ g \notin src' => Safe(E, g)
    BY <1>3, <2>3
  <2> QED  BY <2>1, <2>2, <2>4
<1>7. src' \subseteq src
  BY <1>3
<1> QED  BY <1>1, <1>3, <1>4, <1>5, <1>6, <1>7, DeleteSourceFrame

LEMMA DeleteDirStep ==
  ASSUME FolderInv, DeleteDir, caller = "folders"
  PROVE  FolderInv'
<1>1. /\ pc = "delete" /\ pc' = "delete" /\ walk # << >> /\ walk \in Seq(Entry) /\ abort_copy = 0
      /\ UNCHANGED << caller, selected, cur, copy_is_split, queue, home, abort_copy, src, made, saved,
                      partial >>
  BY DEF DeleteDir, deleting, job, dest, FolderInv, Shape, names
<1>2. PICK d \in Top.left \cap Dir : \E here \in {There(d), {}} :
        /\ walk' = Append(Visit(d), [dir |-> d, left |-> here])
        /\ here = {} => DeleteMayFail \/ There(d) = {}
  BY DEF DeleteDir
<1> PICK here \in {There(d), {}} :
      /\ walk' = Append(Visit(d), [dir |-> d, left |-> here])
      /\ here = {} => DeleteMayFail \/ There(d) = {}
  BY <1>2
<1>3. There(d) = In(d) \cap src /\ here \subseteq In(d) \cap src /\ (~DeleteMayFail => here = In(d) \cap src)
  BY <1>1, ThereFact
<1>4. [dir |-> d, left |-> here] \in Entry
  BY ThereFact
<1>5. /\ Visit(d) \in Seq(Entry) /\ Len(Visit(d)) = Len(walk) /\ Len(walk) \in Nat \ {0}
      /\ \A i \in 1 .. Len(walk) : Visit(d)[i].dir = walk[i].dir /\ Visit(d)[i].left \subseteq walk[i].left
      /\ \A i \in 1 .. Len(walk) : walk[i].left \cap File \subseteq Visit(d)[i].left
      /\ d \in walk[Len(walk)].left
  <2>1. Top = walk[Len(walk)] /\ Len(walk) \in Nat \ {0}
    BY <1>1, TopFact
  <2>2. \A i \in 1 .. Len(walk) : Visit(d)[i].dir = walk[i].dir /\ Visit(d)[i].left \subseteq walk[i].left
    BY <1>1, VisitKeeps
  <2>3. /\ \A i \in 1 .. Len(walk) - 1 : Visit(d)[i] = walk[i]
        /\ Visit(d)[Len(walk)] = [dir |-> Top.dir, left |-> Top.left \ {d}]
        /\ Visit(d) \in Seq(Entry) /\ Len(Visit(d)) = Len(walk)
    BY <1>1, VisitFact
  <2>4. ASSUME NEW i \in 1 .. Len(walk)
        PROVE  walk[i].left \cap File \subseteq Visit(d)[i].left
    <3>1. d \notin File
      BY FileIsInside
    <3>2. CASE i = Len(walk)
      <4>1. Visit(d)[i].left = Top.left \ {d}
        BY <2>3, <3>2
      <4> QED  BY <2>1, <3>1, <3>2, <4>1
    <3>3. CASE i # Len(walk)
      <4>1. i \in 1 .. Len(walk) - 1
        BY <2>1, <3>3
      <4>2. Visit(d)[i] = walk[i]
        BY <2>3, <4>1
      <4> QED  BY <4>2
    <3> QED  BY <3>2, <3>3
  <2> QED  BY <2>1, <2>2, <2>3, <2>4
<1>6. /\ walk' \in Seq(Entry) /\ Len(walk') = Len(walk) + 1
      /\ \A i \in 1 .. Len(walk) : walk'[i] = Visit(d)[i]
      /\ walk'[Len(walk) + 1] = [dir |-> d, left |-> here]
      /\ \A i \in 1 .. Len(walk') : i \in 1 .. Len(walk) \/ i = Len(walk) + 1
  BY <1>4, <1>5, PushFact
<1>7. Together'
  <2>1. SUFFICES ASSUME CopyMode = 0, ~DeleteMayFail
                 PROVE  /\ \A g \in File : \A h \in Range(Pieces[g]) :
                             (g \in src <=> h \in src) \/ \E i \in 1 .. Len(walk') : walk'[i].dir = Parent[g]
                        /\ \A i \in 1 .. Len(walk') :
                             /\ In(walk'[i].dir) \cap src \cap File \subseteq walk'[i].left
                             /\ walk'[i].left \subseteq In(walk'[i].dir)
    BY <1>1 DEF Together, Deleting, In
  <2>2. /\ \A g \in File : \A h \in Range(Pieces[g]) :
             (g \in src <=> h \in src) \/ \E i \in 1 .. Len(walk) : walk[i].dir = Parent[g]
        /\ \A i \in 1 .. Len(walk) : /\ In(walk[i].dir) \cap src \cap File \subseteq walk[i].left
                                     /\ walk[i].left \subseteq In(walk[i].dir)
    BY <1>1, <2>1 DEF FolderInv, Together, Deleting
  <2>3. \A i \in 1 .. Len(walk) : i \in 1 .. Len(walk') /\ walk'[i].dir = walk[i].dir
    BY <1>5, <1>6
  <2>4. ASSUME NEW i \in 1 .. Len(walk')
        PROVE  /\ In(walk'[i].dir) \cap src \cap File \subseteq walk'[i].left
               /\ walk'[i].left \subseteq In(walk'[i].dir)
    <3>1. CASE i \in 1 .. Len(walk)
      BY <1>5, <1>6, <2>2, <3>1
    <3>2. CASE i = Len(walk) + 1
      <4>1. walk'[i] = [dir |-> d, left |-> here]
        BY <1>6, <3>2
      <4>2. walk'[i].dir = d /\ walk'[i].left = here
        BY <4>1
      <4> QED  BY <1>3, <2>1, <4>2
    <3> QED  BY <1>6, <3>1, <3>2
  <2> QED  BY <2>2, <2>3, <2>4
<1>8. ASSUME NEW E \in SUBSET Dir, SafeToDelete(E)
      PROVE  /\ DirsIn(walk', E)
             /\ \A i \in 1 .. Len(walk') : \A n \in walk'[i].left : Safe(E, n)
             /\ \A f \in File : f \in src /\ f \notin src' => Safe(E, f)
  <2>1. Safe(E, d)
    BY <1>5, <1>8 DEF SafeToDelete
  <2>2. d \in E
    BY <2>1 DEF Safe
  <2>3. \A n \in here : Safe(E, n)
    BY <1>3, <1>8, <2>2 DEF SafeToDelete
  <2>4. ASSUME NEW i \in 1 .. Len(walk')
        PROVE  walk'[i].dir \in E /\ \A n \in walk'[i].left : Safe(E, n)
    <3>1. CASE i \in 1 .. Len(walk)
      <4>1. walk'[i].dir = walk[i].dir /\ walk'[i].left \subseteq walk[i].left
        BY <1>5, <1>6, <3>1
      <4> QED  BY <1>8, <3>1, <4>1 DEF SafeToDelete, DirsIn
    <3>2. CASE i = Len(walk) + 1
      <4>1. walk'[i] = [dir |-> d, left |-> here]
        BY <1>6, <3>2
      <4>2. walk'[i].dir = d /\ walk'[i].left = here
        BY <4>1
      <4> QED  BY <2>2, <2>3, <4>2
    <3> QED  BY <1>6, <3>1, <3>2
  <2> QED  BY <1>1, <2>4 DEF DirsIn
<1>9. src' \subseteq src
  BY <1>1
<1> QED  BY <1>1, <1>6, <1>7, <1>8, <1>9, DeleteSourceFrame

LEMMA DeleteReturnStep ==
  ASSUME FolderInv, DeleteReturn, caller = "folders"
  PROVE  FolderInv'
<1>1. /\ pc = "delete" /\ pc' = "delete" /\ walk # << >> /\ walk \in Seq(Entry) /\ walk' = Popped
      /\ UNCHANGED << caller, selected, cur, copy_is_split, queue, home >>
  BY DEF DeleteReturn, deleting, job, FolderInv, Shape, names
<1>2. /\ Len(walk) \in Nat \ {0} /\ Top = walk[Len(walk)] /\ Top.dir \in Dir
  BY <1>1, TopFact DEF Entry
<1>3. \/ There(Top.dir) = {} /\ Remove(Top.dir)
      \/ DeleteMayFail /\ UNCHANGED << src, dest >>
  BY DEF DeleteReturn
<1>4. UNCHANGED << made, saved, partial >> /\ (src' = src \ {Top.dir} \/ src' = src)
  BY <1>3 DEF Remove, dest
<1>5. /\ walk' \in Seq(Entry) /\ Len(walk') = Len(walk) - 1
      /\ \A i \in 1 .. Len(walk') : i \in 1 .. Len(walk) /\ walk'[i] = walk[i]
      /\ \A i \in 1 .. Len(walk) : i # Len(walk) => i \in 1 .. Len(walk')
  BY <1>1, <1>2, PoppedFact, PoppedKeeps
<1>6. \A f \in File : f \in src' <=> f \in src
  BY <1>2, <1>4, FileIsInside
<1>7. Together'
  <2>1. SUFFICES ASSUME CopyMode = 0, ~DeleteMayFail
                 PROVE  /\ \A g \in File : \A h \in Range(Pieces[g]) :
                             (g \in src <=> h \in src) \/ \E i \in 1 .. Len(walk') : walk'[i].dir = Parent[g]
                        /\ abort_copy' = 0
                        /\ \A i \in 1 .. Len(walk') :
                             /\ In(walk'[i].dir) \cap src \cap File \subseteq walk'[i].left
                             /\ walk'[i].left \subseteq In(walk'[i].dir)
    <3>1. \A g \in File : \A h \in Range(Pieces[g]) : (g \in src' <=> h \in src') <=> (g \in src <=> h \in src)
      BY <1>6, PieceFact
    <3>2. \A i \in 1 .. Len(walk') :
            In(walk'[i].dir) \cap src' \cap File \subseteq In(walk'[i].dir) \cap src \cap File
      BY <1>6
    <3> QED  BY <1>1, <3>1, <3>2 DEF Together, Deleting, In
  <2>2. /\ \A g \in File : \A h \in Range(Pieces[g]) :
             (g \in src <=> h \in src) \/ \E i \in 1 .. Len(walk) : walk[i].dir = Parent[g]
        /\ \A i \in 1 .. Len(walk) : /\ In(walk[i].dir) \cap src \cap File \subseteq walk[i].left
                                     /\ walk[i].left \subseteq In(walk[i].dir)
        /\ abort_copy = 0
    BY <1>1, <2>1 DEF FolderInv, Together, Deleting
  <2>3. abort_copy' = 0
    <3>1. \/ abort_copy' \in IF abort_copy = 0 /\ Len(walk) > 1 THEN Triangle ELSE {abort_copy}
          \/ DeleteMayFail
      BY DEF DeleteReturn
    <3>2. Triangle = {0}
      BY <2>1 DEF Triangle
    <3> QED  BY <2>1, <2>2, <3>1, <3>2
  <2>4. In(Top.dir) \cap src = {}
    BY <1>2, <1>3, <2>1, ThereFact
  <2>5. ASSUME NEW g \in File, NEW h \in Range(Pieces[g])
        PROVE  (g \in src <=> h \in src) \/ \E i \in 1 .. Len(walk') : walk'[i].dir = Parent[g]
    <3>1. CASE Parent[g] = Top.dir
      <4>1. h \in File /\ Parent[h] = Top.dir
        BY <3>1, PieceFact
      <4>2. g \in In(Top.dir) /\ h \in In(Top.dir)
        BY <3>1, <4>1, FileIsInside DEF In
      <4> QED  BY <2>4, <4>2
    <3>2. CASE Parent[g] # Top.dir
      BY <1>2, <1>5, <2>2, <3>2
    <3> QED  BY <3>1, <3>2
  <2> QED  BY <1>5, <2>2, <2>3, <2>5
<1>8. ASSUME NEW E \in SUBSET Dir, SafeToDelete(E)
      PROVE  /\ DirsIn(walk', E)
             /\ \A i \in 1 .. Len(walk') : \A n \in walk'[i].left : Safe(E, n)
             /\ \A f \in File : f \in src /\ f \notin src' => Safe(E, f)
  BY <1>5, <1>6, <1>8 DEF SafeToDelete, DirsIn
<1>9. src' \subseteq src
  BY <1>4
<1> QED  BY <1>1, <1>4, <1>5, <1>7, <1>8, <1>9, DeleteSourceFrame

LEMMA DeleteEndStep ==
  ASSUME FolderInv, DeleteEnd
  PROVE  FolderInv'
<1>1. /\ pc = "delete" /\ pc' = "batch" /\ walk = << >> /\ walk' = walk
      /\ UNCHANGED << caller, selected, cur, copy_is_split, queue, src, made, saved, partial >>
  BY DEF DeleteEnd, job, dest
<1>2. /\ caller \in {"folders", "game"} /\ queue = << >>
      /\ caller = "folders" => home = "none"
      /\ caller = "game" => src = Node /\ selected = {}
  BY <1>1 DEF FolderInv, Shape, QueueInv, CallerInv, InFolder
<1>3. home' \in {"none", "rest"} /\ (caller = "folders" => home' = "none")
  BY <1>2 DEF DeleteEnd
<1>4. Shape'
  BY <1>1, <1>3 DEF FolderInv, Shape, InFolder
<1>5. CallerInv'
  BY <1>1, <1>2, <1>3 DEF FolderInv, CallerInv, InFolder
<1>6. QueueInv' /\ CopyInv' /\ WholeInv' /\ DeleteInv'
  BY <1>1, <1>2, <1>3 DEF QueueInv, CopyInv, WholeInv, DeleteInv, Deleting
<1>7. Together'
  <2>1. Len(walk) = 0
    BY <1>1
  <2>2. ~Deleting'
    BY <1>1 DEF Deleting
  <2>3. CopyMode = 0 /\ ~DeleteMayFail =>
          \A f \in File : \A g \in Range(Pieces[f]) : f \in src <=> g \in src
    BY <2>1 DEF FolderInv, Together
  <2> QED  BY <1>1, <2>2, <2>3 DEF Together
<1>8. Certain => MoveLosesNothing'
  BY <1>1 DEF FolderInv, MoveLosesNothing
<1> QED  BY <1>4, <1>5, <1>6, <1>7, <1>8 DEF FolderInv

-----------------------------------------------------------------------------
(***************************************************************************)
(* The theorems                                                            *)
(***************************************************************************)
LEMMA InitFolders ==
  ASSUME Init
  PROVE  FolderInv
<1>1. Shape
  BY DEF Init, Shape, InFolder, Node
<1>2. CallerInv /\ QueueInv /\ CopyInv /\ DeleteInv /\ WholeInv
  BY DEF Init, CallerInv, QueueInv, CopyInv, DeleteInv, WholeInv, Deleting, InFolder, Node
<1>3. Together
  <2>1. \A f \in File : \A g \in Range(Pieces[f]) : f \in src /\ g \in src
    BY PieceFact DEF Init
  <2> QED  BY <2>1 DEF Init, Together, Deleting
<1>4. MoveLosesNothing
  BY DEF Init, MoveLosesNothing
<1> QED  BY <1>1, <1>2, <1>3, <1>4 DEF FolderInv

LEMMA StutterFolders ==
  ASSUME FolderInv, UNCHANGED vars
  PROVE  FolderInv'
<1>1. /\ UNCHANGED << pc, caller, selected, cur, walk, abort_copy, copy_is_split, queue, src, made, saved,
                      partial, home, marked >>
  BY DEF vars
<1>2. Shape' /\ CallerInv' /\ QueueInv' /\ WholeInv'
  BY <1>1 DEF FolderInv, Shape, CallerInv, QueueInv, WholeInv, InFolder, Unsplit
<1>3. Together' /\ (Certain => MoveLosesNothing')
  BY <1>1 DEF FolderInv, Together, Deleting, MoveLosesNothing, In
<1>4. CopyInv'
  <2>1. LeftOk(walk)' <=> LeftOk(walk)
    BY <1>1 DEF LeftOk, In
  <2>2. ASSUME NEW E  PROVE Walked(E)' <=> Walked(E)
    <3>1. \A n : Kept(n)' <=> Kept(n)
      BY <1>1 DEF Kept, Queued, Done, Parts, Unsplit
    <3>2. \A n : Covered(E, n)' <=> Covered(E, n)
      BY <3>1 DEF Covered
    <3>3. \A n : Awaits(walk, n)' <=> Awaits(walk, n)
      BY <1>1 DEF Awaits
    <3> QED  BY <1>1, <3>2, <3>3 DEF Walked, DirsIn, In
  <2> QED  BY <1>1, <2>1, <2>2 DEF FolderInv, CopyInv, Joins, Certain
<1>5. DeleteInv'
  BY <1>1 DEF FolderInv, DeleteInv, Deleting, SafeToDelete, Safe, DirsIn, Certain, In
<1> QED  BY <1>2, <1>3, <1>4, <1>5 DEF FolderInv

LEMMA FoldersInductive ==
  ASSUME Lone, FolderInv, [Next]_vars
  PROVE  FolderInv'
<1>1. CASE CopyFolders \/ CopyGame \/ BatchEnd \/ OverwriteDeclined \/ StartFolder
  BY <1>1, PaneSteps
<1>2. CASE MoveByRename
  BY <1>2, RenameStep
<1>3. CASE TestDir \/ TestFile \/ TestReturn \/ TestAgain \/ NoSpace
  BY <1>3, TestSteps
<1>4. CASE Space
  BY <1>4, SpaceStep
<1>5. CASE CopyDir
  BY <1>5, CopyDirStep
<1>6. CASE CopyFlush
  BY <1>6, CopyFlushStep
<1>7. CASE CopyFile
  BY <1>7, CopyFileStep
<1>8. CASE CopyReturn
  BY <1>8, CopyReturnStep
<1>9. CASE CopyWalked
  BY <1>9, CopyWalkedStep
<1>10. CASE LastFlush
  BY <1>10, LastFlushStep
<1>11. CASE AfterCopy \/ AfterGame \/ AfterGameKept
  BY <1>11, AfterSteps
<1>12. CASE AfterMove \/ AfterGameDeleted
  BY <1>12, AfterDelete
<1>13. CASE DeleteFile \/ DeleteDir \/ DeleteReturn
  <2>1. pc = "delete"
    BY <1>13 DEF DeleteFile, DeleteDir, DeleteReturn
  <2>2. caller \in {"folders", "game"}
    BY DEF FolderInv, Shape
  <2>3. CASE caller = "game"
    BY <1>13, <2>1, <2>3, DeleteCopyStep
  <2>4. CASE caller = "folders"
    BY <1>13, <2>4, DeleteFileStep, DeleteDirStep, DeleteReturnStep
  <2> QED  BY <2>2, <2>3, <2>4
<1>14. CASE DeleteEnd
  BY <1>14, DeleteEndStep
<1>15. CASE UNCHANGED vars
  BY <1>15, StutterFolders
<1> QED  BY <1>1, <1>2, <1>3, <1>4, <1>5, <1>6, <1>7, <1>8, <1>9, <1>10, <1>11, <1>12, <1>13, <1>14, <1>15
         DEF Next, Work

\* A game folder without a mark holds the whole game: however its copy ended, whatever the tree, and
\* whatever the engine, the user and the disk made of it (my_game_copy and what the main menu does after).
THEOREM UnmarkedGamesAreWhole ==
  ASSUME Lone
  PROVE  Spec => []UnmarkedIsWhole
<1>1. Init => FolderInv
  BY InitFolders
<1>2. FolderInv /\ [Next]_vars => FolderInv'
  BY FoldersInductive
<1>3. FolderInv => UnmarkedIsWhole
  BY DEF FolderInv, WholeInv, UnmarkedIsWhole, Unsplit
<1> QED  BY <1>1, <1>2, <1>3, PTL DEF Spec

\* A move never deletes a file of the source that is not whole at the destination (the copy, the
\* deletion of the source and the move by renaming), where files are not lost
\* for the reasons that Lone and Certain name.
THEOREM FoldersLoseNothing ==
  ASSUME Lone, Certain
  PROVE  Spec => []MoveLosesNothing
<1>1. Init => FolderInv
  BY InitFolders
<1>2. FolderInv /\ [Next]_vars => FolderInv'
  BY FoldersInductive
<1>3. FolderInv => MoveLosesNothing
  BY DEF FolderInv
<1> QED  BY <1>1, <1>2, <1>3, PTL DEF Spec
=============================================================================
