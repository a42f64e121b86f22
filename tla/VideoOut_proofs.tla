--------------------------- MODULE VideoOut_proofs ---------------------------
(***************************************************************************)
(* Proofs about the video output for any stream and any number of frames:  *)
(* FramesSound, and that it implements Playback.  The inductive invariant  *)
(* VideoInv says where vpost is in its stream, that every frame is in one  *)
(* place, which field each frame in use holds, and which frame is on       *)
(* display.  The last part is about the clocks: DecisionRight, from        *)
(* ClockInv.                                                               *)
(***************************************************************************)
EXTENDS MCVideoOut, FiniteSetTheorems, SequenceTheorems, TLAPS

passed == made - Len(queue)

\* vpost has a frame in hand while it fills and queues it, and knows how many fields are left.
PostInv ==
  /\ hand # NoFrame <=> vpost \in {"exec", "push"}
  /\ vpost \in {"wait", "going", "asleep", "fetch"} => todo = 0
  /\ vpost \in {"pop", "exec", "push"} => todo > 0
  /\ vpost \notin {"error", "ended"} => made + todo = FieldsUpTo[taken]

\* The end of the sequence is announced to vpost when every picture was, and to vdisp when every
\* field is queued.
EndInv ==
  /\ ~recvP.seq \/ ~thrP.seq => told = Pictures
  /\ ~recvD.seq \/ ~thrD.seq => vpost = "ended" /\ made = Total
  /\ video_end => vpost = "ended" /\ made = Total /\ vdisp \in {"end", "flush", "ended"}

InHand == IF hand = NoFrame THEN 0 ELSE 1
InUse == IF last = NoFrame \/ vdisp = "take" THEN 0 ELSE 1

PlaceInv ==
  /\ FramesConserved
  /\ Len(pool) + Len(queue) + InHand + InUse = FrameNum

\* A queued frame holds its field, and the last frame of vdisp the field that passed last.
DataInv ==
  /\ \A i \in 1 .. Len(queue) : data[queue[i].frame] = passed + i
  /\ vpost = "push" => data[hand] = made + 1
  /\ last # NoFrame /\ vdisp # "take" => data[last] = passed
  /\ drained <= passed
  /\ vdisp \in {"drain", "flush", "ended"} => last = NoFrame
  /\ vdisp = "drain" => cFrame = NoFrame /\ shown = 0 /\ \A i \in 1 .. Len(queue) : queue[i].valid

\* The head of the queue is on display, to be shown again or to be taken off the queue.
HeadShown ==
  \/ vdisp \in {"swap", "take"} /\ ~skipping
  \/ queue # << >> /\ ~queue[1].valid

\* What cFrame points to is still meant to be looked at.
Displayed == cFrame # NoFrame /\ ~released /\ vdisp \notin {"flush", "ended"}

ShowInv ==
  /\ \A i \in 2 .. Len(queue) : queue[i].valid
  /\ vdisp \in {"swap", "take"} => queue # << >> /\ (skipping => queue[1].valid)
  /\ Displayed => /\ ~(vdisp = "take" /\ skipping)
                  /\ cFrame = IF HeadShown THEN queue[1].frame ELSE last
                  /\ data[cFrame] = shown
  /\ shown <= passed + (IF HeadShown THEN 1 ELSE 0)

VideoInv == TypeOK /\ PostInv /\ EndInv /\ PlaceInv /\ DataInv /\ ShowInv
-----------------------------------------------------------------------------
\* What VideoOutAssumption says of the pool and of the stream.
LEMMA Streams ==
  /\ FrameNum \in Nat /\ FrameNum > 0 /\ Pictures \in Nat /\ Pictures > 0
  /\ Presentation \in Nat /\ Presentation > 0 /\ MaxWait \in Nat
  /\ Total \in Nat /\ FieldsUpTo[0] = 0
  /\ \A n \in 0 .. Pictures : FieldsUpTo[n] \in Nat /\ FieldsUpTo[n] <= Total
  /\ \A n \in 0 .. Pictures - 1 : /\ Fields(n + 1) \in {1, 2}
                                  /\ FieldsUpTo[n] + Fields(n + 1) = FieldsUpTo[n + 1]
<1>1. /\ FrameNum \in Nat \ {0} /\ Pictures \in Nat \ {0} /\ Presentation \in Nat \ {0}
      /\ MaxWait \in Nat
      /\ FieldsUpTo \in [0 .. Pictures -> Nat] /\ FieldsUpTo[0] = 0
      /\ \A n \in 1 .. Pictures : FieldsUpTo[n] - FieldsUpTo[n - 1] \in {1, 2}
      /\ \A m, n \in 0 .. Pictures : m <= n => FieldsUpTo[m] <= FieldsUpTo[n]
  BY VideoOutAssumption DEF VideoOutAssumption
<1>2. \A n \in 0 .. Pictures : FieldsUpTo[n] \in Nat /\ FieldsUpTo[n] <= Total
  BY <1>1 DEF Total
<1>3. ASSUME NEW n \in 0 .. Pictures - 1
      PROVE  Fields(n + 1) \in {1, 2} /\ FieldsUpTo[n] + Fields(n + 1) = FieldsUpTo[n + 1]
  <2>. DEFINE k == n + 1
  <2>1. k \in 1 .. Pictures /\ k \in 0 .. Pictures /\ k - 1 = n /\ n \in 0 .. Pictures
    BY <1>1
  <2>. HIDE DEF k
  <2>2. FieldsUpTo[k] - FieldsUpTo[n] \in {1, 2} /\ Fields(k) = FieldsUpTo[k] - FieldsUpTo[n]
    BY <1>1, <2>1 DEF Fields
  <2>3. Fields(k) \in {1, 2} /\ FieldsUpTo[n] + Fields(k) = FieldsUpTo[k]
    BY <1>2, <2>1, <2>2
  <2>. QED
    BY <2>3 DEF k
<1>. QED
  BY <1>1, <1>2, <1>3 DEF Total

-----------------------------------------------------------------------------
\* The positions among the first n at which g holds f.
Hits(g, n, f) == { i \in 1 .. n : g[i] = f }
One(x, f) == IF x = f THEN 1 ELSE 0

LEMMA HitsFinite ==
  ASSUME NEW g, NEW n \in Nat, NEW f
  PROVE  IsFiniteSet(Hits(g, n, f)) /\ Cardinality(Hits(g, n, f)) \in Nat
<1>1. IsFiniteSet(1 .. n)
  BY FS_Interval
<1>2. Hits(g, n, f) \in SUBSET (1 .. n)
  BY DEF Hits
<1>. QED
  BY <1>1, <1>2, FS_Subset, FS_CardinalityType

LEMMA HitsAppended ==
  ASSUME NEW g, NEW h, NEW n \in Nat, NEW f, \A i \in 1 .. n : h[i] = g[i]
  PROVE  Cardinality(Hits(h, n + 1, f)) = Cardinality(Hits(g, n, f)) + One(h[n + 1], f)
<1>1. n + 1 \notin Hits(g, n, f)
  BY DEF Hits
<1>2. Hits(h, n + 1, f) = IF h[n + 1] = f THEN Hits(g, n, f) \cup {n + 1} ELSE Hits(g, n, f)
  BY DEF Hits
<1>3. IsFiniteSet(Hits(g, n, f)) /\ Cardinality(Hits(g, n, f)) \in Nat
  BY HitsFinite
<1>4. Cardinality(Hits(g, n, f) \cup {n + 1}) = Cardinality(Hits(g, n, f)) + 1
  BY <1>1, <1>3, FS_AddElement
<1>. QED
  BY <1>2, <1>3, <1>4 DEF One

LEMMA HitsTail ==
  ASSUME NEW g, NEW h, NEW n \in Nat, NEW f, \A i \in 1 .. n : h[i] = g[i + 1]
  PROVE  Cardinality(Hits(g, n + 1, f)) = Cardinality(Hits(h, n, f)) + One(g[1], f)
<1>. DEFINE S == Hits(h, n, f)
            T == Hits(g, n + 1, f) \ {1}
            m == [i \in S |-> i + 1]
<1>1. m \in Bijection(S, T)
  <2>1. m \in [S -> T]
    BY DEF Hits
  <2>2. \A i, j \in S : m[i] = m[j] => i = j
    BY DEF Hits
  <2>3. ASSUME NEW k \in T
        PROVE  \E i \in S : m[i] = k
    <3>1. k - 1 \in S /\ m[k - 1] = k
      BY <2>3 DEF Hits
    <3>. QED
      BY <3>1
  <2>. QED
    BY <2>1, <2>2, <2>3 DEF Bijection, Injection, Surjection, IsInjective
<1>2. Cardinality(T) = Cardinality(S)
  BY <1>1, HitsFinite, FS_Bijection DEF ExistsBijection
<1>3. IsFiniteSet(Hits(g, n + 1, f)) /\ Cardinality(Hits(g, n + 1, f)) \in Nat
  BY HitsFinite
<1>4. Cardinality(T) = IF 1 \in Hits(g, n + 1, f) THEN Cardinality(Hits(g, n + 1, f)) - 1
                                                  ELSE Cardinality(Hits(g, n + 1, f))
  BY <1>3, FS_RemoveElement
<1>5. 1 \in Hits(g, n + 1, f) <=> g[1] = f
  BY DEF Hits
<1>. QED
  BY <1>2, <1>3, <1>4, <1>5 DEF One

LEMMA HitsSome ==
  ASSUME NEW g, NEW n \in Nat, NEW f, NEW i \in 1 .. n, g[i] = f
  PROVE  Cardinality(Hits(g, n, f)) >= 1
<1>1. IsFiniteSet(Hits(g, n, f)) /\ Cardinality(Hits(g, n, f)) \in Nat /\ i \in Hits(g, n, f)
  BY HitsFinite DEF Hits
<1>2. Cardinality(Hits(g, n, f)) # 0
  BY <1>1, FS_EmptySet
<1>. QED
  BY <1>1, <1>2

-----------------------------------------------------------------------------
\* How often a frame is in the pool and in the queue.
Entry == [frame : Frame, prsn : 1 .. Presentation, valid : BOOLEAN]
FramesOf(q) == [i \in 1 .. Len(q) |-> q[i].frame]
InPool(p, f) == Cardinality(Hits(p, Len(p), f))
InQueue(q, f) == Cardinality(Hits(FramesOf(q), Len(q), f))

LEMMA PoolPush ==
  ASSUME NEW p \in Seq(Frame), NEW x \in Frame
  PROVE  /\ Append(p, x) \in Seq(Frame) /\ Len(Append(p, x)) = Len(p) + 1
         /\ \A f : InPool(Append(p, x), f) = InPool(p, f) + One(x, f)
<1>1. /\ Append(p, x) \in Seq(Frame) /\ Len(Append(p, x)) = Len(p) + 1 /\ Len(p) \in Nat
      /\ \A i \in 1 .. Len(p) : Append(p, x)[i] = p[i]
      /\ Append(p, x)[Len(p) + 1] = x
  BY AppendProperties, LenProperties
<1>. DEFINE h == Append(p, x)
            n == Len(p)
<1>. HIDE DEF h, n
<1>2. n \in Nat /\ \A i \in 1 .. n : h[i] = p[i]
  BY <1>1 DEF h, n
<1>3. \A f : Cardinality(Hits(h, n + 1, f)) = Cardinality(Hits(p, n, f)) + One(h[n + 1], f)
  BY <1>2, HitsAppended
<1>. QED
  BY <1>1, <1>3 DEF InPool, h, n

LEMMA PoolPop ==
  ASSUME NEW p \in Seq(Frame), p # << >>
  PROVE  /\ SubSeq(p, 1, Len(p) - 1) \in Seq(Frame)
         /\ Len(SubSeq(p, 1, Len(p) - 1)) = Len(p) - 1 /\ p[Len(p)] \in Frame
         /\ \A f : InPool(p, f) = InPool(SubSeq(p, 1, Len(p) - 1), f) + One(p[Len(p)], f)
<1>1. Len(p) \in Nat /\ Len(p) > 0 /\ \A i \in 1 .. Len(p) : p[i] \in Frame
  BY EmptySeq, LenProperties, ElementOfSeq
<1>. DEFINE g == SubSeq(p, 1, Len(p) - 1)
            n == Len(p) - 1
<1>2. n \in Nat /\ \A i \in 1 .. n : p[i] \in Frame
  BY <1>1
<1>3. /\ g \in Seq(Frame) /\ Len(g) = (IF 1 <= n THEN n - 1 + 1 ELSE 0)
      /\ \A i \in 1 .. n - 1 + 1 : g[i] = p[1 + i - 1]
  BY <1>2, SubSeqProperties
<1>. HIDE DEF g, n
<1>4. Len(g) = n /\ \A i \in 1 .. n : p[i] = g[i]
  BY <1>2, <1>3
<1>5. \A f : Cardinality(Hits(p, n + 1, f)) = Cardinality(Hits(g, n, f)) + One(p[n + 1], f)
  BY <1>2, <1>4, HitsAppended
<1>6. n + 1 = Len(p)
  BY <1>1 DEF n
<1>7. g \in Seq(Frame) /\ Len(g) = Len(p) - 1 /\ p[Len(p)] \in Frame
  BY <1>1, <1>3, <1>4 DEF n
<1>8. \A f : InPool(p, f) = InPool(g, f) + One(p[Len(p)], f)
  BY <1>4, <1>5, <1>6 DEF InPool
<1>. QED
  BY <1>7, <1>8 DEF g

LEMMA QueueFacts ==
  ASSUME NEW q \in Seq(Entry)
  PROVE  /\ Len(q) \in Nat
         /\ \A i \in 1 .. Len(q) : /\ q[i] \in Entry /\ q[i].frame \in Frame
                                   /\ q[i].prsn \in 1 .. Presentation /\ q[i].valid \in BOOLEAN
                                   /\ q[i].frame # NoFrame
         /\ q # << >> => Len(q) > 0 /\ Head(q) = q[1] /\ 1 \in 1 .. Len(q)
         /\ Len(q) > 0 => q # << >>
<1>1. Len(q) \in Nat /\ \A i \in 1 .. Len(q) : q[i] \in Entry
  BY LenProperties, ElementOfSeq
<1>2. \A e \in Entry : /\ e.frame \in Frame /\ e.frame # NoFrame
                       /\ e.prsn \in 1 .. Presentation /\ e.valid \in BOOLEAN
  BY Streams DEF Entry, Frame, NoFrame
<1>3. q # << >> => Len(q) > 0 /\ Head(q) = q[1]
  BY EmptySeq
<1>4. Len(q) > 0 => q # << >>
  BY EmptySeq
<1>. QED
  BY <1>1, <1>2, <1>3, <1>4

LEMMA QueuePush ==
  ASSUME NEW q \in Seq(Entry), NEW e \in Entry
  PROVE  /\ Append(q, e) \in Seq(Entry) /\ Len(Append(q, e)) = Len(q) + 1
         /\ \A i \in 1 .. Len(q) : Append(q, e)[i] = q[i]
         /\ Append(q, e)[Len(q) + 1] = e
         /\ \A f : InQueue(Append(q, e), f) = InQueue(q, f) + One(e.frame, f)
<1>1. /\ Append(q, e) \in Seq(Entry) /\ Len(Append(q, e)) = Len(q) + 1 /\ Len(q) \in Nat
      /\ \A i \in 1 .. Len(q) : Append(q, e)[i] = q[i]
      /\ Append(q, e)[Len(q) + 1] = e
  BY AppendProperties, LenProperties
<1>. DEFINE h == FramesOf(Append(q, e))
            g == FramesOf(q)
            n == Len(q)
<1>2. n \in Nat /\ \A i \in 1 .. n : h[i] = g[i]
  BY <1>1 DEF FramesOf
<1>3. h[n + 1] = e.frame
  BY <1>1 DEF FramesOf
<1>. HIDE DEF h, g, n
<1>4. \A f : Cardinality(Hits(h, n + 1, f)) = Cardinality(Hits(g, n, f)) + One(h[n + 1], f)
  BY <1>2, HitsAppended
<1>. QED
  BY <1>1, <1>3, <1>4 DEF InQueue, h, g, n

LEMMA QueuePop ==
  ASSUME NEW q \in Seq(Entry), q # << >>
  PROVE  /\ Tail(q) \in Seq(Entry) /\ Len(Tail(q)) = Len(q) - 1
         /\ \A i \in 1 .. Len(q) - 1 : Tail(q)[i] = q[i + 1]
         /\ \A f : InQueue(q, f) = InQueue(Tail(q), f) + One(q[1].frame, f)
<1>1. /\ Tail(q) \in Seq(Entry) /\ Len(Tail(q)) = Len(q) - 1 /\ Len(q) \in Nat /\ Len(q) > 0
      /\ \A i \in 1 .. Len(Tail(q)) : Tail(q)[i] = q[i + 1]
  BY HeadTailProperties, QueueFacts
<1>. DEFINE h == FramesOf(Tail(q))
            g == FramesOf(q)
            n == Len(q) - 1
<1>2. n \in Nat /\ \A i \in 1 .. n : h[i] = g[i + 1]
  BY <1>1 DEF FramesOf
<1>3. g[1] = q[1].frame /\ n + 1 = Len(q)
  BY <1>1 DEF FramesOf
<1>. HIDE DEF h, g
<1>. HIDE DEF n
<1>4. \A f : Cardinality(Hits(g, n + 1, f)) = Cardinality(Hits(h, n, f)) + One(g[1], f)
  BY <1>2, HitsTail
<1>5. n = Len(Tail(q))
  BY <1>1 DEF n
<1>6. \A f : InQueue(q, f) = InQueue(Tail(q), f) + One(q[1].frame, f)
  BY <1>3, <1>4, <1>5 DEF InQueue, h, g
<1>. QED
  BY <1>1, <1>6

LEMMA QueueReplaced ==
  ASSUME NEW q \in Seq(Entry), q # << >>, NEW e \in Entry, e.frame = q[1].frame
  PROVE  /\ [q EXCEPT ![1] = e] \in Seq(Entry) /\ Len([q EXCEPT ![1] = e]) = Len(q)
         /\ [q EXCEPT ![1] = e][1] = e
         /\ \A i \in 2 .. Len(q) : [q EXCEPT ![1] = e][i] = q[i]
         /\ FramesOf([q EXCEPT ![1] = e]) = FramesOf(q)
<1>1. 1 \in 1 .. Len(q) /\ Len(q) \in Nat /\ q \in [1 .. Len(q) -> Entry]
  BY QueueFacts, LenProperties
<1>2. [q EXCEPT ![1] = e] \in Seq(Entry) /\ Len([q EXCEPT ![1] = e]) = Len(q)
  BY <1>1, ExceptSeq
<1>3. /\ [q EXCEPT ![1] = e][1] = e
      /\ \A i \in 2 .. Len(q) : [q EXCEPT ![1] = e][i] = q[i]
  BY <1>1
<1>4. \A i \in 1 .. Len(q) : [q EXCEPT ![1] = e][i].frame = q[i].frame
  BY <1>1, <1>3
<1>. QED
  BY <1>2, <1>3, <1>4 DEF FramesOf

\* An entry whose field was shown and is to be shown again.
LEMMA ShownAgain ==
  ASSUME NEW e \in Entry, e.prsn - 1 \in 1 .. Presentation
  PROVE  ShownOnce(e) \in Entry /\ ShownOnce(e).frame = e.frame /\ ShownOnce(e).valid = FALSE
BY DEF Entry, ShownOnce

-----------------------------------------------------------------------------
SeqOK == pool \in Seq(Frame) /\ queue \in Seq(Entry)

LEMMA Sequences == TypeOK => SeqOK
BY DEF TypeOK, SeqOK, Entry

\* How often a frame is in some place.
Places(p, q, h, l, pc, f) ==
  InPool(p, f) + InQueue(q, f) + One(h, f) + (IF pc # "take" THEN One(l, f) ELSE 0)

AllPlaces == \A f \in Frame : Holders(f) = Places(pool, queue, hand, last, vdisp, f)

LEMMA HoldersAre == SeqOK => AllPlaces
<1>. SUFFICES ASSUME SeqOK, NEW f \in Frame
              PROVE  Holders(f) = Places(pool, queue, hand, last, vdisp, f)
  BY DEF AllPlaces
<1>1. DOMAIN pool = 1 .. Len(pool) /\ DOMAIN queue = 1 .. Len(queue)
  BY LenProperties DEF SeqOK
<1>2. Hits(pool, Len(pool), f) = { i \in DOMAIN pool : pool[i] = f }
  BY <1>1 DEF Hits
<1>3. Hits(FramesOf(queue), Len(queue), f) = { i \in DOMAIN queue : queue[i].frame = f }
  BY <1>1 DEF Hits, FramesOf
<1>4. /\ Cardinality(Hits(pool, Len(pool), f)) \in Nat
      /\ Cardinality(Hits(FramesOf(queue), Len(queue), f)) \in Nat
  BY HitsFinite, LenProperties DEF SeqOK
<1>. QED
  BY <1>2, <1>3, <1>4 DEF Holders, InPool, InQueue, One, Places

LEMMA CountsNat ==
  ASSUME SeqOK, NEW f
  PROVE  InPool(pool, f) \in Nat /\ InQueue(queue, f) \in Nat /\ Len(pool) \in Nat /\ Len(queue) \in Nat
BY HitsFinite, LenProperties DEF SeqOK, InPool, InQueue

\* Frames that were moved from one place to another are still in one place.
LEMMA PlaceMoved ==
  ASSUME TypeOK, PlaceInv, SeqOK',
         Len(pool') + Len(queue') + InHand' + InUse'
           = Len(pool) + Len(queue) + InHand + InUse,
         \A f \in Frame : Places(pool', queue', hand', last', vdisp', f)
                            = Places(pool, queue, hand, last, vdisp, f)
  PROVE  PlaceInv'
<1>1. AllPlaces
  BY Sequences, HoldersAre
<1>2. SeqOK' => AllPlaces'
  BY HoldersAre, PTL
<1>. QED
  BY <1>1, <1>2 DEF PlaceInv, FramesConserved, AllPlaces

USE DEF passed, common, decoder, post, disp, display, frames, vpostOnly, vdispOnly

\* No step loses a frame or has it twice: it leaves it where it is, or moves it.
LEMMA PlaceStep ==
  ASSUME VideoInv, [Next]_vars
  PROVE  SeqOK' /\ PlaceInv'
<1>. USE DEF VideoInv
<1>1. SeqOK /\ FrameNum \in Nat /\ hand \in Frame \cup {NoFrame} /\ last \in Frame \cup {NoFrame}
      /\ NoFrame \notin Frame
  BY Sequences, Streams DEF TypeOK, Frame, NoFrame
<1>. USE DEF SeqOK
<1>2. \A f : /\ InPool(pool, f) \in Nat /\ InQueue(queue, f) \in Nat
             /\ Len(pool) \in Nat /\ Len(queue) \in Nat
             /\ \A x : One(x, f) \in {0, 1} /\ (f # NoFrame => One(NoFrame, f) = 0)
  BY <1>1, CountsNat DEF One
<1>3. ASSUME UNCHANGED << pool, hand, last >>, vdisp' = "take" <=> vdisp = "take",
             queue' \in Seq(Entry), Len(queue') = Len(queue), FramesOf(queue') = FramesOf(queue)
      PROVE  SeqOK' /\ PlaceInv'
  <2>1. SeqOK'
    BY <1>1, <1>3
  <2>2. Len(pool') + Len(queue') + InHand' + InUse' = Len(pool) + Len(queue) + InHand + InUse
    BY <1>3 DEF InHand, InUse
  <2>3. \A f \in Frame : Places(pool', queue', hand', last', vdisp', f)
                           = Places(pool, queue, hand, last, vdisp, f)
    BY <1>3 DEF Places, InQueue
  <2>. QED
    BY <2>1, <2>2, <2>3, PlaceMoved
<1>4. CASE VpostPop
  <2>1. /\ pool # << >> /\ hand' = pool[Len(pool)] /\ pool' = SubSeq(pool, 1, Len(pool) - 1)
        /\ hand = NoFrame /\ UNCHANGED << queue, last, vdisp >>
    BY <1>4 DEF VpostPop, PostInv
  <2>2. /\ pool' \in Seq(Frame) /\ Len(pool') = Len(pool) - 1 /\ hand' \in Frame
        /\ \A f : InPool(pool, f) = InPool(pool', f) + One(hand', f)
    BY <1>1, <2>1, PoolPop
  <2>3. hand = NoFrame /\ hand' # NoFrame /\ UNCHANGED << queue, last, vdisp >>
        /\ \A f : InPool(pool', f) \in Nat
    BY <1>1, <2>1, <2>2, HitsFinite, LenProperties DEF InPool
  <2>4. Len(pool') + Len(queue') + InHand' + InUse' = Len(pool) + Len(queue) + InHand + InUse
    BY <1>2, <2>2, <2>3 DEF InHand, InUse
  <2>5. \A f \in Frame : Places(pool', queue', hand', last', vdisp', f)
                           = Places(pool, queue, hand, last, vdisp, f)
    <3>. SUFFICES ASSUME NEW f \in Frame
                  PROVE  InPool(pool', f) + InQueue(queue', f) + One(hand', f)
                         = InPool(pool, f) + InQueue(queue, f) + One(hand, f)
      BY <2>3 DEF Places
    <3>1. One(hand, f) = 0 /\ One(hand', f) \in {0, 1} /\ InPool(pool', f) \in Nat
      BY <1>1, <1>2, <2>3
    <3>. QED
      BY <1>2, <2>2, <2>3, <3>1
  <2>. QED
    BY <1>1, <2>2, <2>3, <2>4, <2>5, PlaceMoved
<1>5. CASE VpostExec
  <2>1. CASE UNCHANGED << hand, pool >>
    BY <1>1, <1>3, <1>5, <2>1 DEF VpostExec
  <2>2. CASE GiveBack(hand) /\ hand' = NoFrame
    <3>1. pool' = Append(pool, hand) /\ hand \in Frame /\ UNCHANGED << queue, last, vdisp >>
      BY <1>1, <1>5, <2>2 DEF VpostExec, GiveBack, PostInv
    <3>2. /\ pool' \in Seq(Frame) /\ Len(pool') = Len(pool) + 1
          /\ \A f : InPool(pool', f) = InPool(pool, f) + One(hand, f)
      BY <1>1, <3>1, PoolPush
    <3>3. Len(pool') + Len(queue') + InHand' + InUse' = Len(pool) + Len(queue) + InHand + InUse
      BY <1>1, <1>2, <2>2, <3>1, <3>2 DEF InHand, InUse
    <3>4. \A f \in Frame : Places(pool', queue', hand', last', vdisp', f)
                             = Places(pool, queue, hand, last, vdisp, f)
      BY <1>1, <1>2, <2>2, <3>1, <3>2 DEF Places
    <3>. QED
      BY <1>1, <3>1, <3>2, <3>3, <3>4, PlaceMoved
  <2>. QED
    BY <1>5, <2>1, <2>2 DEF VpostExec
<1>6. CASE VpostPush
  <2>. DEFINE e == [frame |-> hand, prsn |-> Presentation, valid |-> TRUE]
  <2>1. queue' = Append(queue, e) /\ hand' = NoFrame /\ hand \in Frame
        /\ UNCHANGED << pool, last, vdisp >>
    BY <1>1, <1>6 DEF VpostPush, PostInv
  <2>2. e \in Entry /\ e.frame = hand
    BY <2>1, Streams DEF Entry
  <2>. HIDE DEF e
  <2>3. /\ queue' \in Seq(Entry) /\ Len(queue') = Len(queue) + 1
        /\ \A f : InQueue(queue', f) = InQueue(queue, f) + One(hand, f)
    BY <1>1, <2>1, <2>2, QueuePush
  <2>4. Len(pool') + Len(queue') + InHand' + InUse' = Len(pool) + Len(queue) + InHand + InUse
    BY <1>1, <1>2, <2>1, <2>3 DEF InHand, InUse
  <2>5. \A f \in Frame : Places(pool', queue', hand', last', vdisp', f)
                           = Places(pool, queue, hand, last, vdisp, f)
    BY <1>1, <1>2, <2>1, <2>3 DEF Places
  <2>. QED
    BY <1>1, <2>1, <2>3, <2>4, <2>5, PlaceMoved
<1>7. ASSUME PopQueue, GiveBack(Head(queue).frame), UNCHANGED << hand, last >>,
             vdisp' = "take" <=> vdisp = "take"
      PROVE  SeqOK' /\ PlaceInv'
  <2>1. /\ queue # << >> /\ queue' = Tail(queue) /\ Head(queue) = queue[1] /\ queue[1].frame \in Frame
        /\ pool' = Append(pool, queue[1].frame)
    BY <1>1, <1>7, QueueFacts DEF PopQueue, GiveBack
  <2>2. /\ queue' \in Seq(Entry) /\ Len(queue') = Len(queue) - 1
        /\ pool' \in Seq(Frame) /\ Len(pool') = Len(pool) + 1
        /\ \A f : InPool(pool', f) = InPool(pool, f) + One(queue[1].frame, f)
        /\ \A f : InQueue(queue, f) = InQueue(queue', f) + One(queue[1].frame, f)
    BY <1>1, <2>1, QueuePop, PoolPush
  <2>3. \A f : InQueue(queue', f) \in Nat
    BY <2>2, HitsFinite, LenProperties DEF InQueue
  <2>4. Len(pool') + Len(queue') + InHand' + InUse' = Len(pool) + Len(queue) + InHand + InUse
    BY <1>2, <1>7, <2>2 DEF InHand, InUse
  <2>5. \A f \in Frame : Places(pool', queue', hand', last', vdisp', f)
                           = Places(pool, queue, hand, last, vdisp, f)
    BY <1>2, <1>7, <2>2, <2>3 DEF Places
  <2>. QED
    BY <2>2, <2>4, <2>5, PlaceMoved
<1>8. ASSUME last # NoFrame, GiveBack(last), vdisp # "take",
             UNCHANGED << queue, hand >>,
             \/ vdisp' = "take" /\ last' = last
             \/ vdisp' # "take" /\ last' = NoFrame
      PROVE  SeqOK' /\ PlaceInv'
  <2>1. last \in Frame /\ pool' = Append(pool, last)
    BY <1>1, <1>8 DEF GiveBack
  <2>2. /\ pool' \in Seq(Frame) /\ Len(pool') = Len(pool) + 1
        /\ \A f : InPool(pool', f) = InPool(pool, f) + One(last, f)
    BY <1>1, <2>1, PoolPush
  <2>3. Len(pool') + Len(queue') + InHand' + InUse' = Len(pool) + Len(queue) + InHand + InUse
    BY <1>1, <1>2, <1>8, <2>2 DEF InHand, InUse
  <2>4. \A f \in Frame : Places(pool', queue', hand', last', vdisp', f)
                           = Places(pool, queue, hand, last, vdisp, f)
    BY <1>1, <1>2, <1>8, <2>2 DEF Places
  <2>. QED
    BY <1>1, <1>8, <2>2, <2>3, <2>4, PlaceMoved
<1>9. ASSUME last = NoFrame, vdisp # "take", UNCHANGED << pool, queue, hand, last >>
      PROVE  SeqOK' /\ PlaceInv'
  <2>1. Len(pool') + Len(queue') + InHand' + InUse' = Len(pool) + Len(queue) + InHand + InUse
    BY <1>1, <1>2, <1>9 DEF InHand, InUse
  <2>2. \A f \in Frame : Places(pool', queue', hand', last', vdisp', f)
                           = Places(pool, queue, hand, last, vdisp, f)
    BY <1>1, <1>2, <1>9 DEF Places
  <2>. QED
    BY <1>1, <1>9, <2>1, <2>2, PlaceMoved
<1>10. CASE VdispTake
  <2>1. /\ queue # << >> /\ queue' = Tail(queue) /\ last' = queue[1].frame /\ last' \in Frame
        /\ vdisp = "take" /\ vdisp' = "wait" /\ UNCHANGED << pool, hand >>
    BY <1>1, <1>10, QueueFacts DEF VdispTake, PopQueue
  <2>2. /\ queue' \in Seq(Entry) /\ Len(queue') = Len(queue) - 1
        /\ \A f : InQueue(queue, f) = InQueue(queue', f) + One(last', f)
    BY <1>1, <2>1, QueuePop
  <2>3. \A f : InQueue(queue', f) \in Nat
    BY <2>2, HitsFinite, LenProperties DEF InQueue
  <2>4. Len(pool') + Len(queue') + InHand' + InUse' = Len(pool) + Len(queue) + InHand + InUse
    BY <1>1, <1>2, <2>1, <2>2 DEF InHand, InUse
  <2>5. \A f \in Frame : Places(pool', queue', hand', last', vdisp', f)
                           = Places(pool, queue, hand, last, vdisp, f)
    BY <1>2, <2>1, <2>2, <2>3 DEF Places
  <2>. QED
    BY <1>1, <2>1, <2>2, <2>4, <2>5, PlaceMoved
<1>11. CASE VdispNormal
  <2>1. CASE UNCHANGED queue /\ vdisp' # "take" /\ vdisp # "take"
    BY <1>1, <1>3, <1>11, <2>1 DEF VdispNormal
  <2>2. CASE ~LastTime(Head(queue)) /\ vdisp' = "wait"
             /\ queue' = [queue EXCEPT ![1] = ShownOnce(@)]
    <3>. DEFINE e == ShownOnce(queue[1])
    <3>1. queue # << >> /\ Head(queue) = queue[1] /\ queue[1] \in Entry /\ queue[1].prsn \in 1 .. Presentation
      BY <1>1, <1>11, QueueFacts DEF VdispNormal
    <3>2. e \in Entry /\ e.frame = queue[1].frame /\ queue' = [queue EXCEPT ![1] = e]
      <4>1. queue' = [queue EXCEPT ![1] = e]
        BY <2>2
      <4>2. ~(queue[1].prsn <= 1)
        BY <2>2, <3>1 DEF LastTime
      <4>3. queue[1].prsn - 1 \in 1 .. Presentation
        BY <3>1, <4>2, Streams
      <4>4. e \in Entry /\ e.frame = queue[1].frame
        BY <3>1, <4>3, ShownAgain
      <4>. QED
        BY <4>1, <4>4
    <3>. HIDE DEF e
    <3>3. queue' \in Seq(Entry) /\ Len(queue') = Len(queue) /\ FramesOf(queue') = FramesOf(queue)
      BY <1>1, <3>1, <3>2, QueueReplaced
    <3>. QED
      BY <1>3, <1>11, <2>2, <3>3 DEF VdispNormal, Showing
  <2>. QED
    BY <1>11, <2>1, <2>2 DEF VdispNormal, Showing
<1>12. CASE VdispDrain
  BY <1>1, <1>3, <1>7, <1>12 DEF VdispDrain
<1>13. CASE VdispFlush
  BY <1>1, <1>3, <1>7, <1>13 DEF VdispFlush
<1>14. CASE VdispSwap
  BY <1>8, <1>9, <1>14 DEF VdispSwap
<1>15. CASE VdispEnd
  BY <1>8, <1>9, <1>15 DEF VdispEnd
<1>16. CASE PictureDecoded \/ AudioReady \/ UNCHANGED vars \/ VpostWait \/ VpostSleep \/ VpostFetch
            \/ VpostEmpty
  BY <1>1, <1>3, <1>16 DEF PictureDecoded, AudioReady, vars, VpostWait, VpostSleep, VpostFetch, VpostEmpty
<1>17. CASE PictureOut \/ SequenceDone \/ Stop \/ VpostOver \/ VpostTell \/ VpostError
  <2>1. UNCHANGED << pool, queue, hand, last >> /\ (vdisp' = "take" <=> vdisp = "take")
    BY <1>17 DEF PictureOut, SequenceDone, Stop, VpostOver, VpostTell, VpostError, ErrorExit, TellVpost,
                 TellVdisp, Woken
  <2>. QED
    BY <1>1, <1>3, <2>1
<1>18. CASE VdispWait \/ VdispSleep \/ VdispReady \/ VdispNotYet \/ VdispNothing \/ VdispHold \/ VdispSkip
  <2>1. UNCHANGED << pool, queue, hand, last >> /\ vdisp' # "take" /\ vdisp # "take"
    BY <1>18 DEF VdispWait, VdispSleep, VdispReady, VdispNotYet, VdispNothing, VdispHold, VdispSkip,
                 Showing
  <2>. QED
    BY <1>1, <1>3, <2>1
<1>. QED
  BY <1>4, <1>5, <1>6, <1>10, <1>11, <1>12, <1>13, <1>14, <1>15, <1>16, <1>17, <1>18
     DEF Next, Decoder, Vpost, Vdisp

-----------------------------------------------------------------------------
\* A step that is not one of vpost wakes it at most, and changes nothing of its picture.
LEMMA OtherThanVpost ==
  ASSUME [Next]_vars, ~Vpost
  PROVE  /\ UNCHANGED << taken, todo, made, hand, thrP, data >>
         /\ vpost' = vpost \/ (vpost = "asleep" /\ vpost' = "wait")
<1>1. CASE Decoder \/ AudioReady \/ Stop \/ UNCHANGED vars
  BY <1>1 DEF Decoder, PictureDecoded, PictureOut, SequenceDone, AudioReady, Stop, ErrorExit, TellVpost,
              Woken, vars
<1>2. CASE Vdisp
  BY <1>2 DEF Vdisp, VdispDrain, VdispWait, VdispSleep, VdispReady, VdispNotYet, VdispNothing,
              VdispNormal, VdispHold, VdispSkip, VdispSwap, VdispTake, VdispEnd, VdispFlush,
              PopQueue, Woken
<1>. QED
  BY <1>1, <1>2 DEF Next

\* A step that is not one of vdisp wakes it at most, and changes nothing of its frames.
LEMMA OtherThanVdisp ==
  ASSUME [Next]_vars, ~Vdisp
  PROVE  /\ UNCHANGED << last, waited, skipping, cFrame, shown, released, thrD, drained >>
         /\ UNCHANGED << video_ready, video_end >>
         /\ vdisp' = vdisp \/ (vdisp = "asleep" /\ vdisp' = "wait")
<1>1. CASE Decoder \/ AudioReady \/ Stop \/ UNCHANGED vars
  BY <1>1 DEF Decoder, PictureDecoded, PictureOut, SequenceDone, AudioReady, Stop, ErrorExit, TellVpost,
              Woken, vars
<1>2. CASE Vpost
  BY <1>2 DEF Vpost, VpostWait, VpostSleep, VpostFetch, VpostEmpty, VpostOver, VpostPop, VpostExec,
              VpostPush, VpostTell, VpostError, ErrorExit, TellVdisp, Woken
<1>. QED
  BY <1>1, <1>2 DEF Next

LEMMA PostStep ==
  ASSUME VideoInv, [Next]_vars
  PROVE  PostInv'
<1>. USE DEF VideoInv
<1>1. /\ todo \in Nat /\ made \in Nat /\ taken \in Nat /\ hand \in Frame \cup {NoFrame}
      /\ taken <= decoded /\ decoded <= Pictures /\ decoded \in Nat
  BY Streams DEF TypeOK
<1>2. CASE ~Vpost
  BY <1>2, OtherThanVpost DEF PostInv
<1>3. CASE VpostWait \/ VpostSleep \/ VpostEmpty \/ VpostOver
  BY <1>3 DEF VpostWait, VpostSleep, VpostEmpty, VpostOver, PostInv
<1>4. CASE VpostFetch
  <2>1. CASE vpost' = "error"
    BY <1>4, <2>1 DEF VpostFetch, PostInv
  <2>2. CASE vpost' = "pop" /\ todo' = Fields(taken + 1)
    <3>1. /\ taken \in 0 .. Pictures - 1 /\ taken' = taken + 1 /\ made' = made /\ hand' = hand
          /\ todo = 0 /\ hand = NoFrame /\ made + todo = FieldsUpTo[taken]
      BY <1>1, <1>4, <2>2, Streams DEF VpostFetch, PostInv
    <3>2. Fields(taken + 1) > 0 /\ FieldsUpTo[taken] + Fields(taken + 1) = FieldsUpTo[taken + 1]
          /\ Fields(taken + 1) \in Int
      BY <3>1, Streams
    <3>. QED
      BY <1>1, <2>2, <3>1, <3>2 DEF PostInv
  <2>. QED
    BY <1>4, <2>1, <2>2 DEF VpostFetch
<1>5. CASE VpostPop
  <2>1. hand' = pool[Len(pool)] /\ pool # << >> /\ pool \in Seq(Frame)
    BY <1>5 DEF VpostPop, TypeOK
  <2>2. hand' # NoFrame
    BY <2>1, PoolPop DEF Frame, NoFrame
  <2>. QED
    BY <1>5, <2>2 DEF VpostPop, PostInv
<1>6. CASE VpostExec
  BY <1>6 DEF VpostExec, PostInv
<1>7. CASE VpostPush
  BY <1>1, <1>7 DEF VpostPush, PostInv
<1>8. CASE VpostTell
  BY <1>1, <1>8 DEF VpostTell, PostInv
<1>9. CASE VpostError
  BY <1>9 DEF VpostError, ErrorExit, Woken, PostInv
<1>. QED
  BY <1>2, <1>3, <1>4, <1>5, <1>6, <1>7, <1>8, <1>9 DEF Vpost

\* Whoever is told that the sequence is over is told by someone who saw its end.
LEMMA EndStep ==
  ASSUME VideoInv, [Next]_vars
  PROVE  EndInv'
<1>. USE DEF VideoInv
<1>1. /\ recvP \in Status /\ thrP \in Status /\ recvD \in Status /\ thrD \in Status
      /\ told \in Nat /\ told <= decoded /\ taken <= decoded /\ decoded <= Pictures
      /\ decoded \in Nat /\ taken \in Nat /\ Pictures \in Nat /\ video_end \in BOOLEAN
  BY Streams DEF TypeOK
<1>2. told' = told \/ (told < decoded /\ told' = told + 1)
  BY DEF Next, Decoder, PictureDecoded, PictureOut, SequenceDone, AudioReady, Stop, ErrorExit, vars, Vpost,
         VpostWait, VpostSleep, VpostFetch, VpostEmpty, VpostOver, VpostPop, VpostExec, VpostPush,
         VpostTell, VpostError, Vdisp, VdispDrain, VdispWait, VdispSleep, VdispReady, VdispNotYet,
         VdispNothing, VdispNormal, VdispHold, VdispSkip, VdispSwap, VdispTake, VdispEnd, VdispFlush
<1>3. ~recvP'.seq \/ ~thrP'.seq => told' = Pictures
  <2>1. CASE SequenceDone
    BY <1>1, <2>1 DEF SequenceDone
  <2>2. CASE ~SequenceDone
    <3>1. (recvP'.seq = recvP.seq) /\ (thrP'.seq = thrP.seq \/ thrP'.seq = recvP.seq)
      BY <1>1, <2>2 DEF Status, Next, Decoder, PictureDecoded, PictureOut, AudioReady, Stop, ErrorExit, TellVpost,
         vars, Vpost, VpostWait, VpostSleep, VpostFetch, VpostEmpty, VpostOver, VpostPop, VpostExec,
         VpostPush, VpostTell, VpostError, Vdisp, VdispDrain, VdispWait, VdispSleep, VdispReady,
         VdispNotYet, VdispNothing, VdispNormal, VdispHold, VdispSkip, VdispSwap, VdispTake, VdispEnd,
         VdispFlush
    <3>. QED
      BY <1>1, <1>2, <3>1 DEF EndInv
  <2>. QED
    BY <2>1, <2>2
<1>4. vpost = "ended" => vpost' = "ended" /\ made' = made
  <2>1. CASE Vpost
    BY <2>1 DEF Vpost, VpostWait, VpostSleep, VpostFetch, VpostEmpty, VpostOver, VpostPop, VpostExec, VpostPush,
                VpostTell, VpostError
  <2>. QED
    BY <2>1, OtherThanVpost
<1>5. ~recvD'.seq \/ ~thrD'.seq => vpost' = "ended" /\ made' = Total
  <2>1. CASE VpostOver
    <3>1. /\ vpost = "fetch" /\ taken = decoded /\ ~thrP.seq /\ vpost' = "ended" /\ made' = made
      BY <2>1 DEF VpostOver, SequenceOver, Empty
    <3>2. taken = Pictures
      BY <1>1, <3>1 DEF EndInv
    <3>3. made + todo = FieldsUpTo[taken] /\ todo = 0 /\ made \in Nat
      BY <3>1 DEF PostInv, TypeOK
    <3>. QED
      BY <3>1, <3>2, <3>3 DEF Total
  <2>2. CASE ~VpostOver
    <3>1. (recvD'.seq = recvD.seq) /\ (thrD'.seq = thrD.seq \/ thrD'.seq = recvD.seq)
      BY <1>1, <2>2 DEF Status, Next, Decoder, PictureDecoded, PictureOut, SequenceDone, AudioReady, Stop,
         ErrorExit, TellVdisp,
         vars, Vpost, VpostWait, VpostSleep, VpostFetch, VpostEmpty, VpostPop, VpostExec,
         VpostPush, VpostTell, VpostError, Vdisp, VdispDrain, VdispWait, VdispSleep, VdispReady,
         VdispNotYet, VdispNothing, VdispNormal, VdispHold, VdispSkip, VdispSwap, VdispTake, VdispEnd,
         VdispFlush
    <3>. QED
      BY <1>1, <1>4, <3>1 DEF EndInv
  <2>. QED
    BY <2>1, <2>2
<1>6. video_end' => vpost' = "ended" /\ made' = Total /\ vdisp' \in {"end", "flush", "ended"}
  <2>1. CASE ~Vdisp
    BY <1>4, <2>1, OtherThanVdisp DEF EndInv
  <2>2. CASE VdispNothing
    BY <1>1, <1>4, <2>2 DEF VdispNothing, EndInv, Showing
  <2>3. CASE Vdisp /\ ~VdispNothing
    BY <1>4, <2>3 DEF EndInv, Vdisp, VdispDrain, VdispWait, VdispSleep, VdispReady, VdispNotYet,
         VdispNormal, VdispHold, VdispSkip, VdispSwap, VdispTake, VdispEnd, VdispFlush, Showing
  <2>. QED
    BY <2>1, <2>2, <2>3
<1>. QED
  BY <1>3, <1>5, <1>6 DEF EndInv

-----------------------------------------------------------------------------
\* The frame vpost works on is neither queued nor the last one of vdisp.
LEMMA Apart ==
  ASSUME VideoInv, hand # NoFrame
  PROVE  /\ \A i \in 1 .. Len(queue) : queue[i].frame # hand
         /\ last # NoFrame /\ vdisp # "take" => last # hand
<1>1. SeqOK /\ hand \in Frame /\ AllPlaces /\ Holders(hand) = 1
  BY Sequences, HoldersAre DEF VideoInv, TypeOK, PlaceInv, FramesConserved
<1>2. /\ InPool(pool, hand) \in Nat /\ InQueue(queue, hand) \in Nat /\ Len(queue) \in Nat
      /\ One(hand, hand) = 1 /\ One(last, hand) \in {0, 1}
  BY <1>1, CountsNat DEF One
<1>3. InQueue(queue, hand) = 0 /\ (vdisp # "take" => One(last, hand) = 0)
  BY <1>1, <1>2 DEF AllPlaces, Places
<1>4. ASSUME NEW i \in 1 .. Len(queue), queue[i].frame = hand
      PROVE  FALSE
  <2>1. FramesOf(queue)[i] = hand
    BY <1>4 DEF FramesOf
  <2>2. Cardinality(Hits(FramesOf(queue), Len(queue), hand)) >= 1
    BY <1>2, <2>1, HitsSome
  <2>. QED
    BY <1>3, <2>2 DEF InQueue
<1>5. vdisp # "take" => last # hand
  BY <1>3 DEF One
<1>. QED
  BY <1>4, <1>5

\* What the lemmas on the steps need to know of a state.
LEMMA Knowns ==
  ASSUME VideoInv
  PROVE  /\ pool \in Seq(Frame) /\ queue \in Seq(Entry) /\ Len(queue) \in Nat
         /\ made \in Nat /\ made <= Total /\ Total \in Nat /\ todo \in Nat /\ shown \in Nat
         /\ drained \in Nat /\ drained <= passed /\ passed \in Nat
         /\ hand \in Frame \cup {NoFrame} /\ last \in Frame \cup {NoFrame}
         /\ cFrame \in Frame \cup {NoFrame} /\ NoFrame \notin Frame /\ FrameNum \in Nat
         /\ data \in [Frame -> 0 .. Total]
         /\ vpost \in {"exec", "push"} => made + 1 \in 0 .. Total /\ hand \in Frame
         /\ queue # << >> => made - Len(queue) + 1 <= made
<1>1. /\ made \in 0 .. Total /\ todo \in 0 .. 2 /\ drained \in 0 .. Total /\ shown \in 0 .. Total
      /\ taken \in 0 .. Pictures /\ Total \in Nat /\ FrameNum \in Nat
  BY Streams DEF VideoInv, TypeOK
<1>2. pool \in Seq(Frame) /\ queue \in Seq(Entry) /\ Len(queue) \in Nat
  BY Sequences, LenProperties DEF VideoInv, SeqOK
<1>3. /\ hand \in Frame \cup {NoFrame} /\ last \in Frame \cup {NoFrame}
      /\ cFrame \in Frame \cup {NoFrame} /\ NoFrame \notin Frame /\ data \in [Frame -> 0 .. Total]
  BY <1>1 DEF VideoInv, TypeOK, Frame, NoFrame
<1>4. drained <= passed /\ passed \in Nat
  BY <1>1, <1>2 DEF VideoInv, DataInv
<1>5. vpost \in {"exec", "push"} => made + 1 \in 0 .. Total /\ hand \in Frame
  <2>. SUFFICES ASSUME vpost \in {"exec", "push"}
                PROVE  made + 1 \in 0 .. Total /\ hand \in Frame
    OBVIOUS
  <2>1. todo > 0 /\ made + todo = FieldsUpTo[taken] /\ hand # NoFrame
    BY DEF VideoInv, PostInv
  <2>2. FieldsUpTo[taken] <= Total /\ FieldsUpTo[taken] \in Nat
    BY <1>1, Streams
  <2>. QED
    BY <1>1, <1>3, <2>1, <2>2
<1>6. queue # << >> => Len(queue) > 0
  BY <1>2, QueueFacts
<1>. QED
  BY <1>1, <1>2, <1>3, <1>4, <1>5, <1>6

LEMMA TypeStep ==
  ASSUME VideoInv, [Next]_vars
  PROVE  TypeOK'
<1>. USE DEF VideoInv
<1>1. SeqOK' /\ PlaceInv'
  BY PlaceStep
<1>2. /\ pool' \in Seq(Frame) /\ queue' \in Seq(Entry)
      /\ Len(pool') <= FrameNum /\ Len(queue') <= FrameNum
  <2>1. Len(pool') + Len(queue') + InHand' + InUse' = FrameNum /\ InHand' \in {0, 1} /\ InUse' \in {0, 1}
        /\ Len(pool') \in Nat /\ Len(queue') \in Nat /\ FrameNum \in Nat
    BY <1>1, LenProperties, Streams DEF PlaceInv, SeqOK, InHand, InUse
  <2>. QED
    BY <1>1, <2>1 DEF SeqOK
<1>3. /\ mode' \in BOOLEAN /\ video_ready' \in BOOLEAN /\ video_end' \in BOOLEAN
      /\ audio_ready' \in BOOLEAN /\ seqdone' \in BOOLEAN /\ skipping' \in BOOLEAN
      /\ released' \in BOOLEAN /\ slept' \in BOOLEAN
  <2>1. /\ mode \in BOOLEAN /\ video_ready \in BOOLEAN /\ video_end \in BOOLEAN
        /\ audio_ready \in BOOLEAN /\ seqdone \in BOOLEAN /\ skipping \in BOOLEAN
        /\ released \in BOOLEAN /\ slept \in BOOLEAN
    BY DEF TypeOK
  <2>2. CASE Decoder \/ AudioReady \/ Stop \/ UNCHANGED vars
    BY <2>1, <2>2 DEF Decoder, PictureDecoded, PictureOut, SequenceDone, AudioReady, Stop, ErrorExit, vars
  <2>3. CASE Vpost
    <3>1. CASE VpostError
      BY <2>1, <3>1 DEF VpostError, ErrorExit
    <3>2. CASE ~VpostError
      BY <2>1, <2>3, <3>2 DEF Vpost, VpostWait, VpostSleep, VpostFetch, VpostEmpty, VpostOver, VpostPop,
           VpostExec, VpostPush, VpostTell
    <3>. QED
      BY <3>1, <3>2
  <2>4. CASE VdispReady \/ VdispSwap
    BY <2>1, <2>4 DEF VdispReady, VdispSwap
  <2>5. CASE Vdisp /\ ~VdispReady /\ ~VdispSwap
    BY <2>1, <2>5 DEF Vdisp, VdispDrain, VdispWait, VdispSleep, VdispNotYet, VdispNothing, VdispNormal,
         VdispHold, VdispSkip, VdispTake, VdispEnd, VdispFlush, Draw, DrawLast
  <2>. QED
    BY <2>2, <2>3, <2>4, <2>5 DEF Next
<1>4. /\ decoded' \in 0 .. Pictures /\ told' \in 0 .. decoded' /\ taken' \in 0 .. decoded'
      /\ waited' \in 0 .. MaxWait
  <2>1. /\ decoded \in Nat /\ decoded <= Pictures /\ told \in 0 .. decoded /\ taken \in 0 .. decoded
        /\ waited \in 0 .. MaxWait /\ Pictures \in Nat /\ MaxWait \in Nat
    BY Streams DEF TypeOK
  <2>2. CASE Decoder \/ AudioReady \/ Stop \/ UNCHANGED vars
    BY <2>1, <2>2 DEF Decoder, PictureDecoded, PictureOut, SequenceDone, AudioReady, Stop, vars
  <2>3. CASE Vpost
    BY <2>1, <2>3 DEF Vpost, VpostWait, VpostSleep, VpostFetch, VpostEmpty, VpostOver, VpostPop, VpostExec,
         VpostPush, VpostTell, VpostError
  <2>4. CASE Vdisp
    BY <2>1, <2>4 DEF Vdisp, VdispDrain, VdispWait, VdispSleep, VdispReady, VdispNotYet, VdispNothing,
         VdispNormal, VdispHold, VdispSkip, VdispSwap, VdispTake, VdispEnd, VdispFlush
  <2>. QED
    BY <2>2, <2>3, <2>4 DEF Next
<1>5. /\ vpost' \in {"wait", "going", "asleep", "fetch", "pop", "exec", "push", "tell", "error", "ended"}
      /\ vdisp' \in {"drain", "wait", "going", "asleep", "ready", "show", "swap", "take", "end",
                     "flush", "ended"}
  BY DEF TypeOK, Next, Decoder, PictureDecoded, PictureOut, SequenceDone, AudioReady, Stop, ErrorExit, vars,
         Vpost, VpostWait, VpostSleep, VpostFetch, VpostEmpty, VpostOver, VpostPop, VpostExec, VpostPush,
         VpostTell, VpostError, Vdisp, VdispDrain, VdispWait, VdispSleep, VdispReady, VdispNotYet,
         VdispNothing, VdispNormal, VdispHold, VdispSkip, VdispSwap, VdispTake, VdispEnd, VdispFlush,
         TellVpost, TellVdisp, Woken, PopQueue
<1>6. {recvP', thrP', recvD', thrD'} \subseteq Status
  <2>1. /\ recvP \in Status /\ thrP \in Status /\ recvD \in Status /\ thrD \in Status
        /\ [pic |-> TRUE, seq |-> FALSE] \in Status
    BY DEF TypeOK, Status
  <2>2. ASSUME NEW x \in Status, NEW y \in Status
        PROVE  /\ [x EXCEPT !.pic = TRUE] \in Status /\ [x EXCEPT !.pic = FALSE] \in Status
               /\ [x EXCEPT !.pic = x.pic \/ y.pic] \in Status
    BY DEF Status
  <2>3. [thrD EXCEPT !.pic = @ /\ video_ready'] \in Status
    BY <2>1 DEF Status
  <2>4. CASE Decoder \/ AudioReady \/ Stop \/ UNCHANGED vars
    BY <2>1, <2>2, <2>4 DEF Decoder, PictureDecoded, PictureOut, SequenceDone, AudioReady, Stop, vars,
         TellVpost
  <2>5. CASE Vpost /\ ~VpostWait
    BY <2>1, <2>2, <2>5 DEF Vpost, VpostSleep, VpostFetch, VpostEmpty, VpostOver, VpostPop, VpostExec,
         VpostPush, VpostTell, VpostError, TellVdisp
  <2>6. CASE Vdisp /\ ~VdispWait
    BY <2>1, <2>2, <2>3, <2>6 DEF Vdisp, VdispDrain, VdispSleep, VdispReady, VdispNotYet, VdispNothing,
         VdispNormal, VdispHold, VdispSkip, VdispSwap, VdispTake, VdispEnd, VdispFlush
  <2>7. CASE VpostWait
    <3>1. /\ [recvP EXCEPT !.pic = recvP.pic \/ thrP.pic] \in Status
          /\ [recvP EXCEPT !.pic = FALSE] \in Status
      BY <2>1, <2>2
    <3>2. /\ recvP' \in {[recvP EXCEPT !.pic = recvP.pic \/ thrP.pic], [recvP EXCEPT !.pic = FALSE]}
          /\ thrP' \in {thrP, [recvP EXCEPT !.pic = recvP.pic \/ thrP.pic]}
          /\ UNCHANGED << recvD, thrD >>
      BY <2>7 DEF VpostWait
    <3>. QED
      BY <2>1, <3>1, <3>2
  <2>8. CASE VdispWait
    <3>1. /\ [recvD EXCEPT !.pic = recvD.pic \/ thrD.pic] \in Status
          /\ [recvD EXCEPT !.pic = FALSE] \in Status
      BY <2>1, <2>2
    <3>2. /\ recvD' \in {[recvD EXCEPT !.pic = recvD.pic \/ thrD.pic], [recvD EXCEPT !.pic = FALSE]}
          /\ thrD' \in {thrD, [recvD EXCEPT !.pic = recvD.pic \/ thrD.pic]}
          /\ UNCHANGED << recvP, thrP >>
      BY <2>8 DEF VdispWait
    <3>. QED
      BY <2>1, <3>1, <3>2
  <2>. QED
    BY <2>4, <2>5, <2>6, <2>7, <2>8 DEF Next
<1>7. todo' \in 0 .. 2 /\ made' \in 0 .. Total /\ hand' \in Frame \cup {NoFrame}
  <2>1. CASE ~Vpost
    BY <2>1, OtherThanVpost DEF TypeOK
  <2>2. CASE VpostFetch
    <3>1. taken + 1 \in 1 .. Pictures => Fields(taken + 1) \in 0 .. 2
      <4>1. taken \in Nat
        BY DEF TypeOK
      <4>2. taken + 1 \in 1 .. Pictures => taken \in 0 .. Pictures - 1
        BY <4>1, Streams
      <4>. QED
        BY <4>2, Streams
    <3>2. taken + 1 \in 1 .. Pictures
      BY <2>2, Streams DEF TypeOK, VpostFetch
    <3>. QED
      BY <2>2, <3>1, <3>2 DEF TypeOK, VpostFetch
  <2>3. CASE VpostPush
    BY <2>3, Knowns DEF VpostPush, TypeOK, PostInv
  <2>4. CASE VpostPop
    BY <2>4, PoolPop, Knowns DEF VpostPop, TypeOK
  <2>5. CASE Vpost /\ ~VpostFetch /\ ~VpostPush /\ ~VpostPop
    BY <2>5 DEF TypeOK, Vpost, VpostWait, VpostSleep, VpostEmpty, VpostOver, VpostExec, VpostTell, VpostError
  <2>. QED
    BY <2>1, <2>2, <2>3, <2>4, <2>5
<1>8. data' \in [Frame -> 0 .. Total]
  <2>1. CASE VpostExec
    BY <2>1, Knowns DEF VpostExec
  <2>2. CASE ~VpostExec
    BY <2>2, Knowns, OtherThanVpost DEF Vpost, VpostWait, VpostSleep, VpostFetch, VpostEmpty, VpostOver, VpostPop,
                 VpostPush, VpostTell, VpostError
  <2>. QED
    BY <2>1, <2>2
<1>9. /\ last' \in Frame \cup {NoFrame} /\ cFrame' \in Frame \cup {NoFrame}
      /\ shown' \in 0 .. Total /\ drained' \in 0 .. Total
  <2>1. CASE ~Vdisp
    BY <2>1, OtherThanVdisp DEF TypeOK
  <2>2. queue # << >> => Head(queue).frame \in Frame /\ drained + 1 <= Total
    <3>1. queue # << >> => Head(queue).frame \in Frame
      BY Knowns, QueueFacts
    <3>2. queue # << >> => drained + 1 <= Total
      BY Knowns
    <3>. QED
      BY <3>1, <3>2
  <2>3. /\ last \in Frame \cup {NoFrame} /\ cFrame \in Frame \cup {NoFrame} /\ NoFrame \notin Frame
        /\ shown \in 0 .. Total /\ drained \in 0 .. Total /\ drained \in Nat /\ Total \in Nat
        /\ \A f \in Frame : data[f] \in 0 .. Total
    BY Knowns DEF TypeOK
  <2>4. CASE Vdisp
    BY <2>2, <2>3, <2>4 DEF Vdisp, VdispDrain, VdispWait, VdispSleep, VdispReady, VdispNotYet,
         VdispNothing, VdispNormal, VdispHold, VdispSkip, VdispSwap, VdispTake, VdispEnd, VdispFlush,
         PopQueue, Draw, DrawLast, Showing
  <2>. QED
    BY <2>1, <2>4
<1>. QED
  BY <1>2, <1>3, <1>4, <1>5, <1>6, <1>7, <1>8, <1>9 DEF TypeOK, Entry

\* The step that takes the head off the queue lets its field pass.
LEMMA FieldPasses ==
  ASSUME VideoInv, queue # << >>, queue' = Tail(queue), made' = made
  PROVE  /\ passed' = passed + 1 /\ passed' <= made' /\ Len(queue') = Len(queue) - 1
         /\ Len(queue') \in Nat /\ Head(queue) = queue[1] /\ 1 \in 1 .. Len(queue)
         /\ queue[1].frame \in Frame /\ queue[1].frame # NoFrame
         /\ \A i \in 1 .. Len(queue') : queue'[i] = queue[i + 1] /\ i + 1 \in 1 .. Len(queue)
         /\ queue' # << >> => queue'[1] = queue[2] /\ 2 \in 1 .. Len(queue)
<1>1. /\ Tail(queue) \in Seq(Entry) /\ Len(Tail(queue)) = Len(queue) - 1
      /\ \A i \in 1 .. Len(queue) - 1 : Tail(queue)[i] = queue[i + 1]
  BY Knowns, QueuePop
<1>2. /\ Len(queue) > 0 /\ Head(queue) = queue[1] /\ 1 \in 1 .. Len(queue) /\ Len(queue) \in Nat
      /\ queue[1].frame \in Frame /\ queue[1].frame # NoFrame
  BY Knowns, QueueFacts
<1>3. made \in Nat /\ passed \in Nat
  BY Knowns
<1>4. queue' # << >> => Len(queue') > 0
  BY <1>1, QueueFacts
<1>. QED
  BY <1>1, <1>2, <1>3, <1>4

LEMMA DataStep ==
  ASSUME VideoInv, [Next]_vars
  PROVE  DataInv'
<1>. USE DEF VideoInv
<1>1. /\ Len(queue) \in Nat /\ made \in Nat /\ NoFrame \notin Frame /\ last \in Frame \cup {NoFrame}
      /\ passed \in Nat /\ drained \in Nat /\ hand \in Frame \cup {NoFrame}
      /\ queue \in Seq(Entry) /\ data \in [Frame -> 0 .. Total]
      /\ \A i \in 1 .. Len(queue) : queue[i].frame \in Frame
  BY Knowns, QueueFacts
<1>2. CASE VpostExec
  <2>1. hand # NoFrame /\ vpost = "exec" /\ hand \in Frame
    BY <1>1, <1>2 DEF VpostExec, PostInv
  <2>2. /\ \A i \in 1 .. Len(queue) : queue[i].frame # hand
        /\ last # NoFrame /\ vdisp # "take" => last # hand
    BY <2>1, Apart
  <2>. QED
    BY <1>1, <1>2, <2>1, <2>2 DEF VpostExec, DataInv
<1>3. CASE VpostPush
  <2>. DEFINE e == [frame |-> hand, prsn |-> Presentation, valid |-> TRUE]
  <2>1. queue' = Append(queue, e) /\ made' = made + 1 /\ hand \in Frame /\ vpost = "push" /\ vpost' = "tell"
        /\ UNCHANGED << data, last, vdisp, drained, cFrame, shown >>
    BY <1>1, <1>3 DEF VpostPush, PostInv
  <2>2. e \in Entry /\ e.frame = hand /\ e.valid = TRUE
    BY <2>1, Streams DEF Entry
  <2>. HIDE DEF e
  <2>3. /\ Len(queue') = Len(queue) + 1 /\ queue'[Len(queue) + 1] = e
        /\ \A i \in 1 .. Len(queue) : queue'[i] = queue[i]
    BY <1>1, <2>1, <2>2, QueuePush
  <2>4. passed' = passed
    BY <1>1, <2>1, <2>3
  <2>5. ASSUME NEW i \in 1 .. Len(queue')
        PROVE  data'[queue'[i].frame] = passed' + i /\ (vdisp' = "drain" => queue'[i].valid)
    <3>1. CASE i = Len(queue) + 1
      <4>1. data[hand] = made + 1 /\ passed + i = made + 1
        BY <1>1, <2>1, <3>1 DEF DataInv
      <4>. QED
        BY <2>1, <2>2, <2>3, <2>4, <3>1, <4>1
    <3>2. CASE i \in 1 .. Len(queue)
      BY <2>1, <2>3, <2>4, <3>2 DEF DataInv
    <3>. QED
      BY <1>1, <2>3, <3>1, <3>2
  <2>. QED
    BY <2>1, <2>4, <2>5 DEF DataInv
<1>4. CASE (VdispDrain \/ VdispFlush) /\ queue # << >>
  <2>1. /\ queue' = Tail(queue) /\ UNCHANGED << made, data, hand, last, vdisp, cFrame, shown >>
        /\ vdisp \in {"drain", "flush"} /\ vpost' = Woken(vpost)
        /\ drained' \in {drained, drained + 1}
    BY <1>1, <1>4 DEF VdispDrain, VdispFlush, PopQueue
  <2>2. /\ passed' = passed + 1
        /\ \A i \in 1 .. Len(queue') : queue'[i] = queue[i + 1] /\ i + 1 \in 1 .. Len(queue)
    BY <1>4, <2>1, FieldPasses
  <2>3. \A i \in 1 .. Len(queue') : /\ data'[queue'[i].frame] = passed' + i
                                    /\ vdisp' = "drain" => queue'[i].valid
    BY <1>1, <2>1, <2>2 DEF DataInv
  <2>4. drained' <= passed'
    <3>1. drained <= passed
      BY DEF DataInv
    <3>2. drained \in Nat /\ passed \in Int
      BY <1>1
    <3>3. drained' \in {drained, drained + 1} /\ passed' = passed + 1
      BY <2>1, <2>2
    <3>. QED
      BY <3>1, <3>2, <3>3
  <2>5. last' = NoFrame /\ (vpost' = "push" => vpost = "push")
    BY <2>1 DEF DataInv, Woken
  <2>. QED
    BY <2>1, <2>3, <2>4, <2>5 DEF DataInv
<1>5. CASE VdispTake
  <2>1. /\ queue # << >> /\ queue' = Tail(queue) /\ last' = Head(queue).frame
        /\ UNCHANGED << made, data, hand, drained >>
        /\ vdisp' = "wait" /\ vpost' = Woken(vpost)
    BY <1>5 DEF VdispTake, PopQueue
  <2>2. /\ passed' = passed + 1 /\ last' = queue[1].frame /\ 1 \in 1 .. Len(queue)
        /\ \A i \in 1 .. Len(queue') : queue'[i] = queue[i + 1] /\ i + 1 \in 1 .. Len(queue)
    BY <2>1, FieldPasses
  <2>3. \A i \in 1 .. Len(queue') : data'[queue'[i].frame] = passed' + i
    BY <1>1, <2>1, <2>2 DEF DataInv
  <2>4. data'[last'] = passed' /\ drained' <= passed' /\ (vpost' = "push" => vpost = "push")
    BY <1>1, <2>1, <2>2 DEF DataInv, Woken
  <2>. QED
    BY <2>1, <2>3, <2>4 DEF DataInv
<1>6. CASE VdispNormal
  <2>1. /\ queue # << >> /\ vdisp' \in {"swap", "wait"} /\ vdisp = "show"
        /\ \/ queue' = queue
           \/ queue' = [queue EXCEPT ![1] = ShownOnce(@)]
        /\ UNCHANGED << made, data, hand, last, vpost, drained >>
    BY <1>6 DEF VdispNormal, Showing
  <2>2. Len(queue') = Len(queue) /\ \A i \in 1 .. Len(queue) : queue'[i].frame = queue[i].frame
    <3>1. 1 \in 1 .. Len(queue) /\ queue \in [1 .. Len(queue) -> Entry] /\ queue[1] \in Entry
      BY <1>1, <2>1, QueueFacts, LenProperties
    <3>2. ShownOnce(queue[1]).frame = queue[1].frame
      BY <3>1 DEF ShownOnce, Entry
    <3>. DEFINE e == ShownOnce(queue[1])
    <3>3. queue' = queue \/ queue' = [queue EXCEPT ![1] = e]
      BY <2>1
    <3>. HIDE DEF e
    <3>4. Len([queue EXCEPT ![1] = e]) = Len(queue)
          /\ \A i \in 1 .. Len(queue) : i # 1 => [queue EXCEPT ![1] = e][i] = queue[i]
          /\ [queue EXCEPT ![1] = e][1] = e
      BY <3>1
    <3>. QED
      BY <3>2, <3>3, <3>4 DEF e
  <2>. QED
    BY <1>1, <2>1, <2>2 DEF DataInv
<1>7. CASE (VdispDrain \/ VdispFlush) /\ queue = << >>
  BY <1>1, <1>7 DEF VdispDrain, VdispFlush, DataInv
<1>8. CASE Vpost /\ ~VpostExec /\ ~VpostPush
  <2>1. /\ UNCHANGED << queue, made, data, last, drained, cFrame, shown >> /\ vpost' # "push"
        /\ vdisp' = vdisp \/ (vdisp = "asleep" /\ vdisp' = "wait")
    BY <1>8, OtherThanVdisp DEF Vpost, VpostWait, VpostSleep, VpostFetch, VpostEmpty, VpostOver, VpostPop, VpostTell,
              VpostError, ErrorExit, TellVdisp, Woken
  <2>. QED
    BY <2>1 DEF DataInv
<1>9. CASE ~Vpost /\ ~Vdisp
  <2>1. UNCHANGED << queue, made, data, last, drained, cFrame, shown, hand >>
    BY <1>9 DEF Next, Decoder, PictureDecoded, PictureOut, SequenceDone, AudioReady, Stop, vars
  <2>. QED
    BY <1>9, <2>1, OtherThanVpost, OtherThanVdisp DEF DataInv
<1>10. CASE VdispWait \/ VdispSleep \/ VdispReady \/ VdispNotYet \/ VdispNothing \/ VdispHold \/ VdispSkip
            \/ VdispSwap \/ VdispEnd
  <2>1. /\ UNCHANGED << queue, made, data, hand, vpost, drained >>
        /\ vdisp # "take" /\ vdisp' \notin {"drain", "ended"} /\ (last' = last \/ last' = NoFrame)
        /\ vdisp' = "flush" => last' = NoFrame
    BY <1>10 DEF VdispWait, VdispSleep, VdispReady, VdispNotYet, VdispNothing, VdispHold, VdispSkip,
               VdispSwap, VdispEnd, Showing
  <2>. QED
    BY <2>1 DEF DataInv
<1>. QED
  BY <1>2, <1>3, <1>4, <1>5, <1>6, <1>7, <1>8, <1>9, <1>10 DEF Vdisp

LEMMA ShowStep ==
  ASSUME VideoInv, [Next]_vars
  PROVE  ShowInv'
<1>. USE DEF VideoInv
<1>1. /\ Len(queue) \in Nat /\ made \in Nat /\ NoFrame \notin Frame /\ last \in Frame \cup {NoFrame}
      /\ passed \in Nat /\ shown \in Nat /\ hand \in Frame \cup {NoFrame}
      /\ queue \in Seq(Entry) /\ data \in [Frame -> 0 .. Total] /\ cFrame \in Frame \cup {NoFrame}
      /\ \A i \in 1 .. Len(queue) : queue[i].frame \in Frame
      /\ queue # << >> => 1 \in 1 .. Len(queue) /\ Head(queue) = queue[1]
      /\ queue = << >> <=> Len(queue) = 0
  BY Knowns, QueueFacts
\* Nothing that the display depends on changes.
<1>2. ASSUME UNCHANGED << queue, made, last, skipping, cFrame, shown, released >>,
             \A f \in Frame : f # NoFrame /\ f = cFrame /\ Displayed => data'[f] = data[f],
             vdisp' = vdisp \/ {vdisp, vdisp'} \cap {"swap", "take", "flush", "ended"} = {}
      PROVE  ShowInv'
  <2>1. HeadShown' = HeadShown /\ passed' = passed
    BY <1>2 DEF HeadShown
  <2>2. Displayed' = Displayed
    BY <1>2 DEF Displayed
  <2>. QED
    BY <1>1, <1>2, <2>1, <2>2 DEF ShowInv, Displayed
<1>3. CASE VpostExec
  <2>1. /\ hand # NoFrame /\ vpost = "exec" /\ hand \in Frame
        /\ UNCHANGED << queue, made, last, skipping, cFrame, shown, released, vdisp >>
        /\ data' = data \/ data' = [data EXCEPT ![hand] = made + 1]
    BY <1>1, <1>3 DEF VpostExec, PostInv
  <2>2. /\ \A i \in 1 .. Len(queue) : queue[i].frame # hand
        /\ last # NoFrame /\ vdisp # "take" => last # hand
    BY <2>1, Apart
  <2>3. Displayed => cFrame # hand
    BY <1>1, <2>2 DEF ShowInv, HeadShown, Displayed
  <2>. QED
    BY <1>1, <1>2, <2>1, <2>3
<1>4. CASE VpostPush
  <2>. DEFINE e == [frame |-> hand, prsn |-> Presentation, valid |-> TRUE]
  <2>1. /\ queue' = Append(queue, e) /\ made' = made + 1
        /\ UNCHANGED << data, last, vdisp, skipping, cFrame, shown, released >> /\ hand \in Frame
    BY <1>1, <1>4 DEF VpostPush, PostInv
  <2>2. e \in Entry /\ e.valid = TRUE
    BY <2>1, Streams DEF Entry
  <2>. HIDE DEF e
  <2>3. /\ Len(queue') = Len(queue) + 1 /\ queue'[Len(queue) + 1] = e
        /\ \A i \in 1 .. Len(queue) : queue'[i] = queue[i]
        /\ queue' # << >>
    BY <1>1, <2>1, <2>2, QueuePush, QueueFacts
  <2>4. HeadShown' = HeadShown /\ passed' = passed /\ Displayed' = Displayed
    <3>1. queue = << >> => vdisp \notin {"swap", "take"} /\ queue'[1] = e
      BY <1>1, <2>3 DEF ShowInv
    <3>2. queue # << >> => queue'[1] = queue[1]
      BY <1>1, <2>3
    <3>3. HeadShown' = HeadShown
      BY <2>1, <2>2, <2>3, <3>1, <3>2 DEF HeadShown
    <3>4. Displayed' = Displayed
      BY <2>1 DEF Displayed
    <3>. QED
      BY <1>1, <2>1, <2>3, <3>3, <3>4
  <2>5. \A i \in 2 .. Len(queue') : queue'[i].valid
    BY <1>1, <2>2, <2>3 DEF ShowInv
  <2>6. queue # << >> => queue'[1] = queue[1]
    BY <1>1, <2>3
  <2>7. HeadShown => queue # << >>
    BY DEF HeadShown, ShowInv
  <2>. QED
    BY <1>1, <2>1, <2>3, <2>4, <2>5, <2>6, <2>7 DEF ShowInv
<1>5. CASE (VdispDrain \/ VdispFlush \/ VdispTake) /\ queue # << >>
  <2>1. queue' = Tail(queue) /\ UNCHANGED << made, data, skipping, cFrame, shown, released >>
    BY <1>1, <1>5 DEF VdispDrain, VdispFlush, VdispTake, PopQueue
  <2>2. /\ passed' = passed + 1 /\ Len(queue') = Len(queue) - 1
        /\ \A i \in 1 .. Len(queue') : queue'[i] = queue[i + 1] /\ i + 1 \in 1 .. Len(queue)
        /\ queue' # << >> => queue'[1] = queue[2] /\ 2 \in 1 .. Len(queue)
    BY <1>5, <2>1, FieldPasses
  <2>3. ASSUME NEW i \in 2 .. Len(queue')
        PROVE  queue'[i].valid
    <3>1. Len(queue') \in Int /\ i \in 1 .. Len(queue') /\ i + 1 \in 2 .. Len(queue)
      BY <1>1, <2>2
    <3>2. queue'[i] = queue[i + 1]
      BY <2>2, <3>1
    <3>. QED
      BY <3>1, <3>2 DEF ShowInv
  <2>4. queue' # << >> => queue'[1].valid
    BY <1>1, <2>2 DEF ShowInv
  <2>5. shown' <= passed'
    <3>1. shown <= passed + (IF HeadShown THEN 1 ELSE 0)
      BY DEF ShowInv
    <3>2. shown <= passed + 1
      BY <1>1, <3>1
    <3>. QED
      BY <2>1, <2>2, <3>2
  <2>6. vdisp' \notin {"swap", "take"}
    BY <1>5 DEF VdispDrain, VdispFlush, VdispTake
  <2>7. ~HeadShown' /\ passed' \in Nat
    BY <1>1, <2>2, <2>4, <2>6 DEF HeadShown
  <2>8. Displayed' => cFrame' = last' /\ data'[cFrame'] = shown'
    <3>1. CASE VdispTake
      <4>1. /\ last' = queue[1].frame /\ vdisp = "take"
        BY <1>1, <1>5, <3>1 DEF VdispTake
      <4>2. Displayed' => Displayed
        BY <2>1, <4>1 DEF Displayed
      <4>3. Displayed => HeadShown
        BY <4>1 DEF HeadShown, ShowInv
      <4>. QED
        BY <2>1, <4>1, <4>2, <4>3 DEF ShowInv
    <3>2. CASE VdispDrain \/ VdispFlush
      BY <1>5, <3>2, <2>1 DEF VdispDrain, VdispFlush, Displayed, DataInv
    <3>. QED
      BY <1>5, <3>1, <3>2
  <2>. QED
    BY <2>3, <2>5, <2>6, <2>7, <2>8 DEF ShowInv
<1>6. CASE VdispNormal
  <2>1. /\ queue # << >> /\ vdisp = "show" /\ cFrame' = queue[1].frame /\ shown' = data[queue[1].frame]
        /\ skipping' = FALSE /\ UNCHANGED << made, data, last >>
        /\ \/ vdisp' = "swap" /\ queue' = queue
           \/ vdisp' = "wait" /\ queue' = [queue EXCEPT ![1] = ShownOnce(queue[1])]
    BY <1>1, <1>6 DEF VdispNormal, Showing, Draw
  <2>2. /\ Len(queue') = Len(queue) /\ \A i \in 2 .. Len(queue) : queue'[i] = queue[i]
        /\ queue'[1].frame = queue[1].frame /\ queue' # << >>
        /\ vdisp' = "wait" => queue'[1].valid = FALSE
    <3>1. queue \in [1 .. Len(queue) -> Entry] /\ 1 \in 1 .. Len(queue) /\ queue[1] \in Entry
      BY <1>1, <2>1, QueueFacts, LenProperties
    <3>2. ShownOnce(queue[1]).frame = queue[1].frame /\ ShownOnce(queue[1]).valid = FALSE
      BY <3>1 DEF ShownOnce, Entry
    <3>. DEFINE e == ShownOnce(queue[1])
    <3>3. queue' = queue \/ queue' = [queue EXCEPT ![1] = e]
      BY <2>1
    <3>. HIDE DEF e
    <3>4. /\ Len([queue EXCEPT ![1] = e]) = Len(queue)
          /\ \A i \in 2 .. Len(queue) : [queue EXCEPT ![1] = e][i] = queue[i]
          /\ [queue EXCEPT ![1] = e][1] = e
      BY <3>1
    <3>5. Len(queue') = Len(queue) /\ \A i \in 2 .. Len(queue) : queue'[i] = queue[i]
      BY <3>3, <3>4
    <3>6. queue'[1].frame = queue[1].frame /\ (vdisp' = "wait" => queue'[1].valid = FALSE)
      BY <2>1, <3>2, <3>4 DEF e
    <3>7. queue' # << >>
      BY <1>1, <2>1, <3>5
    <3>. QED
      BY <3>5, <3>6, <3>7
  <2>3. HeadShown' /\ passed' = passed
    BY <2>1, <2>2 DEF HeadShown
  <2>4. data[queue[1].frame] = passed + 1
    BY <1>1, <2>1 DEF DataInv
  <2>. QED
    BY <1>1, <2>1, <2>2, <2>3, <2>4 DEF ShowInv
<1>7. CASE VdispNothing \/ VdispHold
  <2>1. /\ UNCHANGED << queue, made, data, last, skipping >>
        /\ vdisp = "show" /\ vdisp' \in {"wait", "end"}
        /\ queue # << >> => queue[1].valid
        /\ IF last # NoFrame THEN cFrame' = last /\ shown' = data[last] /\ released' = FALSE
                             ELSE UNCHANGED << cFrame, shown, released >>
    BY <1>1, <1>7 DEF VdispNothing, VdispHold, DrawLast, Draw, Showing
  <2>2. ~HeadShown /\ ~HeadShown' /\ passed' = passed
    BY <1>1, <2>1 DEF HeadShown
  <2>3. last # NoFrame => data[last] = passed
    BY <2>1 DEF DataInv
  <2>4. last = NoFrame => Displayed' = Displayed
    BY <2>1 DEF Displayed
  <2>. QED
    BY <1>1, <2>1, <2>2, <2>3, <2>4 DEF ShowInv
<1>8. CASE VdispSkip
  <2>1. /\ UNCHANGED << queue, made, data, last, cFrame, shown, released >>
        /\ vdisp = "show" /\ vdisp' = "swap" /\ skipping' = TRUE /\ queue # << >> /\ queue[1].valid
    BY <1>1, <1>8 DEF VdispSkip, Showing
  <2>2. ~HeadShown /\ ~HeadShown' /\ passed' = passed /\ Displayed' = Displayed
    BY <1>1, <2>1 DEF HeadShown, Displayed
  <2>. QED
    BY <1>1, <2>1, <2>2 DEF ShowInv
<1>9. CASE VdispSwap
  <2>1. /\ UNCHANGED << queue, made, data, last, cFrame, shown, skipping >>
        /\ vdisp = "swap" /\ vdisp' = "take"
        /\ released' = (released \/ (skipping /\ last # NoFrame /\ last = cFrame))
    BY <1>9 DEF VdispSwap
  <2>2. HeadShown' = HeadShown /\ passed' = passed
    BY <2>1 DEF HeadShown
  <2>3. Displayed' => Displayed /\ ~(skipping /\ last # NoFrame /\ last = cFrame)
    BY <2>1 DEF Displayed
  <2>4. skipping => ~HeadShown
    BY <1>1, <2>1 DEF HeadShown, ShowInv
  <2>5. Displayed' => ~skipping
    BY <2>3, <2>4 DEF ShowInv, Displayed
  <2>. QED
    BY <1>1, <2>1, <2>2, <2>3, <2>5 DEF ShowInv
<1>10. CASE VdispEnd
  <2>1. /\ UNCHANGED << queue, made, data, cFrame, shown, skipping >> /\ vdisp = "end" /\ vdisp' = "flush"
    BY <1>10 DEF VdispEnd
  <2>2. HeadShown' = HeadShown /\ passed' = passed /\ ~Displayed'
    BY <2>1 DEF HeadShown, Displayed
  <2>. QED
    BY <1>1, <2>1, <2>2 DEF ShowInv
<1>11. CASE (VdispDrain \/ VdispFlush) /\ queue = << >>
  <2>1. /\ UNCHANGED << queue, made, data, cFrame, shown, skipping, released, last >>
        /\ vdisp \in {"drain", "flush"} /\ vdisp' \in {"wait", "ended"}
        /\ vdisp = "drain" => cFrame = NoFrame
        /\ vdisp = "flush" => vdisp' = "ended"
    BY <1>11 DEF VdispDrain, VdispFlush, DataInv
  <2>2. ~HeadShown /\ ~HeadShown' /\ passed' = passed /\ ~Displayed'
    BY <1>11, <2>1 DEF HeadShown, Displayed
  <2>. QED
    BY <1>1, <2>1, <2>2 DEF ShowInv
<1>12. CASE Vpost /\ ~VpostExec /\ ~VpostPush
  <2>1. /\ UNCHANGED << queue, made, data, last, cFrame, shown, released, skipping >>
        /\ vdisp' = vdisp \/ (vdisp = "asleep" /\ vdisp' = "wait")
    BY <1>12, OtherThanVdisp DEF Vpost, VpostWait, VpostSleep, VpostFetch, VpostEmpty, VpostOver, VpostPop, VpostTell,
              VpostError, ErrorExit, TellVdisp, Woken
  <2>. QED
    BY <1>2, <2>1
<1>13. CASE ~Vpost /\ ~Vdisp
  <2>1. /\ UNCHANGED << queue, made, data, last, cFrame, shown, released, skipping >>
    BY <1>13 DEF Next, Decoder, PictureDecoded, PictureOut, SequenceDone, AudioReady, Stop, vars
  <2>. QED
    BY <1>2, <1>13, <2>1, OtherThanVdisp
<1>14. CASE VdispWait \/ VdispSleep \/ VdispReady \/ VdispNotYet
  <2>1. /\ UNCHANGED << queue, made, data, last, cFrame, shown, released, skipping >>
        /\ {vdisp, vdisp'} \cap {"swap", "take", "flush", "ended"} = {}
    BY <1>14 DEF VdispWait, VdispSleep, VdispReady, VdispNotYet
  <2>. QED
    BY <1>2, <2>1
<1>. QED
  BY <1>3, <1>4, <1>5, <1>6, <1>7, <1>8, <1>9, <1>10, <1>11, <1>12, <1>13, <1>14 DEF Vdisp, VdispTake, PopQueue

-----------------------------------------------------------------------------
LEMMA VideoInit == Init => VideoInv
<1>. SUFFICES ASSUME Init
              PROVE  VideoInv
  OBVIOUS
<1>1. /\ FrameNum \in Nat /\ FrameNum > 0 /\ Total \in Nat /\ Pictures \in Nat /\ MaxWait \in Nat
      /\ NoFrame \notin Frame /\ FieldsUpTo[0] = 0
  BY Streams DEF Frame, NoFrame
<1>2. /\ pool \in Seq(Frame) /\ Len(pool) = FrameNum /\ queue \in Seq(Entry) /\ Len(queue) = 0
      /\ \A i \in 1 .. FrameNum : pool[i] = i
  BY <1>1 DEF Init, Frame
<1>3. TypeOK
  <2>1. Started \in Status
    BY DEF Started, Status
  <2>2. {recvP, thrP, recvD, thrD} \subseteq Status
    BY <2>1 DEF Init
  <2>3. data \in [Frame -> 0 .. Total]
    BY <1>1 DEF Init
  <2>4. /\ mode \in BOOLEAN /\ video_ready \in BOOLEAN /\ video_end \in BOOLEAN /\ audio_ready \in BOOLEAN
        /\ seqdone \in BOOLEAN /\ skipping \in BOOLEAN /\ released \in BOOLEAN /\ slept \in BOOLEAN
    BY DEF Init
  <2>5. /\ decoded = 0 /\ told = 0 /\ taken = 0 /\ todo = 0 /\ made = 0 /\ waited = 0 /\ shown = 0
        /\ drained = 0 /\ hand = NoFrame /\ last = NoFrame /\ cFrame = NoFrame
        /\ vpost = "wait" /\ vdisp = "drain"
    BY DEF Init
  <2>6. queue \in Seq([frame : Frame, prsn : 1 .. Presentation, valid : BOOLEAN])
    BY <1>2 DEF Entry
  <2>. QED
    BY <1>1, <1>2, <2>2, <2>3, <2>4, <2>5, <2>6 DEF TypeOK
<1>4. ASSUME NEW f \in Frame
      PROVE  Holders(f) = 1
  <2>1. Hits(pool, FrameNum, f) = {f} /\ Hits(FramesOf(queue), 0, f) = {}
    BY <1>1, <1>2 DEF Hits, Frame
  <2>2. Cardinality({f}) = 1 /\ Cardinality({}) = 0
    BY FS_Singleton, FS_EmptySet
  <2>3. One(hand, f) = 0 /\ One(last, f) = 0
    BY <1>1 DEF Init, One
  <2>4. InPool(pool, f) = 1 /\ InQueue(queue, f) = 0
    BY <1>2, <2>1, <2>2 DEF InPool, InQueue
  <2>5. Places(pool, queue, hand, last, vdisp, f) = 1
    BY <2>3, <2>4 DEF Init, Places
  <2>. QED
    BY <1>3, <2>5, Sequences, HoldersAre DEF AllPlaces
<1>5. PlaceInv
  BY <1>1, <1>2, <1>4 DEF PlaceInv, FramesConserved, InHand, InUse, Init
<1>6. PostInv /\ EndInv
  BY <1>1 DEF PostInv, EndInv, Init, Started, NoFrame
<1>7. DataInv /\ ShowInv
  BY <1>1, <1>2 DEF DataInv, ShowInv, HeadShown, Displayed, Init, NoFrame
<1>. QED
  BY <1>3, <1>5, <1>6, <1>7 DEF VideoInv

LEMMA VideoInductive == Spec => []VideoInv
<1>1. VideoInv /\ [Next]_vars => VideoInv'
  BY TypeStep, PostStep, EndStep, PlaceStep, DataStep, ShowStep DEF VideoInv
<1>. QED
  BY <1>1, VideoInit, PTL DEF Spec

\* What FramesSound says, for any stream, pool and number of presentations: the threads lose no
\* frame and hold none twice, and a frame on display is not written until a skip gives it back.
THEOREM FramesAlwaysSound == Spec => []FramesSound
<1>1. ASSUME VideoInv
      PROVE  ShownIntact
  <2>. SUFFICES ASSUME Displayed
                PROVE  data[cFrame] = shown /\ ~(vpost = "exec" /\ hand = cFrame)
    BY DEF ShownIntact, Displayed
  <2>1. /\ cFrame = (IF HeadShown THEN queue[1].frame ELSE last) /\ data[cFrame] = shown
        /\ ~HeadShown => last # NoFrame /\ vdisp # "take"
        /\ HeadShown => queue # << >>
    BY <1>1 DEF VideoInv, ShowInv, HeadShown, Displayed
  <2>2. HeadShown => 1 \in 1 .. Len(queue)
    BY <1>1, <2>1, Knowns, QueueFacts
  <2>3. hand # NoFrame => cFrame # hand
    BY <1>1, <2>1, <2>2, Apart
  <2>. QED
    BY <2>1, <2>3 DEF Displayed
<1>2. VideoInv => FramesSound
  BY <1>1 DEF VideoInv, FramesSound, PlaceInv
<1>. QED
  BY <1>2, VideoInductive, PTL

\* The outcome as Playback sees it.
Outcome == IF video_end THEN "complete" ELSE IF vdisp = "ended" THEN "stopped" ELSE "playing"

LEMMA Starts == Init => P!Init
<1>. SUFFICES ASSUME Init
              PROVE  P!Init
  OBVIOUS
<1>1. made = 0 /\ Len(queue) = 0 /\ shown = 0 /\ video_end = FALSE /\ vdisp = "drain"
  BY DEF Init
<1>. QED
  BY <1>1 DEF P!Init

LEMMA Refines ==
  ASSUME VideoInv, VideoInv', [Next]_vars
  PROVE  [P!Next]_P!vars
<1>. USE DEF VideoInv
<1>1. /\ Len(queue) \in Nat /\ made \in Nat /\ passed \in Nat /\ shown \in Nat /\ Total \in Nat
      /\ made <= Total /\ passed <= made /\ video_end \in BOOLEAN
      /\ last \in Frame \cup {NoFrame} /\ queue \in Seq(Entry)
      /\ queue # << >> => passed + 1 <= made /\ Head(queue) = queue[1] /\ 1 \in 1 .. Len(queue)
      /\ queue = << >> <=> Len(queue) = 0
  <2>1. video_end \in BOOLEAN
    BY DEF TypeOK
  <2>2. queue \in Seq(Entry) /\ Len(queue) \in Nat /\ made \in Nat
    BY Knowns
  <2>3. /\ queue # << >> => Head(queue) = queue[1] /\ 1 \in 1 .. Len(queue) /\ Len(queue) > 0
        /\ queue = << >> <=> Len(queue) = 0
    BY <2>2, QueueFacts
  <2>4. queue # << >> => passed + 1 <= made
    BY <2>2, <2>3
  <2>. QED
    BY <2>1, <2>2, <2>3, <2>4, Knowns
<1>2. CASE VpostPush
  <2>1. /\ made' = made + 1 /\ vpost = "push" /\ UNCHANGED << video_end, vdisp, shown >>
        /\ Len(queue') = Len(queue) + 1
    BY <1>1, <1>2, AppendProperties DEF VpostPush
  <2>2. made < Total /\ ~video_end
    BY <1>1, <2>1, Knowns DEF EndInv
  <2>3. P!Convert
    BY <1>1, <2>1, <2>2 DEF P!Convert
  <2>. QED
    BY <2>3 DEF P!Next
<1>3. CASE (VdispDrain \/ VdispFlush \/ VdispTake) /\ queue # << >>
  <2>1. /\ queue' = Tail(queue) /\ UNCHANGED << made, shown, video_end >>
        /\ (vdisp' = "ended" <=> vdisp = "ended")
    BY <1>1, <1>3 DEF VdispDrain, VdispFlush, VdispTake, PopQueue
  <2>2. passed' = passed + 1
    BY <1>3, <2>1, FieldPasses
  <2>3. P!Pass
    BY <1>1, <1>3, <2>1, <2>2 DEF P!Pass
  <2>. QED
    BY <2>3 DEF P!Next
<1>4. CASE VdispNormal
  <2>1. /\ queue # << >> /\ shown' = data[queue[1].frame] /\ vdisp = "show" /\ vdisp' \in {"swap", "wait"}
        /\ UNCHANGED << made, video_end >>
        /\ queue' = queue \/ queue' = [queue EXCEPT ![1] = ShownOnce(queue[1])]
    BY <1>1, <1>4 DEF VdispNormal, Showing, Draw
  <2>2. Len(queue') = Len(queue)
    <3>. DEFINE e == ShownOnce(queue[1])
    <3>1. queue \in [1 .. Len(queue) -> Entry]
      BY <1>1, LenProperties
    <3>2. queue' = queue \/ queue' = [queue EXCEPT ![1] = e]
      BY <2>1
    <3>. HIDE DEF e
    <3>. QED
      BY <1>1, <3>1, <3>2
  <2>3. shown' = passed + 1 /\ shown <= passed + 1 /\ ~video_end
    <3>1. data[queue[1].frame] = passed + 1
      BY <1>1, <2>1 DEF DataInv
    <3>2. shown <= passed + (IF HeadShown THEN 1 ELSE 0)
      BY DEF ShowInv
    <3>3. ~video_end
      BY <2>1 DEF EndInv
    <3>. QED
      BY <1>1, <2>1, <3>1, <3>2, <3>3
  <2>4. P!Show
    BY <1>1, <2>1, <2>2, <2>3 DEF P!Show
  <2>. QED
    BY <2>4 DEF P!Next
<1>5. CASE VdispNothing \/ VdispHold
  <2>1. /\ UNCHANGED << queue, made >> /\ vdisp = "show" /\ vdisp' \in {"wait", "end"}
        /\ queue # << >> => queue[1].valid
        /\ IF last # NoFrame THEN shown' = data[last] ELSE shown' = shown
        /\ \/ video_end' = video_end
           \/ video_end' = TRUE /\ queue = << >> /\ ~thrD.seq
    BY <1>1, <1>5 DEF VdispNothing, VdispHold, DrawLast, Draw, Showing
  <2>2. ~HeadShown /\ passed' = passed /\ ~video_end
    BY <1>1, <2>1 DEF HeadShown, EndInv
  <2>3. shown <= passed /\ (shown' = passed \/ shown' = shown)
    BY <1>1, <2>1, <2>2 DEF ShowInv, DataInv
  <2>4. CASE video_end' = video_end /\ shown' = shown
    BY <2>1, <2>2, <2>4 DEF P!vars
  <2>5. CASE video_end' = video_end /\ shown' = passed
    <3>1. P!Show
      BY <1>1, <2>1, <2>2, <2>3, <2>5 DEF P!Show
    <3>. QED
      BY <3>1 DEF P!Next
  <2>6. CASE video_end' = TRUE /\ queue = << >> /\ ~thrD.seq
    <3>1. made = Total
      BY <2>6 DEF EndInv
    <3>2. P!Complete
      BY <1>1, <2>1, <2>2, <2>3, <2>6, <3>1 DEF P!Complete
    <3>. QED
      BY <3>2 DEF P!Next
  <2>. QED
    BY <2>1, <2>3, <2>4, <2>5, <2>6
<1>6. CASE VdispFlush /\ queue = << >>
  <2>1. /\ UNCHANGED << queue, made, shown, video_end >> /\ vdisp = "flush" /\ vdisp' = "ended"
    BY <1>6 DEF VdispFlush
  <2>2. CASE video_end
    BY <2>1, <2>2 DEF P!vars
  <2>3. CASE ~video_end
    <3>1. P!Stop
      BY <2>1, <2>3 DEF P!Stop
    <3>. QED
      BY <3>1 DEF P!Next
  <2>. QED
    BY <2>2, <2>3
<1>7. ASSUME UNCHANGED << queue, made, shown, video_end >>, vdisp' = "ended" <=> vdisp = "ended"
      PROVE  [P!Next]_P!vars
  BY <1>7 DEF P!vars
<1>8. CASE Vpost /\ ~VpostPush
  <2>1. UNCHANGED << queue, made >>
    BY <1>8 DEF Vpost, VpostWait, VpostSleep, VpostFetch, VpostEmpty, VpostOver, VpostPop, VpostExec,
              VpostTell, VpostError
  <2>2. UNCHANGED << shown, video_end >> /\ (vdisp' = "ended" <=> vdisp = "ended")
    BY <1>8, OtherThanVdisp DEF Vpost, Vdisp, VdispDrain, VdispWait, VdispSleep, VdispReady, VdispNotYet,
         VdispNothing, VdispNormal, VdispHold, VdispSkip, VdispSwap, VdispTake, VdispEnd, VdispFlush,
         VpostWait, VpostSleep, VpostFetch, VpostEmpty, VpostOver, VpostPop, VpostExec,
         VpostTell, VpostError, ErrorExit, TellVdisp, Woken
  <2>. QED
    BY <1>7, <2>1, <2>2
<1>9. CASE ~Vpost /\ ~Vdisp
  <2>1. UNCHANGED << queue, made >>
    BY <1>9 DEF Next, Decoder, PictureDecoded, PictureOut, SequenceDone, AudioReady, Stop, vars
  <2>. QED
    BY <1>7, <1>9, <2>1, OtherThanVdisp
<1>10. CASE VdispWait \/ VdispSleep \/ VdispReady \/ VdispNotYet \/ VdispSkip \/ VdispSwap \/ VdispEnd
            \/ (VdispDrain /\ queue = << >>)
  <2>1. UNCHANGED << queue, made, shown, video_end >> /\ vdisp # "ended" /\ vdisp' # "ended"
    BY <1>10 DEF VdispWait, VdispSleep, VdispReady, VdispNotYet, VdispSkip, VdispSwap, VdispEnd, VdispDrain,
                 Showing
  <2>. QED
    BY <1>7, <2>1
<1>. QED
  BY <1>2, <1>3, <1>4, <1>5, <1>6, <1>8, <1>9, <1>10 DEF Vdisp, VdispTake, PopQueue

\* What Implements says: the two threads implement Playback.  Every field is converted once and in
\* order, the display never goes back to an earlier field, and a sequence ends as complete only
\* after all of its fields.
THEOREM VideoImplementsPlayback == Spec => Implements
<1>1. VideoInv /\ VideoInv' /\ [Next]_vars => [P!Next]_P!vars
  BY Refines
<1>. QED
  BY <1>1, Starts, VideoInductive, PTL DEF Spec, Implements, P!Spec

-----------------------------------------------------------------------------
(***************************************************************************)
(* The clocks (AvSync): the decisions of the display thread are right for  *)
(* every film, whatever half of their range the compared stamps have.      *)
(* ClockInv says that what is still to come of the film is in order and    *)
(* never half the range away from the audio, and what the display thread   *)
(* has read of the two clocks.                                             *)
(***************************************************************************)
ClockPlaces == {"next", "valid", "audio", "video", "compare", "decided"}
ClockModes == {"none", "normal", "skip", "wait"}

\* The decision that is right for the field at time v when the audio is at time t.
RightMode(t, v) == CASE t - v > 1 -> "skip" [] v - t > 1 -> "wait" [] OTHER -> "normal"

SyncTypes ==
  sync \in [blocks : Seq(Nat), fields : Seq(Nat), apts : Nat, vpts : Nat, audioValid : BOOLEAN,
            videoValid : BOOLEAN, pc : ClockPlaces, a : Int, v : Int, since : Nat, mode : ClockModes]

InOrder(q) == \A i, j \in 1 .. Len(q) : i <= j => q[i] <= q[j]
Near(q, p) == \A i \in 1 .. Len(q), j \in 1 .. Len(p) :
                p[j] - q[i] < Half /\ q[i] - p[j] <= MaxLead
Ahead(q, t) == \A j \in 1 .. Len(q) : q[j] - t < Half

\* What is still to come of the film, and how far the audio is from it.
TimesInv ==
  /\ InOrder(sync.blocks) /\ InOrder(sync.fields)
  /\ Near(sync.blocks, sync.fields)
  /\ sync.blocks # << >> => sync.apts <= sync.blocks[1]
  /\ sync.audioValid => Ahead(sync.fields, sync.apts)
  /\ sync.audioValid /\ sync.fields # << >> => sync.apts <= sync.fields[1] + MaxLead

\* What the display thread has read, and what it has decided.
Facing == sync.fields # << >> /\ sync.vpts = sync.fields[1]
Heard == sync.audioValid /\ sync.since <= sync.apts /\ Ahead(sync.fields, sync.since)
Taken == \E t \in sync.since .. sync.apts : sync.a = Clocks!Low(t)
Right == \/ sync.mode = "normal" /\ sync.since = 0
         \/ \E t \in sync.since .. sync.apts : sync.mode = RightMode(t, sync.vpts)

ReadInv ==
  /\ ~sync.audioValid => sync.apts = 0
  /\ sync.pc # "next" => sync.videoValid
  /\ sync.pc # "next" => Facing
  /\ sync.pc \in {"audio", "video", "compare"} => Heard
  /\ sync.pc \in {"video", "compare"} => Taken
  /\ sync.pc = "compare" => sync.v = Clocks!Low(sync.vpts)
  /\ sync.pc = "decided" => Right

ClockInv == SyncTypes /\ TimesInv /\ ReadInv

LEMMA Clock == Half \in Nat \ {0} /\ MaxLead \in Nat /\ MaxLead < Half
  BY ClocksAssumption

\* Division by a positive number.
LEMMA Division ==
  ASSUME NEW n \in Int, NEW m \in Nat \ {0}
  PROVE  /\ n \div m \in Int /\ n % m \in 0 .. m - 1
         /\ n = m * (n \div m) + (n % m)
  OBVIOUS

LEMMA Times ==
  ASSUME NEW m \in Nat \ {0}, NEW k \in Int
  PROVE  /\ k >= 1 => m * k >= m
         /\ k <= -1 => m * k <= -m
  OBVIOUS

LEMMA NoMultiple ==
  ASSUME NEW m \in Nat \ {0}, NEW k \in Int, -m < m * k, m * k < m
  PROVE  k = 0
  BY Times

LEMMA Remainder ==
  ASSUME NEW n \in Int, NEW m \in Nat \ {0}, NEW k \in Int, NEW r \in 0 .. m - 1, n = m * k + r
  PROVE  n % m = r
<1> DEFINE q == n \div m
           s == n % m
<1>1. q \in Int /\ s \in 0 .. m - 1 /\ n = m * q + s
  BY Division
<1> HIDE DEF q, s
<1>2. m * (q - k) = r - s
  BY <1>1
<1>3. q - k \in Int /\ -m < r - s /\ r - s < m
  BY <1>1
<1>4. q - k = 0
  BY <1>2, <1>3, NoMultiple
<1>5. r = s
  BY <1>1, <1>4
<1> QED
  BY <1>5 DEF s

\* The difference of the low bits of two times, read as a signed number, is the difference of the
\* times when that is less than half the range.
LEMMA SignedDifference ==
  ASSUME NEW t \in Nat, NEW v \in Nat, NEW h \in Nat \ {0}, t - v < h, v - t < h
  PROVE  LET m == ((t % (2 * h)) - (v % (2 * h))) % (2 * h)
         IN  (IF m >= h THEN m - 2 * h ELSE m) = t - v
<1> DEFINE w == 2 * h
<1>1. w \in Nat \ {0} /\ w = 2 * h
  OBVIOUS
<1> HIDE DEF w
<1> DEFINE qt == t \div w
           rt == t % w
           qv == v \div w
           rv == v % w
<1>2. t \in Int /\ v \in Int /\ w \in Nat \ {0}
  BY <1>1
<1>3. qt \in Int /\ rt \in 0 .. w - 1 /\ t = w * qt + rt
  BY ONLY <1>2, Division
<1>4. qv \in Int /\ rv \in 0 .. w - 1 /\ v = w * qv + rv
  BY ONLY <1>2, Division
<1> DEFINE m == (rt - rv) % w
<1>5. (IF m >= h THEN m - w ELSE m) = t - v
  <2> HIDE DEF qt, rt, qv, rv
  <2>1. rt - rv \in Int /\ rt - rv = (t - v) + w * (qv - qt) /\ qv - qt \in Int
    BY <1>1, <1>3, <1>4
  <2>2. CASE t >= v
    <3>1. rt - rv = w * (qv - qt) + (t - v) /\ t - v \in 0 .. w - 1
      BY <1>1, <2>1, <2>2
    <3>2. m = t - v
      BY <1>1, <2>1, <3>1, Remainder
    <3> QED
      BY <1>1, <2>2, <3>2
  <2>3. CASE t < v
    <3>1. /\ qv - qt - 1 \in Int /\ t - v + w \in 0 .. w - 1
          /\ rt - rv = w * (qv - qt - 1) + (t - v + w)
      BY <1>1, <2>1, <2>3
    <3>2. m = t - v + w
      BY <1>1, <2>1, <3>1, Remainder
    <3> QED
      BY <1>1, <2>3, <3>2
  <2> QED
    BY <2>2, <2>3
<1> QED
  BY <1>5 DEF w

LEMMA LowIsInt ==
  ASSUME NEW t \in Nat
  PROVE  Clocks!Low(t) \in Int
  BY Clock DEF Clocks!Low

LEMMA ComparedIs ==
  ASSUME NEW a, NEW v, NEW d \in Int, Clocks!Signed(a - v) = d
  PROVE  Clocks!Compared(a, v) =
           IF d \in -1 .. 1 THEN "normal" ELSE IF d > 1 THEN "skip" ELSE "wait"
<1> DEFINE I == Clocks!AVSYNC_VDISP_INTERVAL
<1>1. Clocks!Compared(a, v) = IF Clocks!Signed(a - v) \in -I .. I THEN "normal"
                              ELSE IF Clocks!Signed(a - v) > I THEN "skip" ELSE "wait"
  BY DEF Clocks!Compared
<1>2. I = 1
  BY DEF Clocks!AVSYNC_VDISP_INTERVAL
<1> QED
  BY <1>1, <1>2

\* The comparison of the low bits is right for times less than half their range apart.
LEMMA ComparedRight ==
  ASSUME NEW t \in Nat, NEW v \in Nat, t - v < Half, v - t < Half
  PROVE  Clocks!Compared(Clocks!Low(t), Clocks!Low(v)) = RightMode(t, v)
<1> DEFINE x == Clocks!Low(t)
           y == Clocks!Low(v)
<1>1. Clocks!Signed(x - y) = t - v
  BY Clock, SignedDifference DEF Clocks!Signed, Clocks!Low
<1> HIDE DEF x, y
<1>2. PICK d \in Int : d = t - v /\ Clocks!Signed(x - y) = d
  BY <1>1
<1>3. Clocks!Compared(x, y) = IF d \in -1 .. 1 THEN "normal" ELSE IF d > 1 THEN "skip" ELSE "wait"
  BY <1>2, ComparedIs
<1>4. Clocks!Compared(x, y) = RightMode(t, v)
  BY <1>2, <1>3 DEF RightMode
<1> QED
  BY <1>4 DEF x, y

LEMMA InitClock ==
  ASSUME NEW film, Clocks!InitWith(film), Clocks!Playable(film)
  PROVE  ClockInv
<1>1. /\ sync.blocks = film.blocks /\ sync.fields = film.fields /\ sync.apts = 0 /\ sync.vpts = 0
      /\ sync.pc = "next" /\ sync.a = 0 /\ sync.v = 0 /\ sync.since = 0 /\ sync.mode = "none"
  BY DEF Clocks!InitWith
<1>2. ~sync.audioValid
  BY DEF Clocks!InitWith
<1>3. /\ film.blocks \in Seq(Nat) /\ DOMAIN film.blocks = 1 .. Len(film.blocks)
      /\ film.fields \in Seq(Nat) /\ DOMAIN film.fields = 1 .. Len(film.fields)
  BY DEF Clocks!Playable
<1>4. SyncTypes
  BY <1>3 DEF Clocks!InitWith, SyncTypes, ClockPlaces, ClockModes
<1>5. InOrder(sync.blocks) /\ InOrder(sync.fields)
  BY <1>1, <1>3 DEF Clocks!Playable, Clocks!Ordered, InOrder
<1>6. Near(sync.blocks, sync.fields)
  BY <1>1, <1>3 DEF Clocks!Playable, Near
<1>7. sync.blocks # << >> => sync.blocks[1] \in Nat
  BY <1>1, <1>3
<1>8. TimesInv
  BY <1>1, <1>2, <1>5, <1>6, <1>7 DEF TimesInv
<1>9. ReadInv
  BY <1>1, <1>2 DEF ReadInv
<1> QED
  BY <1>4, <1>8, <1>9 DEF ClockInv

LEMMA TailTimes ==
  ASSUME NEW q \in Seq(Nat), q # << >>
  PROVE  /\ Tail(q) \in Seq(Nat) /\ Len(Tail(q)) = Len(q) - 1 /\ Len(q) \in Nat \ {0}
         /\ \A i \in 1 .. Len(q) - 1 : Tail(q)[i] = q[i + 1]
         /\ Head(q) = q[1] /\ q[1] \in Nat
  OBVIOUS

LEMMA TailInOrder ==
  ASSUME NEW q \in Seq(Nat), q # << >>, InOrder(q)
  PROVE  InOrder(Tail(q)) /\ (Tail(q) # << >> => Tail(q)[1] >= q[1])
<1> DEFINE p == Tail(q)
           k == Len(q)
<1>1. /\ p \in Seq(Nat) /\ Len(p) = k - 1 /\ k \in Nat \ {0}
      /\ \A i \in 1 .. k - 1 : p[i] = q[i + 1]
  BY TailTimes
<1>2. p # << >> => Len(p) > 0
  BY <1>1
<1>3. \A i, j \in 1 .. k : i <= j => q[i] <= q[j]
  BY DEF InOrder
<1> HIDE DEF p, k
<1>4. \A i \in 1 .. k - 1 : i + 1 \in 1 .. k
  BY <1>1
<1>5. InOrder(p)
  BY <1>1, <1>3, <1>4 DEF InOrder
<1>6. p # << >> => p[1] >= q[1]
  BY <1>1, <1>2, <1>3, <1>4
<1> QED
  BY <1>5, <1>6 DEF p

\* The elements of a tail are elements of the sequence.
LEMMA TailElements ==
  ASSUME NEW q \in Seq(Nat), q # << >>, NEW i \in 1 .. Len(Tail(q))
  PROVE  \E k \in 1 .. Len(q) : Tail(q)[i] = q[k]
<1>1. i \in 1 .. Len(q) - 1 /\ Len(q) \in Nat /\ Tail(q)[i] = q[i + 1]
  BY TailTimes
<1>2. i + 1 \in 1 .. Len(q)
  BY <1>1
<1> QED
  BY <1>1, <1>2

LEMMA TailNear ==
  ASSUME NEW q \in Seq(Nat), NEW p \in Seq(Nat), Near(q, p)
  PROVE  /\ q # << >> => Near(Tail(q), p)
         /\ p # << >> => Near(q, Tail(p))
<1>1. ASSUME q # << >>, NEW i \in 1 .. Len(Tail(q)), NEW j \in 1 .. Len(p)
      PROVE  p[j] - Tail(q)[i] < Half /\ Tail(q)[i] - p[j] <= MaxLead
  <2>1. PICK k \in 1 .. Len(q) : Tail(q)[i] = q[k]
    BY <1>1, TailElements
  <2> QED
    BY <2>1 DEF Near
<1>2. ASSUME p # << >>, NEW i \in 1 .. Len(q), NEW j \in 1 .. Len(Tail(p))
      PROVE  Tail(p)[j] - q[i] < Half /\ q[i] - Tail(p)[j] <= MaxLead
  <2>1. PICK k \in 1 .. Len(p) : Tail(p)[j] = p[k]
    BY <1>2, TailElements
  <2> QED
    BY <2>1 DEF Near
<1> QED
  BY <1>1, <1>2 DEF Near

LEMMA TailAhead ==
  ASSUME NEW q \in Seq(Nat), q # << >>, NEW t, Ahead(q, t)
  PROVE  Ahead(Tail(q), t)
<1> SUFFICES ASSUME NEW j \in 1 .. Len(Tail(q)) PROVE Tail(q)[j] - t < Half
  BY DEF Ahead
<1>1. PICK k \in 1 .. Len(q) : Tail(q)[j] = q[k]
  BY TailElements
<1> QED
  BY <1>1 DEF Ahead

\* What the display thread has read stays read when the audio goes on.
LEMMA ReadKept ==
  ASSUME SyncTypes, ReadInv, sync'.apts \in Nat, sync.apts <= sync'.apts, sync'.audioValid,
         sync'.videoValid <=> sync.videoValid, sync'.fields = sync.fields,
         sync'.vpts = sync.vpts, sync'.pc = sync.pc, sync'.a = sync.a, sync'.v = sync.v,
         sync'.since = sync.since, sync'.mode = sync.mode
  PROVE  ReadInv'
<1>1. sync.since \in Nat /\ sync.apts \in Nat
  BY DEF SyncTypes
<1>2. \A t \in sync.since .. sync.apts : t \in sync'.since .. sync'.apts
  BY <1>1
<1>3. Facing' <=> Facing
  BY DEF Facing
<1>4. Heard => Heard'
  <2>1. sync.since <= sync.apts => sync'.since <= sync'.apts
    BY <1>1
  <2> QED
    BY <2>1, Zenon DEF Heard, Ahead
<1>5. Taken => Taken'
  BY <1>2 DEF Taken, Clocks!Low
<1>6. Right => Right'
  BY <1>2 DEF Right, RightMode
<1> QED
  BY <1>3, <1>4, <1>5, <1>6, Zenon DEF ReadInv, Clocks!Low

LEMMA PlayBlockKeeps ==
  ASSUME SyncTypes, ReadInv, TimesInv, Clocks!PlayBlock
  PROVE  (SyncTypes /\ ReadInv /\ TimesInv)'
<1> DEFINE q == sync.blocks
           p == sync.fields
<1>1. /\ q # << >> /\ sync'.apts = Head(q) /\ sync'.blocks = Tail(q)
      /\ sync'.fields = sync.fields /\ sync'.vpts = sync.vpts /\ sync'.pc = sync.pc
      /\ sync'.a = sync.a /\ sync'.v = sync.v /\ sync'.since = sync.since /\ sync'.mode = sync.mode
  BY DEF Clocks!PlayBlock, SyncTypes
<1>2. sync'.audioValid /\ (sync'.videoValid <=> sync.videoValid)
  BY DEF Clocks!PlayBlock, SyncTypes
<1>3. SyncTypes'
  BY TailTimes DEF Clocks!PlayBlock, SyncTypes
<1>4. q \in Seq(Nat) /\ p \in Seq(Nat) /\ InOrder(q) /\ Near(q, p)
  BY DEF SyncTypes, TimesInv
<1>5. /\ InOrder(Tail(q)) /\ Near(Tail(q), p) /\ Head(q) = q[1] /\ q[1] \in Nat
      /\ Tail(q) # << >> => Tail(q)[1] >= q[1]
  BY <1>1, <1>4, TailInOrder, TailTimes, TailNear
<1>6. sync.apts <= sync'.apts /\ sync'.apts = q[1] /\ sync.apts \in Nat
  BY <1>1, <1>5 DEF TimesInv, SyncTypes
<1>7. 1 \in 1 .. Len(q)
  BY <1>1, <1>4, TailTimes
<1>8. TimesInv'
  <2>1. InOrder(sync'.blocks) /\ InOrder(sync'.fields) /\ Near(sync'.blocks, sync'.fields)
    BY <1>1, <1>5 DEF TimesInv
  <2>2. sync'.blocks # << >> => sync'.apts <= sync'.blocks[1]
    <3>1. Tail(q) # << >> => Tail(q)[1] \in Nat
      BY <1>1, <1>4, TailTimes
    <3> QED
      BY <1>1, <1>5, <1>6, <3>1
  <2>3. Ahead(sync'.fields, sync'.apts)
    BY <1>1, <1>4, <1>6, <1>7 DEF Near, Ahead
  <2>4. sync'.fields # << >> => sync'.apts <= sync'.fields[1] + MaxLead
    <3> SUFFICES ASSUME p # << >> PROVE q[1] <= p[1] + MaxLead
      BY <1>1, <1>6
    <3>1. 1 \in 1 .. Len(p) /\ p[1] \in Nat
      BY <1>4, TailTimes
    <3>2. q[1] - p[1] <= MaxLead
      BY <1>4, <1>7, <3>1 DEF Near
    <3> QED
      BY <1>5, <3>1, <3>2, Clock
  <2> QED
    BY <2>1, <2>2, <2>3, <2>4 DEF TimesInv
<1>9. ReadInv'
  <2>1. sync'.apts \in Nat
    BY <1>5, <1>6
  <2> QED
    BY <1>1, <1>2, <1>6, <2>1, ReadKept, Zenon
<1> QED
  BY <1>3, <1>8, <1>9

LEMMA RunOnKeeps ==
  ASSUME SyncTypes, ReadInv, TimesInv, Clocks!RunOn
  PROVE  (SyncTypes /\ ReadInv /\ TimesInv)'
<1>1. /\ sync.blocks = << >> /\ sync.fields # << >> /\ sync.apts - Head(sync.fields) < MaxLead
      /\ sync'.apts = sync.apts + 1 /\ sync'.blocks = sync.blocks
      /\ sync'.fields = sync.fields /\ sync'.vpts = sync.vpts /\ sync'.pc = sync.pc
      /\ sync'.a = sync.a /\ sync'.v = sync.v /\ sync'.since = sync.since /\ sync'.mode = sync.mode
  BY DEF Clocks!RunOn, SyncTypes, Clocks!AMIXER_CB_INCR_CLOCKS
<1>2. sync.audioValid /\ sync'.audioValid /\ (sync'.videoValid <=> sync.videoValid)
  BY DEF Clocks!RunOn, SyncTypes
<1>3. SyncTypes'
  <2>1. sync' = [sync EXCEPT !.apts = sync.apts + 1] /\ sync.apts + 1 \in Nat
    BY DEF Clocks!RunOn, SyncTypes, Clocks!AMIXER_CB_INCR_CLOCKS
  <2> QED
    BY <2>1 DEF SyncTypes
<1>4. Head(sync.fields) = sync.fields[1] /\ sync.fields[1] \in Nat
  BY <1>1, TailTimes DEF SyncTypes
<1>5. sync.apts \in Nat
  BY DEF SyncTypes
<1>6. sync'.apts <= sync'.fields[1] + MaxLead
  BY <1>1, <1>4, <1>5, Clock
<1>7. Ahead(sync'.fields, sync'.apts)
  <2> SUFFICES ASSUME NEW j \in 1 .. Len(sync.fields) PROVE sync.fields[j] - (sync.apts + 1) < Half
    BY <1>1 DEF Ahead
  <2>1. sync.fields[j] \in Nat
    BY DEF SyncTypes
  <2>2. sync.fields[j] - sync.apts < Half
    BY <1>2 DEF TimesInv, Ahead
  <2> QED
    BY <1>5, <2>1, <2>2, Clock
<1>8. TimesInv'
  BY <1>1, <1>6, <1>7 DEF TimesInv
<1>9. ReadInv'
  <2>1. sync'.apts \in Nat /\ sync.apts <= sync'.apts
    BY <1>1, <1>5
  <2> QED
    BY <1>1, <1>2, <2>1, ReadKept, Zenon
<1> QED
  BY <1>3, <1>8, <1>9

LEMMA SetVptsKeeps ==
  ASSUME SyncTypes, ReadInv, TimesInv, Clocks!SetVpts
  PROVE  (SyncTypes /\ ReadInv /\ TimesInv)'
<1>1. /\ sync.pc = "next" /\ sync.fields # << >>
      /\ sync'.vpts = sync.fields[1] /\ sync'.pc = "valid"
      /\ sync'.blocks = sync.blocks /\ sync'.fields = sync.fields /\ sync'.apts = sync.apts
      /\ sync'.a = sync.a /\ sync'.v = sync.v /\ sync'.since = sync.since
      /\ sync'.mode = sync.mode
  BY TailTimes DEF Clocks!SetVpts, SyncTypes, ReadInv
<1>2. (sync'.audioValid <=> sync.audioValid) /\ sync'.videoValid
  BY DEF Clocks!SetVpts, SyncTypes
<1>3. SyncTypes'
  BY <1>1, TailTimes DEF Clocks!SetVpts, SyncTypes, ClockPlaces, ClockModes
<1>4. TimesInv'
  BY <1>1, <1>2 DEF TimesInv
<1>5. ReadInv'
  <2>1. Facing'
    BY <1>1 DEF Facing
  <2>2. ~sync'.audioValid => sync'.apts = 0
    BY <1>1, <1>2 DEF ReadInv
  <2> QED
    BY <1>1, <1>2, <2>1, <2>2 DEF ReadInv
<1> QED
  BY <1>3, <1>4, <1>5

LEMMA ValidKeeps ==
  ASSUME SyncTypes, ReadInv, TimesInv, Clocks!Valid
  PROVE  (SyncTypes /\ ReadInv /\ TimesInv)'
<1>1. /\ sync.pc = "valid" /\ sync.videoValid /\ sync'.since = sync.apts
      /\ sync.audioValid => sync'.pc = "audio"
      /\ ~sync.audioValid => sync'.pc = "decided" /\ sync'.mode = "normal"
      /\ sync'.blocks = sync.blocks /\ sync'.fields = sync.fields /\ sync'.apts = sync.apts
      /\ sync'.vpts = sync.vpts /\ sync'.a = sync.a /\ sync'.v = sync.v
  BY DEF Clocks!Valid, SyncTypes, ReadInv
<1>2. (sync'.audioValid <=> sync.audioValid) /\ (sync'.videoValid <=> sync.videoValid)
  BY DEF Clocks!Valid, SyncTypes
<1>3. SyncTypes'
  BY <1>1 DEF Clocks!Valid, SyncTypes, ClockPlaces, ClockModes
<1>4. TimesInv'
  BY <1>1, <1>2 DEF TimesInv
<1>5. ReadInv'
  <2>1. Facing' /\ sync'.videoValid /\ (~sync.audioValid => sync.apts = 0)
    BY <1>1, <1>2 DEF ReadInv, Facing
  <2>2. CASE sync.audioValid
    <3>1. Ahead(sync'.fields, sync'.since)
      BY <1>1, <2>2 DEF TimesInv
    <3>2. Heard'
      BY <1>1, <1>2, <2>2, <3>1 DEF Heard, SyncTypes
    <3> QED
      BY <1>1, <1>2, <2>1, <2>2, <3>2 DEF ReadInv
  <2>3. CASE ~sync.audioValid
    <3>1. Right'
      BY <1>1, <2>1, <2>3 DEF Right
    <3> QED
      BY <1>1, <1>2, <2>1, <2>3, <3>1 DEF ReadInv
  <2> QED
    BY <2>2, <2>3
<1> QED
  BY <1>3, <1>4, <1>5

LEMMA GetAptsKeeps ==
  ASSUME SyncTypes, ReadInv, TimesInv, Clocks!GetApts
  PROVE  (SyncTypes /\ ReadInv /\ TimesInv)'
<1>1. /\ sync.pc = "audio" /\ sync'.pc = "video" /\ sync'.a = Clocks!Low(sync.apts)
      /\ sync'.blocks = sync.blocks /\ sync'.fields = sync.fields /\ sync'.apts = sync.apts
      /\ sync'.vpts = sync.vpts /\ sync'.v = sync.v /\ sync'.since = sync.since
      /\ sync'.mode = sync.mode
  BY DEF Clocks!GetApts, SyncTypes, ReadInv
<1>2. (sync'.audioValid <=> sync.audioValid) /\ (sync'.videoValid <=> sync.videoValid)
  BY DEF Clocks!GetApts, SyncTypes
<1>3. SyncTypes'
  <2>1. Clocks!Low(sync.apts) \in Int
    BY LowIsInt DEF SyncTypes
  <2> QED
    BY <2>1 DEF Clocks!GetApts, SyncTypes, ClockPlaces
<1>4. TimesInv'
  BY <1>1, <1>2 DEF TimesInv
<1>5. ReadInv'
  <2>1. Facing' /\ Heard' /\ sync'.videoValid /\ sync'.audioValid
    BY <1>1, <1>2 DEF ReadInv, Facing, Heard
  <2>2. Taken'
    BY <1>1, <2>1 DEF ReadInv, Taken, Heard, SyncTypes
  <2> QED
    BY <1>1, <2>1, <2>2 DEF ReadInv
<1> QED
  BY <1>3, <1>4, <1>5

LEMMA GetVptsKeeps ==
  ASSUME SyncTypes, ReadInv, TimesInv, Clocks!GetVpts
  PROVE  (SyncTypes /\ ReadInv /\ TimesInv)'
<1>1. /\ sync.pc = "video" /\ sync'.pc = "compare" /\ sync'.v = Clocks!Low(sync.vpts)
      /\ sync'.blocks = sync.blocks /\ sync'.fields = sync.fields /\ sync'.apts = sync.apts
      /\ sync'.vpts = sync.vpts /\ sync'.a = sync.a /\ sync'.since = sync.since
      /\ sync'.mode = sync.mode
  BY DEF Clocks!GetVpts, SyncTypes, ReadInv
<1>2. (sync'.audioValid <=> sync.audioValid) /\ (sync'.videoValid <=> sync.videoValid)
  BY DEF Clocks!GetVpts, SyncTypes
<1>3. SyncTypes'
  <2>1. Clocks!Low(sync.vpts) \in Int
    BY LowIsInt DEF SyncTypes
  <2> QED
    BY <2>1 DEF Clocks!GetVpts, SyncTypes, ClockPlaces
<1>4. TimesInv'
  BY <1>1, <1>2 DEF TimesInv
<1>5. ReadInv'
  <2>1. Facing' /\ Heard' /\ Taken' /\ sync'.videoValid /\ sync'.audioValid
    BY <1>1, <1>2 DEF ReadInv, Facing, Heard, Taken
  <2> QED
    BY <1>1, <2>1 DEF ReadInv
<1> QED
  BY <1>3, <1>4, <1>5

LEMMA CompareKeeps ==
  ASSUME SyncTypes, ReadInv, TimesInv, Clocks!Compare
  PROVE  (SyncTypes /\ ReadInv /\ TimesInv)'
<1>1. /\ sync.pc = "compare" /\ sync'.pc = "decided"
      /\ sync'.mode = Clocks!Compared(sync.a, sync.v)
      /\ sync'.blocks = sync.blocks /\ sync'.fields = sync.fields /\ sync'.apts = sync.apts
      /\ sync'.vpts = sync.vpts /\ sync'.a = sync.a /\ sync'.v = sync.v
      /\ sync'.since = sync.since
  BY DEF Clocks!Compare, SyncTypes, ReadInv
<1>2. (sync'.audioValid <=> sync.audioValid) /\ (sync'.videoValid <=> sync.videoValid)
  BY DEF Clocks!Compare, SyncTypes
<1>3. PICK t \in sync.since .. sync.apts : sync.a = Clocks!Low(t)
  BY <1>1 DEF ReadInv, Taken
<1>4. sync.v = Clocks!Low(sync.vpts) /\ Facing /\ Heard
  BY <1>1 DEF ReadInv
<1>5. sync.apts <= sync.vpts + MaxLead /\ sync.vpts - sync.since < Half
  <2>1. 1 \in 1 .. Len(sync.fields)
    BY <1>4 DEF SyncTypes, Facing
  <2>2. sync.fields[1] - sync.since < Half
    BY <1>4, <2>1 DEF Heard, Ahead
  <2>3. sync.apts <= sync.fields[1] + MaxLead
    BY <1>4 DEF TimesInv, Facing, Heard
  <2> QED
    BY <1>4, <2>2, <2>3 DEF Facing
<1>6. t \in Nat /\ sync.vpts \in Nat /\ t - sync.vpts < Half /\ sync.vpts - t < Half
  <2>1. sync.vpts \in Nat /\ sync.since \in Nat /\ sync.apts \in Nat
    BY DEF SyncTypes
  <2> QED
    BY <1>3, <1>5, <2>1, Clock
<1>7. sync'.mode = RightMode(t, sync.vpts)
  BY <1>1, <1>3, <1>4, <1>6, ComparedRight
<1>8. SyncTypes'
  <2>1. RightMode(t, sync.vpts) \in ClockModes
    BY <1>6 DEF RightMode, ClockModes
  <2>2. Clocks!Compared(sync.a, sync.v) \in ClockModes
    BY <1>1, <1>7, <2>1
  <2> QED
    BY <2>2 DEF Clocks!Compare, SyncTypes, ClockPlaces
<1>9. TimesInv'
  BY <1>1, <1>2 DEF TimesInv
<1>10. ReadInv'
  <2>1. Facing' /\ sync'.videoValid /\ (~sync.audioValid => sync.apts = 0)
    BY <1>1, <1>2 DEF ReadInv, Facing
  <2>2. Right'
    BY <1>1, <1>3, <1>7 DEF Right
  <2> QED
    BY <1>1, <1>2, <2>1, <2>2 DEF ReadInv
<1> QED
  BY <1>8, <1>9, <1>10

LEMMA ShowKeeps ==
  ASSUME SyncTypes, ReadInv, TimesInv, Clocks!Show
  PROVE  (SyncTypes /\ ReadInv /\ TimesInv)'
<1> DEFINE p == sync.fields
<1>1. /\ sync.pc = "decided" /\ sync'.pc = "next" /\ p # << >>
      /\ sync'.fields = p \/ sync'.fields = Tail(p)
      /\ sync'.blocks = sync.blocks /\ sync'.apts = sync.apts /\ sync'.vpts = sync.vpts
      /\ sync'.a = sync.a /\ sync'.v = sync.v /\ sync'.since = sync.since
      /\ sync'.mode = sync.mode
  BY DEF Clocks!Show, SyncTypes, ReadInv, Facing
<1>2. (sync'.audioValid <=> sync.audioValid) /\ (sync'.videoValid <=> sync.videoValid)
  BY DEF Clocks!Show, SyncTypes
<1>3. SyncTypes'
  BY <1>1, TailTimes DEF Clocks!Show, SyncTypes, ClockPlaces
<1>4. ReadInv'
  BY <1>1, <1>2 DEF ReadInv
<1>5. CASE sync'.fields = p
  BY <1>1, <1>2, <1>3, <1>4, <1>5 DEF TimesInv
<1>6. CASE sync'.fields = Tail(p)
  <2>1. p \in Seq(Nat) /\ sync.blocks \in Seq(Nat) /\ sync.apts \in Nat
    BY DEF SyncTypes
  <2>2. /\ InOrder(Tail(p)) /\ Near(sync.blocks, Tail(p))
        /\ Tail(p) # << >> => Tail(p)[1] >= p[1]
    BY <1>1, <2>1, TailInOrder, TailNear DEF TimesInv
  <2>3. sync.audioValid => Ahead(Tail(p), sync.apts)
    BY <1>1, <2>1, TailAhead DEF TimesInv
  <2>4. sync.audioValid /\ Tail(p) # << >> => sync.apts <= Tail(p)[1] + MaxLead
    <3> SUFFICES ASSUME sync.audioValid, Tail(p) # << >>
                 PROVE  sync.apts <= Tail(p)[1] + MaxLead
      OBVIOUS
    <3>1. p[1] \in Nat /\ Tail(p)[1] \in Nat
      BY <1>1, <2>1, TailTimes
    <3>2. sync.apts <= p[1] + MaxLead
      BY <1>1 DEF TimesInv
    <3>3. Tail(p)[1] >= p[1]
      BY <2>2
    <3> DEFINE x == Tail(p)[1]
               y == p[1]
    <3> HIDE DEF x, y
    <3>4. x \in Nat /\ y \in Nat /\ sync.apts <= y + MaxLead /\ x >= y
      BY <3>1, <3>2, <3>3 DEF x, y
    <3>5. sync.apts <= x + MaxLead
      BY <2>1, <3>4, Clock
    <3> QED
      BY <3>5 DEF x
  <2>5. TimesInv'
    BY <1>1, <1>2, <1>6, <2>2, <2>3, <2>4 DEF TimesInv
  <2> QED
    BY <1>3, <1>4, <2>5
<1> QED
  BY <1>1, <1>5, <1>6

LEMMA StepClock == ClockInv /\ [MCNext]_mcvars => ClockInv'
<1> SUFFICES ASSUME ClockInv, [MCNext]_mcvars PROVE ClockInv'
  OBVIOUS
<1>1. CASE UNCHANGED sync
  BY <1>1 DEF ClockInv, SyncTypes, TimesInv, InOrder, Near, Ahead, ReadInv, Facing, Heard, Taken,
              Right, RightMode, Clocks!Low
<1>2. CASE Clocks!Next
  <2>1. SyncTypes /\ ReadInv /\ TimesInv
    BY DEF ClockInv
  <2>2. (SyncTypes /\ ReadInv /\ TimesInv)'
    BY <1>2, <2>1, PlayBlockKeeps, RunOnKeeps, SetVptsKeeps, ValidKeeps, GetAptsKeeps,
       GetVptsKeeps, CompareKeeps, ShowKeeps DEF Clocks!Next, Clocks!Callback, Clocks!Display
  <2> QED
    BY <2>2 DEF ClockInv
<1> QED
  BY <1>1, <1>2 DEF MCNext, InFrames, InClocks, mcvars

\* Each decision of the display thread is right for a time the audio clock showed while it was
\* made, whatever the callback does between its two readings, for every film and every range of
\* the stamps that are compared (avsyncCompare against amixerCb).
THEOREM DecisionsRight == MCFairSpec => []DecisionRight
<1>1. MCInit => ClockInv
  <2>1. ASSUME Clocks!Init PROVE ClockInv
    BY <2>1, ClocksAssumption, InitClock DEF Clocks!Init, ClocksAssumption
  <2>2. ASSUME Clocks!InitWith([blocks |-> << >>, fields |-> << >>]) PROVE ClockInv
    <3> DEFINE film == [blocks |-> << >>, fields |-> << >>]
    <3>1. Clocks!Playable(film)
      BY DEF Clocks!Playable, Clocks!Ordered
    <3> HIDE DEF film
    <3> QED
      BY <2>2, <3>1, InitClock DEF film
  <2> QED
    BY <2>1, <2>2 DEF MCInit
<1>2. ClockInv /\ [MCNext]_mcvars => ClockInv'
  BY StepClock
<1>3. ClockInv => DecisionRight
  BY DEF ClockInv, SyncTypes, ReadInv, Right, DecisionRight, Clocks!DecisionRight, RightMode,
         Clocks!AVSYNC_VDISP_INTERVAL
<1> QED
  BY <1>1, <1>2, <1>3, PTL DEF MCFairSpec
=============================================================================
