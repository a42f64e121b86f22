---------------------------- MODULE Sound_proofs ----------------------------
(***************************************************************************)
(* Proofs about the two ways to hear something: SamplesInOrder of the      *)
(* audio output of a film, for any film and any number of buffers, and     *)
(* PlaysCurrent of the music player, for any column of songs.              *)
(***************************************************************************)
EXTENDS MCSound, FiniteSetTheorems, SequenceTheorems, TLAPS

-----------------------------------------------------------------------------
(***************************************************************************)
(* The audio output.  FilmInv follows the blocks of the film: fetched by   *)
(* apost, waiting in the queue, and played by the callback.                *)
(***************************************************************************)
Buffer == 1 .. pcmNum
Slot == [pPcm : Buffer \cup {None}, item : 0 .. MaxItems, index : 0 .. auSample]
Ring(k) == (readIndex + k) % pcmNum
Positions == 0 .. validNum - 1
waiting == [k \in Positions |-> slot[Ring(k)]]

\* The blocks with samples among the first n, and how many of them were played to their end.
Full(n) == { j \in 1 .. n : j \notin NoSamples }
Count(n) == Cardinality(Full(n))
InPush == IF pc = "push" THEN 1 ELSE 0
Popped == Count(fetched) - validNum - InPush

TypeInv ==
  /\ TypeOK
  /\ items \in 0 .. MaxItems /\ ready \in 0 .. items /\ fetched \in 0 .. ready
  /\ pool \in Seq(Buffer) /\ mem \in [Buffer -> 0 .. MaxItems] /\ pPcm \in Buffer \cup {None}
  /\ slot \in [0 .. pcmNum - 1 -> Slot]
  /\ readIndex \in 0 .. pcmNum - 1 /\ writeIndex \in 0 .. pcmNum - 1 /\ done \in 0 .. pcmNum - 1

\* Every buffer is somewhere, and none is in two places.
Giving == IF cb = "give" THEN slot[done].pPcm ELSE None
InHand == IF pPcm = None THEN 0 ELSE 1
InMixer == IF Giving = None THEN 0 ELSE 1
BufferInv ==
  /\ pPcm # None <=> pc \in {"get", "push"}
  /\ cb = "give" => Giving # None /\ done = Ring(pcmNum - 1)
  /\ \A b \in Buffer : \/ b = pPcm \/ b = Giving
                       \/ \E i \in 1 .. Len(pool) : b = pool[i]
                       \/ \E k \in Positions : b = waiting[k].pPcm
  /\ Len(pool) + InHand + validNum + InMixer = pcmNum
  /\ \A i, j \in 1 .. Len(pool) : pool[i] = pool[j] => i = j
  /\ \A i \in 1 .. Len(pool) : pool[i] # pPcm /\ pool[i] # Giving
  /\ \A i, j \in Positions : waiting[i].pPcm = waiting[j].pPcm => i = j
  /\ \A k \in Positions : /\ waiting[k].pPcm \notin {None, pPcm, Giving}
                          /\ \A i \in 1 .. Len(pool) : waiting[k].pPcm # pool[i]
  /\ Giving # None => Giving # pPcm

\* The queue holds the blocks between the last one that was popped and the last one fetched.
BlockInv ==
  /\ pc \in {"pop", "get"} => fetched < ready /\ fetched + 1 \notin NoSamples
  /\ pc = "push" => fetched \in Full(items) /\ mem[pPcm] = fetched
  /\ \A k \in Positions : /\ waiting[k].item \in Full(fetched)
                          /\ Count(waiting[k].item) = Popped + k + 1
                          /\ mem[waiting[k].pPcm] = waiting[k].item
                          /\ k > 0 => waiting[k].index = 0
  /\ cb \in {"copy", "popping"} => validNum > 0
  /\ validNum > 0 => IF cb = "popping" THEN waiting[0].index = auSample ELSE waiting[0].index < auSample

PlayInv ==
  /\ played \in Seq(Nat \X Nat)
  /\ Len(played) = Popped * auSample + (IF validNum > 0 THEN waiting[0].index ELSE 0)
  /\ PlayedInOrder

\* The thread of the player stops the mixer when apost is gone, and the mixer stops when the queue
\* is empty.
EndInv ==
  /\ ~recv.bSequence \/ ~stat.bSequence => seqDone
  /\ seqDone => ready = items
  /\ errorCode # "invalid" => pc \in {"over", "gone"}
  /\ pc \in {"over", "gone"} => \/ errorCode = "ok" /\ fetched = items
                                \/ ~mode_exec
                                \/ errorCode = "error" /\ pc = "over"
  /\ ender # "joins" \/ bReqStop \/ cbReqStop => pc = "gone"
  /\ bReqStop => ender = "stops"
  /\ ender # "joins" /\ ~bReqStop => ~bSequence
  /\ ~bSequence => cb = "idle" /\ validNum = 0 /\ pc = "gone"

FilmInv == TypeInv /\ BufferInv /\ BlockInv /\ PlayInv /\ EndInv
-----------------------------------------------------------------------------
\* What AudioOutAssumption says of the constants.
LEMMA FilmConstants ==
  /\ MaxItems \in Nat /\ auSample \in Nat /\ auSample > 0 /\ samples \in Nat /\ samples > 0
  /\ pcmNum \in Nat /\ pcmNum > 0 /\ None = 0 /\ None \notin Buffer
BY AudioOutAssumption DEF AudioOutAssumption, None, Buffer

LEMMA Wraps ==
  ASSUME NEW n \in Nat \ {0}, NEW r \in 0 .. n - 1, NEW k \in 0 .. n
  PROVE  (r + k) % n = IF r + k < n THEN r + k ELSE r + k - n
OBVIOUS

LEMMA Divides ==
  ASSUME NEW a \in Nat \ {0}, NEW c \in Nat, NEW y \in 0 .. a - 1
  PROVE  (c * a + y) % a = y /\ (c * a + y) \div a = c
OBVIOUS

\* How many blocks have samples.
LEMMA CountFinite ==
  ASSUME NEW n \in Nat
  PROVE  IsFiniteSet(Full(n)) /\ Count(n) \in Nat
<1>1. IsFiniteSet(1 .. n)
  BY FS_Interval
<1>2. Full(n) \in SUBSET (1 .. n)
  BY DEF Full
<1>. QED
  BY <1>1, <1>2, FS_Subset, FS_CardinalityType DEF Count

LEMMA CountNext ==
  ASSUME NEW n \in Nat
  PROVE  Count(n + 1) = IF n + 1 \in NoSamples THEN Count(n) ELSE Count(n) + 1
<1>1. Full(n + 1) = IF n + 1 \in NoSamples THEN Full(n) ELSE Full(n) \cup {n + 1}
  BY DEF Full
<1>2. n + 1 \notin Full(n)
  BY DEF Full
<1>3. Cardinality(Full(n) \cup {n + 1}) = Cardinality(Full(n)) + 1
  BY <1>2, CountFinite, FS_AddElement
<1>. QED
  BY <1>1, <1>3 DEF Count

LEMMA CountMonotone ==
  ASSUME NEW m \in Nat, NEW n \in Nat, m <= n
  PROVE  Count(m) <= Count(n)
<1>1. Full(m) \subseteq Full(n)
  BY DEF Full
<1>. QED
  BY <1>1, CountFinite, FS_Subset DEF Count

LEMMA CountNone == Count(0) = 0
<1>1. Full(0) = {}
  BY DEF Full
<1>. QED
  BY <1>1, FS_EmptySet DEF Count

\* The x-th sample of block i in the film.
LEMMA FilmAt ==
  ASSUME items \in Nat, NEW i \in Full(items), NEW x \in 1 .. auSample
  PROVE  /\ Film[(Count(i) - 1) * auSample + x] = << i, x >>
         /\ (Count(i) - 1) * auSample + x \in 1 .. Count(items) * auSample
<1>. DEFINE full == { j \in 1 .. items : j \notin NoSamples }
            Nth(n) == CHOOSE j \in full : Cardinality({ h \in full : h < j }) = n
            c == Count(i) - 1
            k == c * auSample + x
<1>1. /\ Film = [h \in 1 .. Cardinality(full) * auSample |->
                  << Nth((h - 1) \div auSample), ((h - 1) % auSample) + 1 >>]
      /\ Cardinality(full) = Count(items)
  BY DEF Film, Count, Full
<1>2. i \in Nat /\ i > 0 /\ i <= items /\ i \notin NoSamples /\ i \in full
  BY DEF Full
<1>3. ASSUME NEW j \in full
      PROVE  /\ { h \in full : h < j } = Full(j - 1)
             /\ Count(j) = Count(j - 1) + 1 /\ Count(j - 1) \in Nat
  <2>1. j - 1 \in Nat /\ (j - 1) + 1 = j /\ j \notin NoSamples /\ j \in 1 .. items
    OBVIOUS
  <2>2. { h \in full : h < j } = Full(j - 1)
    BY <2>1 DEF Full
  <2>3. Count(j) = Count(j - 1) + 1
    BY <2>1, CountNext
  <2>. QED
    BY <2>1, <2>2, <2>3, CountFinite
<1>4. c \in Nat /\ c = Count(i - 1)
  BY <1>2, <1>3
<1>5. ASSUME NEW j \in full, Cardinality({ h \in full : h < j }) = c
      PROVE  j = i
  <2>1. Count(j - 1) = c /\ Count(j) = c + 1 /\ Count(i - 1) = c /\ Count(i) = c + 1
    BY <1>2, <1>3, <1>4, <1>5 DEF Count
  <2>2. ASSUME j < i
        PROVE  FALSE
    <3>1. j \in Nat /\ i - 1 \in Nat /\ j <= i - 1
      BY <1>2, <2>2
    <3>2. Count(j) <= Count(i - 1)
      BY <3>1, CountMonotone
    <3>. QED
      BY <1>4, <2>1, <3>2
  <2>3. ASSUME i < j
        PROVE  FALSE
    <3>1. i \in Nat /\ j - 1 \in Nat /\ i <= j - 1
      BY <1>2, <2>3
    <3>2. Count(i) <= Count(j - 1)
      BY <3>1, CountMonotone
    <3>. QED
      BY <1>4, <2>1, <3>2
  <2>. QED
    BY <1>2, <2>2, <2>3
<1>6. Cardinality({ h \in full : h < i }) = c
  BY <1>2, <1>3, <1>4 DEF Count
<1>. HIDE DEF full
<1>7. Nth(c) = i
  BY <1>2, <1>5, <1>6
<1>. HIDE DEF Nth, c
<1>8. x - 1 \in 0 .. auSample - 1 /\ auSample \in Nat \ {0} /\ k - 1 = c * auSample + (x - 1)
      /\ k = c * auSample + x
  BY <1>4, FilmConstants
<1>. HIDE DEF k
<1>9. (k - 1) % auSample = x - 1 /\ (k - 1) \div auSample = c
  <2>1. (c * auSample + (x - 1)) % auSample = x - 1 /\ (c * auSample + (x - 1)) \div auSample = c
    BY <1>4, <1>8, Divides, Zenon
  <2>. QED
    BY <1>8, <2>1, Zenon
<1>10. Count(i) <= Count(items) /\ Count(items) \in Nat /\ Count(i) = c + 1
  BY <1>2, <1>4, CountMonotone, CountFinite DEF c
<1>11. k \in 1 .. Count(items) * auSample
  <2>1. (c + 1) * auSample <= Count(items) * auSample
    BY <1>4, <1>8, <1>10
  <2>2. (c + 1) * auSample = c * auSample + auSample /\ c * auSample \in Nat
    BY <1>4, <1>8
  <2>. QED
    BY <1>8, <1>10, <2>1, <2>2
<1>12. Film[k] = << Nth((k - 1) \div auSample), ((k - 1) % auSample) + 1 >>
  BY <1>1, <1>11
<1>13. Film[k] = << i, x >>
  BY <1>7, <1>9, <1>12
<1>. QED
  BY <1>11, <1>13 DEF c, k

-----------------------------------------------------------------------------
(***************************************************************************)
(* The queue as a sequence of positions: its slots are used in a ring.     *)
(***************************************************************************)
\* The types of what the queue is made of.
LEMMA QueueTypes ==
  ASSUME TypeInv
  PROVE  /\ pcmNum \in Nat /\ pcmNum > 0 /\ validNum \in Nat /\ validNum <= pcmNum
         /\ readIndex \in 0 .. pcmNum - 1 /\ writeIndex = Ring(validNum)
         /\ \A k \in 0 .. pcmNum : /\ Ring(k) \in 0 .. pcmNum - 1
                                   /\ Ring(k) = IF readIndex + k < pcmNum THEN readIndex + k
                                                                          ELSE readIndex + k - pcmNum
         /\ \A i, j \in 0 .. pcmNum - 1 : Ring(i) = Ring(j) => i = j
         /\ \A k \in Positions : waiting[k] = slot[Ring(k)] /\ waiting[k] \in Slot
<1>1. /\ pcmNum \in Nat /\ pcmNum > 0 /\ validNum \in Nat /\ validNum <= pcmNum
      /\ readIndex \in 0 .. pcmNum - 1 /\ writeIndex = Ring(validNum)
  BY FilmConstants DEF TypeInv, TypeOK, Ring
<1>2. ASSUME NEW k \in 0 .. pcmNum
      PROVE  Ring(k) = IF readIndex + k < pcmNum THEN readIndex + k ELSE readIndex + k - pcmNum
  BY <1>1, Wraps DEF Ring
<1>3. \A k \in 0 .. pcmNum : Ring(k) \in 0 .. pcmNum - 1
  BY <1>1, <1>2
<1>4. \A i, j \in 0 .. pcmNum - 1 : Ring(i) = Ring(j) => i = j
  BY <1>1, <1>2
<1>5. ASSUME NEW k \in Positions
      PROVE  waiting[k] = slot[Ring(k)] /\ waiting[k] \in Slot
  <2>1. k \in 0 .. pcmNum
    BY <1>1 DEF Positions
  <2>2. Ring(k) \in 0 .. pcmNum - 1 /\ slot \in [0 .. pcmNum - 1 -> Slot]
    BY <1>3, <2>1 DEF TypeInv
  <2>. QED
    BY <2>2 DEF waiting
<1>. QED
  BY <1>1, <1>2, <1>3, <1>4, <1>5

LEMMA QueueStays ==
  ASSUME UNCHANGED << slot, readIndex, validNum >>
  PROVE  waiting' = waiting /\ Positions' = Positions
BY DEF waiting, Positions, Ring

\* A block is pushed behind the others; the slot of a buffer being given back is not overwritten,
\* as there are as many slots as buffers.
LEMMA PushMoves ==
  ASSUME TypeInv, BufferInv, QueuePush
  PROVE  /\ validNum' = validNum + 1 /\ validNum + 1 <= pcmNum
         /\ \A k \in Positions : waiting'[k] = waiting[k]
         /\ waiting'[validNum] = [pPcm |-> pPcm, item |-> fetched, index |-> 0]
         /\ Giving' = Giving /\ readIndex' = readIndex
<1>. DEFINE e == [pPcm |-> pPcm, item |-> fetched, index |-> 0]
<1>1. /\ slot' = [slot EXCEPT ![writeIndex] = e] /\ validNum' = validNum + 1 /\ readIndex' = readIndex
      /\ validNum < pcmNum /\ UNCHANGED << cb, done >> /\ pPcm # None
  BY DEF QueuePush, BufferInv, queue, mixer
<1>. HIDE DEF e
<1>2. /\ validNum \in 0 .. pcmNum - 1 /\ writeIndex = Ring(validNum) /\ pcmNum \in Nat
      /\ writeIndex \in 0 .. pcmNum - 1 /\ DOMAIN slot = 0 .. pcmNum - 1
  BY <1>1, QueueTypes DEF TypeInv
<1>3. \A k \in 0 .. validNum : waiting'[k] = slot'[Ring(k)]
  BY <1>1, <1>2 DEF waiting, Positions, Ring
<1>4. waiting'[validNum] = e
  BY <1>1, <1>2, <1>3
<1>5. ASSUME NEW k \in Positions
      PROVE  waiting'[k] = waiting[k]
  <2>1. k \in 0 .. pcmNum - 1 /\ k \in 0 .. validNum /\ k # validNum
    BY <1>2 DEF Positions
  <2>2. Ring(k) # writeIndex /\ Ring(k) \in 0 .. pcmNum - 1
    BY <1>2, <2>1, QueueTypes
  <2>. QED
    BY <1>1, <1>2, <1>3, <2>1, <2>2, QueueTypes
<1>6. Giving' = Giving
  <2>1. CASE cb = "give"
    <3>1. Giving # None /\ done = Ring(pcmNum - 1) /\ done \in 0 .. pcmNum - 1
      BY <2>1 DEF BufferInv, TypeInv
    <3>2. Len(pool) + 1 + validNum + 1 = pcmNum /\ Len(pool) \in Nat
      BY <1>1, <3>1, LenProperties DEF BufferInv, TypeInv, InHand, InMixer
    <3>3. done # writeIndex
      BY <1>2, <3>1, <3>2, QueueTypes
    <3>. QED
      BY <1>1, <1>2, <2>1, <3>1, <3>3 DEF Giving
  <2>2. CASE cb # "give"
    BY <1>1, <2>2 DEF Giving
  <2>. QED
    BY <2>1, <2>2
<1>. QED
  BY <1>1, <1>2, <1>4, <1>5, <1>6 DEF e

\* The head of the queue is popped, and the others move up.
LEMMA PopMoves ==
  ASSUME TypeInv, CbPop, validNum > 0
  PROVE  /\ validNum' = validNum - 1 /\ readIndex' \in 0 .. pcmNum - 1
         /\ \A k \in 0 .. validNum - 2 : waiting'[k] = waiting[k + 1] /\ k + 1 \in Positions
         /\ Giving' = waiting[0].pPcm /\ 0 \in Positions
         /\ done' = Ring(pcmNum - 1)' /\ done' \in 0 .. pcmNum - 1
         /\ writeIndex' = Ring(validNum)'
<1>1. /\ validNum' = validNum - 1 /\ readIndex' = (readIndex + 1) % pcmNum /\ done' = readIndex
      /\ slot' = slot /\ cb' = "give" /\ writeIndex' = writeIndex
  BY DEF CbPop
<1>2. /\ pcmNum \in Nat /\ pcmNum > 0 /\ validNum \in Nat /\ validNum <= pcmNum
      /\ readIndex \in 0 .. pcmNum - 1 /\ readIndex' = Ring(1)
      /\ writeIndex = Ring(validNum)
  BY <1>1, QueueTypes DEF Ring
<1>3. readIndex' = IF readIndex + 1 < pcmNum THEN readIndex + 1 ELSE readIndex + 1 - pcmNum
  <2>1. 1 \in 0 .. pcmNum
    BY <1>2
  <2>. QED
    BY <1>2, <2>1, QueueTypes
<1>4. readIndex' \in 0 .. pcmNum - 1
  BY <1>2, <1>3
<1>5. ASSUME NEW k \in 0 .. pcmNum - 1
      PROVE  (readIndex' + k) % pcmNum = Ring(k + 1)
  <2>1. (readIndex' + k) % pcmNum = IF readIndex' + k < pcmNum THEN readIndex' + k
                                                               ELSE readIndex' + k - pcmNum
    <3>1. pcmNum \in Nat \ {0} /\ k \in 0 .. pcmNum
      BY <1>2
    <3>. QED
      BY <1>4, <3>1, Wraps, Zenon
  <2>2. Ring(k + 1) = IF readIndex + (k + 1) < pcmNum THEN readIndex + (k + 1)
                                                      ELSE readIndex + (k + 1) - pcmNum
    <3>1. k + 1 \in 0 .. pcmNum
      BY <1>2
    <3>. QED
      BY <3>1, QueueTypes
  <2>. QED
    BY <1>2, <1>3, <2>1, <2>2
<1>6. ASSUME NEW k \in 0 .. validNum - 2
      PROVE  waiting'[k] = waiting[k + 1] /\ k + 1 \in Positions
  <2>1. k \in 0 .. pcmNum - 1 /\ k \in 0 .. validNum' - 1 /\ k + 1 \in 0 .. validNum - 1
    BY <1>1, <1>2
  <2>2. waiting'[k] = slot[(readIndex' + k) % pcmNum]
    BY <1>1, <2>1 DEF waiting, Positions, Ring
  <2>3. waiting[k + 1] = slot[Ring(k + 1)]
    BY <2>1 DEF waiting, Positions
  <2>. QED
    BY <1>5, <2>1, <2>2, <2>3 DEF Positions
<1>7. 0 \in Positions /\ waiting[0] = slot[readIndex]
  <2>1. 0 \in Positions /\ 0 \in 0 .. pcmNum
    BY <1>2 DEF Positions
  <2>2. Ring(0) = readIndex
    BY <1>2, <2>1, QueueTypes
  <2>. QED
    BY <2>1, <2>2 DEF waiting
<1>8. Giving' = waiting[0].pPcm
  BY <1>1, <1>7 DEF Giving
<1>9. done' = (readIndex' + (pcmNum - 1)) % pcmNum
  <2>1. pcmNum - 1 \in 0 .. pcmNum - 1 /\ pcmNum \in 0 .. pcmNum /\ pcmNum - 1 + 1 = pcmNum
    BY <1>2
  <2>2. Ring(pcmNum) = readIndex
    BY <1>2, <2>1, QueueTypes
  <2>. QED
    BY <1>1, <1>5, <2>1, <2>2
<1>10. writeIndex' = (readIndex' + validNum') % pcmNum
  <2>1. validNum' \in 0 .. pcmNum - 1 /\ validNum' + 1 = validNum
    BY <1>1, <1>2
  <2>. QED
    BY <1>1, <1>2, <1>5, <2>1
<1>. QED
  BY <1>1, <1>2, <1>4, <1>6, <1>7, <1>8, <1>9, <1>10 DEF Ring

\* Samples are copied out of the head of the queue.
Added == IF auSample - waiting[0].index > reqSample THEN reqSample ELSE auSample - waiting[0].index

LEMMA CopyMoves ==
  ASSUME TypeInv, CbCopy, validNum > 0, waiting[0].index < auSample
  PROVE  /\ 0 \in Positions /\ Added \in 0 .. auSample - waiting[0].index /\ Added \in 0 .. reqSample
         /\ played' = played \o [i \in 1 .. Added |-> << mem[waiting[0].pPcm], waiting[0].index + i >>]
         /\ UNCHANGED << validNum, readIndex >>
         /\ waiting'[0] = [waiting[0] EXCEPT !.index = @ + Added] /\ waiting'[0] \in Slot
         /\ \A k \in Positions : k # 0 => waiting'[k] = waiting[k]
         /\ cb' = IF waiting[0].index + Added >= auSample THEN "popping" ELSE "idle"
         /\ slot' \in [0 .. pcmNum - 1 -> Slot]
         /\ reqSample' \in 0 .. samples
<1>1. /\ pcmNum \in Nat /\ pcmNum > 0 /\ validNum \in Nat /\ validNum <= pcmNum
      /\ readIndex \in 0 .. pcmNum - 1 /\ reqSample \in 0 .. samples /\ samples \in Nat /\ auSample \in Nat
  BY QueueTypes, FilmConstants DEF TypeInv, TypeOK
<1>2. 0 \in Positions /\ waiting[0] = slot[readIndex] /\ waiting[0] \in Slot
  <2>1. 0 \in Positions /\ 0 \in 0 .. pcmNum
    BY <1>1 DEF Positions
  <2>2. Ring(0) = readIndex
    BY <1>1, <2>1, QueueTypes
  <2>. QED
    BY <2>1, <2>2, QueueTypes
<1>3. waiting[0].index \in 0 .. auSample
  BY <1>2 DEF Slot
<1>4. Added \in 0 .. auSample - waiting[0].index /\ Added \in 0 .. reqSample
  BY <1>1, <1>3 DEF Added
<1>. DEFINE e == [waiting[0] EXCEPT !.index = @ + Added]
<1>5. e \in Slot
  <2>1. waiting[0].index + Added \in 0 .. auSample
    BY <1>1, <1>3, <1>4
  <2>. QED
    BY <1>2, <2>1 DEF Slot
<1>6. /\ slot' = [slot EXCEPT ![readIndex] = e]
      /\ played' = played \o [i \in 1 .. Added |-> << mem[waiting[0].pPcm], waiting[0].index + i >>]
      /\ cb' = (IF waiting[0].index + Added >= auSample THEN "popping" ELSE "idle")
      /\ reqSample' = reqSample - Added
      /\ UNCHANGED << validNum, readIndex >>
  <2>1. Added = IF auSample - slot[readIndex].index > reqSample THEN reqSample
                                                                 ELSE auSample - slot[readIndex].index
    BY <1>2 DEF Added
  <2>. QED
    BY <1>2, <2>1 DEF CbCopy
<1>. HIDE DEF e
<1>7. slot' \in [0 .. pcmNum - 1 -> Slot]
  BY <1>1, <1>5, <1>6 DEF TypeInv
<1>8. ASSUME NEW k \in Positions
      PROVE  waiting'[k] = IF k = 0 THEN e ELSE waiting[k]
  <2>1. k \in 0 .. pcmNum - 1 /\ k \in 0 .. pcmNum /\ 0 \in 0 .. pcmNum - 1
    BY <1>1 DEF Positions
  <2>2. Ring(k) \in 0 .. pcmNum - 1 /\ (Ring(k) = Ring(0) => k = 0) /\ slot[Ring(0)] = slot[readIndex]
        /\ Ring(0) = readIndex
    <3>1. Ring(0) = readIndex
      BY <1>1, <2>1, QueueTypes
    <3>. QED
      BY <2>1, <3>1, QueueTypes
  <2>3. Ring(k)' = Ring(k) /\ Positions' = Positions
    BY <1>6 DEF Ring, Positions
  <2>4. waiting'[k] = slot'[Ring(k)] /\ waiting[k] = slot[Ring(k)]
    BY <2>3 DEF waiting
  <2>. QED
    BY <1>6, <2>2, <2>4 DEF TypeInv
<1>9. reqSample' \in 0 .. samples
  BY <1>1, <1>4, <1>6
<1>. QED
  BY <1>2, <1>4, <1>5, <1>6, <1>7, <1>8, <1>9 DEF e

-----------------------------------------------------------------------------
LEMMA LastTaken ==
  ASSUME NEW p \in Seq(Buffer), p # << >>
  PROVE  /\ Len(p) > 0 /\ p[Len(p)] \in Buffer /\ SubSeq(p, 1, Len(p) - 1) \in Seq(Buffer)
         /\ Len(SubSeq(p, 1, Len(p) - 1)) = Len(p) - 1
         /\ \A i \in 1 .. Len(p) - 1 : SubSeq(p, 1, Len(p) - 1)[i] = p[i]
<1>1. Len(p) \in Nat /\ Len(p) > 0 /\ \A i \in 1 .. Len(p) : p[i] \in Buffer
  BY EmptySeq, LenProperties, ElementOfSeq
<1>. DEFINE g == SubSeq(p, 1, Len(p) - 1)
            n == Len(p) - 1
<1>2. n \in Nat /\ \A i \in 1 .. n : p[i] \in Buffer
  BY <1>1
<1>3. /\ g \in Seq(Buffer) /\ Len(g) = (IF 1 <= n THEN n - 1 + 1 ELSE 0)
      /\ \A i \in 1 .. n - 1 + 1 : g[i] = p[1 + i - 1]
  BY <1>2, SubSeqProperties
<1>. HIDE DEF g, n
<1>4. Len(g) = n /\ \A i \in 1 .. n : g[i] = p[i]
  BY <1>2, <1>3
<1>5. Len(g) = Len(p) - 1 /\ \A i \in 1 .. Len(p) - 1 : g[i] = p[i]
  BY <1>4 DEF n
<1>. QED
  BY <1>1, <1>3, <1>5 DEF g

LEMMA BufferStep ==
  ASSUME TypeInv, BufferInv, BlockInv, [Next]_vars
  PROVE  BufferInv'
<1>1. /\ pcmNum \in Nat /\ pcmNum > 0 /\ validNum \in Nat /\ validNum <= pcmNum
      /\ pool \in Seq(Buffer) /\ Len(pool) \in Nat /\ pPcm \in Buffer \cup {None} /\ None \notin Buffer
      /\ Giving \in Buffer \cup {None} /\ readIndex \in 0 .. pcmNum - 1
      /\ \A i \in 1 .. Len(pool) : pool[i] \in Buffer
      /\ \A k \in Positions : waiting[k] \in Slot /\ waiting[k].pPcm \in Buffer \cup {None}
  <2>1. \A k \in Positions : waiting[k] \in Slot
    BY QueueTypes
  <2>2. \A e \in Slot : e.pPcm \in Buffer \cup {None}
    BY DEF Slot
  <2>3. Giving \in Buffer \cup {None}
    BY <2>2 DEF Giving, TypeInv
  <2>. QED
    BY <2>1, <2>2, <2>3, QueueTypes, FilmConstants, LenProperties, ElementOfSeq DEF TypeInv
<1>2. Len(pool) + InHand + validNum + InMixer = pcmNum
  BY DEF BufferInv
\* Nothing moves.
<1>3. ASSUME UNCHANGED << slot, readIndex, validNum, pool, pPcm, done >>,
             cb' = "give" <=> cb = "give",
             pc' \in {"get", "push"} <=> pc \in {"get", "push"}
      PROVE  BufferInv'
  <2>1. waiting' = waiting /\ Positions' = Positions /\ Giving' = Giving /\ Ring(pcmNum - 1)' = Ring(pcmNum - 1)
        /\ InHand' = InHand /\ InMixer' = InMixer
    BY <1>3, QueueStays DEF Giving, Ring, InHand, InMixer
  <2>. QED
    BY <1>3, <2>1 DEF BufferInv
<1>4. CASE PoolPop
  <2>1. /\ pPcm' = pool[Len(pool)] /\ pool' = SubSeq(pool, 1, Len(pool) - 1) /\ pool # << >>
        /\ UNCHANGED << slot, readIndex, validNum, done, cb >> /\ pc = "pop" /\ pc' = "get"
    BY <1>4 DEF PoolPop, queue, mixer
  <2>2. waiting' = waiting /\ Positions' = Positions /\ Giving' = Giving /\ Ring(pcmNum - 1)' = Ring(pcmNum - 1)
    BY <2>1, QueueStays DEF Giving, Ring
  <2>3. Len(pool) > 0
    BY <1>1, <2>1, LastTaken
  <2>4. pPcm' \in Buffer /\ Len(pool') = Len(pool) - 1 /\ \A i \in 1 .. Len(pool) - 1 : pool'[i] = pool[i]
    BY <1>1, <2>1, LastTaken
  <2>5. pPcm = None
    BY <2>1 DEF BufferInv
  <2>6. ASSUME NEW b \in Buffer
        PROVE  \/ b = pPcm' \/ b = Giving'
               \/ \E i \in 1 .. Len(pool') : b = pool'[i]
               \/ \E k \in Positions' : b = waiting'[k].pPcm
    <3>1. CASE \E i \in 1 .. Len(pool) : b = pool[i]
      <4>1. PICK i \in 1 .. Len(pool) : b = pool[i]
        BY <3>1
      <4>2. CASE i = Len(pool)
        BY <2>1, <4>1, <4>2
      <4>3. CASE i \in 1 .. Len(pool) - 1
        BY <2>4, <4>1, <4>3
      <4>. QED
        BY <1>1, <4>1, <4>2, <4>3
    <3>2. CASE ~(\E i \in 1 .. Len(pool) : b = pool[i])
      BY <1>1, <2>2, <2>5, <3>2 DEF BufferInv
    <3>. QED
      BY <3>1, <3>2
  <2>7. Len(pool') + InHand' + validNum' + InMixer' = pcmNum
    <3>1. InHand = 0 /\ InHand' = 1 /\ InMixer' = InMixer /\ InMixer \in {0, 1}
      BY <1>1, <2>2, <2>4, <2>5 DEF InHand, InMixer
    <3>. QED
      BY <1>2, <1>1, <2>1, <2>4, <3>1
  <2>8. /\ \A i, j \in 1 .. Len(pool') : pool'[i] = pool'[j] => i = j
        /\ \A i \in 1 .. Len(pool') : pool'[i] # pPcm' /\ pool'[i] # Giving'
    <3>1. /\ \A i \in 1 .. Len(pool') : i \in 1 .. Len(pool) /\ i # Len(pool) /\ pool'[i] = pool[i]
          /\ Len(pool) \in 1 .. Len(pool)
      BY <1>1, <2>3, <2>4
    <3>2. \A i, j \in 1 .. Len(pool) : pool[i] = pool[j] => i = j
      BY DEF BufferInv
    <3>3. \A i \in 1 .. Len(pool) : pool[i] # Giving
      BY DEF BufferInv
    <3>4. \A i, j \in 1 .. Len(pool') : pool'[i] = pool'[j] => i = j
      BY <3>1, <3>2
    <3>. QED
      BY <2>1, <2>2, <3>1, <3>2, <3>3, <3>4
  <2>9. /\ \A k \in Positions : /\ waiting[k].pPcm \notin {None, pPcm', Giving}
                                /\ \A i \in 1 .. Len(pool') : waiting[k].pPcm # pool'[i]
        /\ Giving # None => Giving # pPcm'
    BY <1>1, <2>1, <2>3, <2>4 DEF BufferInv
  <2>10. /\ pPcm' # None <=> pc' \in {"get", "push"}
         /\ cb' = "give" => Giving' # None /\ done' = Ring(pcmNum - 1)'
    BY <1>1, <2>1, <2>2, <2>4 DEF BufferInv
  <2>11. \A i, j \in Positions' : waiting'[i].pPcm = waiting'[j].pPcm => i = j
    BY <2>2 DEF BufferInv
  <2>. QED
    BY <2>2, <2>6, <2>7, <2>8, <2>9, <2>10, <2>11 DEF BufferInv
\* A buffer goes back to the pool, from the hand of apost or from the mixer.
<1>5. ASSUME NEW b \in Buffer, pool' = Append(pool, b), UNCHANGED << slot, readIndex, validNum >>,
             \/ b = pPcm /\ pPcm' = None /\ Giving' = Giving
             \/ b = Giving /\ pPcm' = pPcm /\ Giving' = None,
             pPcm' # None <=> pc' \in {"get", "push"},
             cb' = "give" => Giving' # None /\ done' = Ring(pcmNum - 1)'
      PROVE  BufferInv'
  <2>1. waiting' = waiting /\ Positions' = Positions
    BY <1>5, QueueStays
  <2>2. /\ Len(pool') = Len(pool) + 1 /\ pool'[Len(pool) + 1] = b
        /\ \A i \in 1 .. Len(pool) : pool'[i] = pool[i]
    BY <1>1, <1>5, AppendProperties
  <2>3. ASSUME NEW c \in Buffer
        PROVE  \/ c = pPcm' \/ c = Giving'
               \/ \E i \in 1 .. Len(pool') : c = pool'[i]
               \/ \E k \in Positions' : c = waiting'[k].pPcm
    <3>1. 1 .. Len(pool) \subseteq 1 .. Len(pool') /\ Len(pool) + 1 \in 1 .. Len(pool')
      BY <1>1, <2>2
    <3>2. CASE c = b
      BY <2>2, <3>1, <3>2
    <3>3. CASE c # b
      BY <1>5, <2>1, <2>2, <3>1, <3>3 DEF BufferInv
    <3>. QED
      BY <3>2, <3>3
  <2>4. Len(pool') + InHand' + validNum' + InMixer' = pcmNum
    <3>1. \/ InHand = 1 /\ InHand' = 0 /\ InMixer' = InMixer /\ InMixer \in {0, 1}
          \/ InMixer = 1 /\ InMixer' = 0 /\ InHand' = InHand /\ InHand \in {0, 1}
      BY <1>1, <1>5 DEF InHand, InMixer, BufferInv
    <3>2. Len(pool') = Len(pool) + 1 /\ validNum' = validNum
      BY <1>5, <2>2
    <3>. QED
      BY <1>2, <1>1, <3>1, <3>2
  <2>5. /\ \A i, j \in 1 .. Len(pool') : pool'[i] = pool'[j] => i = j
        /\ \A i \in 1 .. Len(pool') : pool'[i] # pPcm' /\ pool'[i] # Giving'
    <3>1. \A i \in 1 .. Len(pool) : pool[i] # b
      BY <1>5 DEF BufferInv
    <3>2. \A i \in 1 .. Len(pool') : i \in 1 .. Len(pool) \/ i = Len(pool) + 1
      BY <1>1, <2>2
    <3>3. b # pPcm' /\ b # Giving'
      BY <1>1, <1>5 DEF BufferInv
    <3>4. \A i \in 1 .. Len(pool) : pool[i] \in Buffer /\ pool[i] # pPcm' /\ pool[i] # Giving'
      BY <1>1, <1>5 DEF BufferInv
    <3>5. \A i, j \in 1 .. Len(pool') : pool'[i] = pool'[j] => i = j
      BY <2>2, <3>1, <3>2 DEF BufferInv
    <3>. QED
      BY <2>2, <3>2, <3>3, <3>4, <3>5
  <2>6. \A k \in Positions : /\ waiting[k].pPcm \notin {None, pPcm', Giving'}
                             /\ \A i \in 1 .. Len(pool') : waiting[k].pPcm # pool'[i]
    <3>1. \A i \in 1 .. Len(pool') : i \in 1 .. Len(pool) \/ i = Len(pool) + 1
      BY <1>1, <2>2
    <3>. QED
      BY <1>1, <1>5, <2>2, <3>1 DEF BufferInv
  <2>. QED
    BY <1>1, <1>5, <2>1, <2>3, <2>4, <2>5, <2>6 DEF BufferInv
<1>6. CASE GetFails
  <2>1. pool' = Append(pool, pPcm) /\ pPcm' = None /\ pc = "get" /\ pc' = "over"
        /\ UNCHANGED << slot, readIndex, validNum, cb, done >>
    BY <1>6 DEF GetFails, queue, mixer
  <2>2. pPcm \in Buffer /\ Giving' = Giving /\ Ring(pcmNum - 1)' = Ring(pcmNum - 1)
    BY <1>1, <2>1 DEF BufferInv, Giving, Ring
  <2>3. cb' = "give" => Giving' # None /\ done' = Ring(pcmNum - 1)'
    BY <2>1, <2>2 DEF BufferInv
  <2>. QED
    BY <1>5, <2>1, <2>2, <2>3
<1>7. CASE CbGive
  <2>1. /\ pool' = (IF Len(pool) < pcmNum THEN Append(pool, slot[done].pPcm) ELSE pool)
        /\ cb = "give" /\ cb' # "give" /\ UNCHANGED << slot, readIndex, validNum, pPcm, pc >>
    BY <1>7 DEF CbGive, apost, queue
  <2>2. Giving = slot[done].pPcm /\ Giving # None /\ Giving' = None
    BY <2>1 DEF Giving, BufferInv
  <2>3. Len(pool) < pcmNum
    BY <1>2, <1>1, <2>2 DEF InHand, InMixer
  <2>4. pPcm' # None <=> pc' \in {"get", "push"}
    BY <2>1 DEF BufferInv
  <2>. QED
    BY <1>1, <1>5, <2>1, <2>2, <2>3, <2>4
<1>8. CASE QueuePush
  <2>1. /\ validNum' = validNum + 1 /\ validNum + 1 <= pcmNum
        /\ \A k \in Positions : waiting'[k] = waiting[k]
        /\ waiting'[validNum] = [pPcm |-> pPcm, item |-> fetched, index |-> 0]
        /\ Giving' = Giving /\ readIndex' = readIndex
    BY <1>8, PushMoves
  <2>2. pc = "push" /\ pc' = "wait" /\ pPcm' = None /\ UNCHANGED << pool, cb, done >>
    BY <1>8 DEF QueuePush, buffers, mixer
  <2>3. pPcm \in Buffer /\ waiting'[validNum].pPcm = pPcm
    BY <1>1, <2>1, <2>2 DEF BufferInv
  <2>4. /\ \A k \in Positions' : k \in Positions \/ k = validNum
        /\ Positions \subseteq Positions' /\ validNum \in Positions'
    BY <1>1, <2>1 DEF Positions
  <2>5. cb' = "give" => Giving' # None /\ done' = Ring(pcmNum - 1)'
    BY <2>1, <2>2 DEF BufferInv, Ring
  <2>6. \A b \in Buffer : \/ b = pPcm' \/ b = Giving'
                          \/ \E i \in 1 .. Len(pool') : b = pool'[i]
                          \/ \E k \in Positions' : b = waiting'[k].pPcm
    BY <2>1, <2>2, <2>3, <2>4 DEF BufferInv
  <2>7. Len(pool') + InHand' + validNum' + InMixer' = pcmNum
    <3>1. InHand = 1 /\ InHand' = 0 /\ InMixer' = InMixer /\ InMixer \in {0, 1}
      BY <1>1, <2>1, <2>2, <2>3 DEF InHand, InMixer
    <3>. QED
      BY <1>2, <1>1, <2>1, <2>2, <3>1
  <2>8. \A i, j \in Positions' : waiting'[i].pPcm = waiting'[j].pPcm => i = j
    BY <1>1, <2>1, <2>3, <2>4 DEF BufferInv
  <2>9. /\ \A i \in 1 .. Len(pool') : pool'[i] # pPcm' /\ pool'[i] # Giving'
        /\ \A k \in Positions' : /\ waiting'[k].pPcm \notin {None, pPcm', Giving'}
                                 /\ \A i \in 1 .. Len(pool') : waiting'[k].pPcm # pool'[i]
    BY <1>1, <2>1, <2>2, <2>3, <2>4 DEF BufferInv
  <2>10. /\ \A i, j \in 1 .. Len(pool') : pool'[i] = pool'[j] => i = j
         /\ pPcm' # None <=> pc' \in {"get", "push"}
         /\ Giving' # None => Giving' # pPcm'
    BY <2>2 DEF BufferInv
  <2>. QED
    BY <2>5, <2>6, <2>7, <2>8, <2>9, <2>10 DEF BufferInv
<1>9. CASE CbPop
  <2>1. validNum > 0 /\ cb = "popping" /\ cb' = "give" /\ UNCHANGED << pool, pPcm, pc >>
    BY <1>9 DEF CbPop, BlockInv, buffers, apost
  <2>2. /\ validNum' = validNum - 1
        /\ \A k \in 0 .. validNum - 2 : waiting'[k] = waiting[k + 1] /\ k + 1 \in Positions
        /\ Giving' = waiting[0].pPcm /\ 0 \in Positions /\ done' = Ring(pcmNum - 1)'
    BY <1>9, <2>1, PopMoves
  <2>3. Positions' = 0 .. validNum - 2 /\ Giving = None
    BY <1>1, <2>1, <2>2 DEF Positions, Giving
  <2>4. Giving' # None /\ Giving' \in Buffer /\ Giving' # pPcm
    BY <1>1, <2>2 DEF BufferInv
  <2>5. ASSUME NEW b \in Buffer
        PROVE  \/ b = pPcm' \/ b = Giving'
               \/ \E i \in 1 .. Len(pool') : b = pool'[i]
               \/ \E k \in Positions' : b = waiting'[k].pPcm
    <3>1. CASE \E k \in Positions : b = waiting[k].pPcm
      <4>1. PICK k \in Positions : b = waiting[k].pPcm
        BY <3>1
      <4>2. CASE k = 0
        BY <2>2, <4>1, <4>2
      <4>3. CASE k # 0
        <5>1. k - 1 \in 0 .. validNum - 2 /\ (k - 1) + 1 = k
          BY <1>1, <4>3 DEF Positions
        <5>2. waiting'[k - 1] = waiting[k]
          BY <2>2, <5>1
        <5>. QED
          BY <2>3, <4>1, <5>1, <5>2
      <4>. QED
        BY <4>2, <4>3
    <3>2. CASE ~(\E k \in Positions : b = waiting[k].pPcm)
      BY <1>1, <2>1, <2>3, <3>2 DEF BufferInv
    <3>. QED
      BY <3>1, <3>2
  <2>6. Len(pool') + InHand' + validNum' + InMixer' = pcmNum
    <3>1. InHand' = InHand /\ InMixer = 0 /\ InMixer' = 1 /\ InHand \in {0, 1}
      BY <1>1, <2>1, <2>3, <2>4 DEF InHand, InMixer
    <3>. QED
      BY <1>2, <1>1, <2>1, <2>2, <3>1
  <2>7. /\ \A k \in 0 .. validNum - 2 : k + 1 \in Positions /\ k + 1 # 0
        /\ \A i, j \in 0 .. validNum - 2 : i + 1 = j + 1 => i = j
    BY <1>1 DEF Positions
  <2>8. /\ \A i, j \in Positions' : waiting'[i].pPcm = waiting'[j].pPcm => i = j
        /\ \A k \in Positions' : /\ waiting'[k].pPcm \notin {None, pPcm', Giving'}
                                 /\ \A i \in 1 .. Len(pool') : waiting'[k].pPcm # pool'[i]
    <3>1. \A i, j \in Positions : waiting[i].pPcm = waiting[j].pPcm => i = j
      BY DEF BufferInv
    <3>2. \A k \in Positions : /\ waiting[k].pPcm \notin {None, pPcm, Giving}
                               /\ \A i \in 1 .. Len(pool) : waiting[k].pPcm # pool[i]
      BY DEF BufferInv
    <3>3. \A i, j \in Positions' : waiting'[i].pPcm = waiting'[j].pPcm => i = j
      BY <2>2, <2>3, <2>7, <3>1
    <3>4. \A k \in Positions' : /\ waiting'[k].pPcm \notin {None, pPcm', Giving'}
                                /\ \A i \in 1 .. Len(pool') : waiting'[k].pPcm # pool'[i]
      BY <2>1, <2>2, <2>3, <2>7, <3>1, <3>2
    <3>. QED
      BY <3>3, <3>4
  <2>9. \A i \in 1 .. Len(pool') : pool'[i] # pPcm' /\ pool'[i] # Giving'
    BY <2>1, <2>2 DEF BufferInv
  <2>. QED
    BY <2>1, <2>2, <2>4, <2>5, <2>6, <2>8, <2>9 DEF BufferInv
<1>10. CASE CbCopy
  <2>1. validNum > 0 /\ cb = "copy" /\ UNCHANGED << pool, pPcm, pc, done >> /\ waiting[0].index < auSample
    BY <1>10 DEF CbCopy, BlockInv, buffers, apost
  <2>2. /\ 0 \in Positions /\ UNCHANGED << validNum, readIndex >>
        /\ waiting'[0] = [waiting[0] EXCEPT !.index = @ + Added] /\ waiting[0] \in Slot
        /\ \A k \in Positions : k # 0 => waiting'[k] = waiting[k]
        /\ cb' # "give"
    BY <1>1, <1>10, <2>1, CopyMoves
  <2>3. waiting'[0].pPcm = waiting[0].pPcm
    BY <2>2 DEF Slot
  <2>4. \A k \in Positions : waiting'[k].pPcm = waiting[k].pPcm
    BY <2>2, <2>3
  <2>5. Positions' = Positions /\ Giving' = Giving /\ InHand' = InHand /\ InMixer' = InMixer
    BY <2>1, <2>2 DEF Positions, Giving, InHand, InMixer
  <2>. QED
    BY <2>1, <2>2, <2>4, <2>5 DEF BufferInv
<1>11. CASE Decoded \/ SeqEndCb \/ VideoReady \/ ErrorExit \/ UNCHANGED vars
  BY <1>3, <1>11 DEF Decoded, SeqEndCb, VideoReady, ErrorExit, vars, common, decoder, apost, buffers, queue,
                mixer, Woken
<1>12. CASE Wait \/ Sleep \/ Fetch \/ FetchNothing \/ GetPcm \/ Exit
  BY <1>3, <1>12 DEF Wait, Sleep, Fetch, FetchNothing, GetPcm, Exit, buffers, queue, mixer
<1>13. CASE CbStart \/ CbPeek \/ Ender
  BY <1>3, <1>13 DEF CbStart, CbPeek, Ender, EndsApost, EndsAmixer, apost, buffers, queue, mixer
<1>. QED
  BY <1>4, <1>6, <1>7, <1>8, <1>9, <1>10, <1>11, <1>12, <1>13 DEF Next, Apost, AmixerCb

\* What the lemmas on the steps need to know of a state.
LEMMA FilmTypes ==
  ASSUME TypeInv
  PROVE  /\ items \in Nat /\ ready \in Nat /\ fetched \in Nat /\ MaxItems \in Nat
         /\ fetched <= ready /\ ready <= items /\ items <= MaxItems
         /\ Count(fetched) \in Nat /\ InPush \in {0, 1} /\ Popped \in Int
         /\ validNum \in Nat /\ Len(pool) \in Nat /\ apts \in Nat
<1>1. /\ items \in Nat /\ ready \in Nat /\ fetched \in Nat /\ MaxItems \in Nat
      /\ fetched <= ready /\ ready <= items /\ items <= MaxItems /\ apts \in Nat
  BY FilmConstants DEF TypeInv, TypeOK
<1>2. Count(fetched) \in Nat
  BY <1>1, CountFinite
<1>3. validNum \in Nat /\ InPush \in {0, 1} /\ Len(pool) \in Nat
  BY QueueTypes, LenProperties DEF InPush, TypeInv
<1>. QED
  BY <1>1, <1>2, <1>3 DEF Popped

LEMMA TypeStep ==
  ASSUME TypeInv, BufferInv, BlockInv, [Next]_vars
  PROVE  TypeInv'
<1>1. /\ items \in Nat /\ ready \in Nat /\ fetched \in Nat /\ MaxItems \in Nat
      /\ fetched <= ready /\ ready <= items /\ items <= MaxItems /\ apts \in Nat
      /\ samples \in Nat /\ auSample \in Nat /\ auSample > 0 /\ pcmNum \in Nat /\ pcmNum > 0
      /\ validNum \in Nat /\ validNum <= pcmNum /\ readIndex \in 0 .. pcmNum - 1
      /\ pPcm \in Buffer \cup {None} /\ None \notin Buffer
  BY FilmTypes, FilmConstants, QueueTypes DEF TypeInv
<1>2. { mode_exec', videoReady', audioReady', audioEnd', seqDone', bSequence', bReqStop', cbReqStop' }
        \subseteq BOOLEAN
  <2>1. /\ mode_exec \in BOOLEAN /\ videoReady \in BOOLEAN /\ audioReady \in BOOLEAN
        /\ audioEnd \in BOOLEAN /\ seqDone \in BOOLEAN /\ bSequence \in BOOLEAN
        /\ bReqStop \in BOOLEAN /\ cbReqStop \in BOOLEAN
    BY DEF TypeInv, TypeOK
  <2>2. CASE CbPeek
    <3>1. UNCHANGED << mode_exec, videoReady, seqDone, cbReqStop >> /\ audioReady' = (audioReady \/ validNum >= pcmNum)
      BY <2>2 DEF CbPeek, decoder
    <3>2. /\ audioEnd' = audioEnd \/ audioEnd' = TRUE
          /\ bSequence' = bSequence \/ bSequence' = FALSE
          /\ bReqStop' = bReqStop \/ bReqStop' = FALSE
      BY <2>2 DEF CbPeek
    <3>. QED
      BY <2>1, <3>1, <3>2
  <2>3. CASE Decoded \/ SeqEndCb \/ VideoReady \/ ErrorExit \/ CbStart \/ Ender
    BY <2>1, <2>3 DEF Decoded, SeqEndCb, VideoReady, ErrorExit, CbStart, Ender, EndsApost, EndsAmixer,
       common, decoder, mixer
  <2>4. CASE Apost \/ CbCopy \/ CbPop \/ CbGive \/ UNCHANGED vars
    <3>1. UNCHANGED << videoReady, audioReady, audioEnd, seqDone, bSequence, bReqStop, cbReqStop >>
      BY <2>4 DEF Apost, Wait, Sleep, Fetch, FetchNothing, PoolPop, GetPcm, GetFails, QueuePush, Exit,
         CbCopy, CbPop, CbGive, vars, common, decoder, mixer
    <3>2. mode_exec' = mode_exec \/ mode_exec' = FALSE
      BY <2>4 DEF Apost, Wait, Sleep, Fetch, FetchNothing, PoolPop, GetPcm, GetFails, QueuePush, Exit,
         CbCopy, CbPop, CbGive, vars, common
    <3>. QED
      BY <2>1, <3>1, <3>2
  <2>. QED
    BY <2>2, <2>3, <2>4 DEF Next, AmixerCb
<1>3. items' = items /\ items' \in 0 .. MaxItems /\ ready' \in 0 .. items' /\ fetched' \in 0 .. ready'
  BY <1>1 DEF Next, Apost, AmixerCb, Ender, Decoded, SeqEndCb, VideoReady, ErrorExit, Wait, Sleep, Fetch,
     FetchNothing, PoolPop, GetPcm, GetFails, QueuePush, Exit, CbStart, CbPeek, CbCopy, CbPop, CbGive,
     EndsApost, EndsAmixer, vars, common, decoder, mixer, BlockInv
<1>4. /\ pc' \in {"wait", "going", "asleep", "fetch", "pop", "get", "push", "over", "gone"}
      /\ errorCode' \in {"invalid", "ok", "error"} /\ ender' \in {"joins", "stops", "done"}
  BY DEF TypeInv, TypeOK, Next, Apost, AmixerCb, Ender, Decoded, SeqEndCb, VideoReady, ErrorExit, Wait, Sleep, Fetch,
     FetchNothing, PoolPop, GetPcm, GetFails, QueuePush, Exit, CbStart, CbPeek, CbCopy, CbPop, CbGive,
     EndsApost, EndsAmixer, vars, common, decoder, mixer, apost, Woken
<1>5. /\ recv' \in [bPcmOut : BOOLEAN, bSequence : BOOLEAN] /\ stat' \in [DOMAIN recv' -> BOOLEAN]
  <2>. DEFINE R == [bPcmOut : BOOLEAN, bSequence : BOOLEAN]
  <2>1. /\ R = [{"bPcmOut", "bSequence"} -> BOOLEAN] /\ recv \in R /\ stat \in R
        /\ [bPcmOut |-> TRUE, bSequence |-> FALSE] \in R
    BY DEF TypeInv, TypeOK
  <2>2. ASSUME NEW x \in R, NEW y \in R
        PROVE  /\ [x EXCEPT !.bPcmOut = TRUE] \in R /\ [x EXCEPT !.bPcmOut = FALSE] \in R
               /\ [x EXCEPT !.bPcmOut = x.bPcmOut \/ y.bPcmOut] \in R
    OBVIOUS
  <2>3. recv' \in R /\ stat' \in R
    <3>1. CASE Wait
      <4>1. /\ [recv EXCEPT !.bPcmOut = recv.bPcmOut \/ stat.bPcmOut] \in R
            /\ [recv EXCEPT !.bPcmOut = FALSE] \in R
        BY <2>1, <2>2
      <4>. HIDE DEF R
      <4>2. /\ recv' \in {recv, [recv EXCEPT !.bPcmOut = FALSE]}
            /\ stat' \in {stat, [recv EXCEPT !.bPcmOut = recv.bPcmOut \/ stat.bPcmOut]}
        BY <3>1 DEF Wait
      <4>. QED
        BY <2>1, <4>1, <4>2
    <3>2. CASE ~Wait
      <4>1. /\ [recv EXCEPT !.bPcmOut = TRUE] \in R /\ [stat EXCEPT !.bPcmOut = FALSE] \in R
        BY <2>1, <2>2
      <4>. HIDE DEF R
      <4>2. /\ recv' \in {recv, [recv EXCEPT !.bPcmOut = TRUE], [bPcmOut |-> TRUE, bSequence |-> FALSE]}
            /\ stat' \in {stat, [stat EXCEPT !.bPcmOut = FALSE]}
        BY <3>2 DEF Next, Apost, AmixerCb, Ender, Decoded, SeqEndCb, VideoReady, ErrorExit, Sleep, Fetch,
     FetchNothing, PoolPop, GetPcm, GetFails, QueuePush, Exit, CbStart, CbPeek, CbCopy, CbPop, CbGive,
     EndsApost, EndsAmixer, vars, common, decoder, mixer, apost
      <4>. QED
        BY <2>1, <4>1, <4>2
    <3>. QED
      BY <3>1, <3>2
  <2>4. DOMAIN recv' = {"bPcmOut", "bSequence"}
    BY <2>3
  <2>. QED
    BY <2>1, <2>3, <2>4
\* The actions on the queue.
<1>6. /\ slot' \in [0 .. pcmNum - 1 -> Slot] /\ \A i \in 0 .. pcmNum - 1 : slot'[i].item \in 0 .. items
      /\ readIndex' \in 0 .. pcmNum - 1 /\ writeIndex' \in 0 .. pcmNum - 1 /\ done' \in 0 .. pcmNum - 1
      /\ validNum' \in 0 .. pcmNum /\ writeIndex' = (readIndex' + validNum') % pcmNum
      /\ reqSample' \in 0 .. samples /\ cb' \in {"idle", "peek", "copy", "popping", "give"}
  <2>1. /\ slot \in [0 .. pcmNum - 1 -> Slot] /\ \A i \in 0 .. pcmNum - 1 : slot[i].item \in 0 .. items
        /\ writeIndex \in 0 .. pcmNum - 1 /\ done \in 0 .. pcmNum - 1
        /\ writeIndex = (readIndex + validNum) % pcmNum
        /\ reqSample \in 0 .. samples /\ cb \in {"idle", "peek", "copy", "popping", "give"}
    BY DEF TypeInv, TypeOK
  <2>2. CASE QueuePush
    <3>. DEFINE e == [pPcm |-> pPcm, item |-> fetched, index |-> 0]
    <3>1. /\ slot' = [slot EXCEPT ![writeIndex] = e] /\ validNum < pcmNum /\ validNum' = validNum + 1
          /\ writeIndex' = (writeIndex + 1) % pcmNum /\ UNCHANGED << readIndex, done, reqSample, cb >>
      BY <2>2 DEF QueuePush, mixer
    <3>2. e \in Slot /\ e.item \in 0 .. items
      BY <1>1 DEF Slot
    <3>. HIDE DEF e
    <3>3. slot' \in [0 .. pcmNum - 1 -> Slot] /\ \A i \in 0 .. pcmNum - 1 : slot'[i].item \in 0 .. items
      BY <2>1, <3>1, <3>2
    <3>4. writeIndex' = IF writeIndex + 1 < pcmNum THEN writeIndex + 1 ELSE writeIndex + 1 - pcmNum
      <4>1. pcmNum \in Nat \ {0} /\ 1 \in 0 .. pcmNum
        BY <1>1
      <4>. QED
        BY <2>1, <3>1, <4>1, Wraps, Zenon
    <3>5. /\ writeIndex = Ring(validNum) /\ validNum \in 0 .. pcmNum /\ validNum + 1 \in 0 .. pcmNum
          /\ (readIndex' + validNum') % pcmNum = Ring(validNum + 1)
      <4>1. writeIndex = Ring(validNum) /\ validNum \in 0 .. pcmNum /\ validNum + 1 \in 0 .. pcmNum
        BY <1>1, <3>1, QueueTypes
      <4>2. (readIndex' + validNum') % pcmNum = Ring(validNum + 1)
        BY <3>1, Zenon DEF Ring
      <4>. QED
        BY <4>1, <4>2
    <3>6. /\ Ring(validNum) = IF readIndex + validNum < pcmNum THEN readIndex + validNum
                                                               ELSE readIndex + validNum - pcmNum
          /\ Ring(validNum + 1) = IF readIndex + (validNum + 1) < pcmNum THEN readIndex + (validNum + 1)
                                                               ELSE readIndex + (validNum + 1) - pcmNum
      BY <3>5, QueueTypes
    <3>7. writeIndex' = Ring(validNum + 1)
      BY <1>1, <3>1, <3>4, <3>5, <3>6
    <3>8. Ring(validNum + 1) \in 0 .. pcmNum - 1
      BY <3>5, QueueTypes
    <3>. QED
      BY <1>1, <2>1, <3>1, <3>3, <3>5, <3>7, <3>8
  <2>3. CASE CbPop
    <3>1. validNum > 0 /\ UNCHANGED << slot, writeIndex, reqSample >> /\ cb' = "give"
      BY <2>3 DEF CbPop, BlockInv
    <3>2. /\ validNum' = validNum - 1 /\ readIndex' \in 0 .. pcmNum - 1 /\ done' \in 0 .. pcmNum - 1
          /\ writeIndex' = (readIndex' + validNum') % pcmNum
      <4>1. writeIndex' = Ring(validNum)'
        BY <2>3, <3>1, PopMoves
      <4>2. done' = readIndex
        BY <2>3 DEF CbPop
      <4>. QED
        BY <1>1, <2>3, <3>1, <4>1, <4>2, PopMoves DEF Ring
    <3>3. /\ \A i \in 0 .. pcmNum - 1 : slot'[i].item \in 0 .. items
          /\ validNum' \in 0 .. pcmNum /\ writeIndex' \in 0 .. pcmNum - 1
      BY <1>1, <2>1, <3>1, <3>2
    <3>. QED
      BY <2>1, <3>1, <3>2, <3>3
  <2>4. CASE CbCopy
    <3>. DEFINE x == slot[readIndex].index + (IF auSample - slot[readIndex].index > reqSample THEN reqSample
                                               ELSE auSample - slot[readIndex].index)
    <3>1. /\ validNum > 0 /\ cb = "copy" /\ waiting[0].index < auSample /\ UNCHANGED << writeIndex, done >>
          /\ slot' = [slot EXCEPT ![readIndex].index = x]
      BY <2>4 DEF CbCopy, BlockInv
    <3>. HIDE DEF x
    <3>2. /\ slot' \in [0 .. pcmNum - 1 -> Slot] /\ reqSample' \in 0 .. samples
          /\ UNCHANGED << validNum, readIndex >> /\ cb' \in {"idle", "popping"}
      BY <2>4, <3>1, CopyMoves
    <3>3. \A i \in 0 .. pcmNum - 1 : slot'[i].item = slot[i].item
      BY <1>1, <2>1, <3>1 DEF Slot
    <3>4. \A i \in 0 .. pcmNum - 1 : slot'[i].item \in 0 .. items
      BY <2>1, <3>3
    <3>5. validNum' \in 0 .. pcmNum /\ readIndex' \in 0 .. pcmNum - 1 /\ writeIndex' \in 0 .. pcmNum - 1
          /\ done' \in 0 .. pcmNum - 1 /\ writeIndex' = (readIndex' + validNum') % pcmNum
      BY <1>1, <2>1, <3>1, <3>2
    <3>. QED
      BY <3>2, <3>4, <3>5
  <2>5. CASE CbPeek
    <3>1. UNCHANGED << slot, readIndex, writeIndex, validNum, done >> /\ cb' \in {"idle", "copy"}
      BY <2>5 DEF CbPeek, queue
    <3>2. reqSample' = reqSample \/ reqSample' = samples
      BY <2>5 DEF CbPeek
    <3>. QED
      BY <1>1, <2>1, <3>1, <3>2
  <2>6. CASE CbGive
    <3>1. UNCHANGED << slot, readIndex, writeIndex, validNum, reqSample >> /\ cb' \in {"idle", "copy"}
          /\ done' = 0
      BY <2>6 DEF CbGive, queue, None
    <3>. QED
      BY <1>1, <2>1, <3>1
  <2>7. CASE ~QueuePush /\ ~CbPop /\ ~CbCopy /\ ~CbPeek /\ ~CbGive
    <3>1. UNCHANGED << slot, readIndex, writeIndex, validNum, done, reqSample >> /\ cb' \in {cb, "peek"}
      BY <2>7 DEF Next, Apost, AmixerCb, Ender, Decoded, SeqEndCb, VideoReady, ErrorExit, Wait, Sleep, Fetch,
         FetchNothing, PoolPop, GetPcm, GetFails, Exit, CbStart, EndsApost, EndsAmixer, vars, queue, mixer
    <3>. QED
      BY <1>1, <2>1, <3>1
  <2>. QED
    BY <2>2, <2>3, <2>4, <2>5, <2>7, <2>6
\* The actions on the buffers.
<1>7. pool' \in Seq(Buffer) /\ mem' \in [Buffer -> 0 .. MaxItems] /\ pPcm' \in Buffer \cup {None}
  <2>1. /\ pool \in Seq(Buffer) /\ mem \in [Buffer -> 0 .. MaxItems]
        /\ pc \in {"get", "push"} => pPcm \in Buffer
    BY <1>1 DEF TypeInv, BufferInv
  <2>2. CASE PoolPop
    BY <2>1, <2>2, LastTaken DEF PoolPop
  <2>3. CASE GetPcm
    BY <1>1, <2>1, <2>3 DEF GetPcm, BlockInv
  <2>4. CASE GetFails
    BY <1>1, <2>1, <2>4, AppendProperties DEF GetFails
  <2>5. CASE CbGive
    <3>1. slot[done].pPcm \in Buffer
      <4>1. slot[done] \in Slot /\ slot[done].pPcm # None
        BY <2>5 DEF CbGive, BufferInv, Giving, TypeInv
      <4>. QED
        BY <4>1 DEF Slot
    <3>. QED
      BY <1>1, <2>1, <2>5, <3>1, AppendProperties DEF CbGive, apost
  <2>6. CASE ~PoolPop /\ ~GetPcm /\ ~GetFails /\ ~CbGive
    <3>1. UNCHANGED << pool, mem >> /\ pPcm' \in {pPcm, None}
      BY <2>6 DEF Next, Apost, AmixerCb, Ender, Decoded, SeqEndCb, VideoReady, ErrorExit, Wait, Sleep, Fetch,
         FetchNothing, QueuePush, Exit, CbStart, CbPeek, CbCopy, CbPop, EndsApost, EndsAmixer,
         vars, buffers, apost
    <3>. QED
      BY <1>1, <2>1, <3>1
  <2>. QED
    BY <2>2, <2>3, <2>4, <2>5, <2>6
<1>8. apts' \in Nat
  <2>1. CASE CbPeek
    <3>1. CASE validNum = 0
      BY <1>1, <2>1, <3>1 DEF CbPeek, Increment
    <3>2. CASE validNum # 0
      <4>1. 0 \in Positions /\ Ring(0) = readIndex
        <5>1. 0 \in Positions /\ 0 \in 0 .. pcmNum
          BY <1>1, <3>2 DEF Positions
        <5>. QED
          BY <1>1, <5>1, QueueTypes
      <4>2. waiting[0] = slot[readIndex] /\ waiting[0].item \in Full(fetched)
        BY <4>1, QueueTypes DEF BlockInv
      <4>3. slot[readIndex].item - 1 \in Nat
        BY <4>2 DEF Full
      <4>4. (slot[readIndex].item - 1) * auSample \in Nat
        BY <1>1, <4>3
      <4>5. apts' = apts \/ apts' = (slot[readIndex].item - 1) * auSample
        BY <2>1, <3>2 DEF CbPeek
      <4>. QED
        BY <1>1, <4>4, <4>5
    <3>. QED
      BY <3>1, <3>2
  <2>2. CASE ~CbPeek
    BY <1>1, <2>2 DEF Next, Apost, AmixerCb, Ender, Decoded, SeqEndCb, VideoReady, ErrorExit, Wait, Sleep, Fetch,
       FetchNothing, PoolPop, GetPcm, GetFails, QueuePush, Exit, CbStart, CbCopy, CbPop, CbGive,
       EndsApost, EndsAmixer, vars, output
  <2>. QED
    BY <2>1, <2>2
<1>9. Range(pool') \subseteq DOMAIN mem' /\ DOMAIN mem' = Buffer
  BY <1>7, ElementOfSeq DEF Range
<1>10. \A i \in DOMAIN slot' : slot'[i].index \in 0 .. auSample /\ slot'[i].item \in 0 .. items'
  BY <1>3, <1>6 DEF Slot
<1>11. 0 <= fetched' /\ fetched' <= ready' /\ ready' <= items' /\ items' <= MaxItems
  BY <1>1, <1>3
<1>12. TypeOK'
  BY <1>2, <1>4, <1>5, <1>6, <1>7, <1>8, <1>9, <1>10, <1>11 DEF TypeOK
<1>. QED
  BY <1>3, <1>6, <1>7, <1>12 DEF TypeInv

\* The blocks of the film, from the decoder to the queue and out of it.
LEMMA BlockStep ==
  ASSUME TypeInv, BufferInv, BlockInv, [Next]_vars
  PROVE  BlockInv'
<1>1. /\ items \in Nat /\ ready \in Nat /\ fetched \in Nat /\ fetched <= ready /\ ready <= items
      /\ Count(fetched) \in Nat /\ InPush \in {0, 1} /\ Popped \in Int /\ Popped = Count(fetched) - validNum - InPush
      /\ validNum \in Nat /\ auSample \in Nat /\ auSample > 0
  BY FilmTypes, FilmConstants DEF Popped
<1>2. \A k \in Positions : /\ waiting[k].item \in Full(fetched)
                           /\ Count(waiting[k].item) = Popped + k + 1
                           /\ mem[waiting[k].pPcm] = waiting[k].item
                           /\ k > 0 => waiting[k].index = 0
  BY DEF BlockInv
\* Nothing moves in the queue, and no block is fetched.
<1>3. ASSUME UNCHANGED << slot, readIndex, validNum, mem, fetched, items >>, ready' \in {ready, ready + 1},
             pc' = "push" <=> pc = "push", pc' = "push" => pPcm' = pPcm,
             \/ pc' \notin {"pop", "get"} \/ pc \in {"pop", "get"}
             \/ fetched < ready /\ fetched + 1 \notin NoSamples,
             cb' \in {"copy", "popping"} => validNum > 0,
             cb' = "popping" <=> cb = "popping"
      PROVE  BlockInv'
  <2>1. waiting' = waiting /\ Positions' = Positions /\ InPush' = InPush
    BY <1>3, QueueStays DEF InPush
  <2>2. Popped' = Popped
    BY <1>3, <2>1 DEF Popped
  <2>3. pc' \in {"pop", "get"} => fetched < ready' /\ fetched + 1 \notin NoSamples
    BY <1>1, <1>3 DEF BlockInv
  <2>4. pc' = "push" => fetched \in Full(items) /\ mem[pPcm'] = fetched
    BY <1>3 DEF BlockInv
  <2>5. validNum > 0 => IF cb' = "popping" THEN waiting[0].index = auSample ELSE waiting[0].index < auSample
    BY <1>3 DEF BlockInv
  <2>. QED
    BY <1>2, <1>3, <2>1, <2>2, <2>3, <2>4, <2>5 DEF BlockInv
\* A block is fetched; the buffer it goes to is in the hand of apost.
<1>4. ASSUME UNCHANGED << slot, readIndex, validNum, items, ready, cb >>, fetched' = fetched + 1,
             fetched < ready, pc' \notin {"pop", "get"}, pc # "push",
             \/ pc' # "push" /\ mem' = mem /\ fetched + 1 \in NoSamples
             \/ /\ pc' = "push" /\ pPcm' = pPcm /\ pPcm \in Buffer /\ fetched + 1 \notin NoSamples
                /\ mem' = [mem EXCEPT ![pPcm] = fetched + 1]
      PROVE  BlockInv'
  <2>1. waiting' = waiting /\ Positions' = Positions
    BY <1>4, QueueStays
  <2>2. Count(fetched') = IF fetched + 1 \in NoSamples THEN Count(fetched) ELSE Count(fetched) + 1
    BY <1>1, <1>4, CountNext
  <2>3. Popped' = Popped
    BY <1>1, <1>4, <2>2 DEF Popped, InPush
  <2>4. pc' = "push" => fetched + 1 \in Full(items) /\ mem'[pPcm'] = fetched + 1
    BY <1>1, <1>4 DEF Full, TypeInv
  <2>5. ASSUME NEW k \in Positions
        PROVE  mem'[waiting[k].pPcm] = mem[waiting[k].pPcm]
    <3>1. waiting[k] \in Slot /\ waiting[k].pPcm # pPcm /\ waiting[k].pPcm # None
      BY QueueTypes DEF BufferInv
    <3>2. waiting[k].pPcm \in Buffer
      BY <3>1 DEF Slot
    <3>. QED
      BY <1>4, <3>1, <3>2 DEF TypeInv
  <2>6. \A n \in Full(fetched) : n \in Full(fetched')
    BY <1>1, <1>4 DEF Full
  <2>7. validNum > 0 => IF cb' = "popping" THEN waiting[0].index = auSample ELSE waiting[0].index < auSample
    BY <1>4 DEF BlockInv
  <2>8. cb' \in {"copy", "popping"} => validNum > 0
    BY <1>4 DEF BlockInv
  <2>. QED
    BY <1>2, <1>4, <2>1, <2>3, <2>4, <2>5, <2>6, <2>7, <2>8 DEF BlockInv
<1>5. CASE QueuePush
  <2>. DEFINE e == [pPcm |-> pPcm, item |-> fetched, index |-> 0]
  <2>1. /\ validNum' = validNum + 1 /\ \A k \in Positions : waiting'[k] = waiting[k]
        /\ waiting'[validNum] = e
    BY <1>5, PushMoves
  <2>2. pc = "push" /\ pc' = "wait" /\ UNCHANGED << items, fetched, ready, mem, cb >>
    BY <1>5 DEF QueuePush, buffers, mixer, decoder
  <2>3. fetched \in Full(items) /\ mem[pPcm] = fetched /\ fetched \in Full(fetched)
    BY <1>1, <2>2 DEF BlockInv, Full
  <2>4. e.pPcm = pPcm /\ e.item = fetched /\ e.index = 0
    OBVIOUS
  <2>. HIDE DEF e
  <2>5. Popped' = Popped /\ Count(fetched) = Popped + validNum + 1
    BY <1>1, <2>1, <2>2 DEF Popped, InPush
  <2>6. \A k \in Positions' : k \in Positions \/ k = validNum
    BY <1>1, <2>1 DEF Positions
  <2>7. ASSUME NEW k \in Positions'
        PROVE  /\ waiting'[k].item \in Full(fetched')
               /\ Count(waiting'[k].item) = Popped' + k + 1
               /\ mem'[waiting'[k].pPcm] = waiting'[k].item
               /\ k > 0 => waiting'[k].index = 0
    BY <1>2, <2>1, <2>2, <2>3, <2>4, <2>5, <2>6
  <2>8. validNum' > 0 => IF cb' = "popping" THEN waiting'[0].index = auSample ELSE waiting'[0].index < auSample
    <3>1. CASE validNum = 0
      BY <1>1, <2>1, <2>2, <2>4, <3>1 DEF BlockInv
    <3>2. CASE validNum > 0
      <4>1. waiting'[0] = waiting[0]
        BY <1>1, <2>1, <3>2 DEF Positions
      <4>. QED
        BY <2>2, <3>2, <4>1 DEF BlockInv
    <3>. QED
      BY <1>1, <3>1, <3>2
  <2>9. cb' \in {"copy", "popping"} => validNum' > 0
    BY <1>1, <2>1, <2>2 DEF BlockInv
  <2>. QED
    BY <2>2, <2>7, <2>8, <2>9 DEF BlockInv
<1>6. CASE CbPop
  <2>1. /\ validNum > 0 /\ cb = "popping" /\ cb' = "give"
        /\ UNCHANGED << pc, pPcm, mem, items, fetched, ready >>
    BY <1>6 DEF CbPop, BlockInv, buffers, apost, decoder
  <2>2. /\ validNum' = validNum - 1
        /\ \A k \in 0 .. validNum - 2 : waiting'[k] = waiting[k + 1] /\ k + 1 \in Positions
    BY <1>6, <2>1, PopMoves
  <2>3. Positions' = 0 .. validNum - 2
    BY <1>1, <2>2 DEF Positions
  <2>4. Popped' = Popped + 1
    BY <1>1, <2>1, <2>2 DEF Popped, InPush
  <2>5. ASSUME NEW k \in Positions'
        PROVE  /\ waiting'[k].item \in Full(fetched')
               /\ Count(waiting'[k].item) = Popped' + k + 1
               /\ mem'[waiting'[k].pPcm] = waiting'[k].item
               /\ waiting'[k].index = 0
    <3>1. waiting'[k] = waiting[k + 1] /\ k + 1 \in Positions /\ k + 1 > 0 /\ k \in Int
      BY <1>1, <2>2, <2>3
    <3>2. Popped + (k + 1) + 1 = Popped' + k + 1
      BY <1>1, <2>4, <3>1
    <3>. QED
      BY <1>2, <2>1, <3>1, <3>2
  <2>6. validNum' > 0 => waiting'[0].index < auSample
    BY <1>1, <2>2, <2>3, <2>5
  <2>7. /\ pc' \in {"pop", "get"} => fetched' < ready' /\ fetched' + 1 \notin NoSamples
        /\ pc' = "push" => fetched' \in Full(items') /\ mem'[pPcm'] = fetched'
    BY <2>1 DEF BlockInv
  <2>. QED
    BY <2>1, <2>5, <2>6, <2>7 DEF BlockInv
<1>7. CASE CbCopy
  <2>1. /\ validNum > 0 /\ cb = "copy" /\ waiting[0].index < auSample
        /\ UNCHANGED << pc, pPcm, mem, items, fetched, ready >>
    BY <1>7 DEF CbCopy, BlockInv, buffers, apost, decoder
  <2>2. /\ 0 \in Positions /\ Added \in 0 .. auSample - waiting[0].index
        /\ UNCHANGED << validNum, readIndex >>
        /\ waiting'[0] = [waiting[0] EXCEPT !.index = @ + Added]
        /\ \A k \in Positions : k # 0 => waiting'[k] = waiting[k]
        /\ cb' = IF waiting[0].index + Added >= auSample THEN "popping" ELSE "idle"
    BY <1>7, <2>1, CopyMoves
  <2>3. waiting[0] \in Slot
    BY <2>2, QueueTypes
  <2>4. /\ waiting'[0].pPcm = waiting[0].pPcm /\ waiting'[0].item = waiting[0].item
        /\ waiting'[0].index = waiting[0].index + Added /\ waiting[0].index \in 0 .. auSample
    BY <2>2, <2>3 DEF Slot
  <2>5. Positions' = Positions /\ Popped' = Popped
    BY <2>1, <2>2 DEF Positions, Popped, InPush
  <2>6. ASSUME NEW k \in Positions
        PROVE  /\ waiting'[k].item \in Full(fetched')
               /\ Count(waiting'[k].item) = Popped' + k + 1
               /\ mem'[waiting'[k].pPcm] = waiting'[k].item
               /\ k > 0 => waiting'[k].index = 0
    <3>1. /\ waiting'[k].pPcm = waiting[k].pPcm /\ waiting'[k].item = waiting[k].item
          /\ k # 0 => waiting'[k].index = waiting[k].index
      BY <2>2, <2>4
    <3>2. k > 0 => k # 0
      BY DEF Positions
    <3>. QED
      BY <1>2, <2>1, <2>5, <3>1, <3>2
  <2>7. IF cb' = "popping" THEN waiting'[0].index = auSample ELSE waiting'[0].index < auSample
    BY <1>1, <2>2, <2>4
  <2>8. /\ pc' \in {"pop", "get"} => fetched' < ready' /\ fetched' + 1 \notin NoSamples
        /\ pc' = "push" => fetched' \in Full(items') /\ mem'[pPcm'] = fetched'
    BY <2>1 DEF BlockInv
  <2>. QED
    BY <2>1, <2>2, <2>5, <2>6, <2>7, <2>8 DEF BlockInv
<1>8. CASE GetPcm
  <2>1. pc = "get" /\ pPcm \in Buffer /\ fetched < ready /\ fetched + 1 \notin NoSamples
    BY <1>8 DEF GetPcm, BufferInv, BlockInv, TypeInv
  <2>. QED
    BY <1>4, <1>8, <2>1 DEF GetPcm, queue, mixer
<1>9. CASE Fetch
  BY <1>3, <1>4, <1>9 DEF Fetch, queue, mixer, buffers, BlockInv
<1>10. CASE Decoded
  BY <1>3, <1>10 DEF Decoded, queue, mixer, buffers, Woken, apost, BlockInv
<1>11. CASE SeqEndCb \/ VideoReady \/ ErrorExit \/ UNCHANGED vars
  BY <1>3, <1>11 DEF SeqEndCb, VideoReady, ErrorExit, vars, decoder, queue, mixer, buffers, Woken, apost, BlockInv
<1>12. CASE Wait \/ Sleep \/ FetchNothing \/ PoolPop \/ GetFails \/ Exit
  BY <1>3, <1>12 DEF Wait, Sleep, FetchNothing, PoolPop, GetFails, Exit, decoder, queue, mixer, buffers, BlockInv
<1>13. CASE CbStart \/ CbPeek \/ CbGive \/ Ender
  BY <1>1, <1>3, <1>13 DEF CbStart, CbPeek, CbGive, Ender, EndsApost, EndsAmixer, decoder, queue, mixer, buffers,
     apost, BlockInv
<1>. QED
  BY <1>5, <1>6, <1>7, <1>8, <1>9, <1>10, <1>11, <1>12, <1>13 DEF Next, Apost, AmixerCb

\* Blocks leave the queue when they are popped, and samples are played when they are copied.
LEMMA QueueStep ==
  ASSUME TypeInv, BufferInv, BlockInv, [Next]_vars, ~CbPop
  PROVE  /\ Popped' = Popped /\ items' = items
         /\ ~CbCopy => played' = played
         /\ ~CbCopy /\ ~QueuePush => UNCHANGED << slot, readIndex, validNum >>
<1>1. /\ fetched \in Nat /\ Count(fetched) \in Nat /\ InPush \in {0, 1} /\ validNum \in Nat
  BY FilmTypes
<1>2. items' = items
  BY DEF Next, Apost, AmixerCb, Ender, Decoded, SeqEndCb, VideoReady, ErrorExit, Wait, Sleep, Fetch,
     FetchNothing, PoolPop, GetPcm, GetFails, QueuePush, Exit, CbStart, CbPeek, CbCopy, CbGive,
     EndsApost, EndsAmixer, vars, decoder
<1>3. ~CbCopy => played' = played
  BY DEF Next, Apost, AmixerCb, Ender, Decoded, SeqEndCb, VideoReady, ErrorExit, Wait, Sleep, Fetch,
     FetchNothing, PoolPop, GetPcm, GetFails, QueuePush, Exit, CbStart, CbPeek, CbGive,
     EndsApost, EndsAmixer, vars, output
<1>4. ~CbCopy /\ ~QueuePush => UNCHANGED << slot, readIndex, validNum >>
  BY DEF Next, Apost, AmixerCb, Ender, Decoded, SeqEndCb, VideoReady, ErrorExit, Wait, Sleep, Fetch,
     FetchNothing, PoolPop, GetPcm, GetFails, Exit, CbStart, CbPeek, CbGive,
     EndsApost, EndsAmixer, vars, queue
<1>5. CASE GetPcm
  <2>1. /\ fetched + 1 \notin NoSamples /\ fetched' = fetched + 1 /\ pc = "get" /\ pc' = "push"
        /\ validNum' = validNum
    BY <1>5 DEF GetPcm, BlockInv, queue
  <2>2. InPush = 0 /\ InPush' = 1 /\ Count(fetched') = Count(fetched) + 1
    BY <1>1, <2>1, CountNext DEF InPush
  <2>. QED
    BY <1>1, <1>2, <1>3, <1>4, <2>1, <2>2 DEF Popped
<1>6. CASE Fetch
  <2>1. /\ pc = "fetch" /\ pc' # "push" /\ UNCHANGED validNum
        /\ \/ fetched' = fetched
           \/ fetched' = fetched + 1 /\ fetched + 1 \in NoSamples
    BY <1>6 DEF Fetch, queue
  <2>. QED
    BY <1>1, <1>2, <1>3, <1>4, <1>6, <2>1, CountNext DEF Popped, InPush
<1>7. CASE QueuePush
  <2>1. pc = "push" /\ pc' = "wait" /\ fetched' = fetched /\ validNum' = validNum + 1
    BY <1>7 DEF QueuePush, decoder
  <2>. QED
    BY <1>1, <1>2, <1>3, <1>4, <1>7, <2>1 DEF Popped, InPush
<1>8. CASE ~GetPcm /\ ~Fetch /\ ~QueuePush
  <2>1. fetched' = fetched /\ validNum' = validNum /\ (pc' = "push" <=> pc = "push")
    BY <1>8 DEF Next, Apost, AmixerCb, Ender, Decoded, SeqEndCb, VideoReady, ErrorExit, Wait, Sleep,
       FetchNothing, PoolPop, GetFails, Exit, CbStart, CbPeek, CbCopy, CbGive,
       EndsApost, EndsAmixer, vars, decoder, queue, apost, Woken
  <2>. QED
    BY <1>2, <1>3, <1>4, <2>1 DEF Popped, InPush
<1>. QED
  BY <1>5, <1>6, <1>7, <1>8

\* How long the film is.
LEMMA FilmLength ==
  ASSUME items \in Nat
  PROVE  Len(Film) = Count(items) * auSample
<1>. DEFINE full == { j \in 1 .. items : j \notin NoSamples }
            Nth(n) == CHOOSE j \in full : Cardinality({ h \in full : h < j }) = n
            n == Count(items) * auSample
<1>1. Film = [h \in 1 .. n |-> << Nth((h - 1) \div auSample), ((h - 1) % auSample) + 1 >>]
  BY DEF Film, Count, Full
<1>2. n \in Nat
  <2>1. Count(items) \in Nat /\ auSample \in Nat
    BY CountFinite, FilmConstants
  <2>. QED
    BY <2>1
<1>. HIDE DEF full, Nth, n
<1>3. Len(Film) = n
  BY <1>1, <1>2
<1>. QED
  BY <1>3 DEF n

\* The samples are played in the order of the film.
LEMMA PlayStep ==
  ASSUME TypeInv, BufferInv, BlockInv, PlayInv, [Next]_vars
  PROVE  PlayInv'
<1>1. /\ items \in Nat /\ fetched \in Nat /\ fetched <= items /\ Popped \in Int /\ validNum \in Nat
      /\ auSample \in Nat /\ auSample > 0 /\ played \in Seq(Nat \X Nat) /\ Len(played) \in Nat
      /\ Popped * auSample \in Int
  <2>1. /\ items \in Nat /\ fetched \in Nat /\ fetched <= items /\ Popped \in Int /\ validNum \in Nat
        /\ auSample \in Nat /\ auSample > 0 /\ played \in Seq(Nat \X Nat) /\ Len(played) \in Nat
    BY FilmTypes, FilmConstants, LenProperties DEF PlayInv
  <2>. QED
    BY <2>1
<1>2. Len(played) = Popped * auSample + (IF validNum > 0 THEN waiting[0].index ELSE 0)
  BY DEF PlayInv
<1>3. CASE CbPop
  <2>1. /\ validNum > 0 /\ cb = "popping" /\ UNCHANGED << played, items, fetched, pc >>
        /\ waiting[0].index = auSample
    BY <1>3 DEF CbPop, BlockInv, output, decoder, apost
  <2>2. /\ validNum' = validNum - 1
        /\ \A k \in 0 .. validNum - 2 : waiting'[k] = waiting[k + 1] /\ k + 1 \in Positions
    BY <1>3, <2>1, PopMoves
  <2>3. validNum' > 0 => waiting'[0].index = 0
    BY <1>1, <2>2 DEF BlockInv
  <2>4. Popped' = Popped + 1
    <3>1. Count(fetched) \in Nat /\ InPush \in {0, 1} /\ InPush' = InPush
      BY <2>1, FilmTypes DEF InPush
    <3>. QED
      BY <1>1, <2>1, <2>2, <3>1 DEF Popped
  <2>5. (Popped + 1) * auSample = Popped * auSample + auSample
    BY <1>1
  <2>6. Len(played') = Popped' * auSample + (IF validNum' > 0 THEN waiting'[0].index ELSE 0)
    BY <1>1, <1>2, <2>1, <2>3, <2>4, <2>5
  <2>7. PlayedInOrder'
    <3>1. Film' = Film /\ played' = played
      BY <2>1 DEF Film
    <3>. QED
      BY <3>1 DEF PlayInv, PlayedInOrder
  <2>. QED
    BY <1>1, <2>1, <2>6, <2>7 DEF PlayInv
<1>4. CASE CbCopy
  <2>1. validNum > 0 /\ cb = "copy" /\ waiting[0].index < auSample
    BY <1>4 DEF CbCopy, BlockInv
  <2>. DEFINE it == waiting[0].item
              x0 == waiting[0].index
              new == [i \in 1 .. Added |-> << mem[waiting[0].pPcm], x0 + i >>]
  <2>2. /\ 0 \in Positions /\ Added \in 0 .. auSample - x0
        /\ played' = played \o new /\ UNCHANGED << validNum, readIndex >>
        /\ waiting'[0] = [waiting[0] EXCEPT !.index = @ + Added] /\ waiting[0] \in Slot
    BY <1>4, <2>1, CopyMoves, QueueTypes
  <2>3. x0 \in 0 .. auSample /\ waiting'[0].index = x0 + Added
    BY <2>2 DEF Slot
  <2>4. it \in Full(fetched) /\ Count(it) = Popped + 1 /\ mem[waiting[0].pPcm] = it
    BY <1>1, <2>2 DEF BlockInv
  <2>5. it \in Full(items) /\ it \in Nat
    BY <1>1, <2>4 DEF Full
  <2>. HIDE DEF it, x0
  <2>6. new = [i \in 1 .. Added |-> << it, x0 + i >>]
    BY <2>4
  <2>. HIDE DEF new
  <2>7. Added \in Nat /\ x0 \in Nat /\ x0 + Added <= auSample
    BY <1>1, <2>2, <2>3
  <2>8. new \in Seq(Nat \X Nat) /\ Len(new) = Added
    BY <2>5, <2>6, <2>7
  <2>9. ASSUME NEW i \in 1 .. Added
        PROVE  /\ Film[Len(played) + i] = << it, x0 + i >>
               /\ Len(played) + i <= Count(items) * auSample
    <3>1. x0 + i \in 1 .. auSample
      BY <1>1, <2>7
    <3>2. /\ Film[(Count(it) - 1) * auSample + (x0 + i)] = << it, x0 + i >>
          /\ (Count(it) - 1) * auSample + (x0 + i) \in 1 .. Count(items) * auSample
      BY <1>1, <2>5, <3>1, FilmAt
    <3>3. Count(it) - 1 = Popped
      BY <1>1, <2>4
    <3>4. Popped * auSample + (x0 + i) = Len(played) + i
      BY <1>1, <1>2, <2>1, <2>7 DEF x0
    <3>5. Count(items) * auSample \in Nat
      <4>1. Count(items) \in Nat
        BY <1>1, CountFinite
      <4>. QED
        BY <1>1, <4>1
    <3>. QED
      BY <3>2, <3>3, <3>4, <3>5
  <2>10. /\ played' \in Seq(Nat \X Nat) /\ Len(played') = Len(played) + Added
         /\ \A k \in 1 .. Len(played) : played'[k] = played[k]
         /\ \A i \in 1 .. Added : played'[Len(played) + i] = new[i]
    <3>1. /\ played' \in Seq(Nat \X Nat) /\ Len(played') = Len(played) + Len(new)
          /\ \A i \in 1 .. Len(played) + Len(new) :
                played'[i] = IF i <= Len(played) THEN played[i] ELSE new[i - Len(played)]
      <4>1. played' = played \o new /\ played \in Seq(Nat \X Nat) /\ new \in Seq(Nat \X Nat)
        BY <1>1, <2>2, <2>8
      <4>. QED
        BY <4>1, ConcatProperties, Zenon
    <3>2. \A i \in 1 .. Added : /\ Len(played) + i \in 1 .. Len(played) + Added
                               /\ ~(Len(played) + i <= Len(played)) /\ Len(played) + i - Len(played) = i
      BY <1>1, <2>7
    <3>3. \A i \in 1 .. Len(played) : i \in 1 .. Len(played) + Added /\ i <= Len(played)
      BY <1>1, <2>7
    <3>4. ASSUME NEW k \in 1 .. Len(played)
          PROVE  played'[k] = played[k]
      <4>1. k \in 1 .. Len(played) + Len(new) /\ k <= Len(played)
        BY <2>8, <3>3
      <4>. QED
        BY <3>1, <4>1
    <3>5. ASSUME NEW i \in 1 .. Added
          PROVE  played'[Len(played) + i] = new[i]
      <4>. DEFINE m == Len(played) + i
      <4>1. m \in 1 .. Len(played) + Len(new) /\ ~(m <= Len(played)) /\ m - Len(played) = i
        BY <2>8, <3>2
      <4>. HIDE DEF m
      <4>2. played'[m] = new[m - Len(played)]
        BY <3>1, <4>1
      <4>3. played'[m] = new[i]
        BY <4>1, <4>2
      <4>. QED
        BY <4>3 DEF m
    <3>6. Len(played') = Len(played) + Added
      BY <2>8, <3>1
    <3>. QED
      BY <3>1, <3>4, <3>5, <3>6
  <2>11. Film' = Film /\ Popped' = Popped
    <3>1. items' = items /\ Popped' = Popped
      BY <1>4, QueueStep DEF CbCopy, CbPop
    <3>. QED
      BY <3>1 DEF Film
  <2>12. ASSUME NEW k \in 1 .. Len(played')
         PROVE  played'[k] = Film[k]
    <3>1. CASE k \in 1 .. Len(played)
      BY <1>1, <2>10, <3>1, LenProperties DEF PlayInv, PlayedInOrder
    <3>2. CASE k \notin 1 .. Len(played)
      <4>. DEFINE i == k - Len(played)
      <4>1. i \in 1 .. Added /\ k = Len(played) + i
        BY <1>1, <2>7, <2>10, <3>2
      <4>. HIDE DEF i
      <4>2. new[i] = << it, x0 + i >>
        BY <2>6, <4>1
      <4>. QED
        BY <2>9, <2>10, <4>1, <4>2
    <3>. QED
      BY <3>1, <3>2
  <2>13. Len(played') <= Len(Film)
    <3>1. Len(Film) = Count(items) * auSample /\ Len(played) <= Len(Film)
      BY <1>1, FilmLength DEF PlayInv, PlayedInOrder
    <3>2. CASE Added = 0
      BY <1>1, <2>10, <3>1, <3>2
    <3>3. CASE Added # 0
      <4>1. Added \in 1 .. Added
        BY <2>7, <3>3
      <4>. QED
        BY <2>9, <2>10, <3>1, <4>1
    <3>. QED
      BY <3>2, <3>3
  <2>14. DOMAIN played' = 1 .. Len(played')
    BY <2>10
  <2>15. Len(played') = Popped' * auSample + (IF validNum' > 0 THEN waiting'[0].index ELSE 0)
    <3>1. Len(played) = Popped * auSample + x0
      BY <1>2, <2>1 DEF x0
    <3>. QED
      BY <1>1, <2>1, <2>2, <2>3, <2>7, <2>10, <2>11, <3>1
  <2>. QED
    BY <2>10, <2>11, <2>12, <2>13, <2>14, <2>15 DEF PlayInv, PlayedInOrder
<1>5. CASE ~CbPop /\ ~CbCopy
  <2>1. Popped' = Popped /\ items' = items /\ played' = played
    BY <1>5, QueueStep
  <2>2. PlayedInOrder'
    <3>1. Film' = Film /\ played' = played
      BY <2>1 DEF Film
    <3>. QED
      BY <3>1 DEF PlayInv, PlayedInOrder
  <2>3. (IF validNum' > 0 THEN waiting'[0].index ELSE 0) = (IF validNum > 0 THEN waiting[0].index ELSE 0)
    <3>1. CASE QueuePush
      <4>1. /\ validNum' = validNum + 1 /\ \A k \in Positions : waiting'[k] = waiting[k]
            /\ waiting'[validNum].index = 0
        BY <3>1, PushMoves
      <4>2. CASE validNum = 0
        <5>1. validNum' > 0 /\ ~(validNum > 0) /\ waiting'[0].index = 0
          BY <4>1, <4>2
        <5>. QED
          BY <5>1
      <4>3. CASE validNum > 0
        <5>1. validNum' > 0 /\ 0 \in Positions
          BY <1>1, <4>1, <4>3 DEF Positions
        <5>2. waiting'[0] = waiting[0]
          BY <4>1, <5>1
        <5>. QED
          BY <4>3, <5>1, <5>2
      <4>. QED
        BY <1>1, <4>2, <4>3
    <3>2. CASE ~QueuePush
      BY <1>5, <3>2, QueueStep, QueueStays
    <3>. QED
      BY <3>1, <3>2
  <2>. QED
    BY <1>1, <1>2, <2>1, <2>2, <2>3 DEF PlayInv
<1>. QED
  BY <1>3, <1>4, <1>5

\* How the end comes: apost first, then the mixer.
LEMMA EndStep ==
  ASSUME TypeInv, BlockInv, EndInv, [Next]_vars
  PROVE  EndInv'
<1>1. /\ fetched \in Nat /\ ready \in Nat /\ items \in Nat /\ fetched <= ready /\ ready <= items /\ validNum \in Nat
  BY FilmTypes
<1>2. recv \in [bPcmOut : BOOLEAN, bSequence : BOOLEAN] /\ stat \in [bPcmOut : BOOLEAN, bSequence : BOOLEAN]
  BY DEF TypeInv, TypeOK
\* What is known of the sequence.
<1>3. /\ ~recv'.bSequence \/ ~stat'.bSequence => seqDone'
      /\ seqDone' => ready' = items'
  <2>1. /\ ~recv.bSequence \/ ~stat.bSequence => seqDone
        /\ seqDone => ready = items
    BY DEF EndInv
  <2>2. CASE Wait
    <3>1. recv'.bSequence = recv.bSequence /\ stat'.bSequence \in {stat.bSequence, recv.bSequence}
      BY <1>2, <2>2 DEF Wait
    <3>. QED
      BY <2>1, <2>2, <3>1 DEF Wait, decoder
  <2>3. CASE SeqEndCb
    BY <2>3 DEF SeqEndCb
  <2>4. CASE Decoded
    BY <1>1, <1>2, <2>1, <2>4 DEF Decoded
  <2>5. CASE FetchNothing
    <3>1. recv' = recv /\ stat'.bSequence = stat.bSequence
      BY <1>2, <2>5 DEF FetchNothing
    <3>. QED
      BY <2>1, <2>5, <3>1 DEF FetchNothing, decoder
  <2>6. CASE ~Wait /\ ~SeqEndCb /\ ~Decoded /\ ~FetchNothing
    <3>1. UNCHANGED << recv, stat, seqDone, ready, items >>
      BY <2>6 DEF Next, Apost, AmixerCb, Ender, VideoReady, ErrorExit, Sleep, Fetch, PoolPop, GetPcm, GetFails,
         QueuePush, Exit, CbStart, CbPeek, CbCopy, CbPop, CbGive, EndsApost, EndsAmixer, vars, decoder, apost
    <3>. QED
      BY <2>1, <3>1
  <2>. QED
    BY <2>2, <2>3, <2>4, <2>5, <2>6
<1>4. /\ errorCode' # "invalid" => pc' \in {"over", "gone"}
      /\ pc' \in {"over", "gone"} => \/ errorCode' = "ok" /\ fetched' = items'
                                     \/ ~mode_exec'
                                     \/ errorCode' = "error" /\ pc' = "over"
  <2>1. /\ errorCode # "invalid" => pc \in {"over", "gone"}
        /\ pc \in {"over", "gone"} => \/ errorCode = "ok" /\ fetched = items
                                      \/ ~mode_exec
                                      \/ errorCode = "error" /\ pc = "over"
    BY DEF EndInv
  <2>2. CASE Wait
    BY <2>1, <2>2 DEF Wait, common
  <2>3. CASE FetchNothing
    <3>1. ~stat.bSequence /\ fetched = ready => fetched = items
      BY DEF EndInv
    <3>. QED
      BY <2>1, <2>3, <3>1 DEF FetchNothing, decoder
  <2>4. CASE Exit
    BY <2>1, <2>4 DEF Exit, decoder
  <2>5. CASE Sleep \/ Fetch \/ PoolPop \/ GetPcm \/ GetFails \/ QueuePush
    BY <2>1, <2>5 DEF Sleep, Fetch, PoolPop, GetPcm, GetFails, QueuePush
  <2>6. CASE Decoded \/ SeqEndCb \/ VideoReady \/ ErrorExit
    BY <2>1, <2>6 DEF Decoded, SeqEndCb, VideoReady, ErrorExit, Woken, common, decoder, apost
  <2>7. CASE AmixerCb \/ Ender \/ UNCHANGED vars
    <3>1. UNCHANGED << pc, errorCode, fetched, items, mode_exec >>
      BY <2>7 DEF AmixerCb, Ender, CbStart, CbPeek, CbCopy, CbPop, CbGive, EndsApost, EndsAmixer, vars, common,
         decoder, apost
    <3>. QED
      BY <2>1, <3>1
  <2>. QED
    BY <2>2, <2>3, <2>4, <2>5, <2>6, <2>7 DEF Next, Apost
\* How the thread of the player ends the mixer.
<1>5. /\ ender' # "joins" \/ bReqStop' \/ cbReqStop' => pc' = "gone"
      /\ bReqStop' => ender' = "stops"
      /\ ender' # "joins" /\ ~bReqStop' => ~bSequence'
      /\ ~bSequence' => cb' = "idle" /\ validNum' = 0 /\ pc' = "gone"
  <2>1. /\ ender # "joins" \/ bReqStop \/ cbReqStop => pc = "gone"
        /\ bReqStop => ender = "stops"
        /\ ender # "joins" /\ ~bReqStop => ~bSequence
        /\ ~bSequence => cb = "idle" /\ validNum = 0 /\ pc = "gone"
    BY DEF EndInv
  <2>2. CASE Ender
    BY <2>1, <2>2 DEF Ender, EndsApost, EndsAmixer, apost, queue, mixer
  <2>3. CASE CbPeek
    <3>1. /\ UNCHANGED << pc, ender, cbReqStop, validNum >> /\ cb = "peek" /\ bSequence
          /\ \/ cb' \in {"idle", "copy"} /\ UNCHANGED << bSequence, bReqStop >>
             \/ cb' = "idle" /\ bSequence' = FALSE /\ bReqStop' = FALSE /\ cbReqStop /\ validNum = 0
      <4>1. cb = "peek" /\ UNCHANGED << pc, ender, cbReqStop, validNum >>
        BY <2>3 DEF CbPeek, apost, queue
      <4>2. \/ cb' \in {"idle", "copy"} /\ UNCHANGED << bSequence, bReqStop >>
            \/ cb' = "idle" /\ bSequence' = FALSE /\ bReqStop' = FALSE /\ cbReqStop /\ validNum = 0
        BY <2>3 DEF CbPeek
      <4>. QED
        BY <2>1, <4>1, <4>2
    <3>2. CASE cb' \in {"idle", "copy"} /\ UNCHANGED << bSequence, bReqStop >>
      BY <2>1, <3>1, <3>2
    <3>3. CASE cb' = "idle" /\ bSequence' = FALSE /\ bReqStop' = FALSE /\ cbReqStop /\ validNum = 0
      BY <2>1, <3>1, <3>3
    <3>. QED
      BY <3>1, <3>2, <3>3
  <2>4. CASE CbStart
    BY <2>1, <2>4 DEF CbStart, apost, queue
  <2>5. CASE CbCopy \/ CbPop \/ CbGive
    <3>1. cb # "idle" /\ UNCHANGED << pc, ender, cbReqStop, bSequence, bReqStop >>
      BY <2>5 DEF CbCopy, CbPop, CbGive, apost
    <3>. QED
      BY <2>1, <3>1
  <2>6. CASE Apost
    <3>1. pc # "gone" /\ UNCHANGED << ender, cbReqStop, bSequence, bReqStop >>
      BY <2>6 DEF Apost, Wait, Sleep, Fetch, FetchNothing, PoolPop, GetPcm, GetFails, QueuePush, Exit, mixer
    <3>. QED
      BY <2>1, <3>1
  <2>7. CASE Decoded \/ SeqEndCb \/ VideoReady \/ ErrorExit \/ UNCHANGED vars
    <3>1. UNCHANGED << ender, cbReqStop, bSequence, bReqStop, cb, validNum >> /\ (pc = "gone" => pc' = "gone")
      BY <2>7 DEF Decoded, SeqEndCb, VideoReady, ErrorExit, Woken, apost, queue, mixer, vars
    <3>. QED
      BY <2>1, <3>1
  <2>. QED
    BY <2>2, <2>3, <2>4, <2>5, <2>6, <2>7 DEF Next, AmixerCb
<1>. QED
  BY <1>3, <1>4, <1>5 DEF EndInv

LEMMA FilmInit == Init => FilmInv
<1>. SUFFICES ASSUME Init
              PROVE  FilmInv
  OBVIOUS
<1>1. /\ pcmNum \in Nat /\ pcmNum > 0 /\ auSample \in Nat /\ auSample > 0 /\ samples \in Nat /\ samples > 0
      /\ MaxItems \in Nat /\ None = 0 /\ None \notin Buffer
  BY FilmConstants
<1>2. /\ FreeBuffers \in Seq(Buffer) /\ Len(FreeBuffers) = pcmNum /\ DOMAIN FreeBuffers = Buffer
      /\ \A i \in Buffer : FreeBuffers[i] = i
  BY <1>1 DEF FreeBuffers, Buffer
<1>3. Range(FreeBuffers) = Buffer
  BY <1>2 DEF Range
<1>4. NoSlot \in Slot
  BY <1>1 DEF NoSlot, Slot
<1>5. /\ pool = FreeBuffers /\ mem = [b \in Buffer |-> 0] /\ pPcm = 0 /\ slot = [i \in 0 .. pcmNum - 1 |-> NoSlot]
      /\ readIndex = 0 /\ writeIndex = 0 /\ validNum = 0 /\ done = 0 /\ cb = "idle" /\ pc = "wait"
      /\ fetched = 0 /\ ready = 0 /\ items \in 0 .. MaxItems /\ played = << >>
  BY <1>1, <1>3 DEF Init
<1>6. Positions = {} /\ Giving = 0 /\ Popped = 0
  BY <1>1, <1>5, CountNone DEF Positions, Giving, Popped, InPush
<1>7. TypeInv
  <2>1. /\ { mode_exec, videoReady, audioReady, audioEnd, seqDone, bSequence, bReqStop, cbReqStop } \subseteq BOOLEAN
        /\ errorCode \in {"invalid", "ok", "error"} /\ ender \in {"joins", "stops", "done"}
        /\ reqSample \in 0 .. samples /\ apts \in Nat
    <3>1. /\ mode_exec = TRUE /\ videoReady = FALSE /\ audioReady = FALSE /\ audioEnd = FALSE /\ seqDone = FALSE
          /\ bSequence = TRUE /\ bReqStop = FALSE /\ cbReqStop = FALSE
      BY DEF Init
    <3>2. errorCode = "invalid" /\ ender = "joins" /\ reqSample = 0 /\ apts = 0
      BY DEF Init
    <3>3. { mode_exec, videoReady, audioReady, audioEnd, seqDone, bSequence, bReqStop, cbReqStop } \subseteq BOOLEAN
      <4>1. /\ mode_exec \in BOOLEAN /\ videoReady \in BOOLEAN /\ audioReady \in BOOLEAN /\ audioEnd \in BOOLEAN
            /\ seqDone \in BOOLEAN /\ bSequence \in BOOLEAN /\ bReqStop \in BOOLEAN /\ cbReqStop \in BOOLEAN
        BY <3>1
      <4>. QED
        BY <4>1
    <3>. QED
      BY <1>1, <3>2, <3>3
  <2>2. recv \in [bPcmOut : BOOLEAN, bSequence : BOOLEAN] /\ stat \in [DOMAIN recv -> BOOLEAN]
    <3>1. recv = [bPcmOut |-> FALSE, bSequence |-> TRUE] /\ stat = recv
      BY DEF Init
    <3>2. recv \in [bPcmOut : BOOLEAN, bSequence : BOOLEAN] /\ DOMAIN recv = {"bPcmOut", "bSequence"}
      BY <3>1
    <3>3. [bPcmOut : BOOLEAN, bSequence : BOOLEAN] = [{"bPcmOut", "bSequence"} -> BOOLEAN] /\ stat = recv
      BY <3>1
    <3>. QED
      BY <3>2, <3>3
  <2>3. Range(pool) \subseteq DOMAIN mem
    BY <1>3, <1>5
  <2>4. \A i \in DOMAIN slot : slot[i].index \in 0 .. auSample /\ slot[i].item \in 0 .. items
    BY <1>1, <1>5 DEF NoSlot
  <2>5. writeIndex = (readIndex + validNum) % pcmNum
    BY <1>1, <1>5
  <2>6. slot \in [0 .. pcmNum - 1 -> Slot] /\ mem \in [Buffer -> 0 .. MaxItems] /\ pool \in Seq(Buffer)
    BY <1>1, <1>2, <1>4, <1>5
  <2>. QED
    BY <1>1, <1>5, <2>1, <2>2, <2>3, <2>4, <2>5, <2>6 DEF TypeInv, TypeOK
<1>8. BufferInv
  <2>1. InHand = 0 /\ InMixer = 0
    BY <1>1, <1>5, <1>6 DEF InHand, InMixer
  <2>. QED
    BY <1>1, <1>2, <1>5, <1>6, <2>1 DEF BufferInv, Buffer
<1>9. BlockInv
  BY <1>5, <1>6 DEF BlockInv
<1>10. PlayInv
  <2>1. Len(Film) = Count(items) * auSample /\ Count(items) \in Nat
    BY <1>1, <1>5, FilmLength, CountFinite
  <2>2. Len(Film) >= 0
    BY <1>1, <2>1
  <2>. QED
    BY <1>1, <1>5, <1>6, <2>2 DEF PlayInv, PlayedInOrder
<1>11. EndInv
  BY <1>5 DEF EndInv, Init
<1>. QED
  BY <1>7, <1>8, <1>9, <1>10, <1>11 DEF FilmInv

\* FilmInv is kept by every step.
LEMMA FilmStep == FilmInv /\ [Next]_vars => FilmInv'
BY TypeStep, BufferStep, BlockStep, PlayStep, EndStep DEF FilmInv

-----------------------------------------------------------------------------
\* What FilmInv says of the properties that the run checks.
LEMMA FilmRight == FilmInv => TypeOK /\ BuffersConserved /\ PlayedInOrder /\ AllPlayed
<1>. SUFFICES ASSUME FilmInv
              PROVE  TypeOK /\ BuffersConserved /\ PlayedInOrder /\ AllPlayed
  OBVIOUS
<1>. USE DEF FilmInv
<1>1. /\ pcmNum \in Nat /\ pcmNum > 0 /\ validNum \in Nat /\ validNum <= pcmNum /\ pool \in Seq(Buffer)
      /\ Len(pool) \in Nat /\ pPcm \in Buffer \cup {None} /\ None \notin Buffer /\ None = 0
      /\ DOMAIN mem = Buffer /\ Giving \in Buffer \cup {None} /\ Popped \in Int
      /\ fetched \in Nat /\ items \in Nat /\ auSample \in Nat
  <2>1. \A e \in Slot : e.pPcm \in Buffer \cup {None}
    BY DEF Slot
  <2>2. Giving \in Buffer \cup {None}
    BY <2>1 DEF Giving, TypeInv
  <2>. QED
    BY <2>2, FilmConstants, FilmTypes, QueueTypes DEF TypeInv
<1>2. BuffersConserved
  <2>. DEFINE hand == { pPcm } \ {None}
              giving == IF cb = "give" THEN { slot[done].pPcm } ELSE {}
  <2>1. giving = { Giving } \ {None}
    BY DEF Giving, BufferInv
  <2>2. Cardinality(hand) = InHand /\ Cardinality(giving) = InMixer
    <3>1. ASSUME NEW x
          PROVE  Cardinality({ x } \ {None}) = IF x = None THEN 0 ELSE 1
      <4>1. { x } \ {None} = IF x = None THEN {} ELSE {x}
        OBVIOUS
      <4>. QED
        BY <4>1, FS_EmptySet, FS_Singleton
    <3>. HIDE DEF giving
    <3>. QED
      BY <2>1, <3>1 DEF InHand, InMixer
  <2>3. Cardinality(DOMAIN mem) = pcmNum
    <3>1. Cardinality(1 .. pcmNum) = pcmNum
      BY <1>1, FS_Interval
    <3>. QED
      BY <1>1, <3>1 DEF Buffer
  <2>4. Queued = { waiting[k].pPcm : k \in Positions }
    BY DEF Queued, waiting, Positions, Ring
  <2>5. Range(pool) = { pool[i] : i \in 1 .. Len(pool) } /\ \A i \in 1 .. Len(pool) : pool[i] \in Buffer
    BY <1>1, LenProperties, ElementOfSeq DEF Range
  <2>6. \A k \in Positions : waiting[k].pPcm \in Buffer
    <3>1. \A e \in Slot : e.pPcm \in Buffer \cup {None}
      BY DEF Slot
    <3>. QED
      BY <3>1, QueueTypes DEF BufferInv
  <2>7. Range(pool) \cup hand \cup Queued \cup giving = Buffer
    <3>1. \A b \in Buffer : \/ b = pPcm \/ b = Giving
                            \/ \E i \in 1 .. Len(pool) : b = pool[i]
                            \/ \E k \in Positions : b = waiting[k].pPcm
      BY DEF BufferInv
    <3>. HIDE DEF giving
    <3>2. Buffer \subseteq Range(pool) \cup hand \cup Queued \cup giving
      BY <1>1, <2>1, <2>4, <2>5, <3>1
    <3>3. Range(pool) \cup hand \cup Queued \cup giving \subseteq Buffer
      BY <1>1, <2>1, <2>4, <2>5, <2>6
    <3>. QED
      BY <3>2, <3>3
  <2>8. Len(pool) + Cardinality(hand) + validNum + Cardinality(giving) = Cardinality(DOMAIN mem)
    <3>1. Len(pool) + InHand + validNum + InMixer = pcmNum
      BY DEF BufferInv
    <3>. QED
      BY <2>2, <2>3, <3>1
  <2>. QED
    BY <1>1, <2>7, <2>8 DEF BuffersConserved
<1>3. AllPlayed
  <2>. SUFFICES ASSUME ender = "done", mode_exec
                PROVE  Len(played) = Len(Film)
    BY DEF AllPlayed
  <2>1. ~bSequence /\ validNum = 0 /\ pc = "gone" /\ fetched = items
    BY DEF EndInv
  <2>2. Popped = Count(items)
    <3>1. Count(items) \in Nat /\ InPush = 0
      BY <1>1, <2>1, CountFinite DEF InPush
    <3>. QED
      BY <2>1, <3>1 DEF Popped
  <2>3. Len(played) = Popped * auSample + 0
    BY <2>1 DEF PlayInv
  <2>4. Popped * auSample + 0 = Popped * auSample
    BY <1>1
  <2>. QED
    BY <1>1, <2>2, <2>3, <2>4, FilmLength
<1>. QED
  BY <1>2, <1>3 DEF TypeInv, PlayInv

\* A step of either part is one of the audio output, or leaves it alone.
LEMMA FilmSteps == [MCNext]_mcvars => [Next]_vars
BY DEF MCNext, InFilm, InMusic, mcvars

\* No block is lost, played twice or out of order: in every film, with any number of buffers and
\* blocks of any length, every buffer is in one place, the samples the mixer was given are the first
\* ones of the film, and when the film ends by itself they are all of them (amixerCb, apost).
THEOREM SamplesAlwaysInOrder == MCSpec => []SamplesInOrder
<1>1. MCInit => FilmInv
  BY FilmInit DEF MCInit
<1>2. FilmInv /\ [MCNext]_mcvars => FilmInv'
  BY FilmSteps, FilmStep
<1>3. FilmInv => SamplesInOrder
  BY FilmRight DEF SamplesInOrder
<1>. QED
  BY <1>1, <1>2, <1>3, PTL DEF MCSpec

-----------------------------------------------------------------------------
(***************************************************************************)
(* The clock.  It stands before the blocks that are not played yet.        *)
(***************************************************************************)
Start(n) == (n - 1) * auSample
ClockInv ==
  /\ bSequence => apts <= Start(fetched + 1)
  /\ pc = "push" => apts <= Start(fetched)
  /\ \A k \in Positions : apts <= Start(waiting[k].item)

LEMMA StartMonotone ==
  ASSUME NEW m \in Nat, NEW n \in Nat, m <= n
  PROVE  Start(m) \in Int /\ Start(n) \in Int /\ Start(m) <= Start(n)
<1>1. auSample \in Nat /\ m - 1 \in Int /\ n - 1 \in Int /\ m - 1 <= n - 1
  BY FilmConstants
<1>2. ASSUME NEW x \in Int, NEW y \in Int, NEW a \in Nat, x <= y
      PROVE  x * a \in Int /\ y * a \in Int /\ x * a <= y * a
  BY <1>2
<1>. QED
  BY <1>1, <1>2 DEF Start

\* The blocks in the queue are in the order of the film, and before the one apost holds.
LEMMA QueueOrder ==
  ASSUME TypeInv, BlockInv
  PROVE  \A k \in Positions : /\ waiting[k].item \in Nat /\ waiting[k].item <= fetched
                              /\ waiting[0].item <= waiting[k].item /\ 0 \in Positions
                              /\ pc = "push" => waiting[k].item < fetched
<1>. SUFFICES ASSUME NEW k \in Positions
              PROVE  /\ waiting[k].item \in Nat /\ waiting[k].item <= fetched
                     /\ waiting[0].item <= waiting[k].item /\ 0 \in Positions
                     /\ pc = "push" => waiting[k].item < fetched
  OBVIOUS
<1>1. /\ fetched \in Nat /\ Count(fetched) \in Nat /\ validNum \in Nat /\ Popped \in Int
      /\ Popped = Count(fetched) - validNum - InPush
  BY FilmTypes DEF Popped
<1>2. k \in Nat /\ k <= validNum - 1 /\ 0 \in Positions /\ validNum > 0
  BY <1>1 DEF Positions
<1>3. /\ waiting[k].item \in Full(fetched) /\ Count(waiting[k].item) = Popped + k + 1
      /\ waiting[0].item \in Full(fetched) /\ Count(waiting[0].item) = Popped + 0 + 1
  BY <1>2 DEF BlockInv
<1>. DEFINE i == waiting[k].item
            h == waiting[0].item
<1>4. /\ i \in Nat /\ h \in Nat /\ i <= fetched /\ h <= fetched
      /\ Count(i) = Popped + k + 1 /\ Count(h) = Popped + 1
  BY <1>1, <1>3 DEF Full
<1>. HIDE DEF i, h
<1>5. h <= i
  <2>1. CASE k = 0
    BY <1>4, <2>1 DEF i, h
  <2>2. CASE k # 0 /\ i < h
    <3>1. Count(i) <= Count(h)
      BY <1>4, <2>2, CountMonotone
    <3>. QED
      BY <1>1, <1>2, <1>4, <2>2, <3>1
  <2>. QED
    BY <1>4, <2>1, <2>2
<1>6. pc = "push" => i < fetched
  <2>1. ASSUME pc = "push", i = fetched
        PROVE  FALSE
    <3>1. InPush = 1
      BY <2>1 DEF InPush
    <3>. QED
      BY <1>1, <1>2, <1>4, <2>1, <3>1
  <2>. QED
    BY <1>1, <1>4, <2>1
<1>. QED
  BY <1>2, <1>4, <1>5, <1>6 DEF i, h

LEMMA ClockStep ==
  ASSUME FilmInv, ClockInv, [Next]_vars
  PROVE  ClockInv' /\ apts' >= apts
<1>. USE DEF FilmInv
<1>1. /\ fetched \in Nat /\ validNum \in Nat /\ apts \in Nat /\ auSample \in Nat /\ samples \in Nat
      /\ fetched + 1 \in Nat /\ fetched + 1 + 1 \in Nat /\ fetched <= fetched + 1 /\ fetched + 1 <= fetched + 1 + 1
  BY FilmTypes, FilmConstants
<1>2. /\ Start(fetched) \in Int /\ Start(fetched + 1) \in Int /\ Start(fetched + 1 + 1) \in Int
      /\ Start(fetched) <= Start(fetched + 1) /\ Start(fetched + 1) <= Start(fetched + 1 + 1)
  BY <1>1, StartMonotone
<1>3. \A k \in Positions : Start(waiting[k].item) \in Int
  BY <1>1, QueueOrder, StartMonotone
\* The clock, the queue and the block in hand stay.
<1>4. ASSUME UNCHANGED << slot, readIndex, validNum, apts, fetched >>, pc' = "push" => pc = "push",
             bSequence' => bSequence
      PROVE  ClockInv' /\ apts' >= apts
  <2>1. waiting' = waiting /\ Positions' = Positions
    BY <1>4, QueueStays
  <2>2. \A n : Start(n)' = Start(n')
    BY DEF Start
  <2>3. (bSequence' => apts <= Start(fetched + 1)) /\ (pc' = "push" => apts <= Start(fetched))
    BY <1>4 DEF ClockInv
  <2>. QED
    BY <1>1, <1>4, <2>1, <2>3 DEF ClockInv, Start
<1>5. CASE GetPcm \/ Fetch
  <2>1. /\ UNCHANGED << slot, readIndex, validNum, apts, bSequence >>
        /\ \/ fetched' = fetched + 1 /\ (pc' = "push" => bSequence)
           \/ fetched' = fetched /\ pc' # "push"
    <3>1. pc \in {"get", "fetch"} /\ (~bSequence => pc = "gone")
      BY <1>5 DEF GetPcm, Fetch, EndInv
    <3>2. /\ UNCHANGED << slot, readIndex, validNum, apts, bSequence >>
          /\ fetched' = fetched + 1 \/ fetched' = fetched
          /\ pc' = "push" => fetched' = fetched + 1
      BY <1>5 DEF GetPcm, Fetch, queue, mixer, output
    <3>. QED
      BY <3>1, <3>2
  <2>2. waiting' = waiting /\ Positions' = Positions
    BY <2>1, QueueStays
  <2>3. \A k \in Positions : apts' <= Start(waiting[k].item)
    BY <2>1 DEF ClockInv
  <2>4. bSequence => apts <= Start(fetched + 1)
    BY DEF ClockInv
  <2>5. bSequence' => apts' <= Start(fetched' + 1)
    BY <1>1, <1>2, <2>1, <2>4
  <2>6. pc' = "push" => apts' <= Start(fetched')
    BY <1>1, <1>2, <2>1, <2>4
  <2>. QED
    BY <1>1, <2>1, <2>2, <2>3, <2>5, <2>6 DEF ClockInv, Start
<1>6. CASE QueuePush
  <2>1. /\ validNum' = validNum + 1 /\ \A k \in Positions : waiting'[k] = waiting[k]
        /\ waiting'[validNum].item = fetched
    BY <1>6, PushMoves
  <2>2. UNCHANGED << apts, fetched, bSequence >> /\ pc = "push" /\ pc' = "wait"
    BY <1>6 DEF QueuePush, output, decoder, mixer
  <2>3. \A k \in Positions' : k \in Positions \/ k = validNum
    BY <1>1, <2>1 DEF Positions
  <2>4. \A k \in Positions' : apts' <= Start(waiting'[k].item)
    BY <2>1, <2>2, <2>3 DEF ClockInv
  <2>5. bSequence' => apts' <= Start(fetched' + 1)
    BY <2>2 DEF ClockInv
  <2>. QED
    BY <1>1, <2>2, <2>4, <2>5 DEF ClockInv, Start
<1>7. CASE CbPop
  <2>1. validNum > 0 /\ UNCHANGED << apts, fetched, bSequence, pc >>
    BY <1>7 DEF CbPop, BlockInv, output, decoder, apost
  <2>2. /\ validNum' = validNum - 1
        /\ \A k \in 0 .. validNum - 2 : waiting'[k] = waiting[k + 1] /\ k + 1 \in Positions
    BY <1>7, <2>1, PopMoves
  <2>3. Positions' = 0 .. validNum - 2
    BY <1>1, <2>2 DEF Positions
  <2>4. \A k \in Positions' : apts' <= Start(waiting'[k].item)
    BY <2>1, <2>2, <2>3 DEF ClockInv
  <2>5. (bSequence' => apts' <= Start(fetched' + 1)) /\ (pc' = "push" => apts' <= Start(fetched'))
    BY <2>1 DEF ClockInv
  <2>. QED
    BY <1>1, <2>1, <2>4, <2>5 DEF ClockInv, Start
<1>8. CASE CbCopy
  <2>1. /\ validNum > 0 /\ UNCHANGED << apts, fetched, bSequence, pc >> /\ waiting[0].index < auSample
    BY <1>8 DEF CbCopy, BlockInv, output, decoder, apost
  <2>2. /\ 0 \in Positions /\ UNCHANGED << validNum, readIndex >>
        /\ waiting'[0] = [waiting[0] EXCEPT !.index = @ + Added] /\ waiting[0] \in Slot
        /\ \A k \in Positions : k # 0 => waiting'[k] = waiting[k]
    BY <1>8, <2>1, CopyMoves, QueueTypes
  <2>3. waiting'[0].item = waiting[0].item
    BY <2>2 DEF Slot
  <2>4. \A k \in Positions' : apts' <= Start(waiting'[k].item)
    BY <2>1, <2>2, <2>3 DEF ClockInv, Positions
  <2>5. (bSequence' => apts' <= Start(fetched' + 1)) /\ (pc' = "push" => apts' <= Start(fetched'))
    BY <2>1 DEF ClockInv
  <2>. QED
    BY <1>1, <2>1, <2>4, <2>5 DEF ClockInv, Start
<1>9. CASE CbPeek
  <2>1. UNCHANGED << slot, readIndex, validNum, fetched, pc >>
    BY <1>9 DEF CbPeek, queue, decoder, apost
  <2>2. waiting' = waiting /\ Positions' = Positions
    BY <2>1, QueueStays
  <2>3. CASE apts' = apts /\ (bSequence' => bSequence)
    BY <1>4, <2>1, <2>3
  <2>4. CASE validNum # 0 /\ apts' = (slot[readIndex].item - 1) * auSample
    <3>1. 0 \in Positions /\ 0 \in 0 .. pcmNum
      BY <1>1, <2>4, QueueTypes DEF Positions
    <3>2. waiting[0] = slot[readIndex]
      <4>1. Ring(0) = readIndex
        BY <3>1, QueueTypes
      <4>. QED
        BY <3>1, <4>1, QueueTypes
    <3>3. apts' = Start(waiting[0].item)
      BY <2>4, <3>2 DEF Start
    <3>4. apts' >= apts
      BY <1>1, <1>3, <3>1, <3>3 DEF ClockInv
    <3>5. /\ waiting[0].item \in Nat /\ waiting[0].item <= fetched
          /\ \A k \in Positions : waiting[k].item \in Nat /\ waiting[0].item <= waiting[k].item
      BY <3>1, QueueOrder
    <3>6. \A k \in Positions : apts' <= Start(waiting[k].item)
      BY <3>3, <3>5, StartMonotone
    <3>7. apts' <= Start(fetched + 1) /\ apts' <= Start(fetched)
      <4>1. waiting[0].item <= fetched + 1
        BY <1>1, <3>5
      <4>. QED
        BY <1>1, <3>3, <3>5, <4>1, StartMonotone
    <3>. QED
      BY <2>1, <2>2, <3>4, <3>6, <3>7 DEF ClockInv, Start
  <2>5. CASE validNum = 0 /\ cbReqStop /\ bSequence' = FALSE /\ apts' = apts + samples
    <3>1. pc = "gone" /\ Positions = {}
      BY <1>1, <2>5 DEF EndInv, Positions
    <3>. QED
      BY <1>1, <2>1, <2>2, <2>5, <3>1 DEF ClockInv
  <2>6. \/ apts' = apts /\ bSequence' = bSequence
        \/ validNum # 0 /\ apts' = (slot[readIndex].item - 1) * auSample
        \/ validNum = 0 /\ cbReqStop /\ bSequence' = FALSE /\ apts' = apts + samples
    BY <1>9 DEF CbPeek, Increment
  <2>. QED
    BY <2>3, <2>4, <2>5, <2>6
<1>10. CASE Decoded \/ SeqEndCb \/ VideoReady \/ ErrorExit \/ UNCHANGED vars
  BY <1>4, <1>10 DEF Decoded, SeqEndCb, VideoReady, ErrorExit, vars, decoder, queue, mixer, output, Woken, apost
<1>11. CASE Wait \/ Sleep \/ FetchNothing \/ PoolPop \/ GetFails \/ Exit
  BY <1>4, <1>11 DEF Wait, Sleep, FetchNothing, PoolPop, GetFails, Exit, decoder, queue, mixer, output
<1>12. CASE CbStart \/ CbGive \/ Ender
  BY <1>4, <1>12 DEF CbStart, CbGive, Ender, EndsApost, EndsAmixer, decoder, queue, mixer, output, apost
<1>. QED
  BY <1>5, <1>6, <1>7, <1>8, <1>9, <1>10, <1>11, <1>12 DEF Next, Apost, AmixerCb

\* The clock of the player, set to the start of the block that is played and advanced at the end,
\* never goes back (amixerSetAudioPts, amixerIncrementAudioPts).
THEOREM ClockNeverGoesBack == MCSpec => ClockForward
<1>1. MCInit => FilmInv /\ ClockInv
  <2>. SUFFICES ASSUME Init
                PROVE  ClockInv
    BY FilmInit DEF MCInit
  <2>1. apts = 0 /\ fetched = 0 /\ pc = "wait" /\ Positions = {} /\ auSample \in Nat
    BY FilmConstants DEF Init, Positions
  <2>. QED
    BY <2>1 DEF ClockInv, Start
<1>2. FilmInv /\ ClockInv /\ [MCNext]_mcvars => (FilmInv /\ ClockInv)' /\ [apts' >= apts]_apts
  BY FilmSteps, FilmStep, ClockStep
<1>. QED
  BY <1>1, <1>2, PTL DEF MCSpec, ClockForward

-----------------------------------------------------------------------------
(***************************************************************************)
(* The music player.  While a song is asked for and loaded, it is handed   *)
(* from the list to the stream: from the thread that asks, by the request, *)
(* to the thread of small jobs, and to the stream library.                 *)
(***************************************************************************)
Songs == { Column[i] : i \in DOMAIN Column } \cup {Music!NoSong}
Asks == {"close", "forget", "name"}
Stops == {"stop", "stopping", "stopped"}
Loads == {"load", "open", "read", "trigger"}
Place == Asks \cup Stops \cup Loads
           \cup {"idle", "force", "size", "playing", "data", "eof", "ended", "failed", "next", "try", "bgm"}
Asker == {"main", "ms"}
IsAsking(t) == tpc[t] \in Asks \cup {"force"}

MusicTypes ==
  /\ Music!TypeOK
  /\ tpc \in [Music!Thread -> Place] /\ arg \in [Music!Thread -> Songs]
  /\ opened \in [1 .. Handles -> [song : Songs, left : 0 .. Blocks]]
  /\ force_mp3_file \in Songs

\* The song the list stands at, and that it is requested, being loaded, or in the stream.
Wanted == playlist[current_mp3]
Loading ==
  \/ tpc["misc"] = "size" /\ force_mp3_file = Wanted
  \/ tpc["misc"] \in Stops \cup Loads /\ arg["misc"] = Wanted
  \/ tpc["misc"] = "playing" /\ stream = Wanted
  \/ tpc["misc"] = "idle" /\ (mm_is_playing => stream = Wanted)
Requested == \/ force_mp3 /\ force_mp3_file = Wanted
             \/ ~force_mp3 /\ Loading

\* It is on its way, unless a thread is about to empty the list.
OnItsWay ==
  \/ \E t \in Asker : tpc[t] \in Stops
  \/ \E t \in Asker : tpc[t] \in Asks /\ arg[t] = Wanted
  \/ \E t \in Asker : tpc[t] = "force" /\ force_mp3_file = Wanted
  \/ (\A t \in Asker : ~IsAsking(t)) /\ Requested

ThreadInv ==
  /\ tpc["misc"] \in Loads \cup {"playing"} => ~mm_is_playing
  /\ ~IsAsking("misc")
  /\ ~raced => \E t \in Asker : ~IsAsking(t)
SongInv == ~raced /\ max_mp3 # 0 => OnItsWay

MusicInv == MusicTypes /\ ThreadInv /\ SongInv

\* What MusicAssumption says of the constants.
LEMMA MusicConstants ==
  /\ DOMAIN Column = 1 .. Len(Column) /\ Len(Column) \in Nat /\ Len(Column) > 0
  /\ MAX_MP3 \in Nat /\ MAX_MP3 > 0 /\ Blocks \in Nat /\ Handles \in Nat /\ MaxRequests \in Nat
  /\ \A i \in DOMAIN Column : Column[i] \in Songs
  /\ Music!NoSong \in Songs
  /\ Music!Thread = {"main", "misc", "ms"} /\ Music!NoFd \notin 1 .. Handles
BY MusicAssumption DEF MusicAssumption, Songs, Music!Thread, Music!NoFd

\* One thread moves at a time.
LEMMA Moves ==
  ASSUME MusicTypes, NEW t \in Music!Thread, NEW p \in Place, Music!Goes(t, p)
  PROVE  /\ tpc' \in [Music!Thread -> Place] /\ tpc'[t] = p
         /\ \A u \in Music!Thread : u # t => tpc'[u] = tpc[u]
BY DEF MusicTypes, Music!Goes

\* The places of the threads.
LEMMA PlaceStep ==
  ASSUME MusicTypes, [Music!Next]_(Music!musicVars)
  PROVE  tpc' \in [Music!Thread -> Place]
<1>1. ASSUME NEW t \in Music!Thread, NEW p \in Place, Music!Goes(t, p)
      PROVE  tpc' \in [Music!Thread -> Place]
  BY <1>1, Moves
<1>2. /\ "main" \in Music!Thread /\ "misc" \in Music!Thread /\ "ms" \in Music!Thread
      /\ tpc \in [Music!Thread -> Place]
      /\ \A p \in {"close", "forget", "name", "stop", "stopping", "stopped", "load", "open", "read", "trigger",
                   "idle", "force", "size", "playing", "data", "eof", "ended", "failed", "next", "try", "bgm"} :
           p \in Place
  BY DEF Music!Thread, MusicTypes, Place, Asks, Stops, Loads
<1>3. ASSUME NEW t \in Music!Thread, Music!Change(t) \/ Music!Stop(t)
      PROVE  tpc' \in [Music!Thread -> Place]
  BY <1>1, <1>2, <1>3 DEF Music!Change, Music!Close, Music!Forget, Music!Name, Music!Force, Music!Stop, Music!StopWaits,
     Music!StopCloses, Music!Stopped
<1>4. CASE Music!User
  BY <1>1, <1>2, <1>4 DEF Music!User, Music!StartList, Music!StartTheme, Music!next_mp3, Music!prev_mp3,
     Music!GoesTo, Music!stop_mp3, Music!Pause, Music!Bgm
<1>5. CASE Music!Misc
  BY <1>1, <1>2, <1>3, <1>5 DEF Music!Misc, Music!TakesRequest, Music!LeavesOut, Music!BigEnough, Music!LoadCloses,
     Music!LoadOpens, Music!LoadReads, Music!Trigger, Music!Plays
<1>6. CASE Music!Stream
  BY <1>1, <1>2, <1>3, <1>6 DEF Music!Stream, Music!Callback, Music!ReadsData, Music!EndsFile, Music!ForgetsFile,
     Music!NextSong, Music!YieldsToBgm
<1>7. CASE Music!MainLoop \/ Music!WantsData \/ UNCHANGED Music!musicVars
  BY <1>2, <1>3, <1>7 DEF Music!MainLoop, Music!WantsData, Music!musicVars
<1>. QED
  BY <1>4, <1>5, <1>6, <1>7 DEF Music!Next

\* The list.
LEMMA ListStep ==
  ASSUME MusicTypes, [Music!Next]_(Music!musicVars)
  PROVE  /\ playlist' \in [0 .. MAX_MP3 -> Songs] /\ current_mp3' \in 0 .. MAX_MP3 /\ max_mp3' \in 0 .. MAX_MP3
         /\ arg' \in [Music!Thread -> Songs] /\ force_mp3_file' \in Songs
<1>1. /\ playlist \in [0 .. MAX_MP3 -> Songs] /\ current_mp3 \in 0 .. MAX_MP3 /\ max_mp3 \in 0 .. MAX_MP3
      /\ arg \in [Music!Thread -> Songs] /\ force_mp3_file \in Songs
      /\ "main" \in Music!Thread /\ "misc" \in Music!Thread /\ "ms" \in Music!Thread
      /\ MAX_MP3 \in Nat /\ MAX_MP3 > 0
  BY MusicConstants DEF MusicTypes, Music!TypeOK, Songs
<1>2. CASE Music!StartList
  <2>. DEFINE size == IF Len(Column) > MAX_MP3 THEN MAX_MP3 ELSE Len(Column)
              Song(first, i) == Column[((first + i - 2) % Len(Column)) + 1]
  <2>1. PICK first \in DOMAIN Column :
          /\ playlist' = [i \in DOMAIN playlist |-> IF i \in 1 .. size THEN Song(first, i) ELSE playlist[i]]
          /\ max_mp3' = size /\ current_mp3' = 1 /\ arg' = [arg EXCEPT !["main"] = Song(first, 1)]
    BY <1>2 DEF Music!StartList
  <2>2. ASSUME NEW i \in Nat, i > 0
        PROVE  Song(first, i) \in Songs
    <3>1. first + i - 2 \in Nat /\ Len(Column) \in Nat /\ Len(Column) > 0
      BY <2>2, MusicConstants
    <3>2. ((first + i - 2) % Len(Column)) + 1 \in 1 .. Len(Column)
      BY <3>1
    <3>. QED
      BY <3>2, MusicConstants
  <2>3. size \in 0 .. MAX_MP3 /\ force_mp3_file' = force_mp3_file
    BY <1>1, <1>2, MusicConstants DEF Music!StartList, Music!force
  <2>. HIDE DEF size, Song
  <2>4. \A i \in 1 .. size : i \in Nat /\ i > 0
    BY <2>3
  <2>5. Song(first, 1) \in Songs
    BY <2>2
  <2>6. playlist' \in [0 .. MAX_MP3 -> Songs]
    BY <1>1, <2>1, <2>2, <2>4
  <2>. QED
    BY <1>1, <2>1, <2>3, <2>5, <2>6
<1>3. CASE Music!StartTheme
  <2>1. PICK n \in {0, 1, MAX_MP3} :
          /\ playlist' = [i \in DOMAIN playlist |-> IF i \in 1 .. MAX_MP3 - 1 THEN Column[1] ELSE Music!NoSong]
          /\ max_mp3' = MAX_MP3 - 1 /\ current_mp3' = n /\ arg' = [arg EXCEPT !["main"] = playlist'[n]]
    BY <1>3 DEF Music!StartTheme
  <2>2. Column[1] \in Songs /\ Music!NoSong \in Songs /\ force_mp3_file' = force_mp3_file
    BY <1>3, MusicConstants DEF Music!StartTheme, Music!force
  <2>3. playlist' \in [0 .. MAX_MP3 -> Songs] /\ n \in 0 .. MAX_MP3
    BY <1>1, <2>1, <2>2
  <2>. QED
    BY <1>1, <2>1, <2>2, <2>3
<1>4. ASSUME NEW n \in 0 .. MAX_MP3, Music!GoesTo(n)
      PROVE  /\ playlist' = playlist /\ current_mp3' = n /\ max_mp3' = max_mp3
             /\ arg' = [arg EXCEPT !["main"] = playlist[n]] /\ force_mp3_file' = force_mp3_file
  BY <1>4 DEF Music!GoesTo, Music!force
<1>5. CASE Music!next_mp3
  <2>1. PICK n \in 0 .. MAX_MP3 : Music!GoesTo(n)
    <3>1. (IF current_mp3 + 1 > max_mp3 \/ current_mp3 + 1 >= MAX_MP3 THEN 1 ELSE current_mp3 + 1) \in 0 .. MAX_MP3
      BY <1>1
    <3>. QED
      BY <1>5, <3>1 DEF Music!next_mp3
  <2>. QED
    BY <1>1, <1>4, <2>1
<1>6. CASE Music!prev_mp3
  <2>1. PICK n \in 0 .. MAX_MP3 : Music!GoesTo(n)
    <3>1. current_mp3 > 0 => (IF current_mp3 = 1 THEN max_mp3 ELSE current_mp3 - 1) \in 0 .. MAX_MP3
      BY <1>1
    <3>. QED
      BY <1>6, <3>1 DEF Music!prev_mp3
  <2>. QED
    BY <1>1, <1>4, <2>1
\* The place after the current one.
<1>7. max_mp3 # 0 => Music!Succ(current_mp3, max_mp3) \in 0 .. MAX_MP3
  BY <1>1 DEF Music!Succ
<1>8. CASE Music!LeavesOut
  BY <1>1, <1>7, <1>8 DEF Music!LeavesOut
<1>9. CASE Music!NextSong
  <2>1. UNCHANGED << playlist, max_mp3, force_mp3_file >>
    BY <1>9 DEF Music!NextSong, Music!force
  <2>2. \/ UNCHANGED << current_mp3, arg >>
        \/ current_mp3' \in 0 .. MAX_MP3 /\ arg' = [arg EXCEPT !["ms"] = playlist[current_mp3']]
    BY <1>7, <1>9 DEF Music!NextSong
  <2>. QED
    BY <1>1, <2>1, <2>2
<1>10. ASSUME NEW t \in Music!Thread, Music!Change(t) \/ Music!Stop(t)
       PROVE  /\ playlist' = playlist /\ arg' = arg
              /\ \/ UNCHANGED << current_mp3, max_mp3 >>
                 \/ current_mp3' = 0 /\ max_mp3' = 0
              /\ force_mp3_file' \in {force_mp3_file, arg[t]}
  BY <1>10 DEF Music!Change, Music!Close, Music!Forget, Music!Name, Music!Force, Music!Stop, Music!StopWaits,
     Music!StopCloses, Music!Stopped, Music!list, Music!force
<1>11. CASE Music!BigEnough
  BY <1>1, <1>11 DEF Music!BigEnough, Music!list, Music!force
<1>12. CASE \E t \in Music!Thread : Music!Change(t) \/ Music!Stop(t)
  BY <1>1, <1>10, <1>12
<1>13. CASE \/ Music!stop_mp3 \/ Music!Pause \/ Music!Bgm \/ Music!TakesRequest \/ Music!LoadCloses \/ Music!LoadOpens
            \/ Music!LoadReads \/ Music!Trigger \/ Music!Plays \/ Music!WantsData \/ Music!Callback \/ Music!ReadsData
            \/ Music!EndsFile("eof", "ended") \/ Music!EndsFile("failed", "next")
            \/ Music!ForgetsFile("ended", "idle") \/ Music!ForgetsFile("next", "try") \/ Music!YieldsToBgm
            \/ UNCHANGED Music!musicVars
  <2>1. UNCHANGED << playlist, current_mp3, max_mp3, arg, force_mp3_file >>
    BY <1>13 DEF Music!stop_mp3, Music!Pause, Music!Bgm, Music!TakesRequest, Music!LoadCloses, Music!LoadOpens,
       Music!LoadReads, Music!Trigger, Music!Plays, Music!WantsData, Music!Callback, Music!ReadsData, Music!EndsFile,
       Music!ForgetsFile, Music!YieldsToBgm, Music!musicVars, Music!list, Music!force
  <2>. QED
    BY <1>1, <2>1
<1>. QED
  BY <1>1, <1>2, <1>3, <1>5, <1>6, <1>8, <1>9, <1>11, <1>12, <1>13 DEF Music!Next, Music!User, Music!MainLoop,
     Music!Misc, Music!Stream

\* The file of the song, and its handle.
LEMMA FileStep ==
  ASSUME MusicTypes, [Music!Next]_(Music!musicVars)
  PROVE  /\ opened' \in [1 .. Handles -> [song : Songs, left : 0 .. Blocks]]
         /\ force_mp3_fd' \in 1 .. Handles \cup {Music!NoFd}
<1>. DEFINE File == [song : Songs, left : 0 .. Blocks]
<1>1. /\ opened \in [1 .. Handles -> File] /\ force_mp3_fd \in 1 .. Handles \cup {Music!NoFd}
      /\ arg \in [Music!Thread -> Songs]
      /\ "main" \in Music!Thread /\ "misc" \in Music!Thread /\ "ms" \in Music!Thread
      /\ \A s \in Songs : [song |-> s, left |-> Blocks] \in File
      /\ \A f \in File : f.left # 0 => [f EXCEPT !.left = f.left - 1] \in File
  <2>1. /\ opened \in [1 .. Handles -> File] /\ force_mp3_fd \in 1 .. Handles \cup {Music!NoFd}
        /\ arg \in [Music!Thread -> Songs]
        /\ "main" \in Music!Thread /\ "misc" \in Music!Thread /\ "ms" \in Music!Thread
    BY MusicConstants DEF MusicTypes, Music!TypeOK
  <2>2. /\ \A s \in Songs : [song |-> s, left |-> Blocks] \in File
        /\ \A f \in File : f.left # 0 => [f EXCEPT !.left = f.left - 1] \in File
    BY MusicConstants
  <2>. QED
    BY <2>1, <2>2
<1>2. Music!Closed \in File
  BY MusicConstants DEF Music!Closed
<1>. HIDE DEF File
<1>3. Music!CloseFd \in [1 .. Handles -> File]
  BY <1>1, <1>2 DEF Music!CloseFd
<1>4. CASE Music!LoadOpens
  <2>1. CASE UNCHANGED << opened, force_mp3_fd >>
    BY <1>1, <2>1 DEF File
  <2>2. CASE \E h \in 1 .. Handles : /\ force_mp3_fd' = h
                                    /\ opened' = [opened EXCEPT ![h] = [song |-> arg["misc"], left |-> Blocks]]
    <3>1. [song |-> arg["misc"], left |-> Blocks] \in File
      BY <1>1
    <3>. QED
      BY <1>1, <2>2, <3>1 DEF File
  <2>3. DOMAIN opened = 1 .. Handles
    BY <1>1
  <2>. QED
    BY <1>4, <2>1, <2>2, <2>3 DEF Music!LoadOpens, Music!Free, Music!files
<1>5. CASE Music!ReadsData
  <2>1. \/ opened' = opened
        \/ /\ force_mp3_fd # Music!NoFd /\ opened[force_mp3_fd].left # 0
           /\ opened' = [opened EXCEPT ![force_mp3_fd] =
                           [opened[force_mp3_fd] EXCEPT !.left = opened[force_mp3_fd].left - 1]]
    BY <1>5 DEF Music!ReadsData
  <2>2. force_mp3_fd' = force_mp3_fd
    BY <1>5 DEF Music!ReadsData
  <2>. QED
    BY <1>1, <2>1, <2>2 DEF File
<1>6. ASSUME NEW t \in Music!Thread, Music!Change(t) \/ Music!Stop(t)
      PROVE  opened' \in {opened, Music!CloseFd} /\ force_mp3_fd' \in {force_mp3_fd, Music!NoFd}
  BY <1>6 DEF Music!Change, Music!Close, Music!Forget, Music!Name, Music!Force, Music!Stop, Music!StopWaits,
     Music!StopCloses, Music!Stopped, Music!files
<1>7. CASE \E t \in Music!Thread : Music!Change(t) \/ Music!Stop(t)
  BY <1>1, <1>3, <1>6, <1>7 DEF File
<1>8. CASE \/ Music!LoadCloses \/ Music!LoadReads \/ Music!EndsFile("eof", "ended") \/ Music!EndsFile("failed", "next")
           \/ Music!ForgetsFile("ended", "idle") \/ Music!ForgetsFile("next", "try")
  <2>1. opened' \in {opened, Music!CloseFd} /\ force_mp3_fd' \in {force_mp3_fd, Music!NoFd}
    BY <1>8 DEF Music!LoadCloses, Music!LoadReads, Music!EndsFile, Music!ForgetsFile
  <2>. QED
    BY <1>1, <1>3, <2>1 DEF File
<1>9. CASE \/ Music!User \/ Music!TakesRequest \/ Music!LeavesOut \/ Music!BigEnough \/ Music!Trigger \/ Music!Plays
           \/ Music!WantsData \/ Music!Callback \/ Music!NextSong \/ Music!YieldsToBgm \/ UNCHANGED Music!musicVars
  <2>1. UNCHANGED << opened, force_mp3_fd >>
    BY <1>9 DEF Music!User, Music!StartList, Music!StartTheme, Music!next_mp3, Music!prev_mp3, Music!GoesTo,
       Music!stop_mp3, Music!Pause, Music!Bgm, Music!TakesRequest, Music!LeavesOut, Music!BigEnough, Music!Trigger,
       Music!Plays, Music!WantsData, Music!Callback, Music!NextSong, Music!YieldsToBgm, Music!musicVars, Music!files
  <2>. QED
    BY <1>1, <2>1 DEF File
<1>. QED
  BY <1>1, <1>4, <1>5, <1>7, <1>8, <1>9 DEF Music!Next, Music!MainLoop, Music!Misc, Music!Stream

\* The flags.
Flag(x) == x \in BOOLEAN
LEMMA FlagStep ==
  ASSUME MusicTypes, [Music!Next]_(Music!musicVars)
  PROVE  /\ Flag(force_mp3') /\ Flag(mm_is_playing') /\ Flag(update_ms') /\ Flag(audio_sub_proc')
         /\ Flag(mm_audio') /\ Flag(request') /\ Flag(raced') /\ requests' \in 0 .. MaxRequests
<1>1. /\ Flag(force_mp3) /\ Flag(mm_is_playing) /\ Flag(update_ms) /\ Flag(audio_sub_proc)
      /\ Flag(mm_audio) /\ Flag(request) /\ Flag(raced) /\ requests \in 0 .. MaxRequests
      /\ "main" \in Music!Thread /\ "misc" \in Music!Thread /\ "ms" \in Music!Thread
  BY MusicConstants DEF MusicTypes, Music!TypeOK, Flag
<1>2. /\ Flag(TRUE) /\ Flag(FALSE) /\ (\A x : Flag(x) => Flag(~x))
      /\ \A t : \A x : Flag(x) => Flag(x \/ Music!Changing(t))
  BY DEF Flag, Music!Changing
<1>. HIDE DEF Flag
<1>3. CASE Music!User
  <2>1. /\ UNCHANGED << force_mp3, mm_is_playing, audio_sub_proc, request >>
        /\ update_ms' \in {update_ms, ~update_ms, ~mm_audio} /\ mm_audio' \in {mm_audio, ~mm_audio}
    BY <1>3 DEF Music!User, Music!StartList, Music!StartTheme, Music!next_mp3, Music!prev_mp3, Music!GoesTo,
       Music!stop_mp3, Music!Pause, Music!Bgm, Music!force, Music!sound, Music!lib
  <2>2. raced' = raced \/ raced' = (raced \/ Music!Changing("ms"))
    BY <1>3 DEF Music!User, Music!StartList, Music!StartTheme, Music!next_mp3, Music!prev_mp3, Music!GoesTo,
       Music!stop_mp3, Music!Pause, Music!Bgm, Music!RacesWith
  <2>3. requests < MaxRequests /\ requests' = requests + 1
    BY <1>3 DEF Music!User, Music!StartList, Music!StartTheme, Music!next_mp3, Music!prev_mp3, Music!GoesTo,
       Music!stop_mp3, Music!Pause, Music!Bgm, Music!Asks
  <2>4. requests' \in 0 .. MaxRequests
    BY <1>1, <2>3, MusicConstants
  <2>. QED
    BY <1>1, <1>2, <2>1, <2>2, <2>4
<1>4. CASE \E t \in Music!Thread : Music!Change(t) \/ Music!Stop(t)
  <2>1. /\ UNCHANGED << mm_audio, raced, requests >> /\ force_mp3' \in {force_mp3, TRUE}
        /\ mm_is_playing' \in {mm_is_playing, FALSE} /\ update_ms' \in {update_ms, FALSE}
        /\ audio_sub_proc' \in {audio_sub_proc, TRUE, FALSE} /\ request' \in {request, FALSE}
    <3>1. ASSUME NEW t \in Music!Thread, Music!Change(t)
          PROVE  UNCHANGED << mm_audio, raced, requests, mm_is_playing, update_ms, audio_sub_proc, request >>
                 /\ force_mp3' \in {force_mp3, TRUE}
      BY <3>1 DEF Music!Change, Music!Close, Music!Forget, Music!Name, Music!Force, Music!force, Music!sound,
         Music!lib, Music!history
    <3>2. ASSUME NEW t \in Music!Thread, Music!Stop(t)
          PROVE  /\ UNCHANGED << mm_audio, raced, requests, force_mp3 >>
                 /\ mm_is_playing' \in {mm_is_playing, FALSE} /\ update_ms' \in {update_ms, FALSE}
                 /\ audio_sub_proc' \in {audio_sub_proc, TRUE, FALSE} /\ request' \in {request, FALSE}
      BY <3>2 DEF Music!Stop, Music!StopWaits, Music!StopCloses, Music!Stopped, Music!force, Music!sound,
         Music!lib, Music!history
    <3>. QED
      BY <1>4, <3>1, <3>2
  <2>. QED
    BY <1>1, <1>2, <2>1
<1>5. CASE \/ Music!TakesRequest \/ Music!BigEnough \/ Music!LoadCloses \/ Music!LoadOpens \/ Music!LoadReads
           \/ Music!Trigger \/ Music!Plays
  <2>1. /\ UNCHANGED << mm_audio, raced, requests, audio_sub_proc, request >> /\ force_mp3' \in {force_mp3, FALSE}
        /\ mm_is_playing' \in {mm_is_playing, TRUE} /\ update_ms' \in {update_ms, TRUE}
    BY <1>5 DEF Music!TakesRequest, Music!BigEnough, Music!LoadCloses, Music!LoadOpens, Music!LoadReads,
       Music!Trigger, Music!Plays, Music!force, Music!sound, Music!lib, Music!history
  <2>. QED
    BY <1>1, <1>2, <2>1
<1>6. CASE Music!LeavesOut
  <2>1. /\ UNCHANGED << mm_audio, requests, audio_sub_proc, request, mm_is_playing, update_ms >>
        /\ force_mp3' \in {TRUE, FALSE}
        /\ raced' = (raced \/ force_mp3 \/ Music!Changing("main") \/ Music!Changing("ms"))
    BY <1>6 DEF Music!LeavesOut, Music!sound, Music!lib
  <2>2. Flag(raced \/ force_mp3 \/ Music!Changing("main") \/ Music!Changing("ms"))
    BY <1>1 DEF Flag
  <2>. QED
    BY <1>1, <1>2, <2>1, <2>2
<1>7. CASE \/ Music!Callback \/ Music!ReadsData \/ Music!EndsFile("eof", "ended") \/ Music!EndsFile("failed", "next")
           \/ Music!ForgetsFile("ended", "idle") \/ Music!ForgetsFile("next", "try") \/ Music!YieldsToBgm
           \/ Music!WantsData \/ UNCHANGED Music!musicVars
  <2>1. /\ UNCHANGED << mm_audio, raced, requests, audio_sub_proc, force_mp3, mm_is_playing, update_ms >>
        /\ request' \in {request, TRUE, FALSE}
    BY <1>7 DEF Music!Callback, Music!ReadsData, Music!EndsFile, Music!ForgetsFile, Music!YieldsToBgm,
       Music!WantsData, Music!musicVars, Music!force, Music!sound, Music!lib, Music!history
  <2>. QED
    BY <1>1, <1>2, <2>1
<1>8. CASE Music!NextSong
  <2>1. /\ UNCHANGED << mm_audio, requests, audio_sub_proc, force_mp3, mm_is_playing, request >> /\ update_ms' = FALSE
        /\ raced' = (raced \/ Music!Changing("main"))
    BY <1>8 DEF Music!NextSong, Music!RacesWith, Music!force, Music!lib
  <2>. QED
    BY <1>1, <1>2, <2>1
<1>. QED
  BY <1>1, <1>3, <1>4, <1>5, <1>6, <1>7, <1>8 DEF Music!Next, Music!MainLoop, Music!Misc, Music!Stream

LEMMA MusicTypeStep ==
  ASSUME MusicTypes, [Music!Next]_(Music!musicVars)
  PROVE  MusicTypes'
<1>1. { force_mp3', mm_is_playing', update_ms', audio_sub_proc', mm_audio', request', raced' } \subseteq BOOLEAN
  BY FlagStep DEF Flag
<1>2. \A h \in DOMAIN opened' : opened'[h].left \in 0 .. Blocks
  BY FileStep
<1>3. Music!TypeOK'
  BY <1>1, <1>2, ListStep, FileStep, FlagStep DEF Music!TypeOK, Songs
<1>. QED
  BY <1>3, PlaceStep, ListStep, FileStep DEF MusicTypes

\* The song the list stands at stays on its way to the stream.
LEMMA SongStep ==
  ASSUME MusicInv, [Music!Next]_(Music!musicVars)
  PROVE  ThreadInv' /\ SongInv'
<1>. DEFINE Quick == {"idle", "data", "eof", "ended", "failed", "next", "try", "bgm"}
<1>1. /\ Music!Thread = {"main", "misc", "ms"} /\ MusicTypes /\ tpc \in [Music!Thread -> Place]
      /\ tpc["misc"] \in Loads \cup {"playing"} => ~mm_is_playing
      /\ tpc["misc"] \notin Asks \cup {"force"}
      /\ ~raced => \E t \in Asker : tpc[t] \notin Asks \cup {"force"}
      /\ Asker = {"main", "ms"} /\ Asker \subseteq Music!Thread /\ "misc" \notin Asker
      /\ arg \in [Music!Thread -> Songs]
  BY MusicConstants DEF MusicInv, MusicTypes, ThreadInv, IsAsking, Asker
<1>2. \A t : Music!Changing(t) <=> tpc[t] \in Asks \cup {"force"} \cup Stops
  BY DEF Music!Changing, Asks, Stops
<1>3. /\ Asks \cup Stops \cup Loads \cup Quick \cup {"force", "playing", "size"} = Place
      /\ \A p \in Stops \cup Quick \cup Loads \cup {"playing", "size"} : p \notin Asks \cup {"force"}
      /\ \A p \in Quick \cup Asks \cup Loads \cup {"playing", "size", "force"} : p \notin Stops
      /\ \A p \in Quick \cup Stops \cup Asks \cup {"size", "force"} : p \notin Loads \cup {"playing"}
      /\ "close" \in Asks /\ "forget" \in Asks /\ "name" \in Asks
      /\ "stop" \in Stops /\ "stopping" \in Stops /\ "stopped" \in Stops
      /\ "load" \in Loads /\ "open" \in Loads /\ "read" \in Loads /\ "trigger" \in Loads
      /\ "idle" \in Quick /\ "bgm" \in Quick
  BY DEF Asks, Stops, Loads, Place
<1>. HIDE DEF Quick
\* The main loop or the callback asks for another song of the list.
<1>4. ASSUME NEW t \in Asker, NEW u \in Asker, t # u, Music!Goes(t, "close"), UNCHANGED mm_is_playing,
             raced' = (raced \/ Music!Changing(u)), arg'[t] = playlist'[current_mp3']
      PROVE  ThreadInv' /\ SongInv'
  <2>1. tpc'[t] = "close" /\ \A v \in Music!Thread : v # t => tpc'[v] = tpc[v]
    BY <1>1, <1>3, <1>4, Moves
  <2>2. ThreadInv'
    BY <1>1, <1>2, <1>4, <2>1 DEF ThreadInv, IsAsking
  <2>. QED
    BY <1>1, <1>3, <1>4, <2>1, <2>2 DEF SongInv, OnItsWay, Wanted
\* One of them is about to empty the list, or does.
<1>5. ASSUME NEW t \in Asker, NEW p \in Place, Music!Goes(t, p), p \notin Asks \cup {"force"},
             p \in Stops \/ max_mp3' = 0, ~raced' => ~raced, mm_is_playing' \in {mm_is_playing, FALSE}
      PROVE  ThreadInv' /\ SongInv'
  <2>1. tpc'[t] = p /\ \A v \in Music!Thread : v # t => tpc'[v] = tpc[v]
    BY <1>1, <1>5, Moves
  <2>2. ThreadInv'
    <3>1. tpc'["misc"] = tpc["misc"] /\ (tpc'["misc"] \in Loads \cup {"playing"} => ~mm_is_playing')
      <4>1. "misc" # t /\ "misc" \in Music!Thread
        BY <1>1
      <4>2. tpc'["misc"] = tpc["misc"]
        BY <2>1, <4>1
      <4>3. ~mm_is_playing => ~mm_is_playing'
        BY <1>5
      <4>. QED
        BY <1>1, <4>2, <4>3
    <3>2. ~raced' => \E v \in Asker : tpc'[v] \notin Asks \cup {"force"}
      BY <1>1, <1>5, <2>1
    <3>. QED
      BY <1>1, <3>1, <3>2 DEF ThreadInv, IsAsking
  <2>. QED
    BY <1>1, <1>5, <2>1, <2>2 DEF SongInv, OnItsWay
\* It hands the song over to the request.
<1>6. ASSUME NEW t \in Asker, Music!Change(t)
      PROVE  ThreadInv' /\ SongInv'
  <2>1. PICK p \in Place : Music!Goes(t, p)
    BY <1>1, <1>3, <1>6 DEF Music!Change, Music!Close, Music!Forget, Music!Name, Music!Force
  <2>2. tpc'[t] = p /\ \A v \in Music!Thread : v # t => tpc'[v] = tpc[v]
    BY <1>1, <2>1, Moves
  <2>3. /\ UNCHANGED << playlist, current_mp3, max_mp3, arg, mm_is_playing, stream, raced >>
        /\ \/ tpc[t] \in Asks /\ tpc'[t] \in Asks /\ UNCHANGED << force_mp3, force_mp3_file >>
           \/ tpc[t] = "name" /\ tpc'[t] = "force" /\ force_mp3_file' = arg[t] /\ UNCHANGED force_mp3
           \/ tpc[t] = "force" /\ tpc'[t] \in Quick /\ force_mp3' = TRUE /\ UNCHANGED force_mp3_file
    <3>1. UNCHANGED << playlist, current_mp3, max_mp3, arg, mm_is_playing, stream, raced >>
      BY <1>6 DEF Music!Change, Music!Close, Music!Forget, Music!Name, Music!Force, Music!list, Music!sound,
         Music!lib, Music!history
    <3>2. ASSUME NEW q \in Place, Music!Goes(t, q)
          PROVE  tpc'[t] = q
      BY <1>1, <3>2, Moves
    <3>3. CASE Music!Close(t) \/ Music!Forget(t)
      BY <1>3, <3>1, <3>2, <3>3 DEF Music!Close, Music!Forget, Music!force
    <3>4. CASE Music!Name(t)
      BY <1>3, <3>1, <3>2, <3>4 DEF Music!Name
    <3>5. CASE Music!Force(t)
      BY <1>3, <3>1, <3>2, <3>5 DEF Music!Force
    <3>. QED
      BY <1>6, <3>3, <3>4, <3>5 DEF Music!Change
  <2>4. tpc[t] \in Asks \cup {"force"}
    BY <1>3, <2>3
  <2>5. ThreadInv'
    BY <1>1, <1>3, <2>2, <2>3, <2>4 DEF ThreadInv, IsAsking
  <2>6. ASSUME ~raced, max_mp3 # 0
        PROVE  OnItsWay'
    <3>1. /\ \A u \in Asker : u # t => tpc[u] \notin Asks \cup {"force"} /\ tpc'[u] = tpc[u]
          /\ tpc[t] \notin Stops
      BY <1>1, <1>3, <2>2, <2>4, <2>6
    <3>2. \/ \E u \in Asker : u # t /\ tpc[u] \in Stops
          \/ tpc[t] \in Asks /\ arg[t] = Wanted
          \/ tpc[t] = "force" /\ force_mp3_file = Wanted
      BY <2>4, <2>6, <3>1 DEF MusicInv, SongInv, OnItsWay, IsAsking
    <3>3. Wanted' = Wanted /\ "name" \in Asks /\ "force" \notin Asks
      BY <2>3 DEF Wanted, Asks
    <3>4. CASE \E u \in Asker : u # t /\ tpc[u] \in Stops
      BY <3>1, <3>4 DEF OnItsWay
    <3>5. CASE tpc[t] \in Asks /\ arg[t] = Wanted
      BY <1>3, <2>3, <3>3, <3>5 DEF OnItsWay
    <3>6. CASE tpc[t] = "force" /\ force_mp3_file = Wanted
      <4>1. tpc'[t] \in Quick /\ force_mp3' = TRUE /\ force_mp3_file' = Wanted
        BY <1>3, <2>3, <3>3, <3>6
      <4>2. \A u \in Asker : tpc'[u] \notin Asks \cup {"force"}
        BY <1>3, <3>1, <4>1
      <4>. QED
        BY <3>3, <4>1, <4>2 DEF OnItsWay, IsAsking, Requested
    <3>. QED
      BY <3>2, <3>4, <3>5, <3>6
  <2>. QED
    BY <2>3, <2>5, <2>6 DEF SongInv
\* The request or the loading of the song moves on.
<1>7. ASSUME NEW p \in Place, Music!Goes("misc", p), p \notin Asks \cup {"force"},
             p \in Loads \cup {"playing"} => ~mm_is_playing',
             UNCHANGED << playlist, current_mp3, max_mp3, force_mp3_file, raced >>,
             \A t \in Asker : arg'[t] = arg[t],
             Requested => Requested'
      PROVE  ThreadInv' /\ SongInv'
  <2>1. tpc'["misc"] = p /\ \A t \in Asker : tpc'[t] = tpc[t]
    BY <1>1, <1>7, Moves
  <2>2. Wanted' = Wanted
    BY <1>7 DEF Wanted
  <2>3. OnItsWay => OnItsWay'
    BY <1>7, <2>1, <2>2 DEF OnItsWay, IsAsking
  <2>. QED
    BY <1>1, <1>7, <2>1, <2>3 DEF ThreadInv, SongInv, IsAsking, MusicInv
\* Nothing is asked for.
<1>8. ASSUME tpc'["main"] = tpc["main"], tpc'["misc"] = tpc["misc"],
             tpc'["ms"] = tpc["ms"] \/ (tpc["ms"] \in Quick /\ tpc'["ms"] \in Quick),
             UNCHANGED << playlist, current_mp3, max_mp3, arg, force_mp3, force_mp3_file, mm_is_playing, stream, raced >>
      PROVE  ThreadInv' /\ SongInv'
  <2>1. Wanted' = Wanted
    BY <1>8 DEF Wanted
  <2>2. Requested' <=> Requested
    BY <1>8, <2>1 DEF Requested, Loading
  <2>3. \A t \in Asker : \A p \in Asks \cup Stops \cup {"force"} : tpc[t] = p <=> tpc'[t] = p
    BY <1>1, <1>3, <1>8
  <2>4. OnItsWay => OnItsWay'
    BY <1>3, <1>8, <2>1, <2>2, <2>3 DEF OnItsWay, IsAsking
  <2>5. ThreadInv'
    BY <1>1, <1>8, <2>3 DEF ThreadInv, IsAsking
  <2>. QED
    BY <1>8, <2>4, <2>5 DEF SongInv, MusicInv
\* The requests of the user.
<1>9. CASE Music!StartList
  <2>1. arg'["main"] = playlist'[current_mp3']
    <3>. DEFINE size == IF Len(Column) > MAX_MP3 THEN MAX_MP3 ELSE Len(Column)
                Song(first, i) == Column[((first + i - 2) % Len(Column)) + 1]
    <3>1. PICK first \in DOMAIN Column :
            /\ playlist' = [i \in DOMAIN playlist |-> IF i \in 1 .. size THEN Song(first, i) ELSE playlist[i]]
            /\ current_mp3' = 1 /\ arg' = [arg EXCEPT !["main"] = Song(first, 1)]
      BY <1>9 DEF Music!StartList
    <3>2. 1 \in 1 .. size /\ 1 \in DOMAIN playlist
      BY <1>1, MusicConstants DEF MusicTypes, Music!TypeOK
    <3>. HIDE DEF size, Song
    <3>. QED
      BY <1>1, <3>1, <3>2
  <2>. QED
    BY <1>1, <1>4, <1>9, <2>1 DEF Music!StartList, Music!RacesWith, Music!sound
<1>10. CASE Music!StartTheme
  <2>1. arg'["main"] = playlist'[current_mp3']
    BY <1>1, <1>10 DEF Music!StartTheme
  <2>. QED
    BY <1>1, <1>4, <1>10, <2>1 DEF Music!StartTheme, Music!RacesWith, Music!sound
<1>11. CASE Music!next_mp3 \/ Music!prev_mp3
  <2>1. PICK n : Music!GoesTo(n)
    BY <1>11 DEF Music!next_mp3, Music!prev_mp3
  <2>2. arg'["main"] = playlist'[current_mp3']
    BY <1>1, <2>1 DEF Music!GoesTo
  <2>. QED
    BY <1>1, <1>4, <2>1, <2>2 DEF Music!GoesTo, Music!RacesWith, Music!sound
<1>12. CASE Music!stop_mp3
  <2>1. Music!Goes("main", "stop") /\ mm_is_playing' = mm_is_playing /\ (~raced' => ~raced)
    BY <1>12 DEF Music!stop_mp3, Music!RacesWith, Music!sound
  <2>. QED
    BY <1>1, <1>3, <1>5, <2>1
<1>13. CASE Music!Pause \/ Music!Bgm \/ Music!WantsData \/ UNCHANGED Music!musicVars
  <2>1. UNCHANGED << tpc, playlist, current_mp3, max_mp3, arg, force_mp3, force_mp3_file, mm_is_playing, stream, raced >>
    BY <1>13 DEF Music!Pause, Music!Bgm, Music!WantsData, Music!musicVars, Music!list, Music!force, Music!sound,
       Music!lib, Music!history
  <2>2. tpc'["main"] = tpc["main"] /\ tpc'["misc"] = tpc["misc"] /\ tpc'["ms"] = tpc["ms"]
    BY <2>1
  <2>. QED
    BY <1>8, <2>1, <2>2, Zenon
\* The end of a list.
<1>14. ASSUME NEW t \in Asker, Music!Stop(t)
       PROVE  ThreadInv' /\ SongInv'
  <2>1. t # "misc"
    BY <1>1
  <2>2. CASE Music!StopWaits(t) \/ Music!StopCloses(t)
    <3>1. (\E p \in Stops : Music!Goes(t, p)) /\ UNCHANGED << mm_is_playing, raced >>
      BY <1>3, <2>2 DEF Music!StopWaits, Music!StopCloses, Music!sound, Music!history
    <3>. QED
      BY <1>3, <1>5, <3>1
  <2>3. CASE Music!Stopped(t)
    <3>1. Music!Goes(t, "idle") /\ max_mp3' = 0 /\ mm_is_playing' = FALSE /\ raced' = raced
      BY <2>1, <2>3 DEF Music!Stopped, Music!history
    <3>. QED
      BY <1>3, <1>5, <3>1
  <2>. QED
    BY <1>14, <2>2, <2>3 DEF Music!Stop
\* The callback.
<1>15. CASE Music!NextSong
  <2>1. /\ raced' = (raced \/ Music!Changing("main")) /\ mm_is_playing' = mm_is_playing
        /\ \/ max_mp3' = 0 /\ Music!Goes("ms", "bgm")
           \/ Music!Goes("ms", "close") /\ arg'["ms"] = playlist'[current_mp3']
    BY <1>1, <1>15 DEF Music!NextSong, Music!RacesWith
  <2>. QED
    BY <1>1, <1>3, <1>4, <1>5, <2>1
<1>16. CASE Music!YieldsToBgm /\ ~mm_audio
  BY <1>1, <1>3, <1>5, <1>16 DEF Music!YieldsToBgm, Music!sound, Music!history
<1>17. CASE \/ Music!Callback \/ Music!ReadsData \/ Music!EndsFile("eof", "ended") \/ Music!EndsFile("failed", "next")
            \/ Music!ForgetsFile("ended", "idle") \/ Music!ForgetsFile("next", "try")
            \/ Music!YieldsToBgm /\ mm_audio
  <2>1. \E q \in Quick : Music!Goes("ms", q)
    BY <1>17 DEF Music!Callback, Music!ReadsData, Music!EndsFile, Music!ForgetsFile, Music!YieldsToBgm, Quick
  <2>2. tpc["ms"] \in Quick
    BY <1>17 DEF Music!Callback, Music!ReadsData, Music!EndsFile, Music!ForgetsFile, Music!YieldsToBgm, Quick, Music!Busy
  <2>3. UNCHANGED << playlist, current_mp3, max_mp3, arg, force_mp3, force_mp3_file, mm_is_playing, stream, raced >>
    BY <1>17 DEF Music!Callback, Music!ReadsData, Music!EndsFile, Music!ForgetsFile, Music!YieldsToBgm, Music!list,
       Music!force, Music!sound, Music!lib, Music!history
  <2>4. tpc'["ms"] \in Quick /\ tpc'["main"] = tpc["main"] /\ tpc'["misc"] = tpc["misc"]
    BY <1>1, <1>3, <2>1, Moves
  <2>. QED
    BY <1>8, <2>2, <2>3, <2>4
\* The thread of small jobs.
<1>18. ASSUME NEW p \in Place, Music!Goes("misc", p)
       PROVE  tpc'["misc"] = p
  BY <1>1, <1>18, Moves
<1>19. ASSUME UNCHANGED << playlist, current_mp3, force_mp3, force_mp3_file >>, Loading => Loading'
       PROVE  Requested => Requested'
  BY <1>19 DEF Requested, Wanted
<1>20. CASE Music!TakesRequest
  <2>1. /\ Music!Goes("misc", "size") /\ force_mp3 /\ force_mp3' = FALSE
        /\ UNCHANGED << playlist, current_mp3, max_mp3, force_mp3_file, raced, arg, mm_is_playing >>
    BY <1>20 DEF Music!TakesRequest, Music!list, Music!sound
  <2>2. Requested => Requested'
    BY <1>3, <1>18, <2>1 DEF Requested, Loading, Wanted
  <2>. QED
    BY <1>3, <1>7, <2>1, <2>2
<1>21. CASE Music!BigEnough
  <2>1. /\ Music!Goes("misc", "stop") /\ tpc["misc"] = "size" /\ force_mp3' = force_mp3
        /\ UNCHANGED << playlist, current_mp3, max_mp3, force_mp3_file, raced, mm_is_playing >>
        /\ arg'["misc"] = force_mp3_file /\ \A t \in Asker : arg'[t] = arg[t]
    BY <1>1, <1>21 DEF Music!BigEnough, Music!list, Music!force, Music!sound, Music!history
  <2>2. Requested => Requested'
    BY <1>3, <1>18, <2>1 DEF Requested, Loading, Wanted
  <2>. QED
    BY <1>3, <1>7, <2>1, <2>2
<1>22. CASE Music!Stop("misc") \/ Music!LoadCloses
  <2>1. /\ UNCHANGED << playlist, current_mp3, max_mp3, force_mp3, force_mp3_file, raced, arg >>
        /\ \/ tpc["misc"] \in Stops /\ mm_is_playing' = mm_is_playing /\ \E p \in Stops : Music!Goes("misc", p)
           \/ tpc["misc"] \in Stops /\ mm_is_playing' = FALSE /\ Music!Goes("misc", "load")
           \/ tpc["misc"] \in Loads /\ mm_is_playing' = mm_is_playing /\ Music!Goes("misc", "open")
    BY <1>3, <1>22 DEF Music!Stop, Music!StopWaits, Music!StopCloses, Music!Stopped, Music!LoadCloses, Music!list,
       Music!force, Music!sound, Music!history
  <2>2. PICK p \in Stops \cup Loads : Music!Goes("misc", p) /\ (p \in Loads => ~mm_is_playing')
    BY <1>1, <1>3, <2>1
  <2>3. Requested => Requested'
    <3>1. tpc["misc"] \in Stops \cup Loads /\ tpc'["misc"] \in Stops \cup Loads
      BY <1>3, <1>18, <2>1, <2>2
    <3>2. Loading => Loading'
      BY <2>1, <3>1 DEF Loading, Wanted, Stops, Loads
    <3>. QED
      BY <1>19, <2>1, <3>2
  <2>. QED
    BY <1>3, <1>7, <2>1, <2>2, <2>3
<1>23. CASE Music!LoadOpens \/ Music!LoadReads
  <2>1. /\ UNCHANGED << playlist, current_mp3, max_mp3, force_mp3, force_mp3_file, raced, arg, mm_is_playing >>
        /\ tpc["misc"] \in Loads
        /\ \E p \in {"idle", "read", "trigger"} : Music!Goes("misc", p)
    BY <1>3, <1>23 DEF Music!LoadOpens, Music!LoadReads, Music!list, Music!force, Music!sound
  <2>2. PICK p \in {"idle", "read", "trigger"} : Music!Goes("misc", p)
    BY <2>1
  <2>3. ~mm_is_playing
    BY <1>1, <2>1
  <2>4. Requested => Requested'
    <3>1. tpc'["misc"] = "idle" \/ tpc'["misc"] \in Loads
      BY <1>3, <1>18, <2>2
    <3>2. Loading => arg["misc"] = Wanted
      BY <2>1 DEF Loading, Stops, Loads
    <3>3. Wanted' = Wanted /\ ~mm_is_playing' /\ arg'["misc"] = arg["misc"]
      BY <2>1, <2>3 DEF Wanted
    <3>4. Loading => Loading'
      BY <3>1, <3>2, <3>3 DEF Loading
    <3>. QED
      BY <1>19, <2>1, <3>4
  <2>. QED
    BY <1>3, <1>7, <2>1, <2>2, <2>3, <2>4
<1>24. CASE Music!Trigger
  <2>1. /\ UNCHANGED << playlist, current_mp3, max_mp3, force_mp3, force_mp3_file, raced, arg, mm_is_playing >>
        /\ tpc["misc"] = "trigger" /\ Music!Goes("misc", "playing") /\ stream' = arg["misc"]
    BY <1>24 DEF Music!Trigger, Music!list, Music!force, Music!sound, Music!history
  <2>2. Requested => Requested'
    <3>1. tpc'["misc"] = "playing"
      BY <1>3, <1>18, <2>1
    <3>2. Loading => Loading'
      BY <2>1, <3>1 DEF Loading, Wanted, Stops, Loads
    <3>. QED
      BY <1>19, <2>1, <3>2
  <2>. QED
    BY <1>1, <1>3, <1>7, <2>1, <2>2
<1>25. CASE Music!Plays
  <2>1. /\ UNCHANGED << playlist, current_mp3, max_mp3, force_mp3, force_mp3_file, raced, arg, stream >>
        /\ tpc["misc"] = "playing" /\ Music!Goes("misc", "idle")
    BY <1>25 DEF Music!Plays, Music!list, Music!force, Music!lib
  <2>2. Requested => Requested'
    <3>1. tpc'["misc"] = "idle"
      BY <1>3, <1>18, <2>1
    <3>2. Loading => stream = Wanted
      BY <2>1 DEF Loading, Stops, Loads
    <3>3. Wanted' = Wanted /\ stream' = stream
      BY <2>1 DEF Wanted
    <3>4. Loading => Loading'
      BY <3>1, <3>2, <3>3 DEF Loading
    <3>. QED
      BY <1>19, <2>1, <3>4
  <2>. QED
    BY <1>1, <1>3, <1>7, <2>1, <2>2
<1>26. CASE Music!LeavesOut
  <2>1. /\ Music!Goes("misc", "idle") /\ tpc'["misc"] = "idle" /\ \A t \in Asker : tpc'[t] = tpc[t]
        /\ mm_is_playing' = mm_is_playing /\ max_mp3' = max_mp3
        /\ raced' = (raced \/ force_mp3 \/ Music!Changing("main") \/ Music!Changing("ms"))
        /\ max_mp3 # 0 => force_mp3' /\ force_mp3_file' = playlist[current_mp3'] /\ playlist' = playlist
    <3>1. Music!Goes("misc", "idle")
      BY <1>26 DEF Music!LeavesOut
    <3>2. tpc'["misc"] = "idle" /\ \A t \in Asker : tpc'[t] = tpc[t]
      BY <1>1, <1>3, <3>1, Moves
    <3>. QED
      BY <1>26, <3>1, <3>2 DEF Music!LeavesOut, Music!sound
  <2>2. ThreadInv'
    BY <1>1, <1>3, <2>1 DEF ThreadInv, IsAsking
  <2>3. ASSUME ~raced', max_mp3' # 0
        PROVE  OnItsWay'
    <3>1. \A t \in Asker : tpc'[t] \notin Asks \cup {"force"}
      BY <1>1, <1>2, <2>1, <2>3
    <3>2. Requested'
      BY <2>1, <2>3 DEF Requested, Loading, Wanted
    <3>. QED
      BY <3>1, <3>2 DEF OnItsWay, IsAsking
  <2>. QED
    BY <2>2, <2>3 DEF SongInv
<1>. QED
  BY <1>1, <1>6, <1>9, <1>10, <1>11, <1>12, <1>13, <1>14, <1>15, <1>16, <1>17, <1>20, <1>21, <1>22, <1>23, <1>24,
     <1>25, <1>26 DEF Music!Next, Music!User, Music!MainLoop, Music!Misc, Music!Stream

LEMMA MusicInit == Music!Init => MusicInv
<1>. SUFFICES ASSUME Music!Init
              PROVE  MusicInv
  OBVIOUS
<1>1. /\ playlist = [i \in 0 .. MAX_MP3 |-> Music!NoSong] /\ current_mp3 = 0 /\ max_mp3 = 0
      /\ force_mp3 = FALSE /\ force_mp3_file = Music!NoSong /\ force_mp3_fd = Music!NoFd
      /\ opened = [h \in 1 .. Handles |-> Music!Closed] /\ requests = 0
      /\ mm_is_playing = FALSE /\ update_ms = TRUE /\ audio_sub_proc = FALSE /\ mm_audio = TRUE
      /\ tpc = [t \in Music!Thread |-> "idle"] /\ arg = [t \in Music!Thread |-> Music!NoSong]
      /\ request = FALSE /\ raced = FALSE
  BY DEF Music!Init
<1>2. /\ Music!NoSong \in Songs /\ MAX_MP3 \in Nat /\ Handles \in Nat /\ Blocks \in Nat /\ MaxRequests \in Nat
      /\ Music!Thread = {"main", "misc", "ms"}
  BY MusicConstants
<1>3. /\ force_mp3 \in BOOLEAN /\ mm_is_playing \in BOOLEAN /\ update_ms \in BOOLEAN
      /\ audio_sub_proc \in BOOLEAN /\ mm_audio \in BOOLEAN /\ request \in BOOLEAN /\ raced \in BOOLEAN
  BY <1>1
<1>4. Music!Closed \in [song : Songs, left : 0 .. Blocks] /\ Music!Closed.left = 0
  BY <1>2 DEF Music!Closed
<1>5. Music!TypeOK
  <2>1. { force_mp3, mm_is_playing, update_ms, audio_sub_proc, mm_audio, request, raced } \subseteq BOOLEAN
    BY <1>3
  <2>2. playlist \in [0 .. MAX_MP3 -> Songs] /\ current_mp3 \in 0 .. MAX_MP3 /\ max_mp3 \in 0 .. MAX_MP3
        /\ requests \in 0 .. MaxRequests
    BY <1>1, <1>2
  <2>3. force_mp3_fd \in 1 .. Handles \cup {Music!NoFd} /\ \A h \in DOMAIN opened : opened[h].left \in 0 .. Blocks
    BY <1>1, <1>2, <1>4
  <2>. QED
    BY <2>1, <2>2, <2>3 DEF Music!TypeOK, Songs
<1>6. MusicTypes
  <2>1. tpc \in [Music!Thread -> Place] /\ arg \in [Music!Thread -> Songs] /\ force_mp3_file \in Songs
    BY <1>1, <1>2 DEF Place
  <2>2. opened \in [1 .. Handles -> [song : Songs, left : 0 .. Blocks]]
    BY <1>1, <1>4
  <2>. QED
    BY <1>5, <2>1, <2>2 DEF MusicTypes
<1>7. ThreadInv
  BY <1>1, <1>2 DEF ThreadInv, IsAsking, Asks, Loads, Asker
<1>8. SongInv
  BY <1>1 DEF SongInv
<1>. QED
  BY <1>6, <1>7, <1>8 DEF MusicInv

LEMMA MusicStep == MusicInv /\ [Music!Next]_(Music!musicVars) => MusicInv'
BY MusicTypeStep, SongStep DEF MusicInv

\* When nothing moves any more, the song is in the stream.
LEMMA MusicRight == MusicInv => Music!TypeOK /\ Music!PlaysCurrent
<1>. SUFFICES ASSUME MusicInv, Music!Quiet, ~raced, mm_is_playing, max_mp3 # 0
              PROVE  stream = playlist[current_mp3]
  BY DEF MusicInv, MusicTypes, Music!PlaysCurrent
<1>1. ~force_mp3 /\ tpc["main"] = "idle" /\ tpc["misc"] = "idle" /\ tpc["ms"] = "idle"
  BY MusicConstants DEF Music!Quiet, Music!Busy
<1>2. OnItsWay
  BY DEF MusicInv, SongInv
<1>3. \A t \in Asker : tpc[t] = "idle"
  BY <1>1 DEF Asker
<1>4. Requested
  BY <1>2, <1>3 DEF OnItsWay, Stops, Asks
<1>. QED
  BY <1>1, <1>4 DEF Requested, Loading, Wanted, Stops, Loads

\* A step of either part is one of the music player, or leaves it alone.
LEMMA MusicSteps == [MCNext]_mcvars => [Music!Next]_(Music!musicVars)
BY DEF MCNext, InFilm, InMusic, mcvars, music, Music!musicVars, Music!list, Music!force, Music!files, Music!sound,
   Music!lib, Music!history

\* The song that plays is the one the list stands at: with any column of songs, lists of any length
\* and any number of requests, unless two threads changed the list at once (main_mp3, mp3_callback).
THEOREM PlaysAlwaysCurrent == MCSpec => []PlaysCurrent
<1>1. MCInit => MusicInv
  BY MusicInit DEF MCInit
<1>2. MusicInv /\ [MCNext]_mcvars => MusicInv'
  BY MusicSteps, MusicStep
<1>3. MusicInv => PlaysCurrent
  BY MusicRight DEF PlaysCurrent
<1>. QED
  BY <1>1, <1>2, <1>3, PTL DEF MCSpec

=============================================================================
