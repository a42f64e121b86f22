------------------------------ MODULE AudioOut ------------------------------
(***************************************************************************)
(* The audio output of the video player (source/video/apost.c, amixer.c,   *)
(* avsync.c, util.c): the thread of apost fetches decoded blocks into      *)
(* buffers of a pool and queues them; the callback of the mixer library    *)
(* plays the blocks sample by sample, gives their buffers back and drives  *)
(* the clock of the player; and the thread of the player stops both.  The  *)
(* decoder, the video output and the calls of the mixer are external.      *)
(***************************************************************************)
EXTENDS Integers, Sequences, FiniteSets, Functions

CONSTANTS
  MaxItems,     \* bound: blocks of a film
  NoSamples,        \* the blocks without samples
  auSample,     \* samples in each other block
  samples,      \* samples the mixer asks for at a time
  pcmNum        \* buffers of the pool, and slots of the queue

ASSUME AudioOutAssumption ==
  /\ MaxItems \in Nat /\ NoSamples \subseteq 1 .. MaxItems
  /\ auSample \in Nat \ {0} /\ samples \in Nat \ {0} /\ pcmNum \in Nat \ {0}

VARIABLES
  mode_exec, videoReady, audioReady, audioEnd,    \* the common module
  items, ready, fetched, seqDone,      \* the decoder: blocks of the film, decoded, fetched
  pc, recv, stat, errorCode, pPcm,     \* apost: where it is, its status, the buffer in hand
  pool, mem,                           \* the free buffers, and what is in each
  slot, readIndex, writeIndex, validNum,    \* the queue of [pPcm, item, index]
  cb, cbReqStop, reqSample, done,      \* the callback: its copies, samples left, slot popped
  bSequence, bReqStop, ender,          \* amixer, and the thread that ends the sequence
  apts,                                \* the clock
  played                               \* history: the samples played

common  == << mode_exec, videoReady, audioReady, audioEnd >>
decoder == << items, ready, fetched, seqDone >>
apost   == << pc, recv, stat, errorCode, pPcm >>
buffers == << pool, mem >>
queue   == << slot, readIndex, writeIndex, validNum >>
mixer   == << cb, cbReqStop, reqSample, done, bSequence >>
output  == << apts, played >>
vars    == << common, decoder, apost, buffers, queue, mixer, bReqStop, ender, output >>

None == 0
NoSlot == [pPcm |-> None, item |-> None, index |-> 0]
BothReady == videoReady /\ audioReady

\* utilMemPoolInit, utilQueueInit: as many buffers as slots.
FreeBuffers_OneMore == [i \in 1 .. pcmNum + 1 |-> i]
FreeBuffers == [i \in 1 .. pcmNum |-> i]

Init ==
  /\ mode_exec = TRUE /\ videoReady = FALSE /\ audioReady = FALSE /\ audioEnd = FALSE
  /\ items \in 0 .. MaxItems /\ ready = 0 /\ fetched = 0 /\ seqDone = FALSE
  /\ pc = "wait" /\ recv = [bPcmOut |-> FALSE, bSequence |-> TRUE] /\ stat = recv
  /\ errorCode = "invalid" /\ pPcm = None
  /\ pool = FreeBuffers /\ mem = [b \in Range(FreeBuffers) |-> None]
  /\ slot = [i \in 0 .. pcmNum - 1 |-> NoSlot]
  /\ readIndex = 0 /\ writeIndex = 0 /\ validNum = 0
  /\ cb = "idle" /\ cbReqStop = FALSE /\ reqSample = 0 /\ done = None
  /\ bSequence = TRUE /\ bReqStop = FALSE /\ ender = "joins"
  /\ apts = 0 /\ played = << >>

-----------------------------------------------------------------------------
(***************************************************************************)
(* The decoder calls back under the monitor of apost, which is not held    *)
(* while apost goes to sleep.                                              *)
(***************************************************************************)
Woken == IF pc = "asleep" THEN "wait" ELSE pc

\* adecCb with PCMOUT: apostPcmOutCb.
Decoded ==
  /\ ready < items /\ pc # "going" /\ ready' = ready + 1
  /\ recv' = [recv EXCEPT !.bPcmOut = TRUE] /\ pc' = Woken
  /\ UNCHANGED << common, items, fetched, seqDone, stat, errorCode, pPcm, buffers, queue, mixer,
                  bReqStop, ender, output >>

\* adecCb with SEQDONE: apostSeqEndCb.
SeqEndCb_NothingToFetch ==
  /\ ready = items /\ ~seqDone /\ pc # "going" /\ seqDone' = TRUE
  /\ recv' = [recv EXCEPT !.bSequence = FALSE] /\ pc' = Woken
  /\ UNCHANGED << common, items, ready, fetched, stat, errorCode, pPcm, buffers, queue, mixer,
                  bReqStop, ender, output >>

SeqEndCb ==
  /\ ready = items /\ ~seqDone /\ pc # "going" /\ seqDone' = TRUE
  /\ recv' = [bPcmOut |-> TRUE, bSequence |-> FALSE] /\ pc' = Woken
  /\ UNCHANGED << common, items, ready, fetched, stat, errorCode, pPcm, buffers, queue, mixer,
                  bReqStop, ender, output >>

\* The display starts: vdisp sets its status.
VideoReady ==
  /\ ~videoReady /\ videoReady' = TRUE
  /\ UNCHANGED << mode_exec, audioReady, audioEnd, decoder, apost, buffers, queue, mixer,
                  bReqStop, ender, output >>

\* commonErrorExit: apost is woken only when it sleeps already.
ErrorExit ==
  /\ mode_exec /\ mode_exec' = FALSE /\ pc' = Woken
  /\ UNCHANGED << videoReady, audioReady, audioEnd, decoder, recv, stat, errorCode, pPcm, buffers,
                  queue, mixer, bReqStop, ender, output >>

-----------------------------------------------------------------------------
(***************************************************************************)
(* The thread of apost.                                                    *)
(***************************************************************************)
\* apostWaitEvent.
Wait ==
  LET out == recv.bPcmOut \/ stat.bPcmOut IN
  /\ pc = "wait"
  /\ IF mode_exec /\ errorCode = "invalid" /\ ~out
     THEN pc' = "going" /\ UNCHANGED << recv, stat >>
     ELSE /\ stat' = [recv EXCEPT !.bPcmOut = out]
          /\ recv' = [recv EXCEPT !.bPcmOut = FALSE]
          /\ pc' = IF errorCode # "invalid" \/ ~mode_exec THEN "over" ELSE "fetch"
  /\ UNCHANGED << common, decoder, errorCode, pPcm, buffers, queue, mixer, bReqStop, ender,
                  output >>

Sleep ==
  /\ pc = "going" /\ pc' = "asleep"
  /\ UNCHANGED << common, decoder, recv, stat, errorCode, pPcm, buffers, queue, mixer, bReqStop,
                  ender, output >>

\* cellAdecGetPcmItem: a block without samples is dropped.
Fetch ==
  /\ pc = "fetch" /\ stat.bPcmOut /\ fetched < ready
  /\ IF fetched + 1 \in NoSamples THEN fetched' = fetched + 1 /\ pc' = "wait"
     ELSE pc' = "pop" /\ UNCHANGED fetched
  /\ UNCHANGED << common, items, ready, seqDone, recv, stat, errorCode, pPcm, buffers, queue,
                  mixer, bReqStop, ender, output >>

\* Nothing is there; when the sequence is done, this is the end.
FetchNothing_EndsAtOnce ==
  /\ pc = "fetch" /\ fetched = ready
  /\ stat' = [stat EXCEPT !.bPcmOut = FALSE]
  /\ errorCode' = "ok" /\ pc' = "over"
  /\ UNCHANGED << common, decoder, recv, pPcm, buffers, queue, mixer, bReqStop, ender, output >>

FetchNothing ==
  /\ pc = "fetch" /\ fetched = ready
  /\ stat' = [stat EXCEPT !.bPcmOut = FALSE]
  /\ IF ~stat.bSequence THEN errorCode' = "ok" /\ pc' = "over"
     ELSE pc' = "wait" /\ UNCHANGED errorCode
  /\ UNCHANGED << common, decoder, recv, pPcm, buffers, queue, mixer, bReqStop, ender, output >>

\* utilMemPoolPop: it waits for a buffer, whatever happens to the player.
PoolPop ==
  /\ pc = "pop" /\ pool # << >> /\ pc' = "get"
  /\ pPcm' = pool[Len(pool)] /\ pool' = SubSeq(pool, 1, Len(pool) - 1)
  /\ UNCHANGED << common, decoder, recv, stat, errorCode, mem, queue, mixer, bReqStop, ender,
                  output >>

\* cellAdecGetPcm, and the decoder is told that it can go on.
GetPcm ==
  /\ pc = "get" /\ pc' = "push"
  /\ fetched' = fetched + 1 /\ mem' = [mem EXCEPT ![pPcm] = fetched + 1]
  /\ UNCHANGED << common, items, ready, seqDone, recv, stat, errorCode, pPcm, pool, queue, mixer,
                  bReqStop, ender, output >>

GetFails ==
  /\ pc = "get" /\ pc' = "over" /\ errorCode' = "error"
  /\ pool' = Append(pool, pPcm) /\ pPcm' = None
  /\ UNCHANGED << common, decoder, recv, stat, mem, queue, mixer, bReqStop, ender, output >>

\* utilQueuePush.
QueuePush_NoWrap ==
  /\ pc = "push" /\ validNum < pcmNum
  /\ slot' = [slot EXCEPT ![writeIndex] = [pPcm |-> pPcm, item |-> fetched, index |-> 0]]
  /\ writeIndex' = writeIndex + 1 /\ validNum' = validNum + 1
  /\ pc' = "wait" /\ pPcm' = None
  /\ UNCHANGED << common, decoder, recv, stat, errorCode, buffers, readIndex, mixer, bReqStop,
                  ender, output >>

QueuePush ==
  /\ pc = "push" /\ validNum < pcmNum
  /\ slot' = [slot EXCEPT ![writeIndex] = [pPcm |-> pPcm, item |-> fetched, index |-> 0]]
  /\ writeIndex' = (writeIndex + 1) % pcmNum /\ validNum' = validNum + 1
  /\ pc' = "wait" /\ pPcm' = None
  /\ UNCHANGED << common, decoder, recv, stat, errorCode, buffers, readIndex, mixer, bReqStop,
                  ender, output >>

\* With an error it tells the others when it ends.
Exit ==
  /\ pc = "over" /\ pc' = "gone"
  /\ IF errorCode = "error" THEN mode_exec' = FALSE /\ UNCHANGED errorCode
     ELSE errorCode' = "ok" /\ UNCHANGED mode_exec
  /\ UNCHANGED << videoReady, audioReady, audioEnd, decoder, recv, stat, pPcm, buffers, queue,
                  mixer, bReqStop, ender, output >>

-----------------------------------------------------------------------------
(***************************************************************************)
(* The callback of the mixer: amixerCb.                                    *)
(***************************************************************************)
\* amixerIncrementAudioPts.  Bound: once, after the end.
Increment == apts' = apts + samples

CbStart ==
  /\ cb = "idle" /\ bSequence /\ cb' = "peek" /\ cbReqStop' = bReqStop
  /\ UNCHANGED << common, decoder, apost, buffers, queue, reqSample, done, bSequence, bReqStop,
                  ender, output >>

\* Nothing is played until both outputs are ready; the audio is when the queue was full once.
CbPeek ==
  /\ cb = "peek"
  /\ audioReady' = (audioReady \/ validNum >= pcmNum)
  /\ IF ~(videoReady /\ audioReady')
     THEN cb' = "idle" /\ UNCHANGED << audioEnd, reqSample, bSequence, bReqStop, apts >>
     ELSE IF validNum # 0
     THEN /\ cb' = "copy" /\ reqSample' = samples
          /\ apts' = (slot[readIndex].item - 1) * auSample
          /\ UNCHANGED << audioEnd, bSequence, bReqStop >>
     ELSE IF cbReqStop
     THEN /\ cb' = "idle" /\ bSequence' = FALSE /\ bReqStop' = FALSE /\ audioEnd' = TRUE
          /\ Increment /\ UNCHANGED reqSample
     ELSE cb' = "idle" /\ UNCHANGED << audioEnd, reqSample, bSequence, bReqStop, apts >>
  /\ UNCHANGED << mode_exec, videoReady, decoder, apost, buffers, queue, cbReqStop, done, ender,
                  played >>

\* One turn of the copying loop: as many samples as the block has and the mixer wants.
CbCopy ==
  LET s   == slot[readIndex]
      add == IF auSample - s.index > reqSample THEN reqSample ELSE auSample - s.index
  IN
  /\ cb = "copy"
  /\ played' = played \o [i \in 1 .. add |-> << mem[s.pPcm], s.index + i >>]
  /\ slot' = [slot EXCEPT ![readIndex].index = @ + add]
  /\ reqSample' = reqSample - add
  /\ cb' = IF s.index + add >= auSample THEN "popping" ELSE "idle"
  /\ UNCHANGED << common, decoder, apost, buffers, readIndex, writeIndex, validNum, cbReqStop,
                  done, bSequence, bReqStop, ender, apts >>

\* The slot is popped first, and its buffer read from it afterwards.
CbPop ==
  /\ cb = "popping" /\ cb' = "give" /\ done' = readIndex
  /\ readIndex' = (readIndex + 1) % pcmNum /\ validNum' = validNum - 1
  /\ UNCHANGED << common, decoder, apost, buffers, slot, writeIndex, cbReqStop, reqSample,
                  bSequence, bReqStop, ender, output >>

CbGive ==
  /\ cb = "give" /\ done' = None
  /\ pool' = IF Len(pool) < pcmNum THEN Append(pool, slot[done].pPcm) ELSE pool
  /\ cb' = IF reqSample > 0 /\ validNum > 0 THEN "copy" ELSE "idle"
  /\ UNCHANGED << common, decoder, apost, mem, queue, cbReqStop, reqSample, bSequence, bReqStop,
                  ender, output >>

-----------------------------------------------------------------------------
\* The thread of the player joins apost and then stops the mixer: apostEnd, amixerEnd.
EndsApost ==
  /\ ender = "joins" /\ pc = "gone" /\ ender' = "stops" /\ bReqStop' = TRUE
  /\ UNCHANGED << common, decoder, apost, buffers, queue, mixer, output >>

EndsAmixer ==
  /\ ender = "stops" /\ ~bReqStop /\ ender' = "done"
  /\ UNCHANGED << common, decoder, apost, buffers, queue, mixer, bReqStop, output >>

Apost == \/ Wait \/ Sleep \/ Fetch \/ FetchNothing \/ PoolPop \/ GetPcm \/ GetFails \/ QueuePush
         \/ Exit
AmixerCb == CbStart \/ CbPeek \/ CbCopy \/ CbPop \/ CbGive
Ender == EndsApost \/ EndsAmixer

Next == \/ Decoded \/ SeqEndCb \/ VideoReady \/ ErrorExit \/ Apost \/ AmixerCb \/ Ender

Spec == Init /\ [][Next]_vars

\* The threads run, the mixer calls back again and again, and the decoder, while it works,
\* comes to the end of the film.  The display need not start.
FairSpec == /\ Spec /\ WF_vars(Apost) /\ WF_vars(AmixerCb) /\ WF_vars(Ender)
            /\ SF_vars(Decoded) /\ SF_vars(SeqEndCb)

-----------------------------------------------------------------------------
TypeOK ==
  /\ { mode_exec, videoReady, audioReady, audioEnd, seqDone, bSequence, bReqStop, cbReqStop }
       \subseteq BOOLEAN
  /\ 0 <= fetched /\ fetched <= ready /\ ready <= items /\ items <= MaxItems
  /\ pc \in {"wait", "going", "asleep", "fetch", "pop", "get", "push", "over", "gone"}
  /\ errorCode \in {"invalid", "ok", "error"}
  /\ recv \in [bPcmOut : BOOLEAN, bSequence : BOOLEAN] /\ stat \in [DOMAIN recv -> BOOLEAN]
  /\ cb \in {"idle", "peek", "copy", "popping", "give"} /\ reqSample \in 0 .. samples
  /\ ender \in {"joins", "stops", "done"} /\ apts \in Nat
  /\ Range(pool) \subseteq DOMAIN mem /\ pPcm \in DOMAIN mem \cup {None}
  /\ validNum \in 0 .. pcmNum
  /\ \A i \in DOMAIN slot : slot[i].index \in 0 .. auSample /\ slot[i].item \in 0 .. items
  /\ writeIndex = (readIndex + validNum) % pcmNum

\* Every buffer is in one place: free, in the hand of apost, queued, or being given back.  A
\* slot that is popped is not used again before its buffer is out of it.
Queued == { slot[(readIndex + k) % pcmNum].pPcm : k \in 0 .. validNum - 1 }
BuffersConserved ==
  LET hand   == { pPcm } \ {None}
      giving == IF cb = "give" THEN { slot[done].pPcm } ELSE {}
  IN /\ Range(pool) \cup hand \cup Queued \cup giving = DOMAIN mem
     /\ Len(pool) + Cardinality(hand) + validNum + Cardinality(giving) = Cardinality(DOMAIN mem)

\* The samples of the film are played in their order, none twice and none left out.
Film == LET full == { i \in 1 .. items : i \notin NoSamples }
            Nth(n) == CHOOSE i \in full : Cardinality({ j \in full : j < i }) = n
        IN [k \in 1 .. Cardinality(full) * auSample |->
             << Nth((k - 1) \div auSample), ((k - 1) % auSample) + 1 >>]
PlayedInOrder ==
  Len(played) <= Len(Film) /\ \A k \in DOMAIN played : played[k] = Film[k]

\* When the outputs have started and nobody told them to end, all is played in the end.
AllPlayed == ender = "done" /\ mode_exec => Len(played) = Len(Film)

\* The clock never goes back.
ClockForward == [][apts' >= apts]_apts

\* When both outputs start, the audio ends, unless apost fell asleep after it was told to end.
LostWakeup == ~mode_exec /\ pc = "asleep"
AudioEnds == <>BothReady => <>(ender = "done" \/ LostWakeup)
=============================================================================
