------------------------------- MODULE Demux -------------------------------
(***************************************************************************)
(* The demultiplexer and the decoders of the video player                  *)
(* (source/video/avidmux.c, vdec.c, adec.c).  The thread of the            *)
(* demultiplexer reads the chunks of the file in the order they lie there, *)
(* cuts access units (AUs) out of them and hands them to a decoder thread  *)
(* through three queues of buffers; a decoder thread feeds the decoder     *)
(* library, which answers by callbacks.  What the library, the output and  *)
(* the user do is external.                                                *)
(*                                                                         *)
(* A stream is a sequence of bytes; a position in it names its byte, so    *)
(* that an AU that was cut wrong or a buffer that was reused is visible.   *)
(***************************************************************************)
EXTENDS Integers, Sequences, FiniteSets

CONSTANTS
  Stream,       \* the streams that are enabled, by index
  Audio,        \* the one that is decoded by adec
  Framed,       \* streams of MPEG audio or AC3, cut at the headers of the frames
  Data,         \* Data[s]: the bytes of stream s
  Index,        \* Index[s]: its chunks, [offset, first, size]
  AuNum,        \* AuNum[s]: its AU buffers
  LibSize       \* AUs and decoded items the library holds before it is busy

\* Bytes: the two of a sync word, any other; one above 4 after a sync word is the length
\* of the frame.
Sync1 == 1
Sync2 == 2

None == 0       \* the demultiplexer, among the threads; no buffer

ASSUME DemuxAssumption ==
  /\ Stream \subseteq Nat \ {None} /\ IsFiniteSet(Stream) /\ Audio \in Stream
  /\ Framed \subseteq Stream /\ LibSize \in Nat \ {0}
  /\ \A s \in Stream : AuNum[s] \in Nat \ {0} /\ Data[s] \in Seq(Nat)
  /\ \A s \in Stream :
       /\ Index[s] \in Seq([offset : Nat, first : Nat \ {0}, size : Nat])
       /\ \A i \in DOMAIN Index[s] :
            Index[s][i].first + Index[s][i].size <= Len(Data[s]) + 1

VARIABLES
  mode_exec, is_bg_video,
  dpc, dRecv, dStat,     \* the demultiplexer: where it is, bReleaseDone received and its copy
  errorCode,             \* of the demultiplexer (0) and the decoders: "invalid", "ok", "error"
  target, positionIndex, parseLastError,
  parseBuffer, parseSyncSearch,      \* the bytes not used yet, as positions
  auWriteQueue, auReadQueue, auReleaseQueue, auAddr,   \* buffers, and what is in each
  pc, recv, stat, pAuInfo,    \* the decoder threads: received status, its copy, AU in hand
  lib, ended, pcm,       \* the library: AUs, end of sequence asked, decoded items
  given                  \* history: the AUs given to the library

parser  == << positionIndex, parseLastError, parseBuffer, parseSyncSearch >>
demux   == << dpc, dRecv, dStat, target, parser >>
queues  == << auWriteQueue, auReadQueue, auReleaseQueue, auAddr >>
decoder == << pc, recv, stat, pAuInfo >>
library == << lib, ended, pcm, given >>
control == << mode_exec, is_bg_video >>
vars    == << control, errorCode, demux, queues, decoder, library >>

Buffers(s) == 1 .. AuNum[s]

Init ==
  /\ mode_exec = TRUE /\ is_bg_video = TRUE
  /\ errorCode = [t \in Stream \cup {None} |-> "invalid"]
  /\ dpc = "wait" /\ dRecv = TRUE /\ dStat = TRUE /\ target = None
  /\ positionIndex = [s \in Stream |-> 1] /\ parseLastError = [s \in Stream |-> "ok"]
  /\ parseBuffer = [s \in Stream |-> << >>] /\ parseSyncSearch = [s \in Stream |-> TRUE]
  /\ auWriteQueue = [s \in Stream |-> [b \in Buffers(s) |-> b]]
  /\ auReadQueue = [s \in Stream |-> << >>] /\ auReleaseQueue = [s \in Stream |-> << >>]
  /\ auAddr = [s \in Stream |-> [b \in Buffers(s) |-> << >>]]
  /\ pc = [s \in Stream |-> "wait"] /\ pAuInfo = [s \in Stream |-> None]
  /\ recv = [s \in Stream |->
       [bAuFound |-> FALSE, bStreamEnd |-> FALSE, bReady |-> TRUE, auDoneNum |-> 0]]
  /\ stat = recv
  /\ lib = [s \in Stream |-> << >>] /\ ended = [s \in Stream |-> FALSE] /\ pcm = 0
  /\ given = [s \in Stream |-> << >>]

-----------------------------------------------------------------------------
(***************************************************************************)
(* commonErrorExit: every thread is told to end.  The monitors are         *)
(* signalled without their mutex: a thread that has decided to sleep, and  *)
(* does not sleep yet, does not notice.                                    *)
(***************************************************************************)
Woken(threadPc) == IF threadPc = "asleep" THEN "wait" ELSE threadPc

\* dpcNow and pcNow are where the threads would go otherwise.
ErrorExit(dpcNow, pcNow) ==
  IF mode_exec
  THEN /\ mode_exec' = FALSE
       /\ dpc' = Woken(dpcNow) /\ pc' = [s \in Stream |-> Woken(pcNow[s])]
  ELSE /\ mode_exec' = mode_exec /\ dpc' = dpcNow /\ pc' = pcNow

Ends(t) == errorCode' = [errorCode EXCEPT ![t] = IF @ = "error" THEN @ ELSE "ok"]

-----------------------------------------------------------------------------
(***************************************************************************)
(* The demultiplexer.                                                      *)
(***************************************************************************)
\* aviDmuxWaitEvent: it goes on when a buffer was released since it found none.
DmuxSleeps == mode_exec /\ errorCode[None] = "invalid" /\ ~(dRecv \/ dStat)

\* Chunks left to read.
Left(s) == positionIndex[s] <= Len(Index[s])
Offset(s) == Index[s][positionIndex[s]].offset

\* aviDmuxSearchTargetStream: the stream that found no buffer, or the one whose next chunk
\* comes first in the file.
IsTarget(s) ==
  LET Full == { r \in Stream : parseLastError[r] = "full" } IN
    IF Full # {} THEN s \in Full /\ \A r \in Full : s <= r
    ELSE Left(s) /\ \A r \in Stream : Left(r) =>
           Offset(s) < Offset(r) \/ (Offset(s) = Offset(r) /\ s <= r)

DmuxOver == dpc' = "over" /\ Ends(None)

\* One turn of its loop, as far as the parser of a stream or the end.
DmuxWait ==
  /\ dpc = "wait"
  /\ IF DmuxSleeps
     THEN dpc' = "going" /\ UNCHANGED << dRecv, dStat, target, errorCode >>
     ELSE /\ dStat' = (dRecv \/ dStat) /\ dRecv' = FALSE
          /\ \/ (errorCode[None] # "invalid" \/ ~mode_exec) /\ DmuxOver /\ UNCHANGED target
             \/ /\ errorCode[None] = "invalid" /\ mode_exec /\ UNCHANGED errorCode
                /\ \/ dpc' = "read" /\ \E s \in Stream : IsTarget(s) /\ target' = s
                   \/ dpc' = "done" /\ target' = None /\ \A s \in Stream : ~IsTarget(s)
  /\ UNCHANGED << control, parser, queues, decoder, library >>

DmuxSleep ==
  /\ dpc = "going" /\ dpc' = "asleep"
  /\ UNCHANGED << control, errorCode, dRecv, dStat, target, parser, queues, decoder, library >>

\* At the end of its loop it looks whether the player is closed.
Again == IF is_bg_video THEN dpc' = "wait" /\ UNCHANGED errorCode ELSE DmuxOver

\* The parser returns: no buffer was free, or the chunk is used up.
ReturnsFull(s) ==
  /\ parseLastError' = [parseLastError EXCEPT ![s] = "full"] /\ dStat' = FALSE
  /\ Again /\ UNCHANGED positionIndex

ReturnsOk(s) ==
  /\ parseLastError' = [parseLastError EXCEPT ![s] = "ok"] /\ dStat' = TRUE
  /\ positionIndex' = [positionIndex EXCEPT ![s] = @ + 1]
  /\ Again

\* Bound: one fault of the file or of the library.
NoFault == \A t \in DOMAIN errorCode : errorCode[t] # "error"

\* A read that fails ends the demultiplexer, at the next turn of its loop.
ReadFails ==
  /\ dpc = "read" /\ NoFault
  /\ parseLastError[target] = "ok" \/ (target \notin Framed /\ auWriteQueue[target] # << >>)
  /\ IF ~is_bg_video THEN DmuxOver
     ELSE dpc' = "wait" /\ errorCode' = [errorCode EXCEPT ![None] = "error"]
  /\ parseLastError' = [parseLastError EXCEPT ![target] = "fatal"]
  /\ UNCHANGED << control, dRecv, dStat, target, positionIndex, parseBuffer, parseSyncSearch,
                  queues, decoder, library >>

Chunk_TooLong(s) ==
  LET p == Index[s][positionIndex[s]] IN [i \in 1 .. p.size + 1 |-> p.first + i - 1]

\* The bytes of the chunk that is due.
Chunk(s) == LET p == Index[s][positionIndex[s]] IN [i \in 1 .. p.size |-> p.first + i - 1]

\* Content c is put into the first free buffer, and that into the queue of the decoder.
Push(s, c) ==
  LET b == Head(auWriteQueue[s]) IN
  /\ auWriteQueue' = [auWriteQueue EXCEPT ![s] = Tail(@)]
  /\ auAddr' = [auAddr EXCEPT ![s][b] = c]
  /\ auReadQueue' = [auReadQueue EXCEPT ![s] = Append(@, b)]
  /\ dpc' = "notify"
  /\ UNCHANGED << auReleaseQueue, parseLastError, dStat, positionIndex, errorCode >>

\* aviDmuxParseDefaultEs: a chunk is an AU, unless it is empty.
ReadDefault ==
  LET s == target IN
  /\ dpc = "read" /\ s \notin Framed
  /\ \/ Chunk(s) = << >> /\ ReturnsOk(s) /\ UNCHANGED queues
     \/ Chunk(s) # << >> /\ auWriteQueue[s] = << >> /\ ReturnsFull(s) /\ UNCHANGED queues
     \/ Chunk(s) # << >> /\ auWriteQueue[s] # << >> /\ Push(s, Chunk(s))
  /\ UNCHANGED << control, dRecv, target, parseBuffer, parseSyncSearch, decoder, library >>

\* What the parser sees in bytes b (positions of stream s): headers, the length of a frame.
Header(s, b, i) == i + 1 <= Len(b) /\ Data[s][b[i]] = Sync1 /\ Data[s][b[i + 1]] = Sync2
AuSize(s, b, i) == IF i + 2 <= Len(b) /\ Data[s][b[i + 2]] > 4 THEN Data[s][b[i + 2]] ELSE 5
From(b, i) == SubSeq(b, i, Len(b))
Rest(b, i) == Len(b) - i + 1

\* While it is out of step it refuses a frame that is not followed by a header.
Refused_Never(s, b, i) == FALSE

Refused(s, b, i) ==
  /\ parseSyncSearch[s] /\ Rest(b, i) >= AuSize(s, b, i) + 2
  /\ ~Header(s, b, i + AuSize(s, b, i))

Frame(s, b) == { i \in 1 .. Len(b) : Header(s, b, i) /\ ~Refused(s, b, i) }
First(I) == CHOOSE i \in I : \A j \in I : i <= j

TooShort(s, b, i) ==
  Rest(b, i) < AuSize(s, b, i) + (IF parseSyncSearch[s] THEN 2 ELSE 0)

\* One turn of the loop of aviDmuxParseMpegAudioEs or aviDmuxParseAc3AudioEs.  The chunk is
\* put behind the bytes that are left, unless the last call ended because no buffer was
\* free.  Of bytes without a header the last one is kept.
Parse ==
  LET s == target
      b == IF dpc = "read" /\ parseLastError[s] = "ok" THEN parseBuffer[s] \o Chunk(s)
           ELSE parseBuffer[s]
      i == First(Frame(s, b))
      Keep(c) == parseBuffer' = [parseBuffer EXCEPT ![s] = c]
      Found == Len(b) > 4 /\ Frame(s, b) # {}
  IN
  /\ dpc = "parse" \/ (dpc = "read" /\ s \in Framed)
  /\ \/ Len(b) <= 4 /\ Keep(b) /\ ReturnsOk(s) /\ UNCHANGED << parseSyncSearch, queues >>
     \/ /\ Len(b) > 4 /\ Frame(s, b) = {} /\ Keep(From(b, Len(b))) /\ ReturnsOk(s)
        /\ parseSyncSearch' = [parseSyncSearch EXCEPT ![s] = TRUE] /\ UNCHANGED queues
     \/ /\ Found /\ TooShort(s, b, i) /\ Keep(From(b, i)) /\ ReturnsOk(s)
        /\ UNCHANGED << parseSyncSearch, queues >>
     \/ /\ Found /\ ~TooShort(s, b, i) /\ auWriteQueue[s] = << >> /\ Keep(From(b, i))
        /\ ReturnsFull(s) /\ UNCHANGED << parseSyncSearch, queues >>
     \/ /\ Found /\ ~TooShort(s, b, i) /\ auWriteQueue[s] # << >>
        /\ Push(s, SubSeq(b, i, i + AuSize(s, b, i) - 1)) /\ Keep(From(b, i + AuSize(s, b, i)))
        /\ UNCHANGED parseSyncSearch
  /\ UNCHANGED << control, dRecv, target, decoder, library >>

\* A callback into the monitor of decoder s, which must not be held.
Signal(s) == pc[s] # "going" /\ pc' = [pc EXCEPT ![s] = Woken(@)]

\* vdecDmuxCb, adecDmuxCb with AU_FOUND; then the next frame, or the end of the chunk.
Notify ==
  LET s == target IN
  /\ dpc = "notify" /\ Signal(s) /\ recv' = [recv EXCEPT ![s].bAuFound = TRUE]
  /\ IF s \in Framed
     THEN /\ dpc' = "parse" /\ parseSyncSearch' = [parseSyncSearch EXCEPT ![s] = FALSE]
          /\ UNCHANGED << parseLastError, dStat, positionIndex, errorCode >>
     ELSE ReturnsOk(s) /\ UNCHANGED parseSyncSearch
  /\ UNCHANGED << control, dRecv, target, parseBuffer, queues, stat, pAuInfo, library >>

\* DMUX_DONE is sent to the decoders one after the other; target is the last that has it.
Done_Unannounced ==
  /\ dpc = "done" /\ DmuxOver
  /\ UNCHANGED << control, dRecv, dStat, target, parser, queues, decoder, library >>

Done ==
  LET next == { s \in Stream : s > target } IN
  /\ dpc = "done"
  /\ \/ /\ next # {} /\ target' = First(next)
        /\ Signal(target')
        /\ recv' = [recv EXCEPT ![target'].bAuFound = TRUE, ![target'].bStreamEnd = TRUE]
        /\ UNCHANGED << dpc, errorCode >>
     \/ next = {} /\ DmuxOver /\ UNCHANGED << target, pc, recv >>
  /\ UNCHANGED << control, dRecv, dStat, parser, queues, stat, pAuInfo, library >>

\* With an error it tells the others when it ends.
DmuxExit ==
  /\ dpc = "over" /\ errorCode[None] = "error" /\ ErrorExit("gone", pc)
  /\ UNCHANGED << is_bg_video, errorCode, dRecv, dStat, target, parser, queues, recv, stat,
                  pAuInfo, library >>

-----------------------------------------------------------------------------
(***************************************************************************)
(* The thread of the decoder of stream s: vdecThread, adecThread.          *)
(***************************************************************************)
\* vdecWaitEvent, adecWaitEvent.
Sleeps(s, r) ==
  /\ mode_exec /\ errorCode[s] = "invalid" /\ r.auDoneNum = 0
  /\ ~r.bReady \/ (~r.bAuFound /\ pAuInfo[s] = None)

Received(s) ==
  [recv[s] EXCEPT !.bReady = @ \/ stat[s].bReady, !.bAuFound = @ \/ stat[s].bAuFound]

\* What is left of the received status when the thread has taken it.
Taken(s, r) == [r EXCEPT !.auDoneNum = 0, !.bAuFound = FALSE, !.bReady = FALSE]

\* It leaves its loop on an error and when it is told to end; when the sequence is done, it
\* releases what is decoded first.
Wait(s) ==
  LET r == Received(s) IN
  /\ pc[s] = "wait"
  /\ IF Sleeps(s, r)
     THEN /\ pc' = [pc EXCEPT ![s] = "going"] /\ recv' = [recv EXCEPT ![s] = r]
          /\ UNCHANGED << stat, errorCode >>
     ELSE /\ stat' = [stat EXCEPT ![s] = r] /\ recv' = [recv EXCEPT ![s] = Taken(s, r)]
          /\ IF errorCode[s] = "error" \/ (errorCode[s] = "invalid" /\ ~mode_exec)
             THEN pc' = [pc EXCEPT ![s] = "over"] /\ Ends(s)
             ELSE /\ pc' = [pc EXCEPT ![s] = IF errorCode[s] = "ok" THEN "last" ELSE "work"]
                  /\ UNCHANGED errorCode
  /\ UNCHANGED << control, demux, queues, pAuInfo, library >>

Sleep(s) ==
  /\ pc[s] = "going" /\ pc' = [pc EXCEPT ![s] = "asleep"]
  /\ UNCHANGED << control, errorCode, demux, queues, recv, stat, pAuInfo, library >>

\* aviDmuxReleaseAu: one buffer goes back and the demultiplexer is woken, under its monitor.
Release(s) ==
  /\ pc[s] \in {"work", "last"} /\ stat[s].auDoneNum > 0 /\ auReleaseQueue[s] # << >>
  /\ auReleaseQueue' = [auReleaseQueue EXCEPT ![s] = Tail(@)]
  /\ auWriteQueue' = [auWriteQueue EXCEPT ![s] = Append(@, Head(auReleaseQueue[s]))]
  /\ stat' = [stat EXCEPT ![s].auDoneNum = @ - 1]
  /\ dpc # "going" /\ dRecv' = TRUE /\ dpc' = Woken(dpc)
  /\ UNCHANGED << control, errorCode, dStat, target, parser, auReadQueue, auAddr, pc, recv,
                  pAuInfo, library >>

Fault(s) ==
  /\ pc' = [pc EXCEPT ![s] = "over"] /\ errorCode' = [errorCode EXCEPT ![s] = "error"]

\* RET_CODE_ERR_SEQ: there is nothing to release.
ReleaseFails(s) ==
  /\ pc[s] \in {"work", "last"} /\ stat[s].auDoneNum > 0 /\ auReleaseQueue[s] = << >>
  /\ Fault(s)
  /\ UNCHANGED << control, demux, queues, recv, stat, pAuInfo, library >>

LastReleased(s) ==
  /\ pc[s] = "last" /\ stat[s].auDoneNum = 0 /\ pc' = [pc EXCEPT ![s] = "over"]
  /\ UNCHANGED << control, errorCode, demux, queues, recv, stat, pAuInfo, library >>

\* At the end of its loop adec looks whether the player is closed.
Turn(s) ==
  IF s = Audio /\ ~is_bg_video THEN Fault(s)
  ELSE pc' = [pc EXCEPT ![s] = "wait"] /\ UNCHANGED errorCode

\* With an AU in hand and the library ready it decodes.
Goes(s) ==
  IF stat[s].bReady THEN pc' = [pc EXCEPT ![s] = "decode"] /\ UNCHANGED errorCode ELSE Turn(s)

AllReleased(s) == pc[s] = "work" /\ stat[s].auDoneNum = 0

GetAu_FreesAtOnce(s) ==
  /\ AllReleased(s) /\ stat[s].bAuFound /\ pAuInfo[s] = None /\ auReadQueue[s] # << >>
  /\ pAuInfo' = [pAuInfo EXCEPT ![s] = Head(auReadQueue[s])]
  /\ auReadQueue' = [auReadQueue EXCEPT ![s] = Tail(@)]
  /\ auWriteQueue' = [auWriteQueue EXCEPT ![s] = Append(@, Head(auReadQueue[s]))]
  /\ Goes(s)
  /\ UNCHANGED << control, demux, auReleaseQueue, auAddr, recv, stat, library >>

\* aviDmuxGetAu.
GetAu(s) ==
  /\ AllReleased(s) /\ stat[s].bAuFound /\ pAuInfo[s] = None /\ auReadQueue[s] # << >>
  /\ pAuInfo' = [pAuInfo EXCEPT ![s] = Head(auReadQueue[s])]
  /\ auReadQueue' = [auReadQueue EXCEPT ![s] = Tail(@)]
  /\ auReleaseQueue' = [auReleaseQueue EXCEPT ![s] = Append(@, Head(auReadQueue[s]))]
  /\ Goes(s)
  /\ UNCHANGED << control, demux, auWriteQueue, auAddr, recv, stat, library >>

NoAu_EndsEarly(s) ==
  /\ AllReleased(s) /\ stat[s].bAuFound /\ pAuInfo[s] = None /\ auReadQueue[s] = << >>
  /\ stat' = [stat EXCEPT ![s].bAuFound = FALSE]
  /\ recv' = [recv EXCEPT ![s].bAuFound = FALSE, ![s].bStreamEnd = FALSE]
  /\ pc' = [pc EXCEPT ![s] = "endseq"]
  /\ UNCHANGED << control, errorCode, demux, queues, pAuInfo, library >>

\* The queue is empty.  When the demultiplexer has said that it was the last, the received
\* status is cleared without the monitor and the library is asked to end.
NoAu(s) ==
  /\ AllReleased(s) /\ stat[s].bAuFound /\ pAuInfo[s] = None /\ auReadQueue[s] = << >>
  /\ stat' = [stat EXCEPT ![s].bAuFound = FALSE]
  /\ IF stat[s].bStreamEnd
     THEN /\ recv' = [recv EXCEPT ![s].bAuFound = FALSE, ![s].bStreamEnd = FALSE]
          /\ pc' = [pc EXCEPT ![s] = "endseq"] /\ UNCHANGED errorCode
     ELSE UNCHANGED recv /\ Turn(s)
  /\ UNCHANGED << control, demux, queues, pAuInfo, library >>

\* cellVdecEndSeq, cellAdecEndSeq, asked again while they are busy.
EndSeq(s) ==
  /\ pc[s] = "endseq" /\ ended' = [ended EXCEPT ![s] = TRUE] /\ Turn(s)
  /\ UNCHANGED << control, demux, queues, recv, stat, pAuInfo, lib, pcm, given >>

KeepsAu(s) ==
  /\ AllReleased(s) /\ pAuInfo[s] # None /\ Goes(s)
  /\ UNCHANGED << control, demux, queues, recv, stat, pAuInfo, library >>

NothingNew(s) ==
  /\ AllReleased(s) /\ ~stat[s].bAuFound /\ pAuInfo[s] = None /\ Turn(s)
  /\ UNCHANGED << control, demux, queues, recv, stat, pAuInfo, library >>

Held(s) == Len(lib[s]) + (IF s = Audio THEN pcm ELSE 0)

\* cellVdecDecodeAu, cellAdecDecodeAu.
DecodeAu(s) ==
  /\ pc[s] = "decode" /\ Held(s) < LibSize
  /\ lib' = [lib EXCEPT ![s] =
       Append(@, [buffer |-> pAuInfo[s], au |-> auAddr[s][pAuInfo[s]]])]
  /\ given' = [given EXCEPT ![s] = Append(@, auAddr[s][pAuInfo[s]])]
  /\ pAuInfo' = [pAuInfo EXCEPT ![s] = None] /\ Turn(s)
  /\ UNCHANGED << control, demux, queues, recv, stat, ended, pcm >>

Busy(s) ==
  /\ pc[s] = "decode" /\ Held(s) >= LibSize
  /\ stat' = [stat EXCEPT ![s].bReady = FALSE] /\ Turn(s)
  /\ UNCHANGED << control, demux, queues, recv, pAuInfo, library >>

\* The library refuses, to decode or to end.
LibraryRefuses(s) ==
  /\ pc[s] \in {"endseq", "decode"} /\ NoFault /\ Fault(s)
  /\ UNCHANGED << control, demux, queues, recv, stat, pAuInfo, library >>

DecoderExit(s) ==
  /\ pc[s] = "over" /\ errorCode[s] = "error" /\ ErrorExit(dpc, [pc EXCEPT ![s] = "gone"])
  /\ UNCHANGED << is_bg_video, errorCode, dRecv, dStat, target, parser, queues, recv, stat,
                  pAuInfo, library >>

-----------------------------------------------------------------------------
(***************************************************************************)
(* The library calls back, from threads of its own: vdecCb, adecCb.        *)
(***************************************************************************)
\* The oldest AU is decoded.
AuDone(s) ==
  /\ lib[s] # << >> /\ lib' = [lib EXCEPT ![s] = Tail(@)]
  /\ pcm' = IF s = Audio THEN pcm + 1 ELSE pcm
  /\ recv' = [recv EXCEPT ![s].auDoneNum = @ + 1, ![s].bReady = @ \/ s # Audio]
  /\ Signal(s)
  /\ UNCHANGED << control, errorCode, demux, queues, stat, pAuInfo, ended, given >>

\* Of audio, the library can take more when the output has fetched something: adecPcmOutCb.
PcmOut ==
  /\ pcm > 0 /\ pcm' = pcm - 1
  /\ recv' = [recv EXCEPT ![Audio].bReady = TRUE] /\ Signal(Audio)
  /\ UNCHANGED << control, errorCode, demux, queues, stat, pAuInfo, lib, ended, given >>

SeqDone(s) ==
  /\ ended[s] /\ lib[s] = << >> /\ errorCode[s] = "invalid"
  /\ errorCode' = [errorCode EXCEPT ![s] = "ok"] /\ Signal(s)
  /\ UNCHANGED << control, demux, queues, recv, stat, pAuInfo, library >>

LibraryFails(s) ==
  /\ lib[s] # << >> /\ errorCode[s] = "invalid" /\ NoFault
  /\ errorCode' = [errorCode EXCEPT ![s] = "error"] /\ Signal(s)
  /\ UNCHANGED << control, demux, queues, recv, stat, pAuInfo, library >>

-----------------------------------------------------------------------------
\* The main loop closes the player; mm_shutdown, tested beside is_bg_video, ends it likewise.
Close ==
  /\ is_bg_video /\ is_bg_video' = FALSE
  /\ UNCHANGED << mode_exec, errorCode, demux, queues, decoder, library >>

\* commonSysutilCb, called by the main loop.
SysutilCb ==
  /\ ~is_bg_video /\ mode_exec /\ ErrorExit(dpc, pc)
  /\ UNCHANGED << is_bg_video, errorCode, dRecv, dStat, target, parser, queues, recv, stat,
                  pAuInfo, library >>

-----------------------------------------------------------------------------
Dmux == DmuxWait \/ DmuxSleep \/ ReadDefault \/ Parse \/ Notify \/ Done \/ DmuxExit

Decoder(s) == \/ Wait(s) \/ Sleep(s) \/ Release(s) \/ ReleaseFails(s) \/ LastReleased(s)
              \/ GetAu(s) \/ NoAu(s) \/ EndSeq(s) \/ KeepsAu(s) \/ NothingNew(s) \/ DecodeAu(s)
              \/ Busy(s) \/ DecoderExit(s)

Fails == ReadFails \/ \E s \in Stream : LibraryRefuses(s) \/ LibraryFails(s)

Next == \/ Dmux \/ Fails \/ Close \/ SysutilCb \/ PcmOut
        \/ \E s \in Stream : Decoder(s) \/ AuDone(s) \/ SeqDone(s)

Spec == Init /\ [][Next]_vars

-----------------------------------------------------------------------------
Status == [bAuFound : BOOLEAN, bStreamEnd : BOOLEAN, bReady : BOOLEAN, auDoneNum : Nat]

TypeOK ==
  /\ mode_exec \in BOOLEAN /\ is_bg_video \in BOOLEAN /\ dRecv \in BOOLEAN /\ dStat \in BOOLEAN
  /\ dpc \in {"wait", "going", "asleep", "read", "parse", "notify", "done", "over", "gone"}
  /\ errorCode \in [Stream \cup {None} -> {"invalid", "ok", "error"}]
  /\ target \in Stream \cup {None} /\ positionIndex \in [Stream -> Nat]
  /\ parseLastError \in [Stream -> {"ok", "full", "fatal"}]
  /\ parseSyncSearch \in [Stream -> BOOLEAN]
  /\ pc \in [Stream -> {"wait", "going", "asleep", "work", "last", "endseq", "decode", "over",
                        "gone"}]
  /\ recv \in [Stream -> Status] /\ stat \in [Stream -> Status]
  /\ ended \in [Stream -> BOOLEAN] /\ pcm \in 0 .. LibSize
  /\ \A s \in Stream :
       /\ parseBuffer[s] \in Seq(1 .. Len(Data[s])) /\ pAuInfo[s] \in 0 .. AuNum[s]
       /\ auWriteQueue[s] \in Seq(Buffers(s)) /\ auReadQueue[s] \in Seq(Buffers(s))
       /\ auReleaseQueue[s] \in Seq(Buffers(s))
       /\ \A b \in Buffers(s) : auAddr[s][b] \in Seq(1 .. Len(Data[s]))
       /\ Len(lib[s]) <= LibSize

\* The AUs of stream s: its chunks that are not empty; or its frames, from the first that
\* another one follows.
Frames(s) ==
  LET d == [i \in DOMAIN Data[s] |-> i]
      Start == { i \in DOMAIN d : Header(s, d, i) /\ i + AuSize(s, d, i) - 1 <= Len(d) }
      Next1(i) == i + AuSize(s, d, i)
      Good == { i \in Start : Next1(i) \in Start }
      Last == { i \in Start : \E j \in Good : Next1(j) = i }
  IN  { SubSeq(d, i, Next1(i) - 1) : i \in Good \cup Last }
Units == [s \in Stream |->
  IF s \in Framed THEN Frames(s)
  ELSE { [i \in 1 .. c.size |-> c.first + i - 1] :
         c \in { Index[s][k] : k \in DOMAIN Index[s] } } \ { << >> }]

\* A decoder gets the AUs of its stream, each whole, in their order, none twice, and none
\* left out between two.
InOrder ==
  \A s \in Stream :
    LET g == given[s] IN
      /\ \A i \in DOMAIN g : g[i] \in Units[s]
      /\ \A i, j \in DOMAIN g : i < j => g[i][1] < g[j][1]
      /\ \A i \in 2 .. Len(g) : ~ \E u \in Units[s] : g[i - 1][1] < u[1] /\ u[1] < g[i][1]

\* While the library decodes an AU nothing else is put into its buffer.
BufferUntouched ==
  \A s \in Stream : \A i \in DOMAIN lib[s] : auAddr[s][lib[s][i].buffer] = lib[s][i].au

\* A sequence that is done without an order to end has decoded every AU of the stream.
NothingMissing ==
  \A s \in Stream : errorCode[s] = "ok" /\ ended[s] => Len(given[s]) = Cardinality(Units[s])

\* The threads never all wait for each other: when none of them can go on, they have ended,
\* or one fell asleep after it was told to end.
Rests(t, threadPc) == threadPc \in {"asleep", "gone"} \/ (threadPc = "over" /\ errorCode[t] = "ok")
Quiet ==
  /\ Rests(None, dpc) /\ mode_exec = is_bg_video /\ pcm = 0
  /\ \A s \in Stream :
       Rests(s, pc[s]) /\ lib[s] = << >> /\ (ended[s] => errorCode[s] # "invalid")
NoStall ==
  Quiet => \/ dpc # "asleep" /\ \A s \in Stream : pc[s] # "asleep"
           \/ ~mode_exec
=============================================================================
