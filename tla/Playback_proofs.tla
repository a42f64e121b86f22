-------------------------- MODULE Playback_proofs --------------------------
(***************************************************************************)
(* Proofs about the demultiplexer, the decoders and their library for any  *)
(* number of streams, any film and any room of the library: type           *)
(* correctness, NoStall and BufferUntouched.  NoStall speaks of the states *)
(* where nobody can step and is far from inductive.  What makes it hold is *)
(* that a sleeper's wake-up is always on its way: every flag and counter   *)
(* that one thread sends another is counted against the queues it tells    *)
(* of, wherever it is (QueueOf), the end of the stream is told once and    *)
(* not lost (EndOf), and nobody sleeps on what has already come (WakeOf,   *)
(* DmuxInv).                                                               *)
(***************************************************************************)
EXTENDS MCPlayback, FiniteSetTheorems, SequenceTheorems, WellFoundedInduction, TLAPS

AuOf(s) == Seq(1 .. Len(Data[s]))

\* What is in the queues of stream s, in its buffers and with its decoder.
StreamTypes(s) ==
  /\ parseBuffer[s] \in AuOf(s) /\ pAuInfo[s] \in 0 .. AuNum[s]
  /\ auWriteQueue[s] \in Seq(Buffers(s)) /\ auReadQueue[s] \in Seq(Buffers(s))
  /\ auReleaseQueue[s] \in Seq(Buffers(s))
  /\ auAddr[s] \in [Buffers(s) -> AuOf(s)]
  /\ lib[s] \in Seq([buffer : Buffers(s), au : AuOf(s)])
  /\ given[s] \in Seq(AuOf(s))
  /\ Held(s) <= LibSize

\* What is not a queue.
ControlTypes ==
  /\ mode_exec \in BOOLEAN /\ is_bg_video \in BOOLEAN /\ dRecv \in BOOLEAN /\ dStat \in BOOLEAN
  /\ dpc \in {"wait", "going", "asleep", "read", "parse", "notify", "done", "over", "gone"}
  /\ errorCode \in [Stream \cup {None} -> {"invalid", "ok", "error"}]
  /\ target \in Stream \cup {None} /\ positionIndex \in [Stream -> Nat]
  /\ parseLastError \in [Stream -> {"ok", "full", "fatal"}]
  /\ parseSyncSearch \in [Stream -> BOOLEAN]
  /\ pc \in [Stream -> {"wait", "going", "asleep", "work", "last", "endseq", "decode", "over",
                        "gone"}]
  /\ recv \in [Stream -> Status] /\ stat \in [Stream -> Status]
  /\ ended \in [Stream -> BOOLEAN] /\ pcm \in 0 .. LibSize

Domains ==
  /\ DOMAIN given = Stream /\ DOMAIN parseBuffer = Stream /\ DOMAIN pAuInfo = Stream
  /\ DOMAIN auWriteQueue = Stream /\ DOMAIN auReadQueue = Stream
  /\ DOMAIN auReleaseQueue = Stream /\ DOMAIN auAddr = Stream /\ DOMAIN lib = Stream

TypeInv == ControlTypes /\ Domains /\ \A s \in Stream : StreamTypes(s)

ReadInv ==
  /\ \A s \in Stream : positionIndex[s] >= 1 /\ (parseLastError[s] = "full" => Left(s))
  /\ dpc \in {"read", "parse", "notify"} => target \in Stream /\ Left(target)
  /\ dpc = "parse" => target \in Framed
  /\ \A s \in Stream : pc[s] = "decode" => pAuInfo[s] # None

-----------------------------------------------------------------------------
Before == { p \in Nat \X Nat : p[1] < p[2] }

LEMMA Least ==
  ASSUME NEW T, T \subseteq Nat, T # {}
  PROVE  \E m \in T : \A n \in T : m <= n
<1>1. IsWellFoundedOn(Before, Nat)
  BY NatLessThanWellFounded DEF Before, OpToRel
<1>2. PICK m \in T : \A n \in T : << n, m >> \notin Before
  BY <1>1, WFMin
<1>3. \A n \in T : ~ (n < m)
  BY <1>2 DEF Before
<1> QED
  BY <1>3

LEMMA Kinds ==
  /\ Stream \subseteq Nat /\ 0 \notin Stream /\ Audio \in Stream /\ Framed \subseteq Stream
  /\ LibSize \in Nat /\ LibSize > 0
  /\ \A s \in Stream : AuNum[s] \in Nat /\ AuNum[s] > 0 /\ Data[s] \in Seq(Nat)
BY DemuxAssumption DEF DemuxAssumption, None

LEMMA InitTypes == Init => TypeInv /\ ReadInv
<1> SUFFICES ASSUME Init PROVE TypeInv /\ ReadInv
  OBVIOUS
<1> USE Kinds DEF Init
<1>1. \A s \in Stream : [b \in Buffers(s) |-> b] \in Seq(Buffers(s))
  BY DEF Buffers
<1>2. ASSUME NEW s \in Stream PROVE StreamTypes(s)
  BY <1>1 DEF StreamTypes, AuOf, Held, None, Buffers
<1>3. ControlTypes
  BY DEF ControlTypes, Status
<1>4. Domains /\ ReadInv
  BY DEF Domains, ReadInv
<1> QED
  BY <1>2, <1>3, <1>4 DEF TypeInv

LEMMA TypesSuffice == TypeInv => TypeOK
<1> SUFFICES ASSUME TypeInv PROVE TypeOK
  OBVIOUS
<1>1. ASSUME NEW s \in Stream
      PROVE  /\ parseBuffer[s] \in Seq(1 .. Len(Data[s])) /\ pAuInfo[s] \in 0 .. AuNum[s]
             /\ auWriteQueue[s] \in Seq(Buffers(s)) /\ auReadQueue[s] \in Seq(Buffers(s))
             /\ auReleaseQueue[s] \in Seq(Buffers(s))
             /\ \A b \in Buffers(s) : auAddr[s][b] \in Seq(1 .. Len(Data[s]))
             /\ Len(lib[s]) <= LibSize
  <2>1. StreamTypes(s) /\ ControlTypes
    BY DEF TypeInv
  <2>2. Len(lib[s]) <= LibSize
    <3>1. Len(lib[s]) \in Nat
      BY <2>1 DEF StreamTypes
    <3>2. pcm \in Nat /\ Held(s) <= LibSize
      BY <2>1, Kinds DEF StreamTypes, ControlTypes
    <3>3. CASE s = Audio
      BY <3>1, <3>2, <3>3, Kinds DEF Held
    <3>4. CASE s # Audio
      BY <3>1, <3>2, <3>4, Kinds DEF Held
    <3> QED
      BY <3>3, <3>4
  <2> QED
    BY <2>1, <2>2 DEF StreamTypes, AuOf
<1>2. ControlTypes
  BY DEF TypeInv
<1> QED
  BY <1>1, <1>2 DEF ControlTypes, TypeOK

-----------------------------------------------------------------------------
(***************************************************************************)
(* The operators the actions are made of.                                  *)
(***************************************************************************)
DmuxPlaces == {"wait", "going", "asleep", "read", "parse", "notify", "done", "over", "gone"}
Places == {"wait", "going", "asleep", "work", "last", "endseq", "decode", "over", "gone"}
Errors == [Stream \cup {None} -> {"invalid", "ok", "error"}]

LEMMA EndsTypes ==
  ASSUME errorCode \in Errors, NEW t \in Stream \cup {None}, Ends(t)
  PROVE  errorCode' \in Errors /\ \A r \in Stream \cup {None} : r # t => errorCode'[r] = errorCode[r]
BY DEF Ends, Errors

LEMMA AgainTypes ==
  ASSUME errorCode \in Errors, Again
  PROVE  errorCode' \in Errors /\ dpc' \in {"wait", "over"} /\ \A r \in Stream : errorCode'[r] = errorCode[r]
BY EndsTypes, Kinds DEF Again, DmuxOver, None

LEMMA TurnTypes ==
  ASSUME errorCode \in Errors, pc \in [Stream -> Places], NEW s \in Stream, Turn(s)
  PROVE  /\ errorCode' \in Errors /\ pc' \in [Stream -> Places]
         /\ pc'[s] \in {"wait", "over"}
         /\ \A r \in Stream \cup {None} : r # s => errorCode'[r] = errorCode[r]
         /\ \A r \in Stream : r # s => pc'[r] = pc[r]
BY DEF Turn, Fault, Errors, Places

LEMMA GoesTypes ==
  ASSUME errorCode \in Errors, pc \in [Stream -> Places], NEW s \in Stream, Goes(s)
  PROVE  /\ errorCode' \in Errors /\ pc' \in [Stream -> Places]
         /\ pc'[s] \in {"wait", "over", "decode"}
         /\ \A r \in Stream \cup {None} : r # s => errorCode'[r] = errorCode[r]
         /\ \A r \in Stream : r # s => pc'[r] = pc[r]
<1>1. CASE stat[s].bReady
  BY <1>1 DEF Goes, Errors, Places
<1>2. CASE ~stat[s].bReady
  BY <1>2, TurnTypes DEF Goes
<1> QED
  BY <1>1, <1>2

LEMMA SignalTypes ==
  ASSUME pc \in [Stream -> Places], NEW s \in Stream, Signal(s)
  PROVE  /\ pc' \in [Stream -> Places] /\ pc'[s] \notin {"going", "asleep"}
         /\ pc'[s] = IF pc[s] = "asleep" THEN "wait" ELSE pc[s]
         /\ \A r \in Stream : r # s => pc'[r] = pc[r]
BY DEF Signal, Woken, Places

LEMMA ExitTypes ==
  ASSUME NEW d \in DmuxPlaces, NEW p \in [Stream -> Places], mode_exec \in BOOLEAN, ErrorExit(d, p)
  PROVE  /\ mode_exec' = FALSE
         /\ dpc' \in {d, "wait"} /\ (dpc' # d => d = "asleep")
         /\ pc' \in [Stream -> Places]
         /\ \A r \in Stream : pc'[r] \in {p[r], "wait"} /\ (pc'[r] # p[r] => p[r] = "asleep")
<1>1. CASE mode_exec
  BY <1>1 DEF ErrorExit, Woken, DmuxPlaces, Places
<1>2. CASE ~mode_exec
  BY <1>2 DEF ErrorExit, DmuxPlaces, Places
<1> QED
  BY <1>1, <1>2

LEMMA ReturnsOkTypes ==
  ASSUME ControlTypes, NEW s \in Stream, ReturnsOk(s)
  PROVE  /\ parseLastError' \in [Stream -> {"ok", "full", "fatal"}] /\ dStat' = TRUE
         /\ positionIndex' \in [Stream -> Nat] /\ positionIndex'[s] = positionIndex[s] + 1
         /\ parseLastError'[s] = "ok"
         /\ \A r \in Stream : r # s => positionIndex'[r] = positionIndex[r] /\ parseLastError'[r] = parseLastError[r]
         /\ errorCode' \in Errors /\ dpc' \in {"wait", "over"} /\ \A r \in Stream : errorCode'[r] = errorCode[r]
<1>1. errorCode \in Errors /\ Again
  BY DEF ControlTypes, Errors, ReturnsOk
<1> QED
  BY <1>1, AgainTypes DEF ReturnsOk, ControlTypes

LEMMA ReturnsFullTypes ==
  ASSUME ControlTypes, NEW s \in Stream, ReturnsFull(s)
  PROVE  /\ parseLastError' \in [Stream -> {"ok", "full", "fatal"}] /\ dStat' = FALSE
         /\ positionIndex' = positionIndex /\ parseLastError'[s] = "full"
         /\ \A r \in Stream : r # s => parseLastError'[r] = parseLastError[r]
         /\ errorCode' \in Errors /\ dpc' \in {"wait", "over"} /\ \A r \in Stream : errorCode'[r] = errorCode[r]
<1>1. errorCode \in Errors /\ Again
  BY DEF ControlTypes, Errors, ReturnsFull
<1> QED
  BY <1>1, AgainTypes DEF ReturnsFull, ControlTypes

-----------------------------------------------------------------------------
(***************************************************************************)
(* What the steps that change the status of a decoder do to it, field by   *)
(* field.                                                                  *)
(***************************************************************************)
\* The status f is g, except that of stream s.
Elsewhere(f, g, s) == \A r \in Stream : r # s => f[r] = g[r]

LEMMA StatusTypes == TypeInv => recv \in [Stream -> Status] /\ stat \in [Stream -> Status]
BY DEF TypeInv, ControlTypes

LEMMA NotifyEffect ==
  ASSUME TypeInv, ReadInv, Notify
  PROVE  /\ target \in Stream /\ recv' \in [Stream -> Status] /\ Elsewhere(recv', recv, target)
         /\ recv'[target].bAuFound
         /\ recv'[target].bStreamEnd = recv[target].bStreamEnd /\ recv'[target].bReady = recv[target].bReady
         /\ recv'[target].auDoneNum = recv[target].auDoneNum
         /\ Signal(target) /\ stat' = stat
<1>1. target \in Stream /\ recv \in [Stream -> Status]
  BY DEF Notify, TypeInv, ReadInv, ControlTypes
<1>2. Signal(target) /\ recv' = [recv EXCEPT ![target].bAuFound = TRUE] /\ stat' = stat
  BY DEF Notify
<1> QED
  BY <1>1, <1>2 DEF Status, Elsewhere

LEMMA DoneEffect ==
  ASSUME TypeInv, Done
  PROVE  /\ recv' \in [Stream -> Status] /\ stat' = stat
         /\ \/ /\ target' \in Stream /\ target' > target /\ dpc' = "done" /\ errorCode' = errorCode
               /\ \A r \in Stream : r <= target' => r <= target \/ r = target'
               /\ recv'[target'].bAuFound /\ recv'[target'].bStreamEnd
               /\ recv'[target'].bReady = recv[target'].bReady
               /\ recv'[target'].auDoneNum = recv[target'].auDoneNum
               /\ Signal(target') /\ Elsewhere(recv', recv, target')
            \/ /\ \A r \in Stream : r <= target
               /\ DmuxOver /\ target' = target /\ pc' = pc /\ recv' = recv
<1> DEFINE next == { r \in Stream : r > target }
<1>1. stat' = stat
  BY DEF Done
<1>2. CASE next = {} /\ DmuxOver /\ UNCHANGED << target, pc, recv >>
  <2>1. target \in Nat
    BY Kinds DEF TypeInv, ControlTypes, None
  <2> QED
    BY <1>1, <1>2, <2>1, Kinds DEF TypeInv, ControlTypes
<1>3. CASE /\ next # {} /\ target' = First(next)
           /\ Signal(target')
           /\ recv' = [recv EXCEPT ![target'].bAuFound = TRUE, ![target'].bStreamEnd = TRUE]
           /\ UNCHANGED << dpc, errorCode >>
  <2>1. PICK m \in next : \A n \in next : m <= n
    BY <1>3, Least, Kinds
  <2>2. target' \in next /\ \A n \in next : target' <= n
    BY <1>3, <2>1 DEF First
  <2>3. dpc = "done"
    BY DEF Done
  <2>4. target \in Nat /\ target' \in Stream
    BY <2>2, Kinds DEF TypeInv, ControlTypes, None
  <2>5. \A r \in Stream : r <= target' => r <= target \/ r = target'
    BY <2>2, <2>4, Kinds
  <2>6. PICK t \in Stream : t = target'
    BY <2>4
  <2>7. recv' = [recv EXCEPT ![t].bAuFound = TRUE, ![t].bStreamEnd = TRUE]
    BY <1>3, <2>6
  <2>8. /\ recv' \in [Stream -> Status] /\ Elsewhere(recv', recv, t)
        /\ recv'[t].bAuFound /\ recv'[t].bStreamEnd /\ recv'[t].bReady = recv[t].bReady
        /\ recv'[t].auDoneNum = recv[t].auDoneNum
    BY <2>7, StatusTypes DEF Status, Elsewhere
  <2> QED
    BY <1>1, <1>3, <2>2, <2>3, <2>4, <2>5, <2>6, <2>8
<1> QED
  BY <1>2, <1>3 DEF Done

LEMMA ReceivedStatus ==
  ASSUME TypeInv, NEW s \in Stream
  PROVE  /\ Received(s) \in Status
         /\ Received(s).bAuFound <=> recv[s].bAuFound \/ stat[s].bAuFound
         /\ Received(s).bReady <=> recv[s].bReady \/ stat[s].bReady
         /\ Received(s).bStreamEnd = recv[s].bStreamEnd
         /\ Received(s).auDoneNum = recv[s].auDoneNum
<1>1. recv[s] \in Status /\ stat[s] \in Status
  BY DEF TypeInv, ControlTypes
<1> DEFINE a == recv[s].bAuFound \/ stat[s].bAuFound
           b == recv[s].bReady \/ stat[s].bReady
<1>2. Received(s) = [recv[s] EXCEPT !.bReady = b, !.bAuFound = a]
  BY DEF Received
<1>3. a \in BOOLEAN /\ b \in BOOLEAN
  OBVIOUS
<1> HIDE DEF a, b
<1>4. /\ Received(s) \in Status /\ Received(s).bAuFound = a /\ Received(s).bReady = b
      /\ Received(s).bStreamEnd = recv[s].bStreamEnd /\ Received(s).auDoneNum = recv[s].auDoneNum
  BY <1>1, <1>2, <1>3 DEF Status
<1> QED
  BY <1>4 DEF a, b

LEMMA WaitEffect ==
  ASSUME TypeInv, NEW s \in Stream, Wait(s)
  PROVE  /\ recv' \in [Stream -> Status] /\ Elsewhere(recv', recv, s)
         /\ stat' \in [Stream -> Status] /\ Elsewhere(stat', stat, s)
         /\ errorCode' \in Errors /\ \A r \in Stream \cup {None} : r # s => errorCode'[r] = errorCode[r]
         /\ pc[s] = "wait" /\ \A r \in Stream : r # s => pc'[r] = pc[r]
         /\ recv'[s].bStreamEnd = recv[s].bStreamEnd
         /\ \/ /\ Sleeps(s, Received(s)) /\ pc' = [pc EXCEPT ![s] = "going"]
               /\ recv'[s] = Received(s) /\ stat' = stat /\ errorCode' = errorCode
            \/ /\ ~Sleeps(s, Received(s)) /\ stat'[s] = Received(s)
               /\ ~recv'[s].bAuFound /\ ~recv'[s].bReady /\ recv'[s].auDoneNum = 0
               /\ \/ /\ errorCode[s] = "error" \/ (errorCode[s] = "invalid" /\ ~mode_exec)
                     /\ pc' = [pc EXCEPT ![s] = "over"] /\ Ends(s)
                  \/ /\ ~(errorCode[s] = "error" \/ (errorCode[s] = "invalid" /\ ~mode_exec))
                     /\ pc' = [pc EXCEPT ![s] = IF errorCode[s] = "ok" THEN "last" ELSE "work"]
                     /\ errorCode' = errorCode
<1> DEFINE r == Received(s)
<1>1. /\ r \in Status /\ r.bStreamEnd = recv[s].bStreamEnd
  BY ReceivedStatus
<1>2. ControlTypes
  BY DEF TypeInv
<1>3. CASE /\ Sleeps(s, r) /\ pc' = [pc EXCEPT ![s] = "going"] /\ recv' = [recv EXCEPT ![s] = r]
           /\ UNCHANGED << stat, errorCode >>
  <2> HIDE DEF r
  <2>1. recv' \in [Stream -> Status] /\ Elsewhere(recv', recv, s) /\ recv'[s] = r
    BY <1>1, <1>2, <1>3 DEF ControlTypes, Elsewhere
  <2>2. pc[s] = "wait"
    BY DEF Wait
  <2>3. \A t \in Stream : t # s => pc'[t] = pc[t]
    BY <1>2, <1>3 DEF ControlTypes
  <2>4. errorCode' \in Errors /\ \A t \in Stream \cup {None} : t # s => errorCode'[t] = errorCode[t]
    BY <1>2, <1>3 DEF ControlTypes, Errors
  <2>5. stat' \in [Stream -> Status] /\ Elsewhere(stat', stat, s)
    BY <1>2, <1>3 DEF ControlTypes, Elsewhere
  <2> QED
    BY <1>1, <1>3, <2>1, <2>2, <2>3, <2>4, <2>5, Zenon DEF r
<1>4. CASE /\ ~Sleeps(s, r) /\ stat' = [stat EXCEPT ![s] = r] /\ recv' = [recv EXCEPT ![s] = Taken(s, r)]
           /\ IF errorCode[s] = "error" \/ (errorCode[s] = "invalid" /\ ~mode_exec)
              THEN pc' = [pc EXCEPT ![s] = "over"] /\ Ends(s)
              ELSE /\ pc' = [pc EXCEPT ![s] = IF errorCode[s] = "ok" THEN "last" ELSE "work"]
                   /\ UNCHANGED errorCode
  <2> HIDE DEF r
  <2>0. /\ Taken(s, r) \in Status /\ Taken(s, r).bStreamEnd = recv[s].bStreamEnd
        /\ Taken(s, r).bAuFound = FALSE /\ Taken(s, r).bReady = FALSE /\ Taken(s, r).auDoneNum = 0
    BY <1>1 DEF Taken, Status
  <2>1. recv' \in [Stream -> Status] /\ Elsewhere(recv', recv, s) /\ recv'[s] = Taken(s, r)
    BY <2>0, <1>2, <1>4 DEF ControlTypes, Elsewhere
  <2>2. pc[s] = "wait"
    BY DEF Wait
  <2>3. \A t \in Stream : t # s => pc'[t] = pc[t]
    BY <1>2, <1>4 DEF ControlTypes
  <2>4. errorCode' \in Errors /\ \A t \in Stream \cup {None} : t # s => errorCode'[t] = errorCode[t]
    BY <1>2, <1>4, EndsTypes DEF ControlTypes, Errors
  <2>5. stat' \in [Stream -> Status] /\ Elsewhere(stat', stat, s) /\ stat'[s] = r
    BY <1>1, <1>2, <1>4 DEF ControlTypes, Elsewhere
  <2> QED
    BY <1>1, <1>4, <2>0, <2>1, <2>2, <2>3, <2>4, <2>5, Zenon DEF r
<1> QED
  BY <1>3, <1>4 DEF Wait

LEMMA ReleaseEffect ==
  ASSUME TypeInv, NEW s \in Stream, Release(s)
  PROVE  /\ stat' \in [Stream -> Status] /\ Elsewhere(stat', stat, s) /\ recv' = recv /\ pc' = pc
         /\ stat'[s].auDoneNum = stat[s].auDoneNum - 1 /\ stat[s].auDoneNum > 0
         /\ stat'[s].bAuFound = stat[s].bAuFound /\ stat'[s].bReady = stat[s].bReady
         /\ stat'[s].bStreamEnd = stat[s].bStreamEnd
<1>1. /\ stat[s].auDoneNum > 0 /\ stat' = [stat EXCEPT ![s].auDoneNum = @ - 1]
      /\ UNCHANGED << recv, pc >>
  BY DEF Release
<1> QED
  BY <1>1, StatusTypes DEF Status, Elsewhere

LEMMA NoAuEffect ==
  ASSUME TypeInv, NEW s \in Stream, NoAu(s)
  PROVE  /\ stat' \in [Stream -> Status] /\ Elsewhere(stat', stat, s)
         /\ ~stat'[s].bAuFound /\ stat'[s].bReady = stat[s].bReady
         /\ stat'[s].bStreamEnd = stat[s].bStreamEnd /\ stat'[s].auDoneNum = stat[s].auDoneNum
         /\ recv' \in [Stream -> Status] /\ Elsewhere(recv', recv, s)
         /\ recv'[s].bReady = recv[s].bReady /\ recv'[s].auDoneNum = recv[s].auDoneNum
         /\ \/ /\ stat[s].bStreamEnd /\ ~recv'[s].bAuFound /\ ~recv'[s].bStreamEnd
               /\ pc' = [pc EXCEPT ![s] = "endseq"] /\ errorCode' = errorCode
            \/ ~stat[s].bStreamEnd /\ recv' = recv /\ Turn(s)
<1>1. /\ stat' \in [Stream -> Status] /\ Elsewhere(stat', stat, s)
      /\ ~stat'[s].bAuFound /\ stat'[s].bReady = stat[s].bReady
      /\ stat'[s].bStreamEnd = stat[s].bStreamEnd /\ stat'[s].auDoneNum = stat[s].auDoneNum
  <2>1. stat' = [stat EXCEPT ![s].bAuFound = FALSE]
    BY DEF NoAu
  <2> QED
    BY <2>1, StatusTypes DEF Status, Elsewhere
<1>2. CASE stat[s].bStreamEnd
  <2>1. /\ recv' = [recv EXCEPT ![s].bAuFound = FALSE, ![s].bStreamEnd = FALSE]
        /\ pc' = [pc EXCEPT ![s] = "endseq"] /\ errorCode' = errorCode
    BY <1>2 DEF NoAu
  <2>2. /\ recv' \in [Stream -> Status] /\ Elsewhere(recv', recv, s)
        /\ ~recv'[s].bAuFound /\ ~recv'[s].bStreamEnd
        /\ recv'[s].bReady = recv[s].bReady /\ recv'[s].auDoneNum = recv[s].auDoneNum
    BY <2>1, StatusTypes DEF Status, Elsewhere
  <2> QED
    BY <1>1, <1>2, <2>1, <2>2, Zenon
<1>3. CASE ~stat[s].bStreamEnd
  <2>1. recv' = recv /\ Turn(s)
    BY <1>3 DEF NoAu
  <2>2. recv' \in [Stream -> Status] /\ Elsewhere(recv', recv, s)
    BY <2>1 DEF TypeInv, ControlTypes, Elsewhere
  <2> QED
    BY <1>1, <1>3, <2>1, <2>2, Zenon
<1> QED
  BY <1>2, <1>3

LEMMA BusyEffect ==
  ASSUME TypeInv, NEW s \in Stream, Busy(s)
  PROVE  /\ stat' \in [Stream -> Status] /\ Elsewhere(stat', stat, s) /\ recv' = recv
         /\ stat'[s].auDoneNum = stat[s].auDoneNum /\ ~stat'[s].bReady
         /\ stat'[s].bAuFound = stat[s].bAuFound /\ stat'[s].bStreamEnd = stat[s].bStreamEnd
<1>1. stat' = [stat EXCEPT ![s].bReady = FALSE] /\ recv' = recv
  BY DEF Busy
<1> QED
  BY <1>1, StatusTypes DEF Status, Elsewhere

LEMMA AuDoneEffect ==
  ASSUME TypeInv, NEW s \in Stream, AuDone(s)
  PROVE  /\ recv' \in [Stream -> Status] /\ Elsewhere(recv', recv, s) /\ stat' = stat
         /\ recv'[s].auDoneNum = recv[s].auDoneNum + 1
         /\ recv'[s].bReady <=> recv[s].bReady \/ s # Audio
         /\ recv'[s].bAuFound = recv[s].bAuFound /\ recv'[s].bStreamEnd = recv[s].bStreamEnd
<1> DEFINE b == recv[s].bReady \/ s # Audio
<1>1. recv' = [recv EXCEPT ![s].auDoneNum = recv[s].auDoneNum + 1, ![s].bReady = b] /\ stat' = stat
  BY DEF AuDone
<1>2. b \in BOOLEAN
  OBVIOUS
<1> HIDE DEF b
<1>3. /\ recv' \in [Stream -> Status] /\ Elsewhere(recv', recv, s)
      /\ recv'[s].auDoneNum = recv[s].auDoneNum + 1 /\ recv'[s].bReady = b
      /\ recv'[s].bAuFound = recv[s].bAuFound /\ recv'[s].bStreamEnd = recv[s].bStreamEnd
  <2>1. recv[s].auDoneNum + 1 \in Nat /\ recv \in [Stream -> Status]
    BY DEF TypeInv, ControlTypes, Status
  <2> QED
    BY <1>1, <1>2, <2>1 DEF Status, Elsewhere
<1> QED
  BY <1>1, <1>3 DEF b

LEMMA PcmOutEffect ==
  ASSUME TypeInv, PcmOut
  PROVE  /\ recv' \in [Stream -> Status] /\ Elsewhere(recv', recv, Audio) /\ stat' = stat
         /\ recv'[Audio].auDoneNum = recv[Audio].auDoneNum /\ recv'[Audio].bReady
         /\ recv'[Audio].bAuFound = recv[Audio].bAuFound
         /\ recv'[Audio].bStreamEnd = recv[Audio].bStreamEnd
<1>1. recv' = [recv EXCEPT ![Audio].bReady = TRUE] /\ stat' = stat
  BY DEF PcmOut
<1> QED
  BY <1>1, StatusTypes, Kinds DEF Status, Elsewhere

LEMMA StepControlTypes == TypeInv /\ ReadInv /\ [Next]_vars => ControlTypes'
<1> SUFFICES ASSUME TypeInv, ReadInv, [Next]_vars PROVE ControlTypes'
  OBVIOUS
<1> USE Kinds DEF ControlTypes
<1>0. ControlTypes /\ errorCode \in Errors /\ pc \in [Stream -> Places] /\ target \in Stream \cup {None}
  BY DEF TypeInv, Errors, Places
<1>1. CASE DmuxWait
  BY <1>0, <1>1 DEF DmuxWait, DmuxSleeps, DmuxOver, Ends, vars, control, demux, parser, queues,
     decoder, library
<1>2. CASE DmuxSleep
  BY <1>0, <1>2 DEF DmuxSleep, vars, control, demux, parser, queues, decoder, library
<1>3. CASE ReadFails
  BY <1>0, <1>3 DEF ReadFails, DmuxOver, Ends, vars, control, demux, parser, queues, decoder,
     library
<1>4. CASE ReadDefault
  <2>1. target \in Stream
    BY <1>4 DEF ReadInv, ReadDefault
  <2>2. UNCHANGED << mode_exec, is_bg_video, dRecv, target, pc, recv, stat, ended, pcm >>
    BY <1>4 DEF ReadDefault, control, decoder, library
  <2>3. parseSyncSearch' \in [Stream -> BOOLEAN]
    BY <1>0, <1>4 DEF ReadDefault
  <2>4. \/ ReturnsOk(target) \/ ReturnsFull(target)
        \/ dpc' = "notify" /\ UNCHANGED << parseLastError, dStat, positionIndex, errorCode >>
    BY <1>4 DEF ReadDefault, Push
  <2>5. CASE ReturnsOk(target)
    BY <1>0, <2>1, <2>2, <2>3, <2>5, ReturnsOkTypes DEF Errors
  <2>6. CASE ReturnsFull(target)
    BY <1>0, <2>1, <2>2, <2>3, <2>6, ReturnsFullTypes DEF Errors
  <2>7. CASE dpc' = "notify" /\ UNCHANGED << parseLastError, dStat, positionIndex, errorCode >>
    BY <1>0, <2>2, <2>3, <2>7
  <2> QED
    BY <2>4, <2>5, <2>6, <2>7
<1>5. CASE Parse
  <2>1. target \in Stream
    BY <1>5 DEF ReadInv, Parse
  <2>2. UNCHANGED << mode_exec, is_bg_video, dRecv, target, pc, recv, stat, ended, pcm >>
    BY <1>5 DEF Parse, control, decoder, library
  <2>3. parseSyncSearch' \in [Stream -> BOOLEAN]
    <3>1. parseSyncSearch' \in {parseSyncSearch, [parseSyncSearch EXCEPT ![target] = TRUE]}
      BY <1>5 DEF Parse
    <3> QED
      BY <1>0, <2>1, <3>1
  <2>4. \/ ReturnsOk(target) \/ ReturnsFull(target)
        \/ dpc' = "notify" /\ UNCHANGED << parseLastError, dStat, positionIndex, errorCode >>
    BY <1>5 DEF Parse, Push
  <2>5. CASE ReturnsOk(target)
    BY <1>0, <2>1, <2>2, <2>3, <2>5, ReturnsOkTypes DEF Errors
  <2>6. CASE ReturnsFull(target)
    BY <1>0, <2>1, <2>2, <2>3, <2>6, ReturnsFullTypes DEF Errors
  <2>7. CASE dpc' = "notify" /\ UNCHANGED << parseLastError, dStat, positionIndex, errorCode >>
    BY <1>0, <2>2, <2>3, <2>7
  <2> QED
    BY <2>4, <2>5, <2>6, <2>7
<1>6. CASE Notify
  <2>1. /\ target \in Stream /\ recv' \in [Stream -> Status] /\ pc' \in [Stream -> Places]
    BY <1>0, <1>6, NotifyEffect, SignalTypes
  <2>2. UNCHANGED << mode_exec, is_bg_video, dRecv, target, stat, ended, pcm >>
    BY <1>6 DEF Notify, control, library
  <2>3. CASE target \in Framed
    BY <1>0, <1>6, <2>1, <2>2, <2>3 DEF Notify, Places
  <2>4. CASE target \notin Framed
    <3>1. ReturnsOk(target) /\ UNCHANGED parseSyncSearch
      BY <1>6, <2>4 DEF Notify
    <3> QED
      BY <1>0, <2>1, <2>2, <3>1, ReturnsOkTypes DEF Places, Errors
  <2> QED
    BY <2>3, <2>4
<1>7. CASE Done
  <2>1. UNCHANGED << mode_exec, is_bg_video, dRecv, dStat, parseLastError, positionIndex,
                     parseSyncSearch, ended, pcm >>
    BY <1>7 DEF Done, control, parser, library
  <2>2. recv' \in [Stream -> Status] /\ stat' = stat
    BY <1>7, DoneEffect
  <2>3. CASE /\ target' \in Stream /\ dpc' = "done" /\ errorCode' = errorCode /\ Signal(target')
    <3>1. pc' \in [Stream -> Places]
      BY <1>0, <2>3, SignalTypes
    <3> QED
      BY <1>0, <2>1, <2>2, <2>3, <3>1 DEF Places, Errors
  <2>4. CASE DmuxOver /\ target' = target /\ pc' = pc
    <3>1. errorCode' \in Errors /\ dpc' = "over"
      BY <1>0, <2>4, EndsTypes DEF DmuxOver
    <3> QED
      BY <1>0, <2>1, <2>2, <2>4, <3>1 DEF Errors
  <2> QED
    BY <1>7, <2>3, <2>4, DoneEffect
<1>8. CASE DmuxExit
  <2>1. UNCHANGED << is_bg_video, errorCode, dRecv, dStat, target, recv, stat, parseLastError, positionIndex,
                     parseSyncSearch, ended, pcm >>
    BY <1>8 DEF DmuxExit, parser, library
  <2>2. mode_exec' = FALSE /\ pc' \in [Stream -> Places] /\ dpc' \in {"gone", "wait"}
    BY <1>0, <1>8, ExitTypes DEF DmuxExit, DmuxPlaces
  <2> QED
    BY <1>0, <2>1, <2>2 DEF Places
<1>9. ASSUME NEW s \in Stream, Wait(s) PROVE ControlTypes'
  <2>1. UNCHANGED << mode_exec, is_bg_video, dpc, dRecv, dStat, target, parseLastError,
                     positionIndex, parseSyncSearch, ended, pcm >>
    BY <1>9 DEF Wait, control, demux, parser, library
  <2>2. recv' \in [Stream -> Status] /\ stat' \in [Stream -> Status] /\ errorCode' \in Errors
    BY <1>9, WaitEffect
  <2>3. pc' \in [Stream -> Places]
    <3>1. \E p \in Places : pc' = [pc EXCEPT ![s] = p]
      BY <1>9, WaitEffect DEF Places
    <3> QED
      BY <1>0, <3>1
  <2> QED
    BY <1>0, <2>1, <2>2, <2>3 DEF Errors, Places
<1>10. ASSUME NEW s \in Stream, Sleep(s) PROVE ControlTypes'
  BY <1>0, <1>10 DEF Sleep, vars, control, demux, parser, queues, decoder, library
<1>11. ASSUME NEW s \in Stream, Release(s) PROVE ControlTypes'
  <2>1. UNCHANGED << mode_exec, is_bg_video, dStat, target, errorCode, parseLastError,
                     positionIndex, parseSyncSearch, ended, pcm >>
    BY <1>11 DEF Release, control, parser, library
  <2>2. recv' = recv /\ stat' \in [Stream -> Status] /\ pc' = pc
    BY <1>11, ReleaseEffect
  <2>3. dRecv' = TRUE /\ dpc' \in {dpc, "wait"}
    BY <1>11 DEF Release, Woken
  <2> QED
    BY <1>0, <2>1, <2>2, <2>3
<1>12. ASSUME NEW s \in Stream, ReleaseFails(s) PROVE ControlTypes'
  BY <1>0, <1>12 DEF ReleaseFails, Fault, vars, control, demux, parser, queues, decoder, library
<1>13. ASSUME NEW s \in Stream, LastReleased(s) PROVE ControlTypes'
  BY <1>0, <1>13 DEF LastReleased, vars, control, demux, parser, queues, decoder, library
<1>14. ASSUME NEW s \in Stream, GetAu(s) PROVE ControlTypes'
  BY <1>0, <1>14 DEF GetAu, Goes, Turn, Fault, vars, control, demux, parser, queues, decoder,
     library
<1>15. ASSUME NEW s \in Stream, NoAu(s) PROVE ControlTypes'
  <2>1. UNCHANGED << mode_exec, is_bg_video, dpc, dRecv, dStat, target, parseLastError,
                     positionIndex, parseSyncSearch, ended, pcm >>
    BY <1>15 DEF NoAu, control, demux, parser, library
  <2>2. recv' \in [Stream -> Status] /\ stat' \in [Stream -> Status]
    BY <1>15, NoAuEffect
  <2>3. (pc' = [pc EXCEPT ![s] = "endseq"] /\ errorCode' = errorCode) \/ Turn(s)
    BY <1>15, NoAuEffect
  <2>4. pc' \in [Stream -> Places] /\ errorCode' \in Errors
    BY <1>0, <2>3, TurnTypes DEF Places
  <2> QED
    BY <1>0, <2>1, <2>2, <2>4 DEF Errors, Places
<1>16. ASSUME NEW s \in Stream, EndSeq(s) PROVE ControlTypes'
  BY <1>0, <1>16 DEF EndSeq, Turn, Fault, vars, control, demux, parser, queues, decoder, library
<1>17. ASSUME NEW s \in Stream, KeepsAu(s) PROVE ControlTypes'
  BY <1>0, <1>17 DEF KeepsAu, Goes, Turn, Fault, vars, control, demux, parser, queues, decoder,
     library
<1>18. ASSUME NEW s \in Stream, NothingNew(s) PROVE ControlTypes'
  BY <1>0, <1>18 DEF NothingNew, Turn, Fault, vars, control, demux, parser, queues, decoder, library
<1>19. ASSUME NEW s \in Stream, DecodeAu(s) PROVE ControlTypes'
  BY <1>0, <1>19 DEF DecodeAu, Turn, Fault, vars, control, demux, parser, queues, decoder, library
<1>20. ASSUME NEW s \in Stream, Busy(s) PROVE ControlTypes'
  <2>1. UNCHANGED << mode_exec, is_bg_video, dpc, dRecv, dStat, target, parseLastError,
                     positionIndex, parseSyncSearch, ended, pcm >> /\ Turn(s)
    BY <1>20 DEF Busy, control, demux, parser, library
  <2>2. recv' = recv /\ stat' \in [Stream -> Status]
    BY <1>20, BusyEffect
  <2>3. pc' \in [Stream -> Places] /\ errorCode' \in Errors
    BY <1>0, <2>1, TurnTypes
  <2> QED
    BY <1>0, <2>1, <2>2, <2>3 DEF Errors, Places
<1>21. ASSUME NEW s \in Stream, LibraryRefuses(s) PROVE ControlTypes'
  BY <1>0, <1>21 DEF LibraryRefuses, Fault, vars, control, demux, parser, queues, decoder, library
<1>22. ASSUME NEW s \in Stream, DecoderExit(s) PROVE ControlTypes'
  BY <1>0, <1>22 DEF DecoderExit, ErrorExit, Woken, vars, control, demux, parser, queues, decoder,
     library
<1>23. ASSUME NEW s \in Stream, AuDone(s) PROVE ControlTypes'
  <2>1. UNCHANGED << mode_exec, is_bg_video, dpc, dRecv, dStat, target, parseLastError,
                     positionIndex, parseSyncSearch, ended, errorCode >> /\ Signal(s)
    BY <1>23 DEF AuDone, control, demux, parser
  <2>2. recv' \in [Stream -> Status] /\ stat' = stat
    BY <1>23, AuDoneEffect
  <2>3. pc' \in [Stream -> Places]
    BY <1>0, <2>1, SignalTypes
  <2>4. pcm' \in 0 .. LibSize
    <3>1. /\ lib[s] # << >> /\ pcm' = IF s = Audio THEN pcm + 1 ELSE pcm
          /\ lib[s] \in Seq([buffer : Buffers(s), au : AuOf(s)]) /\ Held(s) <= LibSize
      BY <1>23 DEF AuDone, TypeInv, StreamTypes
    <3>2. Len(lib[s]) \in Nat /\ Len(lib[s]) > 0
      BY <3>1
    <3> HIDE DEF ControlTypes
    <3>3. CASE s = Audio
      <4>1. Len(lib[s]) + pcm <= LibSize /\ pcm \in Nat
        BY <1>0, <3>1, <3>3 DEF Held, ControlTypes
      <4> QED
        BY <3>1, <3>2, <3>3, <4>1
    <3>4. CASE s # Audio
      BY <1>0, <3>1, <3>4 DEF ControlTypes
    <3> QED
      BY <3>3, <3>4
  <2> QED
    BY <1>0, <2>1, <2>2, <2>3, <2>4 DEF Errors, Places
<1>24. CASE PcmOut
  <2>1. UNCHANGED << mode_exec, is_bg_video, dpc, dRecv, dStat, target, parseLastError,
                     positionIndex, parseSyncSearch, ended,
                     errorCode >> /\ Signal(Audio) /\ pcm > 0 /\ pcm' = pcm - 1
    BY <1>24 DEF PcmOut, control, demux, parser
  <2>2. recv' \in [Stream -> Status] /\ stat' = stat
    BY <1>24, PcmOutEffect
  <2>3. pc' \in [Stream -> Places]
    BY <1>0, <2>1, SignalTypes
  <2> QED
    BY <1>0, <2>1, <2>2, <2>3 DEF Errors, Places
<1>25. ASSUME NEW s \in Stream, SeqDone(s) PROVE ControlTypes'
  BY <1>0, <1>25 DEF SeqDone, Signal, Woken, vars, control, demux, parser, queues, decoder, library
<1>26. ASSUME NEW s \in Stream, LibraryFails(s) PROVE ControlTypes'
  BY <1>0, <1>26 DEF LibraryFails, Signal, Woken, vars, control, demux, parser, queues, decoder,
     library
<1>27. CASE Close
  BY <1>0, <1>27 DEF Close, vars, control, demux, parser, queues, decoder, library
<1>28. CASE SysutilCb
  <2>1. UNCHANGED << is_bg_video, errorCode, dRecv, dStat, target, recv, stat, parseLastError, positionIndex,
                     parseSyncSearch, ended, pcm >>
    BY <1>28 DEF SysutilCb, parser, library
  <2>2. mode_exec' = FALSE /\ pc' \in [Stream -> Places] /\ dpc' \in {dpc, "wait"}
    BY <1>0, <1>28, ExitTypes DEF SysutilCb, DmuxPlaces
  <2> QED
    BY <1>0, <2>1, <2>2 DEF Places
<1>29. CASE UNCHANGED vars
  BY <1>0, <1>29 DEF vars, control, demux, parser, queues, decoder, library
<1> QED
  BY <1>1, <1>2, <1>3, <1>4, <1>5, <1>6, <1>7, <1>8, <1>9, <1>10, <1>11, <1>12, <1>13, <1>14,
     <1>15, <1>16, <1>17, <1>18, <1>19, <1>20, <1>21, <1>22, <1>23, <1>24, <1>25, <1>26, <1>27,
     <1>28, <1>29 DEF Next, Dmux, Decoder, Fails
-----------------------------------------------------------------------------
(***************************************************************************)
(* What the steps do that move AUs.                                        *)
(***************************************************************************)
\* Nothing is moved, read or decoded.
Untouched == UNCHANGED << queues, parseBuffer, pAuInfo, lib, given, pcm >>

LEMMA Movers ==
  ASSUME [Next]_vars
  PROVE  \/ Untouched \/ ReadDefault \/ Parse \/ PcmOut
         \/ \E s \in Stream : Release(s) \/ GetAu(s) \/ DecodeAu(s) \/ AuDone(s)
<1> USE DEF queues, library, demux, parser, decoder, control
<1>1. CASE DmuxWait
  BY <1>1 DEF DmuxWait, Untouched
<1>2. CASE DmuxSleep
  BY <1>2 DEF DmuxSleep, Untouched
<1>3. CASE ReadFails
  BY <1>3 DEF ReadFails, Untouched
<1>4. CASE Notify
  BY <1>4 DEF Notify, Untouched
<1>5. CASE Done
  BY <1>5 DEF Done, Untouched
<1>6. CASE DmuxExit
  BY <1>6 DEF DmuxExit, Untouched
<1>7. ASSUME NEW s \in Stream, Wait(s) PROVE Untouched
  BY <1>7 DEF Wait, Untouched
<1>8. ASSUME NEW s \in Stream, Sleep(s) PROVE Untouched
  BY <1>8 DEF Sleep, Untouched
<1>9. ASSUME NEW s \in Stream, ReleaseFails(s) PROVE Untouched
  BY <1>9 DEF ReleaseFails, Untouched
<1>10. ASSUME NEW s \in Stream, LastReleased(s) PROVE Untouched
  BY <1>10 DEF LastReleased, Untouched
<1>11. ASSUME NEW s \in Stream, NoAu(s) PROVE Untouched
  BY <1>11 DEF NoAu, Untouched
<1>12. ASSUME NEW s \in Stream, EndSeq(s) PROVE Untouched
  BY <1>12 DEF EndSeq, Untouched
<1>13. ASSUME NEW s \in Stream, KeepsAu(s) PROVE Untouched
  BY <1>13 DEF KeepsAu, Untouched
<1>14. ASSUME NEW s \in Stream, NothingNew(s) PROVE Untouched
  BY <1>14 DEF NothingNew, Untouched
<1>15. ASSUME NEW s \in Stream, Busy(s) PROVE Untouched
  BY <1>15 DEF Busy, Untouched
<1>16. ASSUME NEW s \in Stream, LibraryRefuses(s) PROVE Untouched
  BY <1>16 DEF LibraryRefuses, Untouched
<1>17. ASSUME NEW s \in Stream, DecoderExit(s) PROVE Untouched
  BY <1>17 DEF DecoderExit, Untouched
<1>18. ASSUME NEW s \in Stream, SeqDone(s) PROVE Untouched
  BY <1>18 DEF SeqDone, Untouched
<1>19. ASSUME NEW s \in Stream, LibraryFails(s) PROVE Untouched
  BY <1>19 DEF LibraryFails, Untouched
<1>20. CASE Close
  BY <1>20 DEF Close, Untouched
<1>21. CASE SysutilCb
  BY <1>21 DEF SysutilCb, Untouched
<1>22. CASE UNCHANGED vars
  BY <1>22 DEF vars, Untouched
<1> QED
  BY <1>1, <1>2, <1>3, <1>4, <1>5, <1>6, <1>7, <1>8, <1>9, <1>10, <1>11, <1>12, <1>13, <1>14,
     <1>15, <1>16, <1>17, <1>18, <1>19, <1>20, <1>21, <1>22, Zenon DEF Next, Dmux, Decoder, Fails

LEMMA PushEffect ==
  ASSUME TypeInv, NEW s \in Stream, NEW c \in AuOf(s), auWriteQueue[s] # << >>, Push(s, c)
  PROVE  LET b == Head(auWriteQueue[s]) IN
         /\ b \in Buffers(s)
         /\ auWriteQueue'[s] = Tail(auWriteQueue[s]) /\ auReadQueue'[s] = Append(auReadQueue[s], b)
         /\ auAddr'[s] = [auAddr[s] EXCEPT ![b] = c] /\ auReleaseQueue' = auReleaseQueue
         /\ Elsewhere(auWriteQueue', auWriteQueue, s) /\ Elsewhere(auReadQueue', auReadQueue, s)
         /\ Elsewhere(auAddr', auAddr, s)
         /\ DOMAIN auWriteQueue' = Stream /\ DOMAIN auReadQueue' = Stream /\ DOMAIN auAddr' = Stream
         /\ auAddr'[s] \in [Buffers(s) -> AuOf(s)]
<1> DEFINE b == Head(auWriteQueue[s])
<1>1. Domains /\ StreamTypes(s)
  BY DEF TypeInv
<1>2. b \in Buffers(s)
  BY <1>1 DEF StreamTypes
<1>3. /\ auWriteQueue' = [auWriteQueue EXCEPT ![s] = Tail(auWriteQueue[s])]
      /\ auAddr' = [auAddr EXCEPT ![s] = [auAddr[s] EXCEPT ![b] = c]]
      /\ auReadQueue' = [auReadQueue EXCEPT ![s] = Append(auReadQueue[s], b)]
      /\ UNCHANGED auReleaseQueue
  BY DEF Push
<1> HIDE DEF b
<1>4. [auAddr[s] EXCEPT ![b] = c] \in [Buffers(s) -> AuOf(s)]
  BY <1>1, <1>2 DEF StreamTypes
<1>5. /\ auWriteQueue'[s] = Tail(auWriteQueue[s]) /\ Elsewhere(auWriteQueue', auWriteQueue, s)
      /\ DOMAIN auWriteQueue' = Stream
  BY <1>1, <1>3 DEF Elsewhere, Domains
<1>6. /\ auReadQueue'[s] = Append(auReadQueue[s], b) /\ Elsewhere(auReadQueue', auReadQueue, s)
      /\ DOMAIN auReadQueue' = Stream
  BY <1>1, <1>3 DEF Elsewhere, Domains
<1>7. /\ auAddr'[s] = [auAddr[s] EXCEPT ![b] = c] /\ Elsewhere(auAddr', auAddr, s)
      /\ DOMAIN auAddr' = Stream
  BY <1>1, <1>3 DEF Elsewhere, Domains
<1> QED
  BY <1>2, <1>3, <1>4, <1>5, <1>6, <1>7 DEF b

LEMMA ReleaseMoves ==
  ASSUME TypeInv, NEW s \in Stream, Release(s)
  PROVE  LET b == Head(auReleaseQueue[s]) IN
         /\ b \in Buffers(s) /\ auReleaseQueue[s] # << >>
         /\ auReleaseQueue'[s] = Tail(auReleaseQueue[s]) /\ auWriteQueue'[s] = Append(auWriteQueue[s], b)
         /\ Elsewhere(auReleaseQueue', auReleaseQueue, s) /\ Elsewhere(auWriteQueue', auWriteQueue, s)
         /\ DOMAIN auReleaseQueue' = Stream /\ DOMAIN auWriteQueue' = Stream
         /\ UNCHANGED << auReadQueue, auAddr, pAuInfo, lib, given, pcm, parseBuffer >>
<1>1. Domains /\ StreamTypes(s) /\ auReleaseQueue[s] # << >>
  BY DEF TypeInv, Release
<1>2. Head(auReleaseQueue[s]) \in Buffers(s)
  BY <1>1 DEF StreamTypes
<1>3. /\ auReleaseQueue' = [auReleaseQueue EXCEPT ![s] = Tail(auReleaseQueue[s])]
      /\ auWriteQueue' = [auWriteQueue EXCEPT ![s] = Append(auWriteQueue[s], Head(auReleaseQueue[s]))]
      /\ UNCHANGED << auReadQueue, auAddr, pAuInfo, lib, given, pcm, parseBuffer >>
  BY DEF Release, library, parser
<1> QED
  BY <1>1, <1>2, <1>3 DEF Elsewhere, Domains

LEMMA GetAuMoves ==
  ASSUME TypeInv, NEW s \in Stream, GetAu(s)
  PROVE  LET b == Head(auReadQueue[s]) IN
         /\ b \in Buffers(s) /\ auReadQueue[s] # << >> /\ pAuInfo[s] = None
         /\ auReadQueue'[s] = Tail(auReadQueue[s]) /\ auReleaseQueue'[s] = Append(auReleaseQueue[s], b)
         /\ pAuInfo'[s] = b
         /\ Elsewhere(auReadQueue', auReadQueue, s) /\ Elsewhere(auReleaseQueue', auReleaseQueue, s)
         /\ Elsewhere(pAuInfo', pAuInfo, s)
         /\ DOMAIN auReadQueue' = Stream /\ DOMAIN auReleaseQueue' = Stream /\ DOMAIN pAuInfo' = Stream
         /\ UNCHANGED << auWriteQueue, auAddr, lib, given, pcm, parseBuffer >>
<1>1. Domains /\ StreamTypes(s) /\ auReadQueue[s] # << >> /\ pAuInfo[s] = None
  BY DEF TypeInv, GetAu
<1>2. Head(auReadQueue[s]) \in Buffers(s)
  BY <1>1 DEF StreamTypes
<1>3. /\ pAuInfo' = [pAuInfo EXCEPT ![s] = Head(auReadQueue[s])]
      /\ auReadQueue' = [auReadQueue EXCEPT ![s] = Tail(auReadQueue[s])]
      /\ auReleaseQueue' = [auReleaseQueue EXCEPT ![s] = Append(auReleaseQueue[s], Head(auReadQueue[s]))]
      /\ UNCHANGED << auWriteQueue, auAddr, lib, given, pcm, parseBuffer >>
  BY DEF GetAu, library, demux, parser
<1> QED
  BY <1>1, <1>2, <1>3 DEF Elsewhere, Domains

LEMMA DecodeMoves ==
  ASSUME TypeInv, NEW s \in Stream, DecodeAu(s)
  PROVE  LET b == pAuInfo[s] IN
         /\ Held(s) < LibSize
         /\ lib'[s] = Append(lib[s], [buffer |-> b, au |-> auAddr[s][b]])
         /\ given'[s] = Append(given[s], auAddr[s][b]) /\ pAuInfo'[s] = None
         /\ Elsewhere(lib', lib, s) /\ Elsewhere(given', given, s) /\ Elsewhere(pAuInfo', pAuInfo, s)
         /\ DOMAIN lib' = Stream /\ DOMAIN given' = Stream /\ DOMAIN pAuInfo' = Stream
         /\ UNCHANGED << queues, pcm, parseBuffer >>
<1>1. Domains
  BY DEF TypeInv
<1>2. /\ lib' = [lib EXCEPT ![s] = Append(lib[s], [buffer |-> pAuInfo[s], au |-> auAddr[s][pAuInfo[s]]])]
      /\ given' = [given EXCEPT ![s] = Append(given[s], auAddr[s][pAuInfo[s]])]
      /\ pAuInfo' = [pAuInfo EXCEPT ![s] = None]
      /\ UNCHANGED << queues, pcm, parseBuffer >> /\ Held(s) < LibSize
  BY DEF DecodeAu, demux, parser
<1> QED
  BY <1>1, <1>2 DEF Elsewhere, Domains

LEMMA AuDoneMoves ==
  ASSUME TypeInv, NEW s \in Stream, AuDone(s)
  PROVE  /\ lib[s] # << >> /\ lib'[s] = Tail(lib[s]) /\ Elsewhere(lib', lib, s) /\ DOMAIN lib' = Stream
         /\ pcm' = IF s = Audio THEN pcm + 1 ELSE pcm
         /\ UNCHANGED << queues, parseBuffer, pAuInfo, given >>
<1>1. Domains
  BY DEF TypeInv
<1>2. /\ lib[s] # << >> /\ lib' = [lib EXCEPT ![s] = Tail(lib[s])]
      /\ pcm' = IF s = Audio THEN pcm + 1 ELSE pcm
      /\ UNCHANGED << queues, parseBuffer, pAuInfo, given >>
  BY DEF AuDone, demux, parser
<1> QED
  BY <1>1, <1>2 DEF Elsewhere, Domains

-----------------------------------------------------------------------------
(***************************************************************************)
(* What is read and cut lies in the stream.                                *)
(***************************************************************************)
LEMMA StreamFacts ==
  ASSUME TypeInv, NEW s \in Stream
  PROVE  /\ parseBuffer[s] \in AuOf(s) /\ pAuInfo[s] \in 0 .. AuNum[s]
         /\ auWriteQueue[s] \in Seq(Buffers(s)) /\ auReadQueue[s] \in Seq(Buffers(s))
         /\ auReleaseQueue[s] \in Seq(Buffers(s))
         /\ auAddr[s] \in [Buffers(s) -> AuOf(s)]
         /\ lib[s] \in Seq([buffer : Buffers(s), au : AuOf(s)]) /\ Len(lib[s]) \in Nat
         /\ given[s] \in Seq(AuOf(s))
         /\ Held(s) <= LibSize /\ pcm \in Nat
<1>1. StreamTypes(s) /\ ControlTypes
  BY DEF TypeInv
<1>2. pcm \in 0 .. LibSize
  BY <1>1 DEF ControlTypes
<1>3. lib[s] \in Seq([buffer : Buffers(s), au : AuOf(s)])
  BY <1>1 DEF StreamTypes
<1>4. Len(lib[s]) \in Nat
  BY <1>3
<1>5. pcm \in Nat
  BY <1>2, Kinds
<1> QED
  BY <1>1, <1>3, <1>4, <1>5 DEF StreamTypes

LEMMA StreamNext ==
  ASSUME NEW s \in Stream, parseBuffer'[s] \in AuOf(s), pAuInfo'[s] \in 0 .. AuNum[s],
         auWriteQueue'[s] \in Seq(Buffers(s)), auReadQueue'[s] \in Seq(Buffers(s)),
         auReleaseQueue'[s] \in Seq(Buffers(s)), auAddr'[s] \in [Buffers(s) -> AuOf(s)],
         lib'[s] \in Seq([buffer : Buffers(s), au : AuOf(s)]), given'[s] \in Seq(AuOf(s)),
         Held(s)' <= LibSize
  PROVE  StreamTypes(s)'
BY DEF StreamTypes

LEMMA ElementTypes == \A S : \A q \in Seq(S) : \A i \in DOMAIN q : q[i] \in S
OBVIOUS

LEMMA ConcatTypes == \A S : \A q, t \in Seq(S) : q \o t \in Seq(S)
OBVIOUS

LEMMA FunctionIsSeq == \A S : \A n \in Nat : \A f \in [1 .. n -> S] : f \in Seq(S)
OBVIOUS

LEMMA ChunkTypes ==
  ASSUME TypeInv, NEW s \in Stream, positionIndex[s] >= 1, Left(s)
  PROVE  Chunk(s) \in AuOf(s)
<1> DEFINE p == Index[s][positionIndex[s]]
<1>1. positionIndex[s] \in Nat
  BY DEF TypeInv, ControlTypes
<1>2. Index[s] \in Seq([offset : Nat, first : Nat \ {0}, size : Nat])
  BY DemuxAssumption DEF DemuxAssumption
<1>3. positionIndex[s] \in DOMAIN Index[s]
  BY <1>1, <1>2 DEF Left
<1>4. p \in [offset : Nat, first : Nat \ {0}, size : Nat]
  BY <1>2, <1>3, ElementTypes
<1>5. p.first + p.size <= Len(Data[s]) + 1
  BY <1>3, DemuxAssumption DEF DemuxAssumption
<1>6. Chunk(s) = [i \in 1 .. p.size |-> p.first + i - 1]
  BY DEF Chunk
<1>7. p.first \in Nat \ {0} /\ p.size \in Nat /\ Len(Data[s]) \in Nat
  BY <1>4, Kinds
<1> HIDE DEF p
<1>8. \A i \in 1 .. p.size : p.first + i - 1 \in 1 .. Len(Data[s])
  BY <1>5, <1>7
<1>9. Chunk(s) \in [1 .. p.size -> 1 .. Len(Data[s])]
  BY <1>6, <1>8
<1> QED
  BY <1>7, <1>9, FunctionIsSeq DEF AuOf

LEMMA FirstIn ==
  ASSUME NEW I, I \subseteq Nat, I # {}
  PROVE  First(I) \in I /\ \A j \in I : First(I) <= j
<1>1. \E i \in I : \A j \in I : i <= j
  BY Least
<1> QED
  BY <1>1 DEF First

LEMMA FrameTypes ==
  ASSUME NEW s \in Stream, NEW b \in AuOf(s)
  PROVE  Frame(s, b) \subseteq 1 .. Len(b)
BY DEF Frame

LEMMA SizeTypes ==
  ASSUME NEW s \in Stream, NEW b \in AuOf(s), NEW i \in 1 .. Len(b)
  PROVE  AuSize(s, b, i) \in Nat /\ AuSize(s, b, i) >= 5
<1>1. Len(b) \in Nat /\ Data[s] \in Seq(Nat)
  BY Kinds DEF AuOf
<1>2. CASE i + 2 <= Len(b)
  <2>1. b[i + 2] \in 1 .. Len(Data[s])
    BY <1>1, <1>2 DEF AuOf
  <2>2. Data[s][b[i + 2]] \in Nat
    BY <1>1, <2>1
  <2> QED
    BY <1>2, <2>2 DEF AuSize
<1>3. CASE ~(i + 2 <= Len(b))
  BY <1>3 DEF AuSize
<1> QED
  BY <1>2, <1>3

LEMMA PartTypes ==
  ASSUME NEW s \in Stream, NEW b \in AuOf(s), NEW i \in 1 .. Len(b) + 1, NEW j \in 0 .. Len(b)
  PROVE  SubSeq(b, i, j) \in AuOf(s)
BY SubSeqProperties DEF AuOf

LEMMA ReadDefaultEffect ==
  ASSUME TypeInv, ReadInv, ReadDefault
  PROVE  /\ target \in Stream /\ target \notin Framed /\ Chunk(target) \in AuOf(target)
         /\ UNCHANGED << parseBuffer, pAuInfo, lib, given, pcm >>
         /\ \/ UNCHANGED queues
            \/ auWriteQueue[target] # << >> /\ Push(target, Chunk(target))
<1>1. target \in Stream /\ positionIndex[target] >= 1 /\ Left(target)
  BY DEF ReadInv, ReadDefault
<1> QED
  BY <1>1, ChunkTypes DEF ReadDefault, decoder, library

LEMMA ParseEffect ==
  ASSUME TypeInv, ReadInv, Parse
  PROVE  /\ target \in Stream /\ target \in Framed /\ UNCHANGED << pAuInfo, lib, given, pcm >>
         /\ \E c \in AuOf(target) : parseBuffer' = [parseBuffer EXCEPT ![target] = c]
         /\ \/ UNCHANGED queues
            \/ auWriteQueue[target] # << >> /\ \E a \in AuOf(target) : Push(target, a)
<1> DEFINE s == target
           b == IF dpc = "read" /\ parseLastError[s] = "ok" THEN parseBuffer[s] \o Chunk(s)
                ELSE parseBuffer[s]
           i == First(Frame(s, b))
           Keep(c) == parseBuffer' = [parseBuffer EXCEPT ![s] = c]
           Found == Len(b) > 4 /\ Frame(s, b) # {}
<1>1. target \in Stream /\ positionIndex[target] >= 1 /\ Left(target) /\ target \in Framed
  BY DEF ReadInv, Parse
<1>2. b \in AuOf(s)
  <2>1. Chunk(s) \in AuOf(s)
    BY <1>1, ChunkTypes
  <2>2. parseBuffer[s] \in AuOf(s)
    BY <1>1, StreamFacts
  <2>3. parseBuffer[s] \o Chunk(s) \in AuOf(s)
    BY <2>1, <2>2, ConcatTypes DEF AuOf
  <2> QED
    BY <2>2, <2>3
<1>3. UNCHANGED << pAuInfo, lib, given, pcm >>
  BY DEF Parse, decoder, library
<1>4. \/ Keep(b) /\ UNCHANGED queues
      \/ Len(b) > 4 /\ Keep(From(b, Len(b))) /\ UNCHANGED queues
      \/ Found /\ Keep(From(b, i)) /\ UNCHANGED queues
      \/ /\ Found /\ ~TooShort(s, b, i) /\ auWriteQueue[s] # << >>
         /\ Push(s, SubSeq(b, i, i + AuSize(s, b, i) - 1)) /\ Keep(From(b, i + AuSize(s, b, i)))
  BY DEF Parse
<1> HIDE DEF b
<1>5. Len(b) \in Nat
  BY <1>2 DEF AuOf
<1>6. Found => i \in 1 .. Len(b)
  BY <1>1, <1>2, <1>5, FrameTypes, FirstIn
<1> HIDE DEF i
<1>7. CASE Keep(b) /\ UNCHANGED queues
  BY <1>1, <1>2, <1>3, <1>7
<1>8. CASE Len(b) > 4 /\ Keep(From(b, Len(b))) /\ UNCHANGED queues
  <2>1. From(b, Len(b)) \in AuOf(s)
    BY <1>1, <1>2, <1>5, <1>8, PartTypes DEF From
  <2> QED
    BY <1>1, <1>3, <1>8, <2>1
<1>9. CASE Found /\ Keep(From(b, i)) /\ UNCHANGED queues
  <2>1. From(b, i) \in AuOf(s)
    BY <1>1, <1>2, <1>5, <1>6, <1>9, PartTypes DEF From
  <2> QED
    BY <1>1, <1>3, <1>9, <2>1
<1>10. CASE /\ Found /\ ~TooShort(s, b, i) /\ auWriteQueue[s] # << >>
            /\ Push(s, SubSeq(b, i, i + AuSize(s, b, i) - 1)) /\ Keep(From(b, i + AuSize(s, b, i)))
  <2> DEFINE n == AuSize(s, b, i)
  <2>1. n \in Nat /\ i \in 1 .. Len(b)
    BY <1>1, <1>2, <1>6, <1>10, SizeTypes
  <2>2. Len(b) - i + 1 >= n /\ n >= 5
    <3>1. Rest(b, i) >= n
      BY <1>5, <1>10, <2>1 DEF TooShort, Rest
    <3> QED
      BY <3>1, <1>1, <1>2, <2>1, SizeTypes DEF Rest
  <2> HIDE DEF n
  <2>3. i + n \in 1 .. Len(b) + 1 /\ i + n - 1 \in 0 .. Len(b) /\ i \in 1 .. Len(b) + 1
    BY <1>5, <2>1, <2>2
  <2>4. SubSeq(b, i, i + n - 1) \in AuOf(s) /\ From(b, i + n) \in AuOf(s)
    BY <1>1, <1>2, <1>5, <2>3, PartTypes DEF From
  <2> QED
    BY <1>1, <1>3, <1>10, <2>4 DEF n
<1> QED
  BY <1>4, <1>7, <1>8, <1>9, <1>10

LEMMA StreamSame ==
  ASSUME TypeInv, NEW r \in Stream,
         UNCHANGED << parseBuffer[r], pAuInfo[r], auWriteQueue[r], auReadQueue[r], auReleaseQueue[r], auAddr[r],
                      lib[r], given[r] >>,
         Held(r)' <= LibSize
  PROVE  StreamTypes(r)'
BY DEF TypeInv, StreamTypes

LEMMA HeldSame ==
  ASSUME TypeInv, NEW r \in Stream, lib'[r] = lib[r], pcm' = pcm \/ r # Audio \/ pcm' = pcm - 1
  PROVE  Held(r)' <= LibSize
<1>1. pcm \in Nat /\ Len(lib[r]) \in Nat /\ Held(r) <= LibSize
  BY StreamFacts
<1>2. CASE r = Audio
  BY <1>1, <1>2, Kinds DEF Held
<1>3. CASE r # Audio
  BY <1>1, <1>3 DEF Held
<1> QED
  BY <1>2, <1>3

LEMMA PushTypes ==
  ASSUME TypeInv, NEW s \in Stream, NEW c \in AuOf(s), NEW d \in AuOf(s), auWriteQueue[s] # << >>, Push(s, c),
         parseBuffer' \in {parseBuffer, [parseBuffer EXCEPT ![s] = d]}, UNCHANGED << pAuInfo, lib,
                                                                                     given, pcm >>
  PROVE  Domains' /\ \A r \in Stream : StreamTypes(r)'
<1> DEFINE b == Head(auWriteQueue[s])
<1>1. /\ b \in Buffers(s)
      /\ auWriteQueue'[s] = Tail(auWriteQueue[s]) /\ auReadQueue'[s] = Append(auReadQueue[s], b)
      /\ auReleaseQueue' = auReleaseQueue
      /\ Elsewhere(auWriteQueue', auWriteQueue, s) /\ Elsewhere(auReadQueue', auReadQueue, s)
      /\ Elsewhere(auAddr', auAddr, s)
      /\ DOMAIN auWriteQueue' = Stream /\ DOMAIN auReadQueue' = Stream /\ DOMAIN auAddr' = Stream
      /\ auAddr'[s] \in [Buffers(s) -> AuOf(s)]
  BY PushEffect
<1>2. Domains'
  BY <1>1 DEF TypeInv, Domains
<1>3. parseBuffer'[s] \in AuOf(s) /\ Elsewhere(parseBuffer', parseBuffer, s)
  BY DEF TypeInv, Domains, StreamTypes, Elsewhere
<1>4. \A r \in Stream : Held(r)' <= LibSize
  BY HeldSame
<1>5. StreamTypes(s)'
  <2>1. Tail(auWriteQueue[s]) \in Seq(Buffers(s))
    <3>1. auWriteQueue[s] \in Seq(Buffers(s))
      BY StreamFacts
    <3> QED
      BY <3>1
  <2>2. Append(auReadQueue[s], b) \in Seq(Buffers(s))
    <3>1. auReadQueue[s] \in Seq(Buffers(s))
      BY StreamFacts
    <3> HIDE DEF b
    <3> QED
      BY <1>1, <3>1
  <2>3. /\ auReleaseQueue'[s] \in Seq(Buffers(s)) /\ pAuInfo'[s] \in 0 .. AuNum[s]
        /\ lib'[s] \in Seq([buffer : Buffers(s), au : AuOf(s)]) /\ given'[s] \in Seq(AuOf(s))
    BY <1>1, StreamFacts
  <2> QED
    BY <1>1, <1>3, <1>4, <2>1, <2>2, <2>3, StreamNext
<1>6. ASSUME NEW r \in Stream, r # s PROVE StreamTypes(r)'
  BY <1>1, <1>3, <1>4, <1>6, StreamSame DEF Elsewhere
<1> QED
  BY <1>2, <1>5, <1>6

LEMMA StepStreamTypes == TypeInv /\ ReadInv /\ [Next]_vars => Domains' /\ \A r \in Stream : StreamTypes(r)'
<1> SUFFICES ASSUME TypeInv, ReadInv, [Next]_vars PROVE Domains' /\ \A r \in Stream : StreamTypes(r)'
  OBVIOUS
<1>0. Domains /\ \A r \in Stream : StreamTypes(r)
  BY DEF TypeInv
<1>1. CASE Untouched
  <2>1. \A r \in Stream : Held(r)' <= LibSize
    BY <1>1, HeldSame DEF Untouched
  <2> QED
    BY <1>0, <1>1, <2>1, StreamSame DEF Untouched, queues, Domains
<1>2. CASE ReadDefault
  <2>1. CASE UNCHANGED queues
    <3>1. UNCHANGED << queues, parseBuffer, pAuInfo, lib, given, pcm >>
      BY <1>2, <2>1, ReadDefaultEffect
    <3>2. \A r \in Stream : Held(r)' <= LibSize
      BY <3>1, HeldSame
    <3> QED
      BY <1>0, <3>1, <3>2, StreamSame DEF queues, Domains
  <2>2. CASE auWriteQueue[target] # << >> /\ Push(target, Chunk(target))
    BY <1>2, <2>2, ReadDefaultEffect, PushTypes
  <2> QED
    BY <1>2, <2>1, <2>2, ReadDefaultEffect
<1>3. CASE Parse
  <2>1. /\ target \in Stream /\ UNCHANGED << pAuInfo, lib, given, pcm >>
        /\ \/ UNCHANGED queues
           \/ auWriteQueue[target] # << >> /\ \E a \in AuOf(target) : Push(target, a)
    BY <1>3, ParseEffect
  <2>2. PICK c \in AuOf(target) : parseBuffer' = [parseBuffer EXCEPT ![target] = c]
    BY <1>3, ParseEffect
  <2>3. CASE UNCHANGED queues
    <3>1. \A r \in Stream : Held(r)' <= LibSize
      BY <2>1, HeldSame
    <3>2. /\ parseBuffer'[target] \in AuOf(target) /\ Elsewhere(parseBuffer', parseBuffer, target)
          /\ DOMAIN parseBuffer' = Stream
      BY <1>0, <2>1, <2>2 DEF Domains, Elsewhere
    <3>3. Domains'
      BY <1>0, <2>1, <2>3, <3>2 DEF Domains, queues
    <3>4. PICK t \in Stream : t = target
      BY <2>1
    <3>5. StreamTypes(t)'
      <4>1. /\ auReleaseQueue'[t] \in Seq(Buffers(t)) /\ pAuInfo'[t] \in 0 .. AuNum[t]
            /\ auWriteQueue'[t] \in Seq(Buffers(t)) /\ auReadQueue'[t] \in Seq(Buffers(t))
            /\ auAddr'[t] \in [Buffers(t) -> AuOf(t)]
            /\ lib'[t] \in Seq([buffer : Buffers(t), au : AuOf(t)])
            /\ given'[t] \in Seq(AuOf(t))
        BY <2>1, <2>3, StreamFacts DEF queues
      <4>2. parseBuffer'[t] \in AuOf(t)
        BY <3>2, <3>4
      <4> QED
        BY <3>1, <4>1, <4>2, StreamNext
    <3>6. ASSUME NEW r \in Stream, r # t PROVE StreamTypes(r)'
      BY <2>1, <2>3, <3>1, <3>2, <3>4, <3>6, StreamSame DEF queues, Elsewhere
    <3> QED
      BY <3>3, <3>5, <3>6
  <2>4. CASE auWriteQueue[target] # << >> /\ \E a \in AuOf(target) : Push(target, a)
    BY <2>1, <2>2, <2>4, PushTypes
  <2> QED
    BY <2>1, <2>3, <2>4
<1>4. CASE PcmOut
  <2>1. UNCHANGED << queues, parseBuffer, pAuInfo, lib, given >> /\ pcm' = pcm - 1
    BY <1>4 DEF PcmOut, demux, parser
  <2>2. \A r \in Stream : Held(r)' <= LibSize
    BY <2>1, HeldSame
  <2> QED
    BY <1>0, <2>1, <2>2, StreamSame DEF queues, Domains
<1>5. ASSUME NEW s \in Stream, Release(s) PROVE Domains' /\ \A r \in Stream : StreamTypes(r)'
  <2>1. Domains'
    BY <1>0, <1>5, ReleaseMoves DEF Domains
  <2>2. \A r \in Stream : Held(r)' <= LibSize
    BY <1>5, HeldSame, ReleaseMoves
  <2>3. StreamTypes(s)'
    <3>1. auReleaseQueue[s] \in Seq(Buffers(s)) /\ auWriteQueue[s] \in Seq(Buffers(s))
      BY StreamFacts
    <3>2. Tail(auReleaseQueue[s]) \in Seq(Buffers(s))
      BY <1>5, <3>1, ReleaseMoves
    <3>3. Append(auWriteQueue[s], Head(auReleaseQueue[s])) \in Seq(Buffers(s))
      BY <1>5, <3>1, ReleaseMoves
    <3>4. /\ auReadQueue'[s] \in Seq(Buffers(s)) /\ pAuInfo'[s] \in 0 .. AuNum[s]
          /\ auAddr'[s] \in [Buffers(s) -> AuOf(s)] /\ parseBuffer'[s] \in AuOf(s)
          /\ lib'[s] \in Seq([buffer : Buffers(s), au : AuOf(s)]) /\ given'[s] \in Seq(AuOf(s))
      BY <1>5, ReleaseMoves, StreamFacts
    <3> QED
      BY <1>5, <2>2, <3>2, <3>3, <3>4, ReleaseMoves, StreamNext
  <2>4. ASSUME NEW r \in Stream, r # s PROVE StreamTypes(r)'
    BY <1>5, <2>2, <2>4, ReleaseMoves, StreamSame DEF Elsewhere
  <2> QED
    BY <2>1, <2>3, <2>4
<1>6. ASSUME NEW s \in Stream, GetAu(s) PROVE Domains' /\ \A r \in Stream : StreamTypes(r)'
  <2>1. Domains'
    BY <1>0, <1>6, GetAuMoves DEF Domains
  <2>2. \A r \in Stream : Held(r)' <= LibSize
    BY <1>6, HeldSame, GetAuMoves
  <2>3. StreamTypes(s)'
    <3>1. pAuInfo'[s] \in 0 .. AuNum[s]
      BY <1>6, GetAuMoves, Kinds DEF Buffers
    <3>2. auReleaseQueue[s] \in Seq(Buffers(s)) /\ auReadQueue[s] \in Seq(Buffers(s))
      BY StreamFacts
    <3>3. Tail(auReadQueue[s]) \in Seq(Buffers(s))
      BY <1>6, <3>2, GetAuMoves
    <3>4. Append(auReleaseQueue[s], Head(auReadQueue[s])) \in Seq(Buffers(s))
      BY <1>6, <3>2, GetAuMoves
    <3>5. /\ auWriteQueue'[s] \in Seq(Buffers(s))
          /\ auAddr'[s] \in [Buffers(s) -> AuOf(s)] /\ parseBuffer'[s] \in AuOf(s)
          /\ lib'[s] \in Seq([buffer : Buffers(s), au : AuOf(s)]) /\ given'[s] \in Seq(AuOf(s))
      BY <1>6, GetAuMoves, StreamFacts
    <3> QED
      BY <1>6, <2>2, <3>1, <3>3, <3>4, <3>5, GetAuMoves, StreamNext
  <2>4. ASSUME NEW r \in Stream, r # s PROVE StreamTypes(r)'
    BY <1>6, <2>2, <2>4, GetAuMoves, StreamSame DEF Elsewhere
  <2> QED
    BY <2>1, <2>3, <2>4
<1>7. ASSUME NEW s \in Stream, DecodeAu(s) PROVE Domains' /\ \A r \in Stream : StreamTypes(r)'
  <2>1. Domains'
    BY <1>0, <1>7, DecodeMoves DEF Domains, queues
  <2>2. pAuInfo[s] \in Buffers(s) /\ auAddr[s][pAuInfo[s]] \in AuOf(s)
    <3>1. pAuInfo[s] # None
      BY <1>7 DEF DecodeAu, ReadInv
    <3>2. pAuInfo[s] \in 0 .. AuNum[s] /\ auAddr[s] \in [Buffers(s) -> AuOf(s)]
      BY StreamFacts
    <3>3. pAuInfo[s] \in Buffers(s)
      BY <3>1, <3>2, Kinds DEF Buffers, None
    <3> QED
      BY <3>2, <3>3
  <2>3. ASSUME NEW r \in Stream, r # s PROVE Held(r)' <= LibSize
    BY <1>7, <2>3, HeldSame, DecodeMoves DEF Elsewhere
  <2>4. Held(s)' <= LibSize
    <3>1. /\ Len(lib[s]) \in Nat /\ Held(s) < LibSize /\ pcm \in Nat /\ pcm' = pcm
          /\ Len(lib'[s]) = Len(lib[s]) + 1
      <4>1. lib[s] \in Seq([buffer : Buffers(s), au : AuOf(s)]) /\ Len(lib[s]) \in Nat /\ pcm \in Nat
        BY StreamFacts
      <4>2. lib'[s] = Append(lib[s], [buffer |-> pAuInfo[s], au |-> auAddr[s][pAuInfo[s]]])
        BY <1>7, DecodeMoves
      <4>3. Len(lib'[s]) = Len(lib[s]) + 1
        BY <2>2, <4>1, <4>2
      <4> QED
        BY <1>7, <4>1, <4>3, DecodeMoves
    <3>2. CASE s = Audio
      BY <3>1, <3>2, Kinds DEF Held
    <3>3. CASE s # Audio
      BY <3>1, <3>3, Kinds DEF Held
    <3> QED
      BY <3>2, <3>3
  <2>5. StreamTypes(s)'
    <3>1. lib'[s] \in Seq([buffer : Buffers(s), au : AuOf(s)]) /\ given'[s] \in Seq(AuOf(s))
      <4>1. lib[s] \in Seq([buffer : Buffers(s), au : AuOf(s)]) /\ given[s] \in Seq(AuOf(s))
        BY StreamFacts
      <4>2. [buffer |-> pAuInfo[s], au |-> auAddr[s][pAuInfo[s]]] \in [buffer : Buffers(s), au : AuOf(s)]
        BY <2>2
      <4>3. \A S : \A q \in Seq(S) : \A e \in S : Append(q, e) \in Seq(S)
        OBVIOUS
      <4>4. Append(lib[s], [buffer |-> pAuInfo[s], au |-> auAddr[s][pAuInfo[s]]])
              \in Seq([buffer : Buffers(s), au : AuOf(s)])
        BY <4>1, <4>2, <4>3
      <4>5. Append(given[s], auAddr[s][pAuInfo[s]]) \in Seq(AuOf(s))
        BY <2>2, <4>1, <4>3
      <4> QED
        BY <1>7, <4>4, <4>5, DecodeMoves
    <3>2. pAuInfo'[s] \in 0 .. AuNum[s]
      <4>1. pAuInfo'[s] = 0
        BY <1>7, DecodeMoves DEF None
      <4> QED
        BY <4>1, Kinds
    <3>3. /\ auReadQueue'[s] \in Seq(Buffers(s)) /\ auWriteQueue'[s] \in Seq(Buffers(s))
          /\ auReleaseQueue'[s] \in Seq(Buffers(s))
          /\ auAddr'[s] \in [Buffers(s) -> AuOf(s)] /\ parseBuffer'[s] \in AuOf(s)
      BY <1>7, DecodeMoves, StreamFacts DEF queues
    <3> QED
      BY <2>4, <3>1, <3>2, <3>3, StreamNext
  <2>6. ASSUME NEW r \in Stream, r # s PROVE StreamTypes(r)'
    BY <1>7, <2>3, <2>6, DecodeMoves, StreamSame DEF Elsewhere, queues
  <2> QED
    BY <2>1, <2>5, <2>6
<1>8. ASSUME NEW s \in Stream, AuDone(s) PROVE Domains' /\ \A r \in Stream : StreamTypes(r)'
  <2>1. Domains'
    BY <1>0, <1>8, AuDoneMoves DEF Domains, queues
  <2>2. ASSUME NEW r \in Stream, r # s PROVE Held(r)' <= LibSize
    <3>1. lib'[r] = lib[r] /\ (pcm' = pcm \/ r # Audio)
      BY <1>8, <2>2, AuDoneMoves DEF Elsewhere
    <3> QED
      BY <3>1, HeldSame
  <2>3. lib'[s] \in Seq([buffer : Buffers(s), au : AuOf(s)]) /\ Len(lib'[s]) = Len(lib[s]) - 1 /\ Len(lib[s]) > 0
    <3>1. lib[s] \in Seq([buffer : Buffers(s), au : AuOf(s)])
      BY StreamFacts
    <3>2. lib[s] # << >> /\ lib'[s] = Tail(lib[s])
      BY <1>8, AuDoneMoves
    <3>3. \A S : \A q \in Seq(S) : q # << >> => Tail(q) \in Seq(S) /\ Len(Tail(q)) = Len(q) - 1 /\ Len(q) > 0
      OBVIOUS
    <3> QED
      BY <3>1, <3>2, <3>3
  <2>4. Held(s)' <= LibSize
    <3>1. /\ Len(lib[s]) \in Nat /\ Held(s) <= LibSize /\ pcm \in Nat
          /\ pcm' = IF s = Audio THEN pcm + 1 ELSE pcm
      BY <1>8, AuDoneMoves, StreamFacts
    <3>2. CASE s = Audio
      <4>1. Held(s) = Len(lib[s]) + pcm /\ Held(s)' = Len(lib'[s]) + pcm'
        BY <3>2 DEF Held
      <4>2. pcm' = pcm + 1
        BY <3>1, <3>2
      <4>3. Len(lib'[s]) = Len(lib[s]) - 1 /\ Held(s) <= LibSize /\ pcm \in Nat /\ Len(lib[s]) \in Nat
        BY <2>3, <3>1
      <4>4. Len(lib'[s]) + pcm' = Len(lib[s]) + pcm
        <5>1. \A m, n \in Nat : (m - 1) + (n + 1) = m + n
          OBVIOUS
        <5>2. (Len(lib[s]) - 1) + (pcm + 1) = Len(lib[s]) + pcm
          BY <4>3, <5>1
        <5> QED
          BY <4>2, <4>3, <5>2
      <4>5. Held(s)' = Held(s)
        BY <4>1, <4>4
      <4> QED
        BY <4>3, <4>5, Kinds
    <3>3. CASE s # Audio
      <4>1. Held(s) = Len(lib[s]) + 0 /\ Held(s)' = Len(lib'[s]) + 0
        BY <3>3 DEF Held
      <4> QED
        BY <2>3, <3>1, <4>1, Kinds
    <3> QED
      BY <3>2, <3>3
  <2>5. StreamTypes(s)'
    <3>1. /\ auReadQueue'[s] \in Seq(Buffers(s)) /\ auWriteQueue'[s] \in Seq(Buffers(s))
          /\ auReleaseQueue'[s] \in Seq(Buffers(s)) /\ pAuInfo'[s] \in 0 .. AuNum[s]
          /\ auAddr'[s] \in [Buffers(s) -> AuOf(s)] /\ parseBuffer'[s] \in AuOf(s)
          /\ given'[s] \in Seq(AuOf(s))
      BY <1>8, AuDoneMoves, StreamFacts DEF queues
    <3> QED
      BY <2>3, <2>4, <3>1, StreamNext
  <2>6. ASSUME NEW r \in Stream, r # s PROVE StreamTypes(r)'
    BY <1>8, <2>2, <2>6, AuDoneMoves, StreamSame DEF Elsewhere, queues
  <2> QED
    BY <2>1, <2>5, <2>6
<1> QED
  BY <1>1, <1>2, <1>3, <1>4, <1>5, <1>6, <1>7, <1>8, Movers

-----------------------------------------------------------------------------
(***************************************************************************)
(* What one step means to one stream: it is left alone, its thread is told *)
(* to end, or the step is one of its own.                                  *)
(***************************************************************************)
Moved(s) == << auWriteQueue[s], auReadQueue[s], auReleaseQueue[s], auAddr[s], pAuInfo[s], lib[s],
               given[s] >>

Still(s) ==
  /\ UNCHANGED << Moved(s), pc[s], recv[s], stat[s], ended[s], errorCode[s] >>
  /\ s = Audio => pcm' = pcm

Ordered(s) ==
  /\ mode_exec' = FALSE /\ UNCHANGED << Moved(s), recv[s], stat[s], ended[s], errorCode[s], pcm >>
  /\ \/ pc'[s] = pc[s] \/ (pc[s] = "asleep" /\ pc'[s] = "wait") \/ (pc[s] = "over" /\ pc'[s] = "gone")

\* An AU is put into its first free buffer.
Pushed(s) ==
  /\ s = target /\ target' = target /\ dpc \in {"read", "parse"} /\ dpc' = "notify"
  /\ auWriteQueue[s] # << >> /\ auWriteQueue'[s] = Tail(auWriteQueue[s])
  /\ auReadQueue'[s] = Append(auReadQueue[s], Head(auWriteQueue[s]))
  /\ \E c \in AuOf(s) : auAddr'[s] = [auAddr[s] EXCEPT ![Head(auWriteQueue[s])] = c]
  /\ UNCHANGED << auReleaseQueue[s], pAuInfo[s], lib[s], given[s], pcm, pc[s], recv[s], stat[s], ended[s],
                  errorCode[s] >>

\* The steps of its own thread and of the library; and DMUX_DONE.
Own(s) ==
  \/ Wait(s) \/ Sleep(s) \/ Release(s) \/ ReleaseFails(s) \/ LastReleased(s)
  \/ GetAu(s) \/ NoAu(s) \/ EndSeq(s) \/ KeepsAu(s) \/ NothingNew(s) \/ DecodeAu(s) \/ Busy(s)
  \/ LibraryRefuses(s) \/ LibraryFails(s) \/ AuDone(s) \/ SeqDone(s)
  \/ (Notify /\ target = s)
  \/ (Done /\ target' = s /\ target' # target)
  \/ (PcmOut /\ s = Audio)

LEMMA Places0 == TypeInv => pc \in [Stream -> Places] /\ errorCode \in Errors
BY DEF TypeInv, ControlTypes, Places, Errors

LEMMA ExitOrders ==
  ASSUME TypeInv, NEW s \in Stream, DmuxExit \/ SysutilCb \/ \E r \in Stream : DecoderExit(r)
  PROVE  Ordered(s)
<1> USE DEF Ordered, Moved, queues
<1>0. mode_exec \in BOOLEAN /\ dpc \in DmuxPlaces /\ pc \in [Stream -> Places]
  BY DEF TypeInv, ControlTypes, DmuxPlaces, Places
<1>1. CASE DmuxExit
  <2>1. ErrorExit("gone", pc) /\ "gone" \in DmuxPlaces
    BY <1>1 DEF DmuxExit, DmuxPlaces
  <2>2. mode_exec' = FALSE /\ (pc'[s] = pc[s] \/ (pc[s] = "asleep" /\ pc'[s] = "wait"))
    BY <1>0, <2>1, ExitTypes
  <2>3. UNCHANGED << Moved(s), recv[s], stat[s], ended[s], errorCode[s], pcm >>
    BY <1>1 DEF DmuxExit, library
  <2> QED
    BY <2>2, <2>3
<1>2. CASE SysutilCb
  <2>1. ErrorExit(dpc, pc)
    BY <1>2 DEF SysutilCb
  <2>2. mode_exec' = FALSE /\ (pc'[s] = pc[s] \/ (pc[s] = "asleep" /\ pc'[s] = "wait"))
    BY <1>0, <2>1, ExitTypes
  <2>3. UNCHANGED << Moved(s), recv[s], stat[s], ended[s], errorCode[s], pcm >>
    BY <1>2 DEF SysutilCb, library
  <2> QED
    BY <2>2, <2>3
<1>3. ASSUME NEW r \in Stream, DecoderExit(r) PROVE Ordered(s)
  <2>1. ErrorExit(dpc, [pc EXCEPT ![r] = "gone"]) /\ pc[r] = "over"
    BY <1>3 DEF DecoderExit
  <2>2. PICK p \in [Stream -> Places] : p = [pc EXCEPT ![r] = "gone"]
    BY <1>0 DEF Places
  <2>3. mode_exec' = FALSE /\ (pc'[s] = p[s] \/ (p[s] = "asleep" /\ pc'[s] = "wait"))
    BY <1>0, <2>1, <2>2, ExitTypes
  <2>4. p[s] = IF s = r THEN "gone" ELSE pc[s]
    BY <1>0, <2>2
  <2>5. UNCHANGED << Moved(s), recv[s], stat[s], ended[s], errorCode[s], pcm >>
    BY <1>3 DEF DecoderExit, library
  <2>6. CASE s = r
    BY <2>1, <2>3, <2>4, <2>5, <2>6
  <2>7. CASE s # r
    BY <2>3, <2>4, <2>5, <2>7
  <2> QED
    BY <2>6, <2>7
<1> QED
  BY <1>1, <1>2, <1>3

LEMMA OthersStill ==
  ASSUME TypeInv, NEW s \in Stream, NEW r \in Stream, r # s,
         \/ Wait(r) \/ Sleep(r) \/ Release(r) \/ ReleaseFails(r) \/ LastReleased(r)
         \/ GetAu(r) \/ NoAu(r) \/ EndSeq(r) \/ KeepsAu(r) \/ NothingNew(r) \/ DecodeAu(r) \/ Busy(r)
         \/ LibraryRefuses(r) \/ LibraryFails(r) \/ AuDone(r) \/ SeqDone(r)
  PROVE  Still(s)
<1> USE DEF Still, Moved, queues, demux, parser, library
<1>0. pc \in [Stream -> Places] /\ errorCode \in Errors /\ ended \in [Stream -> BOOLEAN] /\ s \in Stream \cup {None}
  BY DEF TypeInv, ControlTypes, Places, Errors
<1>1. CASE Wait(r)
  BY <1>0, <1>1, WaitEffect DEF Wait, Elsewhere
<1>2. CASE Sleep(r)
  BY <1>0, <1>2 DEF Sleep
<1>3. CASE Release(r)
  BY <1>0, <1>3, ReleaseEffect, ReleaseMoves DEF Release, Elsewhere
<1>4. CASE ReleaseFails(r)
  BY <1>0, <1>4 DEF ReleaseFails, Fault, Errors
<1>5. CASE LastReleased(r)
  BY <1>0, <1>5 DEF LastReleased
<1>6. CASE GetAu(r)
  <2>1. Goes(r) /\ UNCHANGED << recv, stat, library >>
    BY <1>6 DEF GetAu
  <2>2. pc'[s] = pc[s] /\ errorCode'[s] = errorCode[s]
    BY <1>0, <2>1, GoesTypes
  <2>3. UNCHANGED Moved(s)
    BY <1>6, GetAuMoves DEF Elsewhere
  <2> QED
    BY <2>1, <2>2, <2>3
<1>7. CASE NoAu(r)
  <2>1. Elsewhere(recv', recv, r) /\ Elsewhere(stat', stat, r)
    BY <1>7, NoAuEffect
  <2>2. pc'[s] = pc[s] /\ errorCode'[s] = errorCode[s]
    BY <1>0, <1>7, NoAuEffect, TurnTypes
  <2>3. UNCHANGED << queues, pAuInfo, library >>
    BY <1>7 DEF NoAu
  <2> QED
    BY <2>1, <2>2, <2>3 DEF Elsewhere
<1>8. CASE EndSeq(r)
  BY <1>0, <1>8, TurnTypes DEF EndSeq
<1>9. CASE KeepsAu(r)
  BY <1>0, <1>9, GoesTypes DEF KeepsAu
<1>10. CASE NothingNew(r)
  BY <1>0, <1>10, TurnTypes DEF NothingNew
<1>11. CASE DecodeAu(r)
  BY <1>0, <1>11, DecodeMoves, TurnTypes DEF DecodeAu, Elsewhere
<1>12. CASE Busy(r)
  BY <1>0, <1>12, BusyEffect, TurnTypes DEF Busy, Elsewhere
<1>13. CASE LibraryRefuses(r)
  BY <1>0, <1>13 DEF LibraryRefuses, Fault, Errors
<1>14. CASE LibraryFails(r)
  <2>1. Signal(r) /\ errorCode' = [errorCode EXCEPT ![r] = "error"]
    BY <1>14 DEF LibraryFails
  <2>2. pc'[s] = pc[s] /\ errorCode'[s] = errorCode[s]
    BY <1>0, <2>1, SignalTypes DEF Errors
  <2> QED
    BY <1>14, <2>2 DEF LibraryFails
<1>15. CASE AuDone(r)
  <2>1. Elsewhere(recv', recv, r) /\ stat' = stat /\ Elsewhere(lib', lib, r)
    BY <1>15, AuDoneEffect, AuDoneMoves
  <2>2. Signal(r) /\ UNCHANGED << queues, pAuInfo, ended, given,
                                  errorCode >> /\ (s = Audio => pcm' = pcm)
    BY <1>15 DEF AuDone
  <2>3. pc'[s] = pc[s]
    BY <1>0, <2>2, SignalTypes
  <2> QED
    BY <2>1, <2>2, <2>3 DEF Elsewhere
<1>16. CASE SeqDone(r)
  BY <1>0, <1>16, SignalTypes DEF SeqDone, Errors
<1> QED
  BY <1>1, <1>2, <1>3, <1>4, <1>5, <1>6, <1>7, <1>8, <1>9, <1>10, <1>11, <1>12, <1>13, <1>14,
     <1>15, <1>16

LEMMA StreamStep ==
  ASSUME TypeInv, ReadInv, [Next]_vars, NEW s \in Stream
  PROVE  Still(s) \/ Ordered(s) \/ Pushed(s) \/ Own(s)
<1> USE DEF Moved, queues, demux, parser, decoder, library, control
<1>0. pc \in [Stream -> Places] /\ errorCode \in Errors /\ s # None /\ s \in Stream \cup {None}
  BY Places0, Kinds DEF None
<1>1. CASE DmuxWait
  BY <1>0, <1>1, EndsTypes DEF DmuxWait, DmuxOver, Still
<1>2. CASE DmuxSleep
  BY <1>2 DEF DmuxSleep, Still
<1>3. CASE ReadFails
  BY <1>0, <1>3, EndsTypes DEF ReadFails, DmuxOver, Still, Errors
<1>4. ASSUME errorCode'[s] = errorCode[s], UNCHANGED << queues, pc, recv, stat, pAuInfo,
                                                        library >> PROVE Still(s)
  BY <1>4 DEF Still
<1>5. ASSUME NEW c \in AuOf(target), target \in Stream, target' = target, dpc \in {"read", "parse"},
             auWriteQueue[target] # << >>, Push(target, c),
             UNCHANGED << pc, recv, stat, pAuInfo, library >>
      PROVE  Still(s) \/ Pushed(s)
  <2>1. PICK t \in Stream : t = target
    BY <1>5
  <2>2. c \in AuOf(t) /\ auWriteQueue[t] # << >> /\ Push(t, c)
    BY <1>5, <2>1
  <2>3. /\ auWriteQueue'[t] = Tail(auWriteQueue[t]) /\ auReadQueue'[t] = Append(auReadQueue[t], Head(auWriteQueue[t]))
        /\ auAddr'[t] = [auAddr[t] EXCEPT ![Head(auWriteQueue[t])] = c] /\ auReleaseQueue' = auReleaseQueue
        /\ Elsewhere(auWriteQueue', auWriteQueue, t) /\ Elsewhere(auReadQueue', auReadQueue, t)
        /\ Elsewhere(auAddr', auAddr, t)
    BY <2>2, PushEffect
  <2>4. errorCode' = errorCode /\ dpc' = "notify"
    BY <2>2 DEF Push
  <2>5. CASE s = t
    BY <1>5, <2>1, <2>2, <2>3, <2>4, <2>5 DEF Pushed
  <2>6. CASE s # t
    BY <1>5, <2>3, <2>4, <2>6 DEF Still, Elsewhere
  <2> QED
    BY <2>5, <2>6
<1>6. CASE ReadDefault
  <2>1. UNCHANGED << pc, recv, stat, pAuInfo, library >> /\ target' = target /\ dpc = "read"
    BY <1>6 DEF ReadDefault
  <2>2. CASE UNCHANGED queues /\ (ReturnsOk(target) \/ ReturnsFull(target))
    <3>1. errorCode'[s] = errorCode[s]
      BY <1>0, <2>2, AgainTypes DEF ReturnsOk, ReturnsFull
    <3> QED
      BY <1>4, <2>1, <2>2, <3>1
  <2>3. CASE auWriteQueue[target] # << >> /\ Push(target, Chunk(target))
    BY <1>5, <1>6, <2>1, <2>3, ReadDefaultEffect
  <2> QED
    BY <1>6, <2>2, <2>3 DEF ReadDefault
<1>7. CASE Parse
  <2>1. /\ UNCHANGED << pc, recv, stat, pAuInfo, library >> /\ target' = target /\ target \in Stream
        /\ dpc \in {"read", "parse"}
    BY <1>7, ParseEffect DEF Parse
  <2>2. CASE UNCHANGED queues /\ (ReturnsOk(target) \/ ReturnsFull(target))
    <3>1. errorCode'[s] = errorCode[s]
      BY <1>0, <2>2, AgainTypes DEF ReturnsOk, ReturnsFull
    <3> QED
      BY <1>4, <2>1, <2>2, <3>1
  <2>3. CASE auWriteQueue[target] # << >> /\ \E a : Push(target, a)
    <3>1. \E a \in AuOf(target) : Push(target, a)
      <4>1. ~UNCHANGED auReadQueue
        <5>1. PICK a : Push(target, a)
          BY <2>3
        <5>2. auReadQueue' = [auReadQueue EXCEPT ![target] = Append(@, Head(auWriteQueue[target]))]
          BY <5>1 DEF Push
        <5>3. auReadQueue'[target] = Append(auReadQueue[target], Head(auWriteQueue[target]))
          BY <2>1, <5>2 DEF TypeInv, Domains
        <5>4. auReadQueue[target] \in Seq(Buffers(target))
          BY <2>1, StreamFacts
        <5>5. Append(auReadQueue[target], Head(auWriteQueue[target])) # auReadQueue[target]
          BY <5>4
        <5> QED
          BY <5>3, <5>5
      <4> QED
        BY <1>7, <4>1, ParseEffect
    <3> QED
      BY <1>5, <2>1, <2>3, <3>1
  <2>4. \/ UNCHANGED queues /\ (ReturnsOk(target) \/ ReturnsFull(target))
        \/ auWriteQueue[target] # << >> /\ \E a : Push(target, a)
    BY <1>7 DEF Parse
  <2> QED
    BY <2>2, <2>3, <2>4
<1>8. CASE Notify
  <2>1. CASE s = target
    BY <1>8, <2>1 DEF Own
  <2>2. CASE s # target
    <3>1. /\ target \in Stream /\ Elsewhere(recv', recv, target) /\ stat' = stat /\ Signal(target)
      BY <1>8, NotifyEffect
    <3>2. pc'[s] = pc[s] /\ recv'[s] = recv[s]
      BY <1>0, <2>2, <3>1, SignalTypes DEF Elsewhere
    <3>3. errorCode'[s] = errorCode[s]
      BY <1>0, <1>8, AgainTypes DEF Notify, ReturnsOk
    <3>4. UNCHANGED << queues, stat, pAuInfo, library >>
      BY <1>8 DEF Notify
    <3> QED
      BY <3>2, <3>3, <3>4 DEF Still
  <2> QED
    BY <2>1, <2>2
<1>9. CASE Done
  <2>1. UNCHANGED << queues, stat, pAuInfo, library >>
    BY <1>9 DEF Done
  <2>2. CASE DmuxOver /\ target' = target /\ pc' = pc /\ recv' = recv
    <3>1. errorCode'[s] = errorCode[s]
      BY <1>0, <2>2, EndsTypes DEF DmuxOver
    <3> QED
      BY <1>4, <2>1, <2>2, <3>1
  <2>3. CASE target' \in Stream /\ target' > target /\ errorCode' = errorCode /\ Signal(target') /\ Elsewhere(recv', recv, target')
    <3>1. CASE s = target'
      <4>1. target' # target
        BY <1>0, <2>3, <3>1, Kinds DEF TypeInv, ControlTypes, None
      <4> QED
        BY <1>9, <3>1, <4>1 DEF Own
    <3>2. CASE s # target'
      <4>1. pc'[s] = pc[s] /\ recv'[s] = recv[s]
        BY <1>0, <2>3, <3>2, SignalTypes DEF Elsewhere
      <4> QED
        BY <2>1, <2>3, <4>1 DEF Still
    <3> QED
      BY <3>1, <3>2
  <2> QED
    BY <1>9, <2>2, <2>3, DoneEffect
<1>10. CASE PcmOut
  <2>1. CASE s = Audio
    BY <1>10, <2>1 DEF Own
  <2>2. CASE s # Audio
    <3>1. Elsewhere(recv', recv, Audio) /\ stat' = stat /\ Signal(Audio)
      BY <1>10, PcmOutEffect DEF PcmOut
    <3>2. pc'[s] = pc[s] /\ recv'[s] = recv[s]
      BY <1>0, <2>2, <3>1, Kinds, SignalTypes DEF Elsewhere
    <3> QED
      BY <1>10, <2>2, <3>1, <3>2 DEF PcmOut, Still
  <2> QED
    BY <2>1, <2>2
<1>11. CASE DmuxExit \/ SysutilCb \/ \E r \in Stream : DecoderExit(r)
  BY <1>11, ExitOrders
<1>12. ASSUME NEW r \in Stream,
              \/ Wait(r) \/ Sleep(r) \/ Release(r) \/ ReleaseFails(r) \/ LastReleased(r)
              \/ GetAu(r) \/ NoAu(r) \/ EndSeq(r) \/ KeepsAu(r) \/ NothingNew(r) \/ DecodeAu(r) \/ Busy(r)
              \/ LibraryRefuses(r) \/ LibraryFails(r) \/ AuDone(r) \/ SeqDone(r)
       PROVE  Still(s) \/ Own(s)
  <2>1. CASE r = s
    BY <1>12, <2>1 DEF Own
  <2>2. CASE r # s
    BY <1>12, <2>2, OthersStill
  <2> QED
    BY <2>1, <2>2
<1>13. CASE Close
  BY <1>13 DEF Close, Still
<1>14. CASE UNCHANGED vars
  BY <1>14 DEF vars, Still
<1> QED
  BY <1>1, <1>2, <1>3, <1>6, <1>7, <1>8, <1>9, <1>10, <1>11, <1>12, <1>13, <1>14 DEF Next, Dmux,
     Decoder, Fails

-----------------------------------------------------------------------------
(***************************************************************************)
(* Where the demultiplexer is, and what it may have read.                  *)
(***************************************************************************)
\* What only the demultiplexer, an order to end and a released buffer change.
DemuxSame ==
  /\ UNCHANGED << mode_exec, dpc, dRecv, dStat, target, positionIndex, parseLastError,
                  auWriteQueue >>
  /\ errorCode'[None] = errorCode[None]

\* The thread is told to end: it may be woken, and one that is over may end.
ToldToEnd ==
  /\ mode_exec' = FALSE
  /\ dpc' = dpc \/ (dpc = "asleep" /\ dpc' = "wait") \/ (dpc = "over" /\ dpc' = "gone")
  /\ UNCHANGED << dRecv, dStat, target, positionIndex, parseLastError, auWriteQueue, errorCode >>

LEMMA Exits ==
  ASSUME TypeInv, DmuxExit \/ SysutilCb \/ \E s \in Stream : DecoderExit(s)
  PROVE  ToldToEnd
<1> USE DEF queues, parser
<1>0. mode_exec \in BOOLEAN /\ dpc \in DmuxPlaces /\ pc \in [Stream -> Places]
  BY DEF TypeInv, ControlTypes, DmuxPlaces, Places
<1>1. CASE DmuxExit
  <2>1. ErrorExit("gone", pc) /\ dpc = "over" /\ "gone" \in DmuxPlaces
    BY <1>1 DEF DmuxExit, DmuxPlaces
  <2>2. mode_exec' = FALSE /\ dpc' = "gone"
    BY <1>0, <2>1, ExitTypes
  <2> QED
    BY <1>1, <2>1, <2>2 DEF DmuxExit, ToldToEnd
<1>2. CASE SysutilCb
  <2>1. ErrorExit(dpc, pc)
    BY <1>2 DEF SysutilCb
  <2>2. mode_exec' = FALSE /\ (dpc' = dpc \/ (dpc = "asleep" /\ dpc' = "wait"))
    BY <1>0, <2>1, ExitTypes
  <2> QED
    BY <1>2, <2>2 DEF SysutilCb, ToldToEnd
<1>3. ASSUME NEW s \in Stream, DecoderExit(s) PROVE ToldToEnd
  <2>1. ErrorExit(dpc, [pc EXCEPT ![s] = "gone"])
    BY <1>3 DEF DecoderExit
  <2>2. [pc EXCEPT ![s] = "gone"] \in [Stream -> Places]
    BY <1>0 DEF Places
  <2>3. mode_exec' = FALSE /\ (dpc' = dpc \/ (dpc = "asleep" /\ dpc' = "wait"))
    BY <1>0, <2>1, <2>2, ExitTypes
  <2> QED
    BY <1>3, <2>3 DEF DecoderExit, ToldToEnd
<1> QED
  BY <1>1, <1>2, <1>3

LEMMA DemuxSteps ==
  ASSUME TypeInv, [Next]_vars
  PROVE  \/ DemuxSame \/ ToldToEnd \/ DmuxWait \/ DmuxSleep \/ ReadFails \/ ReadDefault \/ Parse \/ Notify \/ Done
         \/ \E s \in Stream : Release(s)
<1> USE Kinds DEF DemuxSame, control, demux, parser, queues, decoder, library, None
<1>0. errorCode \in Errors /\ pc \in [Stream -> Places]
  BY DEF TypeInv, ControlTypes, Errors, Places
<1>1. ASSUME NEW s \in Stream, Wait(s) PROVE DemuxSame
  BY <1>0, <1>1, EndsTypes DEF Wait
<1>2. ASSUME NEW s \in Stream, Sleep(s) PROVE DemuxSame
  BY <1>2 DEF Sleep
<1>3. ASSUME NEW s \in Stream, ReleaseFails(s) PROVE DemuxSame
  BY <1>0, <1>3 DEF ReleaseFails, Fault, Errors
<1>4. ASSUME NEW s \in Stream, LastReleased(s) PROVE DemuxSame
  BY <1>4 DEF LastReleased
<1>5. ASSUME NEW s \in Stream, GetAu(s) PROVE DemuxSame
  BY <1>0, <1>5, GoesTypes DEF GetAu
<1>6. ASSUME NEW s \in Stream, NoAu(s) PROVE DemuxSame
  BY <1>0, <1>6, TurnTypes DEF NoAu
<1>7. ASSUME NEW s \in Stream, EndSeq(s) PROVE DemuxSame
  BY <1>0, <1>7, TurnTypes DEF EndSeq
<1>8. ASSUME NEW s \in Stream, KeepsAu(s) PROVE DemuxSame
  BY <1>0, <1>8, GoesTypes DEF KeepsAu
<1>9. ASSUME NEW s \in Stream, NothingNew(s) PROVE DemuxSame
  BY <1>0, <1>9, TurnTypes DEF NothingNew
<1>10. ASSUME NEW s \in Stream, DecodeAu(s) PROVE DemuxSame
  BY <1>0, <1>10, TurnTypes DEF DecodeAu
<1>11. ASSUME NEW s \in Stream, Busy(s) PROVE DemuxSame
  BY <1>0, <1>11, TurnTypes DEF Busy
<1>12. ASSUME NEW s \in Stream, LibraryRefuses(s) PROVE DemuxSame
  BY <1>0, <1>12 DEF LibraryRefuses, Fault, Errors
<1>13. ASSUME NEW s \in Stream, AuDone(s) PROVE DemuxSame
  BY <1>13 DEF AuDone
<1>14. CASE PcmOut
  BY <1>14 DEF PcmOut
<1>15. ASSUME NEW s \in Stream, SeqDone(s) PROVE DemuxSame
  BY <1>0, <1>15 DEF SeqDone, Errors
<1>16. ASSUME NEW s \in Stream, LibraryFails(s) PROVE DemuxSame
  BY <1>0, <1>16 DEF LibraryFails, Errors
<1>17. CASE Close
  BY <1>17 DEF Close
<1>18. CASE UNCHANGED vars
  BY <1>18 DEF vars
<1>19. CASE DmuxExit \/ SysutilCb \/ \E s \in Stream : DecoderExit(s)
  BY <1>19, Exits
<1> HIDE DEF DemuxSame
<1> QED
  BY <1>1, <1>2, <1>3, <1>4, <1>5, <1>6, <1>7, <1>8, <1>9, <1>10, <1>11, <1>12, <1>13, <1>14,
     <1>15, <1>16, <1>17, <1>18, <1>19
  DEF Next, Dmux, Decoder, Fails

\* A decoder that decodes has an AU in hand.
LEMMA StepHand ==
  ASSUME TypeInv, ReadInv, [Next]_vars, NEW s \in Stream
  PROVE  pc'[s] = "decode" => pAuInfo'[s] # None
<1> USE DEF queues, demux, parser, decoder, library
<1>0. pc \in [Stream -> Places] /\ errorCode \in Errors /\ (pc[s] = "decode" => pAuInfo[s] # None)
  BY Places0 DEF ReadInv
<1>1. CASE Still(s) \/ Ordered(s) \/ Pushed(s)
  BY <1>0, <1>1 DEF Still, Ordered, Pushed, Moved
<1>2. ASSUME pc'[s] \in {pc[s], "wait"}, pAuInfo'[s] = pAuInfo[s]
      PROVE  pc'[s] = "decode" => pAuInfo'[s] # None
  BY <1>0, <1>2
<1>3. ASSUME pc'[s] # "decode"
      PROVE  pc'[s] = "decode" => pAuInfo'[s] # None
  BY <1>3
<1>4. CASE Wait(s)
  <2>1. pc'[s] \in {"going", "over", "last", "work"}
    BY <1>0, <1>4, WaitEffect
  <2> QED
    BY <1>3, <2>1
<1>5. CASE Sleep(s)
  BY <1>0, <1>5 DEF Sleep
<1>6. CASE Release(s)
  <2>1. pc' = pc /\ pAuInfo' = pAuInfo
    BY <1>6 DEF Release
  <2> QED
    BY <1>0, <2>1
<1>7. CASE ReleaseFails(s)
  BY <1>0, <1>7 DEF ReleaseFails, Fault
<1>8. CASE LastReleased(s)
  BY <1>0, <1>8 DEF LastReleased
<1>9. CASE GetAu(s)
  <2>1. pAuInfo'[s] \in Buffers(s)
    BY <1>9, GetAuMoves
  <2> QED
    BY <2>1 DEF Buffers, None
<1>10. CASE NoAu(s)
  <2>1. pc'[s] \in {"endseq", "wait", "over"}
    BY <1>0, <1>10, NoAuEffect, TurnTypes
  <2> QED
    BY <1>3, <2>1
<1>11. CASE EndSeq(s) \/ NothingNew(s) \/ DecodeAu(s) \/ Busy(s)
  <2>1. Turn(s)
    BY <1>11 DEF EndSeq, NothingNew, DecodeAu, Busy
  <2> QED
    BY <1>0, <1>3, <2>1, TurnTypes
<1>12. CASE KeepsAu(s)
  <2>1. pAuInfo[s] # None /\ pAuInfo' = pAuInfo
    BY <1>12 DEF KeepsAu
  <2> QED
    BY <2>1
<1>13. CASE LibraryRefuses(s)
  BY <1>0, <1>13 DEF LibraryRefuses, Fault
<1>14. CASE LibraryFails(s) \/ AuDone(s) \/ SeqDone(s)
  <2>1. Signal(s) /\ pAuInfo' = pAuInfo
    BY <1>14 DEF LibraryFails, AuDone, SeqDone
  <2> QED
    BY <1>0, <1>2, <2>1, SignalTypes
<1>15. CASE Notify /\ target = s
  <2>1. Signal(s) /\ pAuInfo' = pAuInfo
    BY <1>15 DEF Notify
  <2> QED
    BY <1>0, <1>2, <2>1, SignalTypes
<1>16. CASE Done /\ target' = s /\ target' # target
  <2>1. Signal(s) /\ pAuInfo' = pAuInfo
    BY <1>16, DoneEffect DEF Done
  <2> QED
    BY <1>0, <1>2, <2>1, SignalTypes
<1>17. CASE PcmOut /\ s = Audio
  <2>1. Signal(s) /\ pAuInfo' = pAuInfo
    BY <1>17 DEF PcmOut
  <2> QED
    BY <1>0, <1>2, <2>1, SignalTypes
<1> QED
  BY <1>1, <1>4, <1>5, <1>6, <1>7, <1>8, <1>9, <1>10, <1>11, <1>12, <1>13, <1>14, <1>15, <1>16,
     <1>17, StreamStep DEF Own

LEMMA TargetDue ==
  ASSUME TypeInv, ReadInv, NEW s \in Stream, IsTarget(s)
  PROVE  Left(s)
BY DEF IsTarget, ReadInv

LEMMA StepReadInv == TypeInv /\ ReadInv /\ [Next]_vars => ReadInv'
<1> SUFFICES ASSUME TypeInv, ReadInv, [Next]_vars PROVE ReadInv'
  OBVIOUS
<1> DEFINE Read == /\ \A s \in Stream : positionIndex[s] >= 1 /\ (parseLastError[s] = "full" => Left(s))
                   /\ dpc \in {"read", "parse", "notify"} => target \in Stream /\ Left(target)
                   /\ dpc = "parse" => target \in Framed
           Held1 == \A s \in Stream : pc[s] = "decode" => pAuInfo[s] # None
<1>0. ControlTypes
  BY DEF TypeInv
<1>1. Read
  BY DEF ReadInv
<1>2. ASSUME DemuxSame PROVE Read'
  BY <1>1, <1>2 DEF DemuxSame, Left
<1>3. ASSUME ToldToEnd PROVE Read'
  BY <1>1, <1>3 DEF ToldToEnd, Left
<1>4. ASSUME DmuxWait PROVE Read'
  <2>1. UNCHANGED << positionIndex, parseLastError >>
    BY <1>4 DEF DmuxWait, parser
  <2>2. dpc' \in {"read", "parse", "notify"} => dpc' = "read" /\ \E s \in Stream : IsTarget(s) /\ target' = s
    BY <1>4 DEF DmuxWait, DmuxOver
  <2>3. dpc' \in {"read", "parse", "notify"} => target' \in Stream /\ \E s \in Stream : Left(s) /\ target' = s
    BY <2>2, TargetDue
  <2> QED
    BY <1>1, <2>1, <2>2, <2>3 DEF Left
<1>5. ASSUME DmuxSleep PROVE Read'
  BY <1>1, <1>5 DEF DmuxSleep, parser, Left
<1>6. ASSUME ReadFails PROVE Read'
  BY <1>0, <1>1, <1>6 DEF ReadFails, DmuxOver, Left, ControlTypes
<1>7. ASSUME dpc \in {"read", "parse", "notify"}, ReturnsOk(target)
      PROVE  Read'
  <2>1. /\ positionIndex' \in [Stream -> Nat] /\ positionIndex'[target] = positionIndex[target] + 1
        /\ parseLastError'[target] = "ok" /\ dpc' \in {"wait", "over"}
        /\ \A r \in Stream : r # target => positionIndex'[r] = positionIndex[r] /\ parseLastError'[r] = parseLastError[r]
    BY <1>0, <1>1, <1>7, ReturnsOkTypes
  <2>2. ASSUME NEW r \in Stream PROVE positionIndex'[r] >= 1 /\ (parseLastError'[r] = "full" => Left(r)')
    <3>1. positionIndex[r] \in Nat
      BY <1>0 DEF ControlTypes
    <3>2. CASE r = target
      BY <1>1, <2>1, <3>1, <3>2
    <3>3. CASE r # target
      BY <1>1, <2>1, <3>3 DEF Left
    <3> QED
      BY <3>2, <3>3
  <2> QED
    BY <2>1, <2>2
<1>8. ASSUME dpc \in {"read", "parse", "notify"}, ReturnsFull(target)
      PROVE  Read'
  <2>1. /\ positionIndex' = positionIndex /\ dpc' \in {"wait", "over"} /\ Left(target) /\ target \in Stream
        /\ \A r \in Stream : r # target => parseLastError'[r] = parseLastError[r]
    BY <1>0, <1>1, <1>8, ReturnsFullTypes
  <2> QED
    BY <1>1, <2>1 DEF Left
<1>9. ASSUME ReadDefault PROVE Read'
  <2>1. dpc = "read" /\ target' = target
    BY <1>9 DEF ReadDefault
  <2>2. \/ ReturnsOk(target) \/ ReturnsFull(target)
        \/ dpc' = "notify" /\ UNCHANGED << parseLastError, positionIndex >>
    BY <1>9 DEF ReadDefault, Push
  <2>3. CASE dpc' = "notify" /\ UNCHANGED << parseLastError, positionIndex >>
    BY <1>1, <2>1, <2>3 DEF Left
  <2> QED
    BY <1>7, <1>8, <2>1, <2>2, <2>3
<1>10. ASSUME Parse PROVE Read'
  <2>1. dpc \in {"read", "parse"} /\ target' = target
    BY <1>10 DEF Parse
  <2>2. \/ ReturnsOk(target) \/ ReturnsFull(target)
        \/ dpc' = "notify" /\ UNCHANGED << parseLastError, positionIndex >>
    BY <1>10 DEF Parse, Push
  <2>3. CASE dpc' = "notify" /\ UNCHANGED << parseLastError, positionIndex >>
    BY <1>1, <2>1, <2>3 DEF Left
  <2> QED
    BY <1>7, <1>8, <2>1, <2>2, <2>3
<1>11. ASSUME Notify PROVE Read'
  <2>1. dpc = "notify" /\ target' = target
    BY <1>11 DEF Notify
  <2>2. \/ ReturnsOk(target)
        \/ dpc' = "parse" /\ target \in Framed /\ UNCHANGED << parseLastError, positionIndex >>
    BY <1>11 DEF Notify
  <2>3. CASE dpc' = "parse" /\ target \in Framed /\ UNCHANGED << parseLastError, positionIndex >>
    BY <1>1, <2>1, <2>3 DEF Left
  <2> QED
    BY <1>7, <2>1, <2>2, <2>3
<1>12. ASSUME Done PROVE Read'
  <2>1. dpc' \in {"done", "over"} /\ UNCHANGED << parseLastError, positionIndex >>
    BY <1>12 DEF Done, DmuxOver, parser
  <2> QED
    BY <1>1, <2>1 DEF Left
<1>13. ASSUME NEW s \in Stream, Release(s) PROVE Read'
  <2>1. dpc' \in {dpc, "wait"} /\ UNCHANGED << target, parseLastError, positionIndex >>
    BY <1>13 DEF Release, Woken, parser
  <2> QED
    BY <1>1, <2>1 DEF Left
<1>14. Read'
  BY <1>2, <1>3, <1>4, <1>5, <1>6, <1>9, <1>10, <1>11, <1>12, <1>13, DemuxSteps
<1>15. Held1'
  BY StepHand DEF Held1
<1> QED
  BY <1>14, <1>15 DEF ReadInv

-----------------------------------------------------------------------------
(***************************************************************************)
(* The steps of a decoder, in what they do to its stream.                  *)
(***************************************************************************)
Keeps(s) == UNCHANGED << Moved(s), recv[s], stat[s], pcm, mode_exec >>

\* The end of the loop of a decoder thread; a signal to it.
Turned(s) == \/ pc'[s] = "wait" /\ errorCode'[s] = errorCode[s]
             \/ pc'[s] = "over" /\ errorCode'[s] = "error"
Roused(s) == pc[s] # "going" /\ pc'[s] = IF pc[s] = "asleep" THEN "wait" ELSE pc[s]

LEMMA Turns ==
  ASSUME TypeInv, NEW s \in Stream
  PROVE  /\ Turn(s) => Turned(s)
         /\ Fault(s) => pc'[s] = "over" /\ errorCode'[s] = "error"
         /\ Goes(s) => Turned(s) \/ (pc'[s] = "decode" /\ errorCode'[s] = errorCode[s])
         /\ Signal(s) => Roused(s)
<1>1. pc \in [Stream -> Places] /\ errorCode \in Errors
  BY Places0
<1>2. Fault(s) => pc'[s] = "over" /\ errorCode'[s] = "error"
  BY <1>1 DEF Fault, Errors
<1>3. Turn(s) => Turned(s)
  BY <1>1, <1>2 DEF Turn, Turned
<1>4. Goes(s) => Turned(s) \/ (pc'[s] = "decode" /\ errorCode'[s] = errorCode[s])
  BY <1>1, <1>3 DEF Goes
<1>5. Signal(s) => Roused(s)
  BY <1>1, SignalTypes DEF Roused, Signal
<1> QED
  BY <1>2, <1>3, <1>4, <1>5

LEMMA SleepDoes ==
  ASSUME TypeInv, NEW s \in Stream, Sleep(s)
  PROVE  Keeps(s) /\ pc[s] = "going" /\ pc'[s] = "asleep" /\ UNCHANGED << ended[s], errorCode[s] >>
BY Places0 DEF Sleep, Keeps, Moved, queues, demux, parser, decoder, library, control

LEMMA ReleaseFailsDoes ==
  ASSUME TypeInv, NEW s \in Stream, ReleaseFails(s)
  PROVE  Keeps(s) /\ pc[s] \in {"work", "last"} /\ pc'[s] = "over" /\ errorCode'[s] = "error" /\ UNCHANGED ended[s]
BY Turns DEF ReleaseFails, Keeps, Moved, queues, demux, parser, decoder, library, control

LEMMA LastReleasedDoes ==
  ASSUME TypeInv, NEW s \in Stream, LastReleased(s)
  PROVE  Keeps(s) /\ pc[s] = "last" /\ pc'[s] = "over" /\ UNCHANGED << ended[s], errorCode[s] >>
BY Places0 DEF LastReleased, Keeps, Moved, queues, demux, parser, decoder, library, control

LEMMA KeepsAuDoes ==
  ASSUME TypeInv, NEW s \in Stream, KeepsAu(s)
  PROVE  /\ Keeps(s) /\ pc[s] = "work" /\ stat[s].auDoneNum = 0 /\ UNCHANGED ended[s]
         /\ Turned(s) \/ (pc'[s] = "decode" /\ errorCode'[s] = errorCode[s])
BY Turns DEF KeepsAu, AllReleased, Keeps, Moved, queues, demux, parser, decoder, library, control

LEMMA NothingNewDoes ==
  ASSUME TypeInv, NEW s \in Stream, NothingNew(s)
  PROVE  Keeps(s) /\ pc[s] = "work" /\ stat[s].auDoneNum = 0 /\ Turned(s) /\ UNCHANGED ended[s]
BY Turns DEF NothingNew, AllReleased, Keeps, Moved, queues, demux, parser, decoder, library, control

LEMMA EndSeqDoes ==
  ASSUME TypeInv, NEW s \in Stream, EndSeq(s)
  PROVE  Keeps(s) /\ pc[s] = "endseq" /\ Turned(s) /\ ended'[s] = TRUE
<1>1. ended' = [ended EXCEPT ![s] = TRUE] /\ ended \in [Stream -> BOOLEAN]
  BY DEF EndSeq, TypeInv, ControlTypes
<1>2. Keeps(s) /\ pc[s] = "endseq" /\ Turned(s)
  BY Turns DEF EndSeq, Keeps, Moved, queues, demux, parser, decoder, library, control
<1> QED
  BY <1>1, <1>2

LEMMA LibraryRefusesDoes ==
  ASSUME TypeInv, NEW s \in Stream, LibraryRefuses(s)
  PROVE  Keeps(s) /\ pc[s] \in {"endseq", "decode"} /\ pc'[s] = "over" /\ errorCode'[s] = "error" /\ UNCHANGED ended[s]
BY Turns DEF LibraryRefuses, Keeps, Moved, queues, demux, parser, decoder, library, control

LEMMA SeqDoneDoes ==
  ASSUME TypeInv, NEW s \in Stream, SeqDone(s)
  PROVE  /\ Keeps(s) /\ Roused(s) /\ UNCHANGED ended[s] /\ ended[s]
         /\ errorCode[s] = "invalid" /\ errorCode'[s] = "ok"
BY Turns, Places0 DEF SeqDone, Errors, Keeps, Moved, queues, demux, parser, decoder, library,
   control

LEMMA LibraryFailsDoes ==
  ASSUME TypeInv, NEW s \in Stream, LibraryFails(s)
  PROVE  /\ Keeps(s) /\ Roused(s) /\ UNCHANGED ended[s]
         /\ errorCode[s] = "invalid" /\ errorCode'[s] = "error"
<1>1. Keeps(s) /\ Signal(s) /\ UNCHANGED ended[s] /\ errorCode[s] = "invalid"
  BY DEF LibraryFails, Keeps, Moved, queues, demux, parser, decoder, library, control
<1>2. errorCode'[s] = "error"
  BY Places0 DEF LibraryFails, Errors
<1> QED
  BY <1>1, <1>2, Turns

LEMMA WaitDoes ==
  ASSUME TypeInv, NEW s \in Stream, Wait(s)
  PROVE  /\ UNCHANGED << Moved(s), pcm, mode_exec, ended[s] >> /\ pc[s] = "wait"
         /\ \/ /\ Sleeps(s, Received(s)) /\ pc'[s] = "going" /\ recv'[s] = Received(s)
               /\ UNCHANGED << stat[s], errorCode[s] >>
            \/ /\ stat'[s] = Received(s) /\ ~recv'[s].bAuFound /\ ~recv'[s].bReady /\ recv'[s].auDoneNum = 0
               /\ recv'[s].bStreamEnd = recv[s].bStreamEnd
               /\ \/ /\ errorCode[s] = "error" \/ (errorCode[s] = "invalid" /\ ~mode_exec)
                     /\ pc'[s] = "over" /\ errorCode'[s] = IF errorCode[s] = "error" THEN "error" ELSE "ok"
                  \/ /\ pc'[s] = (IF errorCode[s] = "ok" THEN "last" ELSE "work") /\ UNCHANGED errorCode[s]
<1>0. pc \in [Stream -> Places] /\ errorCode \in Errors
  BY Places0
<1>1. UNCHANGED << Moved(s), pcm, mode_exec, ended[s] >> /\ pc[s] = "wait"
  BY DEF Wait, Moved, queues, demux, parser, decoder, library, control
<1>2. CASE /\ Sleeps(s, Received(s)) /\ pc' = [pc EXCEPT ![s] = "going"]
           /\ recv'[s] = Received(s) /\ stat' = stat /\ errorCode' = errorCode
  <2>1. pc'[s] = "going"
    BY <1>0, <1>2
  <2> QED
    BY <1>1, <1>2, <2>1
<1>3. CASE /\ stat'[s] = Received(s)
           /\ ~recv'[s].bAuFound /\ ~recv'[s].bReady /\ recv'[s].auDoneNum = 0
           /\ errorCode[s] = "error" \/ (errorCode[s] = "invalid" /\ ~mode_exec)
           /\ pc' = [pc EXCEPT ![s] = "over"] /\ Ends(s)
  <2>1. pc'[s] = "over" /\ errorCode'[s] = IF errorCode[s] = "error" THEN "error" ELSE "ok"
    BY <1>0, <1>3 DEF Ends, Errors
  <2>2. recv'[s].bStreamEnd = recv[s].bStreamEnd
    BY WaitEffect
  <2> QED
    BY <1>1, <1>3, <2>1, <2>2
<1>4. CASE /\ stat'[s] = Received(s)
           /\ ~recv'[s].bAuFound /\ ~recv'[s].bReady /\ recv'[s].auDoneNum = 0
           /\ pc' = [pc EXCEPT ![s] = IF errorCode[s] = "ok" THEN "last" ELSE "work"]
           /\ errorCode' = errorCode
  <2>1. pc'[s] = IF errorCode[s] = "ok" THEN "last" ELSE "work"
    BY <1>0, <1>4
  <2>2. recv'[s].bStreamEnd = recv[s].bStreamEnd
    BY WaitEffect
  <2> QED
    BY <1>1, <1>4, <2>1, <2>2
<1> QED
  BY <1>2, <1>3, <1>4, WaitEffect

LEMMA ReleaseDoes ==
  ASSUME TypeInv, NEW s \in Stream, Release(s)
  PROVE  /\ UNCHANGED << recv[s], pc[s], errorCode[s], ended[s], pcm,
                         mode_exec >> /\ pc[s] \in {"work", "last"}
         /\ stat'[s].auDoneNum = stat[s].auDoneNum - 1 /\ stat[s].auDoneNum > 0
         /\ stat'[s].bAuFound = stat[s].bAuFound /\ stat'[s].bReady = stat[s].bReady
         /\ stat'[s].bStreamEnd = stat[s].bStreamEnd
         /\ auReleaseQueue[s] # << >> /\ auReleaseQueue'[s] = Tail(auReleaseQueue[s])
         /\ auWriteQueue'[s] = Append(auWriteQueue[s], Head(auReleaseQueue[s]))
         /\ UNCHANGED << auReadQueue[s], auAddr[s], pAuInfo[s], lib[s], given[s] >>
<1>1. UNCHANGED << recv[s], pc[s], errorCode[s], ended[s], pcm,
                   mode_exec >> /\ pc[s] \in {"work", "last"}
  BY DEF Release, queues, demux, parser, decoder, library, control
<1>2. /\ stat'[s].auDoneNum = stat[s].auDoneNum - 1 /\ stat[s].auDoneNum > 0
      /\ stat'[s].bAuFound = stat[s].bAuFound /\ stat'[s].bReady = stat[s].bReady
      /\ stat'[s].bStreamEnd = stat[s].bStreamEnd
  BY ReleaseEffect
<1>3. /\ auReleaseQueue[s] # << >> /\ auReleaseQueue'[s] = Tail(auReleaseQueue[s])
      /\ auWriteQueue'[s] = Append(auWriteQueue[s], Head(auReleaseQueue[s]))
      /\ UNCHANGED << auReadQueue[s], auAddr[s], pAuInfo[s], lib[s], given[s] >>
  BY ReleaseMoves
<1> QED
  BY <1>1, <1>2, <1>3

LEMMA GetAuDoes ==
  ASSUME TypeInv, NEW s \in Stream, GetAu(s)
  PROVE  /\ UNCHANGED << recv[s], stat[s], ended[s], pcm, mode_exec >> /\ pc[s] = "work"
         /\ stat[s].auDoneNum = 0 /\ stat[s].bAuFound /\ pAuInfo[s] = None
         /\ auReadQueue[s] # << >> /\ auReadQueue'[s] = Tail(auReadQueue[s])
         /\ auReleaseQueue'[s] = Append(auReleaseQueue[s], Head(auReadQueue[s]))
         /\ pAuInfo'[s] = Head(auReadQueue[s]) /\ pAuInfo'[s] # None
         /\ UNCHANGED << auWriteQueue[s], auAddr[s], lib[s], given[s] >>
         /\ Turned(s) \/ (pc'[s] = "decode" /\ errorCode'[s] = errorCode[s])
<1>1. UNCHANGED << recv[s], stat[s], ended[s], pcm,
                   mode_exec >> /\ Goes(s) /\ AllReleased(s) /\ stat[s].bAuFound
  BY DEF GetAu, queues, demux, parser, decoder, library, control
<1>2. /\ auReadQueue[s] # << >> /\ pAuInfo[s] = None /\ auReadQueue'[s] = Tail(auReadQueue[s])
      /\ auReleaseQueue'[s] = Append(auReleaseQueue[s], Head(auReadQueue[s]))
      /\ pAuInfo'[s] = Head(auReadQueue[s]) /\ Head(auReadQueue[s]) \in Buffers(s)
      /\ UNCHANGED << auWriteQueue[s], auAddr[s], lib[s], given[s] >>
  BY GetAuMoves
<1>3. pAuInfo'[s] # None
  BY <1>2 DEF Buffers, None
<1> QED
  BY <1>1, <1>2, <1>3, Turns DEF AllReleased

LEMMA NoAuDoes ==
  ASSUME TypeInv, NEW s \in Stream, NoAu(s)
  PROVE  /\ UNCHANGED << Moved(s), ended[s], pcm, mode_exec >> /\ pc[s] = "work"
         /\ auReadQueue[s] = << >> /\ pAuInfo[s] = None /\ stat[s].auDoneNum = 0
         /\ ~stat'[s].bAuFound /\ stat'[s].bReady = stat[s].bReady
         /\ stat'[s].bStreamEnd = stat[s].bStreamEnd /\ stat'[s].auDoneNum = stat[s].auDoneNum
         /\ recv'[s].bReady = recv[s].bReady /\ recv'[s].auDoneNum = recv[s].auDoneNum
         /\ \/ /\ stat[s].bStreamEnd /\ ~recv'[s].bAuFound /\ ~recv'[s].bStreamEnd
               /\ pc'[s] = "endseq" /\ errorCode'[s] = errorCode[s]
            \/ ~stat[s].bStreamEnd /\ recv'[s] = recv[s] /\ Turned(s)
<1>1. /\ UNCHANGED << Moved(s), ended[s], pcm, mode_exec >> /\ AllReleased(s)
      /\ auReadQueue[s] = << >> /\ pAuInfo[s] = None
  BY DEF NoAu, Moved, queues, demux, parser, decoder, library, control
<1>2. \/ /\ stat[s].bStreamEnd /\ ~recv'[s].bAuFound /\ ~recv'[s].bStreamEnd
         /\ pc'[s] = "endseq" /\ errorCode'[s] = errorCode[s]
      \/ ~stat[s].bStreamEnd /\ recv'[s] = recv[s] /\ Turned(s)
  BY NoAuEffect, Turns, Places0
<1>3. /\ ~stat'[s].bAuFound /\ stat'[s].bReady = stat[s].bReady
      /\ stat'[s].bStreamEnd = stat[s].bStreamEnd /\ stat'[s].auDoneNum = stat[s].auDoneNum
      /\ recv'[s].bReady = recv[s].bReady /\ recv'[s].auDoneNum = recv[s].auDoneNum
  BY NoAuEffect
<1> QED
  BY <1>1, <1>2, <1>3 DEF AllReleased

LEMMA DecodeDoes ==
  ASSUME TypeInv, NEW s \in Stream, DecodeAu(s)
  PROVE  /\ UNCHANGED << recv[s], stat[s], ended[s], pcm,
                         mode_exec >> /\ pc[s] = "decode" /\ Turned(s)
         /\ lib'[s] = Append(lib[s], [buffer |-> pAuInfo[s], au |-> auAddr[s][pAuInfo[s]]])
         /\ given'[s] = Append(given[s], auAddr[s][pAuInfo[s]]) /\ pAuInfo'[s] = None
         /\ UNCHANGED << auWriteQueue[s], auReadQueue[s], auReleaseQueue[s], auAddr[s] >>
<1>1. UNCHANGED << recv[s], stat[s], ended[s], pcm, mode_exec >> /\ pc[s] = "decode" /\ Turn(s)
  BY DEF DecodeAu, queues, demux, parser, decoder, library, control
<1>2. /\ lib'[s] = Append(lib[s], [buffer |-> pAuInfo[s], au |-> auAddr[s][pAuInfo[s]]])
      /\ given'[s] = Append(given[s], auAddr[s][pAuInfo[s]]) /\ pAuInfo'[s] = None
      /\ UNCHANGED queues
  BY DecodeMoves
<1> QED
  BY <1>1, <1>2, Turns DEF queues

LEMMA BusyDoes ==
  ASSUME TypeInv, NEW s \in Stream, Busy(s)
  PROVE  /\ UNCHANGED << Moved(s), recv[s], ended[s], pcm,
                         mode_exec >> /\ pc[s] = "decode" /\ Turned(s)
         /\ Held(s) >= LibSize
         /\ stat'[s].auDoneNum = stat[s].auDoneNum /\ ~stat'[s].bReady
         /\ stat'[s].bAuFound = stat[s].bAuFound /\ stat'[s].bStreamEnd = stat[s].bStreamEnd
<1>1. /\ UNCHANGED << Moved(s), recv[s], ended[s], pcm, mode_exec >> /\ pc[s] = "decode" /\ Turn(s)
      /\ Held(s) >= LibSize
  BY DEF Busy, Moved, queues, demux, parser, decoder, library, control
<1> QED
  BY <1>1, BusyEffect, Turns

LEMMA AuDoneDoes ==
  ASSUME TypeInv, NEW s \in Stream, AuDone(s)
  PROVE  /\ Roused(s) /\ UNCHANGED << stat[s], errorCode[s], ended[s], mode_exec >>
         /\ recv'[s].auDoneNum = recv[s].auDoneNum + 1
         /\ recv'[s].bReady <=> recv[s].bReady \/ s # Audio
         /\ recv'[s].bAuFound = recv[s].bAuFound /\ recv'[s].bStreamEnd = recv[s].bStreamEnd
         /\ lib[s] # << >> /\ lib'[s] = Tail(lib[s]) /\ pcm' = IF s = Audio THEN pcm + 1 ELSE pcm
         /\ UNCHANGED << auWriteQueue[s], auReadQueue[s], auReleaseQueue[s], auAddr[s], pAuInfo[s],
                         given[s] >>
<1>1. Signal(s) /\ UNCHANGED << stat[s], errorCode[s], ended[s], mode_exec >>
  BY DEF AuDone, queues, demux, parser, decoder, library, control
<1>2. /\ lib[s] # << >> /\ lib'[s] = Tail(lib[s]) /\ pcm' = IF s = Audio THEN pcm + 1 ELSE pcm
      /\ UNCHANGED << auWriteQueue[s], auReadQueue[s], auReleaseQueue[s], auAddr[s], pAuInfo[s],
                      given[s] >>
  BY AuDoneMoves DEF queues
<1>3. /\ recv'[s].auDoneNum = recv[s].auDoneNum + 1
      /\ recv'[s].bReady <=> recv[s].bReady \/ s # Audio
      /\ recv'[s].bAuFound = recv[s].bAuFound /\ recv'[s].bStreamEnd = recv[s].bStreamEnd
  BY AuDoneEffect
<1>4. Roused(s)
  BY <1>1, Turns
<1> QED
  BY <1>1, <1>2, <1>3, <1>4

LEMMA PcmOutDoes ==
  ASSUME TypeInv, NEW s \in Stream, PcmOut, s = Audio
  PROVE  /\ Roused(s) /\ UNCHANGED << Moved(s), stat[s], errorCode[s], ended[s], mode_exec >>
         /\ recv'[s].auDoneNum = recv[s].auDoneNum /\ recv'[s].bReady
         /\ recv'[s].bAuFound = recv[s].bAuFound /\ recv'[s].bStreamEnd = recv[s].bStreamEnd
<1>1. Signal(s) /\ UNCHANGED << Moved(s), stat[s], errorCode[s], ended[s], mode_exec >>
  BY DEF PcmOut, Moved, queues, demux, parser, decoder, library, control
<1> QED
  BY <1>1, PcmOutEffect, Turns

LEMMA NotifyDoes ==
  ASSUME TypeInv, NEW s \in Stream, ReadInv, Notify, target = s
  PROVE  /\ Roused(s) /\ UNCHANGED << Moved(s), stat[s], errorCode[s], ended[s], pcm, mode_exec >>
         /\ recv'[s].auDoneNum = recv[s].auDoneNum /\ recv'[s].bReady = recv[s].bReady
         /\ recv'[s].bAuFound /\ recv'[s].bStreamEnd = recv[s].bStreamEnd
<1>1. Signal(s) /\ UNCHANGED << Moved(s), stat[s], ended[s], pcm, mode_exec >>
  BY DEF Notify, Moved, queues, demux, parser, decoder, library, control
<1>2. errorCode'[s] = errorCode[s]
  BY Places0, AgainTypes DEF Notify, ReturnsOk
<1> QED
  BY <1>1, <1>2, NotifyEffect, Turns

LEMMA DoneDoes ==
  ASSUME TypeInv, NEW s \in Stream, Done, target' = s, target' # target
  PROVE  /\ Roused(s) /\ UNCHANGED << Moved(s), stat[s], errorCode[s], ended[s], pcm, mode_exec >>
         /\ recv'[s].auDoneNum = recv[s].auDoneNum /\ recv'[s].bReady = recv[s].bReady
         /\ recv'[s].bAuFound /\ recv'[s].bStreamEnd
<1>1. UNCHANGED << Moved(s), stat[s], ended[s], pcm, mode_exec >>
  BY DEF Done, Moved, queues, demux, parser, decoder, library, control
<1>2. /\ Signal(s) /\ errorCode' = errorCode /\ recv'[s].bAuFound /\ recv'[s].bStreamEnd
      /\ recv'[s].bReady = recv[s].bReady /\ recv'[s].auDoneNum = recv[s].auDoneNum
  BY DoneEffect
<1> QED
  BY <1>1, <1>2, Turns

-----------------------------------------------------------------------------
(***************************************************************************)
(* Every buffer of a stream is in one of its three queues, and those that  *)
(* wait to be released are counted: in the received status, in its copy,   *)
(* at the library or in the hand of the decoder.                           *)
(***************************************************************************)
Hand(s) == IF pAuInfo[s] = None THEN 0 ELSE 1

Waiting(s) == recv[s].auDoneNum + stat[s].auDoneNum + Len(lib[s]) + Hand(s)

QueueOf(s) ==
  /\ Len(auWriteQueue[s]) + Len(auReadQueue[s]) + Len(auReleaseQueue[s]) = AuNum[s]
  /\ Len(auReleaseQueue[s]) = Waiting(s)
  /\ stat[s].auDoneNum = 0 \/ pc[s] \in {"work", "last", "over", "gone"}

LEMMA Lengths ==
  \A S : \A q \in Seq(S) :
    /\ Len(q) \in Nat /\ (q = << >> <=> Len(q) = 0)
    /\ q # << >> => Len(q) > 0 /\ Len(Tail(q)) = Len(q) - 1 /\ Head(q) \in S /\ Tail(q) \in Seq(S)
    /\ \A e \in S : Len(Append(q, e)) = Len(q) + 1
OBVIOUS

LEMMA MoveLengths ==
  \A S : \A q, t \in Seq(S) : q # << >> =>
    Len(Tail(q)) = Len(q) - 1 /\ Len(Append(t, Head(q))) = Len(t) + 1
OBVIOUS

LEMMA Counts ==
  ASSUME TypeInv, NEW s \in Stream
  PROVE  /\ recv[s].auDoneNum \in Nat /\ stat[s].auDoneNum \in Nat
         /\ Len(auWriteQueue[s]) \in Nat /\ Len(auReadQueue[s]) \in Nat /\ Len(auReleaseQueue[s]) \in Nat
         /\ Len(lib[s]) \in Nat /\ Hand(s) \in {0, 1} /\ (Hand(s) = 0 <=> pAuInfo[s] = None)
<1>1. recv[s] \in Status /\ stat[s] \in Status
  BY StatusTypes
<1>2. recv[s].auDoneNum \in Nat /\ stat[s].auDoneNum \in Nat
  BY <1>1 DEF Status
<1>3. Len(auWriteQueue[s]) \in Nat /\ Len(auReadQueue[s]) \in Nat /\ Len(auReleaseQueue[s]) \in Nat /\ Len(lib[s]) \in Nat
  BY StreamFacts, Lengths
<1> QED
  BY <1>2, <1>3 DEF Hand

\* The counts of stream s do not change, and its decoder is not left with a count to release.
LEMMA QueueSame ==
  ASSUME TypeInv, NEW s \in Stream, QueueOf(s), UNCHANGED Moved(s),
         recv'[s].auDoneNum = recv[s].auDoneNum, stat'[s].auDoneNum = stat[s].auDoneNum,
         stat[s].auDoneNum = 0 \/ pc'[s] \in {"work", "last", "over", "gone"}
  PROVE  QueueOf(s)'
BY DEF QueueOf, Waiting, Hand, Moved

LEMMA StepQueue ==
  ASSUME TypeInv, ReadInv, [Next]_vars, NEW s \in Stream, QueueOf(s)
  PROVE  QueueOf(s)'
<1> DEFINE w == Len(auWriteQueue[s])
           r == Len(auReadQueue[s])
           d == Len(auReleaseQueue[s])
           l == Len(lib[s])
           h == Hand(s)
           n == recv[s].auDoneNum
           k == stat[s].auDoneNum
<1>1. w + r + d = AuNum[s] /\ d = n + k + l + h
  BY DEF QueueOf, Waiting
<1>2. stat[s].auDoneNum = 0 \/ pc[s] \in {"work", "last", "over", "gone"}
  BY DEF QueueOf
<1>3. /\ w \in Nat /\ r \in Nat /\ d \in Nat /\ l \in Nat /\ n \in Nat /\ k \in Nat
      /\ h \in {0, 1} /\ (h = 0 <=> pAuInfo[s] = None)
  BY Counts
<1>4. pc \in [Stream -> Places] /\ AuNum[s] \in Nat
  BY Places0, Kinds
<1>5. /\ auWriteQueue[s] \in Seq(Buffers(s)) /\ auReadQueue[s] \in Seq(Buffers(s))
      /\ auReleaseQueue[s] \in Seq(Buffers(s)) /\ lib[s] \in Seq([buffer : Buffers(s), au : AuOf(s)])
  BY StreamFacts
<1>6. ASSUME w' + r' + d' = AuNum[s], d' = n' + k' + l' + h',
             k' = 0 \/ pc'[s] \in {"work", "last", "over", "gone"}
      PROVE  QueueOf(s)'
  BY <1>6 DEF QueueOf, Waiting
<1> HIDE DEF w, r, d, l, h, n, k
<1>11. CASE Still(s)
  <2>1. /\ UNCHANGED Moved(s) /\ recv'[s].auDoneNum = recv[s].auDoneNum /\ stat'[s].auDoneNum = stat[s].auDoneNum
        /\ stat[s].auDoneNum = 0 \/ pc'[s] \in {"work", "last", "over", "gone"}
    BY <1>2, <1>11 DEF Keeps, Still, Ordered, Turned, Roused
  <2> QED
    BY <2>1, QueueSame
<1>12. CASE Ordered(s)
  <2>1. /\ UNCHANGED Moved(s) /\ recv'[s].auDoneNum = recv[s].auDoneNum /\ stat'[s].auDoneNum = stat[s].auDoneNum
        /\ stat[s].auDoneNum = 0 \/ pc'[s] \in {"work", "last", "over", "gone"}
    BY <1>2, <1>12 DEF Keeps, Still, Ordered, Turned, Roused
  <2> QED
    BY <2>1, QueueSame
<1>13. CASE Pushed(s)
  <2>1. /\ auWriteQueue[s] # << >> /\ auWriteQueue'[s] = Tail(auWriteQueue[s])
        /\ auReadQueue'[s] = Append(auReadQueue[s], Head(auWriteQueue[s]))
        /\ UNCHANGED << auReleaseQueue[s], pAuInfo[s], lib[s], pc[s], recv[s], stat[s] >>
    BY <1>13 DEF Pushed
  <2>2. w' = w - 1 /\ r' = r + 1
    BY <1>5, <2>1, MoveLengths DEF w, r
  <2>3. d' = d /\ l' = l /\ h' = h /\ n' = n /\ k' = k
    BY <2>1 DEF d, l, h, n, k, Hand
  <2>4. k' = 0 \/ pc'[s] \in {"work", "last", "over", "gone"}
    BY <1>2, <2>1 DEF k
  <2>5. w' + r' + d' = AuNum[s] /\ d' = n' + k' + l' + h'
    BY <1>1, <1>3, <2>2, <2>3
  <2> QED
    BY <1>6, <2>4, <2>5
<1>14. CASE Wait(s)
  <2>1. UNCHANGED Moved(s) /\ stat[s].auDoneNum = 0
    BY <1>2, <1>14, WaitDoes
  <2>2. CASE /\ pc'[s] = "going" /\ recv'[s] = Received(s) /\ stat'[s] = stat[s]
    BY <2>1, <2>2, QueueSame, ReceivedStatus
  <2>3. CASE /\ stat'[s] = Received(s) /\ recv'[s].auDoneNum = 0 /\ pc'[s] \in {"work", "last", "over", "gone"}
    <3>1. stat'[s].auDoneNum = recv[s].auDoneNum
      BY <2>3, ReceivedStatus
    <3>2. k' = n /\ n' = 0 /\ k = 0
      BY <2>1, <2>3, <3>1 DEF k, n
    <3>3. w' = w /\ r' = r /\ d' = d /\ l' = l /\ h' = h
      BY <2>1 DEF Moved, w, r, d, l, h, Hand
    <3>4. w' + r' + d' = AuNum[s] /\ d' = n' + k' + l' + h'
      BY <1>1, <1>3, <3>2, <3>3
    <3> QED
      BY <1>6, <2>3, <3>4
  <2> QED
    BY <1>14, <2>2, <2>3, WaitDoes
<1>15. CASE Sleep(s)
  <2>1. /\ UNCHANGED Moved(s) /\ recv'[s].auDoneNum = recv[s].auDoneNum /\ stat'[s].auDoneNum = stat[s].auDoneNum
        /\ stat[s].auDoneNum = 0 \/ pc'[s] \in {"work", "last", "over", "gone"}
    BY <1>2, <1>15, SleepDoes DEF Keeps, Still, Ordered, Turned, Roused
  <2> QED
    BY <2>1, QueueSame
<1>16. CASE Release(s)
  <2>1. /\ auReleaseQueue[s] # << >> /\ auReleaseQueue'[s] = Tail(auReleaseQueue[s])
        /\ auWriteQueue'[s] = Append(auWriteQueue[s], Head(auReleaseQueue[s]))
        /\ UNCHANGED << auReadQueue[s], pAuInfo[s], lib[s], pc[s],
                        recv[s] >> /\ pc[s] \in {"work", "last"}
        /\ stat'[s].auDoneNum = stat[s].auDoneNum - 1
    BY <1>16, ReleaseDoes
  <2>2. d' = d - 1 /\ w' = w + 1
    BY <1>5, <2>1, MoveLengths DEF d, w
  <2>3. r' = r /\ l' = l /\ h' = h /\ n' = n /\ k' = k - 1
    BY <2>1 DEF r, l, h, n, k, Hand
  <2>4. w' + r' + d' = AuNum[s] /\ d' = n' + k' + l' + h'
    BY <1>1, <1>3, <2>2, <2>3
  <2> QED
    BY <1>6, <2>1, <2>4
<1>17. CASE ReleaseFails(s)
  <2>1. /\ UNCHANGED Moved(s) /\ recv'[s].auDoneNum = recv[s].auDoneNum /\ stat'[s].auDoneNum = stat[s].auDoneNum
        /\ stat[s].auDoneNum = 0 \/ pc'[s] \in {"work", "last", "over", "gone"}
    BY <1>2, <1>17, ReleaseFailsDoes DEF Keeps, Still, Ordered, Turned, Roused
  <2> QED
    BY <2>1, QueueSame
<1>18. CASE LastReleased(s)
  <2>1. /\ UNCHANGED Moved(s) /\ recv'[s].auDoneNum = recv[s].auDoneNum /\ stat'[s].auDoneNum = stat[s].auDoneNum
        /\ stat[s].auDoneNum = 0 \/ pc'[s] \in {"work", "last", "over", "gone"}
    BY <1>2, <1>18, LastReleasedDoes DEF Keeps, Still, Ordered, Turned, Roused
  <2> QED
    BY <2>1, QueueSame
<1>19. CASE GetAu(s)
  <2>1. /\ auReadQueue[s] # << >> /\ auReadQueue'[s] = Tail(auReadQueue[s])
        /\ auReleaseQueue'[s] = Append(auReleaseQueue[s], Head(auReadQueue[s]))
        /\ UNCHANGED << auWriteQueue[s], lib[s], stat[s], recv[s] >> /\ stat[s].auDoneNum = 0
        /\ pAuInfo[s] = None /\ pAuInfo'[s] # None
    BY <1>19, GetAuDoes
  <2>2. d' = d + 1 /\ r' = r - 1
    BY <1>5, <2>1, MoveLengths DEF d, r
  <2>3. w' = w /\ l' = l /\ h = 0 /\ h' = 1 /\ n' = n /\ k' = k /\ k = 0
    BY <2>1 DEF w, l, h, n, k, Hand
  <2>4. w' + r' + d' = AuNum[s] /\ d' = n' + k' + l' + h'
    BY <1>1, <1>3, <2>2, <2>3
  <2> QED
    BY <1>6, <2>3, <2>4
<1>20. CASE NoAu(s)
  <2>1. /\ UNCHANGED Moved(s) /\ recv'[s].auDoneNum = recv[s].auDoneNum /\ stat'[s].auDoneNum = stat[s].auDoneNum
        /\ stat[s].auDoneNum = 0 \/ pc'[s] \in {"work", "last", "over", "gone"}
    BY <1>2, <1>20, NoAuDoes DEF Keeps, Still, Ordered, Turned, Roused
  <2> QED
    BY <2>1, QueueSame
<1>21. CASE EndSeq(s)
  <2>1. /\ UNCHANGED Moved(s) /\ recv'[s].auDoneNum = recv[s].auDoneNum /\ stat'[s].auDoneNum = stat[s].auDoneNum
        /\ stat[s].auDoneNum = 0 \/ pc'[s] \in {"work", "last", "over", "gone"}
    BY <1>2, <1>21, EndSeqDoes DEF Keeps, Still, Ordered, Turned, Roused
  <2> QED
    BY <2>1, QueueSame
<1>22. CASE KeepsAu(s)
  <2>1. /\ UNCHANGED Moved(s) /\ recv'[s].auDoneNum = recv[s].auDoneNum /\ stat'[s].auDoneNum = stat[s].auDoneNum
        /\ stat[s].auDoneNum = 0 \/ pc'[s] \in {"work", "last", "over", "gone"}
    BY <1>2, <1>22, KeepsAuDoes DEF Keeps, Still, Ordered, Turned, Roused
  <2> QED
    BY <2>1, QueueSame
<1>23. CASE NothingNew(s)
  <2>1. /\ UNCHANGED Moved(s) /\ recv'[s].auDoneNum = recv[s].auDoneNum /\ stat'[s].auDoneNum = stat[s].auDoneNum
        /\ stat[s].auDoneNum = 0 \/ pc'[s] \in {"work", "last", "over", "gone"}
    BY <1>2, <1>23, NothingNewDoes DEF Keeps, Still, Ordered, Turned, Roused
  <2> QED
    BY <2>1, QueueSame
<1>24. CASE DecodeAu(s)
  <2>1. l' = l + 1
    <3>1. pAuInfo[s] # None /\ pAuInfo[s] \in 0 .. AuNum[s] /\ auAddr[s] \in [Buffers(s) -> AuOf(s)]
      BY <1>24, StreamFacts, DecodeDoes DEF ReadInv
    <3>2. pAuInfo[s] \in Buffers(s)
      BY <1>4, <3>1 DEF Buffers, None
    <3>3. PICK e \in [buffer : Buffers(s), au : AuOf(s)] : e = [buffer |-> pAuInfo[s], au |-> auAddr[s][pAuInfo[s]]]
      BY <3>1, <3>2
    <3>4. lib'[s] = Append(lib[s], e)
      BY <1>24, <3>3, DecodeDoes
    <3> QED
      BY <1>5, <3>4, Lengths DEF l
  <2>2. /\ UNCHANGED << auWriteQueue[s], auReadQueue[s], auReleaseQueue[s], stat[s], recv[s] >>
        /\ pc[s] = "decode" /\ pAuInfo'[s] = None /\ pAuInfo[s] # None
    BY <1>24, DecodeDoes DEF ReadInv
  <2>3. w' = w /\ r' = r /\ d' = d /\ h = 1 /\ h' = 0 /\ n' = n /\ k' = k
    BY <2>2 DEF w, r, d, h, n, k, Hand
  <2>4. k = 0
    BY <1>2, <2>2 DEF k
  <2>5. w' + r' + d' = AuNum[s] /\ d' = n' + k' + l' + h'
    BY <1>1, <1>3, <2>1, <2>3
  <2> QED
    BY <1>6, <2>3, <2>4, <2>5
<1>25. CASE Busy(s)
  <2>1. /\ UNCHANGED Moved(s) /\ recv'[s].auDoneNum = recv[s].auDoneNum /\ stat'[s].auDoneNum = stat[s].auDoneNum
        /\ stat[s].auDoneNum = 0 \/ pc'[s] \in {"work", "last", "over", "gone"}
    BY <1>2, <1>25, BusyDoes DEF Keeps, Still, Ordered, Turned, Roused
  <2> QED
    BY <2>1, QueueSame
<1>26. CASE LibraryRefuses(s)
  <2>1. /\ UNCHANGED Moved(s) /\ recv'[s].auDoneNum = recv[s].auDoneNum /\ stat'[s].auDoneNum = stat[s].auDoneNum
        /\ stat[s].auDoneNum = 0 \/ pc'[s] \in {"work", "last", "over", "gone"}
    BY <1>2, <1>26, LibraryRefusesDoes DEF Keeps, Still, Ordered, Turned, Roused
  <2> QED
    BY <2>1, QueueSame
<1>27. CASE LibraryFails(s)
  <2>1. /\ UNCHANGED Moved(s) /\ recv'[s].auDoneNum = recv[s].auDoneNum /\ stat'[s].auDoneNum = stat[s].auDoneNum
        /\ stat[s].auDoneNum = 0 \/ pc'[s] \in {"work", "last", "over", "gone"}
    BY <1>2, <1>27, LibraryFailsDoes DEF Keeps, Still, Ordered, Turned, Roused
  <2> QED
    BY <2>1, QueueSame
<1>28. CASE AuDone(s)
  <2>1. /\ lib[s] # << >> /\ lib'[s] = Tail(lib[s])
        /\ UNCHANGED << auWriteQueue[s], auReadQueue[s], auReleaseQueue[s], stat[s], pAuInfo[s] >>
        /\ recv'[s].auDoneNum = recv[s].auDoneNum + 1 /\ Roused(s)
    BY <1>28, AuDoneDoes
  <2>2. l' = l - 1
    BY <1>5, <2>1, Lengths DEF l
  <2>3. w' = w /\ r' = r /\ d' = d /\ h' = h /\ n' = n + 1 /\ k' = k
    BY <2>1 DEF w, r, d, h, n, k, Hand
  <2>4. k' = 0 \/ pc'[s] \in {"work", "last", "over", "gone"}
    BY <1>2, <2>1 DEF Roused, k
  <2>5. w' + r' + d' = AuNum[s] /\ d' = n' + k' + l' + h'
    BY <1>1, <1>3, <2>2, <2>3
  <2> QED
    BY <1>6, <2>4, <2>5
<1>29. CASE SeqDone(s)
  <2>1. /\ UNCHANGED Moved(s) /\ recv'[s].auDoneNum = recv[s].auDoneNum /\ stat'[s].auDoneNum = stat[s].auDoneNum
        /\ stat[s].auDoneNum = 0 \/ pc'[s] \in {"work", "last", "over", "gone"}
    BY <1>2, <1>29, SeqDoneDoes DEF Keeps, Still, Ordered, Turned, Roused
  <2> QED
    BY <2>1, QueueSame
<1>30. CASE Notify /\ target = s
  <2>1. /\ UNCHANGED Moved(s) /\ recv'[s].auDoneNum = recv[s].auDoneNum /\ stat'[s].auDoneNum = stat[s].auDoneNum
        /\ stat[s].auDoneNum = 0 \/ pc'[s] \in {"work", "last", "over", "gone"}
    BY <1>2, <1>30, NotifyDoes DEF Keeps, Still, Ordered, Turned, Roused
  <2> QED
    BY <2>1, QueueSame
<1>31. CASE Done /\ target' = s /\ target' # target
  <2>1. /\ UNCHANGED Moved(s) /\ recv'[s].auDoneNum = recv[s].auDoneNum /\ stat'[s].auDoneNum = stat[s].auDoneNum
        /\ stat[s].auDoneNum = 0 \/ pc'[s] \in {"work", "last", "over", "gone"}
    BY <1>2, <1>31, DoneDoes DEF Keeps, Still, Ordered, Turned, Roused
  <2> QED
    BY <2>1, QueueSame
<1>32. CASE PcmOut /\ s = Audio
  <2>1. /\ UNCHANGED Moved(s) /\ recv'[s].auDoneNum = recv[s].auDoneNum /\ stat'[s].auDoneNum = stat[s].auDoneNum
        /\ stat[s].auDoneNum = 0 \/ pc'[s] \in {"work", "last", "over", "gone"}
    BY <1>2, <1>32, PcmOutDoes DEF Keeps, Still, Ordered, Turned, Roused
  <2> QED
    BY <2>1, QueueSame
<1> QED
  BY <1>11, <1>12, <1>13, <1>14, <1>15, <1>16, <1>17, <1>18, <1>19, <1>20, <1>21, <1>22, <1>23,
     <1>24, <1>25, <1>26, <1>27, <1>28, <1>29, <1>30, <1>31, <1>32, StreamStep DEF Own
-----------------------------------------------------------------------------
(***************************************************************************)
(* The demultiplexer sleeps only when the stream it needs has no buffer    *)
(* free, and it says once that it is done.                                 *)
(***************************************************************************)
DmuxInv ==
  /\ dpc \in {"read", "parse", "notify", "done"} => dStat
  /\ ~dStat /\ ~dRecv => target \in Stream /\ auWriteQueue[target] = << >>
  /\ dpc \in {"going", "asleep"} => (mode_exec => ~dStat /\ ~dRecv)
  /\ dpc = "gone" => ~mode_exec
  /\ errorCode[None] # "invalid" => dpc \in {"wait", "over", "gone"}
  /\ errorCode[None] = "ok" => dpc \in {"over", "gone"}

\* What the end of a turn leaves: it goes on, or it is over without a fault.
LEMMA AgainSays ==
  ASSUME TypeInv, Again
  PROVE  \/ is_bg_video /\ dpc' = "wait" /\ errorCode' = errorCode
         \/ ~is_bg_video /\ dpc' = "over"
BY DEF Again, DmuxOver

LEMMA StepDmux ==
  ASSUME TypeInv, ReadInv, DmuxInv, [Next]_vars
  PROVE  DmuxInv'
<1> USE DEF DmuxInv
<1>0. /\ errorCode \in Errors /\ mode_exec \in BOOLEAN /\ dStat \in BOOLEAN /\ dRecv \in BOOLEAN
      /\ dpc \in DmuxPlaces /\ DOMAIN auWriteQueue = Stream
  BY DEF TypeInv, ControlTypes, Domains, Errors, DmuxPlaces
<1>1. CASE DemuxSame
  BY <1>1 DEF DemuxSame
<1>2. CASE ToldToEnd
  BY <1>0, <1>2 DEF ToldToEnd
<1>3. CASE DmuxWait
  <2>1. UNCHANGED << mode_exec, auWriteQueue >> /\ dpc = "wait"
    BY <1>3 DEF DmuxWait, control, queues
  <2>2. CASE DmuxSleeps
    <3>1. dpc' = "going" /\ UNCHANGED << dRecv, dStat, target, errorCode >>
      BY <1>3, <2>2 DEF DmuxWait
    <3> QED
      BY <2>1, <2>2, <3>1 DEF DmuxSleeps
  <2>3. CASE ~DmuxSleeps
    <3>1. dStat' = (dRecv \/ dStat) /\ dRecv' = FALSE
      BY <1>3, <2>3 DEF DmuxWait
    <3>2. CASE DmuxOver /\ UNCHANGED target
      <4>1. dpc' = "over"
        BY <3>2 DEF DmuxOver
      <4> QED
        BY <2>1, <3>1, <3>2, <4>1
    <3>3. CASE errorCode[None] = "invalid" /\ mode_exec /\ UNCHANGED errorCode /\ dpc' \in {"read", "done"}
      <4>1. dStat' = TRUE
        BY <1>0, <2>3, <3>1, <3>3 DEF DmuxSleeps
      <4> QED
        BY <2>1, <3>1, <3>3, <4>1
    <3> QED
      BY <1>3, <2>3, <3>2, <3>3 DEF DmuxWait
  <2> QED
    BY <2>2, <2>3
<1>4. CASE DmuxSleep
  BY <1>4 DEF DmuxSleep, control, queues
<1>5. CASE ReadFails
  <2>1. /\ UNCHANGED << mode_exec, dRecv, dStat, target, auWriteQueue >> /\ dpc = "read"
        /\ (dpc' = "over" \/ (dpc' = "wait" /\ errorCode' = [errorCode EXCEPT ![None] = "error"]))
    BY <1>5 DEF ReadFails, DmuxOver, control, queues
  <2>2. dpc' = "wait" => errorCode'[None] = "error"
    BY <1>0, <2>1 DEF Errors
  <2> QED
    BY <2>1, <2>2
<1>6. ASSUME dpc \in {"read", "parse", "notify"}, UNCHANGED << mode_exec, dRecv, target >>,
             \/ ReturnsOk(target)
             \/ ReturnsFull(target) /\ auWriteQueue'[target] = << >>
      PROVE  DmuxInv'
  <2>1. Again /\ target \in Stream /\ errorCode[None] = "invalid"
    BY <1>6 DEF ReturnsOk, ReturnsFull, ReadInv
  <2>2. dStat' \/ auWriteQueue'[target] = << >>
    BY <1>6 DEF ReturnsOk
  <2>3. (dpc' = "wait" /\ errorCode' = errorCode) \/ dpc' = "over"
    BY <2>1, AgainSays
  <2> QED
    BY <1>6, <2>1, <2>2, <2>3
<1>7. ASSUME NEW c, dpc \in {"read", "parse"}, UNCHANGED << mode_exec, dRecv,
                                                            target >>, Push(target, c)
      PROVE  DmuxInv'
  <2>1. dStat' = dStat /\ errorCode' = errorCode /\ dpc' = "notify" /\ errorCode[None] = "invalid" /\ dStat
    BY <1>7 DEF Push
  <2> QED
    BY <1>7, <2>1
<1>8. CASE ReadDefault
  <2>1. dpc = "read" /\ UNCHANGED << mode_exec, dRecv, target >>
    BY <1>8 DEF ReadDefault, control
  <2>2. \/ ReturnsOk(target) \/ (ReturnsFull(target) /\ auWriteQueue'[target] = << >>) \/ \E c : Push(target, c)
    BY <1>8 DEF ReadDefault, queues
  <2> QED
    BY <1>6, <1>7, <2>1, <2>2
<1>9. CASE Parse
  <2>1. dpc \in {"read", "parse"} /\ UNCHANGED << mode_exec, dRecv, target >>
    BY <1>9 DEF Parse, control
  <2>2. \/ ReturnsOk(target) \/ (ReturnsFull(target) /\ auWriteQueue'[target] = << >>) \/ \E c : Push(target, c)
    BY <1>9 DEF Parse, queues
  <2> QED
    BY <1>6, <1>7, <2>1, <2>2
<1>10. CASE Notify
  <2>1. dpc = "notify" /\ UNCHANGED << mode_exec, dRecv, target >>
    BY <1>10 DEF Notify, control
  <2>2. \/ ReturnsOk(target)
        \/ dpc' = "parse" /\ dStat' = dStat /\ errorCode' = errorCode
    BY <1>10 DEF Notify
  <2>3. CASE dpc' = "parse" /\ dStat' = dStat /\ errorCode' = errorCode
    BY <2>1, <2>3
  <2> QED
    BY <1>6, <2>1, <2>2, <2>3
<1>11. CASE Done
  <2>1. dpc = "done" /\ UNCHANGED << mode_exec, dRecv, dStat, auWriteQueue >> /\ dStat
    BY <1>11 DEF Done, control, queues
  <2>2. (dpc' = "done" /\ errorCode' = errorCode) \/ dpc' = "over"
    BY <1>11 DEF Done, DmuxOver
  <2> QED
    BY <2>1, <2>2
<1>12. ASSUME NEW s \in Stream, Release(s) PROVE DmuxInv'
  <2>1. /\ UNCHANGED << mode_exec, errorCode, dStat, target >> /\ dRecv' = TRUE
        /\ dpc # "going" /\ dpc' = Woken(dpc)
    BY <1>12 DEF Release, control
  <2>2. dpc' \notin {"going", "asleep"} /\ (dpc' = dpc \/ dpc' = "wait")
    BY <2>1 DEF Woken
  <2>3. dpc' = "wait" => dpc \in {"wait", "asleep"}
    BY <2>1 DEF Woken
  <2> QED
    BY <2>1, <2>2, <2>3
<1> QED
  BY <1>1, <1>2, <1>3, <1>4, <1>5, <1>8, <1>9, <1>10, <1>11, <1>12, DemuxSteps

-----------------------------------------------------------------------------
(***************************************************************************)
(* DMUX_DONE is not lost: a decoder that it reached ends its sequence, or  *)
(* will.                                                                   *)
(***************************************************************************)
Finished == dpc \in {"done", "over", "gone"}

Announced(s) ==
  \/ dpc = "done" /\ s <= target
  \/ dpc \in {"over", "gone"} /\ errorCode[None] = "ok" /\ mode_exec /\ is_bg_video

EndOf(s) ==
  /\ recv[s].bStreamEnd \/ stat[s].bStreamEnd \/ pc[s] = "endseq" \/ ended[s] => Finished
  /\ errorCode[s] = "ok" /\ mode_exec => ended[s]
  /\ Announced(s) =>
       \/ pc[s] \in {"endseq", "over", "gone"} \/ ended[s]
       \/ recv[s].bStreamEnd /\ (recv[s].bAuFound \/ (stat[s].bAuFound /\ stat[s].bStreamEnd))

LEMMA FinishedStays ==
  ASSUME TypeInv, [Next]_vars, Finished
  PROVE  Finished'
<1> USE DEF Finished
<1>1. CASE Done
  BY <1>1 DEF Done, DmuxOver
<1>2. ASSUME NEW s \in Stream, Release(s) PROVE Finished'
  BY <1>2 DEF Release, Woken
<1>3. CASE DemuxSame \/ ToldToEnd
  BY <1>3 DEF DemuxSame, ToldToEnd
<1>4. CASE DmuxWait \/ DmuxSleep \/ ReadFails \/ ReadDefault \/ Parse \/ Notify
  BY <1>4 DEF DmuxWait, DmuxSleep, ReadFails, ReadDefault, Parse, Notify
<1> QED
  BY <1>1, <1>2, <1>3, <1>4, DemuxSteps

LEMMA Closed == [Next]_vars => (is_bg_video' = is_bg_video \/ ~is_bg_video')
<1> USE DEF control, demux, parser, queues, decoder, library
<1> SUFFICES ASSUME [Next]_vars PROVE is_bg_video' = is_bg_video \/ ~is_bg_video'
  OBVIOUS
<1>1. CASE Dmux
  BY <1>1 DEF Dmux, DmuxWait, DmuxSleep, ReadDefault, Parse, Notify, Done, DmuxExit
<1>2. CASE Fails
  BY <1>2 DEF Fails, ReadFails, LibraryRefuses, LibraryFails
<1>3. CASE Close \/ SysutilCb \/ PcmOut \/ UNCHANGED vars
  BY <1>3 DEF Close, SysutilCb, PcmOut, vars
<1>4. ASSUME NEW s \in Stream, AuDone(s) \/ SeqDone(s) PROVE is_bg_video' = is_bg_video
  BY <1>4 DEF AuDone, SeqDone
<1>5. ASSUME NEW s \in Stream, Decoder(s) PROVE is_bg_video' = is_bg_video
  BY <1>5 DEF Decoder, Wait, Sleep, Release, ReleaseFails, LastReleased, GetAu, NoAu, EndSeq,
     KeepsAu, NothingNew,
              DecodeAu, Busy, DecoderExit
<1> QED
  BY <1>1, <1>2, <1>3, <1>4, <1>5 DEF Next

LEMMA Announces ==
  ASSUME TypeInv, ReadInv, DmuxInv, [Next]_vars, NEW s \in Stream, Announced(s)'
  PROVE  Announced(s) \/ (Done /\ target' = s /\ target' # target)
<1>0. /\ s \in Nat /\ s > 0 /\ errorCode \in Errors /\ mode_exec \in BOOLEAN
      /\ target \in Nat
  BY Kinds DEF TypeInv, ControlTypes, Errors, None
<1>1. is_bg_video' => is_bg_video
  BY Closed DEF TypeInv, ControlTypes
<1>2. Finished' /\ (dpc' # "done" => errorCode'[None] = "ok" /\ mode_exec' /\ is_bg_video')
      /\ (dpc' = "done" => s <= target')
  BY DEF Announced, Finished
<1>3. CASE DemuxSame
  BY <1>1, <1>2, <1>3 DEF DemuxSame, Announced, Finished
<1>4. CASE ToldToEnd
  BY <1>1, <1>2, <1>4 DEF ToldToEnd, Announced, Finished
<1>5. CASE DmuxWait
  <2>1. UNCHANGED mode_exec /\ dpc = "wait"
    BY <1>5 DEF DmuxWait, control
  <2>2. dpc' # "done"
    <3>1. dpc' = "done" => target' = None
      BY <1>5 DEF DmuxWait, DmuxOver
    <3> QED
      BY <1>0, <1>2, <3>1 DEF None
  <2>3. errorCode[None] # "invalid" /\ Ends(None)
    BY <1>2, <1>5, <2>1, <2>2 DEF DmuxWait, DmuxOver, Finished
  <2>4. errorCode[None] = "error"
    BY <1>0, <2>1, <2>3 DEF DmuxInv, Errors
  <2>5. errorCode'[None] = "error"
    BY <1>0, <2>3, <2>4 DEF Ends, Errors
  <2> QED
    BY <1>2, <2>2, <2>5
<1>6. CASE DmuxSleep
  BY <1>2, <1>6 DEF DmuxSleep, Finished
<1>7. CASE ReadFails
  BY <1>1, <1>2, <1>7 DEF ReadFails, DmuxOver, Finished, control
<1>8. ASSUME Again PROVE FALSE
  BY <1>1, <1>2, <1>8, AgainSays DEF Finished
<1>9. CASE ReadDefault
  <2>1. Again \/ dpc' = "notify"
    BY <1>9 DEF ReadDefault, ReturnsOk, ReturnsFull, Push
  <2> QED
    BY <1>2, <1>8, <2>1 DEF Finished
<1>10. CASE Parse
  <2>1. Again \/ dpc' = "notify"
    BY <1>10 DEF Parse, ReturnsOk, ReturnsFull, Push
  <2> QED
    BY <1>2, <1>8, <2>1 DEF Finished
<1>11. CASE Notify
  <2>1. Again \/ dpc' = "parse"
    BY <1>11 DEF Notify, ReturnsOk
  <2> QED
    BY <1>2, <1>8, <2>1 DEF Finished
<1>12. CASE Done
  <2>1. dpc = "done"
    BY <1>12 DEF Done
  <2>2. CASE \A r \in Stream : r <= target
    BY <2>1, <2>2 DEF Announced
  <2>3. CASE /\ target' \in Stream /\ target' > target /\ dpc' = "done"
             /\ \A r \in Stream : r <= target' => r <= target \/ r = target'
    <3>1. s <= target \/ s = target'
      BY <1>2, <2>3
    <3>2. target' # target
      BY <1>0, <2>3, Kinds
    <3> QED
      BY <1>12, <2>1, <3>1, <3>2 DEF Announced
  <2> QED
    BY <1>12, <2>2, <2>3, DoneEffect
<1>13. ASSUME NEW r \in Stream, Release(r) PROVE Announced(s)
  <2>1. UNCHANGED << mode_exec, errorCode, target >> /\ dpc' = Woken(dpc)
    BY <1>13 DEF Release, control
  <2>2. dpc' = dpc
    BY <1>2, <2>1 DEF Woken, Finished
  <2> QED
    BY <1>1, <1>2, <2>1, <2>2 DEF Announced, Finished
<1> QED
  BY <1>3, <1>4, <1>5, <1>6, <1>7, <1>9, <1>10, <1>11, <1>12, <1>13, DemuxSteps

LEMMA ExecEnds ==
  ASSUME TypeInv, [Next]_vars
  PROVE  mode_exec' => mode_exec
<1>1. CASE DmuxWait \/ DmuxSleep \/ ReadFails \/ ReadDefault \/ Parse \/ Notify \/ Done
  BY <1>1 DEF DmuxWait, DmuxSleep, ReadFails, ReadDefault, Parse, Notify, Done, control
<1>2. ASSUME NEW s \in Stream, Release(s) PROVE mode_exec' => mode_exec
  BY <1>2 DEF Release, control
<1>3. CASE DemuxSame \/ ToldToEnd
  BY <1>3 DEF DemuxSame, ToldToEnd
<1> QED
  BY <1>1, <1>2, <1>3, DemuxSteps

LEMMA StepEnd ==
  ASSUME TypeInv, ReadInv, DmuxInv, [Next]_vars, NEW s \in Stream, EndOf(s)
  PROVE  EndOf(s)'
<1>1. Finished => Finished'
  BY FinishedStays
<1>2. Announced(s)' => Announced(s) \/ (Done /\ target' = s /\ target' # target)
  BY Announces
<1>3. mode_exec' => mode_exec
  BY ExecEnds
<1>4. recv[s] \in Status /\ stat[s] \in Status
  BY StatusTypes
<1>5. /\ recv[s].bStreamEnd \/ stat[s].bStreamEnd \/ pc[s] = "endseq" \/ ended[s] => Finished
      /\ errorCode[s] = "ok" /\ mode_exec => ended[s]
      /\ Announced(s) =>
           \/ pc[s] \in {"endseq", "over", "gone"} \/ ended[s]
           \/ recv[s].bStreamEnd /\ (recv[s].bAuFound \/ (stat[s].bAuFound /\ stat[s].bStreamEnd))
  BY DEF EndOf
<1>6. ASSUME \/ recv'[s].bStreamEnd \/ stat'[s].bStreamEnd \/ pc'[s] = "endseq" \/ ended'[s] => Finished',
             errorCode'[s] = "ok" /\ mode_exec' => ended'[s],
             Announced(s)' =>
               \/ pc'[s] \in {"endseq", "over", "gone"} \/ ended'[s]
               \/ recv'[s].bStreamEnd /\ (recv'[s].bAuFound \/ (stat'[s].bAuFound /\ stat'[s].bStreamEnd))
      PROVE  EndOf(s)'
  BY <1>6 DEF EndOf
\* A step that leaves both statuses, and what was ended.
<1>7. ASSUME UNCHANGED << recv[s], stat[s], ended[s] >>,
             ~(Done /\ target' = s /\ target' # target),
             pc'[s] = "endseq" => pc[s] = "endseq",
             errorCode'[s] = "ok" => errorCode[s] = "ok" \/ ended[s],
             pc[s] \in {"endseq", "over", "gone"} => pc'[s] \in {"endseq", "over", "gone"}
      PROVE  EndOf(s)'
  <2>1. recv'[s].bStreamEnd \/ stat'[s].bStreamEnd \/ pc'[s] = "endseq" \/ ended'[s] => Finished'
    BY <1>1, <1>5, <1>7
  <2>2. errorCode'[s] = "ok" /\ mode_exec' => ended'[s]
    BY <1>3, <1>5, <1>7
  <2>3. Announced(s)' =>
          \/ pc'[s] \in {"endseq", "over", "gone"} \/ ended'[s]
          \/ recv'[s].bStreamEnd /\ (recv'[s].bAuFound \/ (stat'[s].bAuFound /\ stat'[s].bStreamEnd))
    BY <1>2, <1>5, <1>7
  <2> QED
    BY <1>6, <2>1, <2>2, <2>3
<1>8. CASE Done /\ target' = s /\ target' # target
  <2>1. /\ recv'[s].bStreamEnd /\ recv'[s].bAuFound /\ UNCHANGED << ended[s], errorCode[s] >>
    BY <1>8, DoneDoes
  <2>2. Finished'
    BY <1>8, <1>1 DEF Done, Finished
  <2> QED
    BY <1>3, <1>5, <1>6, <2>1, <2>2
<1>9. CASE Still(s)
  <2>1. /\ UNCHANGED << recv[s], stat[s], ended[s] >>
        /\ pc'[s] = "endseq" => pc[s] = "endseq"
        /\ errorCode'[s] = "ok" => errorCode[s] = "ok" \/ ended[s]
        /\ pc[s] \in {"endseq", "over", "gone"} => pc'[s] \in {"endseq", "over", "gone"}
    BY <1>9 DEF Keeps, Still, Ordered, Pushed, Turned, Roused
  <2>2. CASE Done /\ target' = s /\ target' # target
    BY <2>2, <1>8
  <2> QED
    BY <1>7, <2>1, <2>2
<1>10. CASE Ordered(s)
  <2>1. /\ UNCHANGED << recv[s], stat[s], ended[s] >>
        /\ pc'[s] = "endseq" => pc[s] = "endseq"
        /\ errorCode'[s] = "ok" => errorCode[s] = "ok" \/ ended[s]
        /\ pc[s] \in {"endseq", "over", "gone"} => pc'[s] \in {"endseq", "over", "gone"}
    BY <1>10 DEF Keeps, Still, Ordered, Pushed, Turned, Roused
  <2>2. CASE Done /\ target' = s /\ target' # target
    BY <2>2, <1>8
  <2> QED
    BY <1>7, <2>1, <2>2
<1>11. CASE Pushed(s)
  <2>1. /\ UNCHANGED << recv[s], stat[s], ended[s] >>
        /\ pc'[s] = "endseq" => pc[s] = "endseq"
        /\ errorCode'[s] = "ok" => errorCode[s] = "ok" \/ ended[s]
        /\ pc[s] \in {"endseq", "over", "gone"} => pc'[s] \in {"endseq", "over", "gone"}
    BY <1>11 DEF Keeps, Still, Ordered, Pushed, Turned, Roused
  <2>2. CASE Done /\ target' = s /\ target' # target
    BY <2>2, <1>8
  <2> QED
    BY <1>7, <2>1, <2>2
<1>12. CASE Wait(s)
  <2>0. /\ Received(s).bAuFound <=> recv[s].bAuFound \/ stat[s].bAuFound
        /\ Received(s).bStreamEnd = recv[s].bStreamEnd
    BY ReceivedStatus
  <2>1. UNCHANGED << ended[s], mode_exec >> /\ pc[s] = "wait"
    BY <1>12, WaitDoes
  <2>2. CASE Done /\ target' = s /\ target' # target
    BY <2>2, <1>8
  <2>3. CASE pc'[s] = "going" /\ recv'[s] = Received(s) /\ UNCHANGED << stat[s], errorCode[s] >>
    BY <1>1, <1>2, <1>5, <1>6, <2>0, <2>1, <2>2, <2>3
  <2>4. CASE /\ stat'[s] = Received(s) /\ ~recv'[s].bAuFound /\ recv'[s].bStreamEnd = recv[s].bStreamEnd
             /\ pc'[s] # "endseq" /\ (errorCode'[s] = "ok" => errorCode[s] = "ok" \/ ~mode_exec)
    BY <1>1, <1>2, <1>5, <1>6, <2>0, <2>1, <2>2, <2>4
  <2> QED
    BY <1>12, <2>3, <2>4, WaitDoes
<1>13. CASE Sleep(s)
  <2>1. /\ UNCHANGED << recv[s], stat[s], ended[s] >>
        /\ pc'[s] = "endseq" => pc[s] = "endseq"
        /\ errorCode'[s] = "ok" => errorCode[s] = "ok" \/ ended[s]
        /\ pc[s] \in {"endseq", "over", "gone"} => pc'[s] \in {"endseq", "over", "gone"}
    BY <1>13, SleepDoes DEF Keeps, Still, Ordered, Pushed, Turned, Roused
  <2>2. CASE Done /\ target' = s /\ target' # target
    BY <2>2, <1>8
  <2> QED
    BY <1>7, <2>1, <2>2
<1>14. CASE Release(s)
  <2>1. /\ recv'[s].bStreamEnd = recv[s].bStreamEnd /\ recv'[s].bAuFound = recv[s].bAuFound
        /\ stat'[s].bStreamEnd = stat[s].bStreamEnd /\ stat'[s].bAuFound = stat[s].bAuFound
        /\ UNCHANGED << ended[s], errorCode[s] >> /\ pc'[s] # "endseq" /\ pc[s] \notin {"endseq"}
        /\ (pc[s] \in {"over", "gone"} => pc'[s] = pc[s])
    BY <1>14, ReleaseDoes DEF Turned, Roused
  <2>2. CASE Done /\ target' = s /\ target' # target
    BY <2>2, <1>8
  <2>3. Announced(s)' => Announced(s) \/ (Done /\ target' = s /\ target' # target)
    BY <1>2
  <2> QED
    BY <1>1, <1>3, <1>5, <1>6, <2>1, <2>2, <2>3
<1>15. CASE ReleaseFails(s)
  <2>1. /\ UNCHANGED << recv[s], stat[s], ended[s] >>
        /\ pc'[s] = "endseq" => pc[s] = "endseq"
        /\ errorCode'[s] = "ok" => errorCode[s] = "ok" \/ ended[s]
        /\ pc[s] \in {"endseq", "over", "gone"} => pc'[s] \in {"endseq", "over", "gone"}
    BY <1>15, ReleaseFailsDoes DEF Keeps, Still, Ordered, Pushed, Turned, Roused
  <2>2. CASE Done /\ target' = s /\ target' # target
    BY <2>2, <1>8
  <2> QED
    BY <1>7, <2>1, <2>2
<1>16. CASE LastReleased(s)
  <2>1. /\ UNCHANGED << recv[s], stat[s], ended[s] >>
        /\ pc'[s] = "endseq" => pc[s] = "endseq"
        /\ errorCode'[s] = "ok" => errorCode[s] = "ok" \/ ended[s]
        /\ pc[s] \in {"endseq", "over", "gone"} => pc'[s] \in {"endseq", "over", "gone"}
    BY <1>16, LastReleasedDoes DEF Keeps, Still, Ordered, Pushed, Turned, Roused
  <2>2. CASE Done /\ target' = s /\ target' # target
    BY <2>2, <1>8
  <2> QED
    BY <1>7, <2>1, <2>2
<1>17. CASE GetAu(s)
  <2>1. /\ UNCHANGED << recv[s], stat[s], ended[s] >>
        /\ pc'[s] = "endseq" => pc[s] = "endseq"
        /\ errorCode'[s] = "ok" => errorCode[s] = "ok" \/ ended[s]
        /\ pc[s] \in {"endseq", "over", "gone"} => pc'[s] \in {"endseq", "over", "gone"}
    BY <1>17, GetAuDoes DEF Keeps, Still, Ordered, Pushed, Turned, Roused
  <2>2. CASE Done /\ target' = s /\ target' # target
    BY <2>2, <1>8
  <2> QED
    BY <1>7, <2>1, <2>2
<1>18. CASE NoAu(s)
  <2>1. /\ ~stat'[s].bAuFound /\ stat'[s].bStreamEnd = stat[s].bStreamEnd /\ UNCHANGED ended[s] /\ pc[s] = "work"
    BY <1>18, NoAuDoes
  <2>2. CASE /\ stat[s].bStreamEnd /\ ~recv'[s].bAuFound /\ ~recv'[s].bStreamEnd
             /\ pc'[s] = "endseq" /\ errorCode'[s] = errorCode[s]
    BY <1>1, <1>3, <1>5, <1>6, <2>1, <2>2
  <2>3. CASE ~stat[s].bStreamEnd /\ recv'[s] = recv[s] /\ Turned(s)
    <3>1. pc'[s] # "endseq" /\ (errorCode'[s] = "ok" => errorCode[s] = "ok")
      BY <2>3 DEF Turned
    <3>2. CASE Done /\ target' = s /\ target' # target
      BY <3>2, <1>8
    <3>3. Announced(s)' => Announced(s) \/ (Done /\ target' = s /\ target' # target)
      BY <1>2
    <3> QED
      BY <1>1, <1>3, <1>5, <1>6, <2>1, <2>3, <3>1, <3>2, <3>3
  <2> QED
    BY <1>18, <2>2, <2>3, NoAuDoes
<1>19. CASE EndSeq(s)
  <2>1. /\ UNCHANGED << recv[s], stat[s] >> /\ ended'[s] = TRUE /\ pc[s] = "endseq"
    BY <1>19, EndSeqDoes DEF Keeps
  <2> QED
    BY <1>1, <1>5, <1>6, <2>1
<1>20. CASE KeepsAu(s)
  <2>1. /\ UNCHANGED << recv[s], stat[s], ended[s] >>
        /\ pc'[s] = "endseq" => pc[s] = "endseq"
        /\ errorCode'[s] = "ok" => errorCode[s] = "ok" \/ ended[s]
        /\ pc[s] \in {"endseq", "over", "gone"} => pc'[s] \in {"endseq", "over", "gone"}
    BY <1>20, KeepsAuDoes DEF Keeps, Still, Ordered, Pushed, Turned, Roused
  <2>2. CASE Done /\ target' = s /\ target' # target
    BY <2>2, <1>8
  <2> QED
    BY <1>7, <2>1, <2>2
<1>21. CASE NothingNew(s)
  <2>1. /\ UNCHANGED << recv[s], stat[s], ended[s] >>
        /\ pc'[s] = "endseq" => pc[s] = "endseq"
        /\ errorCode'[s] = "ok" => errorCode[s] = "ok" \/ ended[s]
        /\ pc[s] \in {"endseq", "over", "gone"} => pc'[s] \in {"endseq", "over", "gone"}
    BY <1>21, NothingNewDoes DEF Keeps, Still, Ordered, Pushed, Turned, Roused
  <2>2. CASE Done /\ target' = s /\ target' # target
    BY <2>2, <1>8
  <2> QED
    BY <1>7, <2>1, <2>2
<1>22. CASE DecodeAu(s)
  <2>1. /\ UNCHANGED << recv[s], stat[s], ended[s] >>
        /\ pc'[s] = "endseq" => pc[s] = "endseq"
        /\ errorCode'[s] = "ok" => errorCode[s] = "ok" \/ ended[s]
        /\ pc[s] \in {"endseq", "over", "gone"} => pc'[s] \in {"endseq", "over", "gone"}
    BY <1>22, DecodeDoes DEF Keeps, Still, Ordered, Pushed, Turned, Roused
  <2>2. CASE Done /\ target' = s /\ target' # target
    BY <2>2, <1>8
  <2> QED
    BY <1>7, <2>1, <2>2
<1>23. CASE Busy(s)
  <2>1. /\ recv'[s].bStreamEnd = recv[s].bStreamEnd /\ recv'[s].bAuFound = recv[s].bAuFound
        /\ stat'[s].bStreamEnd = stat[s].bStreamEnd /\ stat'[s].bAuFound = stat[s].bAuFound
        /\ UNCHANGED ended[s] /\ (errorCode'[s] = "ok" => errorCode[s] = "ok") /\ pc'[s] # "endseq" /\ pc[s] \notin {"endseq"}
        /\ (pc[s] \in {"over", "gone"} => pc'[s] = pc[s])
    BY <1>23, BusyDoes DEF Turned, Roused
  <2>2. CASE Done /\ target' = s /\ target' # target
    BY <2>2, <1>8
  <2>3. Announced(s)' => Announced(s) \/ (Done /\ target' = s /\ target' # target)
    BY <1>2
  <2> QED
    BY <1>1, <1>3, <1>5, <1>6, <2>1, <2>2, <2>3
<1>24. CASE LibraryRefuses(s)
  <2>1. /\ UNCHANGED << recv[s], stat[s], ended[s] >>
        /\ pc'[s] = "endseq" => pc[s] = "endseq"
        /\ errorCode'[s] = "ok" => errorCode[s] = "ok" \/ ended[s]
        /\ pc[s] \in {"endseq", "over", "gone"} => pc'[s] \in {"endseq", "over", "gone"}
    BY <1>24, LibraryRefusesDoes DEF Keeps, Still, Ordered, Pushed, Turned, Roused
  <2>2. CASE Done /\ target' = s /\ target' # target
    BY <2>2, <1>8
  <2> QED
    BY <1>7, <2>1, <2>2
<1>25. CASE LibraryFails(s)
  <2>1. /\ UNCHANGED << recv[s], stat[s], ended[s] >>
        /\ pc'[s] = "endseq" => pc[s] = "endseq"
        /\ errorCode'[s] = "ok" => errorCode[s] = "ok" \/ ended[s]
        /\ pc[s] \in {"endseq", "over", "gone"} => pc'[s] \in {"endseq", "over", "gone"}
    BY <1>25, LibraryFailsDoes DEF Keeps, Still, Ordered, Pushed, Turned, Roused
  <2>2. CASE Done /\ target' = s /\ target' # target
    BY <2>2, <1>8
  <2> QED
    BY <1>7, <2>1, <2>2
<1>26. CASE AuDone(s)
  <2>1. /\ recv'[s].bStreamEnd = recv[s].bStreamEnd /\ recv'[s].bAuFound = recv[s].bAuFound
        /\ stat'[s].bStreamEnd = stat[s].bStreamEnd /\ stat'[s].bAuFound = stat[s].bAuFound
        /\ UNCHANGED << ended[s], errorCode[s] >> /\ (pc'[s] = "endseq" <=> pc[s] = "endseq")
        /\ (pc[s] \in {"over", "gone"} => pc'[s] = pc[s])
    BY <1>26, AuDoneDoes DEF Turned, Roused
  <2>2. CASE Done /\ target' = s /\ target' # target
    BY <2>2, <1>8
  <2>3. Announced(s)' => Announced(s) \/ (Done /\ target' = s /\ target' # target)
    BY <1>2
  <2> QED
    BY <1>1, <1>3, <1>5, <1>6, <2>1, <2>2, <2>3
<1>27. CASE SeqDone(s)
  <2>1. /\ UNCHANGED << recv[s], stat[s], ended[s] >>
        /\ pc'[s] = "endseq" => pc[s] = "endseq"
        /\ errorCode'[s] = "ok" => errorCode[s] = "ok" \/ ended[s]
        /\ pc[s] \in {"endseq", "over", "gone"} => pc'[s] \in {"endseq", "over", "gone"}
    BY <1>27, SeqDoneDoes DEF Keeps, Still, Ordered, Pushed, Turned, Roused
  <2>2. CASE Done /\ target' = s /\ target' # target
    BY <2>2, <1>8
  <2> QED
    BY <1>7, <2>1, <2>2
<1>28. CASE Notify /\ target = s
  <2>1. /\ recv'[s].bStreamEnd = recv[s].bStreamEnd /\ recv'[s].bAuFound
        /\ stat'[s] = stat[s] /\ UNCHANGED << ended[s], errorCode[s] >>
        /\ (pc'[s] = "endseq" <=> pc[s] = "endseq") /\ (pc[s] \in {"over", "gone"} => pc'[s] = pc[s])
    BY <1>28, NotifyDoes DEF Turned, Roused
  <2>2. CASE Done /\ target' = s /\ target' # target
    BY <2>2, <1>8
  <2>3. Announced(s)' => Announced(s) \/ (Done /\ target' = s /\ target' # target)
    BY <1>2
  <2> QED
    BY <1>1, <1>3, <1>5, <1>6, <2>1, <2>2, <2>3
<1>29. CASE PcmOut /\ s = Audio
  <2>1. /\ recv'[s].bStreamEnd = recv[s].bStreamEnd /\ recv'[s].bAuFound = recv[s].bAuFound
        /\ stat'[s].bStreamEnd = stat[s].bStreamEnd /\ stat'[s].bAuFound = stat[s].bAuFound
        /\ UNCHANGED << ended[s], errorCode[s] >> /\ (pc'[s] = "endseq" <=> pc[s] = "endseq")
        /\ (pc[s] \in {"over", "gone"} => pc'[s] = pc[s])
    BY <1>29, PcmOutDoes DEF Turned, Roused
  <2>2. CASE Done /\ target' = s /\ target' # target
    BY <2>2, <1>8
  <2>3. Announced(s)' => Announced(s) \/ (Done /\ target' = s /\ target' # target)
    BY <1>2
  <2> QED
    BY <1>1, <1>3, <1>5, <1>6, <2>1, <2>2, <2>3
<1> QED
  BY <1>8, <1>9, <1>10, <1>11, <1>12, <1>13, <1>14, <1>15, <1>16, <1>17, <1>18, <1>19, <1>20,
     <1>21, <1>22, <1>23, <1>24, <1>25, <1>26, <1>27, <1>28, <1>29, StreamStep DEF Own

-----------------------------------------------------------------------------
(***************************************************************************)
(* A decoder sleeps only when it has nothing to do: what it was told is in *)
(* the status it received, and a library that is not ready is full.        *)
(***************************************************************************)
WakeOf(s) ==
  /\ pc[s] \in {"going", "asleep"} /\ mode_exec => Sleeps(s, recv[s])
  /\ pc[s] \in {"going", "asleep"} =>
       (stat[s].bAuFound => recv[s].bAuFound) /\ (stat[s].bReady => recv[s].bReady)
  /\ auReadQueue[s] # << >> => recv[s].bAuFound \/ stat[s].bAuFound \/ (dpc = "notify" /\ target = s)
  /\ recv[s].bReady \/ stat[s].bReady \/ Held(s) >= LibSize
  /\ pc[s] = "gone" => ~mode_exec
  /\ pc[s] = "last" => errorCode[s] \in {"ok", "error"}

LEMMA NotifyFollows ==
  ASSUME TypeInv, [Next]_vars, dpc = "notify"
  PROVE  Notify \/ (dpc' = dpc /\ target' = target)
<1>1. CASE DmuxWait \/ DmuxSleep \/ ReadFails \/ ReadDefault \/ Parse \/ Done
  BY <1>1 DEF DmuxWait, DmuxSleep, ReadFails, ReadDefault, Parse, Done
<1>2. ASSUME NEW s \in Stream, Release(s) PROVE dpc' = dpc /\ target' = target
  BY <1>2 DEF Release, Woken
<1>3. CASE DemuxSame \/ ToldToEnd
  BY <1>3 DEF DemuxSame, ToldToEnd
<1> QED
  BY <1>1, <1>2, <1>3, DemuxSteps

\* Held is counted in the library and, for audio, in the decoded items.
LEMMA HeldStays ==
  ASSUME TypeInv, NEW s \in Stream, lib'[s] = lib[s], s = Audio => pcm' = pcm
  PROVE  Held(s)' = Held(s)
BY DEF Held

LEMMA StepWake ==
  ASSUME TypeInv, ReadInv, [Next]_vars, NEW s \in Stream, WakeOf(s)
  PROVE  WakeOf(s)'
<1> DEFINE Due == dpc = "notify" /\ target = s
<1>1. Due => (Notify /\ target = s) \/ Due'
  BY NotifyFollows
<1>2. mode_exec' => mode_exec
  BY ExecEnds
<1>3. recv[s] \in Status /\ stat[s] \in Status
  BY StatusTypes
<1>4. /\ pc[s] \in {"going", "asleep"} /\ mode_exec => Sleeps(s, recv[s])
      /\ pc[s] \in {"going", "asleep"} =>
           (stat[s].bAuFound => recv[s].bAuFound) /\ (stat[s].bReady => recv[s].bReady)
      /\ auReadQueue[s] # << >> => recv[s].bAuFound \/ stat[s].bAuFound \/ Due
      /\ recv[s].bReady \/ stat[s].bReady \/ Held(s) >= LibSize
      /\ pc[s] = "gone" => ~mode_exec
      /\ pc[s] = "last" => errorCode[s] \in {"ok", "error"}
  BY DEF WakeOf
<1>5. ASSUME pc'[s] \in {"going", "asleep"} /\ mode_exec' => Sleeps(s, recv[s])',
             pc'[s] \in {"going", "asleep"} =>
               (stat'[s].bAuFound => recv'[s].bAuFound) /\ (stat'[s].bReady => recv'[s].bReady),
             auReadQueue'[s] # << >> => recv'[s].bAuFound \/ stat'[s].bAuFound \/ Due',
             recv'[s].bReady \/ stat'[s].bReady \/ Held(s)' >= LibSize,
             pc'[s] = "gone" => ~mode_exec',
             pc'[s] = "last" => errorCode'[s] \in {"ok", "error"}
      PROVE  WakeOf(s)'
  BY <1>5 DEF WakeOf
<1>6. auReadQueue[s] \in Seq(Buffers(s)) /\ lib[s] \in Seq([buffer : Buffers(s), au : AuOf(s)]) /\ pcm \in Nat
  BY StreamFacts
<1> HIDE DEF Due
\* A step after which the thread is awake, and which leaves its two flags.
<1>7. ASSUME pc'[s] \notin {"going", "asleep"}, auReadQueue'[s] = auReadQueue[s],
             recv[s].bAuFound => recv'[s].bAuFound, recv[s].bReady => recv'[s].bReady,
             stat[s].bAuFound => stat'[s].bAuFound, stat[s].bReady => stat'[s].bReady,
             Held(s) >= LibSize => Held(s)' >= LibSize, ~(Notify /\ target = s),
             pc'[s] = "gone" => pc[s] = "gone" \/ ~mode_exec',
             pc'[s] = "last" => errorCode'[s] \in {"ok", "error"}
      PROVE  WakeOf(s)'
  <2>1. auReadQueue'[s] # << >> => recv'[s].bAuFound \/ stat'[s].bAuFound \/ Due'
    BY <1>1, <1>4, <1>7
  <2>2. recv'[s].bReady \/ stat'[s].bReady \/ Held(s)' >= LibSize
    BY <1>4, <1>7
  <2> QED
    BY <1>2, <1>4, <1>5, <1>7, <2>1, <2>2
<1>8. CASE Notify /\ target = s
  <2>1. /\ Roused(s) /\ UNCHANGED << auReadQueue[s], lib[s], stat[s], errorCode[s], pcm,
                                     mode_exec >>
        /\ recv'[s].bReady = recv[s].bReady /\ recv'[s].bAuFound
    BY <1>8, NotifyDoes DEF Moved
  <2>2. Held(s)' = Held(s)
    BY <2>1, HeldStays
  <2>3. pc'[s] \notin {"going", "asleep"} /\ (pc'[s] = "gone" => pc[s] = "gone") /\ (pc'[s] = "last" => pc[s] = "last")
    BY <2>1 DEF Roused
  <2> QED
    BY <1>4, <1>5, <2>1, <2>2, <2>3
<1>9. CASE Still(s)
  <2>1. UNCHANGED << auReadQueue[s], pAuInfo[s], lib[s], pc[s], recv[s], stat[s],
                     errorCode[s] >> /\ (s = Audio => pcm' = pcm)
    BY <1>9 DEF Still, Moved
  <2>2. Held(s)' = Held(s)
    BY <2>1, HeldStays
  <2>3. pc'[s] \in {"going", "asleep"} /\ mode_exec' => Sleeps(s, recv[s])'
    BY <1>2, <1>4, <2>1 DEF Sleeps
  <2>4. CASE Notify /\ target = s
    BY <2>4, <1>8
  <2>5. CASE ~(Notify /\ target = s)
    BY <1>1, <1>2, <1>4, <1>5, <2>1, <2>2, <2>3, <2>5
  <2> QED
    BY <2>4, <2>5
<1>10. CASE Ordered(s)
  <2>1. /\ UNCHANGED << auReadQueue[s], pAuInfo[s], lib[s], recv[s], stat[s], errorCode[s],
                        pcm >> /\ mode_exec' = FALSE
        /\ pc'[s] = pc[s] \/ (pc[s] = "asleep" /\ pc'[s] = "wait") \/ (pc[s] = "over" /\ pc'[s] = "gone")
    BY <1>10 DEF Ordered, Moved
  <2>2. Held(s)' = Held(s)
    BY <2>1, HeldStays
  <2>4. CASE Notify /\ target = s
    BY <2>4, <1>8
  <2>5. CASE ~(Notify /\ target = s)
    BY <1>1, <1>4, <1>5, <2>1, <2>2, <2>5
  <2> QED
    BY <2>4, <2>5
<1>11. CASE Pushed(s)
  <2>1. /\ UNCHANGED << pAuInfo[s], lib[s], pc[s], recv[s], stat[s], errorCode[s], pcm >>
        /\ dpc' = "notify" /\ target' = s
    BY <1>11 DEF Pushed
  <2>2. Held(s)' = Held(s)
    BY <2>1, HeldStays
  <2>3. pc'[s] \in {"going", "asleep"} /\ mode_exec' => Sleeps(s, recv[s])'
    BY <1>2, <1>4, <2>1 DEF Sleeps
  <2>4. Due'
    BY <2>1 DEF Due
  <2> QED
    BY <1>2, <1>4, <1>5, <2>1, <2>2, <2>3, <2>4
<1>12. CASE Wait(s)
  <2>0. /\ Received(s).bAuFound <=> recv[s].bAuFound \/ stat[s].bAuFound
        /\ Received(s).bReady <=> recv[s].bReady \/ stat[s].bReady
    BY ReceivedStatus
  <2>1. UNCHANGED << auReadQueue[s], pAuInfo[s], lib[s], pcm, mode_exec >> /\ pc[s] = "wait"
    BY <1>12, WaitDoes DEF Moved
  <2>2. Held(s)' = Held(s)
    BY <2>1, HeldStays
  <2>4. CASE Notify /\ target = s
    BY <2>4, <1>8
  <2>5. CASE ~(Notify /\ target = s)
    <3>1. CASE Sleeps(s, Received(s)) /\ pc'[s] = "going" /\ recv'[s] = Received(s) /\ UNCHANGED << stat[s], errorCode[s] >>
      <4>1. Sleeps(s, recv[s])'
        BY <2>1, <3>1 DEF Sleeps
      <4> QED
        BY <1>1, <1>4, <1>5, <2>0, <2>1, <2>2, <2>5, <3>1, <4>1
    <3>2. CASE /\ stat'[s] = Received(s) /\ pc'[s] \in {"over", "last", "work"}
               /\ pc'[s] = "last" => errorCode'[s] \in {"ok", "error"}
      BY <1>1, <1>4, <1>5, <2>0, <2>1, <2>2, <2>5, <3>2
    <3> QED
      BY <1>12, <3>1, <3>2, WaitDoes
  <2> QED
    BY <2>4, <2>5
<1>13. CASE Sleep(s)
  <2>1. /\ Keeps(s) /\ pc[s] = "going" /\ pc'[s] = "asleep" /\ UNCHANGED errorCode[s]
    BY <1>13, SleepDoes
  <2>2. Held(s)' = Held(s)
    BY <2>1, HeldStays DEF Keeps, Moved
  <2>3. mode_exec' => Sleeps(s, recv[s])'
    BY <1>2, <1>4, <2>1 DEF Sleeps, Keeps, Moved
  <2>4. CASE Notify /\ target = s
    BY <2>4, <1>8
  <2>5. CASE ~(Notify /\ target = s)
    <3>1. UNCHANGED << auReadQueue[s], recv[s], stat[s] >>
      BY <2>1 DEF Keeps, Moved
    <3> QED
      BY <1>1, <1>4, <1>5, <2>1, <2>2, <2>3, <2>5, <3>1
  <2> QED
    BY <2>4, <2>5
<1>14. CASE Release(s)
  <2>0. lib'[s] = lib[s] /\ (s = Audio => pcm' = pcm)
    BY <1>14, ReleaseDoes DEF Keeps, Moved
  <2>2. Held(s)' = Held(s)
    BY <2>0, HeldStays
  <2>1. /\ pc'[s] \notin {"going", "asleep"} /\ auReadQueue'[s] = auReadQueue[s]
        /\ recv[s].bAuFound => recv'[s].bAuFound
        /\ recv[s].bReady => recv'[s].bReady
        /\ stat[s].bAuFound => stat'[s].bAuFound
        /\ stat[s].bReady => stat'[s].bReady
        /\ pc'[s] = "gone" => pc[s] = "gone"
        /\ pc'[s] = "last" => errorCode'[s] \in {"ok", "error"}
    BY <1>4, <1>14, ReleaseDoes DEF Keeps, Moved, Turned, Roused
  <2>3. CASE Notify /\ target = s
    BY <2>3, <1>8
  <2> QED
    BY <1>7, <2>1, <2>2, <2>3
<1>15. CASE ReleaseFails(s)
  <2>0. lib'[s] = lib[s] /\ (s = Audio => pcm' = pcm)
    BY <1>15, ReleaseFailsDoes DEF Keeps, Moved
  <2>2. Held(s)' = Held(s)
    BY <2>0, HeldStays
  <2>1. /\ pc'[s] \notin {"going", "asleep"} /\ auReadQueue'[s] = auReadQueue[s]
        /\ recv[s].bAuFound => recv'[s].bAuFound
        /\ recv[s].bReady => recv'[s].bReady
        /\ stat[s].bAuFound => stat'[s].bAuFound
        /\ stat[s].bReady => stat'[s].bReady
        /\ pc'[s] = "gone" => pc[s] = "gone"
        /\ pc'[s] = "last" => errorCode'[s] \in {"ok", "error"}
    BY <1>4, <1>15, ReleaseFailsDoes DEF Keeps, Moved, Turned, Roused
  <2>3. CASE Notify /\ target = s
    BY <2>3, <1>8
  <2> QED
    BY <1>7, <2>1, <2>2, <2>3
<1>16. CASE LastReleased(s)
  <2>0. lib'[s] = lib[s] /\ (s = Audio => pcm' = pcm)
    BY <1>16, LastReleasedDoes DEF Keeps, Moved
  <2>2. Held(s)' = Held(s)
    BY <2>0, HeldStays
  <2>1. /\ pc'[s] \notin {"going", "asleep"} /\ auReadQueue'[s] = auReadQueue[s]
        /\ recv[s].bAuFound => recv'[s].bAuFound
        /\ recv[s].bReady => recv'[s].bReady
        /\ stat[s].bAuFound => stat'[s].bAuFound
        /\ stat[s].bReady => stat'[s].bReady
        /\ pc'[s] = "gone" => pc[s] = "gone"
        /\ pc'[s] = "last" => errorCode'[s] \in {"ok", "error"}
    BY <1>4, <1>16, LastReleasedDoes DEF Keeps, Moved, Turned, Roused
  <2>3. CASE Notify /\ target = s
    BY <2>3, <1>8
  <2> QED
    BY <1>7, <2>1, <2>2, <2>3
<1>17. CASE GetAu(s)
  <2>1. /\ UNCHANGED << lib[s], recv[s], stat[s],
                        pcm >> /\ stat[s].bAuFound /\ pc'[s] \in {"wait", "over", "decode"}
    BY <1>17, GetAuDoes DEF Turned
  <2>2. Held(s)' = Held(s)
    BY <2>1, HeldStays
  <2> QED
    BY <1>4, <1>5, <2>1, <2>2
<1>18. CASE NoAu(s)
  <2>1. /\ UNCHANGED << lib[s], auReadQueue[s], pcm >> /\ auReadQueue[s] = << >>
        /\ stat'[s].bReady = stat[s].bReady /\ recv'[s].bReady = recv[s].bReady
        /\ pc'[s] \in {"wait", "over", "endseq"}
    BY <1>18, NoAuDoes DEF Turned, Moved
  <2>2. Held(s)' = Held(s)
    BY <2>1, HeldStays
  <2> QED
    BY <1>4, <1>5, <2>1, <2>2
<1>19. CASE EndSeq(s)
  <2>0. lib'[s] = lib[s] /\ (s = Audio => pcm' = pcm)
    BY <1>19, EndSeqDoes DEF Keeps, Moved
  <2>2. Held(s)' = Held(s)
    BY <2>0, HeldStays
  <2>1. /\ pc'[s] \notin {"going", "asleep"} /\ auReadQueue'[s] = auReadQueue[s]
        /\ recv[s].bAuFound => recv'[s].bAuFound
        /\ recv[s].bReady => recv'[s].bReady
        /\ stat[s].bAuFound => stat'[s].bAuFound
        /\ stat[s].bReady => stat'[s].bReady
        /\ pc'[s] = "gone" => pc[s] = "gone"
        /\ pc'[s] = "last" => errorCode'[s] \in {"ok", "error"}
    BY <1>4, <1>19, EndSeqDoes DEF Keeps, Moved, Turned, Roused
  <2>3. CASE Notify /\ target = s
    BY <2>3, <1>8
  <2> QED
    BY <1>7, <2>1, <2>2, <2>3
<1>20. CASE KeepsAu(s)
  <2>0. lib'[s] = lib[s] /\ (s = Audio => pcm' = pcm)
    BY <1>20, KeepsAuDoes DEF Keeps, Moved
  <2>2. Held(s)' = Held(s)
    BY <2>0, HeldStays
  <2>1. /\ pc'[s] \notin {"going", "asleep"} /\ auReadQueue'[s] = auReadQueue[s]
        /\ recv[s].bAuFound => recv'[s].bAuFound
        /\ recv[s].bReady => recv'[s].bReady
        /\ stat[s].bAuFound => stat'[s].bAuFound
        /\ stat[s].bReady => stat'[s].bReady
        /\ pc'[s] = "gone" => pc[s] = "gone"
        /\ pc'[s] = "last" => errorCode'[s] \in {"ok", "error"}
    BY <1>4, <1>20, KeepsAuDoes DEF Keeps, Moved, Turned, Roused
  <2>3. CASE Notify /\ target = s
    BY <2>3, <1>8
  <2> QED
    BY <1>7, <2>1, <2>2, <2>3
<1>21. CASE NothingNew(s)
  <2>0. lib'[s] = lib[s] /\ (s = Audio => pcm' = pcm)
    BY <1>21, NothingNewDoes DEF Keeps, Moved
  <2>2. Held(s)' = Held(s)
    BY <2>0, HeldStays
  <2>1. /\ pc'[s] \notin {"going", "asleep"} /\ auReadQueue'[s] = auReadQueue[s]
        /\ recv[s].bAuFound => recv'[s].bAuFound
        /\ recv[s].bReady => recv'[s].bReady
        /\ stat[s].bAuFound => stat'[s].bAuFound
        /\ stat[s].bReady => stat'[s].bReady
        /\ pc'[s] = "gone" => pc[s] = "gone"
        /\ pc'[s] = "last" => errorCode'[s] \in {"ok", "error"}
    BY <1>4, <1>21, NothingNewDoes DEF Keeps, Moved, Turned, Roused
  <2>3. CASE Notify /\ target = s
    BY <2>3, <1>8
  <2> QED
    BY <1>7, <2>1, <2>2, <2>3
<1>22. CASE DecodeAu(s)
  <2>2. ~(Held(s) >= LibSize)
    <3>1. Held(s) < LibSize
      BY <1>22 DEF DecodeAu
    <3>2. Held(s) \in Int /\ LibSize \in Int
      BY <1>6, Kinds, Lengths DEF Held
    <3> QED
      BY <3>1, <3>2
  <2>1. /\ pc'[s] \notin {"going", "asleep"} /\ auReadQueue'[s] = auReadQueue[s]
        /\ recv[s].bAuFound => recv'[s].bAuFound
        /\ recv[s].bReady => recv'[s].bReady
        /\ stat[s].bAuFound => stat'[s].bAuFound
        /\ stat[s].bReady => stat'[s].bReady
        /\ pc'[s] = "gone" => pc[s] = "gone"
        /\ pc'[s] = "last" => errorCode'[s] \in {"ok", "error"}
    BY <1>4, <1>22, DecodeDoes DEF Keeps, Moved, Turned, Roused
  <2>3. CASE Notify /\ target = s
    BY <2>3, <1>8
  <2> QED
    BY <1>7, <2>1, <2>2, <2>3
<1>23. CASE Busy(s)
  <2>1. /\ UNCHANGED << lib[s], auReadQueue[s], recv[s],
                        pcm >> /\ stat'[s].bAuFound = stat[s].bAuFound
        /\ Held(s) >= LibSize /\ pc'[s] \in {"wait", "over"}
    BY <1>23, BusyDoes DEF Turned, Moved
  <2>2. Held(s)' = Held(s)
    BY <2>1, HeldStays
  <2>4. CASE Notify /\ target = s
    BY <2>4, <1>8
  <2>5. CASE ~(Notify /\ target = s)
    BY <1>1, <1>4, <1>5, <2>1, <2>2, <2>5
  <2> QED
    BY <2>4, <2>5
<1>24. CASE LibraryRefuses(s)
  <2>0. lib'[s] = lib[s] /\ (s = Audio => pcm' = pcm)
    BY <1>24, LibraryRefusesDoes DEF Keeps, Moved
  <2>2. Held(s)' = Held(s)
    BY <2>0, HeldStays
  <2>1. /\ pc'[s] \notin {"going", "asleep"} /\ auReadQueue'[s] = auReadQueue[s]
        /\ recv[s].bAuFound => recv'[s].bAuFound
        /\ recv[s].bReady => recv'[s].bReady
        /\ stat[s].bAuFound => stat'[s].bAuFound
        /\ stat[s].bReady => stat'[s].bReady
        /\ pc'[s] = "gone" => pc[s] = "gone"
        /\ pc'[s] = "last" => errorCode'[s] \in {"ok", "error"}
    BY <1>4, <1>24, LibraryRefusesDoes DEF Keeps, Moved, Turned, Roused
  <2>3. CASE Notify /\ target = s
    BY <2>3, <1>8
  <2> QED
    BY <1>7, <2>1, <2>2, <2>3
<1>25. CASE LibraryFails(s)
  <2>0. lib'[s] = lib[s] /\ (s = Audio => pcm' = pcm)
    BY <1>25, LibraryFailsDoes DEF Keeps, Moved
  <2>2. Held(s)' = Held(s)
    BY <2>0, HeldStays
  <2>1. /\ pc'[s] \notin {"going", "asleep"} /\ auReadQueue'[s] = auReadQueue[s]
        /\ recv[s].bAuFound => recv'[s].bAuFound
        /\ recv[s].bReady => recv'[s].bReady
        /\ stat[s].bAuFound => stat'[s].bAuFound
        /\ stat[s].bReady => stat'[s].bReady
        /\ pc'[s] = "gone" => pc[s] = "gone"
        /\ pc'[s] = "last" => errorCode'[s] \in {"ok", "error"}
    BY <1>4, <1>25, LibraryFailsDoes DEF Keeps, Moved, Turned, Roused
  <2>3. CASE Notify /\ target = s
    BY <2>3, <1>8
  <2> QED
    BY <1>7, <2>1, <2>2, <2>3
<1>26. CASE AuDone(s)
  <2>0. /\ Roused(s) /\ UNCHANGED << stat[s], errorCode[s], auReadQueue[s], mode_exec >>
        /\ recv'[s].bReady <=> recv[s].bReady \/ s # Audio
        /\ recv'[s].bAuFound = recv[s].bAuFound
        /\ lib[s] # << >> /\ lib'[s] = Tail(lib[s]) /\ pcm' = IF s = Audio THEN pcm + 1 ELSE pcm
    BY <1>26, AuDoneDoes
  <2>1. pc'[s] \notin {"going", "asleep"} /\ (pc'[s] = "gone" => pc[s] = "gone") /\ (pc'[s] = "last" => pc[s] = "last")
    BY <2>0 DEF Roused
  <2>2. s = Audio => Held(s)' = Held(s)
    <3> SUFFICES ASSUME s = Audio PROVE Held(s)' = Held(s)
      OBVIOUS
    <3>1. Held(s) = Len(lib[s]) + pcm /\ Held(s)' = Len(lib'[s]) + pcm'
      BY DEF Held
    <3>2. pcm' = pcm + 1
      BY <2>0
    <3>3. Len(lib'[s]) = Len(lib[s]) - 1 /\ Len(lib[s]) \in Nat
      BY <1>6, <2>0, Lengths
    <3>4. \A m, n \in Nat : (m - 1) + (n + 1) = m + n
      OBVIOUS
    <3>5. (Len(lib[s]) - 1) + (pcm + 1) = Len(lib[s]) + pcm
      BY <1>6, <3>3, <3>4
    <3> QED
      BY <3>1, <3>2, <3>3, <3>5
  <2>3. recv'[s].bReady \/ stat'[s].bReady \/ Held(s)' >= LibSize
    BY <1>4, <2>0, <2>2
  <2>4. CASE Notify /\ target = s
    BY <2>4, <1>8
  <2>5. CASE ~(Notify /\ target = s)
    BY <1>1, <1>2, <1>4, <1>5, <2>0, <2>1, <2>3, <2>5
  <2> QED
    BY <2>4, <2>5
<1>27. CASE SeqDone(s)
  <2>0. lib'[s] = lib[s] /\ (s = Audio => pcm' = pcm)
    BY <1>27, SeqDoneDoes DEF Keeps, Moved
  <2>2. Held(s)' = Held(s)
    BY <2>0, HeldStays
  <2>1. /\ pc'[s] \notin {"going", "asleep"} /\ auReadQueue'[s] = auReadQueue[s]
        /\ recv[s].bAuFound => recv'[s].bAuFound
        /\ recv[s].bReady => recv'[s].bReady
        /\ stat[s].bAuFound => stat'[s].bAuFound
        /\ stat[s].bReady => stat'[s].bReady
        /\ pc'[s] = "gone" => pc[s] = "gone"
        /\ pc'[s] = "last" => errorCode'[s] \in {"ok", "error"}
    BY <1>4, <1>27, SeqDoneDoes DEF Keeps, Moved, Turned, Roused
  <2>3. CASE Notify /\ target = s
    BY <2>3, <1>8
  <2> QED
    BY <1>7, <2>1, <2>2, <2>3
<1>28. CASE Done /\ target' = s /\ target' # target
  <2>0. lib'[s] = lib[s] /\ (s = Audio => pcm' = pcm)
    BY <1>28, DoneDoes DEF Keeps, Moved
  <2>2. Held(s)' = Held(s)
    BY <2>0, HeldStays
  <2>1. /\ pc'[s] \notin {"going", "asleep"} /\ auReadQueue'[s] = auReadQueue[s]
        /\ recv[s].bAuFound => recv'[s].bAuFound
        /\ recv[s].bReady => recv'[s].bReady
        /\ stat[s].bAuFound => stat'[s].bAuFound
        /\ stat[s].bReady => stat'[s].bReady
        /\ pc'[s] = "gone" => pc[s] = "gone"
        /\ pc'[s] = "last" => errorCode'[s] \in {"ok", "error"}
    BY <1>4, <1>28, DoneDoes DEF Keeps, Moved, Turned, Roused
  <2>3. CASE Notify /\ target = s
    BY <2>3, <1>8
  <2> QED
    BY <1>7, <2>1, <2>2, <2>3
<1>29. CASE PcmOut /\ s = Audio
  <2>0. /\ Roused(s) /\ UNCHANGED << stat[s], errorCode[s], auReadQueue[s], mode_exec >>
        /\ recv'[s].bReady /\ recv'[s].bAuFound = recv[s].bAuFound
    BY <1>29, PcmOutDoes DEF Moved
  <2>1. pc'[s] \notin {"going", "asleep"} /\ (pc'[s] = "gone" => pc[s] = "gone") /\ (pc'[s] = "last" => pc[s] = "last")
    BY <2>0 DEF Roused
  <2>4. CASE Notify /\ target = s
    BY <2>4, <1>8
  <2>5. CASE ~(Notify /\ target = s)
    BY <1>1, <1>4, <1>5, <2>0, <2>1, <2>5
  <2> QED
    BY <2>4, <2>5
<1> QED
  BY <1>8, <1>9, <1>10, <1>11, <1>12, <1>13, <1>14, <1>15, <1>16, <1>17, <1>18, <1>19, <1>20,
     <1>21, <1>22, <1>23, <1>24, <1>25, <1>26, <1>27, <1>28, <1>29, StreamStep DEF Own

-----------------------------------------------------------------------------
(***************************************************************************)
(* Together: the threads never all wait for each other.                    *)
(***************************************************************************)
Waits == DmuxInv /\ \A s \in Stream : QueueOf(s) /\ EndOf(s) /\ WakeOf(s)

LEMMA StepTypes == TypeInv /\ ReadInv /\ [Next]_vars => TypeInv' /\ ReadInv'
BY StepControlTypes, StepStreamTypes, StepReadInv DEF TypeInv

LEMMA InitWaits == Init => Waits
<1> SUFFICES ASSUME Init PROVE Waits
  OBVIOUS
<1> USE Kinds DEF Init
<1>0. TypeInv
  BY InitTypes
<1>1. DmuxInv
  BY DEF DmuxInv
<1>2. ASSUME NEW s \in Stream PROVE QueueOf(s)
  <2>1. auWriteQueue[s] = [b \in Buffers(s) |-> b] /\ AuNum[s] \in Nat
    OBVIOUS
  <2>2. Len(auWriteQueue[s]) = AuNum[s]
    BY <2>1 DEF Buffers
  <2>3. Len(auReadQueue[s]) = 0 /\ Len(auReleaseQueue[s]) = 0 /\ Len(lib[s]) = 0
    OBVIOUS
  <2>4. recv[s].auDoneNum = 0 /\ stat[s].auDoneNum = 0 /\ Hand(s) = 0
    BY DEF Hand
  <2> QED
    BY <2>1, <2>2, <2>3, <2>4 DEF QueueOf, Waiting
<1>3. ASSUME NEW s \in Stream PROVE EndOf(s)
  BY DEF EndOf, Announced, None
<1>4. ASSUME NEW s \in Stream PROVE WakeOf(s)
  BY DEF WakeOf
<1> QED
  BY <1>1, <1>2, <1>3, <1>4 DEF Waits

LEMMA StepWaits == TypeInv /\ ReadInv /\ Waits /\ [Next]_vars => Waits'
<1> SUFFICES ASSUME TypeInv, ReadInv, Waits, [Next]_vars PROVE Waits'
  OBVIOUS
<1>1. DmuxInv /\ DmuxInv'
  BY StepDmux DEF Waits
<1>2. ASSUME NEW s \in Stream PROVE QueueOf(s)' /\ EndOf(s)' /\ WakeOf(s)'
  BY <1>1, StepQueue, StepEnd, StepWake DEF Waits
<1> QED
  BY <1>1, <1>2 DEF Waits

\* A decoder that sleeps while the library holds nothing has no AU to decode and nothing to release.
LEMMA SleepersHaveNothing ==
  ASSUME TypeInv, Waits, NEW s \in Stream, pc[s] = "asleep", mode_exec, lib[s] = << >>, pcm = 0
  PROVE  /\ errorCode[s] = "invalid" /\ ~recv[s].bAuFound /\ ~stat[s].bAuFound
         /\ auReleaseQueue[s] = << >> /\ (auReadQueue[s] = << >> \/ (dpc = "notify" /\ target = s))
<1>1. QueueOf(s) /\ WakeOf(s)
  BY DEF Waits
<1>2. Sleeps(s, recv[s]) /\ (stat[s].bAuFound => recv[s].bAuFound) /\ (stat[s].bReady => recv[s].bReady)
  BY <1>1 DEF WakeOf
<1>3. Len(lib[s]) = 0
  OBVIOUS
<1>4. Held(s) = 0
  BY <1>3 DEF Held
<1>5. ~(Held(s) >= LibSize)
  BY <1>4, Kinds
<1>6. recv[s].bReady
  BY <1>1, <1>2, <1>5 DEF WakeOf
<1>7. errorCode[s] = "invalid" /\ recv[s].auDoneNum = 0 /\ ~recv[s].bAuFound /\ pAuInfo[s] = None
  BY <1>2, <1>6 DEF Sleeps
<1>8. auReleaseQueue[s] = << >>
  <2>1. Waiting(s) = 0
    BY <1>1, <1>3, <1>7 DEF QueueOf, Waiting, Hand
  <2>2. Len(auReleaseQueue[s]) = 0
    BY <1>1, <2>1 DEF QueueOf
  <2> QED
    BY <2>2, StreamFacts, Lengths
<1> QED
  BY <1>1, <1>2, <1>7, <1>8 DEF WakeOf

LEMMA WaitsSuffice == TypeInv /\ Waits => NoStall
<1> SUFFICES ASSUME TypeInv, Waits, Quiet, mode_exec
             PROVE  dpc # "asleep" /\ \A s \in Stream : pc[s] # "asleep"
  BY DEF NoStall
<1>1. /\ Rests(None, dpc) /\ is_bg_video /\ pcm = 0
      /\ \A s \in Stream : Rests(s, pc[s]) /\ lib[s] = << >> /\ (ended[s] => errorCode[s] # "invalid")
  BY DEF Quiet, TypeInv, ControlTypes
<1>2. DmuxInv /\ \A s \in Stream : QueueOf(s) /\ EndOf(s) /\ WakeOf(s)
  BY DEF Waits
<1>3. dpc # "asleep"
  <2> SUFFICES ASSUME dpc = "asleep" PROVE FALSE
    OBVIOUS
  <2>1. target \in Stream /\ auWriteQueue[target] = << >>
    BY <1>2 DEF DmuxInv
  <2>2. PICK s \in Stream : s = target
    BY <2>1
  <2>3. CASE pc[s] = "asleep"
    <3>1. auReleaseQueue[s] = << >> /\ auReadQueue[s] = << >>
      BY <1>1, <2>3, SleepersHaveNothing
    <3>2. Len(auReleaseQueue[s]) = 0 /\ Len(auReadQueue[s]) = 0 /\ Len(auWriteQueue[s]) = 0
      BY <2>1, <2>2, <3>1
    <3>3. Len(auWriteQueue[s]) + Len(auReadQueue[s]) + Len(auReleaseQueue[s]) = AuNum[s]
      BY <1>2 DEF QueueOf
    <3> QED
      BY <3>2, <3>3, Kinds
  <2>4. CASE pc[s] = "over" /\ errorCode[s] = "ok"
    <3>1. ended[s]
      BY <1>2, <2>4 DEF EndOf
    <3> QED
      BY <1>2, <3>1 DEF EndOf, Finished
  <2>5. pc[s] # "gone"
    BY <1>2 DEF WakeOf
  <2> QED
    BY <1>1, <2>3, <2>4, <2>5 DEF Rests
<1>4. ASSUME NEW s \in Stream, pc[s] = "asleep" PROVE FALSE
  <2>1. dpc = "over" /\ errorCode[None] = "ok"
    BY <1>1, <1>2, <1>3 DEF Rests, DmuxInv
  <2>2. Announced(s)
    BY <1>1, <2>1 DEF Announced
  <2>3. ended[s] \/ recv[s].bAuFound \/ stat[s].bAuFound
    BY <1>2, <1>4, <2>2 DEF EndOf
  <2>4. errorCode[s] = "invalid" /\ ~recv[s].bAuFound /\ ~stat[s].bAuFound
    BY <1>1, <1>4, SleepersHaveNothing
  <2> QED
    BY <1>1, <2>3, <2>4
<1> QED
  BY <1>3, <1>4

\* The demultiplexer, the decoders and the library of the video player keep the types of their
\* state: a library never holds more than it has room for, and what is cut lies in the stream.
THEOREM DemuxTypes == Spec => []TypeOK
<1>1. Init => TypeInv /\ ReadInv
  BY InitTypes
<1>2. TypeInv /\ ReadInv /\ [Next]_vars => TypeInv' /\ ReadInv'
  BY StepTypes
<1>3. TypeInv => TypeOK
  BY TypesSuffice
<1> QED
  BY <1>1, <1>2, <1>3, PTL DEF Spec

\* The threads of the video player never all wait for each other: when none of them can go on
\* they have ended, or one fell asleep after it was told to end.  For every film, every number
\* of streams and of buffers.
THEOREM NeverStalls == Spec => []NoStall
<1>1. Init => TypeInv /\ ReadInv /\ Waits
  BY InitTypes, InitWaits
<1>2. TypeInv /\ ReadInv /\ Waits /\ [Next]_vars => (TypeInv /\ ReadInv /\ Waits)'
  BY StepTypes, StepWaits
<1>3. TypeInv /\ Waits => NoStall
  BY WaitsSuffice
<1> QED
  BY <1>1, <1>2, <1>3, PTL DEF Spec


-----------------------------------------------------------------------------
(***************************************************************************)
(* What the library holds is not overwritten: a buffer is in one queue     *)
(* only, and the AUs of the library lie in the buffers that wait to be     *)
(* released, in their order.                                               *)
(***************************************************************************)
Once(q) == \A i, j \in DOMAIN q : q[i] = q[j] => i = j
Apart(p, q) == \A i \in DOMAIN p, j \in DOMAIN q : p[i] # q[j]

DistinctOf(s) ==
  /\ Once(auWriteQueue[s]) /\ Once(auReadQueue[s]) /\ Once(auReleaseQueue[s])
  /\ Apart(auWriteQueue[s], auReadQueue[s]) /\ Apart(auReadQueue[s], auReleaseQueue[s])
  /\ Apart(auReleaseQueue[s], auWriteQueue[s])

LEMMA TailAt ==
  \A S : \A q \in Seq(S) : q # << >> =>
    DOMAIN Tail(q) = 1 .. Len(q) - 1 /\ \A i \in 1 .. Len(q) - 1 : Tail(q)[i] = q[i + 1]
OBVIOUS

LEMMA AppendAt ==
  \A S : \A q \in Seq(S), e \in S :
    /\ DOMAIN Append(q, e) = 1 .. Len(q) + 1 /\ Append(q, e)[Len(q) + 1] = e
    /\ \A i \in 1 .. Len(q) : Append(q, e)[i] = q[i]
OBVIOUS

LEMMA ApartTurns == \A p, q : Apart(p, q) => Apart(q, p)
BY DEF Apart

\* The first of p is moved behind q.
LEMMA MoveOnce ==
  ASSUME NEW S, NEW p \in Seq(S), NEW q \in Seq(S), NEW r \in Seq(S), p # << >>,
         Once(p), Once(q), Apart(p, q), Apart(q, r), Apart(r, p)
  PROVE  /\ Once(Tail(p)) /\ Once(Append(q, Head(p)))
         /\ Apart(Tail(p), Append(q, Head(p))) /\ Apart(Append(q, Head(p)), r) /\ Apart(r, Tail(p))
<1> DEFINE h == Head(p)
           t == Tail(p)
           a == Append(q, h)
<1>1. Len(p) \in Nat /\ Len(p) > 0 /\ Len(q) \in Nat /\ h = p[1] /\ h \in S
  OBVIOUS
<1>2. DOMAIN t = 1 .. Len(p) - 1 /\ \A i \in 1 .. Len(p) - 1 : t[i] = p[i + 1]
  BY TailAt
<1>3. DOMAIN a = 1 .. Len(q) + 1 /\ a[Len(q) + 1] = h /\ \A i \in 1 .. Len(q) : a[i] = q[i]
  BY <1>1, AppendAt
<1>4. DOMAIN p = 1 .. Len(p) /\ DOMAIN q = 1 .. Len(q)
  OBVIOUS
<1> HIDE DEF h, t, a
<1>5. \A i \in DOMAIN t : i + 1 \in DOMAIN p /\ i + 1 # 1 /\ t[i] = p[i + 1] /\ i \in Nat
  BY <1>1, <1>2, <1>4
<1>6. 1 \in DOMAIN p
  BY <1>1, <1>4
<1>7. \A i \in DOMAIN a : (i \in DOMAIN q /\ a[i] = q[i]) \/ (i = Len(q) + 1 /\ i \notin DOMAIN q /\ a[i] = p[1])
  BY <1>1, <1>3, <1>4
<1>8. Once(t)
  <2> SUFFICES ASSUME NEW i \in DOMAIN t, NEW j \in DOMAIN t, t[i] = t[j] PROVE i = j
    BY DEF Once
  <2>1. i + 1 = j + 1
    BY <1>5 DEF Once
  <2> QED
    BY <1>5, <2>1
<1>9. Once(a)
  BY <1>6, <1>7 DEF Once, Apart
<1>10. Apart(t, a)
  <2> SUFFICES ASSUME NEW i \in DOMAIN t, NEW j \in DOMAIN a PROVE t[i] # a[j]
    BY DEF Apart
  <2>1. CASE j \in DOMAIN q /\ a[j] = q[j]
    BY <1>5, <2>1 DEF Apart
  <2>2. CASE a[j] = p[1]
    BY <1>5, <1>6, <2>2 DEF Once
  <2> QED
    BY <1>7, <2>1, <2>2
<1>11. Apart(a, r)
  BY <1>6, <1>7 DEF Apart
<1>12. Apart(r, t)
  BY <1>5 DEF Apart
<1> QED
  BY <1>8, <1>9, <1>10, <1>11, <1>12 DEF h, t, a

\* The buffers of a stream are moved by three steps only.
LEMMA QueueMoves ==
  ASSUME TypeInv, ReadInv, [Next]_vars, NEW s \in Stream
  PROVE  \/ Pushed(s) \/ GetAu(s) \/ Release(s)
         \/ UNCHANGED << auWriteQueue[s], auReadQueue[s], auReleaseQueue[s], auAddr[s] >>
<1>1. CASE Still(s)
  BY <1>1 DEF Moved, Turned, Roused, Keeps, Moved, Still, Ordered, Pushed
<1>2. CASE Ordered(s)
  BY <1>2 DEF Moved, Turned, Roused, Keeps, Moved, Still, Ordered, Pushed
<1>3. CASE Pushed(s)
  BY <1>3
<1>4. CASE Wait(s)
  BY <1>4, WaitDoes DEF Moved, Turned, Roused, Keeps, Moved, Still, Ordered, Pushed
<1>5. CASE Sleep(s)
  BY <1>5, SleepDoes DEF Moved, Turned, Roused, Keeps, Moved, Still, Ordered, Pushed
<1>6. CASE Release(s)
  BY <1>6
<1>7. CASE ReleaseFails(s)
  BY <1>7, ReleaseFailsDoes DEF Moved, Turned, Roused, Keeps, Moved, Still, Ordered, Pushed
<1>8. CASE LastReleased(s)
  BY <1>8, LastReleasedDoes DEF Moved, Turned, Roused, Keeps, Moved, Still, Ordered, Pushed
<1>9. CASE GetAu(s)
  BY <1>9
<1>10. CASE NoAu(s)
  BY <1>10, NoAuDoes DEF Moved, Turned, Roused, Keeps, Moved, Still, Ordered, Pushed
<1>11. CASE EndSeq(s)
  BY <1>11, EndSeqDoes DEF Moved, Turned, Roused, Keeps, Moved, Still, Ordered, Pushed
<1>12. CASE KeepsAu(s)
  BY <1>12, KeepsAuDoes DEF Moved, Turned, Roused, Keeps, Moved, Still, Ordered, Pushed
<1>13. CASE NothingNew(s)
  BY <1>13, NothingNewDoes DEF Moved, Turned, Roused, Keeps, Moved, Still, Ordered, Pushed
<1>14. CASE DecodeAu(s)
  BY <1>14, DecodeDoes DEF Moved, Turned, Roused, Keeps, Moved, Still, Ordered, Pushed
<1>15. CASE Busy(s)
  BY <1>15, BusyDoes DEF Moved, Turned, Roused, Keeps, Moved, Still, Ordered, Pushed
<1>16. CASE LibraryRefuses(s)
  BY <1>16, LibraryRefusesDoes DEF Moved, Turned, Roused, Keeps, Moved, Still, Ordered, Pushed
<1>17. CASE LibraryFails(s)
  BY <1>17, LibraryFailsDoes DEF Moved, Turned, Roused, Keeps, Moved, Still, Ordered, Pushed
<1>18. CASE AuDone(s)
  BY <1>18, AuDoneDoes DEF Moved, Turned, Roused, Keeps, Moved, Still, Ordered, Pushed
<1>19. CASE SeqDone(s)
  BY <1>19, SeqDoneDoes DEF Moved, Turned, Roused, Keeps, Moved, Still, Ordered, Pushed
<1>20. CASE Notify /\ target = s
  BY <1>20, NotifyDoes DEF Moved, Turned, Roused, Keeps, Moved, Still, Ordered, Pushed
<1>21. CASE Done /\ target' = s /\ target' # target
  BY <1>21, DoneDoes DEF Moved, Turned, Roused, Keeps, Moved, Still, Ordered, Pushed
<1>22. CASE PcmOut /\ s = Audio
  BY <1>22, PcmOutDoes DEF Moved, Turned, Roused, Keeps, Moved, Still, Ordered, Pushed
<1> QED
  BY <1>1, <1>2, <1>3, <1>4, <1>5, <1>6, <1>7, <1>8, <1>9, <1>10, <1>11, <1>12, <1>13, <1>14,
     <1>15, <1>16, <1>17, <1>18, <1>19, <1>20, <1>21, <1>22, StreamStep DEF Own

LEMMA StepDistinct ==
  ASSUME TypeInv, ReadInv, [Next]_vars, NEW s \in Stream, DistinctOf(s)
  PROVE  DistinctOf(s)'
<1>1. /\ auWriteQueue[s] \in Seq(Buffers(s)) /\ auReadQueue[s] \in Seq(Buffers(s))
      /\ auReleaseQueue[s] \in Seq(Buffers(s))
  BY StreamFacts
<1>2. CASE Pushed(s)
  <2>1. /\ auWriteQueue[s] # << >> /\ auWriteQueue'[s] = Tail(auWriteQueue[s])
        /\ auReadQueue'[s] = Append(auReadQueue[s], Head(auWriteQueue[s]))
        /\ auReleaseQueue'[s] = auReleaseQueue[s]
    BY <1>2 DEF Pushed
  <2>2. /\ Once(auWriteQueue[s]) /\ Once(auReadQueue[s]) /\ Once(auReleaseQueue[s])
        /\ Apart(auWriteQueue[s], auReadQueue[s]) /\ Apart(auReadQueue[s], auReleaseQueue[s])
        /\ Apart(auReleaseQueue[s], auWriteQueue[s])
    BY DEF DistinctOf
  <2>3. /\ Once(Tail(auWriteQueue[s])) /\ Once(Append(auReadQueue[s], Head(auWriteQueue[s])))
        /\ Apart(Tail(auWriteQueue[s]), Append(auReadQueue[s], Head(auWriteQueue[s])))
        /\ Apart(Append(auReadQueue[s], Head(auWriteQueue[s])), auReleaseQueue[s])
        /\ Apart(auReleaseQueue[s], Tail(auWriteQueue[s]))
    BY <1>1, <2>1, <2>2, MoveOnce
  <2> QED
    BY <2>1, <2>2, <2>3 DEF DistinctOf
<1>3. CASE GetAu(s)
  <2>1. /\ auReadQueue[s] # << >> /\ auReadQueue'[s] = Tail(auReadQueue[s])
        /\ auReleaseQueue'[s] = Append(auReleaseQueue[s], Head(auReadQueue[s]))
        /\ auWriteQueue'[s] = auWriteQueue[s]
    BY <1>3, GetAuDoes
  <2>2. /\ Once(auWriteQueue[s]) /\ Once(auReadQueue[s]) /\ Once(auReleaseQueue[s])
        /\ Apart(auWriteQueue[s], auReadQueue[s]) /\ Apart(auReadQueue[s], auReleaseQueue[s])
        /\ Apart(auReleaseQueue[s], auWriteQueue[s])
    BY DEF DistinctOf
  <2>3. /\ Once(Tail(auReadQueue[s])) /\ Once(Append(auReleaseQueue[s], Head(auReadQueue[s])))
        /\ Apart(Tail(auReadQueue[s]), Append(auReleaseQueue[s], Head(auReadQueue[s])))
        /\ Apart(Append(auReleaseQueue[s], Head(auReadQueue[s])), auWriteQueue[s])
        /\ Apart(auWriteQueue[s], Tail(auReadQueue[s]))
    BY <1>1, <2>1, <2>2, MoveOnce
  <2> QED
    BY <2>1, <2>2, <2>3 DEF DistinctOf
<1>4. CASE Release(s)
  <2>1. /\ auReleaseQueue[s] # << >> /\ auReleaseQueue'[s] = Tail(auReleaseQueue[s])
        /\ auWriteQueue'[s] = Append(auWriteQueue[s], Head(auReleaseQueue[s]))
        /\ auReadQueue'[s] = auReadQueue[s]
    BY <1>4, ReleaseDoes
  <2>2. /\ Once(auWriteQueue[s]) /\ Once(auReadQueue[s]) /\ Once(auReleaseQueue[s])
        /\ Apart(auWriteQueue[s], auReadQueue[s]) /\ Apart(auReadQueue[s], auReleaseQueue[s])
        /\ Apart(auReleaseQueue[s], auWriteQueue[s])
    BY DEF DistinctOf
  <2>3. /\ Once(Tail(auReleaseQueue[s])) /\ Once(Append(auWriteQueue[s], Head(auReleaseQueue[s])))
        /\ Apart(Tail(auReleaseQueue[s]), Append(auWriteQueue[s], Head(auReleaseQueue[s])))
        /\ Apart(Append(auWriteQueue[s], Head(auReleaseQueue[s])), auReadQueue[s])
        /\ Apart(auReadQueue[s], Tail(auReleaseQueue[s]))
    BY <1>1, <2>1, <2>2, MoveOnce
  <2> QED
    BY <2>1, <2>2, <2>3 DEF DistinctOf
<1>5. CASE UNCHANGED << auWriteQueue[s], auReadQueue[s], auReleaseQueue[s] >>
  BY <1>5 DEF DistinctOf
<1> QED
  BY <1>2, <1>3, <1>4, <1>5, QueueMoves

Released(s) == recv[s].auDoneNum + stat[s].auDoneNum

LibOf(s) ==
  /\ \A i \in DOMAIN lib[s] : lib[s][i].buffer = auReleaseQueue[s][Released(s) + i]
  /\ pAuInfo[s] # None => pAuInfo[s] = auReleaseQueue[s][Released(s) + Len(lib[s]) + 1]
  /\ \A i \in DOMAIN lib[s] : auAddr[s][lib[s][i].buffer] = lib[s][i].au

LEMMA LibSame ==
  ASSUME TypeInv, NEW s \in Stream, LibOf(s), UNCHANGED Moved(s), Released(s)' = Released(s)
  PROVE  LibOf(s)'
BY DEF LibOf, Moved

LEMMA StepLib ==
  ASSUME TypeInv, ReadInv, [Next]_vars, NEW s \in Stream, QueueOf(s), DistinctOf(s), LibOf(s)
  PROVE  LibOf(s)'
<1> DEFINE d == auReleaseQueue[s]
           b == lib[s]
           n == Released(s)
<1>1. /\ n \in Nat /\ Len(b) \in Nat /\ Len(d) \in Nat
      /\ Len(d) = n + Len(b) + Hand(s) /\ Hand(s) \in {0, 1} /\ (Hand(s) = 0 <=> pAuInfo[s] = None)
  BY Counts DEF QueueOf, Waiting, Released
<1>2. stat[s].auDoneNum = 0 \/ pc[s] \in {"work", "last", "over", "gone"}
  BY DEF QueueOf
<1>3. /\ auWriteQueue[s] \in Seq(Buffers(s)) /\ auReadQueue[s] \in Seq(Buffers(s))
      /\ d \in Seq(Buffers(s)) /\ b \in Seq([buffer : Buffers(s), au : AuOf(s)])
      /\ auAddr[s] \in [Buffers(s) -> AuOf(s)]
  BY StreamFacts
<1>4. /\ \A i \in 1 .. Len(b) : b[i].buffer = d[n + i] /\ auAddr[s][b[i].buffer] = b[i].au
      /\ pAuInfo[s] # None => pAuInfo[s] = d[n + Len(b) + 1]
  BY <1>3 DEF LibOf
<1>5. ASSUME DOMAIN b' = 1 .. Len(b'),
             \A i \in 1 .. Len(b') : b'[i].buffer = d'[n' + i] /\ auAddr'[s][b'[i].buffer] = b'[i].au,
             pAuInfo'[s] # None => pAuInfo'[s] = d'[n' + Len(b') + 1]
      PROVE  LibOf(s)'
  BY <1>5 DEF LibOf
<1>6. DOMAIN b = 1 .. Len(b) /\ DOMAIN d = 1 .. Len(d)
  BY <1>3
<1>7. recv[s].auDoneNum \in Nat /\ stat[s].auDoneNum \in Nat /\ n = recv[s].auDoneNum + stat[s].auDoneNum
  BY Counts DEF Released
<1> HIDE DEF n, b, d
<1>11. CASE Still(s)
  <2>1. /\ UNCHANGED Moved(s) /\ recv'[s].auDoneNum = recv[s].auDoneNum /\ stat'[s].auDoneNum = stat[s].auDoneNum
    BY <1>11 DEF Keeps, Still, Ordered
  <2>2. Released(s)' = Released(s)
    BY <2>1 DEF Released
  <2> QED
    BY <2>1, <2>2, LibSame
<1>12. CASE Ordered(s)
  <2>1. /\ UNCHANGED Moved(s) /\ recv'[s].auDoneNum = recv[s].auDoneNum /\ stat'[s].auDoneNum = stat[s].auDoneNum
    BY <1>12 DEF Keeps, Still, Ordered
  <2>2. Released(s)' = Released(s)
    BY <2>1 DEF Released
  <2> QED
    BY <2>1, <2>2, LibSame
<1>13. CASE Pushed(s)
  <2>1. /\ auWriteQueue[s] # << >> /\ d' = d /\ b' = b /\ n' = n /\ UNCHANGED pAuInfo[s]
        /\ \E c \in AuOf(s) : auAddr'[s] = [auAddr[s] EXCEPT ![Head(auWriteQueue[s])] = c]
    BY <1>13 DEF Pushed, d, b, n, Released
  <2>2. Apart(d, auWriteQueue[s])
    BY DEF DistinctOf, d
  <2>3. 1 \in DOMAIN auWriteQueue[s] /\ Head(auWriteQueue[s]) = auWriteQueue[s][1]
    BY <1>3, <2>1
  <2>4. ASSUME NEW i \in 1 .. Len(b) PROVE auAddr'[s][b[i].buffer] = b[i].au
    <3>1. n + i \in DOMAIN d
      BY <1>1, <1>6
    <3>2. b[i].buffer # Head(auWriteQueue[s])
      BY <1>4, <2>2, <2>3, <3>1 DEF Apart
    <3>3. b[i].buffer \in Buffers(s)
      BY <1>3, <1>4, <3>1
    <3> QED
      BY <1>3, <1>4, <2>1, <3>2, <3>3
  <2> QED
    BY <1>4, <1>5, <1>6, <2>1, <2>4
<1>14. CASE Wait(s)
  <2>1. UNCHANGED Moved(s) /\ stat[s].auDoneNum = 0
    BY <1>2, <1>14, WaitDoes
  <2>2. CASE recv'[s] = Received(s) /\ stat'[s] = stat[s]
    BY <2>1, <2>2, LibSame, ReceivedStatus DEF Released
  <2>3. CASE stat'[s] = Received(s) /\ recv'[s].auDoneNum = 0
    <3>1. stat'[s].auDoneNum = recv[s].auDoneNum
      BY <2>3, ReceivedStatus
    <3>2. Released(s)' = Released(s)
      BY <1>7, <2>1, <2>3, <3>1 DEF Released
    <3> QED
      BY <2>1, <3>2, LibSame
  <2> QED
    BY <1>14, <2>2, <2>3, WaitDoes
<1>15. CASE Sleep(s)
  <2>1. /\ UNCHANGED Moved(s) /\ recv'[s].auDoneNum = recv[s].auDoneNum /\ stat'[s].auDoneNum = stat[s].auDoneNum
    BY <1>15, SleepDoes DEF Keeps, Still, Ordered
  <2>2. Released(s)' = Released(s)
    BY <2>1 DEF Released
  <2> QED
    BY <2>1, <2>2, LibSame
<1>16. CASE Release(s)
  <2>1. /\ d # << >> /\ d' = Tail(d) /\ b' = b /\ UNCHANGED << pAuInfo[s], auAddr[s], recv[s] >>
        /\ stat'[s].auDoneNum = stat[s].auDoneNum - 1 /\ stat[s].auDoneNum > 0
    BY <1>16, ReleaseDoes DEF d, b
  <2>2. n' = n - 1 /\ n > 0
    <3>1. n' = recv'[s].auDoneNum + stat'[s].auDoneNum
      BY DEF n, Released
    <3> QED
      BY <1>7, <2>1, <3>1
  <2>3. \A i \in 1 .. Len(d) - 1 : d'[i] = d[i + 1]
    BY <1>3, <2>1, TailAt
  <2>4. ASSUME NEW i \in 1 .. Len(b) PROVE b[i].buffer = d'[n' + i]
    <3>1. n' + i \in 1 .. Len(d) - 1 /\ (n' + i) + 1 = n + i
      BY <1>1, <2>2
    <3> QED
      BY <1>4, <2>3, <3>1
  <2>5. pAuInfo[s] # None => pAuInfo[s] = d'[n' + Len(b) + 1]
    <3> SUFFICES ASSUME pAuInfo[s] # None PROVE pAuInfo[s] = d'[n' + Len(b) + 1]
      OBVIOUS
    <3>1. n' + Len(b) + 1 \in 1 .. Len(d) - 1 /\ (n' + Len(b) + 1) + 1 = n + Len(b) + 1
      BY <1>1, <2>2
    <3> QED
      BY <1>4, <2>3, <3>1
  <2> QED
    BY <1>4, <1>5, <1>6, <2>1, <2>4, <2>5
<1>17. CASE ReleaseFails(s)
  <2>1. /\ UNCHANGED Moved(s) /\ recv'[s].auDoneNum = recv[s].auDoneNum /\ stat'[s].auDoneNum = stat[s].auDoneNum
    BY <1>17, ReleaseFailsDoes DEF Keeps, Still, Ordered
  <2>2. Released(s)' = Released(s)
    BY <2>1 DEF Released
  <2> QED
    BY <2>1, <2>2, LibSame
<1>18. CASE LastReleased(s)
  <2>1. /\ UNCHANGED Moved(s) /\ recv'[s].auDoneNum = recv[s].auDoneNum /\ stat'[s].auDoneNum = stat[s].auDoneNum
    BY <1>18, LastReleasedDoes DEF Keeps, Still, Ordered
  <2>2. Released(s)' = Released(s)
    BY <2>1 DEF Released
  <2> QED
    BY <2>1, <2>2, LibSame
<1>19. CASE GetAu(s)
  <2>1. /\ d' = Append(d, Head(auReadQueue[s])) /\ b' = b /\ UNCHANGED << auAddr[s], recv[s],
                                                                          stat[s] >>
        /\ pAuInfo[s] = None /\ pAuInfo'[s] = Head(auReadQueue[s]) /\ auReadQueue[s] # << >>
    BY <1>19, GetAuDoes DEF d, b
  <2>2. n' = n /\ Len(d) = n + Len(b)
    <3>1. n' = n
      BY <2>1 DEF n, Released
    <3> QED
      BY <1>1, <2>1, <3>1
  <2>3. Head(auReadQueue[s]) \in Buffers(s)
    BY <1>3, <2>1
  <2>4. d'[Len(d) + 1] = Head(auReadQueue[s]) /\ \A i \in 1 .. Len(d) : d'[i] = d[i]
    BY <1>3, <2>1, <2>3, AppendAt
  <2>5. ASSUME NEW i \in 1 .. Len(b) PROVE b[i].buffer = d'[n' + i]
    <3>1. n + i \in 1 .. Len(d)
      BY <1>1, <2>2
    <3> QED
      BY <1>4, <2>2, <2>4, <3>1
  <2>6. pAuInfo'[s] = d'[n' + Len(b) + 1]
    BY <2>1, <2>2, <2>4
  <2> QED
    BY <1>4, <1>5, <1>6, <2>1, <2>5, <2>6
<1>20. CASE NoAu(s)
  <2>1. /\ UNCHANGED Moved(s) /\ recv'[s].auDoneNum = recv[s].auDoneNum /\ stat'[s].auDoneNum = stat[s].auDoneNum
    BY <1>20, NoAuDoes DEF Keeps, Still, Ordered
  <2>2. Released(s)' = Released(s)
    BY <2>1 DEF Released
  <2> QED
    BY <2>1, <2>2, LibSame
<1>21. CASE EndSeq(s)
  <2>1. /\ UNCHANGED Moved(s) /\ recv'[s].auDoneNum = recv[s].auDoneNum /\ stat'[s].auDoneNum = stat[s].auDoneNum
    BY <1>21, EndSeqDoes DEF Keeps, Still, Ordered
  <2>2. Released(s)' = Released(s)
    BY <2>1 DEF Released
  <2> QED
    BY <2>1, <2>2, LibSame
<1>22. CASE KeepsAu(s)
  <2>1. /\ UNCHANGED Moved(s) /\ recv'[s].auDoneNum = recv[s].auDoneNum /\ stat'[s].auDoneNum = stat[s].auDoneNum
    BY <1>22, KeepsAuDoes DEF Keeps, Still, Ordered
  <2>2. Released(s)' = Released(s)
    BY <2>1 DEF Released
  <2> QED
    BY <2>1, <2>2, LibSame
<1>23. CASE NothingNew(s)
  <2>1. /\ UNCHANGED Moved(s) /\ recv'[s].auDoneNum = recv[s].auDoneNum /\ stat'[s].auDoneNum = stat[s].auDoneNum
    BY <1>23, NothingNewDoes DEF Keeps, Still, Ordered
  <2>2. Released(s)' = Released(s)
    BY <2>1 DEF Released
  <2> QED
    BY <2>1, <2>2, LibSame
<1>24. CASE DecodeAu(s)
  <2>1. /\ d' = d /\ b' = Append(b, [buffer |-> pAuInfo[s], au |-> auAddr[s][pAuInfo[s]]])
        /\ UNCHANGED << auAddr[s], recv[s], stat[s] >> /\ pAuInfo'[s] = None /\ pAuInfo[s] # None
    BY <1>24, DecodeDoes DEF d, b, ReadInv
  <2>2. n' = n
    BY <2>1 DEF n, Released
  <2>3. n + Len(b) + 1 \in DOMAIN d
    BY <1>1, <1>6, <2>1
  <2>4. pAuInfo[s] = d[n + Len(b) + 1] /\ pAuInfo[s] \in Buffers(s)
    BY <1>3, <1>4, <2>1, <2>3
  <2>5. PICK e \in [buffer : Buffers(s), au : AuOf(s)] : e = [buffer |-> pAuInfo[s], au |-> auAddr[s][pAuInfo[s]]]
    BY <1>3, <2>4
  <2>6. b' = Append(b, e)
    BY <2>1, <2>5
  <2>7. DOMAIN b' = 1 .. Len(b) + 1 /\ b'[Len(b) + 1] = e /\ \A i \in 1 .. Len(b) : b'[i] = b[i]
    BY <1>3, <2>6, AppendAt
  <2>8. Len(b') = Len(b) + 1
    BY <1>3, <2>6, Lengths
  <2>9. ASSUME NEW i \in 1 .. Len(b') PROVE b'[i].buffer = d'[n' + i] /\ auAddr'[s][b'[i].buffer] = b'[i].au
    <3>1. CASE i \in 1 .. Len(b)
      BY <1>4, <2>1, <2>2, <2>7, <3>1
    <3>2. CASE i = Len(b) + 1
      <4>1. b'[i] = e /\ e.buffer = pAuInfo[s] /\ e.au = auAddr[s][pAuInfo[s]]
        BY <2>5, <2>7, <3>2
      <4>2. n' + i = n + Len(b) + 1
        BY <1>1, <2>2, <3>2
      <4> QED
        BY <2>1, <2>4, <4>1, <4>2
    <3> QED
      BY <1>1, <2>8, <3>1, <3>2
  <2>10. DOMAIN b' = 1 .. Len(b')
    BY <2>7, <2>8
  <2> QED
    BY <1>5, <2>1, <2>9, <2>10
<1>25. CASE Busy(s)
  <2>1. /\ UNCHANGED Moved(s) /\ recv'[s].auDoneNum = recv[s].auDoneNum /\ stat'[s].auDoneNum = stat[s].auDoneNum
    BY <1>25, BusyDoes DEF Keeps, Still, Ordered
  <2>2. Released(s)' = Released(s)
    BY <2>1 DEF Released
  <2> QED
    BY <2>1, <2>2, LibSame
<1>26. CASE LibraryRefuses(s)
  <2>1. /\ UNCHANGED Moved(s) /\ recv'[s].auDoneNum = recv[s].auDoneNum /\ stat'[s].auDoneNum = stat[s].auDoneNum
    BY <1>26, LibraryRefusesDoes DEF Keeps, Still, Ordered
  <2>2. Released(s)' = Released(s)
    BY <2>1 DEF Released
  <2> QED
    BY <2>1, <2>2, LibSame
<1>27. CASE LibraryFails(s)
  <2>1. /\ UNCHANGED Moved(s) /\ recv'[s].auDoneNum = recv[s].auDoneNum /\ stat'[s].auDoneNum = stat[s].auDoneNum
    BY <1>27, LibraryFailsDoes DEF Keeps, Still, Ordered
  <2>2. Released(s)' = Released(s)
    BY <2>1 DEF Released
  <2> QED
    BY <2>1, <2>2, LibSame
<1>28. CASE AuDone(s)
  <2>1. /\ d' = d /\ b # << >> /\ b' = Tail(b) /\ UNCHANGED << auAddr[s], pAuInfo[s], stat[s] >>
        /\ recv'[s].auDoneNum = recv[s].auDoneNum + 1
    BY <1>28, AuDoneDoes DEF d, b
  <2>2. n' = n + 1
    <3>1. n' = recv'[s].auDoneNum + stat'[s].auDoneNum
      BY DEF n, Released
    <3> QED
      BY <1>7, <2>1, <3>1
  <2>3. DOMAIN b' = 1 .. Len(b) - 1 /\ \A i \in 1 .. Len(b) - 1 : b'[i] = b[i + 1]
    BY <1>3, <2>1, TailAt
  <2>4. Len(b') = Len(b) - 1 /\ Len(b) > 0
    BY <1>3, <2>1, Lengths
  <2>5. ASSUME NEW i \in 1 .. Len(b') PROVE b'[i].buffer = d'[n' + i] /\ auAddr'[s][b'[i].buffer] = b'[i].au
    <3>1. i + 1 \in 1 .. Len(b) /\ n' + i = n + (i + 1) /\ i \in 1 .. Len(b) - 1
      BY <1>1, <2>2, <2>4
    <3> QED
      BY <1>4, <2>1, <2>3, <3>1
  <2>6. pAuInfo'[s] # None => pAuInfo'[s] = d'[n' + Len(b') + 1]
    <3>1. n' + Len(b') + 1 = n + Len(b) + 1
      BY <1>1, <2>2, <2>4
    <3> QED
      BY <1>4, <2>1, <3>1
  <2> QED
    BY <1>5, <2>3, <2>4, <2>5, <2>6
<1>29. CASE SeqDone(s)
  <2>1. /\ UNCHANGED Moved(s) /\ recv'[s].auDoneNum = recv[s].auDoneNum /\ stat'[s].auDoneNum = stat[s].auDoneNum
    BY <1>29, SeqDoneDoes DEF Keeps, Still, Ordered
  <2>2. Released(s)' = Released(s)
    BY <2>1 DEF Released
  <2> QED
    BY <2>1, <2>2, LibSame
<1>30. CASE Notify /\ target = s
  <2>1. /\ UNCHANGED Moved(s) /\ recv'[s].auDoneNum = recv[s].auDoneNum /\ stat'[s].auDoneNum = stat[s].auDoneNum
    BY <1>30, NotifyDoes DEF Keeps, Still, Ordered
  <2>2. Released(s)' = Released(s)
    BY <2>1 DEF Released
  <2> QED
    BY <2>1, <2>2, LibSame
<1>31. CASE Done /\ target' = s /\ target' # target
  <2>1. /\ UNCHANGED Moved(s) /\ recv'[s].auDoneNum = recv[s].auDoneNum /\ stat'[s].auDoneNum = stat[s].auDoneNum
    BY <1>31, DoneDoes DEF Keeps, Still, Ordered
  <2>2. Released(s)' = Released(s)
    BY <2>1 DEF Released
  <2> QED
    BY <2>1, <2>2, LibSame
<1>32. CASE PcmOut /\ s = Audio
  <2>1. /\ UNCHANGED Moved(s) /\ recv'[s].auDoneNum = recv[s].auDoneNum /\ stat'[s].auDoneNum = stat[s].auDoneNum
    BY <1>32, PcmOutDoes DEF Keeps, Still, Ordered
  <2>2. Released(s)' = Released(s)
    BY <2>1 DEF Released
  <2> QED
    BY <2>1, <2>2, LibSame
<1> QED
  BY <1>11, <1>12, <1>13, <1>14, <1>15, <1>16, <1>17, <1>18, <1>19, <1>20, <1>21, <1>22, <1>23,
     <1>24, <1>25, <1>26, <1>27, <1>28, <1>29, <1>30, <1>31, <1>32, StreamStep DEF Own

LEMMA LibSuffices ==
  ASSUME TypeInv, \A s \in Stream : LibOf(s)
  PROVE  BufferUntouched
BY DEF BufferUntouched, LibOf

LEMMA InitLib == Init => \A s \in Stream : DistinctOf(s) /\ LibOf(s)
<1> SUFFICES ASSUME Init, NEW s \in Stream PROVE DistinctOf(s) /\ LibOf(s)
  OBVIOUS
<1> USE Kinds DEF Init
<1>1. auWriteQueue[s] = [b \in Buffers(s) |-> b] /\ auReadQueue[s] = << >> /\ auReleaseQueue[s] = << >>
  OBVIOUS
<1>2. DOMAIN auReadQueue[s] = {} /\ DOMAIN auReleaseQueue[s] = {}
  BY <1>1
<1>3. DistinctOf(s)
  BY <1>1, <1>2 DEF DistinctOf, Once, Apart
<1>4. LibOf(s)
  BY DEF LibOf
<1> QED
  BY <1>3, <1>4

\* While the decoder library holds an AU, nothing else is put into its buffer: the demultiplexer,
\* the decoders and the library hand the buffers of a stream round, each in one place at a time.
THEOREM NothingOverwritten == Spec => []BufferUntouched
<1> DEFINE Handed == \A s \in Stream : DistinctOf(s) /\ LibOf(s)
<1>1. Init => TypeInv /\ ReadInv /\ Waits /\ Handed
  BY InitTypes, InitWaits, InitLib
<1>2. TypeInv /\ ReadInv /\ Waits /\ Handed /\ [Next]_vars => (TypeInv /\ ReadInv /\ Waits /\ Handed)'
  <2> SUFFICES ASSUME TypeInv, ReadInv, Waits, Handed, [Next]_vars PROVE (TypeInv /\ ReadInv /\ Waits /\ Handed)'
    OBVIOUS
  <2>1. TypeInv' /\ ReadInv' /\ Waits'
    BY StepTypes, StepWaits
  <2>2. ASSUME NEW s \in Stream PROVE DistinctOf(s)' /\ LibOf(s)'
    BY StepDistinct, StepLib DEF Waits
  <2> QED
    BY <2>1, <2>2
<1>3. TypeInv /\ Handed => BufferUntouched
  BY LibSuffices
<1> HIDE DEF Handed
<1> QED
  BY <1>1, <1>2, <1>3, PTL DEF Spec

-----------------------------------------------------------------------------
(***************************************************************************)
(* The thread of the player (PlayerControl): ResourcesSound, for any       *)
(* number of players and of repetitions.  Its invariant PlayerInv says     *)
(* what is open at each item of each list (HeldInv) and which threads a    *)
(* sequence can still have (RunsInv).                                      *)
(***************************************************************************)
\* All that modules acquire.
Things == {"sysmodule", "callback", "mutex", "monitor", "file", "index", "auinfo", "aubuffer",
           "queues", "parsebuffer", "buffer", "mixer", "prx", "pool", "queue", "map", "frame",
           "memory", "handle"}

\* What a module holds when it is open.
Full(m) == Control!ToSet(Control!Acquires[m])

\* The modules of a list that the thread has been through, and those still to come.
Passed(order) == { order[i] : i \in 1 .. step - 1 }
Ahead(order) == { order[i] : i \in step .. Len(order) }

PlayerTypes ==
  /\ player_open \in BOOLEAN /\ player_exec \in BOOLEAN /\ commonError \in BOOLEAN
  /\ fault \in BOOLEAN
  /\ plays \in 0 .. MaxPlays /\ repeats \in 0 .. MaxPlays /\ ret \in {"ok", "error"}
  /\ phase \in {"none", "open", "start", "join", "close", "last", "end", "gone"}
  /\ step \in 1 .. 12 /\ (phase \in {"start", "join"} => step <= 8)
  /\ (phase = "close" => step <= 10) /\ (phase = "last" => step <= 3)
  /\ runs \in [Control!Threaded -> {"no", "yes", "ok", "error"}]
  /\ DOMAIN held = Control!Module /\ \A m \in Control!Module : held[m] \subseteq Full(m)
  /\ unjoined \subseteq Control!Threaded

\* A thread that runs was left by an earlier sequence, or is one that this sequence started.
RunsInv == \A m \in Control!Threaded : runs[m] # "no" /\ m \notin unjoined =>
  \/ phase = "start" /\ m \in Passed(Control!Start)
  \/ phase = "join" /\ m \in Ahead(Control!JoinOrder)

\* While sequences are played everything is open, and until there is a fault only what the
\* thread has opened and not closed yet.
HeldInv ==
  /\ phase \in {"start", "join"} => \A m \in Control!Module : held[m] = Full(m)
  /\ phase = "open" => \A m \in Passed(Control!OpenOrder) : held[m] = Full(m)
  /\ ~fault =>
       /\ phase \in {"none", "end", "gone"} => \A m \in Control!Module : held[m] = {}
       /\ phase = "open" => \A m \in Ahead(Control!OpenOrder) : held[m] = {}
       /\ phase = "close" => \A m \in Passed(Control!CloseOrder) : held[m] = {}
       /\ phase = "last" =>
            \A m \in Control!Module : m \notin Ahead(Control!LastOrder) => held[m] = {}

PlayerInv == PlayerTypes /\ RunsInv /\ HeldInv

LEMMA Modules ==
  Control!Module = {"common", "dmux", "video", "audio", "avsync", "vdisp", "amixer", "vpost",
                    "apost", "vdec", "adec"}
  BY DEF Control!Module, Control!Acquires

LEMMA Threads7 ==
  Control!Threaded = {"vdisp", "vpost", "vdec", "amixer", "apost", "adec", "dmux"}
<1> DEFINE q == Control!Start
<1>1. DOMAIN q = 1 .. 7
  BY DEF Control!Start
<1>2. /\ q[1] = "vdisp" /\ q[2] = "vpost" /\ q[3] = "vdec" /\ q[4] = "amixer" /\ q[5] = "apost"
      /\ q[6] = "adec" /\ q[7] = "dmux"
  BY DEF Control!Start
<1>3. Control!Threaded = { q[i] : i \in DOMAIN q }
  BY DEF Control!Threaded, Control!ToSet
<1> HIDE DEF q
<1> QED
  BY <1>1, <1>2, <1>3

LEMMA Orders ==
  /\ Len(Control!OpenOrder) = 11 /\ Len(Control!Start) = 7 /\ Len(Control!JoinOrder) = 7
  /\ Len(Control!CloseOrder) = 9 /\ Len(Control!LastOrder) = 2
  BY DEF Control!OpenOrder, Control!Start, Control!JoinOrder, Control!CloseOrder,
         Control!LastOrder

LEMMA OpenItems ==
  /\ Control!OpenOrder[1] = "common" /\ Control!OpenOrder[2] = "dmux"
  /\ Control!OpenOrder[3] = "video" /\ Control!OpenOrder[4] = "audio"
  /\ Control!OpenOrder[5] = "avsync" /\ Control!OpenOrder[6] = "vdisp"
  /\ Control!OpenOrder[7] = "amixer" /\ Control!OpenOrder[8] = "vpost"
  /\ Control!OpenOrder[9] = "apost" /\ Control!OpenOrder[10] = "vdec"
  /\ Control!OpenOrder[11] = "adec"
  BY DEF Control!OpenOrder

\* A list of eleven that has every module opens each of them once.
LEMMA OpenEach ==
  /\ \A i \in 1 .. 11 : Control!OpenOrder[i] \in Control!Module
  /\ \A m \in Control!Module : \E i \in 1 .. 11 : Control!OpenOrder[i] = m
  /\ \A i \in 1 .. 11 : \A j \in 1 .. 11 : Control!OpenOrder[i] = Control!OpenOrder[j] => i = j
<1> DEFINE o == Control!OpenOrder
<1>1. \A i \in 1 .. 11 : \/ i = 1 \/ i = 2 \/ i = 3 \/ i = 4 \/ i = 5 \/ i = 6 \/ i = 7 \/ i = 8
                         \/ i = 9 \/ i = 10 \/ i = 11
  OBVIOUS
<1>2. \A i \in 1 .. 11 : o[i] \in Control!Module
  BY <1>1, OpenItems, Modules
<1>3. \A m \in Control!Module : \E i \in 1 .. 11 : o[i] = m
  BY OpenItems, Modules
<1>4. \A i \in 1 .. 11 : \A j \in 1 .. 11 : o[i] = o[j] => i = j
  BY <1>1, OpenItems
<1> QED
  BY <1>2, <1>3, <1>4

LEMMA StartItems ==
  /\ Control!Start[1] = "vdisp" /\ Control!Start[2] = "vpost" /\ Control!Start[3] = "vdec"
  /\ Control!Start[4] = "amixer" /\ Control!Start[5] = "apost" /\ Control!Start[6] = "adec"
  /\ Control!Start[7] = "dmux"
  BY DEF Control!Start

LEMMA JoinItems ==
  /\ Control!JoinOrder[1] = "dmux" /\ Control!JoinOrder[2] = "adec"
  /\ Control!JoinOrder[3] = "apost" /\ Control!JoinOrder[4] = "amixer"
  /\ Control!JoinOrder[5] = "vdec" /\ Control!JoinOrder[6] = "vpost"
  /\ Control!JoinOrder[7] = "vdisp"
  BY DEF Control!JoinOrder

LEMMA CloseItems ==
  /\ Control!CloseOrder[1] = "adec" /\ Control!CloseOrder[2] = "vdec"
  /\ Control!CloseOrder[3] = "apost" /\ Control!CloseOrder[4] = "vpost"
  /\ Control!CloseOrder[5] = "amixer" /\ Control!CloseOrder[6] = "vdisp"
  /\ Control!CloseOrder[7] = "avsync" /\ Control!CloseOrder[8] = "audio"
  /\ Control!CloseOrder[9] = "video"
  /\ Control!LastOrder[1] = "dmux" /\ Control!LastOrder[2] = "common"
  BY DEF Control!CloseOrder, Control!LastOrder

\* Every thread is joined, and every module is closed.
LEMMA Covered ==
  /\ \A i \in 1 .. 7 : Control!Start[i] \in Control!Threaded
  /\ \A i \in 1 .. 7 : Control!JoinOrder[i] \in Control!Threaded
  /\ \A m \in Control!Threaded : \E i \in 1 .. 7 : Control!JoinOrder[i] = m
  /\ \A i \in 1 .. 9 : Control!CloseOrder[i] \in Control!Module
  /\ \A m \in Control!Module : \/ \E i \in 1 .. 9 : Control!CloseOrder[i] = m
                               \/ \E i \in 1 .. 2 : Control!LastOrder[i] = m
<1>1. \A i \in 1 .. 7 : i = 1 \/ i = 2 \/ i = 3 \/ i = 4 \/ i = 5 \/ i = 6 \/ i = 7
  OBVIOUS
<1>2. \A i \in 1 .. 9 : i \in 1 .. 7 \/ i = 8 \/ i = 9
  OBVIOUS
<1>3. \A i \in 1 .. 7 : Control!Start[i] \in Control!Threaded
  BY <1>1, StartItems, Threads7
<1>4. \A i \in 1 .. 7 : Control!JoinOrder[i] \in Control!Threaded
  BY <1>1, JoinItems, Threads7
<1>5. \A m \in Control!Threaded : \E i \in 1 .. 7 : Control!JoinOrder[i] = m
  BY JoinItems, Threads7
<1>6. \A i \in 1 .. 9 : Control!CloseOrder[i] \in Control!Module
  BY <1>1, <1>2, CloseItems, Modules
<1>7. \A m \in Control!Module : \/ \E i \in 1 .. 9 : Control!CloseOrder[i] = m
                                \/ \E i \in 1 .. 2 : Control!LastOrder[i] = m
  BY CloseItems, Modules
<1> QED
  BY <1>3, <1>4, <1>5, <1>6, <1>7

\* The set of a list of strings.
LEMMA SetOfList ==
  ASSUME NEW q \in Seq(Things)
  PROVE  Control!ToSet(q) = { q[i] : i \in 1 .. Len(q) }
  BY DEF Control!ToSet

LEMMA Lists ==
  /\ Control!Acquires["common"] = Control!commonOpen /\ Control!Releases["common"] = Control!commonClose
  /\ Control!Acquires["dmux"] = Control!aviDmuxOpen /\ Control!Releases["dmux"] = Control!aviDmuxClose
  /\ Control!Acquires["video"] = Control!videoEnableEs /\ Control!Releases["video"] = Control!aviDmuxDisableEs
  /\ Control!Acquires["audio"] = Control!audioEnableEs /\ Control!Releases["audio"] = Control!aviDmuxDisableEs
  /\ Control!Acquires["avsync"] = Control!avsyncOpen /\ Control!Releases["avsync"] = Control!avsyncClose
  /\ Control!Acquires["vdisp"] = Control!vdispOpen /\ Control!Releases["vdisp"] = Control!vdispClose
  /\ Control!Acquires["amixer"] = Control!amixerOpen /\ Control!Releases["amixer"] = Control!amixerClose
  /\ Control!Acquires["vpost"] = Control!vpostOpen /\ Control!Releases["vpost"] = Control!vpostClose
  /\ Control!Acquires["apost"] = Control!apostOpen /\ Control!Releases["apost"] = Control!apostClose
  /\ Control!Acquires["vdec"] = Control!vdecOpen /\ Control!Releases["vdec"] = Control!vdecClose
  /\ Control!Acquires["adec"] = Control!adecOpen /\ Control!Releases["adec"] = Control!adecClose
  BY DEF Control!Acquires, Control!Releases

\* The things that a module acquires are a sequence, and it releases them all.
LEMMA Acquired ==
  /\ \A m \in Control!Module :
       /\ Control!Acquires[m] \in Seq(Things) /\ Full(m) # {}
       /\ Full(m) \subseteq Control!Releases[m]
<1>1. /\ Control!Acquires["common"] \in Seq(Things) /\ Full("common") # {}
      /\ Full("common") \subseteq Control!Releases["common"]
  <2> DEFINE q == Control!commonOpen
  <2>1. q \in Seq(Things) /\ Len(q) = 3
    BY DEF Things, Control!commonOpen
  <2>2. q[1] = "sysmodule" /\ q[2] = "callback" /\ q[3] = "mutex"
    BY DEF Control!commonOpen
  <2>4. \A i \in 1 .. 3 : i = 1 \/ i = 2 \/ i = 3
    OBVIOUS
  <2>5. Control!commonClose = Control!Releases["common"]
    BY Lists
  <2>7. q = Control!Acquires["common"]
    BY Lists
  <2> HIDE DEF q
  <2>3. Full("common") = { q[i] : i \in 1 .. 3 }
    <3>1. Full("common") = Control!ToSet(q)
      BY <2>7 DEF Full
    <3>2. Control!ToSet(q) = { q[i] : i \in 1 .. Len(q) }
      BY <2>1, SetOfList
    <3> QED
      BY <2>1, <3>1, <3>2
  <2>6. Full("common") \subseteq Control!commonClose
    BY <2>2, <2>3, <2>4 DEF Control!commonClose
  <2>8. q[1] \in Full("common")
    BY <2>3
  <2> QED
    BY <2>1, <2>2, <2>3, <2>5, <2>6, <2>7, <2>8
<1>2. /\ Control!Acquires["dmux"] \in Seq(Things) /\ Full("dmux") # {}
      /\ Full("dmux") \subseteq Control!Releases["dmux"]
  <2> DEFINE q == Control!aviDmuxOpen
  <2>1. q \in Seq(Things) /\ Len(q) = 3
    BY DEF Things, Control!aviDmuxOpen
  <2>2. q[1] = "monitor" /\ q[2] = "file" /\ q[3] = "index"
    BY DEF Control!aviDmuxOpen
  <2>4. \A i \in 1 .. 3 : i = 1 \/ i = 2 \/ i = 3
    OBVIOUS
  <2>5. Control!aviDmuxClose = Control!Releases["dmux"]
    BY Lists
  <2>7. q = Control!Acquires["dmux"]
    BY Lists
  <2> HIDE DEF q
  <2>3. Full("dmux") = { q[i] : i \in 1 .. 3 }
    <3>1. Full("dmux") = Control!ToSet(q)
      BY <2>7 DEF Full
    <3>2. Control!ToSet(q) = { q[i] : i \in 1 .. Len(q) }
      BY <2>1, SetOfList
    <3> QED
      BY <2>1, <3>1, <3>2
  <2>6. Full("dmux") \subseteq Control!aviDmuxClose
    BY <2>2, <2>3, <2>4 DEF Control!aviDmuxClose
  <2>8. q[1] \in Full("dmux")
    BY <2>3
  <2> QED
    BY <2>1, <2>2, <2>3, <2>5, <2>6, <2>7, <2>8
<1>3. /\ Control!Acquires["video"] \in Seq(Things) /\ Full("video") # {}
      /\ Full("video") \subseteq Control!Releases["video"]
  <2> DEFINE q == Control!videoEnableEs
  <2>1. q \in Seq(Things) /\ Len(q) = 4
    BY DEF Things, Control!videoEnableEs
  <2>2. q[1] = "auinfo" /\ q[2] = "aubuffer" /\ q[3] = "monitor" /\ q[4] = "queues"
    BY DEF Control!videoEnableEs
  <2>4. \A i \in 1 .. 4 : i = 1 \/ i = 2 \/ i = 3 \/ i = 4
    OBVIOUS
  <2>5. Control!aviDmuxDisableEs = Control!Releases["video"]
    BY Lists
  <2>7. q = Control!Acquires["video"]
    BY Lists
  <2> HIDE DEF q
  <2>3. Full("video") = { q[i] : i \in 1 .. 4 }
    <3>1. Full("video") = Control!ToSet(q)
      BY <2>7 DEF Full
    <3>2. Control!ToSet(q) = { q[i] : i \in 1 .. Len(q) }
      BY <2>1, SetOfList
    <3> QED
      BY <2>1, <3>1, <3>2
  <2>6. Full("video") \subseteq Control!aviDmuxDisableEs
    BY <2>2, <2>3, <2>4 DEF Control!aviDmuxDisableEs
  <2>8. q[1] \in Full("video")
    BY <2>3
  <2> QED
    BY <2>1, <2>2, <2>3, <2>5, <2>6, <2>7, <2>8
<1>4. /\ Control!Acquires["audio"] \in Seq(Things) /\ Full("audio") # {}
      /\ Full("audio") \subseteq Control!Releases["audio"]
  <2> DEFINE q == Control!audioEnableEs
  <2>1. q \in Seq(Things) /\ Len(q) = 5
    BY DEF Things, Control!audioEnableEs
  <2>2. q[1] = "auinfo" /\ q[2] = "aubuffer" /\ q[3] = "parsebuffer" /\ q[4] = "monitor" /\ q[5] = "queues"
    BY DEF Control!audioEnableEs
  <2>4. \A i \in 1 .. 5 : i = 1 \/ i = 2 \/ i = 3 \/ i = 4 \/ i = 5
    OBVIOUS
  <2>5. Control!aviDmuxDisableEs = Control!Releases["audio"]
    BY Lists
  <2>7. q = Control!Acquires["audio"]
    BY Lists
  <2> HIDE DEF q
  <2>3. Full("audio") = { q[i] : i \in 1 .. 5 }
    <3>1. Full("audio") = Control!ToSet(q)
      BY <2>7 DEF Full
    <3>2. Control!ToSet(q) = { q[i] : i \in 1 .. Len(q) }
      BY <2>1, SetOfList
    <3> QED
      BY <2>1, <3>1, <3>2
  <2>6. Full("audio") \subseteq Control!aviDmuxDisableEs
    BY <2>2, <2>3, <2>4 DEF Control!aviDmuxDisableEs
  <2>8. q[1] \in Full("audio")
    BY <2>3
  <2> QED
    BY <2>1, <2>2, <2>3, <2>5, <2>6, <2>7, <2>8
<1>5. /\ Control!Acquires["avsync"] \in Seq(Things) /\ Full("avsync") # {}
      /\ Full("avsync") \subseteq Control!Releases["avsync"]
  <2> DEFINE q == Control!avsyncOpen
  <2>1. q \in Seq(Things) /\ Len(q) = 1
    BY DEF Things, Control!avsyncOpen
  <2>2. q[1] = "mutex"
    BY DEF Control!avsyncOpen
  <2>4. \A i \in 1 .. 1 : i = 1
    OBVIOUS
  <2>5. Control!avsyncClose = Control!Releases["avsync"]
    BY Lists
  <2>7. q = Control!Acquires["avsync"]
    BY Lists
  <2> HIDE DEF q
  <2>3. Full("avsync") = { q[i] : i \in 1 .. 1 }
    <3>1. Full("avsync") = Control!ToSet(q)
      BY <2>7 DEF Full
    <3>2. Control!ToSet(q) = { q[i] : i \in 1 .. Len(q) }
      BY <2>1, SetOfList
    <3> QED
      BY <2>1, <3>1, <3>2
  <2>6. Full("avsync") \subseteq Control!avsyncClose
    BY <2>2, <2>3, <2>4 DEF Control!avsyncClose
  <2>8. q[1] \in Full("avsync")
    BY <2>3
  <2> QED
    BY <2>1, <2>2, <2>3, <2>5, <2>6, <2>7, <2>8
<1>6. /\ Control!Acquires["vdisp"] \in Seq(Things) /\ Full("vdisp") # {}
      /\ Full("vdisp") \subseteq Control!Releases["vdisp"]
  <2> DEFINE q == Control!vdispOpen
  <2>1. q \in Seq(Things) /\ Len(q) = 1
    BY DEF Things, Control!vdispOpen
  <2>2. q[1] = "monitor"
    BY DEF Control!vdispOpen
  <2>4. \A i \in 1 .. 1 : i = 1
    OBVIOUS
  <2>5. Control!vdispClose = Control!Releases["vdisp"]
    BY Lists
  <2>7. q = Control!Acquires["vdisp"]
    BY Lists
  <2> HIDE DEF q
  <2>3. Full("vdisp") = { q[i] : i \in 1 .. 1 }
    <3>1. Full("vdisp") = Control!ToSet(q)
      BY <2>7 DEF Full
    <3>2. Control!ToSet(q) = { q[i] : i \in 1 .. Len(q) }
      BY <2>1, SetOfList
    <3> QED
      BY <2>1, <3>1, <3>2
  <2>6. Full("vdisp") \subseteq Control!vdispClose
    BY <2>2, <2>3, <2>4 DEF Control!vdispClose
  <2>8. q[1] \in Full("vdisp")
    BY <2>3
  <2> QED
    BY <2>1, <2>2, <2>3, <2>5, <2>6, <2>7, <2>8
<1>7. /\ Control!Acquires["amixer"] \in Seq(Things) /\ Full("amixer") # {}
      /\ Full("amixer") \subseteq Control!Releases["amixer"]
  <2> DEFINE q == Control!amixerOpen
  <2>1. q \in Seq(Things) /\ Len(q) = 3
    BY DEF Things, Control!amixerOpen
  <2>2. q[1] = "buffer" /\ q[2] = "monitor" /\ q[3] = "mixer"
    BY DEF Control!amixerOpen
  <2>4. \A i \in 1 .. 3 : i = 1 \/ i = 2 \/ i = 3
    OBVIOUS
  <2>5. Control!amixerClose = Control!Releases["amixer"]
    BY Lists
  <2>7. q = Control!Acquires["amixer"]
    BY Lists
  <2> HIDE DEF q
  <2>3. Full("amixer") = { q[i] : i \in 1 .. 3 }
    <3>1. Full("amixer") = Control!ToSet(q)
      BY <2>7 DEF Full
    <3>2. Control!ToSet(q) = { q[i] : i \in 1 .. Len(q) }
      BY <2>1, SetOfList
    <3> QED
      BY <2>1, <3>1, <3>2
  <2>6. Full("amixer") \subseteq Control!amixerClose
    BY <2>2, <2>3, <2>4 DEF Control!amixerClose
  <2>8. q[1] \in Full("amixer")
    BY <2>3
  <2> QED
    BY <2>1, <2>2, <2>3, <2>5, <2>6, <2>7, <2>8
<1>8. /\ Control!Acquires["vpost"] \in Seq(Things) /\ Full("vpost") # {}
      /\ Full("vpost") \subseteq Control!Releases["vpost"]
  <2> DEFINE q == Control!vpostOpen
  <2>1. q \in Seq(Things) /\ Len(q) = 8
    BY DEF Things, Control!vpostOpen
  <2>2. /\ q[1] = "prx" /\ q[2] = "monitor" /\ q[3] = "pool" /\ q[4] = "queue"
        /\ q[5] = "map" /\ q[6] = "frame" /\ q[7] = "memory" /\ q[8] = "handle"
    BY DEF Control!vpostOpen
  <2>4. \A i \in 1 .. 8 : i = 1 \/ i = 2 \/ i = 3 \/ i = 4 \/ i = 5 \/ i = 6 \/ i = 7 \/ i = 8
    OBVIOUS
  <2>5. Control!vpostClose = Control!Releases["vpost"]
    BY Lists
  <2>7. q = Control!Acquires["vpost"]
    BY Lists
  <2> HIDE DEF q
  <2>3. Full("vpost") = { q[i] : i \in 1 .. 8 }
    <3>1. Full("vpost") = Control!ToSet(q)
      BY <2>7 DEF Full
    <3>2. Control!ToSet(q) = { q[i] : i \in 1 .. Len(q) }
      BY <2>1, SetOfList
    <3> QED
      BY <2>1, <3>1, <3>2
  <2>6. Full("vpost") \subseteq Control!vpostClose
    BY <2>2, <2>3, <2>4 DEF Control!vpostClose
  <2>8. q[1] \in Full("vpost")
    BY <2>3
  <2> QED
    BY <2>1, <2>2, <2>3, <2>5, <2>6, <2>7, <2>8
<1>9. /\ Control!Acquires["apost"] \in Seq(Things) /\ Full("apost") # {}
      /\ Full("apost") \subseteq Control!Releases["apost"]
  <2> DEFINE q == Control!apostOpen
  <2>1. q \in Seq(Things) /\ Len(q) = 3
    BY DEF Things, Control!apostOpen
  <2>2. q[1] = "monitor" /\ q[2] = "pool" /\ q[3] = "queue"
    BY DEF Control!apostOpen
  <2>4. \A i \in 1 .. 3 : i = 1 \/ i = 2 \/ i = 3
    OBVIOUS
  <2>5. Control!apostClose = Control!Releases["apost"]
    BY Lists
  <2>7. q = Control!Acquires["apost"]
    BY Lists
  <2> HIDE DEF q
  <2>3. Full("apost") = { q[i] : i \in 1 .. 3 }
    <3>1. Full("apost") = Control!ToSet(q)
      BY <2>7 DEF Full
    <3>2. Control!ToSet(q) = { q[i] : i \in 1 .. Len(q) }
      BY <2>1, SetOfList
    <3> QED
      BY <2>1, <3>1, <3>2
  <2>6. Full("apost") \subseteq Control!apostClose
    BY <2>2, <2>3, <2>4 DEF Control!apostClose
  <2>8. q[1] \in Full("apost")
    BY <2>3
  <2> QED
    BY <2>1, <2>2, <2>3, <2>5, <2>6, <2>7, <2>8
<1>10. /\ Control!Acquires["vdec"] \in Seq(Things) /\ Full("vdec") # {}
      /\ Full("vdec") \subseteq Control!Releases["vdec"]
  <2> DEFINE q == Control!vdecOpen
  <2>1. q \in Seq(Things) /\ Len(q) = 4
    BY DEF Things, Control!vdecOpen
  <2>2. q[1] = "prx" /\ q[2] = "monitor" /\ q[3] = "memory" /\ q[4] = "handle"
    BY DEF Control!vdecOpen
  <2>4. \A i \in 1 .. 4 : i = 1 \/ i = 2 \/ i = 3 \/ i = 4
    OBVIOUS
  <2>5. Control!vdecClose = Control!Releases["vdec"]
    BY Lists
  <2>7. q = Control!Acquires["vdec"]
    BY Lists
  <2> HIDE DEF q
  <2>3. Full("vdec") = { q[i] : i \in 1 .. 4 }
    <3>1. Full("vdec") = Control!ToSet(q)
      BY <2>7 DEF Full
    <3>2. Control!ToSet(q) = { q[i] : i \in 1 .. Len(q) }
      BY <2>1, SetOfList
    <3> QED
      BY <2>1, <3>1, <3>2
  <2>6. Full("vdec") \subseteq Control!vdecClose
    BY <2>2, <2>3, <2>4 DEF Control!vdecClose
  <2>8. q[1] \in Full("vdec")
    BY <2>3
  <2> QED
    BY <2>1, <2>2, <2>3, <2>5, <2>6, <2>7, <2>8
<1>11. /\ Control!Acquires["adec"] \in Seq(Things) /\ Full("adec") # {}
      /\ Full("adec") \subseteq Control!Releases["adec"]
  <2> DEFINE q == Control!adecOpen
  <2>1. q \in Seq(Things) /\ Len(q) = 4
    BY DEF Things, Control!adecOpen
  <2>2. q[1] = "prx" /\ q[2] = "monitor" /\ q[3] = "memory" /\ q[4] = "handle"
    BY DEF Control!adecOpen
  <2>4. \A i \in 1 .. 4 : i = 1 \/ i = 2 \/ i = 3 \/ i = 4
    OBVIOUS
  <2>5. Control!adecClose = Control!Releases["adec"]
    BY Lists
  <2>7. q = Control!Acquires["adec"]
    BY Lists
  <2> HIDE DEF q
  <2>3. Full("adec") = { q[i] : i \in 1 .. 4 }
    <3>1. Full("adec") = Control!ToSet(q)
      BY <2>7 DEF Full
    <3>2. Control!ToSet(q) = { q[i] : i \in 1 .. Len(q) }
      BY <2>1, SetOfList
    <3> QED
      BY <2>1, <3>1, <3>2
  <2>6. Full("adec") \subseteq Control!adecClose
    BY <2>2, <2>3, <2>4 DEF Control!adecClose
  <2>8. q[1] \in Full("adec")
    BY <2>3
  <2> QED
    BY <2>1, <2>2, <2>3, <2>5, <2>6, <2>7, <2>8
<1> QED
  BY <1>1, <1>2, <1>3, <1>4, <1>5, <1>6, <1>7, <1>8, <1>9, <1>10, <1>11, Modules

LEMMA MainVideoKeeps ==
  ASSUME PlayerInv, Control!MainVideo
  PROVE  PlayerInv'
<1>0. /\ ~player_open
      /\ phase \in {"none", "gone"}
      /\ plays < MaxPlays
      /\ player_open' = TRUE
      /\ plays' = plays + 1
      /\ phase' = "open"
      /\ step' = 1
      /\ ret' = "ok"
      /\ repeats' = 0
      /\ UNCHANGED << player_exec, commonError, runs, held, fault, unjoined >>
  BY Orders, Acquired DEF PlayerInv, PlayerTypes, Full, Control!MainVideo, Control!Goes,
     Control!NextItem, Control!thread
<1>1. PlayerTypes'
  BY <1>0, PlaysAssumption DEF PlayerInv, PlayerTypes
<1>2. RunsInv'
  BY <1>0 DEF PlayerInv, PlayerTypes, RunsInv
<1>3. HeldInv'
  BY <1>0, OpenEach, Orders DEF PlayerInv, PlayerTypes, HeldInv, Passed, Ahead
<1> QED
  BY <1>1, <1>2, <1>3 DEF PlayerInv

LEMMA CloseKeeps ==
  ASSUME PlayerInv, Control!Close
  PROVE  PlayerInv'
<1>0. /\ player_open' = FALSE
      /\ UNCHANGED << plays, phase, step, ret, player_exec, commonError, runs, held, repeats, fault, unjoined >>
  BY Orders, Acquired DEF PlayerInv, PlayerTypes, Full, Control!Close, Control!thread,
     Control!Goes, Control!NextItem
<1>1. PlayerTypes'
  BY <1>0 DEF PlayerInv, PlayerTypes
<1>2. RunsInv'
  BY <1>0 DEF PlayerInv, PlayerTypes, RunsInv, Passed, Ahead
<1>3. HeldInv'
  BY <1>0 DEF PlayerInv, PlayerTypes, HeldInv, Passed, Ahead
<1> QED
  BY <1>1, <1>2, <1>3 DEF PlayerInv

LEMMA OpenKeeps ==
  ASSUME PlayerInv, Control!Open
  PROVE  PlayerInv'
<1>0. /\ phase = "open"
      /\ step <= 11
      /\ step' = step + 1
      /\ held' = [held EXCEPT ![Control!OpenOrder[step]] = Full(Control!OpenOrder[step])]
      /\ UNCHANGED << player_open, plays, phase, ret, player_exec, commonError, runs, repeats, fault, unjoined >>
  BY Orders, Acquired DEF PlayerInv, PlayerTypes, Full, Control!Open, Control!Goes,
     Control!NextItem, Control!thread
<1>1. PlayerTypes'
  BY <1>0, OpenEach DEF PlayerInv, PlayerTypes
<1>2. RunsInv'
  BY <1>0 DEF PlayerInv, PlayerTypes, RunsInv
<1>3. HeldInv'
  <2> DEFINE o == Control!OpenOrder
  <2>1. step \in 1 .. 11 /\ step' = step + 1
    BY <1>0 DEF PlayerInv, PlayerTypes
  <2>2. ASSUME NEW i \in 1 .. step PROVE held'[o[i]] = Full(o[i])
    <3>1. CASE i = step
      BY <1>0, <2>1, <3>1, OpenEach DEF PlayerInv, PlayerTypes
    <3>2. CASE i # step
      <4>1. i \in 1 .. step - 1 /\ i \in 1 .. 11
        BY <2>1, <3>2
      <4>2. held[o[i]] = Full(o[i]) /\ o[i] # o[step]
        BY <1>0, <2>1, <3>2, <4>1, OpenEach DEF PlayerInv, HeldInv, Passed
      <4> QED
        BY <1>0, <2>1, <4>1, <4>2, OpenEach DEF PlayerInv, PlayerTypes
    <3> QED
      BY <3>1, <3>2
  <2>3. ASSUME ~fault, NEW i \in step' .. 11 PROVE held'[o[i]] = {}
    <3>1. i \in step .. 11 /\ i \in 1 .. 11 /\ i # step
      BY <2>1
    <3>2. held[o[i]] = {} /\ o[i] # o[step]
      BY <1>0, <2>1, <2>3, <3>1, OpenEach, Orders DEF PlayerInv, HeldInv, Ahead
    <3> QED
      BY <1>0, <2>1, <3>1, <3>2, OpenEach DEF PlayerInv, PlayerTypes
  <2>4. \A m \in Passed(o)' : held'[m] = Full(m)
    BY <2>1, <2>2 DEF Passed
  <2>5. ~fault => \A m \in Ahead(o)' : held'[m] = {}
    BY <2>1, <2>3, Orders DEF Ahead
  <2> QED
    BY <1>0, <2>4, <2>5 DEF HeldInv
<1> QED
  BY <1>1, <1>2, <1>3 DEF PlayerInv

LEMMA OpenFailsKeeps ==
  ASSUME PlayerInv, Control!OpenFails
  PROVE  PlayerInv'
<1>0. /\ phase = "open"
      /\ step <= 11
      /\ phase' = "end"
      /\ step' = 1
      /\ ret' = "error"
      /\ fault' = TRUE
      /\ \E k \in 0 .. Len(Control!Acquires[Control!OpenOrder[step]]) - 1 :
             held' = [held EXCEPT ![Control!OpenOrder[step]] =
                         Control!ToSet(SubSeq(Control!Acquires[Control!OpenOrder[step]], 1, k))
                           \ Control!GivesBack[Control!OpenOrder[step]]]
      /\ UNCHANGED << player_open, plays, player_exec, commonError, runs, repeats,
            unjoined >>
  BY Orders, Acquired DEF PlayerInv, PlayerTypes, Full, Control!OpenFails, Control!Goes,
     Control!NextItem, Control!thread
<1>1. PlayerTypes'
  <2> DEFINE o == Control!OpenOrder[step]
             q == Control!Acquires[o]
  <2>1. o \in Control!Module /\ q \in Seq(Things)
    BY <1>0, OpenEach, Acquired DEF PlayerInv, PlayerTypes
  <2>2. PICK k \in 0 .. Len(q) - 1 :
          held' = [held EXCEPT ![o] = Control!ToSet(SubSeq(q, 1, k)) \ Control!GivesBack[o]]
    BY <1>0
  <2>3. SubSeq(q, 1, k) \in Seq(Things) /\ Len(SubSeq(q, 1, k)) = k
        /\ \A i \in 1 .. k : SubSeq(q, 1, k)[i] = q[i]
    <3>1. Len(q) \in Nat
      BY <2>1
    <3>2. 1 \in Nat /\ k \in Nat /\ k <= Len(q)
      BY <2>2, <3>1
    <3> HIDE DEF q, o
    <3> QED
      BY <2>1, <3>1, <3>2
  <2>4. Control!ToSet(SubSeq(q, 1, k)) \subseteq Full(o)
    <3>1. Control!ToSet(SubSeq(q, 1, k)) = { SubSeq(q, 1, k)[i] : i \in 1 .. k }
      BY <2>3, SetOfList
    <3>2. Full(o) = { q[i] : i \in 1 .. Len(q) }
      BY <2>1, SetOfList DEF Full
    <3>3. Len(q) \in Nat /\ \A i \in 1 .. k : i \in 1 .. Len(q)
      BY <2>1, <2>2
    <3> HIDE DEF q, o
    <3> QED
      BY <2>3, <3>1, <3>2, <3>3
  <2> HIDE DEF q, o
  <2>5. DOMAIN held' = Control!Module /\ \A m \in Control!Module : held'[m] \subseteq Full(m)
    BY <2>1, <2>2, <2>4 DEF PlayerInv, PlayerTypes
  <2> QED
    BY <1>0, <2>5 DEF PlayerInv, PlayerTypes
<1>2. RunsInv'
  BY <1>0 DEF PlayerInv, PlayerTypes, RunsInv
<1>3. HeldInv'
  BY <1>0 DEF PlayerInv, PlayerTypes, HeldInv
<1> QED
  BY <1>1, <1>2, <1>3 DEF PlayerInv

LEMMA ParamFailsKeeps ==
  ASSUME PlayerInv, Control!ParamFails
  PROVE  PlayerInv'
<1>0. /\ phase = "open"
      /\ phase' = "end"
      /\ step' = 1
      /\ ret' = "error"
      /\ fault' = TRUE
      /\ UNCHANGED << player_open, plays, player_exec, commonError, runs, held, repeats,
            unjoined >>
  BY Orders, Acquired DEF PlayerInv, PlayerTypes, Full, Control!ParamFails, Control!Goes,
     Control!NextItem, Control!thread
<1>1. PlayerTypes'
  BY <1>0 DEF PlayerInv, PlayerTypes
<1>2. RunsInv'
  BY <1>0 DEF PlayerInv, PlayerTypes, RunsInv
<1>3. HeldInv'
  BY <1>0 DEF PlayerInv, PlayerTypes, HeldInv
<1> QED
  BY <1>1, <1>2, <1>3 DEF PlayerInv

LEMMA OpenedKeeps ==
  ASSUME PlayerInv, Control!Opened
  PROVE  PlayerInv'
<1>0. /\ phase = "open"
      /\ step > 11
      /\ phase' = "start"
      /\ step' = 1
      /\ UNCHANGED << player_open, plays, ret, player_exec, commonError, runs, held, repeats, fault, unjoined >>
  BY Orders, Acquired DEF PlayerInv, PlayerTypes, Full, Control!Opened, Control!Goes,
     Control!NextItem, Control!thread
<1>1. PlayerTypes'
  BY <1>0 DEF PlayerInv, PlayerTypes
<1>2. RunsInv'
  BY <1>0 DEF PlayerInv, PlayerTypes, RunsInv
<1>3. HeldInv'
  BY <1>0, OpenEach, Orders DEF PlayerInv, PlayerTypes, HeldInv, Passed
<1> QED
  BY <1>1, <1>2, <1>3 DEF PlayerInv

LEMMA StartModuleKeeps ==
  ASSUME PlayerInv, Control!StartModule
  PROVE  PlayerInv'
<1>0. /\ phase = "start"
      /\ step <= 7
      /\ step' = step + 1
      /\ runs' = [runs EXCEPT ![Control!Start[step]] = "yes"]
      /\ player_exec' = (player_exec \/ step = 1)
      /\ commonError' = (commonError /\ step # 1)
      /\ UNCHANGED << player_open, plays, phase, ret, held, repeats, fault, unjoined >>
  BY Orders, Acquired DEF PlayerInv, PlayerTypes, Full, Control!StartModule, Control!Goes,
     Control!NextItem, Control!thread
<1>1. PlayerTypes'
  BY <1>0, Covered DEF PlayerInv, PlayerTypes
<1>2. RunsInv'
  BY <1>0, Covered, Orders DEF PlayerInv, PlayerTypes, RunsInv, Passed
<1>3. HeldInv'
  BY <1>0 DEF PlayerInv, PlayerTypes, HeldInv
<1> QED
  BY <1>1, <1>2, <1>3 DEF PlayerInv

LEMMA StartFailsKeeps ==
  ASSUME PlayerInv, Control!StartFails
  PROVE  PlayerInv'
<1>0. /\ phase = "start"
      /\ phase' = "close"
      /\ step' = 1
      /\ ret' = "error"
      /\ unjoined' = unjoined \cup { m \in Control!Threaded : runs[m] # "no" }
      /\ UNCHANGED << player_open, plays, player_exec, commonError, runs, held, repeats, fault >>
  BY Orders, Acquired DEF PlayerInv, PlayerTypes, Full, Control!StartFails, Control!Breaks,
     Control!Goes, Control!NextItem, Control!thread
<1>1. PlayerTypes'
  BY <1>0 DEF PlayerInv, PlayerTypes
<1>2. RunsInv'
  BY <1>0 DEF PlayerInv, PlayerTypes, RunsInv
<1>3. HeldInv'
  BY <1>0 DEF PlayerInv, PlayerTypes, HeldInv, Passed
<1> QED
  BY <1>1, <1>2, <1>3 DEF PlayerInv

LEMMA StartedKeeps ==
  ASSUME PlayerInv, Control!Started
  PROVE  PlayerInv'
<1>0. /\ phase = "start"
      /\ step > 7
      /\ phase' = "join"
      /\ step' = 1
      /\ UNCHANGED << player_open, plays, ret, player_exec, commonError, runs, held, repeats, fault, unjoined >>
  BY Orders, Acquired DEF PlayerInv, PlayerTypes, Full, Control!Started, Control!Goes,
     Control!NextItem, Control!thread
<1>1. PlayerTypes'
  BY <1>0 DEF PlayerInv, PlayerTypes
<1>2. RunsInv'
  BY <1>0, Covered, Orders DEF PlayerInv, PlayerTypes, RunsInv, Ahead
<1>3. HeldInv'
  BY <1>0 DEF PlayerInv, PlayerTypes, HeldInv
<1> QED
  BY <1>1, <1>2, <1>3 DEF PlayerInv

LEMMA EndsThreadKeeps ==
  ASSUME PlayerInv, NEW m \in Control!Threaded, Control!EndsThread(m)
  PROVE  PlayerInv'
<1>0. /\ runs[m] = "yes"
      /\ runs' = [runs EXCEPT ![m] = "ok"]
      /\ UNCHANGED << player_open, plays, phase, step, ret, player_exec, commonError, held,
            repeats, fault, unjoined >>
  BY Orders, Acquired DEF PlayerInv, PlayerTypes, Full, Control!EndsThread, Control!Goes,
     Control!NextItem, Control!thread
<1>1. PlayerTypes'
  BY <1>0 DEF PlayerInv, PlayerTypes
<1>2. RunsInv'
  <2> SUFFICES ASSUME NEW n \in Control!Threaded, runs'[n] # "no", n \notin unjoined
               PROVE  \/ phase = "start" /\ n \in Passed(Control!Start)
                      \/ phase = "join" /\ n \in Ahead(Control!JoinOrder)
    BY <1>0 DEF RunsInv, Passed, Ahead
  <2>1. runs[n] # "no"
    BY <1>0 DEF PlayerInv, PlayerTypes
  <2> QED
    BY <2>1 DEF PlayerInv, RunsInv
<1>3. HeldInv'
  BY <1>0 DEF PlayerInv, PlayerTypes, HeldInv, Passed, Ahead
<1> QED
  BY <1>1, <1>2, <1>3 DEF PlayerInv

LEMMA FailsThreadKeeps ==
  ASSUME PlayerInv, NEW m \in Control!Threaded, Control!FailsThread(m)
  PROVE  PlayerInv'
<1>0. /\ runs[m] = "yes"
      /\ runs' = [runs EXCEPT ![m] = "error"]
      /\ player_exec' = FALSE
      /\ commonError' = (commonError \/ player_exec)
      /\ UNCHANGED << player_open, plays, phase, step, ret, held, repeats, fault, unjoined >>
  BY DEF Control!FailsThread, Control!ErrorExit
<1>1. PlayerTypes'
  BY <1>0 DEF PlayerInv, PlayerTypes
<1>2. RunsInv'
  <2> SUFFICES ASSUME NEW n \in Control!Threaded, runs'[n] # "no", n \notin unjoined
               PROVE  \/ phase = "start" /\ n \in Passed(Control!Start)
                      \/ phase = "join" /\ n \in Ahead(Control!JoinOrder)
    BY <1>0 DEF RunsInv, Passed, Ahead
  <2>1. runs[n] # "no"
    BY <1>0 DEF PlayerInv, PlayerTypes
  <2> QED
    BY <2>1 DEF PlayerInv, RunsInv
<1>3. HeldInv'
  BY <1>0 DEF PlayerInv, PlayerTypes, HeldInv, Passed, Ahead
<1> QED
  BY <1>1, <1>2, <1>3 DEF PlayerInv

LEMMA SysutilKeeps ==
  ASSUME PlayerInv, Control!SysutilCb
  PROVE  PlayerInv'
<1>0. /\ player_exec' = FALSE
      /\ commonError' = (commonError \/ player_exec)
      /\ UNCHANGED << player_open, plays, phase, step, ret, runs, held, repeats, fault, unjoined >>
  BY DEF Control!SysutilCb, Control!ErrorExit
<1>1. PlayerTypes'
  BY <1>0 DEF PlayerInv, PlayerTypes
<1>2. RunsInv'
  BY <1>0 DEF PlayerInv, PlayerTypes, RunsInv, Passed, Ahead
<1>3. HeldInv'
  BY <1>0 DEF PlayerInv, PlayerTypes, HeldInv, Passed, Ahead
<1> QED
  BY <1>1, <1>2, <1>3 DEF PlayerInv

LEMMA JoinOkKeeps ==
  ASSUME PlayerInv, Control!Join, runs[Control!JoinOrder[step]] = "ok"
  PROVE  PlayerInv'
<1>0. /\ phase = "join"
      /\ step <= 7
      /\ runs[Control!JoinOrder[step]] \in {"ok", "error"}
      /\ runs' = [runs EXCEPT ![Control!JoinOrder[step]] = "no"]
      /\ step' = step + 1
      /\ UNCHANGED << player_open, plays, phase, ret, player_exec, commonError, held, repeats, fault, unjoined >>
  BY Orders, Acquired DEF PlayerInv, PlayerTypes, Full, Control!Join, Control!Goes,
     Control!NextItem, Control!thread
<1>1. PlayerTypes'
  BY <1>0, Covered DEF PlayerInv, PlayerTypes
<1>2. RunsInv'
  <2> SUFFICES ASSUME NEW n \in Control!Threaded, runs'[n] # "no", n \notin unjoined
               PROVE  n \in Ahead(Control!JoinOrder)'
    BY <1>0 DEF RunsInv
  <2>1. runs[n] # "no" /\ n # Control!JoinOrder[step]
    BY <1>0, Covered DEF PlayerInv, PlayerTypes
  <2>2. PICK i \in step .. 7 : n = Control!JoinOrder[i]
    BY <1>0, <2>1, Orders DEF PlayerInv, RunsInv, Ahead
  <2>3. i \in step' .. 7
    BY <1>0, <2>1, <2>2 DEF PlayerInv, PlayerTypes
  <2> QED
    BY <2>2, <2>3, Orders DEF Ahead
<1>3. HeldInv'
  BY <1>0 DEF PlayerInv, PlayerTypes, HeldInv
<1> QED
  BY <1>1, <1>2, <1>3 DEF PlayerInv

LEMMA JoinBreaksKeeps ==
  ASSUME PlayerInv, Control!Join, runs[Control!JoinOrder[step]] # "ok"
  PROVE  PlayerInv'
<1>0. /\ phase = "join"
      /\ step <= 7
      /\ runs[Control!JoinOrder[step]] = "error"
      /\ runs' = [runs EXCEPT ![Control!JoinOrder[step]] = "no"]
      /\ phase' = "close"
      /\ step' = 1
      /\ ret' = "error"
      /\ unjoined' =
           unjoined \cup { n \in Control!Threaded \ {Control!JoinOrder[step]} : runs[n] # "no" }
      /\ UNCHANGED << player_open, plays, player_exec, commonError, held, repeats,
            fault >>
  BY Orders, Acquired DEF PlayerInv, PlayerTypes, Full, Control!Join, Control!Goes,
     Control!NextItem, Control!thread
<1>1. PlayerTypes'
  BY <1>0, Covered DEF PlayerInv, PlayerTypes
<1>2. RunsInv'
  BY <1>0, Covered, Orders DEF PlayerInv, PlayerTypes, RunsInv
<1>3. HeldInv'
  BY <1>0 DEF PlayerInv, PlayerTypes, HeldInv, Passed
<1> QED
  BY <1>1, <1>2, <1>3 DEF PlayerInv

LEMMA RepeatNotKeeps ==
  ASSUME PlayerInv, Control!Repeat, commonError
  PROVE  PlayerInv'
<1>0. /\ phase = "join"
      /\ step > 7
      /\ commonError
      /\ phase' = "close"
      /\ step' = 1
      /\ UNCHANGED << player_open, plays, ret, player_exec, commonError, runs, held, repeats, fault, unjoined >>
  BY Orders, Acquired DEF PlayerInv, PlayerTypes, Full, Control!Repeat, Control!Goes,
     Control!NextItem, Control!thread
<1>1. PlayerTypes'
  BY <1>0 DEF PlayerInv, PlayerTypes
<1>2. RunsInv'
  BY <1>0, Covered, Orders DEF PlayerInv, PlayerTypes, RunsInv, Ahead
<1>3. HeldInv'
  BY <1>0 DEF PlayerInv, PlayerTypes, HeldInv, Passed
<1> QED
  BY <1>1, <1>2, <1>3 DEF PlayerInv

LEMMA RepeatOnceKeeps ==
  ASSUME PlayerInv, Control!Repeat, ~commonError
  PROVE  PlayerInv'
<1>0. /\ phase = "join"
      /\ step > 7
      /\ repeats < MaxPlays
      /\ repeats' = repeats + 1
      /\ phase' = "start"
      /\ step' = 1
      /\ UNCHANGED << player_open, plays, ret, player_exec, commonError, runs, held, fault, unjoined >>
  BY Orders, Acquired DEF PlayerInv, PlayerTypes, Full, Control!Repeat, Control!Goes,
     Control!NextItem, Control!thread
<1>1. PlayerTypes'
  BY <1>0, PlaysAssumption DEF PlayerInv, PlayerTypes
<1>2. RunsInv'
  BY <1>0, Covered, Orders DEF PlayerInv, PlayerTypes, RunsInv, Ahead, Passed
<1>3. HeldInv'
  BY <1>0 DEF PlayerInv, PlayerTypes, HeldInv
<1> QED
  BY <1>1, <1>2, <1>3 DEF PlayerInv

LEMMA CloseOneKeeps ==
  ASSUME PlayerInv, Control!CloseModule, phase = "close"
  PROVE  PlayerInv'
<1>0. /\ phase = "close"
      /\ step <= 9
      /\ step' = step + 1
      /\ held' = [m \in Control!Module |->
                    IF m \in Control!Closes(Control!CloseOrder[step])
                      THEN held[m] \ Control!Releases[m] ELSE held[m]]
      /\ UNCHANGED << player_open, plays, phase, ret, player_exec, commonError, runs, repeats, fault, unjoined >>
  BY Orders, Acquired DEF PlayerInv, PlayerTypes, Full, Control!CloseModule, Control!Closing,
     Control!Goes, Control!NextItem, Control!thread
<1>1. PlayerTypes'
  BY <1>0 DEF PlayerInv, PlayerTypes
<1>2. RunsInv'
  BY <1>0 DEF PlayerInv, PlayerTypes, RunsInv
<1>3. HeldInv'
  <2> SUFFICES ASSUME ~fault, NEW i \in 1 .. step PROVE held'[Control!CloseOrder[i]] = {}
    BY <1>0 DEF PlayerInv, PlayerTypes, HeldInv, Passed
  <2> DEFINE m == Control!CloseOrder[i]
  <2>1. m \in Control!Module /\ held[m] \subseteq Control!Releases[m]
    BY <1>0, Covered, Acquired DEF PlayerInv, PlayerTypes
  <2>2. CASE i = step
    <3>1. m \in Control!Closes(m)
      BY DEF Control!Closes
    <3> QED
      BY <1>0, <2>1, <2>2, <3>1
  <2>3. CASE i # step
    <3>1. i \in 1 .. step - 1
      BY <2>3 DEF PlayerInv, PlayerTypes
    <3>2. held[m] = {}
      BY <1>0, <3>1 DEF PlayerInv, HeldInv, Passed
    <3> QED
      BY <1>0, <2>1, <3>2
  <2> QED
    BY <2>2, <2>3
<1> QED
  BY <1>1, <1>2, <1>3 DEF PlayerInv

LEMMA LastOneKeeps ==
  ASSUME PlayerInv, Control!CloseModule, phase # "close"
  PROVE  PlayerInv'
<1>0. /\ phase = "last"
      /\ step <= 2
      /\ step' = step + 1
      /\ held' = [m \in Control!Module |->
                    IF m \in Control!Closes(Control!LastOrder[step])
                      THEN held[m] \ Control!Releases[m] ELSE held[m]]
      /\ UNCHANGED << player_open, plays, phase, ret, player_exec, commonError, runs, repeats, fault, unjoined >>
  BY Orders, Acquired DEF PlayerInv, PlayerTypes, Full, Control!CloseModule, Control!Closing,
     Control!Goes, Control!NextItem, Control!thread
<1>1. PlayerTypes'
  BY <1>0 DEF PlayerInv, PlayerTypes
<1>2. RunsInv'
  BY <1>0 DEF PlayerInv, PlayerTypes, RunsInv
<1>3. HeldInv'
  <2> SUFFICES ASSUME ~fault, NEW m \in Control!Module, m \notin Ahead(Control!LastOrder)'
               PROVE  held'[m] = {}
    BY <1>0 DEF HeldInv
  <2>1. held[m] \subseteq Control!Releases[m]
    BY Acquired DEF PlayerInv, PlayerTypes
  <2>2. CASE m = Control!LastOrder[step]
    <3>1. m \in Control!Closes(m)
      BY DEF Control!Closes
    <3> QED
      BY <1>0, <2>1, <2>2, <3>1
  <2>3. CASE m # Control!LastOrder[step]
    <3>1. ASSUME NEW i \in step .. 2 PROVE m # Control!LastOrder[i]
      <4>1. i = step \/ i \in step' .. 2
        BY <1>0 DEF PlayerInv, PlayerTypes
      <4> QED
        BY <2>3, <4>1, Orders DEF Ahead
    <3>2. m \notin Ahead(Control!LastOrder)
      BY <3>1, Orders DEF Ahead
    <3>3. held[m] = {}
      BY <1>0, <3>2 DEF PlayerInv, HeldInv
    <3> QED
      BY <1>0, <3>3
  <2> QED
    BY <2>2, <2>3
<1> QED
  BY <1>1, <1>2, <1>3 DEF PlayerInv

LEMMA CloseBreaksKeeps ==
  ASSUME PlayerInv, Control!CloseFails, phase = "close"
  PROVE  PlayerInv'
<1>0. /\ phase = "close"
      /\ fault' = TRUE
      /\ ret' = "error"
      /\ phase' = "last"
      /\ step' = 1
      /\ UNCHANGED << player_open, plays, player_exec, commonError, runs, held, repeats,
            unjoined >>
  BY Orders, Acquired DEF PlayerInv, PlayerTypes, Full, Control!CloseFails, Control!Closing,
     Control!Goes, Control!NextItem, Control!thread
<1>1. PlayerTypes'
  BY <1>0 DEF PlayerInv, PlayerTypes
<1>2. RunsInv'
  BY <1>0 DEF PlayerInv, PlayerTypes, RunsInv
<1>3. HeldInv'
  BY <1>0 DEF PlayerInv, PlayerTypes, HeldInv
<1> QED
  BY <1>1, <1>2, <1>3 DEF PlayerInv

LEMMA LastFailsKeeps ==
  ASSUME PlayerInv, Control!CloseFails, phase # "close"
  PROVE  PlayerInv'
<1>0. /\ phase = "last"
      /\ step <= 2
      /\ fault' = TRUE
      /\ ret' = "error"
      /\ step' = step + 1
      /\ UNCHANGED << player_open, plays, phase, player_exec, commonError, runs, held, repeats, unjoined >>
  BY Orders, Acquired DEF PlayerInv, PlayerTypes, Full, Control!CloseFails, Control!Closing,
     Control!Goes, Control!NextItem, Control!thread
<1>1. PlayerTypes'
  BY <1>0 DEF PlayerInv, PlayerTypes
<1>2. RunsInv'
  BY <1>0 DEF PlayerInv, PlayerTypes, RunsInv
<1>3. HeldInv'
  BY <1>0 DEF PlayerInv, PlayerTypes, HeldInv
<1> QED
  BY <1>1, <1>2, <1>3 DEF PlayerInv

LEMMA ClosedAllKeeps ==
  ASSUME PlayerInv, Control!Closed, phase = "close"
  PROVE  PlayerInv'
<1>0. /\ phase = "close"
      /\ step > 9
      /\ phase' = "last"
      /\ step' = 1
      /\ UNCHANGED << player_open, plays, ret, player_exec, commonError, runs, held, repeats, fault, unjoined >>
  BY Orders, Acquired DEF PlayerInv, PlayerTypes, Full, Control!Closed, Control!Closing,
     Control!Goes, Control!NextItem, Control!thread
<1>1. PlayerTypes'
  BY <1>0 DEF PlayerInv, PlayerTypes
<1>2. RunsInv'
  BY <1>0 DEF PlayerInv, PlayerTypes, RunsInv
<1>3. HeldInv'
  <2> SUFFICES ASSUME ~fault, NEW m \in Control!Module, m \notin Ahead(Control!LastOrder)'
               PROVE  held'[m] = {}
    BY <1>0 DEF HeldInv
  <2>1. \A i \in 1 .. 2 : m # Control!LastOrder[i]
    BY <1>0, Orders DEF Ahead
  <2>2. PICK i \in 1 .. 9 : m = Control!CloseOrder[i]
    BY <2>1, Covered
  <2>3. i \in 1 .. step - 1
    BY <1>0 DEF PlayerInv, PlayerTypes
  <2> QED
    BY <1>0, <2>2, <2>3 DEF PlayerInv, HeldInv, Passed
<1> QED
  BY <1>1, <1>2, <1>3 DEF PlayerInv

LEMMA LastDoneKeeps ==
  ASSUME PlayerInv, Control!Closed, phase # "close"
  PROVE  PlayerInv'
<1>0. /\ phase = "last"
      /\ step > 2
      /\ phase' = "end"
      /\ step' = 1
      /\ UNCHANGED << player_open, plays, ret, player_exec, commonError, runs, held, repeats, fault, unjoined >>
  BY Orders, Acquired DEF PlayerInv, PlayerTypes, Full, Control!Closed, Control!Closing,
     Control!Goes, Control!NextItem, Control!thread
<1>1. PlayerTypes'
  BY <1>0 DEF PlayerInv, PlayerTypes
<1>2. RunsInv'
  BY <1>0 DEF PlayerInv, PlayerTypes, RunsInv
<1>3. HeldInv'
  <2> SUFFICES ASSUME ~fault, NEW m \in Control!Module PROVE held'[m] = {}
    BY <1>0 DEF HeldInv
  <2>1. Ahead(Control!LastOrder) = {}
    BY <1>0, Orders DEF Ahead, PlayerInv, PlayerTypes
  <2> QED
    BY <1>0, <2>1 DEF PlayerInv, HeldInv
<1> QED
  BY <1>1, <1>2, <1>3 DEF PlayerInv

LEMMA EndVideoKeeps ==
  ASSUME PlayerInv, Control!EndVideo
  PROVE  PlayerInv'
<1>0. /\ phase = "end"
      /\ phase' = "gone"
      /\ step' = 1
      /\ player_open' = FALSE
      /\ UNCHANGED << plays, ret, player_exec, commonError, runs, held, repeats, fault,
            unjoined >>
  BY Orders, Acquired DEF PlayerInv, PlayerTypes, Full, Control!EndVideo, Control!Goes,
     Control!NextItem, Control!thread
<1>1. PlayerTypes'
  <2>1. player_open' \in BOOLEAN
    BY <1>0, Zenon
  <2>2. step' \in 1 .. 12 /\ phase' = "gone"
    BY <1>0
  <2> QED
    BY <1>0, <2>1, <2>2 DEF PlayerInv, PlayerTypes
<1>2. RunsInv'
  BY <1>0 DEF PlayerInv, PlayerTypes, RunsInv
<1>3. HeldInv'
  BY <1>0 DEF PlayerInv, PlayerTypes, HeldInv
<1> QED
  BY <1>1, <1>2, <1>3 DEF PlayerInv

LEMMA StepPlayerInv == PlayerInv /\ [Control!Next]_player => PlayerInv'
<1> SUFFICES ASSUME PlayerInv, [Control!Next]_player PROVE PlayerInv'
  OBVIOUS
<1>1. CASE UNCHANGED player
  BY <1>1 DEF player, PlayerInv, PlayerTypes, RunsInv, HeldInv, Passed, Ahead
<1>2. ASSUME Control!Join PROVE PlayerInv'
  BY <1>2, JoinOkKeeps, JoinBreaksKeeps
<1>3. ASSUME Control!Repeat PROVE PlayerInv'
  BY <1>3, RepeatNotKeeps, RepeatOnceKeeps
<1>4. ASSUME Control!CloseModule PROVE PlayerInv'
  BY <1>4, CloseOneKeeps, LastOneKeeps
<1>5. ASSUME Control!CloseFails PROVE PlayerInv'
  BY <1>5, CloseBreaksKeeps, LastFailsKeeps
<1>6. ASSUME Control!Closed PROVE PlayerInv'
  BY <1>6, ClosedAllKeeps, LastDoneKeeps
<1>7. CASE Control!Player
  BY <1>2, <1>3, <1>4, <1>5, <1>6, <1>7, OpenKeeps, OpenFailsKeeps, ParamFailsKeeps, OpenedKeeps,
     StartModuleKeeps, StartFailsKeeps, StartedKeeps, EndVideoKeeps DEF Control!Player
<1>8. CASE \E m \in Control!Threaded : Control!EndsThread(m) \/ Control!FailsThread(m)
  BY <1>8, EndsThreadKeeps, FailsThreadKeeps
<1> QED
  BY <1>1, <1>7, <1>8, MainVideoKeeps, CloseKeeps, SysutilKeeps DEF Control!Next

LEMMA InitPlayerInv == Control!Init => PlayerInv
<1> SUFFICES ASSUME Control!Init PROVE PlayerInv
  OBVIOUS
<1>1. PlayerTypes
  <2>1. /\ player_open \in BOOLEAN /\ player_exec \in BOOLEAN /\ commonError \in BOOLEAN
        /\ fault \in BOOLEAN
    BY Zenon DEF Control!Init
  <2>2. plays \in 0 .. MaxPlays /\ repeats \in 0 .. MaxPlays /\ step \in 1 .. 12
    BY PlaysAssumption DEF Control!Init
  <2> QED
    BY <2>1, <2>2 DEF Control!Init, PlayerTypes
<1>2. RunsInv
  BY DEF Control!Init, RunsInv
<1>3. HeldInv
  BY DEF Control!Init, HeldInv
<1> QED
  BY <1>1, <1>2, <1>3 DEF PlayerInv

LEMMA UsesModules == \A m \in Control!Threaded : Control!Uses(m) \subseteq Control!Module
<1> SUFFICES ASSUME NEW m \in Control!Threaded PROVE Control!Uses(m) \subseteq Control!Module
  OBVIOUS
<1>1. CASE m = "vdisp"
  BY <1>1, Modules DEF Control!Uses
<1>2. CASE m = "vpost"
  BY <1>2, Modules DEF Control!Uses
<1>3. CASE m = "vdec"
  BY <1>3, Modules DEF Control!Uses
<1>4. CASE m = "amixer"
  BY <1>4, Modules DEF Control!Uses
<1>5. CASE m = "apost"
  BY <1>5, Modules DEF Control!Uses
<1>6. CASE m = "adec"
  BY <1>6, Modules DEF Control!Uses
<1>7. CASE m = "dmux"
  BY <1>7, Modules DEF Control!Uses
<1> QED
  BY <1>1, <1>2, <1>3, <1>4, <1>5, <1>6, <1>7, Threads7

LEMMA PlayerSound ==
  ASSUME PlayerInv
  PROVE  Control!TypeOK /\ Control!NoUseAfterClose /\ Control!AllReturned
<1>1. Control!TypeOK
  <2>1. { player_open, player_exec, commonError, fault } \subseteq BOOLEAN
    BY Zenon DEF PlayerInv, PlayerTypes
  <2>2. /\ plays \in 0 .. MaxPlays /\ repeats \in 0 .. MaxPlays /\ ret \in {"ok", "error"}
        /\ phase \in {"none", "open", "start", "join", "close", "last", "end", "gone"}
        /\ step \in 1 .. 12
        /\ runs \in [Control!Threaded -> {"no", "yes", "ok", "error"}]
        /\ unjoined \subseteq Control!Threaded
    BY DEF PlayerInv, PlayerTypes
  <2>3. \A m \in Control!Module : held[m] \subseteq Control!ToSet(Control!Acquires[m])
    BY DEF PlayerInv, PlayerTypes, Full
  <2> QED
    BY <2>1, <2>2, <2>3 DEF Control!TypeOK
<1>2. ASSUME phase \in {"start", "join"}, NEW m \in Control!Module PROVE held[m] = Full(m)
  BY <1>2 DEF PlayerInv, HeldInv
<1>3. Control!NoUseAfterClose
  <2> SUFFICES ASSUME NEW m \in Control!Threaded, runs[m] = "yes", m \notin unjoined,
                      NEW n \in Control!Uses(m)
               PROVE  held[n] # {}
    BY DEF Control!NoUseAfterClose
  <2>1. phase \in {"start", "join"}
    BY DEF PlayerInv, RunsInv
  <2>2. n \in Control!Module
    BY UsesModules
  <2> QED
    BY <1>2, <2>1, <2>2, Acquired
<1>4. Control!AllReturned
  BY DEF Control!AllReturned, PlayerInv, HeldInv
<1> QED
  BY <1>1, <1>3, <1>4

\* No module is closed under a thread of the player that uses it, unless a sequence broke off
\* and left that thread, and a player whose modules could be opened and closed gives everything
\* back however it ends: for any number of players and of repetitions of the film.
THEOREM PlayerResources == MCSpec => []ResourcesSound
<1> DEFINE all == << part, vars, player, parser_file, reader >>
<1>1. MCInit => PlayerInv
  BY InitPlayerInv DEF MCInit
<1>2. PlayerInv /\ [MCNext]_all => PlayerInv'
  <2> SUFFICES ASSUME PlayerInv, [MCNext]_all PROVE [Control!Next]_player
    BY StepPlayerInv
  <2>1. CASE Threads
    BY <2>1 DEF Threads
  <2>2. CASE Controls
    BY <2>2 DEF Controls
  <2>3. CASE Parses
    BY <2>3 DEF Parses
  <2>4. CASE ReadsFile
    BY <2>4 DEF ReadsFile
  <2> QED
    BY <2>1, <2>2, <2>3, <2>4 DEF MCNext
<1>3. PlayerInv => ResourcesSound
  BY PlayerSound DEF ResourcesSound
<1> QED
  BY <1>1, <1>2, <1>3, PTL DEF MCSpec
=============================================================================
