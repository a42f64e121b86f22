------------------------------ MODULE VideoOut ------------------------------
(***************************************************************************)
(* The output half of the video player, video/vpost.c and video/vdisp.c.   *)
(*                                                                         *)
(* The post-processing thread (vpost) takes decoded pictures, converts     *)
(* each of their fields into a frame of a pool and queues it; the display  *)
(* thread (vdisp) waits until FrameNum frames are queued, shows them at    *)
(* the pace of the audio clock and returns them to the pool.  Each thread  *)
(* sleeps on a monitor of its own until a callback sets its receive        *)
(* status.  An error of any thread, or the end of background video, clears *)
(* MODE_EXEC and signals every monitor without holding its mutex.          *)
(***************************************************************************)
EXTENDS Integers, Sequences, FiniteSets

CONSTANTS
  FrameNum,    \* frames of the pool, and of the queue
  Pictures,    \* pictures of the stream
  FieldsUpTo,  \* FieldsUpTo[n]: fields of its first n pictures, one or two of each
  Presentation,\* how often a field is shown (prsnNum)
  MaxAhead,    \* pictures the decoder keeps for vpost
  MaxWait      \* bound: times a field is held back by the audio clock

ASSUME VideoOutAssumption ==
  /\ FrameNum \in Nat \ {0}
  /\ Pictures \in Nat \ {0} /\ FieldsUpTo \in [0 .. Pictures -> Nat] /\ FieldsUpTo[0] = 0
  /\ \A n \in 1 .. Pictures : FieldsUpTo[n] - FieldsUpTo[n - 1] \in {1, 2}
  /\ \A m, n \in 0 .. Pictures : m <= n => FieldsUpTo[m] <= FieldsUpTo[n]
  /\ Presentation \in Nat \ {0} /\ MaxAhead \in Nat \ {0} /\ MaxWait \in Nat

Fields(n) == FieldsUpTo[n] - FieldsUpTo[n - 1]
Total == FieldsUpTo[Pictures]
Frame == 1 .. FrameNum
NoFrame == 0

VARIABLES
  mode,                  \* MODE_EXEC of the player
  video_ready, video_end,\* STATUS_READY, STATUS_END of the video
  audio_ready,           \* STATUS_READY of the audio
  decoded, told, seqdone,\* the decoder: pictures made, announced, and the end announced
  taken,                 \* pictures vpost has fetched
  vpost, recvP, thrP,    \* vpost: position, receive status, thread status
  todo, made, hand,      \* fields left of its picture, fields queued, frame in hand
  vdisp, recvD, thrD,    \* the same of vdisp
  last, waited, skipping,\* frame shown before, waits for the head, reason of the swap
  pool, queue,           \* pFrameBuf
  data,                  \* the field each frame holds
  cFrame, shown,         \* the frame on display, and the field it held when drawn
  released,              \* history: the frame on display went back to the pool
  drained,               \* history: fields the starting vdisp threw away
  slept                  \* history: a thread was about to sleep when it was told to end

common == << mode, video_ready, video_end, audio_ready >>
decoder == << decoded, told, seqdone >>
post == << taken, vpost, recvP, thrP, todo, made, hand >>
disp == << vdisp, recvD, thrD, last, waited, skipping >>
display == << cFrame, shown, released >>
frames == << pool, queue, data >>
vars == << common, decoder, post, disp, display, frames, drained, slept >>

Status == [pic : BOOLEAN, seq : BOOLEAN]
Started == [pic |-> FALSE, seq |-> TRUE]

Init ==
  /\ mode = TRUE /\ video_ready = FALSE /\ video_end = FALSE /\ audio_ready = FALSE
  /\ decoded = 0 /\ told = 0 /\ seqdone = FALSE
  /\ taken = 0 /\ vpost = "wait" /\ recvP = Started /\ thrP = Started
  /\ todo = 0 /\ made = 0 /\ hand = NoFrame
  /\ vdisp = "drain" /\ recvD = Started /\ thrD = Started
  /\ last = NoFrame /\ waited = 0 /\ skipping = FALSE
  /\ pool = [i \in 1 .. FrameNum |-> i] /\ queue = << >>
  /\ data = [f \in Frame |-> 0]
  /\ cFrame = NoFrame /\ shown = 0 /\ released = FALSE /\ drained = 0 /\ slept = FALSE

-----------------------------------------------------------------------------
(***************************************************************************)
(* Monitors.  A thread at "going" has decided to sleep and still holds the *)
(* mutex of its monitor, so whoever locks it has to wait; a signal given   *)
(* without the mutex finds nobody asleep yet.                              *)
(***************************************************************************)

Woken(pc) == IF pc = "asleep" THEN "wait" ELSE pc

\* vpostPictureOutCb and vpostSeqEndCb, vdispPictureOutCb and vdispSeqEndCb.
TellVpost(status) == vpost # "going" /\ recvP' = status /\ vpost' = Woken(vpost)

\* Wrong variant: the status is set, but nobody is signalled.
TellVdisp_NoSignal(status) == vdisp # "going" /\ recvD' = status /\ UNCHANGED vdisp

TellVdisp(status) == vdisp # "going" /\ recvD' = status /\ vdisp' = Woken(vdisp)

\* commonErrorExit: only the first caller clears MODE_EXEC and signals.
ErrorExit(post_pc, disp_pc) ==
  /\ mode' = FALSE
  /\ vpost' = IF mode THEN Woken(post_pc) ELSE post_pc
  /\ vdisp' = IF mode THEN Woken(disp_pc) ELSE disp_pc
  /\ slept' = (slept \/ (mode /\ "going" \in {post_pc, disp_pc}))

-----------------------------------------------------------------------------
(***************************************************************************)
(* The world around: decoder, audio, whoever stops the player              *)
(***************************************************************************)

PictureDecoded ==
  /\ decoded < Pictures /\ decoded - taken < MaxAhead
  /\ decoded' = decoded + 1
  /\ UNCHANGED << common, told, seqdone, post, disp, display, frames, drained, slept >>

PictureOut ==
  /\ told < decoded
  /\ told' = told + 1
  /\ TellVpost([recvP EXCEPT !.pic = TRUE])
  /\ UNCHANGED << common, decoded, seqdone, taken, thrP, todo, made, hand, disp, display,
                  frames, drained, slept >>

SequenceDone ==
  /\ told = Pictures /\ ~seqdone
  /\ seqdone' = TRUE
  /\ TellVpost([pic |-> TRUE, seq |-> FALSE])
  /\ UNCHANGED << common, decoded, told, taken, thrP, todo, made, hand, disp, display,
                  frames, drained, slept >>

AudioReady ==
  /\ ~audio_ready /\ audio_ready' = TRUE
  /\ UNCHANGED << mode, video_ready, video_end, decoder, post, disp, display, frames, drained, slept >>

\* Another thread fails, or the system callback finds is_bg_video cleared.
Stop ==
  /\ mode
  /\ ErrorExit(vpost, vdisp)
  /\ UNCHANGED << video_ready, video_end, audio_ready, decoder, taken, recvP, thrP, todo, made,
                  hand, recvD, thrD, last, waited, skipping, display, frames, drained >>

-----------------------------------------------------------------------------
(***************************************************************************)
(* vpost                                                                   *)
(***************************************************************************)

vpostOnly == << common, decoder, disp, display, drained, slept >>

\* vpostWaitEvent: what the thread did not consume counts as received again.
VpostWait ==
  LET pic == recvP.pic \/ thrP.pic
  IN /\ vpost = "wait"
     /\ IF mode /\ ~pic
          THEN vpost' = "going" /\ recvP' = [recvP EXCEPT !.pic = pic] /\ UNCHANGED thrP
          ELSE /\ vpost' = IF mode THEN "fetch" ELSE "ended"
               /\ thrP' = [recvP EXCEPT !.pic = pic]
               /\ recvP' = [recvP EXCEPT !.pic = FALSE]
     /\ UNCHANGED << vpostOnly, taken, todo, made, hand, frames >>

VpostSleep ==
  /\ vpost = "going" /\ vpost' = "asleep"
  /\ UNCHANGED << vpostOnly, taken, recvP, thrP, todo, made, hand, frames >>

\* cellVdecGetPicItem and cellVdecGetPicture: the fields of the next picture.
VpostFetch ==
  /\ vpost = "fetch" /\ taken < decoded
  /\ taken' = taken + 1
  /\ \/ vpost' = "pop" /\ todo' = Fields(taken + 1)
     \/ vpost' = "error" /\ UNCHANGED todo
  /\ UNCHANGED << vpostOnly, recvP, thrP, made, hand, frames >>

Empty == taken = decoded

\* Wrong variant: the end of the sequence counts although pictures are left.
SequenceOver_AtOnce == ~thrP.seq

SequenceOver == Empty /\ ~thrP.seq

\* The decoder has no picture: wait for one.
VpostEmpty ==
  /\ vpost = "fetch" /\ Empty /\ ~SequenceOver
  /\ vpost' = "wait" /\ thrP' = [thrP EXCEPT !.pic = FALSE]
  /\ UNCHANGED << vpostOnly, taken, recvP, todo, made, hand, frames >>

\* No picture is left and the sequence is over: tell vdisp, and end.
VpostOver ==
  /\ vpost = "fetch" /\ SequenceOver
  /\ TellVdisp([pic |-> TRUE, seq |-> FALSE])
  /\ vpost' = "ended" /\ thrP' = [thrP EXCEPT !.pic = FALSE]
  /\ UNCHANGED << common, decoder, taken, recvP, todo, made, hand, thrD, last, waited, skipping,
                  display, frames, drained, slept >>

\* utilMemPoolPop, which waits for a frame.
VpostPop ==
  /\ vpost = "pop" /\ pool # << >>
  /\ hand' = pool[Len(pool)] /\ pool' = SubSeq(pool, 1, Len(pool) - 1)
  /\ vpost' = "exec"
  /\ UNCHANGED << vpostOnly, taken, recvP, thrP, todo, made, queue, data >>

\* Wrong variants: the frame is forgotten; the head of the queue goes back instead.
GiveBack_Nothing(f) == UNCHANGED pool
GiveBack_Head(f) == pool' = Append(pool, IF queue # << >> THEN Head(queue).frame ELSE f)

\* utilMemPoolPush
GiveBack(f) == pool' = Append(pool, f)

\* cellVpostExec writes the field into the frame; a failure gives the frame back.
VpostExec ==
  /\ vpost = "exec"
  /\ \/ /\ data' = [data EXCEPT ![hand] = made + 1]
        /\ vpost' = "push" /\ UNCHANGED << hand, pool >>
     \/ /\ GiveBack(hand) /\ hand' = NoFrame
        /\ vpost' = "error" /\ UNCHANGED data
  /\ UNCHANGED << vpostOnly, taken, recvP, thrP, todo, made, queue >>

VpostPush ==
  /\ vpost = "push" /\ Len(queue) < FrameNum
  /\ queue' = Append(queue, [frame |-> hand, prsn |-> Presentation, valid |-> TRUE])
  /\ made' = made + 1 /\ todo' = todo - 1 /\ hand' = NoFrame
  /\ vpost' = "tell"
  /\ UNCHANGED << vpostOnly, taken, recvP, thrP, pool, data >>

VpostTell ==
  /\ vpost = "tell"
  /\ TellVdisp([recvD EXCEPT !.pic = TRUE])
  /\ vpost' = IF todo > 0 THEN "pop" ELSE "wait"
  /\ UNCHANGED << common, decoder, taken, recvP, thrP, todo, made, hand, thrD, last, waited,
                  skipping, display, frames, drained, slept >>

VpostError ==
  /\ vpost = "error"
  /\ ErrorExit("ended", vdisp)
  /\ UNCHANGED << video_ready, video_end, audio_ready, decoder, taken, recvP, thrP, todo, made,
                  hand, recvD, thrD, last, waited, skipping, display, frames, drained >>

-----------------------------------------------------------------------------
(***************************************************************************)
(* vdisp                                                                   *)
(***************************************************************************)

vdispOnly == << mode, audio_ready, decoder, taken, recvP, thrP, todo, made, hand, data, slept >>

\* utilQueuePop takes the monitor of vpost, and signals it.
PopQueue == queue # << >> /\ vpost # "going" /\ queue' = Tail(queue) /\ vpost' = Woken(vpost)

\* The thread starts: what the queue holds goes back to the pool.
VdispDrain ==
  /\ vdisp = "drain"
  /\ IF queue # << >>
       THEN /\ PopQueue /\ GiveBack(Head(queue).frame)
            /\ drained' = drained + 1 /\ UNCHANGED vdisp
       ELSE vdisp' = "wait" /\ UNCHANGED << vpost, pool, queue, drained >>
  /\ UNCHANGED << vdispOnly, video_ready, video_end, recvD, thrD, last, waited, skipping, display >>

VdispWait ==
  LET pic == recvD.pic \/ thrD.pic
  IN /\ vdisp = "wait"
     /\ IF mode /\ ~pic
          THEN vdisp' = "going" /\ recvD' = [recvD EXCEPT !.pic = pic] /\ UNCHANGED thrD
          ELSE /\ vdisp' = IF mode THEN "ready" ELSE "end"
               /\ thrD' = [recvD EXCEPT !.pic = pic]
               /\ recvD' = [recvD EXCEPT !.pic = FALSE]
     /\ UNCHANGED << vdispOnly, vpost, pool, queue, video_ready, video_end, last, waited, skipping,
                     display, drained >>

VdispSleep ==
  /\ vdisp = "going" /\ vdisp' = "asleep"
  /\ UNCHANGED << vdispOnly, vpost, pool, queue, video_ready, video_end, recvD, thrD, last, waited,
                  skipping, display, drained >>

\* The video becomes READY once when the queue has been full.
VdispReady ==
  /\ vdisp = "ready" /\ (video_ready \/ vpost # "going")
  /\ video_ready' = (video_ready \/ Len(queue) >= FrameNum)
  /\ thrD' = [thrD EXCEPT !.pic = @ /\ video_ready']
  /\ vdisp' = "show"
  /\ UNCHANGED << vdispOnly, vpost, pool, queue, video_end, recvD, last, waited, skipping, display, drained >>

Showing == vdisp = "show" /\ thrD.pic /\ video_ready /\ audio_ready

\* vdispDrawTexture
Draw(f) == cFrame' = f /\ shown' = data[f] /\ released' = FALSE
DrawLast == IF last # NoFrame THEN Draw(last) ELSE UNCHANGED display

VdispNotYet ==
  /\ vdisp = "show" /\ ~Showing
  /\ vdisp' = "wait"
  /\ UNCHANGED << vdispOnly, vpost, pool, queue, video_ready, video_end, recvD, thrD, last, waited,
                  skipping, display, drained >>

\* The queue is empty: keep the last frame, and end after the last one.
VdispNothing ==
  /\ Showing /\ queue = << >> /\ vpost # "going"
  /\ DrawLast
  /\ thrD' = [thrD EXCEPT !.pic = FALSE]
  /\ IF thrD.seq THEN vdisp' = "wait" /\ UNCHANGED video_end
                 ELSE vdisp' = "end" /\ video_end' = TRUE
  /\ UNCHANGED << vdispOnly, vpost, pool, queue, video_ready, recvD, last, waited, skipping, drained >>

\* Wrong variant: the count is tested before it is decreased.
LastTime_PostDecrement(entry) == entry.prsn < 1

LastTime(entry) == entry.prsn <= 1

ShownOnce(entry) == [entry EXCEPT !.prsn = @ - 1, !.valid = FALSE]

\* AVSYNC_VDISP_MODE_NORMAL, also taken when the pts of the field was used before.
VdispNormal ==
  /\ Showing /\ queue # << >> /\ vpost # "going"
  /\ Draw(Head(queue).frame)
  /\ IF LastTime(Head(queue))
       THEN vdisp' = "swap" /\ UNCHANGED queue
       ELSE /\ vdisp' = "wait"
            /\ queue' = [queue EXCEPT ![1] = ShownOnce(@)]
  /\ waited' = 0 /\ skipping' = FALSE
  /\ UNCHANGED << vdispOnly, vpost, pool, video_ready, video_end, recvD, thrD, last, drained >>

\* AVSYNC_VDISP_MODE_WAIT: the field is ahead of the audio.
VdispHold ==
  /\ Showing /\ queue # << >> /\ vpost # "going" /\ Head(queue).valid /\ waited < MaxWait
  /\ DrawLast
  /\ vdisp' = "wait" /\ waited' = waited + 1
  /\ UNCHANGED << vdispOnly, vpost, pool, queue, video_ready, video_end, recvD, thrD, last, skipping, drained >>

\* AVSYNC_VDISP_MODE_SKIP: the field is behind the audio.
VdispSkip ==
  /\ Showing /\ queue # << >> /\ vpost # "going" /\ Head(queue).valid
  /\ vdisp' = "swap" /\ skipping' = TRUE /\ waited' = 0
  /\ UNCHANGED << vdispOnly, vpost, pool, queue, video_ready, video_end, recvD, thrD, last, display, drained >>

\* The frame shown before goes back to the pool ...
VdispSwap ==
  /\ vdisp = "swap"
  /\ IF last # NoFrame THEN GiveBack(last) ELSE UNCHANGED pool
  /\ released' = (released \/ (skipping /\ last # NoFrame /\ last = cFrame))
  /\ vdisp' = "take"
  /\ UNCHANGED << vdispOnly, vpost, queue, video_ready, video_end, recvD, thrD, last, waited,
                  skipping, cFrame, shown, drained >>

\* ... and the head of the queue takes its place.
VdispTake ==
  /\ vdisp = "take"
  /\ PopQueue /\ last' = Head(queue).frame
  /\ vdisp' = "wait"
  /\ UNCHANGED << vdispOnly, pool, video_ready, video_end, recvD, thrD, waited, skipping, display, drained >>

\* The thread ends: its frame and the queue go back to the pool.
VdispEnd ==
  /\ vdisp = "end"
  /\ IF last # NoFrame THEN GiveBack(last) ELSE UNCHANGED pool
  /\ last' = NoFrame /\ vdisp' = "flush"
  /\ UNCHANGED << vdispOnly, vpost, queue, video_ready, video_end, recvD, thrD, waited, skipping,
                  display, drained >>

VdispFlush ==
  /\ vdisp = "flush"
  /\ IF queue # << >>
       THEN PopQueue /\ GiveBack(Head(queue).frame) /\ UNCHANGED vdisp
       ELSE vdisp' = "ended" /\ UNCHANGED << vpost, pool, queue >>
  /\ UNCHANGED << vdispOnly, video_ready, video_end, recvD, thrD, last, waited, skipping, display, drained >>

-----------------------------------------------------------------------------
Decoder == PictureDecoded \/ PictureOut \/ SequenceDone

Vpost == VpostWait \/ VpostSleep \/ VpostFetch \/ VpostEmpty \/ VpostOver \/ VpostPop
         \/ VpostExec \/ VpostPush \/ VpostTell \/ VpostError

Vdisp == VdispDrain \/ VdispWait \/ VdispSleep \/ VdispReady \/ VdispNotYet \/ VdispNothing
         \/ VdispNormal \/ VdispHold \/ VdispSkip \/ VdispSwap \/ VdispTake \/ VdispEnd \/ VdispFlush

Next == Decoder \/ AudioReady \/ Stop \/ Vpost \/ Vdisp

Spec == Init /\ [][Next]_vars

\* Every thread runs, the decoder decodes the stream and the audio becomes ready;
\* nobody has to stop the player.
FairSpec ==
  Spec /\ WF_vars(Decoder) /\ WF_vars(AudioReady) /\ WF_vars(Vpost) /\ WF_vars(Vdisp)

-----------------------------------------------------------------------------
TypeOK ==
  /\ mode \in BOOLEAN /\ video_ready \in BOOLEAN /\ video_end \in BOOLEAN /\ audio_ready \in BOOLEAN
  /\ decoded \in 0 .. Pictures /\ told \in 0 .. decoded /\ taken \in 0 .. decoded /\ seqdone \in BOOLEAN
  /\ vpost \in {"wait", "going", "asleep", "fetch", "pop", "exec", "push", "tell", "error", "ended"}
  /\ vdisp \in {"drain", "wait", "going", "asleep", "ready", "show", "swap", "take", "end", "flush", "ended"}
  /\ {recvP, thrP, recvD, thrD} \subseteq Status
  /\ todo \in 0 .. 2 /\ made \in 0 .. Total /\ hand \in Frame \cup {NoFrame}
  /\ last \in Frame \cup {NoFrame} /\ waited \in 0 .. MaxWait /\ skipping \in BOOLEAN
  /\ pool \in Seq(Frame) /\ Len(pool) <= FrameNum
  /\ queue \in Seq([frame : Frame, prsn : 1 .. Presentation, valid : BOOLEAN]) /\ Len(queue) <= FrameNum
  /\ data \in [Frame -> 0 .. Total]
  /\ cFrame \in Frame \cup {NoFrame} /\ shown \in 0 .. Total
  /\ released \in BOOLEAN /\ drained \in 0 .. Total /\ slept \in BOOLEAN

\* Where each frame is: vdisp holds its last frame until it has given it back.
Holders(f) ==
  Cardinality({ i \in DOMAIN pool : pool[i] = f }) + Cardinality({ i \in DOMAIN queue : queue[i].frame = f })
  + (IF hand = f THEN 1 ELSE 0) + (IF last = f /\ vdisp # "take" THEN 1 ELSE 0)

\* No frame is ever lost or in two places, whatever error or stop comes in between.
FramesConserved == \A f \in Frame : Holders(f) = 1

\* The frame on display is not written while it is there, unless a skip has given it
\* back to the pool or the display thread has ended.
ShownIntact ==
  cFrame # NoFrame /\ ~released /\ vdisp \notin {"flush", "ended"} =>
    data[cFrame] = shown /\ ~(vpost = "exec" /\ hand = cFrame)

\* Apart from the types, no frame is lost or in two places, and the one on display is not
\* written while it is there.
FramesSound == TypeOK /\ FramesConserved /\ ShownIntact

\* The player ends, by itself or when it is stopped, except that a thread may sleep
\* through the order to end, and a stream that never fills the queue never starts.
PlayerEnds == <>((vpost = "ended" /\ vdisp = "ended") \/ slept \/ Total - drained < FrameNum)

\* The fields pass in order, and a sequence that ends as complete has shown or skipped
\* every one of them.
P == INSTANCE Playback WITH
       converted <- made, passed <- made - Len(queue), shown <- shown,
       outcome <- IF video_end THEN "complete" ELSE IF vdisp = "ended" THEN "stopped" ELSE "playing"

Implements == P!Spec
=============================================================================
