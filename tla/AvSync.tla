------------------------------- MODULE AvSync -------------------------------
(* What the clock of the audio tells the display thread of the video player  *)
(* (avsync.c): the audio callback sets the time of the block it plays and,   *)
(* after the last one, lets the clock run on; the display thread sets the    *)
(* time of the field it is about to draw, reads both clocks back, each in a  *)
(* critical section of its own, and draws, waits or skips.  The clocks are   *)
(* compared in their low bits, as signed numbers.                            *)
EXTENDS Integers, Sequences

CONSTANTS Films,   \* what is played: the times of the blocks of sound and of the fields
          Half,    \* half the range of the stamps that are compared (2^31)
          MaxLead  \* bound: the display falls no further behind the sound, less than that half

VARIABLE sync
\* blocks, fields: the times of what is still to be played and shown
\* apts, vpts: ptsAudio and ptsVideo; audioValid, videoValid: bAudioValid, bVideoValid
\* pc:      where the display thread is
\* a, v:    what it read; since: the audio clock when it began to read
\* mode:    its last decision

AVSYNC_VDISP_INTERVAL == 1
AMIXER_CB_INCR_CLOCKS == 1
Low(t) == t % (2 * Half)
Signed(n) == LET m == n % (2 * Half) IN IF m >= Half THEN m - 2 * Half ELSE m

\* Both streams of a film are in order, and short of half the range, hours, apart.
Ordered(q) == \A i, j \in DOMAIN q : i <= j => q[i] <= q[j]
Playable(film) ==
  /\ film.blocks \in Seq(Nat) /\ Ordered(film.blocks)
  /\ film.fields \in Seq(Nat) /\ Ordered(film.fields)
  /\ \A i \in DOMAIN film.blocks, j \in DOMAIN film.fields :
       film.fields[j] - film.blocks[i] < Half /\ film.blocks[i] - film.fields[j] <= MaxLead

\* avsyncStart: stamps of zero that are not valid.
InitWith(film) ==
  sync = [blocks |-> film.blocks, fields |-> film.fields, apts |-> 0, vpts |-> 0,
          audioValid |-> FALSE, videoValid |-> FALSE, pc |-> "next", a |-> 0, v |-> 0, since |-> 0, mode |-> "none"]
Init == \E film \in Films : InitWith(film)

\* amixerCb sets the clock to the block that plays; blocks come when they come.
PlayBlock ==
  /\ sync.blocks # << >>
  /\ sync' = [sync EXCEPT !.apts = Head(sync.blocks), !.audioValid = TRUE, !.blocks = Tail(@)]
\* A requested stop, once the queue is empty, lets the clock go on from the last block.
RunOn ==
  /\ sync.blocks = << >> /\ sync.audioValid
  /\ sync.fields # << >> /\ sync.apts - Head(sync.fields) < MaxLead
  /\ sync' = [sync EXCEPT !.apts = @ + AMIXER_CB_INCR_CLOCKS]
Callback == PlayBlock \/ RunOn

\* The display thread, for the field at the head of its queue.
SetVpts ==
  /\ sync.pc = "next" /\ sync.fields # << >>
  /\ sync' = [sync EXCEPT !.vpts = Head(sync.fields), !.videoValid = TRUE, !.pc = "valid"]
Valid ==
  /\ sync.pc = "valid"
  /\ sync' = [sync EXCEPT !.pc = IF sync.audioValid /\ sync.videoValid THEN "audio" ELSE "decided",
                          !.mode = IF sync.audioValid /\ sync.videoValid THEN @ ELSE "normal", !.since = sync.apts]
GetApts ==
  /\ sync.pc = "audio"
  /\ sync' = [sync EXCEPT !.a = Low(sync.apts), !.pc = "video"]
GetVpts ==
  /\ sync.pc = "video"
  /\ sync' = [sync EXCEPT !.v = Low(sync.vpts), !.pc = "compare"]
Compared_Unsigned(a, v) ==
  IF a - v \in -AVSYNC_VDISP_INTERVAL .. AVSYNC_VDISP_INTERVAL THEN "normal" ELSE IF a > v THEN "skip" ELSE "wait"
Compared(a, v) ==
  LET diff == Signed(a - v)
  IN IF diff \in -AVSYNC_VDISP_INTERVAL .. AVSYNC_VDISP_INTERVAL THEN "normal"
     ELSE IF diff > AVSYNC_VDISP_INTERVAL THEN "skip" ELSE "wait"
Compare ==
  /\ sync.pc = "compare"
  /\ sync' = [sync EXCEPT !.mode = Compared(sync.a, sync.v), !.pc = "decided"]

\* A field that is drawn or skipped leaves the queue, one that waits is looked at again.
Show ==
  /\ sync.pc = "decided"
  /\ sync' = [sync EXCEPT !.pc = "next", !.fields = IF sync.mode = "wait" THEN @ ELSE Tail(@)]
Display == SetVpts \/ Valid \/ GetApts \/ GetVpts \/ Compare \/ Show

Next == Callback \/ Display
-----------------------------------------------------------------------------
\* Each decision is right for a time the audio clock showed while it was made: a field
\* is skipped only if it was late, held back only if it was early, drawn only within the
\* interval or when there is no sound, also when the low bits of one stamp have wrapped
\* and those of the other have not.
DecisionRight ==
  sync.pc = "decided" /\ sync.audioValid /\ sync.mode # "none" =>
    \/ sync.mode = "normal" /\ sync.since = 0
    \/ \E t \in sync.since .. sync.apts :
         sync.mode = CASE t - sync.vpts > AVSYNC_VDISP_INTERVAL -> "skip"
                       [] sync.vpts - t > AVSYNC_VDISP_INTERVAL -> "wait" [] OTHER -> "normal"

\* No field waits for ever, not even one later than the end of the sound.
FieldsShown == <>(sync.fields = << >>)
=============================================================================
