--------------------------- MODULE PlayerControl ---------------------------
(***************************************************************************)
(* The thread of the video player (source/video/video.c): it opens the     *)
(* film and the modules, plays the film again and again, each time         *)
(* starting the threads of the modules and joining them, and closes what   *)
(* it opened.  The main loop starts it and closes it, and the system tells *)
(* it when the program has to end.                                         *)
(***************************************************************************)
EXTENDS Integers, Sequences, FiniteSets, SequencesExt

CONSTANT MaxPlays     \* bound: players started one after the other, and films repeated

VARIABLES
  is_bg_video, plays,
  phase, step,      \* the thread: the list it works through, and the next item of it
  ret,              \* the result of the last call: "ok" or "error"
  mode_exec, commonError,     \* the common module: an error was told to all threads
  runs,             \* by module with a thread: "no", "yes", and then its result
  held,             \* by module: what it has acquired and not released
  repeats,
  fault,            \* history: a module could not be opened or closed
  unjoined          \* history: the threads that were left when a sequence broke off

vars == << is_bg_video, plays, phase, step, ret, mode_exec, commonError, runs, held,
           repeats, fault, unjoined >>

-----------------------------------------------------------------------------
\* playSequence: the order in which the modules are started, and joined.
Start == << "vdisp", "vpost", "vdec", "amixer", "apost", "adec", "dmux" >>
JoinOrder_WithoutPost == << "dmux", "adec", "apost", "amixer", "vdec", "vdisp" >>
JoinOrder == << "dmux", "adec", "apost", "amixer", "vdec", "vpost", "vdisp" >>

\* What the modules acquire when they are opened, in this order.  amixer has no thread of its
\* own: the mixer library calls it back from when it is started until it has played everything.
commonOpen      == << "sysmodule", "callback", "mutex" >>
aviDmuxOpen     == << "monitor", "file", "index" >>
videoEnableEs   == << "auinfo", "aubuffer", "monitor", "queues" >>
audioEnableEs   == << "auinfo", "aubuffer", "parsebuffer", "monitor", "queues" >>
avsyncOpen      == << "mutex" >>
vdispOpen       == << "monitor" >>
amixerOpen      == << "buffer", "monitor", "mixer" >>
vpostOpen       == << "prx", "monitor", "pool", "queue", "map", "frame", "memory", "handle" >>
apostOpen       == << "monitor", "pool", "queue" >>
vdecOpen        == << "prx", "monitor", "memory", "handle" >>
adecOpen        == << "prx", "monitor", "memory", "handle" >>

\* What they release when they are closed.
commonClose     == {"mutex", "callback", "sysmodule"}
aviDmuxClose    == {"file", "index", "monitor"}
aviDmuxDisableEs == {"queues", "monitor", "parsebuffer", "auinfo", "aubuffer"}
avsyncClose     == {"mutex"}
vdispClose      == {"monitor"}
amixerClose     == {"mixer", "buffer", "monitor"}
vpostClose      == {"pool", "map", "queue", "monitor", "handle", "memory", "frame", "prx"}
apostClose      == {"pool", "queue", "monitor"}
vdecClose       == {"handle", "memory", "monitor", "prx"}
adecClose       == {"handle", "memory", "monitor", "prx"}

Acquires == [common |-> commonOpen, dmux |-> aviDmuxOpen, video |-> videoEnableEs,
             audio |-> audioEnableEs, avsync |-> avsyncOpen, vdisp |-> vdispOpen,
             amixer |-> amixerOpen, vpost |-> vpostOpen, apost |-> apostOpen,
             vdec |-> vdecOpen, adec |-> adecOpen]
Releases == [common |-> commonClose, dmux |-> aviDmuxClose, video |-> aviDmuxDisableEs,
             audio |-> aviDmuxDisableEs, avsync |-> avsyncClose, vdisp |-> vdispClose,
             amixer |-> amixerClose, vpost |-> vpostClose, apost |-> apostClose,
             vdec |-> vdecClose, adec |-> adecClose]

\* What a failing open gives back: aviDmuxEnableEs its buffers, vpostOpen, vdecOpen and
\* adecOpen the library and the memory, the others nothing.
GivesBack == [m \in DOMAIN Acquires |->
  CASE m \in {"video", "audio"} -> {"auinfo", "aubuffer", "parsebuffer"}
    [] m \in {"vpost", "vdec", "adec"} -> {"prx", "frame", "memory"}
    [] OTHER -> {}]

\* The stream buffers are opened with the streams of the film: aviDmuxEnableEs.
OpenOrder == << "common", "dmux", "video", "audio", "avsync", "vdisp", "amixer", "vpost", "apost",
                "vdec", "adec" >>
CloseOrder_WithoutMixer == << "adec", "vdec", "apost", "vpost", "vdisp", "avsync", "audio",
                              "video" >>
CloseOrder == << "adec", "vdec", "apost", "vpost", "amixer", "vdisp", "avsync", "audio", "video" >>
\* closeAvi and commonClose, whatever closeModules returned.
LastOrder == << "dmux", "common" >>

Module == DOMAIN Acquires
Threaded == ToSet(Start)

Init ==
  /\ is_bg_video = FALSE /\ plays = 0 /\ phase = "none" /\ step = 1 /\ ret = "ok"
  /\ mode_exec = FALSE /\ commonError = FALSE /\ runs = [m \in Threaded |-> "no"]
  /\ held = [m \in Module |-> {}] /\ repeats = 0
  /\ fault = FALSE /\ unjoined = {}

\* main_video.  Bound: the main loop starts a player only when the last one has ended.
MainVideo ==
  /\ ~is_bg_video /\ phase \in {"none", "gone"} /\ plays < MaxPlays
  /\ is_bg_video' = TRUE /\ plays' = plays + 1
  /\ phase' = "open" /\ step' = 1 /\ ret' = "ok" /\ repeats' = 0
  /\ UNCHANGED << mode_exec, commonError, runs, held, fault, unjoined >>

\* The main loop, or the end of the program (unload_modules), closes the player.
Close ==
  /\ is_bg_video /\ is_bg_video' = FALSE
  /\ UNCHANGED << plays, phase, step, ret, mode_exec, commonError, runs, held, repeats,
                  fault, unjoined >>

\* commonErrorExit, which every thread looks at.
ErrorExit == mode_exec' = FALSE /\ commonError' = (commonError \/ mode_exec)

\* commonSysutilCb, as long as it is registered: the program is asked to end, and is_bg_video
\* stays as it is; or something else is told after the player was closed.
SysutilCb ==
  /\ "callback" \in held["common"] /\ ErrorExit
  /\ UNCHANGED << is_bg_video, plays, phase, step, ret, runs, held, repeats, fault, unjoined >>

thread == << runs, mode_exec, commonError >>

\* The thread goes on with the next item, or with list p.
NextItem == step' = step + 1 /\ UNCHANGED phase
Goes(p) == phase' = p /\ step' = 1

-----------------------------------------------------------------------------
\* commonOpen, openAvi, openModules.
Open ==
  LET m == OpenOrder[step] IN
  /\ phase = "open" /\ step <= Len(OpenOrder) /\ NextItem
  /\ held' = [held EXCEPT ![m] = ToSet(Acquires[m])]
  /\ UNCHANGED << is_bg_video, plays, ret, thread, repeats, fault, unjoined >>

\* It fails when k things are acquired; the thread ends without closing anything.
OpenFails ==
  LET m == OpenOrder[step] IN
  /\ phase = "open" /\ step <= Len(OpenOrder) /\ Goes("end") /\ ret' = "error" /\ fault' = TRUE
  /\ \E k \in 0 .. Len(Acquires[m]) - 1 :
       held' = [held EXCEPT ![m] = ToSet(SubSeq(Acquires[m], 1, k)) \ GivesBack[m]]
  /\ UNCHANGED << is_bg_video, plays, thread, repeats, unjoined >>

\* The resolution of the display, the streams of the film or the parameters are refused:
\* vdispGetResolution, aviDmuxFindVideoStream, setParamModules.
ParamFails ==
  /\ phase = "open" /\ step \in {2, 3} /\ Goes("end") /\ ret' = "error" /\ fault' = TRUE
  /\ UNCHANGED << is_bg_video, plays, thread, held, repeats, unjoined >>

Opened ==
  /\ phase = "open" /\ step > Len(OpenOrder) /\ Goes("start")
  /\ UNCHANGED << is_bg_video, plays, ret, thread, held, repeats, fault, unjoined >>

-----------------------------------------------------------------------------
\* playSequence.  commonStart and avsyncStart come before the first thread.
StartModule ==
  /\ phase = "start" /\ step <= Len(Start) /\ NextItem
  /\ runs' = [runs EXCEPT ![Start[step]] = "yes"]
  /\ mode_exec' = (mode_exec \/ step = 1) /\ commonError' = (commonError /\ step # 1)
  /\ UNCHANGED << is_bg_video, plays, ret, held, repeats, fault, unjoined >>

\* The sequence breaks off, with threads that run.
Breaks ==
  /\ Goes("close") /\ ret' = "error"
  /\ unjoined' = unjoined \cup { m \in Threaded : runs[m] # "no" }

StartFails ==
  /\ phase = "start" /\ step <= Len(Start) /\ Breaks
  /\ UNCHANGED << is_bg_video, plays, thread, held, repeats, fault >>

Started ==
  /\ phase = "start" /\ step > Len(Start) /\ Goes("join")
  /\ UNCHANGED << is_bg_video, plays, ret, thread, held, repeats, fault, unjoined >>

\* A thread ends: at the end of the film, when it is told to, or with an error of its own,
\* which it tells the others.
EndsThread(m) ==
  /\ runs[m] = "yes" /\ runs' = [runs EXCEPT ![m] = "ok"]
  /\ UNCHANGED << is_bg_video, plays, phase, step, ret, mode_exec, commonError, held,
                  repeats, fault, unjoined >>

FailsThread(m) ==
  /\ runs[m] = "yes" /\ m # "amixer" /\ runs' = [runs EXCEPT ![m] = "error"]
  /\ ErrorExit
  /\ UNCHANGED << is_bg_video, plays, phase, step, ret, held, repeats, fault, unjoined >>

\* A module is joined; its result is that of the call, and the sequence breaks off on an
\* error although the other threads are not joined.
Join ==
  LET m == JoinOrder[step] IN
  /\ phase = "join" /\ step <= Len(JoinOrder) /\ runs[m] \in {"ok", "error"}
  /\ runs' = [runs EXCEPT ![m] = "no"]
  /\ IF runs[m] = "ok" THEN NextItem /\ UNCHANGED << ret, unjoined >>
     ELSE /\ Goes("close") /\ ret' = "error"
          /\ unjoined' = unjoined \cup { n \in Threaded \ {m} : runs[n] # "no" }
  /\ UNCHANGED << is_bg_video, plays, mode_exec, commonError, held, repeats, fault >>

\* The film begins again, unless a thread has told of an error.  Bound: MaxPlays times.
Repeat_Never ==
  /\ phase = "join" /\ step > Len(JoinOrder) /\ Goes("close")
  /\ UNCHANGED << is_bg_video, plays, ret, thread, held, fault, unjoined, repeats >>

Repeat ==
  /\ phase = "join" /\ step > Len(JoinOrder)
  /\ IF commonError THEN Goes("close") /\ UNCHANGED repeats
     ELSE repeats < MaxPlays /\ repeats' = repeats + 1 /\ Goes("start")
  /\ UNCHANGED << is_bg_video, plays, ret, thread, held, fault, unjoined >>

-----------------------------------------------------------------------------
\* closeModules ends at the first module that cannot be closed; closeAvi and commonClose
\* follow all the same.
Closing == IF phase = "close" THEN CloseOrder ELSE LastOrder

\* aviDmuxClose also closes the streams that are still open.
Closes(m) == IF m = "dmux" THEN {"dmux", "video", "audio"} ELSE {m}

CloseModule ==
  /\ phase \in {"close", "last"} /\ step <= Len(Closing) /\ NextItem
  /\ held' = [m \in Module |-> IF m \in Closes(Closing[step]) THEN held[m] \ Releases[m] ELSE held[m]]
  /\ UNCHANGED << is_bg_video, plays, ret, thread, repeats, fault, unjoined >>

CloseFails ==
  /\ phase \in {"close", "last"} /\ step <= Len(Closing)
  /\ fault' = TRUE /\ ret' = "error"
  /\ IF phase = "close" THEN Goes("last") ELSE NextItem
  /\ UNCHANGED << is_bg_video, plays, thread, held, repeats, unjoined >>

Closed ==
  /\ phase \in {"close", "last"} /\ step > Len(Closing)
  /\ Goes(IF phase = "close" THEN "last" ELSE "end")
  /\ UNCHANGED << is_bg_video, plays, ret, thread, held, repeats, fault, unjoined >>

\* end_video.
EndVideo ==
  /\ phase = "end" /\ Goes("gone") /\ is_bg_video' = FALSE
  /\ UNCHANGED << plays, ret, thread, held, repeats, fault, unjoined >>

Player == \/ Open \/ OpenFails \/ ParamFails \/ Opened \/ StartModule \/ StartFails \/ Started
          \/ Join \/ Repeat \/ CloseModule \/ CloseFails \/ Closed \/ EndVideo

Next == \/ MainVideo \/ Close \/ SysutilCb \/ Player
        \/ \E m \in Threaded : EndsThread(m) \/ FailsThread(m)

Spec == Init /\ [][Next]_vars

-----------------------------------------------------------------------------
TypeOK ==
  /\ { is_bg_video, mode_exec, commonError, fault } \subseteq BOOLEAN
  /\ plays \in 0 .. MaxPlays /\ repeats \in 0 .. MaxPlays /\ ret \in {"ok", "error"}
  /\ phase \in {"none", "open", "start", "join", "close", "last", "end", "gone"} /\ step \in 1 .. 12
  /\ runs \in [Threaded -> {"no", "yes", "ok", "error"}]
  /\ \A m \in Module : held[m] \subseteq ToSet(Acquires[m])
  /\ unjoined \subseteq Threaded

\* Beside its own module a thread uses those of its neighbours: the frames and blocks it
\* fetches, the decoder it fetches them from, the buffers of its stream.
Uses(m) == {m} \cup (CASE m = "vdisp" -> {"vpost", "avsync"} [] m = "vpost" -> {"vdec", "vdisp"}
                        [] m = "vdec" -> {"video", "vpost"} [] m = "amixer" -> {"apost", "avsync"}
                        [] m = "apost" -> {"adec"} [] m = "adec" -> {"audio", "apost"}
                        [] m = "dmux" -> {"video", "audio", "vdec", "adec"})

\* No module is closed while a thread runs that uses it, except by the threads that were
\* left when a sequence broke off.
NoUseAfterClose ==
  \A m \in Threaded : runs[m] = "yes" /\ m \notin unjoined => \A n \in Uses(m) : held[n] # {}

\* A player that ends gives everything back, also when a start or a thread failed, the program
\* was asked to end or a sequence broke off; not when a module could not be opened or closed.
AllReturned ==
  phase = "gone" /\ ~fault => \A m \in Module : held[m] = {}
=============================================================================
