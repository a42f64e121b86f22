---------------------------- MODULE MusicPlayer ----------------------------
(***************************************************************************)
(* The music player of source/multiman.cpp.  Three threads share a list of *)
(* songs, the place in it, one request and one file handle: the main loop  *)
(* ("main") starts lists and goes through them, the thread of small jobs   *)
(* ("misc") loads the song that is requested, and the thread of the stream *)
(* library ("ms") calls back for data and asks for the next song at the    *)
(* end of one.  The library, the files and the user are external.          *)
(***************************************************************************)
EXTENDS Integers, Sequences, FiniteSets

CONSTANTS
  Column,       \* the songs of the music column, in order
  Small,        \* songs of at most 512 KB, which are not played
  Bad,          \* songs without a valid header
  Blocks,       \* reads of the callback in a song
  MAX_MP3,      \* entries of the list
  Handles,      \* bound: file handles
  MaxRequests   \* bound: what the user asks for

VARIABLES
  playlist, current_mp3, max_mp3,
  force_mp3, force_mp3_file, force_mp3_fd,
  opened,       \* by handle: the song behind it, and its reads left
  mm_is_playing, update_ms, audio_sub_proc, mm_audio,
  tpc, arg,     \* by thread: where it is, and the song it works on
  stream, request,     \* the library: the song in the stream, and that it wants data
  requests,
  raced,        \* history: two threads changed the list, or the request, at once
  stalled       \* history: why no song plays: it is paused, a load failed, or a late callback
                \* skipped the song that was being loaded

list  == << playlist, current_mp3, max_mp3 >>
force == << force_mp3, force_mp3_file >>
files == << force_mp3_fd, opened >>
sound == << mm_is_playing, update_ms, audio_sub_proc, mm_audio >>
lib   == << stream, request >>
history == << raced, stalled >>
musicVars == << list, force, files, sound, tpc, arg, lib, requests, history >>

NoSong == "none"
NoFd == -1
Closed == [song |-> NoSong, left |-> 0]
Thread == {"main", "misc", "ms"}

Init ==
  /\ playlist = [i \in 0 .. MAX_MP3 |-> NoSong] /\ current_mp3 = 0 /\ max_mp3 = 0
  /\ force_mp3 = FALSE /\ force_mp3_file = NoSong /\ force_mp3_fd = NoFd
  /\ opened = [h \in 1 .. Handles |-> Closed]
  /\ mm_is_playing = FALSE /\ update_ms = TRUE /\ audio_sub_proc = FALSE /\ mm_audio = TRUE
  /\ tpc = [t \in Thread |-> "idle"] /\ arg = [t \in Thread |-> NoSong]
  /\ stream = NoSong /\ request = FALSE /\ requests = 0
  /\ raced = FALSE /\ stalled = "no"

Busy(t) == tpc[t] # "idle"

\* Thread t goes on at p.
Goes(t, p) == tpc' = [tpc EXCEPT ![t] = p]

\* The main loop and the callback change the list at once when one begins inside the other.
Changing(t) == tpc[t] \in {"close", "forget", "name", "force", "stop", "stopping", "stopped"}
RacesWith(t) == raced' = (raced \/ Changing(t))

CloseFd == IF force_mp3_fd = NoFd THEN opened ELSE [opened EXCEPT ![force_mp3_fd] = Closed]

\* The place after the current one, from the last to the first.
Succ(n, max) == IF n + 1 > max THEN 1 ELSE n + 1

-----------------------------------------------------------------------------
(***************************************************************************)
(* main_mp3, by the main loop and by the callback: it closes the file,     *)
(* forgets it, writes the name, and sets the request.                      *)
(***************************************************************************)
Close(t) ==
  /\ tpc[t] = "close" /\ Goes(t, "forget") /\ opened' = CloseFd
  /\ UNCHANGED << list, force, force_mp3_fd, sound, arg, lib, requests, history >>

Forget(t) ==
  /\ tpc[t] = "forget" /\ Goes(t, "name") /\ force_mp3_fd' = NoFd
  /\ UNCHANGED << list, force, opened, sound, arg, lib, requests, history >>

Name(t) ==
  /\ tpc[t] = "name" /\ Goes(t, "force") /\ force_mp3_file' = arg[t]
  /\ UNCHANGED << list, force_mp3, files, sound, arg, lib, requests, history >>

Force(t) ==
  /\ tpc[t] = "force" /\ Goes(t, IF t = "ms" THEN "bgm" ELSE "idle") /\ force_mp3' = TRUE
  /\ UNCHANGED << list, force_mp3_file, files, sound, arg, lib, requests, history >>

(***************************************************************************)
(* stop_audio: the flag that keeps two threads apart is tested and set in  *)
(* two steps.                                                              *)
(***************************************************************************)
StopWaits(t) ==
  /\ tpc[t] = "stop" /\ ~audio_sub_proc /\ Goes(t, "stopping")
  /\ UNCHANGED << list, force, files, sound, arg, lib, requests, history >>

StopCloses(t) ==
  /\ tpc[t] = "stopping" /\ Goes(t, "stopped") /\ audio_sub_proc' = TRUE
  /\ IF mm_is_playing THEN stream' = NoSong /\ request' = FALSE ELSE UNCHANGED lib
  /\ UNCHANGED << list, force, files, mm_is_playing, update_ms, mm_audio, arg, requests, history >>

Stopped(t) ==
  /\ tpc[t] = "stopped" /\ mm_is_playing' = FALSE /\ audio_sub_proc' = FALSE
  /\ IF t = "misc" THEN Goes(t, "load") /\ update_ms' = FALSE /\ UNCHANGED list
     ELSE Goes(t, "idle") /\ current_mp3' = 0 /\ max_mp3' = 0 /\ UNCHANGED << playlist, update_ms >>
  /\ UNCHANGED << force, files, mm_audio, arg, lib, requests, history >>

-----------------------------------------------------------------------------
(***************************************************************************)
(* The main loop.  Bound: MaxRequests.                                     *)
(***************************************************************************)
Asks == ~Busy("main") /\ requests < MaxRequests /\ requests' = requests + 1

\* A song of the column: the list is this song, the ones behind it and the ones before it,
\* as many as there is room for.
StartList ==
  /\ Asks /\ Goes("main", "close") /\ RacesWith("ms")
  /\ \E first \in DOMAIN Column :
       LET size == IF Len(Column) > MAX_MP3 THEN MAX_MP3 ELSE Len(Column)
           Song(i) == Column[((first + i - 2) % Len(Column)) + 1]
       IN /\ playlist' = [i \in DOMAIN playlist |-> IF i \in 1 .. size THEN Song(i) ELSE playlist[i]]
          /\ max_mp3' = size /\ current_mp3' = 1
          /\ arg' = [arg EXCEPT !["main"] = Song(1)]
  /\ UNCHANGED << force, files, sound, lib, stalled >>

\* The theme plays songs of the column at random; the place may be one without a song.
StartTheme ==
  /\ Asks /\ Goes("main", "close") /\ RacesWith("ms")
  /\ \E n \in {0, 1, MAX_MP3} : LET song == Column[1] IN
       /\ playlist' = [i \in DOMAIN playlist |-> IF i \in 1 .. MAX_MP3 - 1 THEN song ELSE NoSong]
       /\ max_mp3' = MAX_MP3 - 1 /\ current_mp3' = n
       /\ arg' = [arg EXCEPT !["main"] = playlist'[n]]
  /\ UNCHANGED << force, files, sound, lib, stalled >>

GoesTo(n) ==
  /\ Asks /\ max_mp3 # 0 /\ Goes("main", "close") /\ RacesWith("ms")
  /\ current_mp3' = n /\ arg' = [arg EXCEPT !["main"] = playlist[n]]
  /\ UNCHANGED << playlist, max_mp3, force, files, sound, lib, stalled >>

next_mp3 == GoesTo(IF current_mp3 + 1 > max_mp3 \/ current_mp3 + 1 >= MAX_MP3 THEN 1 ELSE current_mp3 + 1)
prev_mp3 == current_mp3 > 0 /\ GoesTo(IF current_mp3 = 1 THEN max_mp3 ELSE current_mp3 - 1)

stop_mp3 ==
  /\ Asks /\ Goes("main", "stop") /\ RacesWith("ms")
  /\ UNCHANGED << list, force, files, sound, arg, lib, stalled >>

Pause ==
  /\ Asks /\ update_ms' = ~update_ms /\ stalled' = "paused"
  /\ UNCHANGED << list, force, files, mm_is_playing, audio_sub_proc, mm_audio, tpc, arg, lib, raced >>

\* The system plays music of its own, or ends it: sysutil_callback.
Bgm ==
  /\ Asks /\ mm_audio' = ~mm_audio /\ update_ms' = ~mm_audio /\ stalled' = "paused"
  /\ UNCHANGED << list, force, files, mm_is_playing, audio_sub_proc, tpc, arg, lib, raced >>

-----------------------------------------------------------------------------
(***************************************************************************)
(* The thread of small jobs: misc_thread_entry, main_mp3_th, LoadMP3.      *)
(***************************************************************************)
TakesRequest ==
  /\ ~Busy("misc") /\ force_mp3 /\ force_mp3' = FALSE /\ Goes("misc", "size")
  /\ stalled' = IF Changing("ms") THEN "skipped" ELSE stalled
  /\ UNCHANGED << list, force_mp3_file, files, sound, arg, lib, requests, raced >>

SmallEnough(song) == song \in Small \cup {NoSong}

\* A small file is left out: the next of the list is requested, or nothing.
LeavesOut ==
  /\ tpc["misc"] = "size" /\ SmallEnough(force_mp3_file) /\ Goes("misc", "idle")
  /\ raced' = (raced \/ force_mp3 \/ Changing("main") \/ Changing("ms"))
  /\ IF max_mp3 # 0
     THEN /\ current_mp3' = Succ(current_mp3, max_mp3) /\ force_mp3_file' = playlist[current_mp3']
          /\ force_mp3' = TRUE
     ELSE force_mp3' = FALSE /\ UNCHANGED << current_mp3, force_mp3_file >>
  /\ UNCHANGED << playlist, max_mp3, files, sound, arg, lib, requests, stalled >>

BigEnough ==
  /\ tpc["misc"] = "size" /\ ~SmallEnough(force_mp3_file) /\ Goes("misc", "stop")
  /\ arg' = [arg EXCEPT !["misc"] = force_mp3_file]
  /\ UNCHANGED << list, force, files, sound, lib, requests, history >>

LoadCloses ==
  /\ tpc["misc"] = "load" /\ Goes("misc", "open") /\ opened' = CloseFd
  /\ UNCHANGED << list, force, force_mp3_fd, sound, arg, lib, requests, history >>

Free == { h \in DOMAIN opened : opened[h] = Closed }

LoadOpens ==
  /\ tpc["misc"] = "open"
  /\ IF Free = {} THEN Goes("misc", "idle") /\ stalled' = "failed" /\ UNCHANGED files
     ELSE /\ UNCHANGED stalled
          /\ \E h \in Free :
               /\ \A g \in Free : h <= g
               /\ force_mp3_fd' = h /\ Goes("misc", "read")
               /\ opened' = [opened EXCEPT ![h] = [song |-> arg["misc"], left |-> Blocks]]
  /\ UNCHANGED << list, force, sound, arg, lib, requests, raced >>

\* It reads the beginning of the file, and looks at the header.
LoadReads ==
  /\ tpc["misc"] = "read"
  /\ IF force_mp3_fd # NoFd /\ opened[force_mp3_fd] # Closed
        /\ arg["misc"] \notin Bad
     THEN Goes("misc", "trigger") /\ UNCHANGED << force_mp3_fd, stalled >>
     ELSE /\ Goes("misc", "idle") /\ stalled' = "failed"
          /\ IF force_mp3_fd = NoFd \/ opened[force_mp3_fd] = Closed THEN force_mp3_fd' = NoFd ELSE UNCHANGED force_mp3_fd
  /\ UNCHANGED << list, force, opened, sound, arg, lib, requests, raced >>

\* TriggerStream.
Trigger ==
  /\ tpc["misc"] = "trigger" /\ Goes("misc", "playing") /\ stream' = arg["misc"]
  /\ UNCHANGED << list, force, files, sound, arg, request, requests, history >>

Plays ==
  /\ tpc["misc"] = "playing" /\ Goes("misc", "idle")
  /\ mm_is_playing' = TRUE /\ update_ms' = TRUE /\ stalled' = "no"
  /\ UNCHANGED << list, force, files, audio_sub_proc, mm_audio, arg, lib, requests, raced >>

-----------------------------------------------------------------------------
(***************************************************************************)
(* The thread of the stream library: MS_update_thread, mp3_callback.       *)
(***************************************************************************)
\* The library wants data when this thread, between two callbacks, signals it.
WantsData ==
  /\ ~Busy("ms") /\ stream # NoSong /\ mm_is_playing /\ update_ms /\ ~request /\ request' = TRUE
  /\ UNCHANGED << list, force, files, sound, tpc, arg, stream, requests, history >>

Callback ==
  /\ ~Busy("ms") /\ request /\ request' = FALSE
  /\ Goes("ms", IF force_mp3_fd = NoFd THEN "try" ELSE "data")
  /\ UNCHANGED << list, force, files, sound, arg, stream, requests, history >>

\* At the end of the file, or when it cannot be read, it is closed.
ReadsData ==
  /\ tpc["ms"] = "data"
  /\ IF force_mp3_fd = NoFd \/ opened[force_mp3_fd] = Closed THEN Goes("ms", "failed") /\ UNCHANGED opened
     ELSE IF opened[force_mp3_fd].left = 0 THEN Goes("ms", "eof") /\ UNCHANGED opened
     ELSE opened' = [opened EXCEPT ![force_mp3_fd].left = @ - 1] /\ Goes("ms", "idle")
  /\ UNCHANGED << list, force, force_mp3_fd, sound, arg, lib, requests, history >>

EndsFile(p, q) ==
  /\ tpc["ms"] = p /\ opened' = CloseFd /\ Goes("ms", q)
  /\ UNCHANGED << list, force, force_mp3_fd, sound, arg, lib, requests, history >>

ForgetsFile(p, q) ==
  /\ tpc["ms"] = p /\ force_mp3_fd' = NoFd /\ Goes("ms", q)
  /\ UNCHANGED << list, force, opened, sound, arg, lib, requests, history >>

NextSong_StaysAtEnd ==
  /\ tpc["ms"] = "try" /\ update_ms' = FALSE
  /\ IF max_mp3 = 0 \/ current_mp3 + 1 > max_mp3 THEN Goes("ms", "bgm") /\ UNCHANGED << current_mp3, arg >>
     ELSE /\ current_mp3' = current_mp3 + 1 /\ Goes("ms", "close")
          /\ arg' = [arg EXCEPT !["ms"] = playlist[current_mp3']]
  /\ UNCHANGED << playlist, max_mp3, force, files, mm_is_playing, audio_sub_proc, mm_audio, lib,
                  requests, history >>

NextSong_OldPlace ==
  /\ tpc["ms"] = "try" /\ update_ms' = FALSE /\ RacesWith("main")
  /\ IF max_mp3 = 0 THEN Goes("ms", "bgm") /\ UNCHANGED << current_mp3, arg >>
     ELSE /\ current_mp3' = Succ(current_mp3, max_mp3) /\ Goes("ms", "close")
          /\ arg' = [arg EXCEPT !["ms"] = playlist[current_mp3]]
  /\ UNCHANGED << playlist, max_mp3, force, files, mm_is_playing, audio_sub_proc, mm_audio, lib,
                  requests, stalled >>

NextSong ==
  /\ tpc["ms"] = "try" /\ update_ms' = FALSE /\ RacesWith("main")
  /\ stalled' = IF Busy("misc") THEN "skipped" ELSE stalled
  /\ IF max_mp3 = 0 THEN Goes("ms", "bgm") /\ UNCHANGED << current_mp3, arg >>
     ELSE /\ current_mp3' = Succ(current_mp3, max_mp3) /\ Goes("ms", "close")
          /\ arg' = [arg EXCEPT !["ms"] = playlist[current_mp3']]
  /\ UNCHANGED << playlist, max_mp3, force, files, mm_is_playing, audio_sub_proc, mm_audio, lib, requests >>

YieldsToBgm ==
  /\ tpc["ms"] = "bgm" /\ Goes("ms", IF mm_audio THEN "idle" ELSE "stop")
  /\ UNCHANGED << list, force, files, sound, arg, lib, requests, history >>

-----------------------------------------------------------------------------
User == StartList \/ StartTheme \/ next_mp3 \/ prev_mp3 \/ stop_mp3 \/ Pause \/ Bgm
Change(t) == Close(t) \/ Forget(t) \/ Name(t) \/ Force(t)
Stop(t) == StopWaits(t) \/ StopCloses(t) \/ Stopped(t)
MainLoop == Change("main") \/ Stop("main")
Misc == \/ TakesRequest \/ LeavesOut \/ BigEnough \/ LoadCloses \/ LoadOpens \/ LoadReads
        \/ Trigger \/ Plays \/ Stop("misc")
Stream == \/ Callback \/ ReadsData \/ EndsFile("eof", "ended") \/ EndsFile("failed", "next")
          \/ ForgetsFile("ended", "idle") \/ ForgetsFile("next", "try") \/ NextSong
          \/ YieldsToBgm \/ Change("ms") \/ Stop("ms")

Next == User \/ MainLoop \/ Misc \/ WantsData \/ Stream

Spec == Init /\ [][Next]_musicVars

\* The threads run and the stream is played.
FairSpec == /\ Spec /\ WF_musicVars(MainLoop) /\ WF_musicVars(Misc) /\ WF_musicVars(WantsData)
            /\ WF_musicVars(Stream)

-----------------------------------------------------------------------------
TypeOK ==
  /\ playlist \in [0 .. MAX_MP3 -> { Column[i] : i \in DOMAIN Column } \cup {NoSong}]
  /\ current_mp3 \in 0 .. MAX_MP3 /\ max_mp3 \in 0 .. MAX_MP3
  /\ { force_mp3, mm_is_playing, update_ms, audio_sub_proc, mm_audio, request, raced } \subseteq BOOLEAN
  /\ force_mp3_fd \in 1 .. Handles \cup {NoFd}
  /\ \A h \in DOMAIN opened : opened[h].left \in 0 .. Blocks
  /\ requests \in 0 .. MaxRequests

Quiet == ~force_mp3 /\ \A t \in Thread : ~Busy(t)

\* Unless two threads changed the list at once, the song that plays is the one the list stands
\* at, whatever was asked for while it was loaded.
PlaysCurrent == Quiet /\ ~raced /\ mm_is_playing /\ max_mp3 # 0 => stream = playlist[current_mp3]

\* A list goes round: when the user leaves it alone and no load fails, each of its songs is
\* played again and again.
GoesRound ==
  \A i \in DOMAIN Column :
    <>[](/\ max_mp3 # 0 /\ mm_audio /\ ~raced /\ stalled = "no"
         /\ ~SmallEnough(Column[i]) /\ \E j \in 1 .. max_mp3 : playlist[j] = Column[i])
      => []<>(stream = Column[i])
=============================================================================
