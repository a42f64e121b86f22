----------------------------- MODULE Downloads -----------------------------
(***************************************************************************)
(* Downloads over HTTP in source/multiman.cpp.  The main loop downloads in *)
(* the foreground (updates, themes, files of the browser), a thread serves *)
(* a ring of covers that the main loop and the thread which fills the game *)
(* column ask for, and both download through one HTTP library.             *)
(*                                                                         *)
(* A file of the server and the local file it is saved to have one name.   *)
(* The library, the server and the user are external.                      *)
(***************************************************************************)
EXTENDS Integers, Sequences, FiniteSets

CONSTANTS
  Cover,          \* files of covers
  Package,        \* the packages of a game update, in order
  Length,         \* by file: its length, in pieces as the library delivers them
  Kilo,           \* the pieces of 1 KB
  MAX_DOWN_LIST,  \* slots of the ring
  Jobs,           \* what the user starts in the foreground
  MaxJobs, MaxCovers   \* bounds: the jobs in the foreground, and the covers asked for

Asker == {"main", "column"}
Loader == {"main", "thread"}

VARIABLES
  downloads, downloads_max,
  asking,       \* by thread: the cover it is writing into the ring
  slot,         \* the slot the thread looks at, or serves
  at,           \* by loader: where its download is
  load,         \* by loader: the download, [url, got, ret]
  saved,        \* by loader: the file it has open
  job, first_pkg, lc, tries, \* the job of the main loop, and where in a list of packages it is
  http,         \* the library: is it initialised, and whose transactions are alive
  file,         \* by name: the file on the disk, [of, size]
  net_avail, mm_shutdown,
  offered,      \* history: the files the user was offered to install
  early,        \* history: the files of the job that the server ended before their end
  overwritten,  \* history: a slot was written while it was served, or by two at once
  jobs, covers

queue == << downloads, downloads_max, asking >>
transfer == << at, load, saved >>
work == << job, first_pkg, lc, tries >>
downloadsVars == << queue, slot, transfer, work, http, file, net_avail, mm_shutdown, offered, early,
                    overwritten, jobs, covers >>

Update == "multiMAN.pkg"
Showtime == "SHOWTIME.SELF"
NoName == "none"     \* the url of a slot that was never written
Fixed == {"version", "whatsnew", Update, "showtime.txt", "SHOWTIME.VER", Showtime, "list", "themes",
          "image", "theme", "page"}
Name == {NoName} \cup Cover \cup Fixed \cup { Package[n] : n \in DOMAIN Package }
Absent == [of |-> NoName, size |-> 0]
exist(f) == file[f] # Absent
Whole(f) == file[f] = [of |-> f, size |-> Length[f]]
Remove(f) == [file EXCEPT ![f] = Absent]

NoLoad == [url |-> NoName, got |-> 0, ret |-> 0]

Init ==
  /\ downloads = [n \in 0 .. MAX_DOWN_LIST - 1 |-> [url |-> NoName, status |-> 0]] /\ downloads_max = 0
  /\ asking = [a \in Asker |-> NoName] /\ slot = 0
  /\ at = [p \in Loader |-> "idle"] /\ load = [p \in Loader |-> NoLoad]
  /\ saved = [p \in Loader |-> NoName]
  /\ job = "idle" /\ first_pkg = 0 /\ lc = 0 /\ tries = 0
  /\ http = [up |-> FALSE, live |-> {}]
  /\ file = [f \in Name |-> Absent]
  /\ net_avail = TRUE /\ mm_shutdown = FALSE
  /\ offered = {} /\ early = {} /\ overwritten = FALSE /\ jobs = 0 /\ covers = 0

-----------------------------------------------------------------------------
(***************************************************************************)
(* download_cover.  The search for the same cover compares every entry     *)
(* with the slot that is written next, so it finds one that is written     *)
(* there again.                                                            *)
(***************************************************************************)
is_in_queue(f) == downloads_max > 0 /\ downloads[downloads_max].url = f

AskCover(a) ==
  /\ asking[a] = NoName /\ covers < MaxCovers /\ covers' = covers + 1 /\ net_avail
  /\ a = "main" => job = "idle"
  /\ \E f \in Cover :
       IF is_in_queue(f) THEN UNCHANGED << queue, overwritten >>
       ELSE /\ downloads' = [downloads EXCEPT ![downloads_max].url = f]
            /\ asking' = [asking EXCEPT ![a] = f]
            /\ overwritten' = (overwritten \/ \E b \in Asker : asking[b] # NoName
                                 \/ (at["thread"] # "idle" /\ slot = downloads_max))
            /\ UNCHANGED downloads_max
  /\ UNCHANGED << slot, transfer, work, http, file, net_avail, mm_shutdown, offered, early, jobs >>

Asked(a) ==
  /\ asking[a] # NoName /\ asking' = [asking EXCEPT ![a] = NoName]
  /\ downloads' = [downloads EXCEPT ![downloads_max].status = 1]
  /\ downloads_max' = (downloads_max + 1) % MAX_DOWN_LIST
  /\ UNCHANGED << slot, transfer, work, http, file, net_avail, mm_shutdown, offered, early,
                  overwritten, jobs, covers >>

-----------------------------------------------------------------------------
(***************************************************************************)
(* One download: download_file and download_file_th, and http_file_size,   *)
(* which asks for the length only (its url is saved nowhere).              *)
(***************************************************************************)
asksSize == job \in {"showtime_size", "update_size"}
Saves(p) == p = "thread" \/ ~asksSize
Goes(p, where) == at' = [at EXCEPT ![p] = where]
Begins(p, f) == at' = [at EXCEPT ![p] = "init"] /\ load' = [load EXCEPT ![p] = [url |-> f, got |-> 0, ret |-> 0]]

\* The thread names the file it saves to by its slot, which may have been written since.
Local(p) == IF p = "thread" THEN downloads[slot].url ELSE load[p].url

\* cellHttpInit fails when the library is initialised.
HttpInit(p) ==
  /\ at[p] = "init"
  /\ IF http.up THEN Goes(p, "quit") /\ UNCHANGED http
     ELSE Goes(p, "request") /\ http' = [up |-> TRUE, live |-> {p}]
  /\ file' = IF Saves(p) THEN Remove(Local(p)) ELSE file
  /\ UNCHANGED << queue, slot, load, saved, work, net_avail, mm_shutdown, offered, early, overwritten,
                  jobs, covers >>

\* The request is sent and answered, and the file is opened; or it fails, or the answer is that
\* there is no such file.
Request(p) ==
  /\ at[p] = "request"
  /\ \/ /\ p \in http.live /\ load[p].url # NoName
        /\ IF Saves(p)
           THEN /\ Goes(p, "receive") /\ saved' = [saved EXCEPT ![p] = Local(p)] /\ UNCHANGED load
                /\ file' = [file EXCEPT ![Local(p)] = [of |-> load[p].url, size |-> 0]]
           ELSE /\ Goes(p, "quit") /\ load' = [load EXCEPT ![p].ret = Length[load[p].url]]
                /\ UNCHANGED << saved, file >>
     \/ /\ Goes(p, "quit") /\ UNCHANGED << saved, file >>
        /\ load' \in { load, [load EXCEPT ![p].ret = IF Saves(p) THEN -1 ELSE 0] }
  /\ UNCHANGED << queue, slot, work, http, net_avail, mm_shutdown, offered, early, overwritten, jobs,
                  covers >>

Receive(p) ==
  /\ at[p] = "receive" /\ p \in http.live /\ ~mm_shutdown /\ load[p].got < Length[load[p].url]
  /\ load' = [load EXCEPT ![p].got = @ + 1]
  /\ file' = [file EXCEPT ![saved[p]].size = IF file[saved[p]] = Absent THEN @ ELSE @ + 1]
  /\ UNCHANGED << queue, slot, at, saved, work, http, net_avail, mm_shutdown, offered, early,
                  overwritten, jobs, covers >>

\* The server has sent all it sends.
Received(p) ==
  /\ at[p] = "receive" /\ p \in http.live /\ ~mm_shutdown /\ Goes(p, "quit")
  /\ load' = [load EXCEPT ![p].ret = 1]
  /\ early' = IF p = "thread" THEN early
              ELSE IF load[p].got < Length[load[p].url] THEN early \cup {load[p].url}
              ELSE early \ {load[p].url}
  /\ UNCHANGED << queue, slot, saved, work, http, file, net_avail, mm_shutdown, offered, overwritten,
                  jobs, covers >>

\* The connection breaks, the other loader has ended the library, or the program ends: what was
\* received is kept.
ReceiveFails(p) ==
  /\ at[p] = "receive" /\ Goes(p, "quit")
  /\ UNCHANGED << queue, slot, load, saved, work, http, file, net_avail, mm_shutdown, offered, early,
                  overwritten, jobs, covers >>

\* The user cancels, in the foreground only.
Cancel ==
  /\ at["main"] = "receive" /\ load["main"].got > 0 /\ Goes("main", "quit")
  /\ load' = [load EXCEPT !["main"].ret = 2] /\ file' = Remove(load["main"].url)
  /\ UNCHANGED << queue, slot, saved, work, http, net_avail, mm_shutdown, offered, early, overwritten,
                  jobs, covers >>

\* The end, also of a download that did not get the library: cellHttpEnd ends it for both.
Quit(p) ==
  /\ at[p] = "quit" /\ Goes(p, "done") /\ saved' = [saved EXCEPT ![p] = NoName]
  /\ http' = [up |-> FALSE, live |-> {}]
  /\ file' = IF Saves(p) /\ (load[p].got = 0 \/ mm_shutdown) THEN Remove(Local(p)) ELSE file
  /\ UNCHANGED << queue, slot, load, work, net_avail, mm_shutdown, offered, early, overwritten, jobs,
                  covers >>

Download(p) == \/ HttpInit(p) \/ Request(p) \/ Receive(p) \/ Received(p)
               \/ ReceiveFails(p) \/ Quit(p)

-----------------------------------------------------------------------------
(***************************************************************************)
(* download_thread_entry.                                                  *)
(***************************************************************************)
NextSlot_NoWrap == slot' = slot + 1
NextSlot == slot' = (slot + 1) % MAX_DOWN_LIST

Look ==
  /\ at["thread"] = "idle" /\ ~mm_shutdown
  /\ IF downloads[slot].status # 1 THEN NextSlot /\ UNCHANGED << downloads, at, load >>
     ELSE /\ downloads' = [downloads EXCEPT ![slot].status = 2]
          /\ IF exist(downloads[slot].url) THEN NextSlot /\ UNCHANGED << at, load >>
             ELSE Begins("thread", downloads[slot].url) /\ UNCHANGED slot
  /\ UNCHANGED << downloads_max, asking, saved, work, http, file, net_avail, mm_shutdown, offered,
                  early, overwritten, jobs, covers >>

\* What is smaller than 1 KB is not a cover.
Served_LeavesLoop ==
  /\ at["thread"] = "done" /\ Goes("thread", "left")
  /\ file' = IF file[Local("thread")].size < Kilo THEN Remove(Local("thread")) ELSE file
  /\ UNCHANGED << queue, slot, load, saved, work, http, net_avail, mm_shutdown, offered, early,
                  overwritten, jobs, covers >>

Served_KeepsStub ==
  /\ at["thread"] = "done" /\ Goes("thread", "idle") /\ NextSlot /\ load' = [load EXCEPT !["thread"] = NoLoad]
  /\ UNCHANGED << queue, saved, work, http, file, net_avail, mm_shutdown, offered, early,
                  overwritten, jobs, covers >>

Served ==
  /\ at["thread"] = "done" /\ Goes("thread", "idle") /\ NextSlot /\ load' = [load EXCEPT !["thread"] = NoLoad]
  /\ file' = IF file[Local("thread")].size < Kilo THEN Remove(Local("thread")) ELSE file
  /\ UNCHANGED << queue, saved, work, http, net_avail, mm_shutdown, offered, early, overwritten,
                  jobs, covers >>

-----------------------------------------------------------------------------
(***************************************************************************)
(* The jobs of the main loop.  Bound: MaxJobs.                             *)
(***************************************************************************)
Foreground ==
  /\ job = "idle" /\ asking["main"] = NoName /\ jobs < MaxJobs /\ ~mm_shutdown /\ jobs' = jobs + 1
  /\ first_pkg' = 0 /\ lc' = 0 /\ tries' = 0 /\ offered' = {} /\ early' = {}
  /\ \E start \in { << "update_version", "version" >>, << "showtime_version", "showtime.txt" >>,
                    << "game_list", "list" >>, << "themes", "themes" >>, << "theme_image", "image" >>,
                    << "theme", "theme" >>, << "page", "page" >> } :
       /\ start[1] \in Jobs /\ job' = start[1]
       /\ start[1] = "theme_image" => ~exist("image")
       /\ start[1] = "game_list" => net_avail
       /\ IF net_avail THEN Begins("main", start[2])
          ELSE Goes("main", "done") /\ load' = [load EXCEPT !["main"] = [url |-> start[2], got |-> 0, ret |-> 0]]
  /\ UNCHANGED << queue, slot, saved, http, file, net_avail, mm_shutdown, overwritten, covers >>

\* The job goes on with the next download.
GoesOn(j, f) == job' = j /\ Begins("main", f)
Ends == job' = "idle" /\ Goes("main", "idle") /\ load' = [load EXCEPT !["main"] = NoLoad]

\* The finished download of job j.
Finished(j) ==
  /\ job = j /\ at["main"] = "done"
  /\ UNCHANGED << queue, slot, saved, http, mm_shutdown, early, overwritten, jobs, covers >>

ret == load["main"].ret

\* check_for_update: the version, what is new, the package, and its size.
UpdateVersion ==
  /\ Finished("update_version") /\ UNCHANGED << first_pkg, lc, tries, offered >>
  /\ IF ret = 0 THEN Ends /\ net_avail' = FALSE /\ UNCHANGED file
     ELSE /\ UNCHANGED net_avail
          /\ IF Whole("version") THEN GoesOn("whatsnew", "whatsnew") /\ UNCHANGED file
             ELSE Ends /\ file' = Remove("version")

\* With a new version and a place to save it the user may ask for the package.
WhatsNew ==
  /\ Finished("whatsnew") /\ UNCHANGED << first_pkg, lc, tries, net_avail, offered >>
  /\ \/ GoesOn("update", Update) /\ file' = IF ret = 1 THEN Remove("whatsnew") ELSE file
     \/ Ends /\ file' = [f \in Name |-> IF f = "version" \/ (f = "whatsnew" /\ ret = 1) THEN Absent ELSE file[f]]

UpdatePackage == Finished("update") /\ GoesOn("update_size", Update) /\ UNCHANGED << first_pkg, lc, tries, net_avail, offered, file >>

UpdateSize_AnySize ==
  /\ Finished("update_size") /\ Ends /\ UNCHANGED << first_pkg, lc, tries, net_avail >>
  /\ offered' = IF file[Update].size > 0 THEN {Update} ELSE {}
  /\ file' = Remove("version")

UpdateSize ==
  /\ Finished("update_size") /\ Ends /\ UNCHANGED << first_pkg, lc, tries, net_avail >>
  /\ LET good == file[Update].size = ret /\ ret > 0 IN
       /\ offered' = IF good THEN {Update} ELSE {}
       /\ file' = [f \in Name |-> IF f = "version" \/ (f = Update /\ ~good) THEN Absent ELSE file[f]]

\* check_for_showtime_update: the version and its size; the version is saved before the program.
ShowtimeVersion ==
  /\ Finished("showtime_version") /\ GoesOn("showtime_size", "showtime.txt")
  /\ UNCHANGED << first_pkg, lc, tries, net_avail, offered, file >>

ShowtimeSize ==
  /\ Finished("showtime_size") /\ UNCHANGED << first_pkg, lc, tries, offered >>
  /\ IF file["showtime.txt"].size # ret \/ ret = 0
     THEN Ends /\ net_avail' = FALSE /\ file' = Remove("showtime.txt")
     ELSE /\ UNCHANGED net_avail
          /\ \/ ~exist("SHOWTIME.VER") /\ GoesOn("showtime", Showtime)
                /\ file' = [file EXCEPT !["SHOWTIME.VER"] = [of |-> "SHOWTIME.VER", size |-> 1]]
             \/ Ends /\ file' = Remove("showtime.txt")

ShowtimeProgram ==
  /\ Finished("showtime") /\ Ends /\ file' = Remove("showtime.txt")
  /\ UNCHANGED << first_pkg, lc, tries, net_avail, offered >>

\* check_for_game_update: the list, then each package from the first on, three times at most.
GameList ==
  /\ Finished("game_list") /\ UNCHANGED << tries, net_avail, offered, file >>
  /\ \/ /\ Whole("list") /\ first_pkg' \in DOMAIN Package /\ lc' = first_pkg'
        /\ GoesOn("game", Package[lc'])
     \/ Ends /\ UNCHANGED << first_pkg, lc >>

GamePackage ==
  /\ Finished("game") /\ UNCHANGED << net_avail, file >>
  /\ IF ret <= 0 /\ tries < 2 THEN GoesOn("game", Package[lc]) /\ tries' = tries + 1 /\ UNCHANGED << lc, offered >>
     ELSE /\ tries' = 0
          /\ IF ret = 1 /\ lc < Len(Package) THEN GoesOn("game", Package[lc + 1]) /\ lc' = lc + 1 /\ UNCHANGED offered
             ELSE Ends /\ lc' = 0
                  /\ offered' = IF ret = 1 THEN { Package[n] : n \in first_pkg .. lc } ELSE {}
  /\ first_pkg' = IF job' = "idle" THEN 0 ELSE first_pkg

\* get_www_themes, the image and the package of a theme, a file of the browser.
Theme ==
  /\ \E j \in {"themes", "theme_image", "theme", "page"} :
       /\ Finished(j) /\ file' = IF j = "themes" THEN Remove("themes") ELSE file
       /\ offered' = IF j = "theme" /\ ret = 1 THEN {"theme"} ELSE {}
  /\ Ends /\ UNCHANGED << first_pkg, lc, tries, net_avail >>

Goes_On == \/ UpdateVersion \/ WhatsNew \/ UpdatePackage \/ UpdateSize \/ ShowtimeVersion
           \/ ShowtimeSize \/ ShowtimeProgram \/ GameList \/ GamePackage \/ Theme

\* unload_modules.
Shutdown ==
  /\ job = "idle" /\ ~mm_shutdown /\ mm_shutdown' = TRUE
  /\ UNCHANGED << queue, slot, transfer, work, http, file, net_avail, offered, early, overwritten,
                  jobs, covers >>

-----------------------------------------------------------------------------
Thread == Download("thread") \/ Look \/ Served
MainLoop == Download("main") \/ Goes_On \/ Asked("main")

Next == \/ \E a \in Asker : AskCover(a)
        \/ Asked("column") \/ MainLoop \/ Thread \/ Foreground \/ Cancel \/ Shutdown

Spec == Init /\ [][Next]_downloadsVars
FairSpec == Spec /\ WF_downloadsVars(Thread) /\ WF_downloadsVars(MainLoop) /\ WF_downloadsVars(Asked("column"))

-----------------------------------------------------------------------------
TypeOK ==
  /\ downloads_max \in DOMAIN downloads /\ slot \in DOMAIN downloads
  /\ \A n \in DOMAIN downloads : downloads[n].url \in Cover \cup {NoName} /\ downloads[n].status \in 0 .. 2
  /\ \A f \in Name : file[f].of \in Name /\ file[f].size \in 0 .. Length[file[f].of]
  /\ http.live \subseteq Loader /\ (http.live # {} => http.up)
  /\ \A p \in Loader : load[p].got \in 0 .. Length[load[p].url]

\* A cover on the disk is the cover of its own name and, when the thread does not work on it, no
\* stub: unless a slot was written while the thread served it.
CoversOwn ==
  ~overwritten =>
    \A f \in Cover : exist(f) => /\ file[f].of = f
                                 /\ (at["thread"] = "idle" => file[f].size >= Kilo)

\* What the user is offered to install is whole, whatever the other thread did to the library in
\* between: the package of the program always, one of a game unless the server sent less.
OfferedIsWhole == \A f \in offered : Whole(f) \/ (f # Update /\ f \in early)
=============================================================================
