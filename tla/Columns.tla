------------------------------ MODULE Columns ------------------------------
(***************************************************************************)
(* The columns of the XMB (multiman.cpp): the menu thread keeps photo,     *)
(* music, video, game, favourite, emulator and browse columns in xmb[],    *)
(* each filled when it is drawn with init = 0.  Games are listed by the    *)
(* menu thread; the others by a thread of their own that is detached and   *)
(* told apart only by its is_*_loading flag.  A complete column is saved   *)
(* in XMBS.00c, from where grouping by emulator or by letter and the next  *)
(* start take it.  Meanwhile devices come and go, and with them columns    *)
(* are declared empty, perhaps while a thread fills them.                  *)
(*                                                                         *)
(* A member is the name of its title; what its picture is, Thumbs says.    *)
(* is_game_loading is set only within the scan of the devices by the menu  *)
(* thread, in which it does nothing of what is here.                       *)
(***************************************************************************)
EXTENDS Integers, Sequences, SequencesExt

CONSTANTS
  Files,            \* per filled column: the titles a scan of the media finds
  Games, Film, Fav, \* the list of games, those that are films, those that are favourites
  Names,            \* all names, as the numbers of their order
  Main, Letter,     \* the emulator or genre of a title; its group of letters
  Mains, Other,     \* how many there are; Other is the group of what starts with no letter
  Folder,           \* what each folder holds; those that are folders are in its domain
  MAX_XMB_MEMBERS,
  Starts            \* the states the last session may have left: its files, groups and cursor;
                    \* and bounds: the columns visited and how often each kind of event comes

Browse == 0
Photo == 3
Music == 4
Video == 5
Game == 6
Faves == 7
Retro == 8
Filled == {Photo, Music, Video, Retro}
Col == Filled \cup {Browse, Game, Faves}

VARIABLES
  xmb,            \* the columns: init, group, first and member
  file,           \* XMBS.00c
  loading,        \* the columns whose is_*_loading is set
  pc, next,       \* where the thread of a column is, and what it adds next
  xmb_icon,       \* the visited column
  path, entry,    \* browse_path and browse_entry up to browse_level
  opened,         \* the folder the browse thread reads
  browsing,       \* browse_column_active
  last,           \* xmb_icon_last and xmb_icon_last_first
  booted, entering,
  visits, left,   \* bounds of this behaviour
  blurred,        \* history: columns the menu thread changed while their thread filled them
  astray          \* history: the emulators were grouped at start with the cursor where it was
columnsVars == << xmb, file, loading, pc, next, xmb_icon, path, entry, opened, browsing, last,
                  booted, entering, visits, left, blurred, astray >>

NoFile == [version |-> "none"]
NoGroup == [main |-> 0, alpha |-> 0]
Link == 0
Refresh == 1
Hdd == 2
None == 3       \* the entry of a folder that holds nothing
Strayed == 4    \* an entry with the path of another folder
Fixed == {Link, Refresh, Hdd}
Devices == [c \in Filled |-> CASE c = Video -> << Link, Refresh, Hdd >>
                               [] c = Retro -> << Refresh, Hdd >>
                               [] OTHER -> << Hdd >>]
Size(c) == Len(xmb[c].member)

(***************************************************************************)
(* Members.  add_xmb_member refuses the last place; sort_xmb_col keeps     *)
(* what comes first, from position first on every device too.              *)
(***************************************************************************)
Add(s, t) == IF Len(s) >= MAX_XMB_MEMBERS - 1 THEN s ELSE Append(s, t)
AddAll(s, ts) == IF Len(s) + Len(ts) < MAX_XMB_MEMBERS THEN s \o ts
                 ELSE SubSeq(s \o ts, 1, MAX_XMB_MEMBERS - 1)
Before(t, u) == t < u
SortFrom(s, first) ==
  LET loose == {i \in first + 1 .. Len(s) - 1 : s[i] \notin Fixed}
      kept == IF loose = {} THEN first ELSE (CHOOSE i \in loose : \A j \in loose : i <= j) - 1
  IN IF Len(s) < 3 \/ kept >= Len(s) THEN s
     ELSE SubSeq(s, 1, kept) \o SortSeq(SubSeq(s, kept + 1, Len(s)), Before)
SortPlace == [c \in Filled |-> CASE c = Photo -> 1 [] c = Music -> 1 [] OTHER -> 2]

\* What a group of an emulator and of letters leaves of a list (read_xmb_column_type).
InMain(t, m) == t \in Fixed \/ m = 0 \/ Main[t] = m
InAlpha(t, a) == t \in Fixed \/ a = 0 \/ Letter[t] = a
Filter(s, g) == SelectSeq(s, LAMBDA t : InMain(t, g.main) /\ InAlpha(t, g.alpha))

\* The column a file holds: with a group only its members, under the cursor the first of
\* them.  A file of another version is removed and leaves the column to be filled.
ReadColumn(x, f, c, g) ==
  CASE f.version = "none" -> x
    [] f.version = "old" -> [x EXCEPT !.init = FALSE, !.first = 0, !.member = <<>>, !.group = NoGroup]
    [] f.version = "new" ->
         LET rest == Filter(f.member, g) at == IF c = Retro THEN 1 ELSE 0
         IN [x EXCEPT !.init = f.init,
                      !.first = IF g.alpha # 0 /\ rest # <<>> THEN at ELSE f.first,
                      !.member = IF g.alpha # 0 THEN SortFrom(rest, at) ELSE rest]
Removed(f) == IF f.version = "old" THEN NoFile ELSE f

(***************************************************************************)
(* The game column, its favourites and the films of the game list in the   *)
(* video column (add_game_column).  In the game column "Other" is the      *)
(* group 15 although the groups end at 14, so that it matches no title.    *)
(***************************************************************************)
Listed(t, g) == (g.main = 0 \/ Main[t] = g.main)
                /\ (g.alpha = 0 \/ (g.alpha # Other /\ Letter[t] = g.alpha))
Films == SelectSeq(Games, LAMBDA t : t \in Film)
Played(g) == SelectSeq(Games, LAMBDA t : t \notin Film /\ Listed(t, g))
VideoDevices(x) ==
  LET v == x[Video]
      built == ~v.init \/ v.member = <<>>
      old == IF built THEN Devices[Video] ELSE v.member
      films == IF x[Game].init /\ x[Faves].init /\ v.init THEN <<>> ELSE Films
      without == IF Len(old) > 3 + (IF built THEN 1 ELSE 0)
                 THEN SortFrom(SelectSeq(old, LAMBDA t : t \notin Film), 2) ELSE old
  IN [v EXCEPT !.first = IF built THEN 0 ELSE @, !.member = SortFrom(AddAll(without, films), 2)]
GameList(x) ==
  LET g == x[Game]
      list == SortFrom(AddAll(<< Refresh >>, Played(g.group)), 1)
      new == IF g.init THEN g.member ELSE list
      at == {i \in DOMAIN new : new[i] = Games[1]}
      first == IF at # {} THEN (CHOOSE i \in at : TRUE) - 1 ELSE IF g.init THEN g.first ELSE 0
  IN [g EXCEPT !.init = TRUE, !.member = new, !.first = IF Len(new) > 1 /\ first = 0 THEN 1 ELSE first]
FaveList(x) ==
  IF x[Game].init THEN [x[Faves] EXCEPT !.init = TRUE]
  ELSE [x[Faves] EXCEPT !.init = TRUE, !.first = 0,
                        !.member = SortFrom(AddAll(<<>>, SelectSeq(Played(x[Game].group), LAMBDA t : t \in Fav)), 0)]
GameColumn(x) == [x EXCEPT ![Video] = VideoDevices(x), ![Game] = GameList(x), ![Faves] = FaveList(x)]
\* The game column is added while the video thread runs, or builds its devices anew.
GameBlurs(b, x) == IF Video \in loading THEN b \cup {Video}
                   ELSE IF ~x[Video].init THEN b \ {Video} ELSE b

(***************************************************************************)
(* Starting the threads: one column at a time, and the browse column only  *)
(* alone; the video column after the game column.                          *)
(***************************************************************************)
CanLoad(c, x) ==
  /\ ~x[c].init
  /\ loading \ {Browse} = {}
  /\ c = Browse => Browse \notin loading
  /\ c = Video => x[Game].init

Load(c, x) ==
  /\ loading' = loading \cup {c} /\ pc' = [pc EXCEPT ![c] = "start"]
  /\ xmb' = [x EXCEPT ![c].init = TRUE]
LoadNothing(x) == xmb' = x /\ UNCHANGED << loading, pc >>

\* init_xmb_icons: the games, and the first of the columns that can be loaded.
InitIcons(x) ==
  LET y == GameColumn(x)
      cs == SelectSeq(<< Music, Photo, Video, Retro >>, LAMBDA c : CanLoad(c, y))
      emptied(z) == IF z[Retro].init THEN z ELSE [z EXCEPT ![Retro].first = 0, ![Retro].member = <<>>]
  IN IF cs = <<>> THEN LoadNothing(emptied(y)) ELSE Load(cs[1], IF cs[1] = Retro THEN y ELSE emptied(y))

\* What a thread that is left alone lists, and the file it leaves.
Listing(c) == AddAll(Devices[c], (IF c = Video THEN Films ELSE <<>>) \o Files[c])
WholeFile(c, first) ==
  [version |-> "new", init |-> TRUE, first |-> first, mixed |-> FALSE,
   member |-> SortFrom(Listing(c), SortPlace[c])]

Init ==
  /\ xmb = [c \in Col |-> [init |-> FALSE, group |-> NoGroup, first |-> 0, member |-> <<>>]]
  /\ file = [c \in Filled |-> NoFile]
  /\ loading = {} /\ pc = [c \in Filled \cup {Browse} |-> "idle"]
  /\ next = [c \in Filled \cup {Browse} |-> 1]
  /\ xmb_icon = Game /\ path = << >> /\ entry = << >> /\ opened = Hdd /\ browsing = FALSE
  /\ last = [icon |-> Game, first |-> 0]
  /\ booted = FALSE /\ entering = FALSE /\ visits = {} /\ left = [event |-> 0, scroll |-> 0, folder |-> 0]
  /\ blurred = {} /\ astray = FALSE

(***************************************************************************)
(* The start: the saved columns are read with the groups of the last       *)
(* session, the icons are made, and the cursor goes where it was.          *)
(***************************************************************************)
Boot ==
  ~booted /\ \E s \in Starts :
    LET c0 == [xmb EXCEPT ![Game].group = s.game]
        groups == [c \in Filled |-> CASE c = Music -> [main |-> 0, alpha |-> s.music]
                                      [] c = Retro -> s.retro [] OTHER -> NoGroup]
        read == [c \in Col |-> IF c \in Filled
                   THEN ReadColumn([c0[c] EXCEPT !.group = groups[c]], s.file[c], c, groups[c])
                   ELSE c0[c]]
    IN /\ booted' = TRUE
       /\ file' = [c \in Filled |-> Removed(s.file[c])]
       /\ InitIcons(read)
       /\ xmb_icon' = s.last.icon /\ last' = s.last /\ visits' = s.visits /\ left' = s.left
       /\ astray' = (s.retro.main # 0 /\ s.retro.alpha = 0 /\ s.file[Retro].version = "new")
       /\ UNCHANGED << next, path, entry, opened, browsing, entering, blurred >>

(***************************************************************************)
(* The menu thread.                                                        *)
(***************************************************************************)
Menu == booted /\ ~entering
KeepsBrowse == UNCHANGED << path, entry, opened, browsing, entering >>
Spends(kind) == left[kind] > 0 /\ left' = [left EXCEPT ![kind] = @ - 1]
Event == Menu /\ Spends("event")
         /\ UNCHANGED << next, xmb_icon, opened, path, entry, entering, visits, booted >>

\* Drawing loads the visited column if it has to be (draw_whole_xmb).
DrawBrowse == Menu /\ browsing /\ CanLoad(Browse, xmb) /\ Load(Browse, xmb) /\ UNCHANGED blurred
DrawColumn == /\ Menu /\ ~(browsing /\ ~xmb[Browse].init) /\ xmb_icon \in Filled
              /\ CanLoad(xmb_icon, xmb) /\ Load(xmb_icon, xmb) /\ UNCHANGED blurred
DrawGames == /\ Menu /\ xmb_icon \in {Game, Faves} /\ ~xmb[xmb_icon].init
             /\ xmb' = GameColumn(xmb) /\ blurred' = GameBlurs(blurred, xmb)
             /\ UNCHANGED << loading, pc >>
Draw == /\ DrawBrowse \/ DrawColumn \/ DrawGames
        /\ KeepsBrowse /\ UNCHANGED << file, next, xmb_icon, last, booted, visits, left, astray >>

Move == /\ Menu /\ ~browsing /\ \E d \in {-1, 1} : xmb_icon + d \in visits /\ xmb_icon' = xmb_icon + d
        /\ KeepsBrowse
        /\ UNCHANGED << xmb, file, loading, pc, next, last, booted, visits, left, blurred, astray >>

\* Up and down turn round at the ends; in between the cursor moves when the slide ends.
Cursor_NoTop(d, first, size) ==
  IF d = 1 /\ first = size - 1 THEN 0 ELSE first + d
Cursor_PastEnd(d, first, size) ==
  CASE d = -1 /\ first = 0 -> size - 1 [] d = 1 /\ first = size -> 0 [] OTHER -> first + d
Cursor(d, first, size) ==
  CASE d = -1 /\ first = 0 -> size - 1
    [] d = 1 /\ first = size - 1 -> 0
    [] d = -1 /\ first > 0 -> first - 1
    [] d = 1 /\ first < size - 1 -> first + 1
    [] OTHER -> first
Scroll == /\ Menu /\ Spends("scroll")
          /\ LET c == IF browsing THEN Browse ELSE xmb_icon
             IN /\ Size(c) > 1
                /\ \E d \in {-1, 1} : xmb' = [xmb EXCEPT ![c].first = Cursor(d, @, Size(c))]
          /\ KeepsBrowse
          /\ UNCHANGED << file, loading, pc, next, xmb_icon, last, booted, visits, blurred, astray >>

\* SQUARE: the next emulator or genre, or the next letters (always in the music column).  It
\* waits for the threads of the videos and the emulators, and not for that of the music.
Square ==
  \E ab \in BOOLEAN :
    LET c == xmb_icon
        letters == ab \/ c = Music
        a == IF letters THEN (xmb[c].group.alpha + 1) % (Other + 1) ELSE xmb[c].group.alpha
        m == IF letters THEN xmb[c].group.main ELSE (xmb[c].group.main + 1) % (Mains + 1)
        g == [main |-> m, alpha |-> a]
        read == ReadColumn(xmb[c], file[c], c, g)
    IN /\ Event /\ ~browsing /\ c \in {Music, Game, Retro} /\ loading \cap {Retro, Video} = {}
       /\ CASE c = Music ->
                 /\ xmb' = [xmb EXCEPT ![c] = [read EXCEPT !.group = g, !.member = SortFrom(@, 0)]]
                 /\ blurred' = IF c \in loading \/ (file[c].version = "new" /\ file[c].mixed)
                               THEN blurred \cup {c}
                               ELSE IF file[c].version = "new" THEN blurred \ {c} ELSE blurred
            [] c = Retro ->
                 /\ xmb' = [xmb EXCEPT ![c] =
                      [read EXCEPT !.group = g, !.member = SortFrom(@, 1),
                                   !.first = IF read.member = << >> THEN @ ELSE 1]]
                 /\ UNCHANGED blurred
            [] c = Game ->
                 LET x == [xmb EXCEPT ![Game].init = FALSE, ![Game].group = g, ![Faves].init = FALSE]
                 IN xmb' = GameColumn(x) /\ blurred' = GameBlurs(blurred, x)
       /\ astray' = (astray /\ c # Retro)
       /\ UNCHANGED << file, loading, pc, browsing, last >>

\* Refresh: from the menu of a column, and by the first member of the emulators.
RefreshColumn ==
  /\ Event /\ ~browsing /\ xmb_icon \in {Photo, Music, Video} /\ loading \ {Browse} = {}
  /\ LET x == [xmb EXCEPT ![xmb_icon].init = FALSE]
         y == [x EXCEPT ![Game].init = FALSE]
     IN IF xmb_icon = Video THEN xmb' = GameColumn(y) /\ blurred' = GameBlurs(blurred, y)
        ELSE xmb' = x /\ UNCHANGED blurred
  /\ UNCHANGED << file, loading, pc, browsing, last, astray >>
RefreshRetro ==
  /\ Event /\ ~browsing /\ xmb_icon = Retro /\ xmb[Retro].first = 0 /\ Retro \notin loading
  /\ LET x == [xmb EXCEPT ![Retro].init = FALSE, ![Retro].member = << >>, ![Retro].group = NoGroup]
     IN IF CanLoad(Retro, x) THEN Load(Retro, x) ELSE LoadNothing(x)
  /\ file' = [file EXCEPT ![Retro] = NoFile]
  /\ UNCHANGED << browsing, last, blurred, astray >>

\* Devices come and go, and the list of games is read again: what of the columns is dropped.
Uninit(x, cs) == [c \in Col |-> IF c \in cs THEN [x[c] EXCEPT !.init = FALSE] ELSE x[c]]
Emptied(x, cs) ==
  [c \in Col |-> IF c \in cs THEN [x[c] EXCEPT !.init = FALSE, !.first = 0, !.member = << >>] ELSE x[c]]
Rebuild(x, lost) ==
  /\ InitIcons(x) /\ blurred' = GameBlurs(blurred \cup lost, x)
  /\ last' = [icon |-> xmb_icon, first |-> xmb[xmb_icon].first]
DeviceAdded == /\ Event /\ UNCHANGED << file, browsing, astray >>
               /\ Rebuild(Emptied(xmb, Col \ {Retro}), loading \ {Browse, Retro})
DeviceRemoved == /\ Event /\ UNCHANGED << file, astray >> /\ browsing' \in {browsing, FALSE}
                 /\ Rebuild(Uninit(xmb, {Game, Faves}), {})
ReadAgain == /\ Event /\ UNCHANGED << file, browsing, astray >>
             /\ \E expand_media \in BOOLEAN :
                  LET cs == {Game, Faves} \cup (IF expand_media THEN {Photo, Music, Video} ELSE {})
                  IN Rebuild(Uninit(xmb, cs), {})
DiscAdded == /\ Event /\ xmb' = Uninit(xmb, {Game, Faves})
             /\ last' = [icon |-> xmb_icon, first |-> xmb[xmb_icon].first]
             /\ UNCHANGED << file, loading, pc, browsing, blurred, astray >>
Export == /\ Event /\ xmb_icon = Music /\ ~browsing /\ xmb' = Uninit(xmb, {Music})
          /\ UNCHANGED << file, loading, pc, browsing, last, blurred, astray >>

(***************************************************************************)
(* Browsing: the path changes first, and then the column is declared empty *)
(* which stops the thread that lists the folder left.                      *)
(***************************************************************************)
Under(c) == IF xmb[c].first < Size(c) THEN xmb[c].member[xmb[c].first + 1] ELSE None
Level == Len(path)
Goes == /\ Menu /\ Spends("folder")
        /\ UNCHANGED << xmb, file, loading, pc, next, xmb_icon, opened, last, booted, visits, blurred, astray >>
Open == /\ Goes /\ ~browsing /\ xmb_icon \in Filled /\ Under(xmb_icon) = Hdd
        /\ path' = << Hdd >> /\ entry' = << 0 >> /\ browsing' = TRUE /\ entering' = TRUE
Enter == /\ Goes /\ browsing /\ Under(Browse) \in DOMAIN Folder
         /\ path' = Append(path, Under(Browse))
         /\ entry' = Append([entry EXCEPT ![Level] = xmb[Browse].first], 0)
         /\ entering' = TRUE /\ UNCHANGED browsing
Leave == /\ Goes /\ browsing
         /\ IF Level > 1 THEN path' = Front(path) /\ entry' = Front(entry) /\ entering' = TRUE /\ UNCHANGED browsing
            ELSE browsing' = FALSE /\ UNCHANGED << path, entry, entering >>
Entered == /\ entering /\ entering' = FALSE /\ xmb' = Uninit(xmb, {Browse})
           /\ UNCHANGED << file, loading, pc, next, xmb_icon, path, entry, opened, browsing, last, booted,
                           visits, left, blurred, astray >>

(***************************************************************************)
(* The threads that fill the columns.                                      *)
(***************************************************************************)
ThreadKeeps == UNCHANGED << xmb_icon, path, entry, browsing, booted, entering, visits, left, astray >>
Goto(c, l) == pc' = [pc EXCEPT ![c] = l]

\* The devices first; the videos are added to what the game list left.
LoadStart_ReturnsWhenDropped(c) ==
  /\ pc[c] = "start" /\ ThreadKeeps /\ UNCHANGED << xmb, file, loading, opened, last, next, blurred >>
  /\ Goto(c, IF xmb[c].init THEN "add" ELSE "idle")
LoadStart_KeepsMembers(c) ==
  /\ pc[c] = "start" /\ ThreadKeeps /\ UNCHANGED << xmb, file, loading, opened, last >>
  /\ next' = [next EXCEPT ![c] = 1] /\ Goto(c, IF xmb[c].init THEN "add" ELSE "save")
  /\ blurred' = IF c = Video \/ ~xmb[c].init THEN blurred ELSE blurred \ {c}
LoadStart(c) ==
  /\ pc[c] = "start" /\ ThreadKeeps /\ UNCHANGED << file, loading, opened, last >>
  /\ next' = [next EXCEPT ![c] = 1]
  /\ IF ~xmb[c].init THEN Goto(c, "save") /\ UNCHANGED << xmb, blurred >>
     ELSE /\ Goto(c, "add")
          /\ xmb' = CASE c = Video -> xmb
                      [] c = Retro -> [xmb EXCEPT ![c].group = NoGroup, ![c].member = Devices[c]]
                      [] OTHER -> [xmb EXCEPT ![c].first = 0, ![c].group = NoGroup, ![c].member = Devices[c]]
          /\ blurred' = IF c = Video THEN blurred ELSE blurred \ {c}
More(c) == next[c] <= Len(Files[c]) /\ Size(c) < MAX_XMB_MEMBERS - 1
LoadAdd(c) ==
  /\ pc[c] = "add" /\ More(c) /\ ThreadKeeps /\ UNCHANGED << file, loading, pc, opened, last, blurred >>
  /\ xmb' = [xmb EXCEPT ![c].member = Add(@, Files[c][next[c]])]
  /\ next' = [next EXCEPT ![c] = @ + 1]
LoadSort(c) ==
  /\ pc[c] = "add" /\ ~More(c) /\ Goto(c, "save") /\ ThreadKeeps
  /\ xmb' = [xmb EXCEPT ![c].member = SortFrom(@, SortPlace[c]),
                        ![c].first = IF c = Retro /\ Size(c) > 2 THEN 1 ELSE @]
  /\ UNCHANGED << file, loading, next, opened, last, blurred >>
\* The cursor goes back to where it was, and the column is saved unless it is grouped.
LoadSave(c) ==
  LET back == last.icon = c /\ last.first < Size(c)
      x == [xmb[c] EXCEPT !.first = IF back THEN last.first ELSE @,
                          !.group = IF c = Retro THEN NoGroup ELSE @]
  IN /\ pc[c] = "save" /\ Goto(c, "exit") /\ ThreadKeeps /\ UNCHANGED << loading, next, opened, blurred >>
     /\ xmb' = [xmb EXCEPT ![c] = x]
     /\ last' = IF back THEN [icon |-> 0, first |-> 0] ELSE last
     /\ file' = IF x.group # NoGroup THEN file
                ELSE [file EXCEPT ![c] =
                       IF x.member = << >> THEN NoFile
                       ELSE [version |-> "new", init |-> x.init, first |-> x.first, member |-> x.member,
                             mixed |-> c \in blurred]]
LoadExit(c) ==
  /\ pc[c] = "exit" /\ Goto(c, "idle") /\ loading' = loading \ {c}
  /\ ThreadKeeps /\ UNCHANGED << xmb, file, next, opened, last, blurred >>

\* The browse thread gives each entry it reads the path of the folder of that moment.
BrowseStart ==
  /\ pc[Browse] = "start" /\ ThreadKeeps /\ UNCHANGED << file, loading, last, blurred >>
  /\ next' = [next EXCEPT ![Browse] = 1]
  /\ IF ~xmb[Browse].init THEN Goto(Browse, "exit") /\ UNCHANGED << xmb, opened >>
     ELSE /\ Goto(Browse, "add") /\ xmb' = [xmb EXCEPT ![Browse].member = << >>]
          /\ opened' = Last(path)
BrowseAdd ==
  /\ pc[Browse] = "add" /\ ThreadKeeps /\ UNCHANGED << file, loading, opened, last, blurred >>
  /\ IF xmb[Browse].init /\ next[Browse] <= Len(Folder[opened])
     THEN LET t == IF Last(path) = opened THEN Folder[opened][next[Browse]] ELSE Strayed
          IN /\ xmb' = [xmb EXCEPT ![Browse].member = Add(@, t)]
             /\ next' = [next EXCEPT ![Browse] = @ + 1] /\ UNCHANGED pc
     ELSE LET s == SortSeq(xmb[Browse].member, Before)
              at == entry[Level]
          IN /\ xmb' = [xmb EXCEPT ![Browse].first = IF at < Len(s) THEN at ELSE @,
                                   ![Browse].member = IF s = << >> THEN << None >> ELSE s]
             /\ Goto(Browse, "exit") /\ UNCHANGED next

LoadStep(c) == LoadStart(c) \/ LoadAdd(c) \/ LoadSort(c) \/ LoadSave(c) \/ LoadExit(c)
LoadPhoto == LoadStep(Photo)
LoadMusic == LoadStep(Music)
LoadVideo == LoadStep(Video)
LoadRetro == LoadStep(Retro)
BrowseStep == BrowseStart \/ BrowseAdd \/ LoadExit(Browse)

Next == \/ Boot \/ Draw \/ Move \/ Scroll \/ Square \/ RefreshColumn \/ RefreshRetro
        \/ DeviceAdded \/ DeviceRemoved \/ ReadAgain \/ DiscAdded \/ Export
        \/ Open \/ Enter \/ Leave \/ Entered
        \/ LoadPhoto \/ LoadMusic \/ LoadVideo \/ LoadRetro \/ BrowseStep
Spec == Init /\ [][Next]_columnsVars
FairSpec == Spec /\ WF_columnsVars(Boot) /\ WF_columnsVars(Draw) /\ WF_columnsVars(Entered)
                 /\ WF_columnsVars(LoadPhoto) /\ WF_columnsVars(LoadMusic) /\ WF_columnsVars(LoadVideo)
                 /\ WF_columnsVars(LoadRetro) /\ WF_columnsVars(BrowseStep)

(***************************************************************************)
(* Properties.                                                             *)
(***************************************************************************)
Title == Fixed \cup {None, Strayed} \cup Names
Group == [main : 0 .. Mains, alpha : 0 .. Other]
\* The columns hold titles, within their room, and a thread has a place in its code.
TypeOK ==
  /\ \A c \in Col : /\ xmb[c].init \in BOOLEAN /\ xmb[c].group \in Group /\ xmb[c].first \in Nat
                    /\ ToSet(xmb[c].member) \subseteq Title /\ Size(c) < MAX_XMB_MEMBERS
  /\ \A c \in Filled : file[c].version \in {"none", "old", "new"}
  /\ loading \subseteq Filled \cup {Browse} /\ blurred \subseteq Filled
  /\ \A c \in Filled \cup {Browse} : pc[c] \in {"idle", "start", "add", "save", "exit"}
  /\ xmb_icon \in 3 .. 8 /\ ToSet(path) \subseteq Title /\ Len(entry) = Len(path)

\* One column is filled at a time, by the one thread its flag tells of (add_*_column).
LoadersApart ==
  /\ \A c \in Filled \cup {Browse} : c \in loading <=> pc[c] # "idle"
  /\ \A c, d \in Filled : {c, d} \subseteq loading => c = d

\* A column that is shown as loaded lists each title of the media once and, when it is grouped,
\* exactly those of its group, whatever was dropped, read back or regrouped on the way;
\* excused is one the menu thread changed while its thread was filling it.
SameTitles(s, t) == SortSeq(s, Before) = SortSeq(t, Before)
LoadedComplete ==
  \A c \in Filled : xmb[c].init /\ c \notin loading \cup blurred /\ booted
                    => SameTitles(xmb[c].member, Filter(Listing(c), xmb[c].group))

\* What is saved for the next start is a whole list, or says that it is none (save_xmb_column).
SavedWhole ==
  \A c \in Filled : file[c].version = "new" /\ file[c].init /\ ~file[c].mixed
                    => SameTitles(file[c].member, Listing(c))

\* A folder that is shown lists its own entries, by their own paths: what the thread read of
\* another one, while the path changed, is never shown as loaded.
BrowseShowsFolder ==
  browsing /\ ~entering /\ xmb[Browse].init /\ Browse \notin loading
  => SameTitles(xmb[Browse].member,
                IF Folder[Last(path)] = << >> THEN << None >> ELSE Folder[Last(path)])

\* The cursor is on a member of each column that is loaded, through reloads that shrink it.
\* Excused are the emulators that were grouped at start.
CursorInside ==
  \A c \in Col \ {Browse} : xmb[c].init /\ c \notin loading /\ xmb[c].member # << >> /\ ~(c = Retro /\ astray)
                            => xmb[c].first < Size(c)

\* The visited column is loaded if the user stays, in the end also the one that was dropped
\* while its thread ran; the video column waits for the game column, which is only listed again
\* when it is visited itself after a disc was put in.
Shown(c) == xmb[c].init /\ c \notin loading
VisitedLoads ==
  /\ \A c \in Filled : booted /\ xmb_icon = c /\ ~browsing
                       ~> (Shown(c) \/ xmb_icon # c \/ browsing \/ (c = Video /\ ~xmb[Game].init))
  /\ browsing ~> (Shown(Browse) \/ ~browsing)
=============================================================================
