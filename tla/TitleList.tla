----------------------------- MODULE TitleList -----------------------------
(***************************************************************************)
(* The list of games and films that the columns show (multiman.cpp,        *)
(* menu_list): each turn of the main loop compares the devices that are    *)
(* plugged in with those of the last time and scans the ones that changed, *)
(* and the ones it was told to scan (forcedevices).  Devices and discs     *)
(* come and go meanwhile.  The list and the devices it was made of are     *)
(* saved when the program ends, and taken over by the next start.          *)
(***************************************************************************)
EXTENDS Integers, Sequences, FiniteSetsExt, SequencesExt

CONSTANTS
  External,      \* the devices beside the internal disk and the drive, of 1 .. 15
  HomesOf,       \* per device, the folders that the options name; Root is the device itself
  Dirs,          \* the directories that games and films lie in
  Folder, Kind, Titles,   \* of each the folder; "PS3", "PS2", "DVD" or "AVCHD"; its titles, one or more
  Discs,         \* the discs: [content, title, mounted]
  Holdings,      \* what a device may hold
  Begins,        \* the states the console may be in before: [plugged, held, disc]
  expand_avchd,
  MAX_LIST,
  MaxEvents, MaxStarts    \* bounds: things that happen in one behaviour

Hdd == 0
Drive == 11
Device == {Hdd, Drive} \cup External
Root == "root"
NoDisc == [content |-> "none", title |-> 0, mounted |-> FALSE]

VARIABLES
  present, disk, disc,      \* what is there: devices, their directories, the disc in the drive
  notices,                  \* what the system has not told yet of the drive: discs
  pc, find_device, home,    \* where the main loop is, the device and folder it scans
  fdevices, fdevices_old, forcedevices, reload_fdevices, dev_changed, dev_added, dev_removed,
  disc_in_tray,             \* what the program knows of the drive
  hide_bd, display_mode,
  menu_list, first_launch, is_reloaded,
  xmb_icon, column,         \* the visited column; the list that each column shows
  list_file, list_file_state,
  scanned,                  \* history: what the last scan of each device found
  untold,                   \* history: devices that changed without the program being told
  full, twice, ragged, shifted,   \* history: see the properties
  events, starts

world   == << present, disk, disc, notices >>
bits    == << fdevices, fdevices_old, forcedevices, reload_fdevices >>
changes == << dev_changed, dev_added, dev_removed >>
options == << hide_bd, display_mode >>
titles  == << menu_list, scanned, full, twice, ragged >>
files   == << list_file, list_file_state >>
shown   == << xmb_icon, column, shifted >>
launch  == << first_launch, is_reloaded >>
bounds  == << events, starts >>
titleVars == << world, pc, find_device, home, bits, changes, disc_in_tray, options, titles, launch,
                shown, files, untold, bounds >>

None == -1
Unsaved == << >>                \* a saved file is << contents >>
Unlisted == << [flags |-> None, path |-> << None, "" >>, content |-> "", title |-> None] >>
Video == 5
Game == 6

-----------------------------------------------------------------------------
(***************************************************************************)
(* The list.                                                               *)
(***************************************************************************)
Entry(d, g, title) == [flags |-> d, path |-> << d, g >>, content |-> Kind[g], title |-> title]
DiscPath(content) == << Drive, IF content = "DVD" THEN "VIDEO_TS" ELSE "" >>
DiscEntry(content, title) ==
  [flags |-> Drive, path |-> DiscPath(content), content |-> content, title |-> title]

IsFilm(e) == e.content \in {"AVCHD", "BDMV", "DVD"}

\* A place that becomes free is taken by the last entry (delete_entries, sort_entries).
Without(s, gone) ==
  LET Turn(r, i) ==
        IF r.at[r.n] \notin gone THEN [r EXCEPT !.n = @ + 1]
        ELSE [r EXCEPT !.at[r.n] = r.at[r.max], !.max = @ - 1]
      left == FoldLeft(Turn, [n |-> 1, max |-> Len(s), at |-> [i \in DOMAIN s |-> i]], s)
  IN  [k \in 1 .. left.max |-> s[left.at[k]]]

delete_entries(s, d) == Without(s, { n \in DOMAIN s : s[n].flags = d })

\* delete_entry.
DeleteEntry(s, n) == Front([s EXCEPT ![n] = Last(s)])

\* Each pair of places is looked at once; a disc comes first and is not compared.
Exchange(s, p) ==
  LET a == s[p[1]]
      b == s[p[2]]
  IN  IF \/ a.title > b.title /\ Drive \notin {a.flags, b.flags}
         \/ b.flags = Drive /\ p[1] = 1
      THEN [s EXCEPT ![p[1]] = b, ![p[2]] = a] ELSE s

Pairs(k) == FlattenSeq([n \in 1 .. k - 1 |-> [i \in 1 .. k - n |-> << n, n + i >>]])
Double(s) == { m \in DOMAIN s : \E n \in 1 .. m - 1 : s[n].path = s[m].path /\ s[n].content = "PS3" }

sort_entries_KeepsDoubles(s) == IF Len(s) < 2 THEN s ELSE FoldLeft(Exchange, s, Pairs(Len(s)))

sort_entries(s) ==
  IF Len(s) < 2 THEN s
  ELSE LET t == FoldLeft(Exchange, s, Pairs(Len(s)))
       IN  Without(t, Double(t))

\* What a scan takes of directory g: of the device itself only films, and each only when the
\* display mode shows it.
Taken(d, f, g) ==
  /\ Folder[g] = f
  /\ CASE f = Root -> Kind[g] = "AVCHD" /\ display_mode \in {0, 2}
       [] Kind[g] = "PS3" -> display_mode # 2
       [] Kind[g] = "PS2" -> TRUE
       [] OTHER -> display_mode # 1
Found(d, f) == { g \in disk[d] : Taken(d, f, g) }

TitlesOf(g) == IF Kind[g] = "AVCHD" /\ ~expand_avchd THEN << Titles[g][1] >> ELSE Titles[g]
EntriesOf(d, gs) ==
  FlattenSeq([i \in DOMAIN gs |->
    [k \in DOMAIN TitlesOf(gs[i]) |-> Entry(d, gs[i], TitlesOf(gs[i])[k])]])

\* The entries are put behind the others, as far as there is room.
Clipped(s) == IF Len(s) >= MAX_LIST - 1 THEN SubSeq(s, 1, MAX_LIST - 1) ELSE s

-----------------------------------------------------------------------------
(***************************************************************************)
(* What happens to the console.                                            *)
(***************************************************************************)
Event == events < MaxEvents /\ events' = events + 1 /\ UNCHANGED starts
On == pc # "off"

\* A device that went and came again since the program looked is not noticed.
Unnoticed(d) == IF d \in fdevices \cup fdevices_old \/ ~On THEN {d} ELSE {}

Plug(d) ==
  /\ Event /\ d \in External \ present /\ present' = present \cup {d}
  /\ \E h \in Holdings : disk' = [disk EXCEPT ![d] = h]
  /\ untold' = untold \cup Unnoticed(d)
  /\ UNCHANGED << disc, notices, pc, find_device, home, bits, changes, disc_in_tray, options, titles,
                  launch, shown, files, starts >>

Unplug(d) ==
  /\ Event /\ d \in External \cap present /\ present' = present \ {d}
  /\ UNCHANGED << disk, disc, notices, pc, find_device, home, bits, changes, disc_in_tray, options,
                  titles, launch, shown, files, untold, starts >>

\* The drive: the system tells of it by a callback, when the program calls it next.
ChangeDisc ==
  /\ Event /\ \E c \in Discs \cup {NoDisc} : c # disc /\ (disc = NoDisc \/ c = NoDisc) /\ disc' = c
  /\ notices' = IF On THEN Append(notices, disc') ELSE << >>
  /\ untold' = untold \cup (IF On THEN {} ELSE {Drive})
  /\ UNCHANGED << present, disk, pc, find_device, home, bits, changes, disc_in_tray, options, titles,
                  launch, shown, files, starts >>

\* A program beside it, or a client of the FTP server.
ForeignChange(d) ==
  /\ Event /\ d \in present /\ \E h \in Holdings : h # disk[d] /\ disk' = [disk EXCEPT ![d] = h]
  /\ untold' = untold \cup {d}
  /\ UNCHANGED << present, disc, notices, pc, find_device, home, bits, changes, disc_in_tray, options,
                  titles, launch, shown, files, starts >>

\* funcEject, funcInsert.  A disc that it does not know is UNK_DISC.
DiscChanged ==
  /\ On /\ notices # << >> /\ notices' = Tail(notices)
  /\ disc_in_tray' = Head(notices).content
  /\ forcedevices' = forcedevices \cup {Drive}
  /\ UNCHANGED << present, disk, disc, pc, find_device, home, fdevices, fdevices_old, reload_fdevices,
                  changes, options, titles, launch, shown, files, untold, bounds >>

-----------------------------------------------------------------------------
(***************************************************************************)
(* One refresh.                                                            *)
(***************************************************************************)
TrayFull == disc_in_tray \notin {"unknown", "none"}

\* It is due after three seconds, at the start, and when it was told to scan.  The devices of the last
\* session are those whose entries were loaded.
Refresh ==
  /\ pc \in {"start", "menu", "told"} /\ pc' = "scan" /\ find_device' = 0 /\ home' = 1
  /\ fdevices' = (present \ {Drive})
                   \cup (IF (disc.mounted /\ ~hide_bd) \/ TrayFull THEN {Drive} ELSE {})
  /\ fdevices_old' = IF is_reloaded THEN reload_fdevices ELSE fdevices_old
  /\ forcedevices' = IF is_reloaded /\ menu_list = << >> THEN Device ELSE forcedevices
  /\ dev_changed' = {} /\ dev_added' = {} /\ dev_removed' = {}
  /\ UNCHANGED << world, reload_fdevices, disc_in_tray, options, titles, launch, shown, files, untold,
                  bounds >>

Due == { d \in Device : d >= find_device /\
         (d \in forcedevices \/ (d \in fdevices) # (d \in fdevices_old)) }
Scans(d) == pc = "scan" /\ Due # {} /\ d = Min(Due)

\* A device is done.
Finish(d) ==
  /\ find_device' = d + 1 /\ home' = 1
  /\ forcedevices' = forcedevices \ {d}
  /\ fdevices_old' = (fdevices_old \ {d}) \cup (fdevices \cap {d})

Changes(d) ==
  /\ dev_changed' = dev_changed \cup {d}
  /\ dev_added' = dev_added \cup (IF d \in fdevices \ fdevices_old THEN {d} ELSE {})

\* fill_entries_from_device, folder after folder; the first empties what was listed of the device.
\* Of a card that went meanwhile nothing is touched.
Fill(d) ==
  LET f == HomesOf[d][home]
      opens == d \in present \/ d \notin {14, 15}
      cleared == IF home = 1 /\ opens THEN delete_entries(menu_list, d) ELSE menu_list
      found == IF d \in present THEN Found(d, f) ELSE {}
  IN
  /\ Scans(d) /\ d # Drive /\ d \in fdevices
  /\ \E gs \in SetToSeqs(found) :
       LET s == cleared \o EntriesOf(d, gs) IN
         /\ menu_list' = IF d \in present THEN Clipped(s) ELSE s
         /\ full' = (full \/ Len(s) > MAX_LIST - 1)
  /\ scanned' = [scanned EXCEPT ![d] = IF home = 1 /\ opens THEN found ELSE @ \cup found]
  /\ Changes(d)
  /\ untold' = IF home = 1 THEN untold \ {d} ELSE untold
  /\ IF home < Len(HomesOf[d])
     THEN home' = home + 1 /\ UNCHANGED << find_device, forcedevices, fdevices_old >>
     ELSE Finish(d)
  /\ UNCHANGED << world, pc, fdevices, reload_fdevices, dev_removed, disc_in_tray, options, twice,
                  ragged, launch, shown, files, bounds >>

\* The device is gone.
Drop(d) ==
  /\ Scans(d) /\ d # Drive /\ d \notin fdevices
  /\ menu_list' = delete_entries(menu_list, d) /\ scanned' = [scanned EXCEPT ![d] = {}]
  /\ Changes(d) /\ dev_removed' = dev_removed \cup {d} /\ Finish(d) /\ untold' = untold \ {d}
  /\ UNCHANGED << world, pc, fdevices, reload_fdevices, disc_in_tray, options, full, twice, ragged,
                  launch, shown, files, bounds >>

\* The disc is put behind the others, whatever was listed of the drive; of two of the same place the
\* sort removes the older one when the newer is a game.
DiscListed == { n \in DOMAIN menu_list : menu_list[n].flags = Drive }
Content == IF TrayFull THEN disc_in_tray ELSE "DATA"
NewDisc == DiscEntry(Content, IF Content = "PS3" THEN disc.title ELSE 0)

ScanDisc ==
  /\ Scans(Drive) /\ Drive \in fdevices /\ ~hide_bd
  /\ LET s == IF Content = "PS3" /\ Len(menu_list) >= MAX_LIST
              THEN SubSeq(menu_list, 1, MAX_LIST - 1) ELSE menu_list
         t == sort_entries(Append(s, NewDisc))
     IN  /\ menu_list' = t /\ ragged' = (Len(t) < Len(s) + 1)
         /\ full' = (full \/ Len(s) < Len(menu_list))
         /\ twice' = (Cardinality({ n \in DOMAIN t : t[n].flags = Drive }) > 1)
  /\ scanned' = [scanned EXCEPT ![Drive] = {NewDisc}]
  /\ Changes(Drive) /\ Finish(Drive) /\ untold' = untold \ {Drive}
  /\ UNCHANGED << world, pc, fdevices, reload_fdevices, dev_removed, disc_in_tray, options, launch,
                  shown, files, bounds >>

DropDisc ==
  /\ Scans(Drive) /\ (Drive \notin fdevices \/ hide_bd)
  /\ LET s == delete_entries(menu_list, Drive)
         t == sort_entries(s)
     IN  menu_list' = t /\ ragged' = (Len(t) < Len(s))
  /\ scanned' = [scanned EXCEPT ![Drive] = {}] /\ twice' = FALSE
  /\ Changes(Drive) /\ dev_removed' = dev_removed \cup {Drive} /\ Finish(Drive)
  /\ untold' = untold \ {Drive}
  /\ UNCHANGED << world, pc, fdevices, reload_fdevices, disc_in_tray, options, full, launch, shown,
                  files, bounds >>

\* The columns are made of the list s.
Relisted_IfUnlisted(s) == [c \in {Video, Game} |-> IF column[c] = Unlisted THEN s ELSE column[c]]

Relisted(s) == [c \in {Video, Game} |-> s]

\* All devices are done.  A new disc alone only marks the columns of games to be listed again; the
\* films of the list stay in the column of the videos.
AfterScan ==
  /\ pc = "scan" /\ Due = {} /\ pc' = "menu"
  /\ LET s == IF dev_changed # {} /\ first_launch THEN sort_entries(menu_list) ELSE menu_list IN
       IF dev_changed # {} \/ first_launch
       THEN menu_list' = sort_entries(s) /\ ragged' = (Len(menu_list') < Len(s))
       ELSE UNCHANGED << menu_list, ragged >>
  /\ CASE dev_added = {Drive} /\ dev_changed = {Drive} /\ ~first_launch ->
            column' = [column EXCEPT ![Game] = Unlisted] /\ shifted' = TRUE
       [] dev_changed = {} /\ ~first_launch -> UNCHANGED << column, shifted >>
       [] OTHER -> column' = Relisted(menu_list') /\ shifted' = FALSE
  /\ first_launch' = FALSE /\ is_reloaded' = FALSE
  /\ forcedevices' = IF menu_list' = << >> THEN {} ELSE forcedevices
  /\ untold' = untold \cup (IF menu_list' = << >> THEN forcedevices ELSE {})
  /\ UNCHANGED << world, find_device, home, fdevices, fdevices_old, reload_fdevices, changes,
                  disc_in_tray, options, scanned, full, twice, xmb_icon, files, bounds >>

-----------------------------------------------------------------------------
(***************************************************************************)
(* The user.  What the program is told to scan by an action is scanned     *)
(* before the next one; the columns are drawn meanwhile ("told").          *)
(***************************************************************************)
Draws == pc \in {"menu", "told"}

\* A column that is not listed is when it is visited.
Visit ==
  /\ Draws /\ xmb_icon' \in {Video, Game}
  /\ IF xmb_icon' = Game /\ column[Game] = Unlisted
     THEN column' = Relisted(menu_list) /\ shifted' = FALSE
     ELSE UNCHANGED << column, shifted >>
  /\ xmb_icon' # xmb_icon \/ column' # column
  /\ UNCHANGED << world, pc, find_device, home, bits, changes, disc_in_tray, options, titles, launch,
                  files, untold, bounds >>

\* The member under the cursor names its place in the list: n is the entry that is chosen there.
Chosen(n) ==
  /\ n \in DOMAIN column[xmb_icon] \cap DOMAIN menu_list
  /\ LET e == column[xmb_icon][n] IN e.content = "PS3" \/ IsFilm(e)
  /\ IsFilm(column[xmb_icon][n]) = (xmb_icon = Video)

\* Told to scan devices D, it forgets what else it was told.
Told(D) == forcedevices' = D /\ untold' = untold \cup (forcedevices \ D)

\* refresh_list, and the button that changes the display mode: everything is scanned at once.
RefreshAll ==
  /\ Event /\ pc = "menu" /\ pc' = "start" /\ is_reloaded' = FALSE
  /\ \E m \in {display_mode, (display_mode + 1) % 3} :
       /\ display_mode' = m
       /\ \/ shifted' = FALSE /\ column' = [c \in {Video, Game} |-> Unlisted]
          \/ m # display_mode /\ UNCHANGED << column, shifted >>
  /\ Told(Device) /\ menu_list' = << >> /\ full' = FALSE /\ twice' = FALSE
  /\ UNCHANGED << world, find_device, home, fdevices, fdevices_old, reload_fdevices, changes,
                  disc_in_tray, hide_bd, scanned, ragged, first_launch, xmb_icon, files, starts >>

\* The settings: a display mode that is changed here counts for the drive only.
ChangeSetting ==
  /\ Event /\ pc = "menu" /\ pc' = "told"
  /\ \/ hide_bd' = ~hide_bd /\ UNCHANGED display_mode /\ Told({Drive})
     \/ /\ display_mode' \in (0 .. 2) \ {display_mode} /\ UNCHANGED hide_bd
        /\ forcedevices' = {Drive} /\ untold' = Device
  /\ UNCHANGED << world, find_device, home, fdevices, fdevices_old, reload_fdevices, changes,
                  disc_in_tray, titles, launch, shown, files, starts >>

\* open_submenu lists the columns again, whatever is chosen in it; what deletes or copies leaves the
\* column of games to be listed.
OpenMenu(n) ==
  /\ pc = "menu" /\ Chosen(n)
  /\ column' = Relisted(menu_list) /\ shifted' = FALSE
  /\ column' # column
  /\ UNCHANGED << world, pc, find_device, home, bits, changes, disc_in_tray, options, titles, launch,
                  xmb_icon, files, untold, bounds >>
GameUnlisted == column' = [Relisted(menu_list) EXCEPT ![Game] = Unlisted]

\* delete_title: the device is told by the first ten bits, or it is the drive's.  A deletion may be
\* aborted and leave the directory.
ToScan(d) == IF d <= 10 THEN {d} ELSE {Drive}

DeleteTitle(n) ==
  /\ Event /\ pc = "menu" /\ pc' = "told" /\ Chosen(n)
  /\ LET e == menu_list[n]
         s == DeleteEntry(menu_list, n)
     IN
     /\ e.flags # Drive
     /\ \/ disk' = [disk EXCEPT ![e.flags] = @ \ {e.path[2]}]
        \/ UNCHANGED disk
     /\ menu_list' = sort_entries(s) /\ ragged' = (Len(menu_list') < Len(s))
     /\ scanned' = [scanned EXCEPT ![e.flags] = @ \ {e.path[2]}]
     /\ forcedevices' = ToScan(e.flags)
     /\ untold' = untold \cup (forcedevices \ forcedevices')
                    \cup (IF e.flags <= 10 THEN {} ELSE {e.flags})
  /\ shifted' = TRUE /\ GameUnlisted
  /\ UNCHANGED << present, disc, notices, find_device, home, fdevices, fdevices_old, reload_fdevices,
                  changes, disc_in_tray, options, full, twice, launch, xmb_icon, files, starts >>

CopyTitle_ScansSource(n) ==
  /\ Event /\ pc = "menu" /\ pc' = "told" /\ Chosen(n)
  /\ LET e == menu_list[n] IN
     \E d \in (fdevices \cap present) \ {Drive, e.flags} :
       /\ e.flags # Drive /\ d <= 10 /\ e.content = "PS3" /\ e.path[2] \notin disk[d]
       /\ disk' = [disk EXCEPT ![d] = @ \cup {e.path[2]}] \/ UNCHANGED disk
       /\ Told({e.flags})
  /\ shifted' = FALSE /\ GameUnlisted
  /\ UNCHANGED << present, disc, notices, find_device, home, fdevices, fdevices_old, reload_fdevices,
                  changes, disc_in_tray, options, titles, launch, xmb_icon, files, starts >>

\* copy_title to another device; an aborted copy is deleted.
CopyTitle(n) ==
  /\ Event /\ pc = "menu" /\ pc' = "told" /\ Chosen(n)
  /\ LET e == menu_list[n] IN
     \E d \in (fdevices \cap present) \ {Drive, e.flags} :
       /\ e.flags # Drive /\ d <= 10 /\ e.content = "PS3" /\ e.path[2] \notin disk[d]
       /\ disk' = [disk EXCEPT ![d] = @ \cup {e.path[2]}] \/ UNCHANGED disk
       /\ Told({d})
  /\ shifted' = FALSE /\ GameUnlisted
  /\ UNCHANGED << present, disc, notices, find_device, home, fdevices, fdevices_old, reload_fdevices,
                  changes, disc_in_tray, options, titles, launch, xmb_icon, files, starts >>

\* The file manager copies, moves or deletes folders: it has the internal disk or the first USB
\* devices scanned.
FileManager(d) ==
  LET D == IF d = Hdd THEN {Hdd} ELSE IF d <= 10 THEN (1 .. 7) \cap Device ELSE {} IN
  /\ Event /\ pc = "menu" /\ d \in present /\ pc' = IF D = {} THEN "menu" ELSE "told"
  /\ \E h \in Holdings : h # disk[d] /\ disk' = [disk EXCEPT ![d] = h]
  /\ forcedevices' = forcedevices \cup D /\ untold' = untold \cup ({d} \ D)
  /\ UNCHANGED << present, disc, notices, find_device, home, fdevices, fdevices_old, reload_fdevices,
                  changes, disc_in_tray, options, titles, launch, shown, files, starts >>

-----------------------------------------------------------------------------
(***************************************************************************)
(* The end of the program, and its start.                                  *)
(***************************************************************************)
histories == << scanned, full, twice, ragged, untold >>

\* unload_modules: the old list is removed first, then the new one and the devices are written.
Exit ==
  /\ Event /\ pc = "menu" /\ pc' = "saving" /\ list_file' = Unsaved
  /\ UNCHANGED << world, find_device, home, bits, changes, disc_in_tray, options, titles, launch, shown,
                  list_file_state, untold, starts >>

SaveList ==
  /\ pc = "saving" /\ pc' = "saved"
  /\ list_file' = << [entries |-> menu_list, scanned |-> scanned, full |-> full, twice |-> twice] >>
  /\ UNCHANGED << world, find_device, home, bits, changes, disc_in_tray, options, titles, launch, shown,
                  list_file_state, untold, bounds >>

SaveState ==
  /\ pc = "saved" /\ pc' = "off" /\ list_file_state' = << fdevices_old >> /\ notices' = << >>
  /\ UNCHANGED << present, disk, disc, find_device, home, bits, changes, disc_in_tray, options, titles,
                  launch, shown, list_file, untold, bounds >>

\* What was found since the list was written is not in it.  The old devices are removed before the new
\* ones are written.
PowerOff ==
  /\ Event /\ On /\ pc' = "off" /\ notices' = << >> /\ untold' = Device
  /\ list_file_state' \in {list_file_state} \cup (IF pc = "saved" THEN {Unsaved} ELSE {})
  /\ UNCHANGED << present, disk, disc, find_device, home, bits, changes, disc_in_tray, options, titles,
                  launch, shown, list_file, starts >>

NoList == [entries |-> << >>, scanned |-> [d \in Device |-> {}], full |-> FALSE, twice |-> FALSE]

\* The path of an entry is still there.
Exists(e) ==
  IF e.flags = Drive THEN disc.mounted /\ (e.content = "DVD" => disc.content = "DVD")
  ELSE e.flags \in present /\ e.path[2] \in disk[e.flags]

\* The list is taken over when everything in it is there.  check_tray says that the drive was
\* looked at when it does not know the disc.
Start ==
  /\ pc = "off" /\ starts < MaxStarts /\ starts' = starts + 1 /\ pc' = "start"
  /\ LET saved == IF list_file # Unsaved THEN list_file[1] ELSE NoList
         old == \A n \in DOMAIN saved.entries : Exists(saved.entries[n])
         list == IF old THEN saved ELSE NoList
         t == sort_entries(list.entries)
         known == disc.mounted /\ disc.content # "DATA"
         reloaded == list_file_state # Unsaved
     IN
     /\ menu_list' = t /\ ragged' = (Len(t) < Len(list.entries))
     /\ scanned' = list.scanned /\ full' = list.full /\ twice' = list.twice
     /\ is_reloaded' = reloaded
     /\ forcedevices' = IF reloaded THEN {} ELSE Device
     /\ disc_in_tray' = IF known \/ disc.content = "PS1" THEN disc.content ELSE "unknown"
     /\ reload_fdevices' = (IF reloaded THEN list_file_state[1] ELSE {})
                             \cup (IF known THEN {} ELSE {Drive})
     /\ untold' = untold \cup (IF known THEN {} ELSE {Drive})
  /\ fdevices' = {} /\ fdevices_old' = {} /\ first_launch' = TRUE
  /\ column' = [c \in {Video, Game} |-> Unlisted] /\ shifted' = FALSE /\ xmb_icon' = Game
  /\ UNCHANGED << world, find_device, home, changes, options, files, events >>

InitWith(b) ==
  /\ present = {Hdd} \cup b.plugged /\ disc = b.disc /\ disk = [d \in Device \ {Drive} |-> b.held]
  /\ notices = << >>
  /\ pc = "off" /\ find_device = 0 /\ home = 1
  /\ fdevices = {} /\ fdevices_old = {} /\ forcedevices = {} /\ reload_fdevices = {}
  /\ dev_changed = {} /\ dev_added = {} /\ dev_removed = {} /\ disc_in_tray = "unknown"
  /\ hide_bd = FALSE /\ display_mode = 0 /\ menu_list = << >>
  /\ first_launch = TRUE /\ is_reloaded = FALSE
  /\ xmb_icon = Game /\ column = [c \in {Video, Game} |-> Unlisted]
  /\ list_file = Unsaved /\ list_file_state = Unsaved
  /\ scanned = [d \in Device |-> {}] /\ untold = {}
  /\ full = FALSE /\ twice = FALSE /\ ragged = FALSE /\ shifted = FALSE /\ events = 0 /\ starts = 0

Init == \E b \in Begins : InitWith(b)

Next ==
  \/ Refresh \/ ScanDisc \/ DropDisc \/ AfterScan \/ DiscChanged \/ ChangeDisc
  \/ Visit \/ RefreshAll \/ ChangeSetting
  \/ \E n \in DOMAIN menu_list : OpenMenu(n) \/ DeleteTitle(n) \/ CopyTitle(n)
  \/ Exit \/ SaveList \/ SaveState \/ PowerOff \/ Start
  \/ \E d \in Device \ {Drive} : \/ Fill(d) \/ Drop(d) \/ Plug(d) \/ Unplug(d) \/ ForeignChange(d)
                                 \/ FileManager(d)

Spec == Init /\ [][Next]_titleVars

-----------------------------------------------------------------------------
Entries == [flags : Device, path : Device \X STRING, content : STRING, title : Nat]

TypeOK ==
  /\ present \subseteq Device /\ disc \in Discs \cup {NoDisc}
  /\ pc \in {"off", "start", "scan", "menu", "told", "saving", "saved"}
  /\ fdevices \subseteq Device /\ fdevices_old \subseteq Device /\ forcedevices \subseteq Device
  /\ display_mode \in 0 .. 2
  /\ untold \subseteq Device /\ \A n \in DOMAIN menu_list : menu_list[n].flags \in Device

\* A device whose scan is still to come.
Owed(d) == d \in forcedevices \/ (d \in present) # (d \in fdevices_old)
DriveOwed == Drive \in forcedevices \/ notices # << >>
             \/ (Drive \in fdevices_old) # (TrayFull \/ (disc.mounted /\ ~hide_bd))

\* In the menu the list holds of each device what the last scan of it found, every title, and a game
\* once even when two options name its folder; and nothing of a device that is gone.  Excepted: what a
\* list that was `full` had no room for.
OfDevice(d) == { n \in DOMAIN menu_list : menu_list[n].flags = d }
Once(g) == Kind[g] = "PS3" => \A d \in Device :
             Cardinality({ n \in OfDevice(d) : menu_list[n].path = << d, g >> }) <= 1
AsScanned ==
  pc = "menu" =>
    /\ \A g \in Dirs : Once(g)
    /\ \A d \in Device \ {Drive} : ~Owed(d) /\ d \notin untold =>
         LET want == UNION { { Entry(d, g, t) : t \in ToSet(TitlesOf(g)) } : g \in scanned[d] }
             have == { menu_list[n] : n \in OfDevice(d) }
         IN  have \subseteq want /\ (full \/ have = want)

\* And the last scan of a device found what is on it now: everything that the program itself changes
\* it scans again.
Fresh ==
  pc = "menu" =>
    \A d \in present \ {Drive} : ~Owed(d) /\ d \notin untold =>
      scanned[d] = UNION { Found(d, HomesOf[d][i]) : i \in DOMAIN HomesOf[d] }

\* The disc is listed first, and once; `twice`: after a disc that is not a game was scanned again.
DiscFirst ==
  pc = "menu" /\ ~twice => DiscListed \subseteq {1}

\* It is listed exactly if the drive holds one and is shown.
DiscShown ==
  pc = "menu" /\ ~twice /\ ~DriveOwed /\ Drive \notin untold /\ ~full =>
    (DiscListed # {}) = (Drive \in fdevices_old /\ ~hide_bd)

\* The others are in order; `ragged`: the last sort put an entry into the place of a double.
InOrder ==
  pc = "menu" /\ ~ragged =>
    \A m, n \in DOMAIN menu_list \ DiscListed : m < n => menu_list[m].title <= menu_list[n].title

\* The list stays inside its array.
Inside == Len(menu_list) <= MAX_LIST \/ twice

ListRight == AsScanned /\ Fresh /\ DiscFirst /\ DiscShown /\ InOrder /\ Inside

\* What a column shows is what is started, copied or deleted: the list is still the one it was made
\* of, in the column of the videos unless a disc came (`shifted`).
SelectionRight ==
  pc = "menu" =>
    /\ column[Game] \in {Unlisted, menu_list}
    /\ ~shifted => column[Video] \in {Unlisted, menu_list}
=============================================================================
