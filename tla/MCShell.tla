------------------------------ MODULE MCShell ------------------------------
(***************************************************************************)
(* What the menu lists and keeps, one part at a time: "columns", the lists *)
(* of the columns; "titles", the list of games and films behind them;      *)
(* "settings", the settings over two sessions; "sfo", a PARAM.SFO and the  *)
(* changes made to it.                                                     *)
(***************************************************************************)
EXTENDS Columns

VARIABLES
  part, settings, sfo,
  titlesPc, titlesIcon,   \* pc and xmb_icon of TitleList, whose other variables have their names
  present, disk, disc, notices, find_device, home,
  fdevices, fdevices_old, forcedevices, reload_fdevices, dev_changed, dev_added, dev_removed,
  disc_in_tray, hide_bd, display_mode, menu_list, first_launch, is_reloaded, column,
  list_file, list_file_state, scanned, untold, full, twice, ragged, shifted, events, starts

Settings == INSTANCE Settings
Sfo == INSTANCE ParamSfo

\* The list: two devices that come and go, one of them a card; two options that name the same folder of
\* the internal disk; a film of two titles.
Dvd == [content |-> "DVD", title |-> 0, mounted |-> TRUE]
Ps3 == [content |-> "PS3", title |-> 6, mounted |-> TRUE]
Ps1 == [content |-> "PS1", title |-> 0, mounted |-> FALSE]
OnDisk == ("root film" :> [folder |-> "root", kind |-> "AVCHD", titles |-> << 4 >>])
       @@ ("game" :> [folder |-> "GAMES", kind |-> "PS3", titles |-> << 3 >>])
       @@ ("movie" :> [folder |-> "GAMES", kind |-> "AVCHD", titles |-> << 2, 5 >>])
Console(plugged, held, d) == [plugged |-> plugged, held |-> held, disc |-> d]
NoDvd == [content |-> "none", title |-> 0, mounted |-> FALSE]
List == INSTANCE TitleList WITH
  pc <- titlesPc, xmb_icon <- titlesIcon,
  External <- {1, 14}, HomesOf <- (0 :> << "GAMES", "GAMES" >>) @@ (1 :> << "root", "GAMES" >>) @@ (14 :> << "GAMES" >>),
  Dirs <- DOMAIN OnDisk, Folder <- [g \in DOMAIN OnDisk |-> OnDisk[g].folder],
  Kind <- [g \in DOMAIN OnDisk |-> OnDisk[g].kind], Titles <- [g \in DOMAIN OnDisk |-> OnDisk[g].titles],
  Discs <- {Ps3, Dvd, Ps1}, Holdings <- {{"game", "root film"}, {"movie", "game"}},
  Begins <- {Console({}, {"movie", "game"}, NoDvd), Console({1, 14}, {"game", "root film"}, Dvd),
             Console({1}, {"movie", "game"}, Ps3)},
  expand_avchd <- TRUE, MAX_LIST <- 5, MaxEvents <- 2, MaxStarts <- 2

titlesVars == << titlesPc, titlesIcon, present, disk, disc, notices, find_device, home, fdevices,
  fdevices_old, forcedevices, reload_fdevices, dev_changed, dev_added, dev_removed, disc_in_tray, hide_bd,
  display_mode, menu_list, first_launch, is_reloaded, column, list_file, list_file_state, scanned, untold,
  full, twice, ragged, shifted, events, starts >>
mcvars == << part, columnsVars, settings, sfo, titlesVars >>

\* The titles, in the order of their names.
A == 5
B == 6
D == 7
Movie == 8
G == 9
N == 10
P == 11
S == 12
V == 13
W == 14
Z == 15
MCNames == A .. Z
MCFiles == (Photo :> << P >>) @@ (Music :> << N, A >>) @@ (Video :> << W, V >>)
           @@ (Retro :> << S, G >>)
MCGames == << Z, B, Movie >>
MCFilm == {Movie}
MCFav == {B}
MCMain == [t \in 0 .. Z |-> IF t \in {S, B} THEN 1 ELSE 2]
MCLetter == [t \in 0 .. Z |-> IF t \in {A, B, G} THEN 1 ELSE 2]
MCFolder == (Hdd :> << D, A >>) @@ (D :> << N >>)
None4 == [c \in Filled |-> NoFile]
All4 == [c \in Filled |->
           IF c = Photo THEN [version |-> "old"] ELSE WholeFile(c, Len(Listing(c)) - 1)]
Session(f, place, cursor, v, e, s, d) ==
  [file |-> f, game |-> NoGroup, music |-> 0, retro |-> NoGroup,
   last |-> [icon |-> place, first |-> cursor], visits |-> v, left |-> [event |-> e, scroll |-> s, folder |-> d]]
Grouped == [main |-> 1, alpha |-> 0]
MCStarts ==
  {Session(None4, Video, 0, {Video, Game}, 2, 0, 0),
   [Session(All4, Music, 1, {Photo, Music}, 2, 1, 0) EXCEPT !.music = 1],
   [Session(All4, Retro, 1, {Game, Faves, Retro}, 2, 1, 0)
      EXCEPT !.retro = Grouped, !.game = Grouped],
   Session(None4, Photo, 0, {Photo}, 0, 1, 4)}

MCInit ==
  /\ part \in {"columns", "titles", "settings", "sfo"}
  /\ Init
  /\ IF part = "titles" THEN List!Init ELSE List!InitWith(Console({}, {}, NoDvd))
  /\ IF part = "settings" THEN Settings!Init ELSE Settings!InitWith(Settings!Absent, Settings!Absent)
  /\ IF part = "sfo" THEN Sfo!Init ELSE Sfo!InitWith(<< >>, << >>, TRUE)

InColumns(act) == part = "columns" /\ act /\ UNCHANGED << part, titlesVars, settings, sfo >>
MCNext ==
  \/ InColumns(Next)
  \/ part = "titles" /\ List!Next /\ UNCHANGED << part, columnsVars, settings, sfo >>
  \/ part = "settings" /\ Settings!Next /\ UNCHANGED << part, columnsVars, titlesVars, sfo >>
  \/ part = "sfo" /\ Sfo!Next /\ UNCHANGED << part, columnsVars, titlesVars, settings >>

\* The fairness of Columns.
MCFairSpec ==
  /\ MCInit /\ [][MCNext]_mcvars
  /\ WF_mcvars(InColumns(Boot)) /\ WF_mcvars(InColumns(Draw)) /\ WF_mcvars(InColumns(Entered))
  /\ WF_mcvars(InColumns(LoadPhoto)) /\ WF_mcvars(InColumns(LoadMusic))
  /\ WF_mcvars(InColumns(LoadVideo)) /\ WF_mcvars(InColumns(LoadRetro))
  /\ WF_mcvars(InColumns(BrowseStep))

\* Apart from the types, what a column or a saved list holds when it says it is complete is each title of the media
\* or the folder once, and one thread at a time fills the columns (Columns); and the list behind them holds what
\* each device held when it was scanned, which is what it holds now if the program was told of it (TitleList).
ListsComplete ==
  /\ part = "columns" => /\ TypeOK /\ LoadersApart
                         /\ LoadedComplete /\ SavedWhole /\ BrowseShowsFolder
  /\ part = "titles" => List!TypeOK /\ List!ListRight

\* The cursor stands on a member (Columns), and what it shows is what is started, copied or deleted (TitleList).
CursorRight ==
  /\ part = "columns" => CursorInside
  /\ part = "titles" => List!SelectionRight

\* Apart from the types, what was chosen and saved is found again, in this session and the next: each setting
\* (Settings) and each value of a PARAM.SFO (ParamSfo).
ValuesKept ==
  /\ part = "settings" => Settings!TypeOK /\ Settings!SettingsKept
  /\ part = "sfo" => Sfo!TypeOK /\ Sfo!ParamsKept

=============================================================================
