------------------------------ MODULE Settings ------------------------------
(* The settings of multiMAN: the variables of the program, the members of    *)
(* the settings column made from them (add_settings_column), the option menu *)
(* that writes them back (parse_settings), the buttons that change them from *)
(* anywhere, and the two files that keep them between two sessions:          *)
(* options.bin (save_options, parse_ini) and STATE.BIN (write_last_state,    *)
(* parse_last_state).  One setting stands for each way a setting is stored,  *)
(* shown or changed.                                                         *)
EXTENDS Integers, Sequences

VARIABLE settings
\* pc:      "off", "running", or how far the two files are written
\* value:   the variables of the program; overscan in hundredths
\* short:   overscan is a hair under its hundredth: buttons add 0.01f to a float
\* column:  option_selected of each member of the settings column
\* file:    options.bin
\* state:   STATE.BIN, the font once more
\* wanted:  what the user last chose for each setting
\* kept:    what the next session is to find in options.bin
\* behind:  the settings a button changed after the column was made
\* excused: the settings the program has forgotten in a way Choose and Close explain
\* left:    the changes and the sessions still allowed

\* A file: whether it is there, and the values of the lines it has.
Absent == [there |-> FALSE, lines |-> << >>]
File(lines) == [there |-> TRUE, lines |-> lines]
Empty == File(<< >>)
Options == {"settings_advanced", "ftpd_on", "parental_level", "display_mode", "mount_dev_blind", "user_font",
            "showdir", "overscan", "deadzone_x", "repeat_key_delay", "xmb_sparks", "side_menu_color"}
Saved == Options \ {"mount_dev_blind"}

\* What the variables hold before any file is read, the first server start included.
Default == [o \in Options |->
  CASE o = "settings_advanced" -> 1 [] o = "user_font" -> 4 [] o = "showdir" -> 2 [] o = "deadzone_x" -> 30
    [] o = "repeat_key_delay" -> 4 [] o = "xmb_sparks" -> 1 [] OTHER -> 0]

\* The values of the choices a member offers: UpTo(n) is 0 .. n, in order.
UpTo(n) == [i \in 1 .. n + 1 |-> i - 1]
TopOf(o) ==
  CASE o = "parental_level" -> 11 [] o = "side_menu_color" -> 7 [] o = "overscan" -> 10 [] o = "user_font" -> 9
    [] o = "xmb_sparks" -> 3 [] o \in {"display_mode", "showdir"} -> 2 [] OTHER -> 1
Choices(o) ==
  CASE o = "deadzone_x" -> [i \in 1 .. 10 |-> (i - 1) * 10]
    [] o = "repeat_key_delay" -> [i \in 1 .. 5 |-> i * 2]
    [] OTHER -> UpTo(TopOf(o))

\* The members that exist, and the choice each of them shows as the present one.
Advanced == {"ftpd_on", "parental_level", "display_mode", "mount_dev_blind", "side_menu_color"}
Members(v) ==
  {o \in Options \ {"settings_advanced"} :
     /\ o \in Advanced => v["settings_advanced"] = 1
     /\ o = "user_font" => v["user_font"] < 10}
Cut(o, v, short) == IF o = "overscan" /\ short THEN v[o] - 1 ELSE v[o]
Selected_NoOffset(o, v, short) ==
  IF o = "repeat_key_delay" THEN v[o] \div 2 ELSE IF o = "deadzone_x" THEN v[o] \div 10 ELSE Cut(o, v, short)
Selected(o, v, short) ==
  CASE o = "deadzone_x" -> v[o] \div 10
    [] o = "repeat_key_delay" -> v[o] \div 2 - 1
    [] OTHER -> Cut(o, v, short)
ColumnOf(v, short) == [o \in Members(v) |-> Selected(o, v, short)]

\* parse_settings: every member's selected choice becomes the value of its setting.
Applied(v, column) ==
  [o \in Options |-> IF o \in DOMAIN column THEN Choices(o)[column[o] + 1] ELSE v[o]]

\* save_options: one line for each setting, overscan truncated to its hundredth.
Written(v, short) == File([o \in Saved |-> Cut(o, v, short)])

\* parse_ini: the lines found replace the values, out of range ones by a fixed value.
Clamped(o, n) ==
  CASE o = "parental_level" -> IF n < 0 \/ n > 11 THEN 0 ELSE n
    [] o = "side_menu_color" -> IF n > 7 THEN 0 ELSE n
    [] o = "user_font" -> IF n < 0 \/ n > 19 THEN 1 ELSE n
    [] o = "overscan" -> IF n > 10 THEN 10 ELSE n
    [] o = "deadzone_x" -> IF n > 90 THEN 90 ELSE n
    [] OTHER -> n
Loaded(v, file) == [o \in Options |-> IF o \in DOMAIN file.lines THEN Clamped(o, file.lines[o]) ELSE v[o]]
\* parse_last_state, after the options: the font it holds wins.
StateOf(font) == File([o \in {"user_font"} |-> font])
StateRead(v, state) == Loaded(v, state)

-----------------------------------------------------------------------------
MaxChanges == 2     \* settings changed, all sessions together
MaxSessions == 2    \* sessions that begin with a power on

Ends(o) == {0, Len(Choices(o)) - 1}   \* the choices the user makes

\* The files the first session may find: none, or those an older session left.
Older == Written([Default EXCEPT !["parental_level"] = 11, !["overscan"] = 10, !["user_font"] = 9, !["xmb_sparks"] = 3], FALSE)
InitWith(file, state) ==
  settings = [pc |-> "off", value |-> Default, short |-> FALSE, column |-> << >>, file |-> file, state |-> state,
              wanted |-> Default, kept |-> file, behind |-> {}, excused |-> {},
              left |-> [change |-> MaxChanges, session |-> MaxSessions]]
Init == InitWith(Absent, Absent) \/ InitWith(Older, StateOf(9))

\* What the user is to find: what was kept, else the defaults.
Expected(kept, state) ==
  [o \in Options |-> IF o \in DOMAIN kept.lines THEN kept.lines[o]
                     ELSE IF o \in DOMAIN state.lines THEN state.lines[o]
                     ELSE IF o = "ftpd_on" /\ ~kept.there THEN 1 ELSE Default[o]]
\* Of the two copies of the font the older one wins when a save was cut between them.
FontsDiffer(file, state) ==
  \E o \in DOMAIN file.lines \cap DOMAIN state.lines : file.lines[o] # state.lines[o]

\* main: without an options file the server is started and the defaults saved,
\* then options.bin is read, then STATE.BIN, then the columns are made.
Boot ==
  /\ settings.pc = "off"
  /\ settings.left.session > 0
  /\ LET file == IF ~settings.file.there THEN Written([Default EXCEPT !["ftpd_on"] = 1], FALSE) ELSE settings.file
         v == StateRead(Loaded(Default, file), settings.state)
     IN settings' = [settings EXCEPT !.pc = "running", !.value = v, !.short = FALSE, !.column = ColumnOf(v, FALSE),
          !.file = file, !.left.session = @ - 1, !.behind = {},
          !.excused = IF FontsDiffer(settings.file, settings.state) THEN {"user_font"} ELSE {},
          !.wanted = Expected(settings.kept, settings.state)]

Change(v, short, column, o) ==
  settings' = [settings EXCEPT !.value = v, !.short = short, !.column = column, !.left.change = @ - 1,
                               !.wanted[o] = v[o], !.excused = @ \ {o},
                               !.behind = IF column = ColumnOf(v, short) THEN {} ELSE @ \cup {o}]
CanChange == settings.pc = "running" /\ settings.left.change > 0

\* The option menu of the column: the chosen member's choice, then every member's.
\* A setting a button changed after the column was made gets its old value back,
\* and an overscan a hair short loses a hundredth.
Choose(o, i) ==
  /\ CanChange
  /\ o \in DOMAIN settings.column /\ i \in Ends(o)
  /\ LET column == [settings.column EXCEPT ![o] = i]
         v == Applied(settings.value, column)
         undone == (settings.behind \cup IF settings.short THEN {"overscan"} ELSE {}) \cap DOMAIN column
     IN settings' = [settings EXCEPT !.value = v, !.short = FALSE, !.column = ColumnOf(v, FALSE), !.left.change = @ - 1,
          !.wanted[o] = Choices(o)[i + 1], !.behind = {}, !.excused = (@ \cup undone) \ {o}]

\* The side menu of the column: advanced settings on or off.
ToggleAdvanced ==
  /\ CanChange
  /\ LET v == [settings.value EXCEPT !["settings_advanced"] = 1 - @]
     IN Change(v, settings.short, ColumnOf(v, settings.short), "settings_advanced")

\* SELECT with R1, L3, R3: the next title filter, title style or font.  The
\* filter rereads the titles and so makes the column anew, the others only
\* when the column is the one on the screen.
Button(o, inColumn) ==
  /\ CanChange
  /\ o \in {"display_mode", "showdir", "user_font"}
  /\ LET v == [settings.value EXCEPT ![o] = IF @ >= TopOf(o) THEN 0 ELSE @ + 1]
     IN Change(v, settings.short,
               IF inColumn \/ o = "display_mode" THEN ColumnOf(v, settings.short) ELSE settings.column, o)

\* SELECT with R2 or L2: overscan by 0.01f, at most 0.10f and at least 0; from
\* 0.05 on the sum may come out below the hundredth.
Overscan(step, short, inColumn) ==
  /\ CanChange
  /\ LET n == settings.value["overscan"] + step
         v == [settings.value EXCEPT !["overscan"] = IF n > 10 THEN 10 ELSE IF n < 0 THEN 0 ELSE n]
     IN /\ short => n \in 5 .. 10
        /\ Change(v, short, IF inColumn THEN ColumnOf(v, short) ELSE settings.column, "overscan")

\* init_xmb_icons: the column made anew, whatever the reason.
Rebuild ==
  /\ settings.pc = "running"
  /\ settings' = [settings EXCEPT !.column = ColumnOf(settings.value, settings.short), !.behind = {}]

\* save_options removes options.bin, creates it again and writes it out with the close;
\* write_last_state then does the same for STATE.BIN, without the removal.
Remove ==
  /\ settings.pc = "running"
  /\ settings' = [settings EXCEPT !.pc = "removed", !.file = Absent, !.kept = Absent]
Create ==
  /\ settings.pc = "removed"
  /\ settings' = [settings EXCEPT !.pc = "created", !.file = Empty, !.kept = Empty]
Close ==
  /\ settings.pc = "created"
  /\ LET file == Written(settings.value, settings.short)
         lost == settings.excused \cup IF settings.short THEN {"overscan"} ELSE {}
     IN settings' = [settings EXCEPT !.pc = "saved", !.file = file,
                       !.kept = File([o \in Saved |-> IF o \in lost THEN file.lines[o] ELSE settings.wanted[o]])]
OpenState ==
  /\ settings.pc = "saved"
  /\ settings' = [settings EXCEPT !.pc = "opened", !.state = Empty]
CloseState ==
  /\ settings.pc = "opened"
  /\ settings' = [settings EXCEPT !.pc = "off", !.state = StateOf(settings.value["user_font"])]

\* The console loses power, the program with what it had not written.
PowerOff ==
  /\ settings.pc # "off"
  /\ settings' = [settings EXCEPT !.pc = "off"]

Next ==
  \/ Boot \/ ToggleAdvanced \/ Rebuild
  \/ \E o \in Options, i \in 0 .. 11 : Choose(o, i)
  \/ \E o \in Options, inColumn \in BOOLEAN : Button(o, inColumn)
  \/ \E step \in {-1, 1}, short, inColumn \in BOOLEAN : Overscan(step, short, inColumn)
  \/ Remove \/ Create \/ Close \/ OpenState \/ CloseState \/ PowerOff
-----------------------------------------------------------------------------
\* Every setting has a value its menu offers, and every member of the column
\* selects one of its choices, whatever files the session began with:
\* parse_settings reads option[option_selected] without looking.
TypeOK ==
  /\ settings.pc \in {"off", "running", "removed", "created", "saved", "opened"}
  /\ \A o \in Options : \E i \in DOMAIN Choices(o) : settings.value[o] = Choices(o)[i]
  /\ \A o \in DOMAIN settings.column : settings.column[o] \in 0 .. Len(Choices(o)) - 1

\* A setting is what the user last chose for it, in this session or in the last
\* one that was saved, however often others were chosen in between; the cases
\* where the program forgets one are those of Choose, Close and FontsDiffer.
SettingsKept ==
  settings.pc = "running" =>
    \A o \in Options \ settings.excused : settings.value[o] = settings.wanted[o]
=============================================================================
