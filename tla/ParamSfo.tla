------------------------------ MODULE ParamSfo ------------------------------
(* A title's PARAM.SFO as multiMAN reads and changes it: a table of keys in   *)
(* order, a table of the space each value has, and the values one behind the *)
(* other.  A value is found by adding up the spaces of the ones before it    *)
(* (parse_param_sfo, get_param_sfo_field); it is changed in a copy of the    *)
(* whole file, written over the file itself (change_param_sfo_field,         *)
(* change_param_sfo_version).  A cell holds 0, a letter or an abstract       *)
(* number; the version's first cell is the number, the rest its decimals.    *)
EXTENDS Integers, Sequences, SequencesExt, Bitwise

VARIABLE sfo
\* file:  the file; onDisc: it lies on a game disc
\* meant: the values the title has, as the user and the program last set them
\* pc:    "idle"; "open": the file emptied, copy to be written; "asked": the version to be looked at
\* copy:  the changed values; then: what follows when they are written
\* torn:  a power off left the file empty
\* left:  the changes still allowed

\* The files: some or all of the keys, in the order of their names.
Space(k) == CASE k \in {"ATTRIBUTE", "PARENTAL_LEVEL"} -> 1 [] k = "TITLE" -> 4 [] OTHER -> 3
Complete == << "APP_VER", "ATTRIBUTE", "CATEGORY", "PARENTAL_LEVEL", "PS3_SYSTEM_VER", "TITLE", "TITLE_ID" >>
Samples == {Complete, << "CATEGORY", "PS3_SYSTEM_VER", "TITLE", "TITLE_ID" >>, << "ATTRIBUTE", "PARENTAL_LEVEL", "TITLE" >>}
Values(k) ==
  CASE k \in {"ATTRIBUTE", "PARENTAL_LEVEL"} -> {<< 1 >>, << 37 >>}
    [] k = "PS3_SYSTEM_VER" -> {<< 3, 5 >>, << 4, 5 >>}
    [] k = "TITLE" -> {<< 7, 8 >>}
    [] OTHER -> {<< 9, 6 >>}
Firmware == 3
HG == << 2 >>                                   \* the category a title is launched with
Titles == {<< 7 >>, << 8, 7, 8 >>}              \* what the user types for a title
Shown == 2                                      \* parse_param_sfo keeps 63 letters
ReadLength(k) == IF k = "PS3_SYSTEM_VER" THEN 6 ELSE 3   \* as many letters as the key has

Padded(v, n) == [i \in 1 .. n |-> IF i <= Len(v) THEN v[i] ELSE 0]
FileOf(keys, v) ==
  [keys |-> keys, space |-> [i \in DOMAIN keys |-> Space(keys[i])],
   data |-> FlattenSeq([i \in DOMAIN keys |-> Padded(v[keys[i]], Space(keys[i]))])]
EmptyFile == [keys |-> << >>, space |-> << >>, data |-> << >>]

\* str walks the keys and pos, with them, the spaces.
Has(file, k) == k \in ToSet(file.keys)
Place(file, k) == FoldLeft(LAMBDA a, b : a + b, 1, SubSeq(file.space, 1, SelectInSeq(file.keys, LAMBDA x : x = k) - 1))
Cell(file, i) == IF i \in DOMAIN file.data THEN file.data[i] ELSE 0
Cells(file, k, n) == [i \in 1 .. n |-> Cell(file, Place(file, k) + i - 1)]
\* Up to the terminating zero.
AsText(cells) ==
  LET zero == SelectInSeq(cells, LAMBDA x : x = 0)
  IN IF zero = 0 THEN cells ELSE SubSeq(cells, 1, zero - 1)

\* get_param_sfo_field: as many letters as the key's own name has.
Get(file, k) == IF Has(file, k) THEN [ret |-> 1, value |-> AsText(Cells(file, k, ReadLength(k)))] ELSE [ret |-> 0, value |-> << >>]

\* parse_param_sfo: title, parental level and id, each looked for from the start.
Parse(file) ==
  [title |-> IF Has(file, "TITLE") THEN AsText(Cells(file, "TITLE", Shown)) ELSE << >>,
   level |-> IF Has(file, "PARENTAL_LEVEL") THEN Cell(file, Place(file, "PARENTAL_LEVEL")) ELSE 0,
   id |-> IF Has(file, "TITLE_ID") THEN AsText(Cells(file, "TITLE_ID", Space("TITLE_ID"))) ELSE << >>,
   ret |-> IF Has(file, "TITLE_ID") THEN 0 ELSE -1]

\* The cells from pos on replaced by those of v, within the length of the file.
Overwrite(file, pos, v) ==
  [file EXCEPT !.data = [i \in DOMAIN @ |-> IF i \in pos .. pos + Len(v) - 1 THEN v[i - pos + 1] ELSE @[i]]]

-----------------------------------------------------------------------------
MaxChanges == 2
InitWith(keys, v, onDisc) ==
  sfo = [file |-> FileOf(keys, v), onDisc |-> onDisc, meant |-> v, pc |-> "idle", copy |-> EmptyFile,
         then |-> "idle", setting |-> << >>, torn |-> FALSE, left |-> MaxChanges]
Init ==
  \E keys \in Samples : \E v \in [ToSet(keys) -> UNION {Values(k) : k \in ToSet(keys)}], onDisc \in BOOLEAN :
    (\A k \in ToSet(keys) : v[k] \in Values(k)) /\ InitWith(keys, v, onDisc)

\* The file opened for writing, and so empty, to get the copy; key k is to have value v.
Rewrite(copy, k, v, then) ==
  sfo' = [sfo EXCEPT !.pc = "open", !.file = EmptyFile, !.copy = copy, !.then = then, !.setting = << k, v >>]

\* The file read into memory, unless it is on a disc.
Begin ==
  /\ sfo.pc = "idle" /\ sfo.left > 0
  /\ ~sfo.onDisc

\* change_param_sfo_field, for a new title and for the category of the title launched.
ChangeField(k, v) ==
  /\ Begin
  /\ sfo' = IF Has(sfo.file, k)
            THEN [sfo EXCEPT !.pc = "open", !.copy = Overwrite(sfo.file, Place(sfo.file, k), Append(v, 0)), !.file = EmptyFile,
                             !.then = "idle", !.setting = << k, v >>, !.left = @ - 1]
            ELSE [sfo EXCEPT !.left = @ - 1]

\* change_param_sfo_version marks the attribute first, then looks at the version.
Mark ==
  /\ Begin
  /\ LET at == Place(sfo.file, "ATTRIBUTE")
         marked == << Cell(sfo.file, at) | 37 >>
     IN sfo' = IF Has(sfo.file, "ATTRIBUTE") /\ << Cell(sfo.file, at) >> # marked
               THEN [sfo EXCEPT !.pc = "open", !.copy = Overwrite(sfo.file, at, marked), !.file = EmptyFile,
                                !.then = "asked", !.setting = << "ATTRIBUTE", marked >>, !.left = @ - 1]
               ELSE [sfo EXCEPT !.pc = "asked", !.left = @ - 1]
AskVersion(agreed) ==
  /\ sfo.pc = "asked"
  /\ LET at == Place(sfo.file, "PS3_SYSTEM_VER")
         newer == Has(sfo.file, "PS3_SYSTEM_VER") /\ Firmware < Cell(sfo.file, at)
     IN IF newer /\ agreed
        THEN Rewrite(Overwrite(sfo.file, at, << Firmware >>), "PS3_SYSTEM_VER", << Firmware, Cell(sfo.file, at + 1) >>, "idle")
        ELSE sfo' = [sfo EXCEPT !.pc = "idle"]

Write ==
  /\ sfo.pc = "open"
  /\ sfo' = [sfo EXCEPT !.pc = sfo.then, !.file = sfo.copy, !.copy = EmptyFile, !.setting = << >>,
                        !.meant[sfo.setting[1]] = sfo.setting[2]]

\* The console loses power: what was not written is gone.
PowerOff ==
  /\ sfo.pc # "idle"
  /\ sfo' = [sfo EXCEPT !.pc = "idle", !.copy = EmptyFile, !.setting = << >>, !.torn = @ \/ sfo.pc = "open"]

Next ==
  \/ \E v \in Titles : ChangeField("TITLE", v)
  \/ ChangeField("CATEGORY", HG)
  \/ Mark
  \/ \E agreed \in BOOLEAN : AskVersion(agreed)
  \/ Write \/ PowerOff
-----------------------------------------------------------------------------
TypeOK ==
  /\ sfo.pc \in {"idle", "open", "asked"}
  /\ Len(sfo.file.keys) = Len(sfo.file.space)
  /\ sfo.left \in 0 .. MaxChanges

\* Whatever was changed, in whatever order, each key still has the value meant
\* for it: what parse_param_sfo and get_param_sfo_field find is the title, the
\* level, the id and the versions last set, and a title without an id is
\* refused.  Only a power off between the opening and the writing loses the file.
Kept(k) == IF k \in DOMAIN sfo.meant THEN sfo.meant[k] ELSE << >>
ParamsKept ==
  sfo.pc # "open" /\ ~sfo.torn =>
    /\ Parse(sfo.file) = [title |-> IF Len(Kept("TITLE")) > Shown THEN SubSeq(Kept("TITLE"), 1, Shown) ELSE Kept("TITLE"),
                          level |-> IF Kept("PARENTAL_LEVEL") = << >> THEN 0 ELSE Kept("PARENTAL_LEVEL")[1],
                          id |-> Kept("TITLE_ID"),
                          ret |-> IF "TITLE_ID" \in DOMAIN sfo.meant THEN 0 ELSE -1]
    /\ \A k \in {"APP_VER", "PS3_SYSTEM_VER", "CATEGORY"} \cap DOMAIN sfo.meant : Get(sfo.file, k) = [ret |-> 1, value |-> Kept(k)]
    /\ "ATTRIBUTE" \in DOMAIN sfo.meant => Cells(sfo.file, "ATTRIBUTE", 1) = Kept("ATTRIBUTE")
=============================================================================
