----------------------------- MODULE MCFolders -----------------------------
(***************************************************************************)
(* The two kinds of destination of GameCopy: part "inside", the internal   *)
(* disk, where split files are joined; part "outside", an external device, *)
(* where big files are split, with counts and deletions that fail and      *)
(* moves within one device.  The parts share the variables, the tree and   *)
(* what is to be lost by no move: MoveLosesNothing speaks of both.         *)
(***************************************************************************)
EXTENDS MCGameCopy

VARIABLE part
mcvars == << part, vars >>

Outside == INSTANCE GameCopy WITH
  Kind <- PlainKind, Pieces <- NoPieces, CopyMode <- 1, OnHdd <- TRUE, CountMayFail <- TRUE,
  DeleteMayFail <- TRUE

MCInit == \/ part = "inside" /\ Init
          \/ part = "outside" /\ Outside!Init

InInside(A) == part = "inside" /\ A /\ part' = part
InOutside(A) == part = "outside" /\ A /\ part' = part
MCNext == InInside(Next) \/ InOutside(Outside!Next)

\* The main thread runs on, in the part whose end is checked.
MCFairSpec ==
  /\ MCInit /\ [][MCNext]_mcvars
  /\ WF_mcvars(InInside(Work))

\* The variables have their types; a copy that ends well has copied what was counted, where the
\* count does not fail, and a game whose name has no underscore is whole.
ResultsReal ==
  IF part = "inside" THEN TypeOK /\ ProgressReal /\ UnmarkedIsWhole
                     ELSE Outside!TypeOK /\ Outside!UnmarkedIsWhole

\* A folder that was chosen is done or given up in the end.
FoldersEnd == part = "inside" => BatchEnds
=============================================================================
