----------------------------- MODULE MCFileCopy -----------------------------
(***************************************************************************)
(* Small instances of FileCopy: a buffer holds 2 blocks.                   *)
(***************************************************************************)
EXTENDS FileCopy

MCSize == [ none |-> 0, one |-> 1, five |-> 5 ]

\* one that is empty, one less than a buffer, one of two buffers and a rest
AllFiles == { "none", "one", "five" }

\* files that may fail to open
ShyFiles    == { "one", "five" }

=============================================================================
