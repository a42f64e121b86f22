----------------------------- MODULE MCGameCopy -----------------------------
(***************************************************************************)
(* Small instances of GameCopy: folder A has a file, a "._" file and a     *)
(* directory with a file; B has a file that is split in two, or two whole  *)
(* ones, one of them big.                                                  *)
(***************************************************************************)
EXTENDS GameCopy

Folders == { "A", "B" }
Dirs    == { "A", "B", "D" }
Files   == { "p", "h", "x0", "x1", "q" }

Where     == [ p |-> "A", h |-> "A", D |-> "A", q |-> "D", x0 |-> "B", x1 |-> "B" ]
Below     == [ A |-> { "A", "D", "p", "h", "q" }, B |-> { "B", "x0", "x1" } ]
Sizes     == [ p |-> 1, h |-> 1, x0 |-> 4, x1 |-> 2, q |-> 2 ]
PlainKind == [ f \in Files |-> IF f = "h" THEN "hidden" ELSE "plain" ]
SplitKind == [ PlainKind EXCEPT !.x0 = "first", !.x1 = "later" ]
NoPieces  == [ f \in Files |-> << >> ]
Later     == [ NoPieces EXCEPT !.x0 = << "x1" >> ]

\* the free space is unknown or too little for B
SomeSpace == { 0, 3 }

=============================================================================
