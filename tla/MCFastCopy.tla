----------------------------- MODULE MCFastCopy -----------------------------
(***************************************************************************)
(* Small instances of FastCopy: whole, joined and split files.             *)
(***************************************************************************)
EXTENDS FastCopy, FiniteSetsExt, TLC

\* A buffer holds 2 blocks; a file of 7 blocks is big; fragments close at 3.
MCStart == [ tiny  |-> (0 :> 0 @@ 1 :> 1), empty |-> (0 :> 0 @@ 1 :> 0),
             odd   |-> (0 :> 0 @@ 1 :> 5),
             joinA |-> (0 :> 0 @@ 1 :> 2 @@ 2 :> 5 @@ 3 :> 6),
             joinB |-> (0 :> 0 @@ 1 :> 3),
             big   |-> (0 :> 0 @@ 1 :> 9) ]
MCKind  == [ tiny |-> "plain", empty |-> "plain", odd |-> "plain",
             joinA |-> "first", joinB |-> "later", big |-> "plain" ]
MCNFrags == [ tiny |-> 1, empty |-> 1, odd |-> 1, joinA |-> 3, joinB |-> 1, big |-> 1 ]

JoinEntries  == { "tiny", "odd", "joinA", "joinB" }
SplitEntries == { "empty", "big", "joinA" }

\* At the end of a successful copy the progress counter equals the copied blocks.
ProgressExact ==
  pc = "drained" /\ ~abort_copy =>
    global_device_bytes = MapThenSumSet(LAMBDA e : Want(e), { e \in copied : Kind[e] # "later" })

=============================================================================
