---------------------------- MODULE CopyService ----------------------------
(***************************************************************************)
(* What the copy engine promises, whatever buffers, requests and callbacks *)
(* it uses: a destination grows block by block from its beginning with the *)
(* blocks of its source, may be started again from nothing until it is     *)
(* finished, is finished only when it is whole, and is final from then on. *)
(* Once the copy has failed, which the caller is told, no file is finished *)
(* any more, and the unfinished ones may hold anything.                    *)
(***************************************************************************)
EXTENDS Integers

CONSTANTS Entry,      \* the files
          Size,       \* Size[e]: blocks the source of e has room for
          Goal,       \* Goal[e]: blocks that are to be copied
          NoData      \* nothing is stored at an address

VARIABLES dst,        \* dst[e][a]: the source address stored at address a
          copied,     \* the finished files
          failed      \* the caller is told that the copy failed

vars == << dst, copied, failed >>

Prefix(n, size) == [a \in 0 .. size - 1 |-> IF a < n THEN a ELSE NoData]

Init ==
  /\ dst = [e \in Entry |-> Prefix(0, Size[e])]
  /\ copied = {}
  /\ failed = FALSE

Truncate(e) ==
  /\ e \notin copied /\ ~failed
  /\ dst' = [dst EXCEPT ![e] = Prefix(0, Size[e])]
  /\ UNCHANGED << copied, failed >>

Extend(e) ==
  /\ e \notin copied /\ ~failed
  /\ \E n \in 0 .. Size[e] - 1, m \in 1 .. Size[e] :
       /\ n < m
       /\ dst[e] = Prefix(n, Size[e])
       /\ dst' = [dst EXCEPT ![e] = Prefix(m, Size[e])]
  /\ UNCHANGED << copied, failed >>

Finish(e) ==
  /\ e \notin copied /\ ~failed
  /\ \A a \in 0 .. Goal[e] - 1 : dst[e][a] = a
  /\ copied' = copied \cup {e}
  /\ UNCHANGED << dst, failed >>

Fail ==
  /\ failed' = TRUE
  /\ UNCHANGED << dst, copied >>

Spoil(e) ==
  /\ e \notin copied /\ failed
  /\ dst' = [dst EXCEPT ![e] = dst'[e]]
  /\ UNCHANGED << copied, failed >>

Next == Fail \/ \E e \in Entry : Truncate(e) \/ Extend(e) \/ Finish(e) \/ Spoil(e)

Spec == Init /\ [][Next]_vars

=============================================================================
