----------------------------- MODULE FileReader -----------------------------
(***************************************************************************)
(* The buffered file reader of the video player (util.c, utilBfr).  A byte *)
(* is known by its place in the file: filePos is the place the caller      *)
(* believes to be at, fd the place of the file descriptor, and the pool    *)
(* the poolBytes bytes between pBuffer and the end of the last block,      *)
(* which began at `block` of the file.  delivered is what the last read    *)
(* gave its caller, and `asked` the place and number it asked for.         *)
(***************************************************************************)
EXTENDS Integers, Sequences

CONSTANTS FileSize, BufSize, MaxBytes

VARIABLES filePos, fd, block, pBuffer, poolBytes, bEof, bUnbufferedMode, delivered, asked, ok,
          sought  \* a seek came after the last change of mode
reader == << filePos, fd, block, pBuffer, poolBytes, bEof, bUnbufferedMode, delivered, asked, ok,
             sought >>

Least(a, b) == IF a < b THEN a ELSE b

\* utilBfrOpen.
Init == /\ filePos = 0 /\ fd = 0 /\ block = 0 /\ pBuffer = 0 /\ poolBytes = 0
        /\ bEof = FALSE /\ bUnbufferedMode = FALSE
        /\ delivered = << >> /\ asked = << 0, 0 >> /\ ok = TRUE /\ sought = TRUE

(***************************************************************************)
(* utilBfrRead copies from the pool and fills it again until it has all    *)
(* the bytes: a block that is not full, or a read error, is the last one.  *)
(* Pass[s] is one turn of its loop over s, the reader and the bytes still  *)
(* wanted.                                                                 *)
(***************************************************************************)
Filled(s) == LET n == Least(BufSize, FileSize - s.fd)
             IN  [s EXCEPT !.block = s.fd, !.fd = @ + n, !.pBuffer = 0, !.pool = n,
                           !.eof = n # BufSize]
Taken(s) == LET n == Least(s.bytes, s.pool)
            IN  [s EXCEPT !.out = @ \o [i \in 1..n |-> s.block + s.pBuffer + i - 1],
                          !.filePos = @ + n, !.pBuffer = @ + n, !.pool = @ - n, !.bytes = @ - n]
Turns == [filePos : Nat, fd : Nat, block : Nat, pBuffer : Nat, pool : Nat, eof : BOOLEAN,
          bytes : Nat, out : Seq(Nat)]
Pass[s \in Turns] ==
    IF s.bytes = 0 \/ (s.pool = 0 /\ s.eof) THEN s
    ELSE Pass[Taken(IF s.pool = 0 THEN Filled(s) ELSE s)]

Becomes(s) == /\ filePos' = s.filePos /\ fd' = s.fd /\ block' = s.block /\ pBuffer' = s.pBuffer
              /\ poolBytes' = s.pool /\ bEof' = s.eof

Read(bytes) ==
    /\ ~bUnbufferedMode
    /\ LET s == Pass[[filePos |-> filePos, fd |-> fd, block |-> block, pBuffer |-> pBuffer,
                      pool |-> poolBytes, eof |-> bEof, bytes |-> bytes, out |-> << >>]]
       IN  Becomes(s) /\ delivered' = s.out /\ ok' = (s.bytes = 0)
    /\ asked' = << filePos, bytes >>
    /\ UNCHANGED << bUnbufferedMode, sought >>

\* utilBfrSeek moves inside the block it holds when it can, and the file descriptor otherwise.
InPool(pos) == /\ ~bUnbufferedMode
               /\ \/ pos = filePos
                  \/ pos < filePos /\ pBuffer >= filePos - pos
                  \/ pos > filePos /\ poolBytes >= pos - filePos

InPool_OffByOne(pos) == /\ ~bUnbufferedMode
                        /\ \/ pos = filePos
                           \/ pos < filePos /\ pBuffer + 1 >= filePos - pos
                           \/ pos > filePos /\ poolBytes >= pos - filePos

Seek(pos) == /\ pos <= FileSize
             /\ filePos' = pos
             /\ IF InPool(pos)
                  THEN /\ pBuffer' = pBuffer + (pos - filePos)
                       /\ poolBytes' = poolBytes - (pos - filePos)
                       /\ bEof' = (bEof /\ pos = filePos)
                       /\ UNCHANGED << fd, block >>
                  ELSE /\ fd' = pos /\ pBuffer' = 0 /\ poolBytes' = 0 /\ bEof' = FALSE
                       /\ UNCHANGED block
             /\ sought' = TRUE /\ ok' = TRUE /\ delivered' = << >> /\ asked' = << pos, 0 >>
             /\ UNCHANGED bUnbufferedMode

SeekBeyond(pos) == /\ pos > FileSize
                   /\ ok' = FALSE /\ delivered' = << >> /\ asked' = << filePos, 0 >>
                   /\ UNCHANGED << filePos, fd, block, pBuffer, poolBytes, bEof, bUnbufferedMode,
                                   sought >>

\* utilBfrSetUnbufferedMode drops the pool and leaves the file descriptor behind it.
SetUnbufferedMode(mode) == /\ bUnbufferedMode # mode
                           /\ bUnbufferedMode' = mode
                           /\ pBuffer' = 0 /\ poolBytes' = 0 /\ sought' = FALSE
                           /\ delivered' = << >> /\ asked' = << filePos, 0 >> /\ ok' = TRUE
                           /\ UNCHANGED << filePos, fd, block, bEof >>

\* utilBfrUnbufferedRead: a short read moves the position and fails.
UnbufferedRead(bytes) ==
    /\ bUnbufferedMode /\ poolBytes = 0
    /\ LET n == Least(bytes, FileSize - fd)
       IN  /\ fd' = fd + n /\ filePos' = filePos + n
           /\ delivered' = [i \in 1..n |-> fd + i - 1]
           /\ ok' = (n = bytes)
    /\ asked' = << filePos, bytes >>
    /\ UNCHANGED << block, pBuffer, poolBytes, bEof, bUnbufferedMode, sought >>

Next == \/ \E bytes \in 1..MaxBytes : Read(bytes) \/ UnbufferedRead(bytes)
        \/ \E pos \in 0..(FileSize + 1) : Seek(pos) \/ SeekBeyond(pos)
        \/ SetUnbufferedMode(TRUE)
Spec == Init /\ [][Next]_reader
-----------------------------------------------------------------------------
TypeOK == /\ {filePos, fd, block} \subseteq 0..(FileSize + MaxBytes)
          /\ pBuffer \in 0..BufSize /\ poolBytes \in 0..BufSize
          /\ {bEof, bUnbufferedMode, ok, sought} \subseteq BOOLEAN
          /\ delivered \in Seq(0..(FileSize - 1)) /\ asked \in (0..(FileSize + MaxBytes)) \X Nat

\* After any reads and seeks, over block boundaries, at the end of the file and back, a read
\* gives the bytes of the file from the place the caller is at, all of them or as many as the
\* file has left, and it fails exactly when those are fewer than it asked for.  In unbuffered
\* mode that needs a seek first, which the parsers of the streams do before every read.
ReadsAsked == sought =>
    /\ delivered = [i \in 1..Least(asked[2], FileSize - asked[1]) |-> asked[1] + i - 1]
    /\ asked[2] > 0 => ok = (asked[1] + asked[2] <= FileSize)
=============================================================================
