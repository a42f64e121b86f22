---------------------------- MODULE Thumbs_proofs ----------------------------
(***************************************************************************)
(* Proofs about the thumbnails: the types, and that undisturbed members    *)
(* show their own pictures (PicturesUndisturbed).                          *)
(*                                                                         *)
(* What ties a member, its buffer and its decoder together is, as long as  *)
(* nothing was reclaimed since the last flush: a buffer belongs to at most *)
(* one live member, one of a list or one a decoder still works for         *)
(* (IconsInv); a decoder that runs works for a Loading member of its kind, *)
(* unless its column has been listed again under it (TargetsInv); and the  *)
(* buffer it writes is that of this member or of none (WritesInv).         *)
(***************************************************************************)
EXTENDS Thumbs, TLAPS

Busy(k) == dec[k].pc # "off"
Writes(k) == dec[k].pc \in {"open", "store"}
Target(k, c, i) == Busy(k) /\ dec[k].col = c /\ dec[k].cn = i
Live(c, i) == i < size[c] \/ \E k \in Decoder : Target(k, c, i)

\* The column has its new members; those a decoder works for may be gone.
Rewritten(c) == loading = c /\ loader \in {"sort", "flush"}

FlagsInv ==
  /\ loader = "off" <=> loading = None
  /\ main = "alloc" => loading = None /\ arg \in Index /\ arg < size[xmb_icon]
  /\ main = "slide" => arg \in Col
  /\ \A k \in Decoder : Busy(k) => dec[k].col \in Col

MembersInv ==
  \A c \in Col, i \in Index :
    /\ i < size[c] => pic[c][i] \in Pic
    /\ status[c][i] = 1 => icon[c][i] # Default \/ (main = "alloc" /\ c = xmb_icon /\ i = arg)
    /\ Rewritten(c) /\ i < size[c] => icon[c][i] = Default /\ status[c][i] # 1

TargetsInv ==
  /\ \A k \in Decoder, c \in Col, i \in Index :
       Target(k, c, i) /\ ~Rewritten(c) =>
         /\ pic[c][i] \in Pic /\ Kind[pic[c][i]] = k
         /\ status[c][i] = 1 /\ icon[c][i] # Default
  /\ \A k, l \in Decoder, c \in Col, i \in Index : Target(k, c, i) /\ Target(l, c, i) => k = l

WritesInv ==
  \A k \in Decoder :
    /\ dec[k].pc \in {"check", "open"} => dec[k].got = NoPic
    /\ Writes(k) =>
         /\ dec[k].buf # Default /\ used[dec[k].buf] # Free
         /\ \A c \in Col, i \in Index :
              /\ Live(c, i) /\ icon[c][i] = dec[k].buf => Target(k, c, i) /\ status[c][i] = 1
              /\ Target(k, c, i) /\ status[c][i] = 1 => icon[c][i] = dec[k].buf
              /\ (dec[k].pc = "store" /\ dec[k].got # NoPic /\ Target(k, c, i) /\ status[c][i] = 1)
                   => data[dec[k].buf] = pic[c][i]

IconsInv ==
  \A c \in Col, i \in Index :
    Live(c, i) /\ icon[c][i] # Default =>
      /\ used[icon[c][i]] # Free
      /\ \A e \in Col, j \in Index : Live(e, j) /\ icon[e][j] = icon[c][i] => e = c /\ j = i

UndisturbedInv == TargetsInv /\ WritesInv /\ IconsInv /\ OwnPicture /\ DecodersApart

ThumbsInv == TypeOK /\ FlagsInv /\ MembersInv /\ (~disturbed => UndisturbedInv)

-----------------------------------------------------------------------------
(***************************************************************************)
(* Types                                                                   *)
(***************************************************************************)

\* What the types say of one member and one decoder.
LEMMA Knowns ==
  ASSUME TypeOK
  PROVE  /\ MaxMembers \in Nat /\ MaxMembers > 0 /\ NBuffers \in Nat /\ NBuffers > 0
         /\ NoPic \notin Pic /\ Default \notin Buffer /\ None \notin Col /\ 0 \in Index /\ 0 \in Buffer
         /\ Index \subseteq Nat /\ Buffer \subseteq Nat
         /\ \A c \in Col : size[c] \in 0 .. MaxMembers /\ first[c] \in Index
         /\ \A c \in Col, i \in Index :
              /\ pic[c][i] \in Pic \cup {NoPic} /\ status[c][i] \in 0 .. 2
              /\ icon[c][i] \in Buffer \cup {Default}
         /\ \A k \in Decoder : /\ dec[k].pc \in {"off", "check", "open", "store"}
                               /\ dec[k].cn \in Index /\ dec[k].buf \in Buffer \cup {Default}
                               /\ dec[k].got \in Pic \cup {NoPic} /\ dec[k].col \in Col \cup {None}
         /\ \A p \in Pic : Kind[p] \in Decoder
<1>1. /\ MaxMembers \in Nat /\ MaxMembers > 0 /\ NBuffers \in Nat /\ NBuffers > 0
      /\ Pic \subseteq Nat /\ Col \subseteq Nat /\ Kind \in [Pic -> Decoder]
  BY ThumbsAssumption DEF ThumbsAssumption, Decoder
<1>2. /\ NoPic \notin Pic /\ Default \notin Buffer /\ None \notin Col /\ 0 \in Index /\ 0 \in Buffer
      /\ Index \subseteq Nat /\ Buffer \subseteq Nat
  BY <1>1 DEF NoPic, Default, None, Index, Buffer
<1>3. /\ \A c \in Col : size[c] \in 0 .. MaxMembers /\ first[c] \in Index
      /\ \A c \in Col, i \in Index :
              /\ pic[c][i] \in Pic \cup {NoPic} /\ status[c][i] \in 0 .. 2
              /\ icon[c][i] \in Buffer \cup {Default}
  BY DEF TypeOK
<1>4. \A k \in Decoder : /\ dec[k].pc \in {"off", "check", "open", "store"}
                         /\ dec[k].cn \in Index /\ dec[k].buf \in Buffer \cup {Default}
                         /\ dec[k].got \in Pic \cup {NoPic} /\ dec[k].col \in Col \cup {None}
  BY DEF TypeOK
<1>. QED
  BY <1>1, <1>2, <1>3, <1>4

\* The start: every member is unread and every buffer free.
LEMMA ThumbsStart == Init => ThumbsInv
<1>. SUFFICES ASSUME Init
              PROVE  ThumbsInv
  OBVIOUS
<1>1. /\ MaxMembers \in Nat /\ MaxMembers > 0 /\ NBuffers \in Nat /\ NBuffers > 0
      /\ Pic \subseteq Nat /\ Col \subseteq Nat /\ MaxMoves \in Nat
      /\ \A c \in Col : Saved[c] \in Seq(Pic) /\ Len(Saved[c]) \in 1 .. MaxMembers
  BY ThumbsAssumption DEF ThumbsAssumption
<1>2. /\ NoPic \notin Pic /\ Default \notin Buffer /\ None \notin Col /\ 0 \in Index /\ Index \subseteq Nat
  BY <1>1 DEF NoPic, Default, None, Index, Buffer
<1>3. \A c \in Col, i \in Index : i < Len(Saved[c]) => Saved[c][i + 1] \in Pic
  BY <1>1, <1>2
<1>4. /\ \A c \in Col, i \in Index :
           /\ pic[c][i] = IF i < size[c] THEN Saved[c][i + 1] ELSE NoPic
           /\ status[c][i] = 0 /\ icon[c][i] = Default
      /\ \A c \in Col : size[c] = Len(Saved[c])
      /\ \A k \in Decoder : dec[k].pc = "off"
  BY DEF Init, FromSeq, All, Idle
<1>5. pic \in [Col -> [Index -> Pic \cup {NoPic}]]
  BY <1>3 DEF Init, FromSeq
<1>6. dec \in [Decoder -> [pc : {"off", "check", "open", "store"}, col : Col \cup {None},
                          cn : Index, buf : Buffer \cup {Default}, got : Pic \cup {NoPic}]]
  BY <1>2 DEF Init, Idle
<1>7. TypeOK
  <2>1. /\ status \in [Col -> [Index -> 0 .. 2]] /\ icon \in [Col -> [Index -> Buffer \cup {Default}]]
        /\ first \in [Col -> Index] /\ size \in [Col -> 0 .. MaxMembers] /\ moves \in 0 .. MaxMoves
    BY <1>1, <1>2 DEF Init, All
  <2>. QED
    BY <1>1, <1>2, <1>5, <1>6, <2>1 DEF Init, TypeOK
<1>8. FlagsInv /\ MembersInv
  BY <1>2, <1>3, <1>4 DEF FlagsInv, MembersInv, Rewritten, Busy, Init
<1>9. UndisturbedInv
  BY <1>4 DEF UndisturbedInv, TargetsInv, WritesInv, IconsInv, OwnPicture, DecodersApart, Loaded, Live,
              Target, Busy, Writes
<1>. QED
  BY <1>7, <1>8, <1>9 DEF ThumbsInv

-----------------------------------------------------------------------------
Thread == [pc : {"off", "check", "open", "store"}, col : Col \cup {None},
           cn : Index, buf : Buffer \cup {Default}, got : Pic \cup {NoPic}]

\* load_jpg_threaded, load_png_threaded: the decoder for the picture gets the member, if it is idle.
LEMMA StartFacts ==
  ASSUME TypeOK, NEW c \in Col, NEW i \in Index, pic[c][i] \in Pic, Start(c, i)
  PROVE  /\ dec' \in [Decoder -> Thread]
         /\ \A k \in Decoder :
              \/ dec'[k] = dec[k]
              \/ /\ dec[k].pc = "off" /\ k = Kind[pic[c][i]]
                 /\ dec'[k].pc = "check" /\ dec'[k].col = c /\ dec'[k].cn = i /\ dec'[k].got = NoPic
<1>. DEFINE kind == Kind[pic[c][i]]
            new == [Idle EXCEPT !.pc = "check", !.col = c, !.cn = i]
<1>1. kind \in Decoder /\ dec \in [Decoder -> Thread]
  BY Knowns DEF TypeOK, Thread
<1>2. dec' = IF dec[kind].pc = "off" THEN [dec EXCEPT ![kind] = new] ELSE dec
  BY DEF Start
<1>3. new \in Thread /\ new.pc = "check" /\ new.col = c /\ new.cn = i /\ new.got = NoPic
  BY DEF Idle, Thread
<1>. HIDE DEF kind, new
<1>4. CASE dec[kind].pc = "off"
  <2>1. dec' = [dec EXCEPT ![kind] = new]
    BY <1>2, <1>4
  <2>2. \A k \in Decoder : dec'[k] = IF k = kind THEN new ELSE dec[k]
    BY <1>1, <2>1
  <2>. QED
    BY <1>1, <1>3, <1>4, <2>1, <2>2 DEF kind
<1>5. CASE dec[kind].pc # "off"
  BY <1>1, <1>2, <1>5
<1>. QED
  BY <1>4, <1>5

\* A member that is drawn is one of the list.
LEMMA DrawnFacts ==
  ASSUME TypeOK, FlagsInv, MembersInv, NEW i \in Index, i \in Visible(xmb_icon)
  PROVE  xmb_icon \in Col /\ i < size[xmb_icon] /\ pic[xmb_icon][i] \in Pic /\ Top(xmb_icon) \in Index
<1>1. xmb_icon \in Col /\ i < size[xmb_icon]
  BY DEF TypeOK, Visible
<1>. QED
  BY <1>1, Knowns DEF MembersInv, Top

\* The member gets the buffer, and the others keep what they had.
LEMMA AssignFacts ==
  ASSUME TypeOK, NEW c \in Col, NEW i \in Index, NEW b \in Buffer, pic[c][i] \in Pic,
         NEW usedBy \in [Buffer -> {Free} \cup (Col \X Index)],
         NEW st \in [Col -> [Index -> 0 .. 2]], NEW ic \in [Col -> [Index -> Buffer \cup {Default}]],
         Assign(c, i, b, usedBy, st, ic)
  PROVE  /\ used' \in [Buffer -> {Free} \cup (Col \X Index)]
         /\ status' \in [Col -> [Index -> 0 .. 2]]
         /\ icon' \in [Col -> [Index -> Buffer \cup {Default}]]
         /\ \A d \in Buffer : used'[d] = IF d = b THEN << c, i >> ELSE usedBy[d]
         /\ \A e \in Col, j \in Index :
              /\ status'[e][j] = IF e = c /\ j = i THEN 1 ELSE st[e][j]
              /\ icon'[e][j] = IF e = c /\ j = i THEN b ELSE ic[e][j]
<1>1. /\ used' = [usedBy EXCEPT ![b] = << c, i >>]
      /\ status' = [st EXCEPT ![c][i] = 1] /\ icon' = [ic EXCEPT ![c][i] = b]
  BY DEF Assign
<1>2. \A d \in Buffer : used'[d] = IF d = b THEN << c, i >> ELSE usedBy[d]
  BY <1>1
<1>3. \A e \in Col, j \in Index : status'[e][j] = IF e = c /\ j = i THEN 1 ELSE st[e][j]
  BY <1>1
<1>4. \A e \in Col, j \in Index : icon'[e][j] = IF e = c /\ j = i THEN b ELSE ic[e][j]
  BY <1>1
<1>5. used' \in [Buffer -> {Free} \cup (Col \X Index)]
  BY <1>1
<1>6. status' \in [Col -> [Index -> 0 .. 2]] /\ icon' \in [Col -> [Index -> Buffer \cup {Default}]]
  BY <1>1
<1>. QED
  BY <1>2, <1>3, <1>4, <1>5, <1>6

\* The values free_all_buffers leaves, in FreeAll and before a member gets buffer 0.
Freed == [b \in Buffer |-> Free]
ResetStatus == [c \in Col |-> [i \in Index |-> IF Reset(c, i) THEN 0 ELSE status[c][i]]]
ResetIcon == [c \in Col |-> [i \in Index |-> IF Reset(c, i) THEN Default ELSE icon[c][i]]]

LEMMA FlushFacts ==
  ASSUME TypeOK
  PROVE  /\ Freed \in [Buffer -> {Free} \cup (Col \X Index)]
         /\ ResetStatus \in [Col -> [Index -> 0 .. 2]]
         /\ ResetIcon \in [Col -> [Index -> Buffer \cup {Default}]]
         /\ \A c \in Col, i \in Index :
              /\ i < size[c] => ResetIcon[c][i] = Default
              /\ \/ ResetStatus[c][i] = 0 /\ ResetIcon[c][i] = Default
                 \/ ResetStatus[c][i] = status[c][i] /\ ResetIcon[c][i] = icon[c][i]
<1>1. Freed \in [Buffer -> {Free} \cup (Col \X Index)]
  BY DEF Freed
<1>2. ResetStatus \in [Col -> [Index -> 0 .. 2]] /\ ResetIcon \in [Col -> [Index -> Buffer \cup {Default}]]
  BY Knowns DEF ResetStatus, ResetIcon
<1>3. ASSUME NEW c \in Col, NEW i \in Index
      PROVE  /\ i < size[c] => ResetIcon[c][i] = Default
             /\ \/ ResetStatus[c][i] = 0 /\ ResetIcon[c][i] = Default
                \/ ResetStatus[c][i] = status[c][i] /\ ResetIcon[c][i] = icon[c][i]
  BY DEF ResetStatus, ResetIcon, Reset
<1>. QED
  BY <1>1, <1>2, <1>3

\* The values a reclaim leaves in the column, before a member gets buffer 0.
AwayFrom(c, j) == j < size[c] /\ icon[c][j] # Default /\ (j < first[c] - Above \/ j > first[c] + Below)
ReclaimStatus(c) == [status EXCEPT ![c] = [j \in Index |-> IF AwayFrom(c, j) THEN 0 ELSE @[j]]]
ReclaimIcon(c) == [icon EXCEPT ![c] = [j \in Index |-> IF AwayFrom(c, j) THEN Default ELSE @[j]]]

LEMMA ReclaimFacts ==
  ASSUME TypeOK, NEW c \in Col
  PROVE  /\ ReclaimStatus(c) \in [Col -> [Index -> 0 .. 2]]
         /\ ReclaimIcon(c) \in [Col -> [Index -> Buffer \cup {Default}]]
         /\ \A e \in Col, i \in Index :
              \/ ReclaimStatus(c)[e][i] = 0 /\ ReclaimIcon(c)[e][i] = Default
              \/ ReclaimStatus(c)[e][i] = status[e][i] /\ ReclaimIcon(c)[e][i] = icon[e][i]
<1>. DEFINE st == [j \in Index |-> IF AwayFrom(c, j) THEN 0 ELSE status[c][j]]
            ic == [j \in Index |-> IF AwayFrom(c, j) THEN Default ELSE icon[c][j]]
<1>1. st \in [Index -> 0 .. 2] /\ ic \in [Index -> Buffer \cup {Default}]
  BY Knowns
<1>2. ReclaimStatus(c) = [status EXCEPT ![c] = st] /\ ReclaimIcon(c) = [icon EXCEPT ![c] = ic]
  BY DEF ReclaimStatus, ReclaimIcon
<1>3. \A i \in Index : \/ st[i] = 0 /\ ic[i] = Default
                       \/ st[i] = status[c][i] /\ ic[i] = icon[c][i]
  OBVIOUS
<1>. HIDE DEF st, ic
<1>4. /\ ReclaimStatus(c) \in [Col -> [Index -> 0 .. 2]]
      /\ ReclaimIcon(c) \in [Col -> [Index -> Buffer \cup {Default}]]
  BY <1>1, <1>2 DEF TypeOK
<1>5. ASSUME NEW e \in Col, NEW i \in Index
      PROVE  \/ ReclaimStatus(c)[e][i] = 0 /\ ReclaimIcon(c)[e][i] = Default
             \/ ReclaimStatus(c)[e][i] = status[e][i] /\ ReclaimIcon(c)[e][i] = icon[e][i]
  <2>1. CASE e = c
    BY <1>2, <1>3, <2>1 DEF TypeOK
  <2>2. CASE e # c
    BY <1>2, <2>2 DEF TypeOK
  <2>. QED
    BY <2>1, <2>2
<1>. QED
  BY <1>4, <1>5

-----------------------------------------------------------------------------
\* The members of a column after one was deleted, listed or sorted.
LEMMA ColumnTypes ==
  ASSUME TypeOK, NEW c \in Col, NEW p \in [Index -> Pic \cup {NoPic}], NEW st \in [Index -> 0 .. 2],
         NEW ic \in [Index -> Buffer \cup {Default}],
         pic' = [pic EXCEPT ![c] = p], status' = [status EXCEPT ![c] = st], icon' = [icon EXCEPT ![c] = ic]
  PROVE  /\ pic' \in [Col -> [Index -> Pic \cup {NoPic}]]
         /\ status' \in [Col -> [Index -> 0 .. 2]]
         /\ icon' \in [Col -> [Index -> Buffer \cup {Default}]]
         /\ pic'[c] = p /\ status'[c] = st /\ icon'[c] = ic
         /\ \A e \in Col \ {c} : pic'[e] = pic[e] /\ status'[e] = status[e] /\ icon'[e] = icon[e]
  BY DEF TypeOK

\* The member that is deleted leaves its place to those after it.
Moved(i, j, n) == IF j >= i /\ j < n - 1 THEN j + 1 ELSE j

LEMMA OrphanFacts ==
  ASSUME TypeOK, FlagsInv, MembersInv, NEW i \in Index, DrawOrphan(i)
  PROVE  LET c == xmb_icon
         IN /\ c \in Col /\ i < size[c] /\ size'[c] = size[c] - 1
            /\ \A e \in Col \ {c} : size'[e] = size[e]
            /\ size' \in [Col -> 0 .. MaxMembers] /\ first' \in [Col -> Index]
            /\ pic' \in [Col -> [Index -> Pic \cup {NoPic}]]
            /\ status' \in [Col -> [Index -> 0 .. 2]]
            /\ icon' \in [Col -> [Index -> Buffer \cup {Default}]]
            /\ \A e \in Col \ {c} : pic'[e] = pic[e] /\ status'[e] = status[e] /\ icon'[e] = icon[e]
            /\ \A j \in Index :
                 /\ Moved(i, j, size[c]) \in Index
                 /\ pic'[c][j] = pic[c][Moved(i, j, size[c])]
                 /\ status'[c][j] = status[c][Moved(i, j, size[c])]
                 /\ icon'[c][j] = icon[c][Moved(i, j, size[c])]
<1>. DEFINE c == xmb_icon
            from(j) == Moved(i, j, size[c])
            p == [j \in Index |-> pic[c][from(j)]]
            st == [j \in Index |-> status[c][from(j)]]
            ic == [j \in Index |-> icon[c][from(j)]]
<1>1. c \in Col /\ i < size[c] /\ Top(c) \in Index /\ size[c] \in 0 .. MaxMembers /\ i \in Nat
      /\ size \in [Col -> 0 .. MaxMembers] /\ first \in [Col -> Index] /\ MaxMembers \in Nat
  BY DrawnFacts, Knowns DEF DrawOrphan, TypeOK
<1>2. /\ size' = [size EXCEPT ![c] = @ - 1] /\ first' = [first EXCEPT ![c] = Top(c)]
      /\ pic' = [pic EXCEPT ![c] = p] /\ status' = [status EXCEPT ![c] = st]
      /\ icon' = [icon EXCEPT ![c] = ic]
  <2>1. /\ size' = [size EXCEPT ![c] = @ - 1] /\ first' = [first EXCEPT ![c] = Top(c)]
        /\ pic' = [pic EXCEPT ![c] = [j \in Index |-> IF j >= i /\ j < size[c] - 1 THEN pic[c][j + 1] ELSE pic[c][j]]]
        /\ status' = [status EXCEPT ![c] = [j \in Index |->
                        IF j >= i /\ j < size[c] - 1 THEN status[c][j + 1] ELSE status[c][j]]]
        /\ icon' = [icon EXCEPT ![c] = [j \in Index |->
                      IF j >= i /\ j < size[c] - 1 THEN icon[c][j + 1] ELSE icon[c][j]]]
    BY DEF DrawOrphan
  <2>2. /\ p = [j \in Index |-> IF j >= i /\ j < size[c] - 1 THEN pic[c][j + 1] ELSE pic[c][j]]
        /\ st = [j \in Index |-> IF j >= i /\ j < size[c] - 1 THEN status[c][j + 1] ELSE status[c][j]]
        /\ ic = [j \in Index |-> IF j >= i /\ j < size[c] - 1 THEN icon[c][j + 1] ELSE icon[c][j]]
    BY DEF Moved
  <2>. QED
    BY <2>1, <2>2, Zenon
<1>3. \A j \in Index : from(j) \in Index
  BY <1>1 DEF Index, Moved
<1>4. p \in [Index -> Pic \cup {NoPic}] /\ st \in [Index -> 0 .. 2] /\ ic \in [Index -> Buffer \cup {Default}]
  BY <1>1, <1>3, Knowns
<1>5. \A j \in Index : p[j] = pic[c][from(j)] /\ st[j] = status[c][from(j)] /\ ic[j] = icon[c][from(j)]
  OBVIOUS
<1>6. size'[c] = size[c] - 1 /\ \A e \in Col \ {c} : size'[e] = size[e]
  BY <1>1, <1>2
<1>7. size' \in [Col -> 0 .. MaxMembers] /\ first' \in [Col -> Index]
  BY <1>1, <1>2
<1>. HIDE DEF p, st, ic, from
<1>8. /\ pic' \in [Col -> [Index -> Pic \cup {NoPic}]]
      /\ status' \in [Col -> [Index -> 0 .. 2]]
      /\ icon' \in [Col -> [Index -> Buffer \cup {Default}]]
      /\ pic'[c] = p /\ status'[c] = st /\ icon'[c] = ic
      /\ \A e \in Col \ {c} : pic'[e] = pic[e] /\ status'[e] = status[e] /\ icon'[e] = icon[e]
  BY <1>1, <1>2, <1>4, ColumnTypes
<1>. QED
  BY <1>1, <1>3, <1>5, <1>6, <1>7, <1>8 DEF from

\* A new listing: every member of the list is new, and unread.
LEMMA ScanFacts ==
  ASSUME TypeOK, FlagsInv, LoadScan
  PROVE  LET c == loading
         IN /\ c \in Col /\ size' \in [Col -> 0 .. MaxMembers]
            /\ pic' \in [Col -> [Index -> Pic \cup {NoPic}]]
            /\ status' \in [Col -> [Index -> 0 .. 2]]
            /\ icon' \in [Col -> [Index -> Buffer \cup {Default}]]
            /\ \A e \in Col \ {c} : /\ size'[e] = size[e]
                                    /\ pic'[e] = pic[e] /\ status'[e] = status[e] /\ icon'[e] = icon[e]
            /\ \A j \in Index :
                 IF j < size'[c] THEN pic'[c][j] \in Pic /\ status'[c][j] = 0 /\ icon'[c][j] = Default
                 ELSE pic'[c][j] = pic[c][j] /\ status'[c][j] = status[c][j] /\ icon'[c][j] = icon[c][j]
<1>. DEFINE c == loading
<1>1. /\ c \in Col /\ size \in [Col -> 0 .. MaxMembers] /\ MaxMembers \in Nat /\ Index \subseteq Nat
      /\ \A s \in Listings[c] : s \in Seq(Pic) /\ Len(s) <= MaxMembers
  <2>1. c \in Col
    BY DEF TypeOK, FlagsInv, LoadScan
  <2>. QED
    BY <2>1, ThumbsAssumption, Knowns DEF ThumbsAssumption, TypeOK
<1>2. PICK s \in Listings[c] :
        /\ size' = [size EXCEPT ![c] = Len(s)]
        /\ pic' = [pic EXCEPT ![c] = [i \in Index |-> IF i < Len(s) THEN FromSeq(s, NoPic)[i] ELSE pic[c][i]]]
        /\ status' = [status EXCEPT ![c] = [i \in Index |-> IF i < Len(s) THEN All(0)[i] ELSE status[c][i]]]
        /\ icon' = [icon EXCEPT ![c] = [i \in Index |-> IF i < Len(s) THEN All(Default)[i] ELSE icon[c][i]]]
  BY DEF LoadScan
<1>. DEFINE p == [i \in Index |-> IF i < Len(s) THEN FromSeq(s, NoPic)[i] ELSE pic[c][i]]
            st == [i \in Index |-> IF i < Len(s) THEN All(0)[i] ELSE status[c][i]]
            ic == [i \in Index |-> IF i < Len(s) THEN All(Default)[i] ELSE icon[c][i]]
<1>3. s \in Seq(Pic) /\ Len(s) \in 0 .. MaxMembers
  BY <1>1
<1>4. \A j \in Index :
        IF j < Len(s) THEN p[j] \in Pic /\ st[j] = 0 /\ ic[j] = Default
        ELSE p[j] = pic[c][j] /\ st[j] = status[c][j] /\ ic[j] = icon[c][j]
  BY <1>1, <1>3 DEF FromSeq, All
<1>5. p \in [Index -> Pic \cup {NoPic}] /\ st \in [Index -> 0 .. 2] /\ ic \in [Index -> Buffer \cup {Default}]
  <2>1. \A j \in Index : /\ pic[c][j] \in Pic \cup {NoPic} /\ status[c][j] \in 0 .. 2
                         /\ icon[c][j] \in Buffer \cup {Default}
    BY <1>1, Knowns
  <2>2. \A j \in Index : /\ p[j] \in Pic \cup {NoPic} /\ st[j] \in 0 .. 2 /\ ic[j] \in Buffer \cup {Default}
    BY <1>4, <2>1
  <2>. QED
    BY <2>2
<1>. HIDE DEF p, st, ic
<1>6. /\ pic' \in [Col -> [Index -> Pic \cup {NoPic}]]
      /\ status' \in [Col -> [Index -> 0 .. 2]]
      /\ icon' \in [Col -> [Index -> Buffer \cup {Default}]]
      /\ pic'[c] = p /\ status'[c] = st /\ icon'[c] = ic
      /\ \A e \in Col \ {c} : pic'[e] = pic[e] /\ status'[e] = status[e] /\ icon'[e] = icon[e]
  BY <1>1, <1>2, <1>5, ColumnTypes DEF p, st, ic
<1>7. /\ size' \in [Col -> 0 .. MaxMembers] /\ size'[c] = Len(s)
      /\ \A e \in Col \ {c} : size'[e] = size[e]
  BY <1>1, <1>2, <1>3
<1>. QED
  BY <1>1, <1>4, <1>6, <1>7

\* The sort exchanges members of the list.
LEMMA SortFacts ==
  ASSUME TypeOK, FlagsInv, LoadSort
  PROVE  LET c == loading
         IN /\ c \in Col
            /\ pic' \in [Col -> [Index -> Pic \cup {NoPic}]]
            /\ status' \in [Col -> [Index -> 0 .. 2]]
            /\ icon' \in [Col -> [Index -> Buffer \cup {Default}]]
            /\ \A e \in Col \ {c} : pic'[e] = pic[e] /\ status'[e] = status[e] /\ icon'[e] = icon[e]
            /\ \A j \in Index :
                 \E m \in Index : /\ IF j < size[c] THEN m < size[c] ELSE m = j
                                  /\ pic'[c][j] = pic[c][m] /\ status'[c][j] = status[c][m]
                                  /\ icon'[c][j] = icon[c][m]
<1>. DEFINE c == loading
            M == 0 .. size[c] - 1
<1>1. /\ c \in Col /\ size[c] \in 0 .. MaxMembers /\ MaxMembers \in Nat /\ Index \subseteq Nat
  <2>1. c \in Col
    BY DEF TypeOK, FlagsInv, LoadSort
  <2>. QED
    BY <2>1, Knowns
<1>2. PICK order \in Bijection(M, M) :
        /\ pic' = [pic EXCEPT ![c] = [i \in Index |-> IF i < size[c] THEN pic[c][order[i]] ELSE pic[c][i]]]
        /\ status' = [status EXCEPT ![c] = [i \in Index |-> IF i < size[c] THEN status[c][order[i]] ELSE status[c][i]]]
        /\ icon' = [icon EXCEPT ![c] = [i \in Index |-> IF i < size[c] THEN icon[c][order[i]] ELSE icon[c][i]]]
  BY DEF LoadSort
<1>. DEFINE from == [i \in Index |-> IF i < size[c] THEN order[i] ELSE i]
            p == [i \in Index |-> pic[c][from[i]]]
            st == [i \in Index |-> status[c][from[i]]]
            ic == [i \in Index |-> icon[c][from[i]]]
<1>3. \A i \in Index : from[i] \in Index /\ IF i < size[c] THEN from[i] < size[c] ELSE from[i] = i
  <2>1. order \in [M -> M]
    BY DEF Bijection, Injection
  <2>2. ASSUME NEW i \in Index
        PROVE  from[i] \in Index /\ IF i < size[c] THEN from[i] < size[c] ELSE from[i] = i
    <3>1. CASE i < size[c]
      <4>1. i \in M
        BY <1>1, <3>1 DEF Index
      <4>2. order[i] \in M /\ from[i] = order[i]
        BY <2>1, <3>1, <4>1
      <4>3. order[i] \in Index /\ order[i] < size[c]
        BY <1>1, <4>2 DEF Index
      <4>. QED
        BY <3>1, <4>2, <4>3
    <3>2. CASE ~(i < size[c])
      BY <3>2
    <3>. QED
      BY <3>1, <3>2
  <2>. QED
    BY <2>2
<1>4. /\ pic' = [pic EXCEPT ![c] = p] /\ status' = [status EXCEPT ![c] = st]
      /\ icon' = [icon EXCEPT ![c] = ic]
  <2>1. /\ p = [i \in Index |-> IF i < size[c] THEN pic[c][order[i]] ELSE pic[c][i]]
        /\ st = [i \in Index |-> IF i < size[c] THEN status[c][order[i]] ELSE status[c][i]]
        /\ ic = [i \in Index |-> IF i < size[c] THEN icon[c][order[i]] ELSE icon[c][i]]
    OBVIOUS
  <2>. QED
    BY <1>2, <2>1, Zenon
<1>. HIDE DEF from
<1>5. \A j \in Index : p[j] = pic[c][from[j]] /\ st[j] = status[c][from[j]] /\ ic[j] = icon[c][from[j]]
  OBVIOUS
<1>6. p \in [Index -> Pic \cup {NoPic}] /\ st \in [Index -> 0 .. 2] /\ ic \in [Index -> Buffer \cup {Default}]
  BY <1>1, <1>3, Knowns
<1>. HIDE DEF p, st, ic
<1>7. /\ pic' \in [Col -> [Index -> Pic \cup {NoPic}]]
      /\ status' \in [Col -> [Index -> 0 .. 2]]
      /\ icon' \in [Col -> [Index -> Buffer \cup {Default}]]
      /\ pic'[c] = p /\ status'[c] = st /\ icon'[c] = ic
      /\ \A e \in Col \ {c} : pic'[e] = pic[e] /\ status'[e] = status[e] /\ icon'[e] = icon[e]
  BY <1>1, <1>4, <1>6, ColumnTypes
<1>. QED
  BY <1>1, <1>3, <1>5, <1>7

-----------------------------------------------------------------------------
\* The three steps of a decoder thread k.
LEMMA CheckFacts ==
  ASSUME TypeOK, FlagsInv, NEW k \in Decoder, DecodeCheck(k)
  PROVE  LET c == dec[k].col
             i == dec[k].cn
         IN /\ c \in Col /\ i \in Index /\ dec[k].pc = "check" /\ dec' \in [Decoder -> Thread]
            /\ \A l \in Decoder \ {k} : dec'[l] = dec[l]
            /\ \/ dec'[k].pc = "off"
               \/ /\ status[c][i] = 1 /\ (k = "png" \/ i < size[c])
                  /\ dec'[k].pc = "open" /\ dec'[k].col = c /\ dec'[k].cn = i
                  /\ dec'[k].buf = icon[c][i] /\ dec'[k].got = dec[k].got
<1>. DEFINE d == dec[k]
            going == [d EXCEPT !.pc = "open", !.buf = icon[d.col][d.cn]]
            wanted == status[d.col][d.cn] = 1 /\ (k = "png" \/ d.cn < size[d.col])
<1>1. d \in Thread /\ d.pc = "check" /\ d.col \in Col /\ d.cn \in Index /\ dec \in [Decoder -> Thread]
  BY DEF DecodeCheck, FlagsInv, Busy, TypeOK, Thread
<1>2. dec' = [dec EXCEPT ![k] = IF wanted THEN going ELSE Idle]
  BY DEF DecodeCheck
<1>3. /\ going \in Thread /\ going.pc = "open" /\ going.col = d.col /\ going.cn = d.cn
      /\ going.buf = icon[d.col][d.cn] /\ going.got = d.got
  BY <1>1, Knowns DEF Thread
<1>4. Idle \in Thread /\ Idle.pc = "off"
  BY Knowns DEF Idle, Thread
<1>. HIDE DEF d, going, wanted
<1>5. /\ dec' \in [Decoder -> Thread] /\ dec'[k] = IF wanted THEN going ELSE Idle
      /\ \A l \in Decoder \ {k} : dec'[l] = dec[l]
  BY <1>1, <1>2, <1>3, <1>4
<1>6. CASE wanted
  <2>1. dec'[k] = going
    BY <1>5, <1>6
  <2>2. status[d.col][d.cn] = 1 /\ (k = "png" \/ d.cn < size[d.col])
    BY <1>6 DEF wanted
  <2>. QED
    BY <1>1, <1>3, <1>5, <2>1, <2>2 DEF d
<1>7. CASE ~wanted
  BY <1>1, <1>4, <1>5, <1>7 DEF d
<1>. QED
  BY <1>6, <1>7

LEMMA OpenFacts ==
  ASSUME TypeOK, FlagsInv, NEW k \in Decoder, Decode(k)
  PROVE  LET c == dec[k].col
             i == dec[k].cn
         IN /\ c \in Col /\ i \in Index /\ dec[k].pc = "open" /\ dec' \in [Decoder -> Thread]
            /\ data' \in [Buffer -> Pic \cup {NoPic}]
            /\ \A l \in Decoder \ {k} : dec'[l] = dec[l]
            /\ dec'[k].pc = "store" /\ dec'[k].col = c /\ dec'[k].cn = i /\ dec'[k].buf = dec[k].buf
            /\ \/ dec'[k].got = dec[k].got /\ data' = data
               \/ /\ dec'[k].got = pic[c][i]
                  /\ \A b \in Buffer : data'[b] = IF b = dec[k].buf THEN pic[c][i] ELSE data[b]
<1>. DEFINE d == dec[k]
            p == pic[d.col][d.cn]
            lost == [d EXCEPT !.pc = "store"]
            had == [d EXCEPT !.pc = "store", !.got = p]
<1>1. d \in Thread /\ d.pc = "open" /\ d.col \in Col /\ d.cn \in Index /\ dec \in [Decoder -> Thread]
  BY DEF Decode, FlagsInv, Busy, TypeOK, Thread
<1>2. p \in Pic \cup {NoPic} /\ data \in [Buffer -> Pic \cup {NoPic}]
  BY <1>1, Knowns DEF TypeOK
<1>3. /\ lost \in Thread /\ lost.pc = "store" /\ lost.col = d.col /\ lost.cn = d.cn
      /\ lost.buf = d.buf /\ lost.got = d.got
  BY <1>1 DEF Thread
<1>4. /\ had \in Thread /\ had.pc = "store" /\ had.col = d.col /\ had.cn = d.cn
      /\ had.buf = d.buf /\ had.got = p
  BY <1>1, <1>2 DEF Thread
<1>5. \/ dec' = [dec EXCEPT ![k] = lost] /\ data' = data
      \/ dec' = [dec EXCEPT ![k] = had] /\ data' = [data EXCEPT ![d.buf] = p]
  BY <1>1 DEF Decode
<1>. HIDE DEF d, p, lost, had
<1>6. CASE dec' = [dec EXCEPT ![k] = lost] /\ data' = data
  <2>1. /\ dec' \in [Decoder -> Thread] /\ dec'[k] = lost
        /\ \A l \in Decoder \ {k} : dec'[l] = dec[l]
    BY <1>1, <1>3, <1>6
  <2>. QED
    BY <1>1, <1>2, <1>3, <1>6, <2>1 DEF d
<1>7. CASE dec' = [dec EXCEPT ![k] = had] /\ data' = [data EXCEPT ![d.buf] = p]
  <2>1. /\ dec' \in [Decoder -> Thread] /\ dec'[k] = had
        /\ \A l \in Decoder \ {k} : dec'[l] = dec[l]
    BY <1>1, <1>4, <1>7
  <2>2. /\ data' \in [Buffer -> Pic \cup {NoPic}]
        /\ \A b \in Buffer : data'[b] = IF b = d.buf THEN p ELSE data[b]
    BY <1>2, <1>7
  <2>. QED
    BY <1>1, <1>4, <2>1, <2>2 DEF d, p
<1>. QED
  BY <1>5, <1>6, <1>7

LEMMA StoreFacts ==
  ASSUME TypeOK, FlagsInv, NEW k \in Decoder, DecodeStore(k)
  PROVE  LET c == dec[k].col
             i == dec[k].cn
         IN /\ c \in Col /\ i \in Index /\ dec[k].pc = "store" /\ dec' \in [Decoder -> Thread]
            /\ \A l \in Decoder \ {k} : dec'[l] = dec[l]
            /\ dec'[k].pc = "off" /\ dec'[k].got = NoPic
            /\ status' \in [Col -> [Index -> 0 .. 2]] /\ icon' \in [Col -> [Index -> Buffer \cup {Default}]]
            /\ \A e \in Col, j \in Index :
                 IF e = c /\ j = i
                   THEN /\ status'[e][j] = 2
                        /\ icon'[e][j] = IF dec[k].got # NoPic /\ status[e][j] = 1 THEN icon[e][j] ELSE Default
                   ELSE status'[e][j] = status[e][j] /\ icon'[e][j] = icon[e][j]
<1>. DEFINE d == dec[k]
            keep == d.got # NoPic /\ status[d.col][d.cn] = 1
<1>1. d \in Thread /\ d.pc = "store" /\ d.col \in Col /\ d.cn \in Index /\ dec \in [Decoder -> Thread]
  BY DEF DecodeStore, FlagsInv, Busy, TypeOK, Thread
<1>2. /\ dec' = [dec EXCEPT ![k] = Idle] /\ status' = [status EXCEPT ![d.col][d.cn] = 2]
      /\ icon' = IF keep THEN icon ELSE [icon EXCEPT ![d.col][d.cn] = Default]
  BY DEF DecodeStore
<1>3. Idle \in Thread /\ Idle.pc = "off" /\ Idle.got = NoPic
  BY Knowns DEF Idle, Thread
<1>4. keep <=> d.got # NoPic /\ status[d.col][d.cn] = 1
  OBVIOUS
<1>. HIDE DEF d, keep
<1>5. /\ dec' \in [Decoder -> Thread] /\ dec'[k] = Idle
      /\ \A l \in Decoder \ {k} : dec'[l] = dec[l]
  BY <1>1, <1>2, <1>3
<1>6. /\ status' \in [Col -> [Index -> 0 .. 2]]
      /\ \A e \in Col, j \in Index :
           status'[e][j] = IF e = d.col /\ j = d.cn THEN 2 ELSE status[e][j]
  BY <1>1, <1>2 DEF TypeOK
<1>7. /\ icon' \in [Col -> [Index -> Buffer \cup {Default}]]
      /\ \A e \in Col, j \in Index :
           icon'[e][j] = IF e = d.col /\ j = d.cn /\ ~keep THEN Default ELSE icon[e][j]
  BY <1>1, <1>2 DEF TypeOK
<1>. QED
  BY <1>1, <1>3, <1>4, <1>5, <1>6, <1>7 DEF d

-----------------------------------------------------------------------------
\* The five ways in which a member on screen may be asked for or thrown out.
LEMMA TypeDraw ==
  ASSUME TypeOK, FlagsInv, MembersInv, NEW i \in Index,
         DrawPending(i) \/ DrawReclaim(i) \/ DrawFull(i) \/ DrawLoading(i) \/ DrawOrphan(i)
  PROVE  TypeOK'
<1>. DEFINE c == xmb_icon
<1>1. i \in Visible(c) => c \in Col /\ i < size[c] /\ pic[c][i] \in Pic
  BY DrawnFacts
<1>2. CASE DrawPending(i)
  <2>1. c \in Col /\ pic[c][i] \in Pic
    BY <1>1, <1>2 DEF DrawPending, Drawn
  <2>2. PICK b \in Buffer : Assign(c, i, b, used, status, icon)
    BY <1>2 DEF DrawPending, FreeBuffers
  <2>3. /\ used' \in [Buffer -> {Free} \cup (Col \X Index)]
        /\ status' \in [Col -> [Index -> 0 .. 2]] /\ icon' \in [Col -> [Index -> Buffer \cup {Default}]]
    BY <2>1, <2>2, AssignFacts DEF TypeOK
  <2>4. dec' \in [Decoder -> Thread]
    BY <2>1, <2>2, StartFacts DEF Assign
  <2>. QED
    BY <1>2, <2>3, <2>4 DEF DrawPending, TypeOK, Thread
<1>3. CASE DrawReclaim(i)
  <2>1. c \in Col /\ pic[c][i] \in Pic /\ 0 \in Buffer
    BY <1>1, <1>3, Knowns DEF DrawReclaim, Drawn
  <2>2. Assign(c, i, 0, Freed, ReclaimStatus(c), ReclaimIcon(c))
    BY <1>3 DEF DrawReclaim, Freed, ReclaimStatus, ReclaimIcon, AwayFrom
  <2>3. /\ used' \in [Buffer -> {Free} \cup (Col \X Index)]
        /\ status' \in [Col -> [Index -> 0 .. 2]] /\ icon' \in [Col -> [Index -> Buffer \cup {Default}]]
    BY <2>1, <2>2, AssignFacts, ReclaimFacts, FlushFacts
  <2>4. dec' \in [Decoder -> Thread]
    BY <2>1, <2>2, StartFacts DEF Assign
  <2>. QED
    BY <1>3, <2>3, <2>4 DEF DrawReclaim, TypeOK, Thread
<1>4. CASE DrawFull(i)
  <2>1. status' = [status EXCEPT ![c][i] = 1] /\ i \in Nat /\ main' = "alloc" /\ arg' = i
    BY <1>4, Knowns DEF DrawFull
  <2>2. status' \in [Col -> [Index -> 0 .. 2]]
    BY <2>1 DEF TypeOK
  <2>. QED
    BY <1>4, <2>1, <2>2 DEF DrawFull, TypeOK, buffers
<1>5. CASE DrawLoading(i)
  <2>1. c \in Col /\ pic[c][i] \in Pic /\ Start(c, i)
    BY <1>1, <1>5 DEF DrawLoading, Drawn
  <2>2. dec' \in [Decoder -> Thread]
    BY <2>1, StartFacts
  <2>. QED
    BY <1>5, <2>2 DEF DrawLoading, TypeOK, Thread, members, buffers
<1>6. CASE DrawOrphan(i)
  <2>1. /\ size' \in [Col -> 0 .. MaxMembers] /\ first' \in [Col -> Index]
        /\ pic' \in [Col -> [Index -> Pic \cup {NoPic}]]
        /\ status' \in [Col -> [Index -> 0 .. 2]]
        /\ icon' \in [Col -> [Index -> Buffer \cup {Default}]]
    BY <1>6, OrphanFacts
  <2>2. disturbed' \in BOOLEAN
    BY <1>6 DEF DrawOrphan
  <2>. QED
    BY <1>6, <2>1, <2>2 DEF DrawOrphan, TypeOK, buffers
<1>. QED
  BY <1>2, <1>3, <1>4, <1>5, <1>6

LEMMA TypeStep ==
  ASSUME TypeOK, FlagsInv, MembersInv, [Next]_vars
  PROVE  TypeOK'
<1>1. CASE UNCHANGED vars
  BY <1>1 DEF vars, members, buffers, TypeOK
<1>2. ASSUME NEW i \in Index,
             DrawPending(i) \/ DrawReclaim(i) \/ DrawFull(i) \/ DrawLoading(i) \/ DrawOrphan(i)
      PROVE  TypeOK'
  BY <1>2, TypeDraw
<1>3. CASE DrawList
  <2>1. loading' \in Col /\ loader' = "start" /\ init' \in [Col -> BOOLEAN]
    BY <1>3 DEF DrawList, TypeOK
  <2>. QED
    BY <1>3, <2>1 DEF DrawList, TypeOK, members, buffers
<1>4. CASE FlushAlloc
  <2>1. /\ xmb_icon \in Col /\ arg \in Index /\ pic[xmb_icon][arg] \in Pic /\ 0 \in Buffer
        /\ Assign(xmb_icon, arg, 0, Freed, ResetStatus, ResetIcon) /\ 0 \in Nat
    BY <1>4, Knowns DEF FlushAlloc, FlagsInv, MembersInv, TypeOK, Freed, ResetStatus, ResetIcon
  <2>2. /\ used' \in [Buffer -> {Free} \cup (Col \X Index)]
        /\ status' \in [Col -> [Index -> 0 .. 2]] /\ icon' \in [Col -> [Index -> Buffer \cup {Default}]]
    BY <2>1, AssignFacts, FlushFacts
  <2>3. dec' \in [Decoder -> Thread]
    BY <2>1, StartFacts DEF Assign
  <2>. QED
    BY <1>4, <2>2, <2>3 DEF FlushAlloc, TypeOK, Thread
<1>5. CASE FlushSlide
  <2>1. used' = Freed /\ status' = ResetStatus /\ icon' = ResetIcon /\ xmb_icon' \in Col
    BY <1>5 DEF FlushSlide, FreeAll, Freed, ResetStatus, ResetIcon, FlagsInv
  <2>2. /\ used' \in [Buffer -> {Free} \cup (Col \X Index)]
        /\ status' \in [Col -> [Index -> 0 .. 2]] /\ icon' \in [Col -> [Index -> Buffer \cup {Default}]]
    BY <2>1, FlushFacts
  <2>. QED
    BY <1>5, <2>1, <2>2 DEF FlushSlide, TypeOK
<1>6. CASE User
  <2>1. Move => moves' \in 0 .. MaxMoves
    BY ThumbsAssumption DEF Move, TypeOK, ThumbsAssumption
  <2>2. CASE Scroll
    <3>1. first' \in [Col -> Index]
      <4>1. PICK n \in {Top(xmb_icon) - 1, Top(xmb_icon) + 1} :
               n \in 0 .. size[xmb_icon] - 1 /\ first' = [first EXCEPT ![xmb_icon] = n]
        BY <2>2 DEF Scroll
      <4>2. n \in Index
        BY <4>1, Knowns DEF TypeOK, Index
      <4>. QED
        BY <4>1, <4>2 DEF TypeOK
    <3>. QED
      BY <2>1, <2>2, <3>1 DEF Scroll, TypeOK, members, buffers
  <2>3. CASE Slide
    <3>1. /\ xmb_icon' \in Col /\ main' \in {"draw", "alloc", "slide"} /\ arg' \in Nat
      BY <2>3, ThumbsAssumption DEF Slide, TypeOK, ThumbsAssumption
    <3>. QED
      BY <2>1, <2>3, <3>1 DEF Slide, TypeOK, members, buffers
  <2>4. CASE Rescan
    BY <2>1, <2>4 DEF Rescan, TypeOK, members, buffers
  <2>. QED
    BY <1>6, <2>2, <2>3, <2>4 DEF User
<1>7. ASSUME NEW k \in Decoder, Decoders(k)
      PROVE  TypeOK'
  <2>1. CASE DecodeCheck(k)
    BY <2>1, CheckFacts DEF DecodeCheck, TypeOK, Thread, members, buffers
  <2>2. CASE Decode(k)
    <3>1. dec' \in [Decoder -> Thread] /\ data' \in [Buffer -> Pic \cup {NoPic}]
      BY <2>2, OpenFacts
    <3>. QED
      BY <2>2, <3>1 DEF Decode, TypeOK, Thread, members
  <2>3. CASE DecodeStore(k)
    <3>1. /\ dec' \in [Decoder -> Thread]
          /\ status' \in [Col -> [Index -> 0 .. 2]] /\ icon' \in [Col -> [Index -> Buffer \cup {Default}]]
      BY <2>3, StoreFacts
    <3>. QED
      BY <2>3, <3>1 DEF DecodeStore, TypeOK, Thread, buffers
  <2>. QED
    BY <1>7, <2>1, <2>2, <2>3 DEF Decoders
<1>8. CASE LoadEmpty
  <2>1. size' \in [Col -> 0 .. MaxMembers] /\ first' \in [Col -> Index]
    <3>1. size' = [size EXCEPT ![loading] = 0] /\ first' = [first EXCEPT ![loading] = 0]
      BY <1>8 DEF LoadEmpty
    <3>2. 0 \in 0 .. MaxMembers /\ 0 \in Index
      BY Knowns
    <3>. QED
      BY <3>1, <3>2 DEF TypeOK
  <2>. QED
    BY <1>8, <2>1 DEF LoadEmpty, TypeOK, buffers
<1>9. CASE LoadScan
  BY <1>9, ScanFacts DEF LoadScan, TypeOK, buffers
<1>10. CASE LoadSort
  BY <1>10, SortFacts DEF LoadSort, TypeOK, buffers
<1>11. CASE LoadEnd
  <2>1. used' = Freed /\ status' = ResetStatus /\ icon' = ResetIcon
    BY <1>11 DEF LoadEnd, FreeAll, Freed, ResetStatus, ResetIcon
  <2>2. /\ used' \in [Buffer -> {Free} \cup (Col \X Index)]
        /\ status' \in [Col -> [Index -> 0 .. 2]] /\ icon' \in [Col -> [Index -> Buffer \cup {Default}]]
    BY <2>1, FlushFacts
  <2>. QED
    BY <1>11, <2>1, <2>2 DEF LoadEnd, TypeOK
<1>. QED
  BY <1>1, <1>2, <1>3, <1>4, <1>5, <1>6, <1>7, <1>8, <1>9, <1>10, <1>11 DEF Next, Draw, Loader

-----------------------------------------------------------------------------
(***************************************************************************)
(* The flags, and what members hold at any time                            *)
(***************************************************************************)

\* The decoders work for columns that exist.
LEMMA BusyStep ==
  ASSUME TypeOK, FlagsInv, MembersInv, [Next]_vars
  PROVE  \A k \in Decoder : Busy(k)' => dec'[k].col \in Col
<1>1. CASE dec' = dec
  BY <1>1 DEF FlagsInv, Busy
<1>2. ASSUME NEW c \in Col, NEW i \in Index, pic[c][i] \in Pic, Start(c, i)
      PROVE  \A k \in Decoder : Busy(k)' => dec'[k].col \in Col
  BY <1>2, StartFacts DEF FlagsInv, Busy
<1>3. ASSUME NEW i \in Index, DrawPending(i) \/ DrawReclaim(i) \/ DrawLoading(i)
      PROVE  \A k \in Decoder : Busy(k)' => dec'[k].col \in Col
  <2>1. i \in Visible(xmb_icon) /\ Start(xmb_icon, i)
    BY <1>3 DEF DrawPending, DrawReclaim, DrawLoading, Drawn, Assign
  <2>. QED
    BY <1>2, <2>1, DrawnFacts
<1>4. CASE FlushAlloc
  <2>1. xmb_icon \in Col /\ arg \in Index /\ pic[xmb_icon][arg] \in Pic /\ Start(xmb_icon, arg)
    BY <1>4 DEF FlushAlloc, FlagsInv, MembersInv, TypeOK, Assign
  <2>. QED
    BY <1>2, <2>1
<1>5. ASSUME NEW k \in Decoder, Decoders(k)
      PROVE  \A l \in Decoder : Busy(l)' => dec'[l].col \in Col
  BY <1>5, CheckFacts, OpenFacts, StoreFacts DEF Decoders, FlagsInv, Busy
<1>6. CASE User
  BY <1>1, <1>6 DEF User, Scroll, Slide, Rescan
<1>7. CASE Loader
  BY <1>1, <1>7 DEF Loader, LoadEmpty, LoadScan, LoadSort, LoadEnd
<1>8. ASSUME NEW i \in Index, DrawFull(i) \/ DrawOrphan(i) \/ DrawList \/ FlushSlide
      PROVE  \A k \in Decoder : Busy(k)' => dec'[k].col \in Col
  BY <1>1, <1>8 DEF DrawFull, DrawOrphan, DrawList, FlushSlide
<1>9. 0 \in Index
  BY Knowns
<1>10. CASE UNCHANGED vars
  BY <1>1, <1>10 DEF vars
<1>. QED
  BY <1>3, <1>4, <1>5, <1>6, <1>7, <1>8, <1>9, <1>10 DEF Next, Draw

\* The loading flag and the loader, and what the main loop waits for.
LEMMA FlagsStep ==
  ASSUME TypeOK, FlagsInv, MembersInv, [Next]_vars
  PROVE  FlagsInv'
<1>1. \A k \in Decoder : Busy(k)' => dec'[k].col \in Col
  BY BusyStep
<1>2. ASSUME UNCHANGED << loading, loader, main, arg, size, xmb_icon >>
      PROVE  FlagsInv'
  BY <1>1, <1>2 DEF FlagsInv
<1>3. ASSUME NEW i \in Index, DrawPending(i) \/ DrawReclaim(i) \/ DrawLoading(i)
      PROVE  FlagsInv'
  BY <1>2, <1>3 DEF DrawPending, DrawReclaim, DrawLoading, members
<1>4. ASSUME NEW i \in Index, DrawFull(i)
      PROVE  FlagsInv'
  <2>1. i \in Visible(xmb_icon) /\ loading = None /\ main' = "alloc" /\ arg' = i
        /\ UNCHANGED << loading, loader, size, xmb_icon >>
    BY <1>4 DEF DrawFull, Drawn
  <2>. QED
    BY <1>1, <2>1, DrawnFacts DEF FlagsInv
<1>5. ASSUME NEW i \in Index, DrawOrphan(i)
      PROVE  FlagsInv'
  <2>1. main' = "draw" /\ UNCHANGED << loading, loader >>
    BY <1>5 DEF DrawOrphan
  <2>. QED
    BY <1>1, <2>1 DEF FlagsInv
<1>6. CASE DrawList
  <2>1. main' = "draw" /\ loading' \in Col /\ loader' = "start"
    BY <1>6 DEF DrawList, TypeOK
  <2>2. loading' # None
    BY <2>1, Knowns
  <2>. QED
    BY <1>1, <2>1, <2>2 DEF FlagsInv
<1>7. CASE FlushAlloc \/ FlushSlide
  <2>1. main' = "draw" /\ UNCHANGED << loading, loader >>
    BY <1>7 DEF FlushAlloc, FlushSlide
  <2>. QED
    BY <1>1, <2>1 DEF FlagsInv
<1>8. CASE Scroll \/ Rescan
  BY <1>2, <1>8 DEF Scroll, Rescan, members
<1>9. CASE Slide
  <2>1. /\ main = "draw" /\ UNCHANGED << loading, loader >>
        /\ (main' = "draw" \/ (main' = "slide" /\ arg' \in Col))
    BY <1>9 DEF Slide, Move
  <2>. QED
    BY <1>1, <2>1 DEF FlagsInv
<1>10. ASSUME NEW k \in Decoder, Decoders(k)
       PROVE  FlagsInv'
  BY <1>2, <1>10 DEF Decoders, DecodeCheck, Decode, DecodeStore, members
<1>11. CASE LoadEmpty \/ LoadScan \/ LoadSort
  <2>1. loading # None /\ loading' = loading /\ loader' # "off" /\ UNCHANGED << main, arg >>
    BY <1>11 DEF LoadEmpty, LoadScan, LoadSort, FlagsInv
  <2>. QED
    BY <1>1, <2>1 DEF FlagsInv
<1>12. CASE LoadEnd
  <2>1. loading # None /\ loading' = None /\ loader' = "off" /\ UNCHANGED << main, arg >>
    BY <1>12 DEF LoadEnd, FlagsInv
  <2>. QED
    BY <1>1, <2>1 DEF FlagsInv
<1>13. CASE UNCHANGED vars
  BY <1>2, <1>13 DEF vars, members
<1>. QED
  BY <1>3, <1>4, <1>5, <1>6, <1>7, <1>8, <1>9, <1>10, <1>11, <1>12, <1>13 DEF Next, Draw, User, Loader

\* A member that gets a buffer is the one that was waited for.
LEMMA AssignMembers ==
  ASSUME TypeOK, FlagsInv, MembersInv, NEW c \in Col, NEW i \in Index, NEW b \in Buffer, pic[c][i] \in Pic,
         NEW usedBy \in [Buffer -> {Free} \cup (Col \X Index)],
         NEW st \in [Col -> [Index -> 0 .. 2]], NEW ic \in [Col -> [Index -> Buffer \cup {Default}]],
         Assign(c, i, b, usedBy, st, ic),
         \A e \in Col, j \in Index : \/ st[e][j] = 0 /\ ic[e][j] = Default
                                     \/ st[e][j] = status[e][j] /\ ic[e][j] = icon[e][j],
         loading = None, UNCHANGED << pic, size, loading >>,
         main # "alloc" \/ (c = xmb_icon /\ i = arg)
  PROVE  MembersInv'
<1>1. /\ Default \notin Buffer
      /\ \A e \in Col : ~Rewritten(e)'
  BY Knowns DEF Rewritten
<1>2. \A e \in Col, j \in Index :
        /\ status'[e][j] = IF e = c /\ j = i THEN 1 ELSE st[e][j]
        /\ icon'[e][j] = IF e = c /\ j = i THEN b ELSE ic[e][j]
  <2>1. status' = [st EXCEPT ![c][i] = 1] /\ icon' = [ic EXCEPT ![c][i] = b]
    BY DEF Assign
  <2>2. \A e \in Col, j \in Index : status'[e][j] = IF e = c /\ j = i THEN 1 ELSE st[e][j]
    BY <2>1
  <2>3. \A e \in Col, j \in Index : icon'[e][j] = IF e = c /\ j = i THEN b ELSE ic[e][j]
    BY <2>1
  <2>. QED
    BY <2>2, <2>3
<1>3. ASSUME NEW e \in Col, NEW j \in Index, status'[e][j] = 1
      PROVE  icon'[e][j] # Default
  <2>1. CASE e = c /\ j = i
    BY <1>1, <1>2, <2>1
  <2>2. CASE ~(e = c /\ j = i)
    <3>1. st[e][j] = 1 /\ icon'[e][j] = ic[e][j]
      BY <1>2, <1>3, <2>2
    <3>2. status[e][j] = 1 /\ ic[e][j] = icon[e][j]
      BY <3>1
    <3>. QED
      BY <2>2, <3>1, <3>2 DEF MembersInv
  <2>. QED
    BY <2>1, <2>2
<1>4. \A e \in Col, j \in Index : j < size'[e] => pic'[e][j] \in Pic
  BY DEF MembersInv
<1>. QED
  BY <1>1, <1>3, <1>4 DEF MembersInv

\* Members of a list have pictures; a Loading member has a buffer, or is about to get one; and the
\* members of a new listing have none.
LEMMA MembersStep ==
  ASSUME TypeOK, FlagsInv, MembersInv, [Next]_vars
  PROVE  MembersInv'
<1>1. \A c \in Col : size[c] \in Nat
  BY Knowns
<1>2. ASSUME UNCHANGED << pic, status, icon, size, loading, loader >>,
             main # "alloc" \/ UNCHANGED << main, arg, xmb_icon >>
      PROVE  MembersInv'
  BY <1>2 DEF MembersInv, Rewritten
<1>3. ASSUME NEW i \in Index, DrawPending(i) \/ DrawReclaim(i)
      PROVE  MembersInv'
  <2>. DEFINE c == xmb_icon
  <2>1. /\ i \in Visible(c) /\ loading = None /\ main = "draw"
        /\ UNCHANGED << pic, size, loading, loader, main >>
    BY <1>3 DEF DrawPending, DrawReclaim, Drawn
  <2>2. c \in Col /\ pic[c][i] \in Pic
    BY <2>1, DrawnFacts
  <2>3. CASE DrawPending(i)
    <3>1. PICK b \in Buffer : Assign(c, i, b, used, status, icon)
      BY <2>3 DEF DrawPending, FreeBuffers
    <3>2. /\ used \in [Buffer -> {Free} \cup (Col \X Index)] /\ status \in [Col -> [Index -> 0 .. 2]]
          /\ icon \in [Col -> [Index -> Buffer \cup {Default}]]
      BY DEF TypeOK
    <3>. QED
      BY <2>1, <2>2, <3>1, <3>2, AssignMembers
  <2>4. CASE DrawReclaim(i)
    <3>1. Assign(c, i, 0, Freed, ReclaimStatus(c), ReclaimIcon(c)) /\ 0 \in Buffer
      BY <2>4, Knowns DEF DrawReclaim, Freed, ReclaimStatus, ReclaimIcon, AwayFrom
    <3>2. /\ ReclaimStatus(c) \in [Col -> [Index -> 0 .. 2]]
          /\ ReclaimIcon(c) \in [Col -> [Index -> Buffer \cup {Default}]]
          /\ Freed \in [Buffer -> {Free} \cup (Col \X Index)]
          /\ \A e \in Col, j \in Index :
               \/ ReclaimStatus(c)[e][j] = 0 /\ ReclaimIcon(c)[e][j] = Default
               \/ ReclaimStatus(c)[e][j] = status[e][j] /\ ReclaimIcon(c)[e][j] = icon[e][j]
      BY <2>2, ReclaimFacts, FlushFacts
    <3>. QED
      BY <2>1, <2>2, <3>1, <3>2, AssignMembers
  <2>. QED
    BY <1>3, <2>3, <2>4
<1>4. ASSUME NEW i \in Index, DrawFull(i)
      PROVE  MembersInv'
  <2>. DEFINE c == xmb_icon
  <2>1. /\ loading = None /\ main = "draw" /\ UNCHANGED << pic, icon, size, loading, loader, xmb_icon >>
        /\ main' = "alloc" /\ arg' = i /\ status' = [status EXCEPT ![c][i] = 1]
    BY <1>4 DEF DrawFull, Drawn
  <2>2. \A e \in Col, j \in Index : status'[e][j] = status[e][j] \/ (e = c /\ j = i)
    BY <2>1 DEF TypeOK
  <2>3. \A e \in Col, j \in Index :
          /\ status'[e][j] = 1 => icon'[e][j] # Default \/ (e = c /\ j = i)
          /\ ~Rewritten(e)' /\ pic'[e][j] = pic[e][j] /\ size'[e] = size[e]
    BY <2>1, <2>2, Knowns DEF MembersInv, Rewritten
  <2>. QED
    BY <2>1, <2>3 DEF MembersInv
<1>5. ASSUME NEW i \in Index, DrawLoading(i)
      PROVE  MembersInv'
  BY <1>2, <1>5 DEF DrawLoading, members
<1>6. ASSUME NEW i \in Index, DrawOrphan(i)
      PROVE  MembersInv'
  <2>. DEFINE c == xmb_icon
              from(j) == Moved(i, j, size[c])
  <2>1. main = "draw" /\ UNCHANGED << loading, loader >>
    BY <1>6 DEF DrawOrphan
  <2>2. /\ c \in Col /\ i < size[c] /\ size'[c] = size[c] - 1
        /\ \A e \in Col \ {c} : /\ size'[e] = size[e]
                                /\ pic'[e] = pic[e] /\ status'[e] = status[e] /\ icon'[e] = icon[e]
        /\ \A j \in Index :
             /\ from(j) \in Index
             /\ pic'[c][j] = pic[c][from(j)] /\ status'[c][j] = status[c][from(j)]
             /\ icon'[c][j] = icon[c][from(j)]
    BY <1>6, OrphanFacts
  <2>3. \A j \in Index : j < size'[c] => from(j) < size[c]
    BY <1>1, <2>2, Knowns DEF Moved
  <2>. HIDE DEF from
  <2>4. ASSUME NEW e \in Col, NEW j \in Index
        PROVE  /\ j < size'[e] => pic'[e][j] \in Pic
               /\ status'[e][j] = 1 => icon'[e][j] # Default
               /\ Rewritten(e)' /\ j < size'[e] => icon'[e][j] = Default /\ status'[e][j] # 1
    <3>1. CASE e = c
      BY <2>1, <2>2, <2>3, <3>1 DEF MembersInv, Rewritten
    <3>2. CASE e # c
      BY <2>1, <2>2, <3>2 DEF MembersInv, Rewritten
    <3>. QED
      BY <3>1, <3>2
  <2>. QED
    BY <2>4 DEF MembersInv
<1>7. CASE DrawList
  <2>1. main = "draw" /\ loader' = "start" /\ UNCHANGED << pic, status, icon, size >>
    BY <1>7 DEF DrawList, members
  <2>. QED
    BY <2>1 DEF MembersInv, Rewritten
<1>8. CASE FlushAlloc
  <2>1. /\ xmb_icon \in Col /\ arg \in Index /\ pic[xmb_icon][arg] \in Pic /\ 0 \in Buffer
        /\ Assign(xmb_icon, arg, 0, Freed, ResetStatus, ResetIcon)
        /\ UNCHANGED << pic, size, loading, loader >> /\ loading = None
    BY <1>8, Knowns DEF FlushAlloc, FlagsInv, MembersInv, TypeOK, Freed, ResetStatus, ResetIcon
  <2>2. /\ Freed \in [Buffer -> {Free} \cup (Col \X Index)] /\ ResetStatus \in [Col -> [Index -> 0 .. 2]]
        /\ ResetIcon \in [Col -> [Index -> Buffer \cup {Default}]]
        /\ \A e \in Col, j \in Index :
             \/ ResetStatus[e][j] = 0 /\ ResetIcon[e][j] = Default
             \/ ResetStatus[e][j] = status[e][j] /\ ResetIcon[e][j] = icon[e][j]
    BY FlushFacts
  <2>. QED
    BY <2>1, <2>2, AssignMembers
<1>9. CASE FlushSlide \/ LoadEnd
  <2>1. /\ status' = ResetStatus /\ icon' = ResetIcon /\ main # "alloc" /\ UNCHANGED << pic, size >>
        /\ \A c \in Col : Rewritten(c)' => Rewritten(c)
    BY <1>9, Knowns DEF FlushSlide, LoadEnd, FreeAll, Freed, ResetStatus, ResetIcon, FlagsInv, Rewritten
  <2>2. \A c \in Col, i \in Index :
          \/ status'[c][i] = 0 /\ icon'[c][i] = Default
          \/ status'[c][i] = status[c][i] /\ icon'[c][i] = icon[c][i]
    BY <2>1, FlushFacts
  <2>. QED
    BY <2>1, <2>2 DEF MembersInv
<1>10. CASE User
  BY <1>2, <1>10 DEF User, Scroll, Slide, Rescan, Move, members
<1>11. ASSUME NEW k \in Decoder, Decoders(k)
       PROVE  MembersInv'
  <2>1. CASE DecodeCheck(k) \/ Decode(k)
    BY <1>2, <2>1 DEF DecodeCheck, Decode, members
  <2>2. CASE DecodeStore(k)
    <3>1. UNCHANGED << pic, size, loading, loader, main, arg, xmb_icon >>
      BY <2>2 DEF DecodeStore
    <3>2. \A c \in Col, i \in Index :
            \/ status'[c][i] = 2 /\ icon'[c][i] \in {Default, icon[c][i]}
            \/ status'[c][i] = status[c][i] /\ icon'[c][i] = icon[c][i]
      BY <2>2, StoreFacts
    <3>. QED
      BY <3>1, <3>2 DEF MembersInv, Rewritten
  <2>. QED
    BY <1>11, <2>1, <2>2 DEF Decoders
<1>12. CASE LoadEmpty
  <2>1. /\ UNCHANGED << pic, status, icon, loading, main, arg, xmb_icon >> /\ loader' = "scan"
        /\ size' = [size EXCEPT ![loading] = 0]
    BY <1>12 DEF LoadEmpty
  <2>2. \A c \in Col, i \in Index : i < size'[c] => i < size[c]
    BY <2>1, Knowns DEF TypeOK
  <2>. QED
    BY <2>1, <2>2 DEF MembersInv, Rewritten
<1>13. CASE LoadScan
  <2>1. UNCHANGED << loading, main, arg, xmb_icon >> /\ main # "alloc" /\ loader = "scan"
    BY <1>13 DEF LoadScan, FlagsInv
  <2>2. ASSUME NEW c \in Col, NEW i \in Index
        PROVE  IF c = loading /\ i < size'[c]
                 THEN pic'[c][i] \in Pic /\ status'[c][i] = 0 /\ icon'[c][i] = Default
                 ELSE /\ pic'[c][i] = pic[c][i] /\ status'[c][i] = status[c][i]
                      /\ icon'[c][i] = icon[c][i] /\ (c # loading => size'[c] = size[c])
    BY <1>13, ScanFacts
  <2>. QED
    BY <2>1, <2>2 DEF MembersInv, Rewritten
<1>14. CASE LoadSort
  <2>1. UNCHANGED << loading, main, arg, xmb_icon, size >> /\ main # "alloc" /\ loader = "sort"
    BY <1>14 DEF LoadSort, FlagsInv
  <2>2. ASSUME NEW c \in Col, NEW i \in Index
        PROVE  /\ i < size[c] => pic'[c][i] \in Pic
               /\ status'[c][i] = 1 => icon'[c][i] # Default
               /\ Rewritten(c)' /\ i < size[c] => icon'[c][i] = Default /\ status'[c][i] # 1
    <3>1. CASE c = loading
      <4>1. PICK m \in Index : /\ IF i < size[c] THEN m < size[c] ELSE m = i
                               /\ pic'[c][i] = pic[c][m] /\ status'[c][i] = status[c][m]
                               /\ icon'[c][i] = icon[c][m]
        BY <1>14, <3>1, SortFacts
      <4>. QED
        BY <2>1, <3>1, <4>1 DEF MembersInv, Rewritten
    <3>2. CASE c # loading
      <4>1. pic'[c] = pic[c] /\ status'[c] = status[c] /\ icon'[c] = icon[c]
        BY <1>14, <3>2, SortFacts
      <4>. QED
        BY <2>1, <3>2, <4>1 DEF MembersInv, Rewritten
    <3>. QED
      BY <3>1, <3>2
  <2>. QED
    BY <2>1, <2>2 DEF MembersInv
<1>15. CASE UNCHANGED vars
  BY <1>2, <1>15 DEF vars, members
<1>. QED
  BY <1>3, <1>4, <1>5, <1>6, <1>7, <1>8, <1>9, <1>10, <1>11, <1>12, <1>13, <1>14, <1>15
     DEF Next, Draw, Loader

-----------------------------------------------------------------------------
(***************************************************************************)
(* Undisturbed members, buffers and decoders                               *)
(***************************************************************************)

\* Asking for a member of the list makes at most this member a target, and no decoder writes yet.
LEMMA StartLive ==
  ASSUME TypeOK, NEW c \in Col, NEW i \in Index, pic[c][i] \in Pic, Start(c, i), i < size[c], size' = size
  PROVE  /\ \A k \in Decoder, e \in Col, j \in Index :
              Target(k, e, j)' => Target(k, e, j) \/ (e = c /\ j = i /\ k = Kind[pic[c][i]])
         /\ \A e \in Col, j \in Index : Live(e, j)' => Live(e, j)
         /\ \A k \in Decoder : Writes(k)' => Writes(k) /\ dec'[k] = dec[k]
         /\ \A k \in Decoder : dec'[k].got = dec[k].got \/ dec'[k].got = NoPic
<1>1. \A k \in Decoder :
        \/ dec'[k] = dec[k]
        \/ /\ k = Kind[pic[c][i]]
           /\ dec'[k].pc = "check" /\ dec'[k].col = c /\ dec'[k].cn = i /\ dec'[k].got = NoPic
  BY StartFacts
<1>2. \A k \in Decoder, e \in Col, j \in Index :
        Target(k, e, j)' => Target(k, e, j) \/ (e = c /\ j = i /\ k = Kind[pic[c][i]])
  BY <1>1 DEF Target, Busy
<1>3. \A k \in Decoder : Writes(k)' => Writes(k) /\ dec'[k] = dec[k]
  BY <1>1 DEF Writes
<1>4. \A e \in Col, j \in Index : Live(e, j)' => Live(e, j)
  BY <1>2 DEF Live
<1>. QED
  BY <1>1, <1>2, <1>3, <1>4

\* The two decoders write apart because their targets are not the same member.
LEMMA WritersApart ==
  ASSUME TypeOK, FlagsInv, TargetsInv, WritesInv, NEW k \in Decoder, NEW c \in Col, NEW i \in Index,
         Target(k, c, i), NEW l \in Decoder \ {k}, Writes(l)
  PROVE  icon[c][i] # dec[l].buf /\ ~Target(l, c, i)
<1>1. ~Target(l, c, i)
  BY DEF TargetsInv
<1>2. Live(c, i)
  BY DEF Live
<1>. QED
  BY <1>1, <1>2 DEF WritesInv

\* What a step leaves alone that touches no member, buffer or decoder.
LEMMA NothingMoves ==
  ASSUME UndisturbedInv, UNCHANGED << size, pic, status, icon, used, data, dec >>,
         \A c \in Col : Rewritten(c) => Rewritten(c)'
  PROVE  UndisturbedInv'
<1>1. TargetsInv'
  BY DEF UndisturbedInv, TargetsInv, Target, Busy
<1>2. WritesInv'
  BY DEF UndisturbedInv, WritesInv, Target, Busy, Writes, Live
<1>3. IconsInv'
  BY DEF UndisturbedInv, IconsInv, Live, Target, Busy
<1>4. OwnPicture' /\ DecodersApart'
  BY DEF UndisturbedInv, OwnPicture, DecodersApart, Loaded
<1>. QED
  BY <1>1, <1>2, <1>3, <1>4 DEF UndisturbedInv

\* After a flush no member has a buffer; the one that waited gets one.
LEMMA FlushUndisturbed ==
  ASSUME TypeOK, FlagsInv, MembersInv, ~Decoding, dec' = dec, size' = size, pic' = pic,
         status' = ResetStatus, icon' = ResetIcon
  PROVE  UndisturbedInv'
<1>1. \A k \in Decoder : dec[k].pc = "off"
  BY Knowns DEF Decoding
<1>2. \A k \in Decoder : ~Busy(k)' /\ ~Writes(k)' /\ dec'[k].pc = "off"
  BY <1>1 DEF Busy, Writes
<1>3. \A c \in Col, i \in Index : Live(c, i)' => icon'[c][i] = Default
  BY <1>2, FlushFacts DEF Live, Target
<1>4. TargetsInv' /\ WritesInv' /\ DecodersApart'
  BY <1>2 DEF TargetsInv, WritesInv, DecodersApart, Target
<1>5. IconsInv' /\ OwnPicture'
  BY <1>3 DEF IconsInv, OwnPicture, Loaded, Live
<1>. QED
  BY <1>4, <1>5 DEF UndisturbedInv

LEMMA FlushAllocUndisturbed ==
  ASSUME TypeOK, FlagsInv, MembersInv, FlushAlloc
  PROVE  UndisturbedInv'
<1>. DEFINE c == xmb_icon
            i == arg
<1>1. /\ c \in Col /\ i \in Index /\ pic[c][i] \in Pic /\ 0 \in Buffer /\ i < size[c]
      /\ Assign(c, i, 0, Freed, ResetStatus, ResetIcon)
      /\ UNCHANGED << pic, size, loading, loader >> /\ loading = None
  BY Knowns DEF FlushAlloc, FlagsInv, MembersInv, TypeOK, Freed, ResetStatus, ResetIcon
<1>2. \A k \in Decoder : dec[k].pc = "off"
  BY Knowns DEF FlushAlloc, FlushWait, Decoding
<1>3. /\ \A k \in Decoder : ~Busy(k) /\ ~Writes(k)
      /\ \A k \in Decoder, e \in Col, j \in Index : ~Target(k, e, j)
  BY <1>2 DEF Busy, Writes, Target
<1>4. Start(c, i)
  BY <1>1 DEF Assign
<1>. HIDE DEF c, i
<1>5. /\ Freed \in [Buffer -> {Free} \cup (Col \X Index)] /\ ResetStatus \in [Col -> [Index -> 0 .. 2]]
      /\ ResetIcon \in [Col -> [Index -> Buffer \cup {Default}]]
  BY FlushFacts
<1>6. /\ \A d \in Buffer : used'[d] = IF d = 0 THEN << c, i >> ELSE Freed[d]
      /\ \A e \in Col, j \in Index :
           /\ status'[e][j] = IF e = c /\ j = i THEN 1 ELSE ResetStatus[e][j]
           /\ icon'[e][j] = IF e = c /\ j = i THEN 0 ELSE ResetIcon[e][j]
  BY <1>1, <1>5, AssignFacts
<1>7. /\ \A k \in Decoder, e \in Col, j \in Index :
              Target(k, e, j)' => e = c /\ j = i /\ k = Kind[pic[c][i]]
      /\ \A e \in Col, j \in Index : Live(e, j)' => j < size[e]
      /\ \A k \in Decoder : ~Writes(k)'
  BY <1>1, <1>3, <1>4, StartLive DEF Live
<1>8. \A e \in Col, j \in Index : Live(e, j)' /\ icon'[e][j] # Default => e = c /\ j = i
  BY <1>6, <1>7, FlushFacts
<1>9. 0 # Default /\ << c, i >> # Free
  BY Knowns DEF Free
<1>10. TargetsInv'
  BY <1>1, <1>6, <1>7, <1>9 DEF TargetsInv
<1>11. WritesInv' /\ DecodersApart'
  <2>1. ASSUME NEW k \in Decoder, dec'[k].pc \in {"check", "open"}
        PROVE  dec'[k].got = NoPic
    BY <1>1, <1>2, <1>4, <2>1, StartFacts
  <2>. QED
    BY <1>7, <2>1 DEF WritesInv, DecodersApart, Writes
<1>12. IconsInv'
  BY <1>1, <1>6, <1>8, <1>9 DEF IconsInv
<1>13. OwnPicture'
  <2>1. ASSUME NEW e \in Col, NEW j \in Index, Loaded(e, j)'
        PROVE  FALSE
    <3>1. Live(e, j)' /\ icon'[e][j] # Default /\ status'[e][j] = 2
      BY <2>1 DEF Loaded, Live
    <3>. QED
      BY <1>6, <1>8, <3>1
  <2>. QED
    BY <2>1 DEF OwnPicture
<1>. QED
  BY <1>10, <1>11, <1>12, <1>13 DEF UndisturbedInv

\* A member gets a free buffer: nobody else has it, and no decoder writes it.
LEMMA PendingUndisturbed ==
  ASSUME TypeOK, FlagsInv, MembersInv, UndisturbedInv, NEW i \in Index, DrawPending(i)
  PROVE  UndisturbedInv'
<1>. DEFINE c == xmb_icon
<1>1. /\ c \in Col /\ i < size[c] /\ pic[c][i] \in Pic /\ status[c][i] = 0
      /\ UNCHANGED << pic, size, loading, loader, data >> /\ loading = None
  BY DrawnFacts DEF DrawPending, Drawn
<1>2. PICK b \in Buffer : used[b] = Free /\ Assign(c, i, b, used, status, icon)
  BY DEF DrawPending, FreeBuffers
<1>3. Start(c, i)
  BY <1>2 DEF Assign
<1>. HIDE DEF c
<1>4. /\ \A d \in Buffer : used'[d] = IF d = b THEN << c, i >> ELSE used[d]
      /\ \A e \in Col, j \in Index :
           /\ status'[e][j] = IF e = c /\ j = i THEN 1 ELSE status[e][j]
           /\ icon'[e][j] = IF e = c /\ j = i THEN b ELSE icon[e][j]
  <2>1. /\ used \in [Buffer -> {Free} \cup (Col \X Index)] /\ status \in [Col -> [Index -> 0 .. 2]]
        /\ icon \in [Col -> [Index -> Buffer \cup {Default}]]
    BY DEF TypeOK
  <2>2. /\ used' = [used EXCEPT ![b] = << c, i >>]
        /\ status' = [status EXCEPT ![c][i] = 1] /\ icon' = [icon EXCEPT ![c][i] = b]
    BY <1>2 DEF Assign
  <2>3. \A d \in Buffer : used'[d] = IF d = b THEN << c, i >> ELSE used[d]
    BY <2>1, <2>2
  <2>4. \A e \in Col, j \in Index : status'[e][j] = IF e = c /\ j = i THEN 1 ELSE status[e][j]
    BY <2>1, <2>2
  <2>5. \A e \in Col, j \in Index : icon'[e][j] = IF e = c /\ j = i THEN b ELSE icon[e][j]
    BY <2>1, <2>2
  <2>. QED
    BY <2>3, <2>4, <2>5
<1>5. /\ \A k \in Decoder, e \in Col, j \in Index :
              Target(k, e, j)' => Target(k, e, j) \/ (e = c /\ j = i /\ k = Kind[pic[c][i]])
      /\ \A e \in Col, j \in Index : Live(e, j)' => Live(e, j)
      /\ \A k \in Decoder : Writes(k)' => Writes(k) /\ dec'[k] = dec[k]
  BY <1>1, <1>3, StartLive
<1>6. /\ << c, i >> # Free /\ Default \notin Buffer /\ \A e \in Col : ~Rewritten(e) /\ ~Rewritten(e)'
      /\ \A e \in Col, j \in Index : icon[e][j] \in Buffer \cup {Default}
      /\ \A k \in Decoder : dec[k].buf \in Buffer \cup {Default}
  BY <1>1, Knowns DEF Free, Rewritten
<1>7. \A k \in Decoder : ~Target(k, c, i)
  BY <1>1, <1>6 DEF UndisturbedInv, TargetsInv
<1>8. TargetsInv'
  BY <1>1, <1>2, <1>4, <1>5, <1>6, <1>7 DEF UndisturbedInv, TargetsInv
<1>9. \A k \in Decoder : dec'[k].pc \in {"check", "open"} => dec'[k].got = NoPic
  BY <1>1, <1>3, StartFacts DEF UndisturbedInv, WritesInv
<1>10. ASSUME NEW k \in Decoder, Writes(k)'
       PROVE  /\ dec'[k].buf # Default /\ used'[dec'[k].buf] # Free
              /\ \A e \in Col, j \in Index :
                   /\ Live(e, j)' /\ icon'[e][j] = dec'[k].buf => Target(k, e, j)' /\ status'[e][j] = 1
                   /\ Target(k, e, j)' /\ status'[e][j] = 1 => icon'[e][j] = dec'[k].buf
                   /\ (dec'[k].pc = "store" /\ dec'[k].got # NoPic /\ Target(k, e, j)' /\ status'[e][j] = 1)
                        => data'[dec'[k].buf] = pic'[e][j]
  <2>1. Writes(k) /\ dec'[k] = dec[k] /\ \A e \in Col, j \in Index : Target(k, e, j)' <=> Target(k, e, j)
    BY <1>5, <1>10 DEF Target, Busy
  <2>2. dec[k].buf # Default /\ used[dec[k].buf] # Free /\ dec[k].buf # b
    BY <1>2, <2>1 DEF UndisturbedInv, WritesInv
  <2>3. used'[dec'[k].buf] # Free
    BY <1>4, <1>6, <2>1, <2>2
  <2>4. ASSUME NEW e \in Col, NEW j \in Index
        PROVE  /\ Live(e, j)' /\ icon'[e][j] = dec'[k].buf => Target(k, e, j)' /\ status'[e][j] = 1
               /\ Target(k, e, j)' /\ status'[e][j] = 1 => icon'[e][j] = dec'[k].buf
               /\ (dec'[k].pc = "store" /\ dec'[k].got # NoPic /\ Target(k, e, j)' /\ status'[e][j] = 1)
                        => data'[dec'[k].buf] = pic'[e][j]
    <3>1. CASE e = c /\ j = i
      BY <1>4, <1>7, <2>1, <2>2, <3>1
    <3>2. CASE ~(e = c /\ j = i)
      <4>1. status'[e][j] = status[e][j] /\ icon'[e][j] = icon[e][j]
        BY <1>4, <3>2
      <4>. QED
        BY <1>1, <1>5, <2>1, <4>1 DEF UndisturbedInv, WritesInv
    <3>. QED
      BY <3>1, <3>2
  <2>. QED
    BY <2>1, <2>2, <2>3, <2>4
<1>11. WritesInv'
  BY <1>9, <1>10 DEF WritesInv
<1>12. ASSUME NEW e \in Col, NEW j \in Index, Live(e, j)', icon'[e][j] # Default
       PROVE  /\ used'[icon'[e][j]] # Free
              /\ \A f \in Col, m \in Index : Live(f, m)' /\ icon'[f][m] = icon'[e][j] => f = e /\ m = j
  <2>1. Live(e, j) /\ \A f \in Col, m \in Index : Live(f, m)' => Live(f, m)
    BY <1>5, <1>12
  <2>2. \A f \in Col, m \in Index : Live(f, m) /\ icon[f][m] # Default => icon[f][m] # b
    BY <1>2 DEF UndisturbedInv, IconsInv
  <2>3. CASE e = c /\ j = i
    BY <1>4, <1>6, <2>1, <2>2, <2>3
  <2>4. CASE ~(e = c /\ j = i)
    <3>1. icon'[e][j] = icon[e][j] /\ icon[e][j] # b /\ icon[e][j] \in Buffer
      BY <1>4, <1>6, <1>12, <2>1, <2>2, <2>4
    <3>2. used'[icon[e][j]] # Free
      BY <1>4, <1>12, <2>1, <3>1 DEF UndisturbedInv, IconsInv
    <3>3. \A f \in Col, m \in Index : Live(f, m)' /\ icon'[f][m] = icon[e][j] => f = e /\ m = j
      BY <1>4, <1>12, <2>1, <3>1 DEF UndisturbedInv, IconsInv
    <3>. QED
      BY <3>1, <3>2, <3>3
  <2>. QED
    BY <2>3, <2>4
<1>13. IconsInv'
  BY <1>12 DEF IconsInv
<1>14. OwnPicture'
  BY <1>1, <1>4 DEF UndisturbedInv, OwnPicture, Loaded
<1>15. DecodersApart'
  BY <1>5 DEF UndisturbedInv, DecodersApart, Writes
<1>. QED
  BY <1>8, <1>11, <1>13, <1>14, <1>15 DEF UndisturbedInv

\* A member asks again for its decoder.
LEMMA LoadingUndisturbed ==
  ASSUME TypeOK, FlagsInv, MembersInv, UndisturbedInv, NEW i \in Index, DrawLoading(i)
  PROVE  UndisturbedInv'
<1>. DEFINE c == xmb_icon
<1>1. /\ c \in Col /\ i < size[c] /\ pic[c][i] \in Pic /\ status[c][i] = 1 /\ main = "draw"
      /\ UNCHANGED << pic, size, status, icon, used, data, loading, loader >> /\ loading = None
      /\ Start(c, i)
  BY DrawnFacts DEF DrawLoading, Drawn, members, buffers
<1>. HIDE DEF c
<1>2. icon[c][i] # Default /\ \A e \in Col : ~Rewritten(e)
  BY <1>1, Knowns DEF MembersInv, Rewritten
<1>3. /\ \A k \in Decoder, e \in Col, j \in Index :
              Target(k, e, j)' => Target(k, e, j) \/ (e = c /\ j = i /\ k = Kind[pic[c][i]])
      /\ \A e \in Col, j \in Index : Live(e, j)' => Live(e, j)
      /\ \A k \in Decoder : Writes(k)' => Writes(k) /\ dec'[k] = dec[k]
  BY <1>1, StartLive
<1>4. TargetsInv'
  <2>1. \A k \in Decoder : Target(k, c, i) => k = Kind[pic[c][i]]
    BY <1>1, <1>2 DEF UndisturbedInv, TargetsInv
  <2>2. ASSUME NEW k \in Decoder, NEW e \in Col, NEW j \in Index, Target(k, e, j)'
        PROVE  /\ pic'[e][j] \in Pic /\ Kind[pic'[e][j]] = k
               /\ status'[e][j] = 1 /\ icon'[e][j] # Default
    <3>1. CASE Target(k, e, j)
      BY <1>1, <1>2, <3>1 DEF UndisturbedInv, TargetsInv
    <3>2. CASE e = c /\ j = i /\ k = Kind[pic[c][i]]
      BY <1>1, <1>2, <3>2
    <3>. QED
      BY <1>3, <2>2, <3>1, <3>2
  <2>3. ASSUME NEW k \in Decoder, NEW l \in Decoder, NEW e \in Col, NEW j \in Index,
               Target(k, e, j)', Target(l, e, j)'
        PROVE  k = l
    BY <2>2, <2>3
  <2>. QED
    BY <2>2, <2>3 DEF TargetsInv
<1>5. \A k \in Decoder : dec'[k].pc \in {"check", "open"} => dec'[k].got = NoPic
  BY <1>1, StartFacts DEF UndisturbedInv, WritesInv
<1>6. WritesInv'
  <2>1. \A k \in Decoder, e \in Col, j \in Index : Writes(k)' => (Target(k, e, j)' <=> Target(k, e, j))
    BY <1>3 DEF Target, Busy
  <2>. QED
    BY <1>1, <1>3, <1>5, <2>1 DEF UndisturbedInv, WritesInv
<1>7. IconsInv'
  BY <1>1, <1>3 DEF UndisturbedInv, IconsInv
<1>8. OwnPicture' /\ DecodersApart'
  BY <1>1, <1>3 DEF UndisturbedInv, OwnPicture, Loaded, DecodersApart, Writes
<1>. QED
  BY <1>4, <1>6, <1>7, <1>8 DEF UndisturbedInv

\* A member that has no decoder waits for a flush.
LEMMA FullUndisturbed ==
  ASSUME TypeOK, FlagsInv, MembersInv, UndisturbedInv, NEW i \in Index, DrawFull(i)
  PROVE  UndisturbedInv'
<1>. DEFINE c == xmb_icon
<1>1. /\ c \in Col /\ status[c][i] = 0 /\ status' = [status EXCEPT ![c][i] = 1]
      /\ UNCHANGED << pic, size, icon, used, data, dec, loading, loader >> /\ loading = None
  BY DrawnFacts DEF DrawFull, Drawn, buffers
<1>. HIDE DEF c
<1>2. \A e \in Col, j \in Index : status'[e][j] = IF e = c /\ j = i THEN 1 ELSE status[e][j]
  BY <1>1 DEF TypeOK
<1>3. /\ \A e \in Col : ~Rewritten(e)
      /\ \A k \in Decoder, e \in Col, j \in Index : Target(k, e, j)' <=> Target(k, e, j)
      /\ \A e \in Col, j \in Index : Live(e, j)' <=> Live(e, j)
      /\ \A k \in Decoder : Writes(k)' <=> Writes(k)
  BY <1>1, Knowns DEF Rewritten, Target, Busy, Live, Writes
<1>4. \A k \in Decoder : ~Target(k, c, i)
  BY <1>1, <1>3 DEF UndisturbedInv, TargetsInv
<1>5. TargetsInv'
  BY <1>1, <1>2, <1>3, <1>4 DEF UndisturbedInv, TargetsInv
<1>6. WritesInv'
  BY <1>1, <1>2, <1>3, <1>4 DEF UndisturbedInv, WritesInv
<1>7. IconsInv'
  BY <1>1, <1>3 DEF UndisturbedInv, IconsInv
<1>8. OwnPicture'
  BY <1>1, <1>2 DEF UndisturbedInv, OwnPicture, Loaded
<1>9. DecodersApart'
  BY <1>1 DEF UndisturbedInv, DecodersApart
<1>. QED
  BY <1>5, <1>6, <1>7, <1>8, <1>9 DEF UndisturbedInv

\* A member is deleted while no decoder runs: the others take their buffers along.
LEMMA OrphanUndisturbed ==
  ASSUME TypeOK, FlagsInv, MembersInv, UndisturbedInv, NEW i \in Index, DrawOrphan(i), ~disturbed'
  PROVE  UndisturbedInv'
<1>. DEFINE c == xmb_icon
            from(e, j) == IF e = c THEN Moved(i, j, size[c]) ELSE j
<1>1. \A k \in Decoder : dec[k].pc = "off" /\ dec'[k].pc = "off"
  BY Knowns DEF DrawOrphan, Decoding
<1>2. /\ \A k \in Decoder : ~Busy(k)' /\ ~Writes(k)'
      /\ used' = used /\ data' = data
  BY <1>1 DEF Busy, Writes, DrawOrphan, buffers
<1>3. /\ c \in Col /\ i < size[c] /\ size'[c] = size[c] - 1
      /\ \A e \in Col \ {c} : /\ size'[e] = size[e]
                              /\ pic'[e] = pic[e] /\ status'[e] = status[e] /\ icon'[e] = icon[e]
      /\ \A j \in Index :
           /\ Moved(i, j, size[c]) \in Index
           /\ pic'[c][j] = pic[c][Moved(i, j, size[c])]
           /\ status'[c][j] = status[c][Moved(i, j, size[c])]
           /\ icon'[c][j] = icon[c][Moved(i, j, size[c])]
  BY OrphanFacts
<1>4. \A e \in Col, j \in Index :
        /\ from(e, j) \in Index
        /\ pic'[e][j] = pic[e][from(e, j)] /\ status'[e][j] = status[e][from(e, j)]
        /\ icon'[e][j] = icon[e][from(e, j)]
  BY <1>3
<1>5. \A e \in Col, j \in Index : j < size'[e] => from(e, j) < size[e]
  BY <1>3, Knowns DEF Moved
<1>6. \A e \in Col, j, m \in Index : j < size'[e] /\ m < size'[e] /\ from(e, j) = from(e, m) => j = m
  BY <1>3, Knowns DEF Moved
<1>. HIDE DEF c, from
<1>7. \A e \in Col, j \in Index : /\ Live(e, j)' => j < size'[e] /\ Live(e, from(e, j))
                                  /\ Loaded(e, j)' => Loaded(e, from(e, j))
  BY <1>2, <1>4, <1>5 DEF Live, Target, Loaded
<1>8. TargetsInv' /\ WritesInv' /\ DecodersApart'
  BY <1>1, <1>2 DEF TargetsInv, WritesInv, DecodersApart, Target
<1>9. IconsInv'
  <2>1. ASSUME NEW e \in Col, NEW j \in Index, Live(e, j)', icon'[e][j] # Default
        PROVE  used'[icon'[e][j]] # Free
    BY <1>2, <1>4, <1>7, <2>1 DEF UndisturbedInv, IconsInv
  <2>2. ASSUME NEW e \in Col, NEW j \in Index, Live(e, j)', icon'[e][j] # Default,
               NEW f \in Col, NEW m \in Index, Live(f, m)', icon'[f][m] = icon'[e][j]
        PROVE  f = e /\ m = j
    <3>1. f = e /\ from(f, m) = from(e, j)
      BY <1>4, <1>7, <2>2 DEF UndisturbedInv, IconsInv
    <3>. QED
      BY <1>6, <1>7, <2>2, <3>1
  <2>. QED
    BY <2>1, <2>2 DEF IconsInv
<1>10. OwnPicture'
  BY <1>2, <1>4, <1>7 DEF UndisturbedInv, OwnPicture
<1>. QED
  BY <1>8, <1>9, <1>10 DEF UndisturbedInv

\* The thread remembers the buffer of its member, which only this member holds.
LEMMA CheckUndisturbed ==
  ASSUME TypeOK, FlagsInv, MembersInv, UndisturbedInv, NEW k \in Decoder, DecodeCheck(k)
  PROVE  UndisturbedInv'
<1>. DEFINE c == dec[k].col
            i == dec[k].cn
<1>1. /\ c \in Col /\ i \in Index /\ dec[k].pc = "check"
      /\ \A l \in Decoder \ {k} : dec'[l] = dec[l]
      /\ \/ dec'[k].pc = "off"
         \/ /\ status[c][i] = 1 /\ (k = "png" \/ i < size[c])
            /\ dec'[k].pc = "open" /\ dec'[k].col = c /\ dec'[k].cn = i
            /\ dec'[k].buf = icon[c][i] /\ dec'[k].got = dec[k].got
  BY CheckFacts
<1>2. UNCHANGED << size, pic, status, icon, used, data, loading, loader, main >>
  BY DEF DecodeCheck, members, buffers
<1>3. Target(k, c, i) /\ Live(c, i)
  BY <1>1 DEF Target, Busy, Live
<1>. HIDE DEF c, i
<1>4. /\ \A l \in Decoder, e \in Col, j \in Index : Target(l, e, j)' => Target(l, e, j)
      /\ \A e \in Col, j \in Index : Live(e, j)' => Live(e, j)
      /\ \A l \in Decoder \ {k} : Writes(l)' <=> Writes(l)
      /\ \A l \in Decoder \ {k}, e \in Col, j \in Index : Target(l, e, j)' <=> Target(l, e, j)
      /\ Writes(k)' => dec'[k].pc = "open" /\ \A e \in Col, j \in Index : e = c /\ j = i => Target(k, e, j)'
      /\ \A e \in Col, j \in Index : Target(k, e, j) => e = c /\ j = i
      /\ \A e \in Col : Rewritten(e)' <=> Rewritten(e)
  <2>1. \A e \in Col, j \in Index : Target(k, e, j)' => Target(k, e, j)
    BY <1>1 DEF Target, Busy, c, i
  <2>2. \A l \in Decoder \ {k}, e \in Col, j \in Index : Target(l, e, j)' <=> Target(l, e, j)
    BY <1>1 DEF Target, Busy
  <2>3. \A e \in Col, j \in Index : Live(e, j)' => Live(e, j)
    BY <1>2, <2>1, <2>2 DEF Live
  <2>4. \A l \in Decoder \ {k} : Writes(l)' <=> Writes(l)
    BY <1>1 DEF Writes
  <2>5. Writes(k)' => dec'[k].pc = "open" /\ \A e \in Col, j \in Index : e = c /\ j = i => Target(k, e, j)'
    BY <1>1 DEF Writes, Target, Busy
  <2>6. \A e \in Col, j \in Index : Target(k, e, j) => e = c /\ j = i
    BY DEF Target, c, i
  <2>7. \A e \in Col : Rewritten(e)' <=> Rewritten(e)
    BY <1>2 DEF Rewritten
  <2>. QED
    BY <2>1, <2>2, <2>3, <2>4, <2>5, <2>6, <2>7
<1>5. TargetsInv'
  BY <1>2, <1>4 DEF UndisturbedInv, TargetsInv
<1>6. IconsInv' /\ OwnPicture'
  <2>1. IconsInv'
    BY <1>2, <1>4 DEF UndisturbedInv, IconsInv
  <2>2. OwnPicture'
    BY <1>2 DEF UndisturbedInv, OwnPicture, Loaded
  <2>. QED
    BY <2>1, <2>2
<1>7. status[c][i] = 1 => icon[c][i] # Default
  <2>1. CASE Rewritten(c)
    BY <1>1, <2>1, Knowns DEF MembersInv, FlagsInv, Rewritten
  <2>2. CASE ~Rewritten(c)
    BY <1>1, <1>3, <2>2 DEF UndisturbedInv, TargetsInv
  <2>. QED
    BY <2>1, <2>2
<1>8. ASSUME NEW l \in Decoder \ {k}, Writes(l)
      PROVE  icon[c][i] # dec[l].buf /\ ~Target(l, c, i)
  BY <1>1, <1>3, <1>8, WritersApart DEF UndisturbedInv
<1>9. ASSUME Writes(k)'
      PROVE  /\ dec'[k].buf = icon[c][i] /\ status[c][i] = 1 /\ dec'[k].buf # Default
             /\ used[dec'[k].buf] # Free /\ dec'[k].got = NoPic /\ dec'[k].pc = "open"
             /\ \A e \in Col, j \in Index : Live(e, j) /\ icon[e][j] = dec'[k].buf => e = c /\ j = i
  <2>1. /\ dec'[k].buf = icon[c][i] /\ status[c][i] = 1 /\ dec'[k].pc = "open" /\ dec'[k].got = dec[k].got
    BY <1>1, <1>9, <1>4
  <2>2. icon[c][i] # Default
    BY <1>7, <2>1
  <2>3. dec[k].got = NoPic
    BY <1>1 DEF UndisturbedInv, WritesInv
  <2>4. /\ used[icon[c][i]] # Free
        /\ \A e \in Col, j \in Index : Live(e, j) /\ icon[e][j] = icon[c][i] => e = c /\ j = i
    BY <1>1, <1>3, <2>2 DEF UndisturbedInv, IconsInv
  <2>. QED
    BY <2>1, <2>2, <2>3, <2>4
<1>10. WritesInv'
  <2>1. ASSUME NEW l \in Decoder
        PROVE  /\ dec'[l].pc \in {"check", "open"} => dec'[l].got = NoPic
               /\ Writes(l)' =>
                    /\ dec'[l].buf # Default /\ used'[dec'[l].buf] # Free
                    /\ \A e \in Col, j \in Index :
                         /\ Live(e, j)' /\ icon'[e][j] = dec'[l].buf => Target(l, e, j)' /\ status'[e][j] = 1
                         /\ Target(l, e, j)' /\ status'[e][j] = 1 => icon'[e][j] = dec'[l].buf
                         /\ (dec'[l].pc = "store" /\ dec'[l].got # NoPic /\ Target(l, e, j)' /\ status'[e][j] = 1)
                              => data'[dec'[l].buf] = pic'[e][j]
    <3>1. CASE l = k
      <4>1. dec'[k].pc \in {"check", "open"} => Writes(k)'
        BY <1>1 DEF Writes
      <4>2. ASSUME Writes(k)', NEW e \in Col, NEW j \in Index
            PROVE  /\ Live(e, j)' /\ icon'[e][j] = dec'[k].buf => Target(k, e, j)' /\ status'[e][j] = 1
                   /\ Target(k, e, j)' /\ status'[e][j] = 1 => icon'[e][j] = dec'[k].buf
        <5>1. Live(e, j)' /\ icon'[e][j] = dec'[k].buf => e = c /\ j = i
          BY <1>2, <1>4, <1>9, <4>2
        <5>2. Target(k, e, j)' => e = c /\ j = i
          BY <1>4
        <5>. QED
          BY <1>2, <1>4, <1>9, <4>2, <5>1, <5>2
      <4>. QED
        BY <1>2, <1>9, <3>1, <4>1, <4>2
    <3>2. CASE l # k
      BY <1>1, <1>2, <1>4, <3>2 DEF UndisturbedInv, WritesInv
    <3>. QED
      BY <3>1, <3>2
  <2>. QED
    BY <2>1 DEF WritesInv
<1>11. DecodersApart'
  <2>1. ASSUME NEW l \in Decoder, NEW m \in Decoder, l # m, Writes(l)', Writes(m)'
        PROVE  dec'[l].buf # dec'[m].buf
    BY <1>1, <1>4, <1>8, <1>9, <2>1 DEF UndisturbedInv, DecodersApart, Writes
  <2>. QED
    BY <2>1 DEF DecodersApart, Writes
<1>. QED
  BY <1>5, <1>6, <1>10, <1>11 DEF UndisturbedInv

\* The picture is decoded into that buffer, which no Loaded member shows.
LEMMA OpenUndisturbed ==
  ASSUME TypeOK, FlagsInv, MembersInv, UndisturbedInv, NEW k \in Decoder, Decode(k)
  PROVE  UndisturbedInv'
<1>. DEFINE c == dec[k].col
            i == dec[k].cn
<1>1. /\ c \in Col /\ i \in Index /\ dec[k].pc = "open"
      /\ \A l \in Decoder \ {k} : dec'[l] = dec[l]
      /\ dec'[k].pc = "store" /\ dec'[k].col = c /\ dec'[k].cn = i /\ dec'[k].buf = dec[k].buf
      /\ \/ dec'[k].got = dec[k].got /\ data' = data
         \/ /\ dec'[k].got = pic[c][i]
            /\ \A b \in Buffer : data'[b] = IF b = dec[k].buf THEN pic[c][i] ELSE data[b]
  BY OpenFacts
<1>2. UNCHANGED << size, pic, status, icon, used, loading, loader >>
  BY DEF Decode, members
<1>3. Target(k, c, i) /\ Live(c, i) /\ Writes(k) /\ dec[k].got = NoPic
  BY <1>1 DEF Target, Busy, Live, Writes, UndisturbedInv, WritesInv
<1>4. /\ \A l \in Decoder, e \in Col, j \in Index : Target(l, e, j)' <=> Target(l, e, j)
      /\ \A l \in Decoder : (Writes(l)' <=> Writes(l)) /\ dec'[l].buf = dec[l].buf
      /\ \A e \in Col, j \in Index : Target(k, e, j) => e = c /\ j = i
      /\ \A e \in Col : Rewritten(e)' <=> Rewritten(e)
  <2>1. \A l \in Decoder, e \in Col, j \in Index : Target(l, e, j)' <=> Target(l, e, j)
    BY <1>1 DEF Target, Busy
  <2>2. \A l \in Decoder : (Writes(l)' <=> Writes(l)) /\ dec'[l].buf = dec[l].buf
    BY <1>1 DEF Writes
  <2>3. \A e \in Col, j \in Index : Target(k, e, j) => e = c /\ j = i
    BY DEF Target
  <2>4. \A e \in Col : Rewritten(e)' <=> Rewritten(e)
    BY <1>2 DEF Rewritten
  <2>. QED
    BY <2>1, <2>2, <2>3, <2>4
<1>5. \A e \in Col, j \in Index : Live(e, j)' <=> Live(e, j)
  BY <1>2, <1>4 DEF Live
<1>. HIDE DEF c, i
<1>6. /\ \A e \in Col, j \in Index : icon[e][j] \in Buffer \cup {Default}
      /\ \A l \in Decoder : dec[l].buf \in Buffer \cup {Default}
      /\ dec[k].buf \in Buffer
  <2>1. /\ \A e \in Col, j \in Index : icon[e][j] \in Buffer \cup {Default}
        /\ \A l \in Decoder : dec[l].buf \in Buffer \cup {Default}
    BY Knowns
  <2>. QED
    BY <1>3, <2>1 DEF UndisturbedInv, WritesInv
<1>7. \A b \in Buffer : b # dec[k].buf => data'[b] = data[b]
  BY <1>1
<1>8. TargetsInv' /\ IconsInv'
  <2>1. TargetsInv'
    BY <1>2, <1>4 DEF UndisturbedInv, TargetsInv
  <2>2. IconsInv'
    BY <1>2, <1>5 DEF UndisturbedInv, IconsInv
  <2>. QED
    BY <2>1, <2>2
<1>9. DecodersApart'
  <2>1. \A l, m \in Decoder : l # m /\ Writes(l) /\ Writes(m) => dec[l].buf # dec[m].buf
    BY DEF UndisturbedInv, DecodersApart, Writes
  <2>2. \A l, m \in Decoder : l # m /\ Writes(l)' /\ Writes(m)' => dec'[l].buf # dec'[m].buf
    BY <1>4, <2>1
  <2>. QED
    BY <2>2 DEF DecodersApart, Writes
<1>10. OwnPicture'
  <2>1. ASSUME NEW e \in Col, NEW j \in Index, Loaded(e, j)'
        PROVE  data'[icon'[e][j]] = pic'[e][j]
    <3>1. Loaded(e, j) /\ Live(e, j) /\ status[e][j] = 2 /\ icon[e][j] \in Buffer
      BY <1>2, <1>6, <2>1 DEF Loaded, Live
    <3>2. icon[e][j] # dec[k].buf
      BY <1>3, <3>1 DEF UndisturbedInv, WritesInv
    <3>. QED
      BY <1>2, <1>7, <3>1, <3>2 DEF UndisturbedInv, OwnPicture
  <2>. QED
    BY <2>1 DEF OwnPicture
<1>11. WritesInv'
  <2>1. ASSUME NEW l \in Decoder, dec'[l].pc \in {"check", "open"}
        PROVE  dec'[l].got = NoPic
    BY <1>1, <2>1 DEF UndisturbedInv, WritesInv
  <2>2. ASSUME NEW l \in Decoder, Writes(l)'
        PROVE  /\ dec'[l].buf # Default /\ used'[dec'[l].buf] # Free
               /\ \A e \in Col, j \in Index :
                    /\ Live(e, j)' /\ icon'[e][j] = dec'[l].buf => Target(l, e, j)' /\ status'[e][j] = 1
                    /\ Target(l, e, j)' /\ status'[e][j] = 1 => icon'[e][j] = dec'[l].buf
    BY <1>2, <1>4, <1>5, <2>2 DEF UndisturbedInv, WritesInv
  <2>3. ASSUME NEW l \in Decoder, dec'[l].pc = "store", dec'[l].got # NoPic,
               NEW e \in Col, NEW j \in Index, Target(l, e, j)', status'[e][j] = 1
        PROVE  data'[dec'[l].buf] = pic'[e][j]
    <3>1. CASE l = k
      <4>1. e = c /\ j = i /\ dec'[k].got = pic[c][i] /\ data'[dec[k].buf] = pic[c][i]
        BY <1>1, <1>3, <1>4, <1>6, <2>3, <3>1
      <4>. QED
        BY <1>2, <1>4, <3>1, <4>1
    <3>2. CASE l # k
      <4>1. dec[l] = dec'[l] /\ Writes(l) /\ Target(l, e, j) /\ status[e][j] = 1
        BY <1>1, <1>2, <1>4, <2>3, <3>2 DEF Writes
      <4>2. dec[l].buf \in Buffer /\ dec[l].buf # dec[k].buf
        BY <1>3, <1>6, <3>2, <4>1 DEF UndisturbedInv, WritesInv, DecodersApart, Writes
      <4>3. data[dec[l].buf] = pic[e][j]
        BY <2>3, <4>1 DEF UndisturbedInv, WritesInv
      <4>. QED
        BY <1>2, <1>7, <4>1, <4>2, <4>3
    <3>. QED
      BY <3>1, <3>2
  <2>. QED
    BY <2>1, <2>2, <2>3 DEF WritesInv
<1>. QED
  BY <1>8, <1>9, <1>10, <1>11 DEF UndisturbedInv

\* The thread leaves its member Loaded: with its picture, or with the icon of the column.
LEMMA StoreUndisturbed ==
  ASSUME TypeOK, FlagsInv, MembersInv, UndisturbedInv, NEW k \in Decoder, DecodeStore(k)
  PROVE  UndisturbedInv'
<1>. DEFINE c == dec[k].col
            i == dec[k].cn
            keeps == dec[k].got # NoPic /\ status[c][i] = 1
<1>1. /\ c \in Col /\ i \in Index /\ dec[k].pc = "store"
      /\ \A l \in Decoder \ {k} : dec'[l] = dec[l]
      /\ dec'[k].pc = "off"
      /\ \A e \in Col, j \in Index :
           IF e = c /\ j = i
             THEN status'[e][j] = 2 /\ icon'[e][j] = IF keeps THEN icon[e][j] ELSE Default
             ELSE status'[e][j] = status[e][j] /\ icon'[e][j] = icon[e][j]
  BY StoreFacts
<1>2. UNCHANGED << size, pic, used, data, loading, loader >>
  BY DEF DecodeStore, buffers
<1>3. Target(k, c, i) /\ Live(c, i) /\ Writes(k)
  BY <1>1 DEF Target, Busy, Live, Writes
<1>4. keeps => /\ icon[c][i] = dec[k].buf
               /\ data[dec[k].buf] = pic[c][i]
  BY <1>1, <1>3 DEF UndisturbedInv, WritesInv
<1>5. /\ \A l \in Decoder, e \in Col, j \in Index : Target(l, e, j)' => l # k /\ Target(l, e, j)
      /\ \A l \in Decoder \ {k}, e \in Col, j \in Index : Target(l, e, j)' <=> Target(l, e, j)
      /\ \A l \in Decoder : Writes(l)' => l # k /\ Writes(l) /\ dec'[l] = dec[l]
      /\ \A e \in Col : Rewritten(e)' <=> Rewritten(e)
  <2>1. ~Busy(k)' /\ ~Writes(k)'
    BY <1>1 DEF Busy, Writes
  <2>2. \A l \in Decoder \ {k} : /\ Writes(l)' <=> Writes(l)
                                 /\ \A e \in Col, j \in Index : Target(l, e, j)' <=> Target(l, e, j)
    BY <1>1 DEF Target, Busy, Writes
  <2>3. \A e \in Col : Rewritten(e)' <=> Rewritten(e)
    BY <1>2 DEF Rewritten
  <2>. QED
    BY <1>1, <2>1, <2>2, <2>3 DEF Target
<1>6. \A e \in Col, j \in Index : Live(e, j)' => Live(e, j)
  BY <1>2, <1>5 DEF Live
<1>. HIDE DEF c, i, keeps
<1>7. \A l \in Decoder \ {k} : ~Target(l, c, i)
  BY <1>1, <1>3 DEF UndisturbedInv, TargetsInv
<1>8. TargetsInv'
  <2>1. ASSUME NEW l \in Decoder, NEW e \in Col, NEW j \in Index, Target(l, e, j)', ~Rewritten(e)'
        PROVE  /\ pic'[e][j] \in Pic /\ Kind[pic'[e][j]] = l
               /\ status'[e][j] = 1 /\ icon'[e][j] # Default
    <3>1. l # k /\ Target(l, e, j) /\ ~(e = c /\ j = i)
      BY <1>5, <1>7, <2>1
    <3>2. status'[e][j] = status[e][j] /\ icon'[e][j] = icon[e][j]
      BY <1>1, <3>1
    <3>. QED
      BY <1>2, <1>5, <2>1, <3>1, <3>2 DEF UndisturbedInv, TargetsInv
  <2>2. \A l, m \in Decoder, e \in Col, j \in Index : Target(l, e, j)' /\ Target(m, e, j)' => l = m
    BY <1>5 DEF UndisturbedInv, TargetsInv
  <2>. QED
    BY <2>1, <2>2 DEF TargetsInv
<1>9. IconsInv'
  <2>1. ASSUME NEW e \in Col, NEW j \in Index, icon'[e][j] # Default
        PROVE  icon'[e][j] = icon[e][j]
    BY <1>1, <2>1
  <2>. QED
    BY <1>2, <1>6, <2>1 DEF UndisturbedInv, IconsInv
<1>10. OwnPicture'
  <2>1. ASSUME NEW e \in Col, NEW j \in Index, Loaded(e, j)'
        PROVE  data'[icon'[e][j]] = pic'[e][j]
    <3>1. j < size[e] /\ status'[e][j] = 2 /\ icon'[e][j] # Default
      BY <1>2, <2>1 DEF Loaded
    <3>2. CASE e = c /\ j = i
      BY <1>1, <1>2, <1>4, <3>1, <3>2
    <3>3. CASE ~(e = c /\ j = i)
      <4>1. status'[e][j] = status[e][j] /\ icon'[e][j] = icon[e][j]
        BY <1>1, <3>3
      <4>2. Loaded(e, j)
        BY <3>1, <4>1 DEF Loaded
      <4>. QED
        BY <1>2, <4>1, <4>2 DEF UndisturbedInv, OwnPicture
    <3>. QED
      BY <3>2, <3>3
  <2>. QED
    BY <2>1 DEF OwnPicture
<1>11. WritesInv'
  <2>1. ASSUME NEW l \in Decoder, dec'[l].pc \in {"check", "open"}
        PROVE  dec'[l].got = NoPic
    BY <1>1, <2>1 DEF UndisturbedInv, WritesInv
  <2>2. ASSUME NEW l \in Decoder, Writes(l)'
        PROVE  /\ dec'[l].buf # Default /\ used'[dec'[l].buf] # Free
               /\ \A e \in Col, j \in Index :
                    /\ Live(e, j)' /\ icon'[e][j] = dec'[l].buf => Target(l, e, j)' /\ status'[e][j] = 1
                    /\ Target(l, e, j)' /\ status'[e][j] = 1 => icon'[e][j] = dec'[l].buf
                    /\ (dec'[l].pc = "store" /\ dec'[l].got # NoPic /\ Target(l, e, j)' /\ status'[e][j] = 1)
                         => data'[dec'[l].buf] = pic'[e][j]
    <3>1. l # k /\ Writes(l) /\ dec'[l] = dec[l]
      BY <1>5, <2>2
    <3>2. dec[l].buf # Default /\ used[dec[l].buf] # Free
      BY <3>1 DEF UndisturbedInv, WritesInv
    <3>3. icon[c][i] # dec[l].buf
      BY <1>1, <1>3, <3>1, WritersApart DEF UndisturbedInv
    <3>4. ASSUME NEW e \in Col, NEW j \in Index
          PROVE  /\ Live(e, j)' /\ icon'[e][j] = dec[l].buf => Target(l, e, j) /\ status'[e][j] = 1
                 /\ Target(l, e, j) /\ status'[e][j] = 1 => icon'[e][j] = dec[l].buf
                 /\ (dec[l].pc = "store" /\ dec[l].got # NoPic /\ Target(l, e, j) /\ status'[e][j] = 1)
                         => data[dec[l].buf] = pic[e][j]
      <4>1. CASE e = c /\ j = i
        BY <1>1, <3>2, <3>3, <4>1
      <4>2. CASE ~(e = c /\ j = i)
        <5>1. status'[e][j] = status[e][j] /\ icon'[e][j] = icon[e][j]
          BY <1>1, <4>2
        <5>. QED
          BY <1>6, <3>1, <5>1 DEF UndisturbedInv, WritesInv
      <4>. QED
        BY <4>1, <4>2
    <3>. QED
      BY <1>2, <1>5, <3>1, <3>2, <3>4
  <2>. QED
    BY <2>1, <2>2 DEF WritesInv
<1>12. DecodersApart'
  BY <1>1, <1>5 DEF UndisturbedInv, DecodersApart, Writes
<1>. QED
  BY <1>8, <1>9, <1>10, <1>11, <1>12 DEF UndisturbedInv

\* The loader empties its column: fewer members are live.
LEMMA EmptyUndisturbed ==
  ASSUME TypeOK, FlagsInv, MembersInv, UndisturbedInv, LoadEmpty
  PROVE  UndisturbedInv'
<1>1. /\ UNCHANGED << pic, status, icon, used, data, dec, loading >> /\ loader = "start" /\ loader' = "scan"
      /\ size' = [size EXCEPT ![loading] = 0]
  BY DEF LoadEmpty, buffers
<1>2. \A c \in Col, i \in Index : i < size'[c] => i < size[c]
  BY <1>1, Knowns DEF TypeOK
<1>3. /\ \A k \in Decoder, c \in Col, i \in Index : Target(k, c, i)' <=> Target(k, c, i)
      /\ \A k \in Decoder : Writes(k)' <=> Writes(k)
      /\ \A c \in Col, i \in Index : Live(c, i)' => Live(c, i)
      /\ \A c \in Col : ~Rewritten(c)
  BY <1>1, <1>2 DEF Target, Busy, Writes, Live, Rewritten
<1>4. TargetsInv'
  BY <1>1, <1>3 DEF UndisturbedInv, TargetsInv
<1>5. WritesInv'
  BY <1>1, <1>3 DEF UndisturbedInv, WritesInv
<1>6. IconsInv'
  BY <1>1, <1>3 DEF UndisturbedInv, IconsInv
<1>7. OwnPicture' /\ DecodersApart'
  BY <1>1, <1>2 DEF UndisturbedInv, OwnPicture, Loaded, DecodersApart
<1>. QED
  BY <1>4, <1>5, <1>6, <1>7 DEF UndisturbedInv

\* The loader replaces or exchanges members of its column, which have no buffer then.
LEMMA ListUndisturbed ==
  ASSUME TypeOK, FlagsInv, MembersInv, UndisturbedInv,
         UNCHANGED << used, data, dec, loading >>, loader' \in {"sort", "flush"}, loading \in Col,
         \A c \in Col \ {loading} : /\ size'[c] = size[c]
                                    /\ pic'[c] = pic[c] /\ status'[c] = status[c] /\ icon'[c] = icon[c],
         \A c \in Col : Rewritten(c) => c = loading,
         \A i \in Index :
           \/ status'[loading][i] # 1 /\ icon'[loading][i] = Default
           \/ /\ pic'[loading][i] = pic[loading][i] /\ status'[loading][i] = status[loading][i]
              /\ icon'[loading][i] = icon[loading][i] /\ ~(i < size'[loading])
  PROVE  UndisturbedInv'
<1>. DEFINE lost(c, i) == c = loading /\ status'[c][i] # 1 /\ icon'[c][i] = Default
<1>1. \A c \in Col, i \in Index :
        \/ lost(c, i)
        \/ /\ pic'[c][i] = pic[c][i] /\ status'[c][i] = status[c][i] /\ icon'[c][i] = icon[c][i]
           /\ i < size'[c] => i < size[c]
  OBVIOUS
<1>2. \A c \in Col, i \in Index : lost(c, i) => status'[c][i] # 1 /\ icon'[c][i] = Default
  OBVIOUS
<1>3. \A c \in Col : /\ Rewritten(c)' <=> c = loading
                     /\ Rewritten(c) => Rewritten(c)'
  BY DEF Rewritten
<1>4. \A c \in Col, i \in Index : ~Rewritten(c)' => ~lost(c, i)
  BY <1>3
<1>. HIDE DEF lost
<1>5. /\ \A k \in Decoder, c \in Col, i \in Index : Target(k, c, i)' <=> Target(k, c, i)
      /\ \A k \in Decoder : Writes(k)' <=> Writes(k)
  BY DEF Target, Busy, Writes
<1>6. \A c \in Col, i \in Index : Live(c, i)' /\ ~lost(c, i) => Live(c, i)
  BY <1>1, <1>5 DEF Live
<1>7. TargetsInv'
  <2>1. ASSUME NEW k \in Decoder, NEW c \in Col, NEW i \in Index, Target(k, c, i)', ~Rewritten(c)'
        PROVE  /\ pic'[c][i] \in Pic /\ Kind[pic'[c][i]] = k
               /\ status'[c][i] = 1 /\ icon'[c][i] # Default
    BY <1>1, <1>3, <1>4, <1>5, <2>1 DEF UndisturbedInv, TargetsInv
  <2>. QED
    BY <1>5, <2>1 DEF UndisturbedInv, TargetsInv
<1>8. WritesInv'
  <2>1. ASSUME NEW k \in Decoder, Writes(k)'
        PROVE  /\ dec'[k].buf # Default /\ used'[dec'[k].buf] # Free
               /\ \A c \in Col, i \in Index :
                    /\ Live(c, i)' /\ icon'[c][i] = dec'[k].buf => Target(k, c, i)' /\ status'[c][i] = 1
                    /\ Target(k, c, i)' /\ status'[c][i] = 1 => icon'[c][i] = dec'[k].buf
                    /\ (dec'[k].pc = "store" /\ dec'[k].got # NoPic /\ Target(k, c, i)' /\ status'[c][i] = 1)
                         => data'[dec'[k].buf] = pic'[c][i]
    <3>1. Writes(k) /\ dec'[k] = dec[k] /\ dec[k].buf # Default /\ used[dec[k].buf] # Free
      BY <1>5, <2>1 DEF UndisturbedInv, WritesInv
    <3>2. ASSUME NEW c \in Col, NEW i \in Index
          PROVE  /\ Live(c, i)' /\ icon'[c][i] = dec[k].buf => Target(k, c, i) /\ status'[c][i] = 1
                 /\ Target(k, c, i) /\ status'[c][i] = 1 => icon'[c][i] = dec[k].buf
                 /\ (dec[k].pc = "store" /\ dec[k].got # NoPic /\ Target(k, c, i) /\ status'[c][i] = 1)
                         => data[dec[k].buf] = pic'[c][i]
      <4>1. CASE lost(c, i)
        BY <1>2, <3>1, <4>1
      <4>2. CASE ~lost(c, i)
        BY <1>1, <1>6, <3>1, <4>2 DEF UndisturbedInv, WritesInv
      <4>. QED
        BY <4>1, <4>2
    <3>. QED
      BY <1>5, <3>1, <3>2
  <2>. QED
    BY <2>1 DEF UndisturbedInv, WritesInv
<1>9. IconsInv'
  <2>1. \A c \in Col, i \in Index :
          Live(c, i)' /\ icon'[c][i] # Default => Live(c, i) /\ icon'[c][i] = icon[c][i]
    BY <1>1, <1>2, <1>6
  <2>. QED
    BY <2>1 DEF UndisturbedInv, IconsInv
<1>10. OwnPicture' /\ DecodersApart'
  <2>1. \A c \in Col, i \in Index : Loaded(c, i)' => /\ Loaded(c, i) /\ icon'[c][i] = icon[c][i]
                                                     /\ pic'[c][i] = pic[c][i]
    BY <1>1, <1>2 DEF Loaded
  <2>. QED
    BY <2>1 DEF UndisturbedInv, OwnPicture, DecodersApart
<1>. QED
  BY <1>7, <1>8, <1>9, <1>10 DEF UndisturbedInv

\* A step that does not disturb the members keeps them as they should be, and a flush makes them so.
LEMMA UndisturbedStep ==
  ASSUME ThumbsInv, [Next]_vars, ~disturbed'
  PROVE  UndisturbedInv'
<1>1. TypeOK /\ FlagsInv /\ MembersInv /\ (~disturbed => UndisturbedInv)
  BY DEF ThumbsInv
<1>2. CASE FlushAlloc
  BY <1>1, <1>2, FlushAllocUndisturbed
<1>3. CASE FlushSlide \/ LoadEnd
  <2>1. /\ ~Decoding /\ UNCHANGED << dec, size, pic >> /\ status' = ResetStatus /\ icon' = ResetIcon
    BY <1>3 DEF FlushSlide, LoadEnd, FlushWait, FreeAll, ResetStatus, ResetIcon
  <2>. QED
    BY <1>1, <2>1, FlushUndisturbed
<1>4. ASSUME NEW i \in Index, DrawPending(i) \/ DrawFull(i) \/ DrawLoading(i)
      PROVE  UndisturbedInv'
  <2>1. UndisturbedInv
    BY <1>1, <1>4 DEF DrawPending, DrawFull, DrawLoading
  <2>. QED
    BY <1>1, <1>4, <2>1, PendingUndisturbed, FullUndisturbed, LoadingUndisturbed
<1>5. ASSUME NEW i \in Index, DrawOrphan(i)
      PROVE  UndisturbedInv'
  <2>1. UndisturbedInv
    BY <1>1, <1>5 DEF DrawOrphan
  <2>. QED
    BY <1>1, <1>5, <2>1, OrphanUndisturbed
<1>6. ASSUME NEW i \in Index, DrawReclaim(i)
      PROVE  FALSE
  BY <1>6 DEF DrawReclaim
<1>7. CASE DrawList
  <2>1. /\ UNCHANGED << size, pic, status, icon, used, data, dec >> /\ loading = None /\ UndisturbedInv
    BY <1>1, <1>7 DEF DrawList, members, buffers
  <2>2. \A c \in Col : ~Rewritten(c)
    BY <1>1, <2>1, Knowns DEF Rewritten
  <2>. QED
    BY <2>1, <2>2, NothingMoves
<1>8. CASE User \/ UNCHANGED vars
  <2>1. UndisturbedInv /\ UNCHANGED << size, pic, status, icon, used, data, dec, loading, loader >>
    BY <1>1, <1>8 DEF User, Scroll, Slide, Rescan, vars, members, buffers
  <2>2. \A c \in Col : Rewritten(c) => Rewritten(c)'
    BY <2>1 DEF Rewritten
  <2>. QED
    BY <2>1, <2>2, NothingMoves
<1>9. ASSUME NEW k \in Decoder, Decoders(k)
      PROVE  UndisturbedInv'
  <2>1. UndisturbedInv
    BY <1>1, <1>9 DEF Decoders, DecodeCheck, Decode, DecodeStore
  <2>. QED
    BY <1>1, <1>9, <2>1, CheckUndisturbed, OpenUndisturbed, StoreUndisturbed DEF Decoders
<1>10. CASE LoadEmpty
  <2>1. UndisturbedInv
    BY <1>1, <1>10 DEF LoadEmpty
  <2>. QED
    BY <1>1, <1>10, <2>1, EmptyUndisturbed
<1>11. CASE LoadScan
  <2>1. /\ UndisturbedInv /\ UNCHANGED << used, data, dec, loading >> /\ loader' \in {"sort", "flush"}
        /\ \A c \in Col : ~Rewritten(c)
    BY <1>1, <1>11 DEF LoadScan, buffers, Rewritten
  <2>2. /\ loading \in Col
        /\ \A c \in Col \ {loading} :
             /\ size'[c] = size[c]
             /\ pic'[c] = pic[c] /\ status'[c] = status[c] /\ icon'[c] = icon[c]
        /\ \A i \in Index :
             \/ status'[loading][i] # 1 /\ icon'[loading][i] = Default
             \/ /\ pic'[loading][i] = pic[loading][i] /\ status'[loading][i] = status[loading][i]
                /\ icon'[loading][i] = icon[loading][i] /\ ~(i < size'[loading])
    BY <1>1, <1>11, ScanFacts
  <2>. QED
    BY <1>1, <2>1, <2>2, ListUndisturbed
<1>12. CASE LoadSort
  <2>1. /\ UndisturbedInv /\ UNCHANGED << used, data, dec, loading, size >> /\ loader' \in {"sort", "flush"}
        /\ \A c \in Col : Rewritten(c) => c = loading
    BY <1>1, <1>12 DEF LoadSort, buffers, Rewritten
  <2>2. /\ loading \in Col
        /\ \A c \in Col \ {loading} : pic'[c] = pic[c] /\ status'[c] = status[c] /\ icon'[c] = icon[c]
        /\ \A j \in Index :
             \E m \in Index : /\ IF j < size[loading] THEN m < size[loading] ELSE m = j
                              /\ pic'[loading][j] = pic[loading][m] /\ status'[loading][j] = status[loading][m]
                              /\ icon'[loading][j] = icon[loading][m]
    BY <1>1, <1>12, SortFacts
  <2>3. \A m \in Index : m < size[loading] => status[loading][m] # 1 /\ icon[loading][m] = Default
    BY <1>1, <1>12, <2>2 DEF LoadSort, MembersInv, Rewritten
  <2>4. ASSUME NEW i \in Index
        PROVE  \/ status'[loading][i] # 1 /\ icon'[loading][i] = Default
               \/ /\ pic'[loading][i] = pic[loading][i] /\ status'[loading][i] = status[loading][i]
                  /\ icon'[loading][i] = icon[loading][i] /\ ~(i < size'[loading])
    BY <2>1, <2>2, <2>3
  <2>. QED
    BY <1>1, <2>1, <2>2, <2>4, ListUndisturbed
<1>. QED
  BY <1>2, <1>3, <1>4, <1>5, <1>6, <1>7, <1>8, <1>9, <1>10, <1>11, <1>12 DEF Next, Draw, Loader

LEMMA ThumbsAlways == Spec => []ThumbsInv
<1>1. Init => ThumbsInv
  BY ThumbsStart
<1>2. ThumbsInv /\ [Next]_vars => ThumbsInv'
  BY TypeStep, FlagsStep, MembersStep, UndisturbedStep DEF ThumbsInv
<1>. QED
  BY <1>1, <1>2, PTL DEF Spec

\* Every variable keeps its type: no index leaves the arrays of members and of buffers.
THEOREM ThumbsTypeCorrect == Spec => []TypeOK
<1>1. ThumbsInv => TypeOK
  BY DEF ThumbsInv
<1>. QED
  BY <1>1, ThumbsAlways, PTL

\* Only a reclaim (find_free_buffer), or an orphan deleted while a decoder runs, can give a member
\* the picture of another one or let the decoders write into one buffer, until the next flush.
THEOREM PicturesStayOwn == Spec => []PicturesUndisturbed
<1>1. ThumbsInv => PicturesUndisturbed
  BY DEF ThumbsInv, UndisturbedInv, PicturesUndisturbed
<1>. QED
  BY <1>1, ThumbsAlways, PTL
=============================================================================
