------------------------------- MODULE Thumbs -------------------------------
(***************************************************************************)
(* The thumbnails of the XMB columns.  Every column is an array of         *)
(* members; a member that has a picture starts Pending, gets one of the    *)
(* few icon buffers when it is first drawn, is Loading while one of two    *)
(* decoder threads fills that buffer, and is then Loaded.  Buffers are not *)
(* given back one by one: when none is left either all members of all      *)
(* columns are reset (free_all_buffers), or, in the photo and music        *)
(* columns, the members away from the cursor are reset and every buffer is *)
(* declared free at once.                                                  *)
(*                                                                         *)
(* Three kinds of threads share the arrays without a lock: the main loop   *)
(* that draws, the two decoders, and the loader that lists a column again. *)
(* They are ordered only by the flags is_decoding_jpg, is_decoding_png and *)
(* is_photo_loading, is_video_loading, ...                                 *)
(***************************************************************************)
EXTENDS Integers, Sequences, Functions

CONSTANTS
  Col,           \* the columns, numbers of xmb[]
  Windowed,      \* those that find_free_buffer treats apart: 3 photo, 4 music
  Flushed,       \* those that are flushed when the cursor slides away: 3
  MaxMembers,    \* MAX_XMB_MEMBERS
  NBuffers,      \* MAX_XMB_THUMBS
  Above, Below,  \* the members drawn around the cursor
  Pic,           \* the pictures, numbers in the order of the sorted column
  Kind,          \* the decoder a picture needs, "jpg" or "png"
  Broken,        \* pictures that cannot be decoded
  Missing,       \* pictures of a saved column whose file is gone
  Saved,         \* the columns read from the saved list
  Listings,      \* what listing a column again may find
  MaxMoves       \* bound: moves of the user

ASSUME ThumbsAssumption ==
  /\ Col \subseteq Nat /\ Windowed \subseteq Col /\ Flushed \subseteq Col
  /\ MaxMembers \in Nat \ {0} /\ MaxMoves \in Nat
  /\ Above \in Nat /\ Below \in Nat /\ NBuffers \in Nat /\ NBuffers > Above + Below
  /\ Pic \subseteq Nat /\ Broken \subseteq Pic /\ Missing \subseteq Pic
  /\ Kind \in [Pic -> {"jpg", "png"}]
  /\ Saved \in [Col -> Seq(Pic)]
  /\ \A c \in Col : /\ Len(Saved[c]) \in 1 .. MaxMembers
                    /\ \A s \in Listings[c] : s \in Seq(Pic) /\ Len(s) <= MaxMembers

Index == 0 .. MaxMembers - 1
Buffer == 0 .. NBuffers - 1
Decoder == {"jpg", "png"}
Default == -1          \* the icon of the column, xmb_icon_photo, xmb_icon_film, ...
NoPic == -1
Free == << >>
None == -1

VARIABLES
  xmb_icon,  \* the column under the cursor
  first,     \* the member under the cursor, per column
  size, pic, status, icon,   \* the members of each column
  init,      \* FALSE when the column has to be listed again
  loading,   \* the column whose is_*_loading is set, or None
  loader,    \* where its thread is
  used,      \* xmb_icon_buf[].used and .column
  data,      \* the picture in each buffer
  dec,       \* per decoder: thread position, column, member, buffer, picture
  main, arg, \* the main loop: drawing, or waiting in free_all_buffers
  moves,
  disturbed  \* history: buffers were reclaimed, or members moved under a decoder,
             \* since the last time everything was flushed

members == << size, pic, status, icon >>
buffers == << used, data >>
vars == << xmb_icon, first, members, init, loading, loader, buffers, dec, main, arg, moves, disturbed >>

FromSeq(s, default) == [i \in Index |-> IF i < Len(s) THEN s[i + 1] ELSE default]
All(value) == [i \in Index |-> value]

Idle == [pc |-> "off", col |-> None, cn |-> 0, buf |-> Default, got |-> NoPic]

Init ==
  /\ xmb_icon \in Col
  /\ first = [c \in Col |-> 0]
  /\ size = [c \in Col |-> Len(Saved[c])]
  /\ pic = [c \in Col |-> FromSeq(Saved[c], NoPic)]
  /\ status = [c \in Col |-> All(0)]
  /\ icon = [c \in Col |-> All(Default)]
  /\ init = [c \in Col |-> TRUE]
  /\ loading = None /\ loader = "off"
  /\ used = [b \in Buffer |-> Free]
  /\ data = [b \in Buffer |-> NoPic]
  /\ dec = [k \in Decoder |-> Idle]
  /\ main = "draw" /\ arg = 0
  /\ moves = 0 /\ disturbed = FALSE

-----------------------------------------------------------------------------
(***************************************************************************)
(* Buffers                                                                 *)
(***************************************************************************)

Decoding == \E k \in Decoder : dec[k].pc # "off"

\* The members free_all_buffers and find_free_buffer put back to Pending.
Reset(c, i) == i < size[c] /\ icon[c][i] # Default

\* free_all_buffers, after its wait for both decoders.
FreeAll ==
  /\ used' = [b \in Buffer |-> Free]
  /\ status' = [c \in Col |-> [i \in Index |-> IF Reset(c, i) THEN 0 ELSE status[c][i]]]
  /\ icon' = [c \in Col |-> [i \in Index |-> IF Reset(c, i) THEN Default ELSE icon[c][i]]]

\* Wrong variant: the search looks one slot too far.
FreeBuffers_PastEnd == { b \in 0 .. NBuffers : b = NBuffers \/ used[b] = Free }

FreeBuffers == { b \in Buffer : used[b] = Free }

-----------------------------------------------------------------------------
(***************************************************************************)
(* The main loop: draw the visible members of the column                   *)
(***************************************************************************)

Top(c) == IF first[c] >= size[c] THEN 0 ELSE first[c]
Visible(c) == { i \in Index : i < size[c] /\ i >= Top(c) - Above /\ i <= Top(c) + Below }

\* load_jpg_threaded, load_png_threaded: refused while that decoder runs.
Start(c, i) ==
  LET k == Kind[pic[c][i]]
  IN dec' = IF dec[k].pc = "off"
              THEN [dec EXCEPT ![k] = [Idle EXCEPT !.pc = "check", !.col = c, !.cn = i]]
              ELSE dec

\* The member may be drawn with a thumbnail: it exists, and no column is loading.
Drawn(c, i) ==
  main = "draw" /\ c = xmb_icon /\ loading = None /\ i \in Visible(c) /\ pic[c][i] \notin Missing

\* The member gets buffer b, and its picture is asked for.
Assign(c, i, b, usedBy, st, ic) ==
  /\ used' = [usedBy EXCEPT ![b] = << c, i >>]
  /\ status' = [st EXCEPT ![c][i] = 1]
  /\ icon' = [ic EXCEPT ![c][i] = b]
  /\ Start(c, i)

DrawPending(i) ==
  LET c == xmb_icon
  IN /\ Drawn(c, i) /\ status[c][i] = 0 /\ FreeBuffers # {}
     /\ \E b \in FreeBuffers :
          /\ \A d \in FreeBuffers : b <= d
          /\ Assign(c, i, b, used, status, icon)
     /\ UNCHANGED << xmb_icon, first, size, pic, init, loading, loader, data, main, arg, moves, disturbed >>

\* find_free_buffer in a windowed column: members away from the cursor are reset,
\* all buffers are free, nobody waits for a decoder, buffer 0 is the one returned.
DrawReclaim(i) ==
  LET c == xmb_icon
      Away(j) == j < size[c] /\ icon[c][j] # Default /\ (j < first[c] - Above \/ j > first[c] + Below)
  IN /\ Drawn(c, i) /\ status[c][i] = 0 /\ FreeBuffers = {} /\ c \in Windowed
     /\ Assign(c, i, 0, [b \in Buffer |-> Free],
               [status EXCEPT ![c] = [j \in Index |-> IF Away(j) THEN 0 ELSE @[j]]],
               [icon EXCEPT ![c] = [j \in Index |-> IF Away(j) THEN Default ELSE @[j]]])
     /\ disturbed' = TRUE
     /\ UNCHANGED << xmb_icon, first, size, pic, init, loading, loader, data, main, arg, moves >>

\* In the other columns it calls free_all_buffers, which waits for the decoders.
DrawFull(i) ==
  LET c == xmb_icon
  IN /\ Drawn(c, i) /\ status[c][i] = 0 /\ FreeBuffers = {} /\ c \notin Windowed
     /\ status' = [status EXCEPT ![c][i] = 1]
     /\ main' = "alloc" /\ arg' = i
     /\ UNCHANGED << xmb_icon, first, size, pic, icon, init, loading, loader, buffers, dec, moves, disturbed >>

\* Wrong variant: only the JPG decoder is waited for.
FlushWait_JpgOnly == dec["jpg"].pc # "off"

FlushWait == Decoding

\* The wait is over: the member that asked gets buffer 0.
FlushAlloc ==
  LET c == xmb_icon
  IN /\ main = "alloc" /\ ~FlushWait
     /\ main' = "draw" /\ arg' = 0
     /\ Assign(c, arg, 0, [b \in Buffer |-> Free],
               [d \in Col |-> [i \in Index |-> IF Reset(d, i) THEN 0 ELSE status[d][i]]],
               [d \in Col |-> [i \in Index |-> IF Reset(d, i) THEN Default ELSE icon[d][i]]])
     /\ disturbed' = FALSE
     /\ UNCHANGED << xmb_icon, first, size, pic, init, loading, loader, data, moves >>

\* The member has its buffer already: ask again as soon as its decoder is free.
DrawLoading(i) ==
  LET c == xmb_icon
  IN /\ Drawn(c, i) /\ status[c][i] = 1
     /\ Start(c, i)
     /\ UNCHANGED << xmb_icon, first, members, init, loading, loader, buffers, main, arg, moves, disturbed >>

\* delete_xmb_member: the draw loop removes a member whose file is gone, and every
\* later one moves up, also while a decoder works for one of them.
DrawOrphan(i) ==
  LET c == xmb_icon
      Shift(f) == [f EXCEPT ![c] = [j \in Index |-> IF j >= i /\ j < size[c] - 1 THEN @[j + 1] ELSE @[j]]]
  IN /\ main = "draw" /\ i \in Visible(c) /\ pic[c][i] \in Missing
     /\ size' = [size EXCEPT ![c] = @ - 1]
     /\ pic' = Shift(pic) /\ status' = Shift(status) /\ icon' = Shift(icon)
     /\ first' = [first EXCEPT ![c] = Top(c)]
     /\ disturbed' = (disturbed \/ Decoding)
     /\ UNCHANGED << xmb_icon, init, loading, loader, buffers, dec, main, arg, moves >>

\* add_photo_column, add_video_column: list the column again, one column at a time.
DrawList ==
  /\ main = "draw" /\ ~init[xmb_icon] /\ loading = None
  /\ loading' = xmb_icon /\ loader' = "start"
  /\ init' = [init EXCEPT ![xmb_icon] = TRUE]
  /\ UNCHANGED << xmb_icon, first, members, buffers, dec, main, arg, moves, disturbed >>

-----------------------------------------------------------------------------
(***************************************************************************)
(* The user, through the main loop                                         *)
(***************************************************************************)

Move == main = "draw" /\ moves < MaxMoves /\ moves' = moves + 1

Scroll ==
  /\ Move
  /\ \E n \in {Top(xmb_icon) - 1, Top(xmb_icon) + 1} :
        n \in 0 .. size[xmb_icon] - 1 /\ first' = [first EXCEPT ![xmb_icon] = n]
  /\ UNCHANGED << xmb_icon, members, init, loading, loader, buffers, dec, main, arg, disturbed >>

\* The slide to the next column ends: only some columns are flushed.  A key
\* pressed during the slide flushes whatever the column.
Slide ==
  /\ Move
  /\ \E c \in Col \ {xmb_icon} :
       \/ /\ xmb_icon \notin Flushed
          /\ xmb_icon' = c /\ UNCHANGED << main, arg >>
       \/ main' = "slide" /\ arg' = c /\ UNCHANGED xmb_icon
  /\ UNCHANGED << first, members, init, loading, loader, buffers, dec, disturbed >>

FlushSlide ==
  /\ main = "slide" /\ ~FlushWait
  /\ FreeAll
  /\ xmb_icon' = arg
  /\ main' = "draw" /\ arg' = 0
  /\ disturbed' = FALSE
  /\ UNCHANGED << first, size, pic, init, loading, loader, data, dec, moves >>

\* A device was added or removed: the columns are out of date.
Rescan ==
  /\ Move
  /\ init' = [c \in Col |-> FALSE]
  /\ UNCHANGED << xmb_icon, first, members, loading, loader, buffers, dec, main, arg, disturbed >>

-----------------------------------------------------------------------------
(***************************************************************************)
(* The decoders                                                            *)
(***************************************************************************)

\* Wrong variant: a thread that finds nothing to do leaves its flag set.
DecodeCheck_FlagStays(k) ==
  LET d == dec[k]
      wanted == status[d.col][d.cn] = 1 /\ (k = "png" \/ d.cn < size[d.col])
  IN /\ d.pc = "check" /\ wanted
     /\ dec' = [dec EXCEPT ![k] = [d EXCEPT !.pc = "open", !.buf = icon[d.col][d.cn]]]
     /\ UNCHANGED << xmb_icon, first, members, init, loading, loader, buffers, main, arg, moves, disturbed >>

\* The thread runs: it goes on only if the member is still Loading (the JPG thread
\* also looks at the size), and remembers the buffer the member points to.
DecodeCheck(k) ==
  LET d == dec[k]
      wanted == status[d.col][d.cn] = 1 /\ (k = "png" \/ d.cn < size[d.col])
  IN /\ d.pc = "check"
     /\ dec' = [dec EXCEPT ![k] = IF wanted THEN [d EXCEPT !.pc = "open", !.buf = icon[d.col][d.cn]]
                                            ELSE Idle]
     /\ UNCHANGED << xmb_icon, first, members, init, loading, loader, buffers, main, arg, moves, disturbed >>

\* The picture is opened by the path the member has now, and decoded.
Decode(k) ==
  LET d == dec[k]
      p == pic[d.col][d.cn]
  IN /\ d.pc = "open"
     /\ IF p = NoPic \/ p \in Broken \cup Missing
          THEN dec' = [dec EXCEPT ![k].pc = "store"] /\ UNCHANGED data
          ELSE /\ dec' = [dec EXCEPT ![k].pc = "store", ![k].got = p]
               /\ data' = [data EXCEPT ![d.buf] = p]
     /\ UNCHANGED << xmb_icon, first, members, init, loading, loader, used, main, arg, moves, disturbed >>

\* Loaded, with the picture if there is one and the member is still Loading, and
\* with the icon of the column otherwise.
DecodeStore(k) ==
  LET d == dec[k]
  IN /\ d.pc = "store"
     /\ status' = [status EXCEPT ![d.col][d.cn] = 2]
     /\ icon' = IF d.got # NoPic /\ status[d.col][d.cn] = 1
                  THEN icon ELSE [icon EXCEPT ![d.col][d.cn] = Default]
     /\ dec' = [dec EXCEPT ![k] = Idle]
     /\ UNCHANGED << xmb_icon, first, size, pic, init, loading, loader, buffers, main, arg, moves, disturbed >>

-----------------------------------------------------------------------------
(***************************************************************************)
(* The loader of a column                                                  *)
(***************************************************************************)

LoadEmpty ==
  /\ loader = "start" /\ loader' = "scan"
  /\ size' = [size EXCEPT ![loading] = 0]
  /\ first' = [first EXCEPT ![loading] = 0]
  /\ UNCHANGED << xmb_icon, pic, status, icon, init, loading, buffers, dec, main, arg, moves, disturbed >>

\* The members of the listing are written over the old ones.
LoadScan ==
  /\ loader = "scan" /\ loader' = "sort"
  /\ \E s \in Listings[loading] :
       LET Over(f, new) == [f EXCEPT ![loading] = [i \in Index |-> IF i < Len(s) THEN new[i] ELSE @[i]]]
       IN /\ size' = [size EXCEPT ![loading] = Len(s)]
          /\ pic' = Over(pic, FromSeq(s, NoPic))
          /\ status' = Over(status, All(0))
          /\ icon' = Over(icon, All(Default))
  /\ UNCHANGED << xmb_icon, first, init, loading, buffers, dec, main, arg, moves, disturbed >>

\* sort_xmb_col exchanges whole members, their status included; it leaves two alone.
LoadSort ==
  LET c == loading
      Members == 0 .. size[c] - 1
  IN /\ loader = "sort" /\ loader' = "flush"
     /\ \E order \in Bijection(Members, Members) :
          LET Sorted(f) == [f EXCEPT ![c] = [i \in Index |-> IF i < size[c] THEN @[order[i]] ELSE @[i]]]
          IN /\ IF size[c] < 3 THEN \A i \in Members : order[i] = i
                ELSE \A i, j \in Members : i < j => pic[c][order[i]] <= pic[c][order[j]]
             /\ pic' = Sorted(pic) /\ status' = Sorted(status) /\ icon' = Sorted(icon)
     /\ UNCHANGED << xmb_icon, first, size, init, loading, buffers, dec, main, arg, moves, disturbed >>

LoadEnd ==
  /\ loader = "flush" /\ ~FlushWait
  /\ FreeAll
  /\ loader' = "off" /\ loading' = None
  /\ disturbed' = FALSE
  /\ UNCHANGED << xmb_icon, first, size, pic, init, data, dec, main, arg, moves >>

-----------------------------------------------------------------------------
Draw ==
  \/ \E i \in Index : \/ DrawPending(i) \/ DrawReclaim(i) \/ DrawFull(i)
                      \/ DrawLoading(i) \/ DrawOrphan(i)
  \/ DrawList \/ FlushAlloc \/ FlushSlide

User == Scroll \/ Slide \/ Rescan

Decoders(k) == DecodeCheck(k) \/ Decode(k) \/ DecodeStore(k)

Loader == LoadEmpty \/ LoadScan \/ LoadSort \/ LoadEnd

Next == Draw \/ User \/ Loader \/ \E k \in Decoder : Decoders(k)

Spec == Init /\ [][Next]_vars

\* The main loop draws frame after frame and every thread it starts runs; the user
\* need not do anything.
FairSpec ==
  Spec /\ WF_vars(Draw) /\ WF_vars(Loader) /\ \A k \in Decoder : WF_vars(Decoders(k))

-----------------------------------------------------------------------------
TypeOK ==
  /\ xmb_icon \in Col /\ first \in [Col -> Index] /\ size \in [Col -> 0 .. MaxMembers]
  /\ pic \in [Col -> [Index -> Pic \cup {NoPic}]]
  /\ status \in [Col -> [Index -> 0 .. 2]]
  /\ icon \in [Col -> [Index -> Buffer \cup {Default}]]
  /\ init \in [Col -> BOOLEAN] /\ loading \in Col \cup {None}
  /\ loader \in {"off", "start", "scan", "sort", "flush"}
  /\ used \in [Buffer -> {Free} \cup (Col \X Index)]
  /\ data \in [Buffer -> Pic \cup {NoPic}]
  /\ dec \in [Decoder -> [pc : {"off", "check", "open", "store"}, col : Col \cup {None},
                          cn : Index, buf : Buffer \cup {Default}, got : Pic \cup {NoPic}]]
  /\ main \in {"draw", "alloc", "slide"} /\ arg \in Nat /\ moves \in 0 .. MaxMoves
  /\ disturbed \in BOOLEAN

Loaded(c, i) == i < size[c] /\ status[c][i] = 2 /\ icon[c][i] # Default

\* A Loaded member that points to an icon buffer shows its own picture.
OwnPicture == \A c \in Col, i \in Index : Loaded(c, i) => data[icon[c][i]] = pic[c][i]

\* The two decoders never write into the same buffer.
DecodersApart ==
  \A k, l \in Decoder :
    k # l /\ dec[k].pc \in {"open", "store"} /\ dec[l].pc \in {"open", "store"} => dec[k].buf # dec[l].buf

\* Only a reclaim, or an orphan deleted under a decoder, can give a member the picture
\* of another one or let the decoders write into one buffer, and only until the next flush:
\* slides, reloads, listings that end while a decoder runs and failed decodes never do.
PicturesUndisturbed == ~disturbed => OwnPicture /\ DecodersApart

\* Once the user rests, every visible member ends Loaded.
VisibleLoaded == <>[](\A i \in Visible(xmb_icon) : status[xmb_icon][i] = 2)
=============================================================================
