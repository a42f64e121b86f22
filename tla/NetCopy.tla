------------------------------ MODULE NetCopy ------------------------------
(***************************************************************************)
(* Copies between the console and a host of the network, in               *)
(* source/multiman.cpp: a folder of the host (net_folder_copy), a folder   *)
(* to the host (read_folder, net_folder_copy_put), and one file either way *)
(* (network_com, network_put).  One connection carries                     *)
(* commands and data; what the client has not read when it sends the next  *)
(* command is still before the answer to it.                               *)
(*                                                                         *)
(* The host, the connection, the user and the files are external.  Data    *)
(* are pieces, as one receive or one read delivers them.                   *)
(***************************************************************************)
EXTENDS Integers, Sequences, FiniteSets, SequencesExt

CONSTANTS
  Index,          \* the entries of the host's index: [name, folder, dir, media]
  Tree,           \* by directory of the console: its entries, in order
  Folder,         \* the directories that are copied
  Size,           \* by file: its pieces
  MAX_F_FILES,
  MaxOps          \* bound: operations

VARIABLES
  op, step,       \* the operation, and where it is
  folder, home,   \* what is copied, and does it go to the media library
  entry,          \* the entry of the index, or of f_files, at hand
  got, expected,  \* pieces of this file so far, and as the header says
  stream,         \* the pieces on the way to the client
  srv,            \* the file the host receives, and the pieces it waits for
  disk,           \* by file: its pieces now (another program may cut it)
  stored, remote, \* by file: what has arrived here, and at the host
  f_files, todo, abort_copy, total, sent,   \* read_folder, and what it adds up
  open,           \* what is open: "socket", "index", "file"
  twice,          \* history: what was closed twice, and after what
  pos, readb,     \* where the file that is sent is read next, and what the last read got
  trouble,        \* history: what went wrong, or what the user broke off
  ops

files == << stored, remote, disk >>
reads == << pos, readb >>
list == << f_files, todo, abort_copy, total, sent, reads >>
net == << stream, srv >>
which == << folder, home >>
netCopyVars == << op, step, which, entry, got, expected, net, files, list, open, twice, trouble, ops >>

HostFile == DOMAIN Size
Nobody == [of |-> "none", left |-> 0]
Data(f) == [k \in 1 .. Size[f] |-> << f, k >>]
Header(f) == << << "header", Size[f] >> >>

Init ==
  /\ op = "idle" /\ step = "idle" /\ home = FALSE /\ folder \in Folder /\ entry = 1 /\ got = 0 /\ expected = 0
  /\ stream = << >> /\ srv = Nobody /\ disk = Size
  /\ stored = [f \in HostFile |-> << >>] /\ remote = [f \in HostFile |-> << >>]
  /\ f_files = << >> /\ todo = << >> /\ abort_copy = FALSE /\ total = 0 /\ sent = 0
  /\ open = {} /\ twice = {} /\ trouble = {} /\ ops = 0 /\ pos = 0 /\ readb = 0

Breaks == trouble' = trouble \cup {"broken"}
Closes(what, after) == IF what \in open THEN twice ELSE twice \cup {after}

\* The connection is ended: shutdown and socketclose.
Hangs == stream' = << >> /\ srv' = Nobody

\* What the client sends next to a host that waits for data counts as data.
Takes(piece) ==
  /\ remote' = IF srv.left > 0 THEN [remote EXCEPT ![srv.of] = Append(@, piece)] ELSE remote
  /\ srv' = IF srv.left > 1 THEN [srv EXCEPT !.left = @ - 1] ELSE Nobody

\* An operation begins; what others left on the disks is all there.
Starts(o, first) ==
  /\ op = "idle" /\ ops < MaxOps /\ ops' = ops + 1 /\ op' = o /\ step' = first
  /\ entry' = 1 /\ got' = 0 /\ sent' = 0 /\ abort_copy' = FALSE /\ disk' = Size /\ twice' = {}
  /\ stored' = [f \in HostFile |-> << >>] /\ remote' = [f \in HostFile |-> << >>]
  /\ pos' = 0 /\ readb' = 0 /\ UNCHANGED << expected, net >>

-----------------------------------------------------------------------------
(***************************************************************************)
(* net_folder_copy.  The index is read twice: to add up what is wanted,    *)
(* and to fetch it.                                                        *)
(***************************************************************************)
Wanted(e) == e.folder = folder /\ ~e.dir /\ (home => e.media)
CopyBytes == { i \in DOMAIN Index : Wanted(Index[i]) /\ Size[Index[i].name] > 0 }

StartGet ==
  /\ Starts("get", "connect") /\ home' \in BOOLEAN /\ folder' \in Folder /\ open' = {"index", "socket"}
  /\ trouble' = {} /\ f_files' = << >> /\ todo' = << >> /\ total' = 0

\* After the first pass the index is closed, and with nothing to fetch it is closed again.
GetConnect ==
  /\ op = "get" /\ step = "connect"
  /\ \/ step' = "end" /\ Breaks /\ UNCHANGED << open, twice >>
     \/ /\ UNCHANGED << trouble, twice >>
        /\ IF CopyBytes = {} THEN step' = "end" /\ open' = open \ {"index"} ELSE step' = "entry" /\ UNCHANGED open
  /\ UNCHANGED << op, which, entry, got, expected, net, files, list, ops >>

Skipped == entry \notin CopyBytes
Here == Index[entry].name

NextEntry ==
  /\ op = "get" /\ step = "entry" /\ entry <= Len(Index) /\ Skipped /\ entry' = entry + 1
  /\ UNCHANGED << op, step, which, got, expected, net, files, list, open, twice, trouble, ops >>

\* GET: the file is opened before the command is sent.
Get ==
  /\ op = "get" /\ step = "entry" /\ entry <= Len(Index) /\ ~Skipped
  /\ stored' = [stored EXCEPT ![Here] = << >>] /\ got' = 0
  /\ IF "broken" \in trouble THEN step' = "next" /\ UNCHANGED << stream, open, trouble >>
     ELSE \/ /\ stream' = stream \o Header(Here) \o Data(Here) /\ step' = "header"
             /\ open' = open \cup {"file"} /\ UNCHANGED trouble
          \/ Breaks /\ step' = "next" /\ UNCHANGED << stream, open >>
  /\ UNCHANGED << op, which, entry, expected, srv, remote, disk, list, twice, ops >>

\* More than what is on its way is as good as any.
AnySize == 0 .. Len(stream) + 1

\* What comes first, up to 32 bytes, is taken for the header: data that was left over is one with
\* any size, and so is a part of the header, the rest of which is then data.
ReadHeader ==
  /\ op \in {"get", "com"} /\ step = "header"
  /\ \/ /\ "broken" \notin trouble /\ stream # << >> /\ stream' = Tail(stream) /\ UNCHANGED trouble
        /\ expected' \in IF Head(stream)[1] = "header" THEN {Head(stream)[2]} ELSE AnySize
     \/ /\ "broken" \notin trouble /\ stream # << >> /\ Head(stream)[1] = "header"
        /\ stream' = << << "rest", 0 >> >> \o Tail(stream) /\ expected' \in AnySize
        /\ trouble' = trouble \cup {"short"}
     \/ Breaks /\ expected' = 0 /\ UNCHANGED stream
  /\ step' = IF expected' = 0 THEN "closefile" ELSE "data"
  /\ UNCHANGED << op, which, entry, got, srv, files, list, open, twice, ops >>

Receive ==
  /\ op = "get" /\ step = "data" /\ stream # << >> /\ stream' = Tail(stream) /\ got' = got + 1
  /\ stored' = [stored EXCEPT ![Here] = Append(@, Head(stream))]
  /\ step' = IF got' >= expected THEN "wait" ELSE "data"
  /\ UNCHANGED << op, which, entry, expected, srv, remote, disk, list, open, twice, trouble, ops >>

ReceiveFails ==
  /\ op = "get" /\ step = "data" /\ Breaks /\ step' = "closefile"
  /\ UNCHANGED << op, which, entry, got, expected, net, files, list, open, twice, ops >>

\* A button breaks off this file, and the next is fetched on the same connection.
SkipFile ==
  /\ op = "get" /\ step = "data" /\ got > 0 /\ trouble' = trouble \cup {"skipped"} /\ step' = "wait"
  /\ UNCHANGED << op, which, entry, got, expected, net, files, list, open, twice, ops >>

\* WAIT, and the file is closed.
CloseFile ==
  /\ op = "get" /\ step \in {"wait", "closefile"} /\ step' = "next" /\ open' = open \ {"file"}
  /\ UNCHANGED << op, which, entry, got, expected, net, files, list, twice, trouble, ops >>

\* The user may end the copy between two files.
AfterFile ==
  /\ op = "get" /\ step = "next" /\ open' = open \ {"file"}
  /\ \/ entry' = entry + 1 /\ step' = "entry" /\ UNCHANGED trouble
     \/ step' = "end" /\ trouble' = trouble \cup {"ended"} /\ UNCHANGED entry
  /\ UNCHANGED << op, which, got, expected, net, files, list, twice, ops >>

\* STOP, the socket and the index are closed; files for the library are exported and removed.
GetEnds ==
  /\ op = "get" /\ (step = "end" \/ (step = "entry" /\ entry > Len(Index)))
  /\ op' = "idle" /\ step' = "idle" /\ open' = {} /\ twice' = Closes("index", "nothing") /\ Hangs
  /\ UNCHANGED << which, entry, got, expected, files, list, trouble, ops >>

-----------------------------------------------------------------------------
(***************************************************************************)
(* read_folder: the files and directories of a tree in order, one record   *)
(* each, until the list is full.  todo: the entries left, by level.  The   *)
(* caller does not learn of a directory that cannot be opened.             *)
(***************************************************************************)
StartPut ==
  /\ Starts("put", "list") /\ open' = {} /\ UNCHANGED home /\ folder' \in Folder
  /\ f_files' = << >> /\ total' = 0
  /\ \/ todo' = << Tree[folder'] >> /\ trouble' = {}
     \/ todo' = << >> /\ trouble' = {"unlisted"}

Level == todo[Len(todo)]
LeavesLevel == SubSeq(todo, 1, Len(todo) - 1)

\* A full list ends this level only: the level above goes on.
ReadEntry_Endless ==
  /\ op = "put" /\ step = "list" /\ todo # << >> /\ Level # << >>
  /\ LET e == Head(Level)
         rest == [todo EXCEPT ![Len(todo)] = Tail(Level)]
     IN /\ f_files' = Append(f_files, [name |-> e.name, dir |-> e.dir, size |-> IF e.dir THEN 0 ELSE disk[e.name]])
        /\ IF e.dir THEN todo' = Append(rest, Tree[e.name]) /\ UNCHANGED total
           ELSE todo' = rest /\ total' = total + disk[e.name]
  /\ UNCHANGED << op, step, which, entry, got, expected, net, files, abort_copy, sent, reads, open,
                  twice, trouble, ops >>

ReadEntry ==
  /\ op = "put" /\ step = "list" /\ todo # << >> /\ Level # << >>
  /\ LET e == Head(Level)
         full == Len(f_files) + 1 >= MAX_F_FILES
         rest == [todo EXCEPT ![Len(todo)] = Tail(Level)]
     IN /\ f_files' = Append(f_files, [name |-> e.name, dir |-> e.dir, size |-> IF e.dir THEN 0 ELSE disk[e.name]])
        /\ total' = IF full \/ e.dir THEN total ELSE total + disk[e.name]
        /\ \/ /\ full /\ todo' = LeavesLevel
              /\ trouble' = trouble \cup {"full"} \cup (IF Len(todo) > 1 THEN {"deep"} ELSE {})
           \/ /\ ~full /\ UNCHANGED trouble
              /\ todo' = IF e.dir THEN Append(rest, Tree[e.name]) ELSE rest
           \/ ~full /\ e.dir /\ todo' = rest /\ trouble' = trouble \cup {"unlisted"}
  /\ UNCHANGED << op, step, which, entry, got, expected, net, files, abort_copy, sent, reads, open,
                  twice, ops >>

EndOfLevel ==
  /\ op = "put" /\ step = "list" /\ todo # << >> /\ Level = << >> /\ todo' = LeavesLevel
  /\ UNCHANGED << op, step, which, entry, got, expected, net, files, f_files, abort_copy, total, sent,
                  reads, open, twice, trouble, ops >>

\* A file without a size, or no memory for a name, ends every level.
ReadFails ==
  /\ op = "put" /\ step = "list" /\ todo # << >> /\ Level # << >>
  /\ todo' = << >> /\ abort_copy' = TRUE /\ trouble' = trouble \cup {"unread"}
  /\ UNCHANGED << op, step, which, entry, got, expected, net, files, f_files, total, sent, reads, open,
                  twice, ops >>

-----------------------------------------------------------------------------
(***************************************************************************)
(* net_folder_copy_put: PUT for each record, with the size of the listing. *)
(***************************************************************************)
Record == f_files[entry]

PutConnect ==
  /\ op = "put" /\ step = "list" /\ todo = << >>
  /\ IF f_files = << >> THEN step' = "idle" /\ op' = "idle" /\ UNCHANGED << open, trouble >>
     ELSE /\ UNCHANGED op /\ open' = {"socket"}
          /\ \/ step' = "put" /\ UNCHANGED trouble
             \/ step' = "end" /\ Breaks
  /\ UNCHANGED << which, entry, got, expected, net, files, list, twice, ops >>

\* The command is sent and answered, and the file is opened.
Put ==
  /\ op \in {"put", "one"} /\ step = "put" /\ got' = 0 /\ pos' = 0
  /\ \/ /\ step' = (IF Record.size = 0 THEN "sent" ELSE "send") /\ UNCHANGED trouble
        /\ IF srv.left > 0 THEN Takes(<< "command", 0 >>)
           ELSE /\ UNCHANGED remote
                /\ srv' = IF Record.size = 0 THEN Nobody ELSE [of |-> Record.name, left |-> Record.size]
     \/ step' = "end" /\ Breaks /\ UNCHANGED << srv, remote >>
  /\ UNCHANGED << op, which, entry, expected, stream, stored, disk, f_files, todo, abort_copy, total,
                  sent, readb, open, twice, ops >>

\* Nothing more is sent of a file without more, nor when the sum of the listing has been sent.
Sends(piece, n) ==
  IF n = 0 \/ sent >= total
  THEN step' = "sent" /\ UNCHANGED << got, sent, remote, srv >>
  ELSE /\ got' = got + n /\ sent' = sent + n /\ Takes(piece)
       /\ step' = IF got' >= Record.size THEN "sent" ELSE "send"

Sending(o) ==
  /\ op = o /\ step = "send"
  /\ UNCHANGED << op, which, entry, expected, stream, stored, disk, f_files, todo, abort_copy, total,
                  open, twice, ops >>

\* A piece is read, or what there is of it.  net_folder_copy_put does not cut the last one to what
\* the listing says: what the file has more goes with it, and the host drops it.
Piece == << Record.name, pos + 1 >>
Left == IF pos < disk[Record.name] THEN 1 ELSE 0
LeftUncut == IF pos < disk[Record.name] /\ pos + 1 >= Record.size THEN disk[Record.name] - pos ELSE Left

Send ==
  /\ Sending("put") /\ Sends(Piece, LeftUncut)
  /\ readb' = Left /\ pos' = pos + LeftUncut /\ UNCHANGED trouble

\* Nor does it look at the result of the read: when that fails, what the last one got is sent
\* again, or it is taken for the end of the file.
SendUnread ==
  /\ Sending("put") /\ readb' \in {0, readb} /\ Sends(<< "stale", 0 >>, readb')
  /\ trouble' = trouble \cup {"misread"} /\ UNCHANGED pos

SendOne ==
  /\ Sending("one") /\ Sends(Piece, Left)
  /\ pos' = pos + Left /\ UNCHANGED << readb, trouble >>

\* The connection breaks, or network_put cannot read.
SendFails ==
  /\ \E o \in {"put", "one"} : Sending(o)
  /\ step' = "end" /\ Breaks /\ UNCHANGED << got, sent, remote, srv, reads >>

BreakOff ==
  /\ op \in {"put", "one"} /\ step = "send" /\ got > 0 /\ step' = "end" /\ trouble' = trouble \cup {"ended"}
  /\ UNCHANGED << op, which, entry, got, expected, net, files, list, open, twice, ops >>

\* WAIT, or STOP after the last record.
PutNext ==
  /\ op = "put" /\ step = "sent" /\ Takes(<< "command", 0 >>)
  /\ IF entry = Len(f_files) THEN step' = "end" /\ UNCHANGED entry ELSE step' = "put" /\ entry' = entry + 1
  /\ UNCHANGED << op, which, got, expected, stream, stored, disk, list, open, twice, trouble, ops >>

\* The socket is closed and the index of the host is fetched again.
PutEnds ==
  /\ op = "put" /\ step = "end" /\ op' = "com" /\ step' = "connect" /\ open' = {} /\ Hangs
  /\ UNCHANGED << which, entry, got, expected, files, list, twice, trouble, ops >>

-----------------------------------------------------------------------------
(***************************************************************************)
(* network_com, network_put: one command on a connection of                *)
(* its own.  A failed receive closes the file of network_com twice.        *)
(***************************************************************************)
StartCom ==
  /\ Starts("com", "connect") /\ trouble' = {} /\ open' = {} /\ UNCHANGED which
  /\ f_files' = << >> /\ todo' = << >> /\ total' = 0

Com ==
  /\ op = "com" /\ step = "connect" /\ got' = 0 /\ open' = {"socket", "file"}
  /\ \/ /\ step' = "header" /\ UNCHANGED trouble
        /\ \E f \in HostFile : stream' = Header(f) \o Data(f)
     \/ step' = "end" /\ Breaks /\ UNCHANGED stream
  /\ UNCHANGED << op, which, entry, expected, srv, files, list, twice, ops >>

ComReceive ==
  /\ op = "com" /\ step = "data"
  /\ \/ /\ stream # << >> /\ stream' = Tail(stream) /\ got' = got + 1 /\ UNCHANGED << open, trouble >>
        /\ step' = IF got' >= expected THEN "end" ELSE "data"
     \/ step' = "end" /\ Breaks /\ open' = open \ {"file"} /\ UNCHANGED << stream, got >>
  /\ UNCHANGED << op, which, entry, expected, srv, files, list, twice, ops >>

ComEnds ==
  /\ op = "com" /\ step \in {"end", "closefile"} /\ op' = "idle" /\ step' = "idle"
  /\ twice' = Closes("file", "failed") /\ open' = {} /\ Hangs
  /\ UNCHANGED << which, entry, got, expected, files, list, trouble, ops >>

\* Another program changes a file.
Change ==
  /\ op \in {"put", "one"} /\ "changed" \notin trouble /\ trouble' = trouble \cup {"changed"}
  /\ \E f \in HostFile : \E n \in {disk[f] - 1, disk[f] + 1} \cap Nat : disk' = [disk EXCEPT ![f] = n]
  /\ UNCHANGED << op, step, which, entry, got, expected, net, stored, remote, list, open, twice, ops >>

\* One file, of the size it has when it is opened first.
StartPutOne ==
  /\ \/ Starts("one", "put") /\ trouble' = {}
     \/ Starts("one", "end") /\ trouble' = {"broken"}
  /\ \E f \in HostFile : f_files' = << [name |-> f, dir |-> FALSE, size |-> Size[f]] >> /\ total' = Size[f]
  /\ todo' = << >> /\ open' = {"socket", "file"} /\ UNCHANGED which

PutOneEnds ==
  /\ op = "one" /\ step \in {"sent", "end"} /\ op' = "idle" /\ step' = "idle" /\ open' = {} /\ Hangs
  /\ UNCHANGED << which, entry, got, expected, files, list, twice, trouble, ops >>

-----------------------------------------------------------------------------
GetStep == \/ GetConnect \/ NextEntry \/ Get \/ ReadHeader \/ Receive \/ ReceiveFails \/ CloseFile
           \/ AfterFile \/ GetEnds
PutStep == \/ ReadEntry \/ EndOfLevel \/ ReadFails \/ PutConnect \/ Put \/ Send \/ SendUnread \/ SendOne
           \/ SendFails \/ PutNext \/ PutEnds \/ PutOneEnds
ComStep == Com \/ ComReceive \/ ComEnds

Next == GetStep \/ PutStep \/ ComStep \/ StartGet \/ StartPut \/ StartCom \/ StartPutOne \/ SkipFile \/ BreakOff
        \/ Change

Spec == Init /\ [][Next]_netCopyVars
FairSpec == Spec /\ WF_netCopyVars(GetStep \/ PutStep \/ ComStep)

-----------------------------------------------------------------------------
TypeOK ==
  /\ op \in {"idle", "get", "put", "com", "one"} /\ home \in BOOLEAN
  /\ entry \in 1 .. Len(Index) + Len(f_files) + 1
  /\ srv.left >= 0 /\ open \subseteq {"socket", "index", "file"} /\ ops \in 0 .. MaxOps
  /\ twice \subseteq {"nothing", "failed"} /\ pos \in Nat /\ readb \in 0 .. 1
  /\ trouble \subseteq {"broken", "skipped", "short", "ended", "full", "deep", "unread", "unlisted",
                        "misread", "changed"}

\* A file that is fetched holds its own bytes in order, unless the user broke one off before it
\* on this connection or a header came in parts; and all of them when the copy ended undisturbed.
GotOwn ==
  trouble \cap {"skipped", "short"} = {} =>
    \A f \in HostFile : /\ IsPrefix(stored[f], Data(f))
                    /\ op = "get" /\ step = "entry" /\ entry > Len(Index) /\ trouble = {} =>
                         \A i \in CopyBytes : stored[Index[i].name] = Data(Index[i].name)

\* Every entry of the directory that is copied, and of those that are listed, is listed.
AllListed ==
  \A d \in DOMAIN Tree : d = folder \/ (\E i \in DOMAIN f_files : f_files[i].dir /\ f_files[i].name = d) =>
    \A k \in DOMAIN Tree[d] : \E i \in DOMAIN f_files : f_files[i].name = Tree[d][k].name

\* What arrives at the host is the file's own bytes in order, unless a file changed while it was
\* copied, did not fit into the list or could not be read; and when the copy ended undisturbed, every
\* file of the tree is there, whole.
PutOwn ==
  /\ trouble \cap {"changed", "full", "misread"} = {} => \A f \in HostFile : IsPrefix(remote[f], Data(f))
  /\ trouble = {} /\ << op, step >> \in { << "put", "end" >>, << "one", "sent" >> } =>
       /\ \A i \in DOMAIN f_files : ~f_files[i].dir => remote[f_files[i].name] = Data(f_files[i].name)
       /\ op = "put" => AllListed

\* The list is never written beyond its end, unless it fills up below the top directory.
ListBounded == Len(f_files) > MAX_F_FILES => "deep" \in trouble

\* Every socket and file is closed at the end, and nothing twice but an index without anything to
\* fetch and a file whose connection broke.
ClosedOnce ==
  /\ op = "idle" => open = {}
  /\ "failed" \in twice => "broken" \in trouble
  /\ "nothing" \in twice => CopyBytes = {}
=============================================================================
