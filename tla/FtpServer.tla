----------------------------- MODULE FtpServer -----------------------------
(***************************************************************************)
(* The FTP server (source/openftp/ftp.c and ftpcmd.c).  One thread accepts *)
(* control connections and starts a thread for each (handleclient), which  *)
(* answers one command after the other.  The threads share the flag        *)
(* exitapp, the count ftp_clients, which the main loop asks before it ends *)
(* the program, and the files.                                             *)
(*                                                                         *)
(* A file is a sequence of blocks, each named by the client that wrote it. *)
(* Directories, permissions and listings are left out: to a session, such  *)
(* a command is one that changes nothing but drops the data connection.    *)
(***************************************************************************)
EXTENDS Integers, Sequences, FiniteSets

CONSTANTS
  Client,       \* control connections, each with a thread of its own
  Path,         \* names of files
  Inode,        \* files
  Initial,      \* Initial[p]: the file at p at the start, or NoFile
  NoFile, Old, Hole,  \* no file, and blocks that no client wrote
  CounterSize,  \* 256, ftp_clients is a u8
  MaxInt,       \* largest int, in blocks: 2 GB - 1
  MaxRest,      \* bound: largest restart point a client asks for
  MaxBlocks,    \* bound: blocks of a file
  MaxCommands   \* bound: commands, of all clients, that change something

ASSUME FtpAssumption ==
  /\ IsFiniteSet(Client) /\ Cardinality(Client) < CounterSize
  /\ CounterSize \in Nat /\ MaxBlocks \in Nat /\ MaxCommands \in Nat
  /\ MaxInt \in Nat /\ MaxRest \in Nat
  /\ NoFile \notin Inode /\ Initial \in [Path -> Inode \cup {NoFile}]
  /\ Old \notin Client /\ Hole \notin Client

VARIABLES
  exitapp, mm_shutdown, ftp_clients,
  server, accepted,     \* where the accepting thread is, its new connection
  pc,                   \* where the thread of each connection is
  loggedin, data_s,     \* TRUE: logged in; the data connection is open
  dataactive, rest, rnfr,
  fd,                   \* the file being transferred
  value,                \* ftp_clients as a thread has loaded it
  name, content,        \* the disk: the file of a path, the blocks of a file
  moved,                \* the blocks of this transfer that the client sent or got
  want,                 \* where the client wants its next transfer to start
  result,               \* "stored" or "sent" when the last command was answered 226
  commands,             \* commands so far that changed something
  disturbed, lost, ghosts  \* history: transfers into whose file another one wrote or
             \* whose read failed; an update of ftp_clients was lost; threads not created

session  == << loggedin, data_s, dataactive, rest, rnfr >>
transfer == << fd, moved, want, result, disturbed >>
files    == << name, content, transfer >>
count    == << ftp_clients, value, lost, ghosts >>
system   == << exitapp, mm_shutdown, server, accepted, commands >>
vars == << system, pc, session, files, count >>

NoClient == "none"
Everybody(v) == [c \in Client |-> v]

Init ==
  /\ exitapp = 0 /\ mm_shutdown = FALSE /\ ftp_clients = 0
  /\ server = "listen" /\ accepted = NoClient
  /\ pc = Everybody("none")
  /\ loggedin = Everybody(FALSE) /\ data_s = Everybody(FALSE)
  /\ dataactive = Everybody(FALSE) /\ rest = Everybody(0) /\ rnfr = Everybody(NoFile)
  /\ fd = Everybody(NoFile) /\ moved = Everybody(<< >>) /\ want = Everybody(0)
  /\ result = Everybody("none") /\ disturbed = Everybody(FALSE)
  /\ name = Initial
  /\ content = [i \in Inode |-> IF \E p \in Path : Initial[p] = i THEN << Old >> ELSE << >>]
  /\ commands = 0 /\ value = [t \in Client \cup {"server"} |-> 0] /\ lost = FALSE /\ ghosts = 0

Running == exitapp = 0 /\ ~mm_shutdown
Goto(c, label) == pc' = [pc EXCEPT ![c] = label]

-----------------------------------------------------------------------------
(***************************************************************************)
(* ftp_clients is incremented and decremented by a load and a store.       *)
(***************************************************************************)
Load(t) ==
  /\ value' = [value EXCEPT ![t] = ftp_clients]
  /\ UNCHANGED << ftp_clients, lost, ghosts >>

Store_NoWrap(t, n) ==
  /\ ftp_clients' = n
  /\ lost' = (lost \/ ftp_clients # value[t])
  /\ value' = [value EXCEPT ![t] = 0] /\ UNCHANGED ghosts

Store(t, n) ==
  /\ ftp_clients' = n % CounterSize
  /\ lost' = (lost \/ ftp_clients # value[t])
  /\ value' = [value EXCEPT ![t] = 0] /\ UNCHANGED ghosts

-----------------------------------------------------------------------------
(***************************************************************************)
(* The accepting thread, handleconnections.                                *)
(***************************************************************************)
At(here, next) ==
  server = here /\ server' = next /\ UNCHANGED << exitapp, mm_shutdown, commands, files >>

Listen ==
  /\ \E next \in {"test", "over"} : At("listen", next)
  /\ UNCHANGED << accepted, pc, session, count >>

ServerTest ==
  /\ At("test", IF Running THEN "accept" ELSE "over")
  /\ UNCHANGED << accepted, pc, session, count >>

AcceptFails ==
  /\ At("accept", "test")
  /\ UNCHANGED << accepted, pc, session, count >>

\* A client connects; ftp_clients is loaded at once.
Accept(c) ==
  /\ At("accept", "store") /\ pc[c] = "none" /\ accepted' = c /\ Load("server")
  /\ UNCHANGED << pc, session >>

CountStore ==
  /\ At("store", "create") /\ Store("server", value["server"] + 1)
  /\ UNCHANGED << accepted, pc, session >>

CreateThread ==
  /\ At("create", "test") /\ Goto(accepted, "test") /\ accepted' = NoClient
  /\ UNCHANGED << session, count >>

\* The result of sys_ppu_thread_create is not looked at.
CreateFails ==
  /\ At("create", "test") /\ Goto(accepted, "over") /\ ghosts' = ghosts + 1
  /\ accepted' = NoClient
  /\ UNCHANGED << session, ftp_clients, value, lost >>

-----------------------------------------------------------------------------
(***************************************************************************)
(* The thread of a connection, handleclient.                               *)
(***************************************************************************)
Leaves_IgnoresExitapp == mm_shutdown

Leaves == ~Running

LoopTest(c) ==
  /\ pc[c] = "test" /\ Goto(c, IF Leaves THEN "close" ELSE "recv")
  /\ UNCHANGED << system, session, files, count >>

\* The client closes the control connection.
Hangup(c) ==
  /\ pc[c] = "recv" /\ Goto(c, "close")
  /\ UNCHANGED << system, session, files, count >>

\* USER, or what is refused before the login.
NotLoggedIn(c) ==
  /\ pc[c] = "recv" /\ ~loggedin[c] /\ Goto(c, "test")
  /\ UNCHANGED << system, session, files, count >>

\* DISABLE_PASS is 1.
Pass(c) ==
  /\ pc[c] = "recv" /\ ~loggedin[c] /\ Goto(c, "test")
  /\ loggedin' = [loggedin EXCEPT ![c] = TRUE]
  /\ UNCHANGED << system, data_s, dataactive, rest, rnfr, files, count >>

\* connactive becomes 0, which ends the loop.
Quit(c) ==
  /\ pc[c] = "recv" /\ Goto(c, "close")
  /\ UNCHANGED << system, session, files, count >>

\* A client that is logged in asks for something.
Command(c, next) ==
  /\ pc[c] = "recv" /\ loggedin[c] /\ Goto(c, next)
  /\ commands < MaxCommands /\ commands' = commands + 1
  /\ UNCHANGED << mm_shutdown, server, accepted, loggedin, count >>

\* Unless it is TYPE or REST, it forgets where its next transfer should start.
Forget(c) == want' = [want EXCEPT ![c] = 0] /\ UNCHANGED << fd, moved, result, disturbed >>

\* CWD, CDUP, PWD, LIST, MLSD, NLST, MLST, MKD, RMD, CHMOD, NOOP, FEAT, SIZE, MDTM, SYST,
\* ABOR and every command that is refused.
Other(c) ==
  /\ pc[c] = "recv" /\ loggedin[c] /\ Goto(c, "end") /\ Forget(c)
  /\ UNCHANGED << system, session, name, content, count >>

Type(c) ==
  /\ Command(c, "end") /\ dataactive' = [dataactive EXCEPT ![c] = TRUE]
  /\ UNCHANGED << exitapp, data_s, rest, rnfr, files >>

\* The int that atoi makes of n.  One that is too large is not defined: the number ends at the
\* largest int, or its upper bits are cut off.
Atoi(n) ==
  IF n <= MaxInt THEN { n }
  ELSE { MaxInt, ((n + MaxInt + 1) % (2 * (MaxInt + 1))) - (MaxInt + 1) }

Rest(c) ==
  \E n \in 0 .. MaxRest : \E r \in Atoi(n) :
    /\ Command(c, "end") /\ dataactive' = [dataactive EXCEPT ![c] = TRUE]
    /\ rest' = [rest EXCEPT ![c] = r] /\ want' = [want EXCEPT ![c] = n]
    /\ UNCHANGED << exitapp, data_s, rnfr, name, content, fd, moved, result, disturbed >>

\* PASV answers 227 and waits for the client to connect.
Pasv(c) ==
  /\ Command(c, "pasv") /\ Forget(c) /\ rest' = [rest EXCEPT ![c] = 0]
  /\ UNCHANGED << exitapp, data_s, dataactive, rnfr, name, content >>

\* A new data connection, or -1 when accept fails, takes the place of the old one.
PasvAccept(c) ==
  \E ok \in BOOLEAN :
    /\ pc[c] = "pasv" /\ Goto(c, "end")
    /\ data_s' = [data_s EXCEPT ![c] = ok] /\ dataactive' = [dataactive EXCEPT ![c] = ok]
    /\ UNCHANGED << system, loggedin, rest, rnfr, files, count >>

\* The socket is there even if it cannot be connected.
Port(c) ==
  \E ok \in BOOLEAN :
    /\ Command(c, "end") /\ Forget(c) /\ rest' = [rest EXCEPT ![c] = 0]
    /\ data_s' = [data_s EXCEPT ![c] = TRUE] /\ dataactive' = [dataactive EXCEPT ![c] = ok]
    /\ UNCHANGED << exitapp, rnfr, name, content >>

Exitapp(c) ==
  /\ Command(c, "end") /\ Forget(c) /\ exitapp' = 1
  /\ UNCHANGED << data_s, dataactive, rest, rnfr, name, content >>

Dele(c) ==
  \E p \in Path :
    /\ Command(c, "end") /\ Forget(c)
    /\ name[p] # NoFile /\ name' = [name EXCEPT ![p] = NoFile]
    /\ UNCHANGED << exitapp, data_s, dataactive, rest, rnfr, content >>

\* The name is kept whether it exists or not, until the next RNFR.
Rnfr(c) ==
  \E p \in Path :
    /\ Command(c, "end") /\ Forget(c) /\ rnfr' = [rnfr EXCEPT ![c] = p]
    /\ UNCHANGED << exitapp, data_s, dataactive, rest, name, content >>

\* Without a RNFR the array is not initialised: it may name anything.
Rnto(c) ==
  \E p, q \in Path :
    /\ Command(c, "end") /\ Forget(c)
    /\ rnfr[c] \in {p, NoFile} /\ name[p] # NoFile /\ name[q] = NoFile
    /\ name' = [name EXCEPT ![q] = name[p], ![p] = NoFile]
    /\ UNCHANGED << exitapp, data_s, dataactive, rest, rnfr, content >>

\* The data connection and the restart point live on only after PASV, PORT, TYPE and REST.
EndOfCommand(c) ==
  /\ pc[c] = "end" /\ Goto(c, "test")
  /\ dataactive' = [dataactive EXCEPT ![c] = FALSE]
  /\ data_s' = [data_s EXCEPT ![c] = @ /\ dataactive[c]]
  /\ rest' = [rest EXCEPT ![c] = IF dataactive[c] THEN @ ELSE 0]
  /\ fd' = [fd EXCEPT ![c] = NoFile] /\ moved' = [moved EXCEPT ![c] = << >>]
  /\ result' = [result EXCEPT ![c] = "none"] /\ disturbed' = [disturbed EXCEPT ![c] = FALSE]
  /\ want' = [want EXCEPT ![c] = IF dataactive[c] THEN @ ELSE 0]
  /\ UNCHANGED << system, loggedin, rnfr, name, content, count >>

-----------------------------------------------------------------------------
(***************************************************************************)
(* STOR and RETR: recvfile and sendfile.                                   *)
(***************************************************************************)
\* A restart point that is not positive is not sought.
From(c) == IF rest[c] > 0 THEN rest[c] ELSE 0
Pos(c)  == From(c) + Len(moved[c])

Fresh == Inode \ ({ name[p] : p \in Path } \cup { fd[c] : c \in Client })

\* Client c changes file i, which others may be transferring.
Disturb(c, i) == [d \in Client |-> disturbed[d] \/ (d # c /\ fd[d] = i)]

Stor_NotTruncated(c) ==
  \E p \in Path : \E i \in IF name[p] = NoFile THEN Fresh ELSE { name[p] } :
    /\ Command(c, "stor") /\ data_s[c]
    /\ fd' = [fd EXCEPT ![c] = i] /\ name' = [name EXCEPT ![p] = i]
    /\ content' = [content EXCEPT ![i] = IF name[p] = i THEN @ ELSE << >>]
    /\ disturbed' = Disturb(c, i)
    /\ UNCHANGED << exitapp, data_s, dataactive, rest, rnfr, moved, want, result >>

\* The file is made if it is not there, and emptied unless the transfer is resumed.
Stor(c) ==
  \E p \in Path : \E i \in IF name[p] = NoFile THEN Fresh ELSE { name[p] } :
    /\ Command(c, "stor") /\ data_s[c]
    /\ fd' = [fd EXCEPT ![c] = i] /\ name' = [name EXCEPT ![p] = i]
    /\ content' = [content EXCEPT ![i] = IF name[p] = i /\ rest[c] > 0 THEN @ ELSE << >>]
    /\ disturbed' = Disturb(c, i)
    /\ UNCHANGED << exitapp, data_s, dataactive, rest, rnfr, moved, want, result >>

\* Blocks s with the block at position n set by client c; what lies between is a hole.
Written(s, n, c) ==
  [k \in 1 .. IF n < Len(s) THEN Len(s) ELSE n + 1 |->
     IF k = n + 1 THEN c ELSE IF k <= Len(s) THEN s[k] ELSE Hole]

StorBlock(c) ==
  /\ pc[c] = "stor" /\ Pos(c) < MaxBlocks
  /\ content' = [content EXCEPT ![fd[c]] = Written(@, Pos(c), c)]
  /\ moved' = [moved EXCEPT ![c] = Append(@, c)]
  /\ disturbed' = Disturb(c, fd[c])
  /\ UNCHANGED << system, pc, session, name, fd, want, result, count >>

\* The answer is 226 when the client has closed the data connection, 451 when a write
\* fails or recv does, whose -1 is taken for a length that cannot be written.
StorEnds(c) ==
  \E answer \in {"stored", "none"} :
    /\ pc[c] = "stor" /\ Goto(c, "end") /\ result' = [result EXCEPT ![c] = answer]
    /\ UNCHANGED << system, session, name, content, fd, moved, want, disturbed, count >>

Retr(c) ==
  \E p \in Path :
    /\ Command(c, "retr") /\ data_s[c]
    /\ name[p] # NoFile /\ fd' = [fd EXCEPT ![c] = name[p]]
    /\ UNCHANGED << exitapp, data_s, dataactive, rest, rnfr, name, content, moved, want, result,
                    disturbed >>

RetrBlock(c) ==
  /\ pc[c] = "retr" /\ Pos(c) < Len(content[fd[c]])
  /\ moved' = [moved EXCEPT ![c] = Append(@, content[fd[c]][Pos(c) + 1])]
  /\ UNCHANGED << system, pc, session, name, content, fd, want, result, disturbed, count >>

RetrEnds_OneShort(c) ==
  /\ pc[c] = "retr" /\ Pos(c) + 1 >= Len(content[fd[c]])
  /\ Goto(c, "end") /\ result' = [result EXCEPT ![c] = "sent"]
  /\ UNCHANGED << system, session, name, content, fd, moved, want, disturbed, count >>

RetrEnds(c) ==
  /\ pc[c] = "retr" /\ Pos(c) >= Len(content[fd[c]])
  /\ Goto(c, "end") /\ result' = [result EXCEPT ![c] = "sent"]
  /\ UNCHANGED << system, session, name, content, fd, moved, want, disturbed, count >>

\* A send that fails is answered 451, a read that fails 226 like the end of the file.
RetrFails(c) ==
  \E answer \in {"sent", "none"} :
    /\ pc[c] = "retr" /\ Goto(c, "end") /\ result' = [result EXCEPT ![c] = answer]
    /\ disturbed' = [disturbed EXCEPT ![c] = TRUE]
    /\ UNCHANGED << system, session, name, content, fd, moved, want, count >>

-----------------------------------------------------------------------------
\* Both connections are closed, and ftp_clients is loaded; the other variables of the
\* thread are not used any more.
Close(c) ==
  /\ pc[c] = "close" /\ Goto(c, "store") /\ Load(c)
  /\ data_s' = [data_s EXCEPT ![c] = FALSE] /\ loggedin' = [loggedin EXCEPT ![c] = FALSE]
  /\ rest' = [rest EXCEPT ![c] = 0] /\ rnfr' = [rnfr EXCEPT ![c] = NoFile] /\ Forget(c)
  /\ UNCHANGED << system, dataactive, name, content >>

UncountStore_Missing(c) ==
  /\ pc[c] = "store" /\ Goto(c, "over") /\ Store(c, value[c])
  /\ UNCHANGED << system, session, files >>

UncountStore(c) ==
  /\ pc[c] = "store" /\ Goto(c, "over") /\ Store(c, value[c] - 1)
  /\ UNCHANGED << system, session, files >>

-----------------------------------------------------------------------------
\* The main loop ends the program, after net_used_ignore found ftp_clients 0 or the
\* user agreed.  The ftp_off that follows tells the threads nothing new.
Shutdown ==
  /\ ~mm_shutdown /\ mm_shutdown' = TRUE
  /\ UNCHANGED << exitapp, server, accepted, commands, pc, session, files, count >>

-----------------------------------------------------------------------------
Server == Listen \/ ServerTest \/ AcceptFails \/ CountStore \/ CreateThread \/ CreateFails

\* What the thread of c does by itself, and what waits for the client.
Session(c) == LoopTest(c) \/ EndOfCommand(c) \/ RetrBlock(c) \/ RetrEnds(c) \/ RetrFails(c)
              \/ Close(c) \/ UncountStore(c)

Asked(c) == \/ Accept(c) \/ Hangup(c) \/ NotLoggedIn(c) \/ Pass(c) \/ Quit(c) \/ Other(c)
            \/ Type(c) \/ Rest(c) \/ Pasv(c) \/ PasvAccept(c) \/ Port(c) \/ Exitapp(c)
            \/ Dele(c) \/ Rnfr(c) \/ Rnto(c) \/ Stor(c) \/ StorBlock(c) \/ StorEnds(c) \/ Retr(c)

Next == Server \/ Shutdown \/ \E c \in Client : Session(c) \/ Asked(c)

Spec == Init /\ [][Next]_vars

\* The threads run; a client need not send or connect anything.
FairSpec == Spec /\ WF_vars(Server /\ server # "accept") /\ \A c \in Client : WF_vars(Session(c))

-----------------------------------------------------------------------------
TypeOK ==
  /\ exitapp \in {0, 1} /\ mm_shutdown \in BOOLEAN /\ ftp_clients \in 0 .. CounterSize - 1
  /\ server \in {"listen", "test", "accept", "store", "create", "over"}
  /\ accepted \in Client \cup {NoClient} /\ commands \in 0 .. MaxCommands
  /\ pc \in [Client -> {"none", "test", "recv", "pasv", "stor", "retr", "end", "close", "store",
                        "over"}]
  /\ loggedin \in [Client -> BOOLEAN] /\ data_s \in [Client -> BOOLEAN]
  /\ dataactive \in [Client -> BOOLEAN] /\ rest \in [Client -> -(MaxInt + 1) .. MaxInt]
  /\ rnfr \in [Client -> Path \cup {NoFile}] /\ fd \in [Client -> Inode \cup {NoFile}]
  /\ value \in [Client \cup {"server"} -> 0 .. CounterSize - 1]
  /\ name \in [Path -> Inode \cup {NoFile}]
  /\ content \in [Inode -> Seq(Client \cup {Old, Hole})]
  /\ moved \in [Client -> Seq(Client \cup {Old, Hole})] /\ want \in [Client -> 0 .. MaxRest]
  /\ result \in [Client -> {"none", "stored", "sent"}] /\ disturbed \in [Client -> BOOLEAN]
  /\ lost \in BOOLEAN /\ ghosts \in 0 .. Cardinality(Client)

\* Sessions that exist, and the one that is about to.
Alive == { c \in Client : pc[c] \notin {"none", "over"} }

\* Until the program ends, ftp_clients counts the sessions, except that an update may
\* be lost between two threads and a thread that was not created is counted for ever.
\* net_used_ignore lets the program end without a question when it is 0.
ClientsCounted ==
  ~lost /\ ~mm_shutdown =>
    ftp_clients = Cardinality(Alive) + ghosts + (IF server = "create" THEN 1 ELSE 0)

\* The server can resume a transfer where the client wants it to.
Resumable(c) == want[c] <= MaxInt

\* When the end of an upload is acknowledged, what the client has sent is in the file,
\* where the client wanted it, and nothing else if it was not resumed.
StoredWhole ==
  \A c \in Client : pc[c] = "end" /\ result[c] = "stored" /\ ~disturbed[c] /\ Resumable(c) =>
    LET s == content[fd[c]] IN
      /\ SubSeq(s, want[c] + 1, want[c] + Len(moved[c])) = moved[c]
      /\ want[c] = 0 => Len(s) = Len(moved[c])

\* When the end of a download is acknowledged, the client has got the file from where
\* it wanted to its end, unless a read failed.
DeliveredWhole ==
  \A c \in Client : pc[c] = "end" /\ result[c] = "sent" /\ ~disturbed[c] /\ Resumable(c) =>
    moved[c] = SubSeq(content[fd[c]], want[c] + 1, Len(content[fd[c]]))

\* What either side was told is transferred is whole, unless the client resumed it beyond what
\* an int can hold: then the server starts elsewhere, and does not say so.
TransfersWhole == StoredWhole /\ DeliveredWhole

\* Once SITE EXITAPP was received or the program ends, no session goes on for ever: each
\* of them ends, or waits for a client that has fallen silent.
Quiet ==
  /\ server \in {"accept", "over"}
  /\ \A c \in Client : pc[c] \in {"none", "recv", "pasv", "stor", "over"}

ServiceQuiets == <>[](Running \/ Quiet)
=============================================================================
