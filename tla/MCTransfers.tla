---------------------------- MODULE MCTransfers ----------------------------
(***************************************************************************)
(* The ways a file gets from one place to another, checked one at a time:  *)
(* part "disk" is the batches of the file manager (FileCopy); "http" is    *)
(* the downloads, with two covers on a ring of one slot and one job in the *)
(* foreground; "host" is one copy from or to a host, of a folder with two  *)
(* files and a subdirectory, or with two files.                            *)
(***************************************************************************)
EXTENDS MCFileCopy, Sequences

CONSTANTS
  Cover, Package, Length, Kilo, MAX_DOWN_LIST, Jobs, MaxJobs, MaxCovers,   \* of Downloads
  Index, Tree, Folder, HostSize, MAX_F_FILES, MaxOps,                      \* of NetCopy
  PathDepth       \* by directory of the console: how many directories it is in

VARIABLES
  part,
  downloads, downloads_max, asking, slot, at, load, saved, job, first_pkg, lc, tries, http, file,
  net_avail, mm_shutdown, offered, early, overwritten, jobs, covers,
  op, step, folder, home, entry, got, expected, stream, srv, disk, stored, remote, f_files, todo,
  host_abort, total, sent, open, twice, pos, readb, trouble, ops

Http == INSTANCE Downloads
Host == INSTANCE NetCopy WITH Size <- HostSize, abort_copy <- host_abort

\* The files of the server are not empty, and each has a name of its own.
ASSUME DownloadsAssumption ==
  /\ Length \in [Http!Name -> Nat \ {0}] /\ Kilo \in Nat /\ MAX_DOWN_LIST \in Nat \ {0}
  /\ Package \in Seq(Http!Name)
  /\ \A n \in DOMAIN Package : Package[n] \notin {Http!NoName} \cup Cover \cup Http!Fixed
  /\ \A m, n \in DOMAIN Package : Package[m] = Package[n] => m = n
  /\ Cover \cap ({Http!NoName} \cup Http!Fixed) = {}

\* What has a name on a disk is a file or a directory, and in one place: of the index of the host,
\* and of the directories of the console.
ASSUME CopiesAssumption ==
  /\ HostSize \in [DOMAIN HostSize -> Nat] /\ MAX_F_FILES \in Nat \ {0} /\ MaxOps \in Nat
  /\ Index \in Seq({ Index[i] : i \in DOMAIN Index })
  /\ \A i \in DOMAIN Index : ~Index[i].dir => Index[i].name \in DOMAIN HostSize
  /\ \A i, j \in DOMAIN Index : Index[i].name = Index[j].name => i = j
  /\ Folder \subseteq DOMAIN Tree /\ PathDepth \in [DOMAIN Tree -> Nat]
  /\ \A d \in DOMAIN Tree :
       /\ Tree[d] \in Seq({ Tree[d][k] : k \in DOMAIN Tree[d] })
       /\ \A k \in DOMAIN Tree[d] :
            /\ Tree[d][k].dir \in BOOLEAN
            /\ Tree[d][k].dir => /\ Tree[d][k].name \in DOMAIN Tree
                                  /\ PathDepth[Tree[d][k].name] = PathDepth[d] + 1
            /\ ~Tree[d][k].dir => Tree[d][k].name \in DOMAIN HostSize
  /\ \A c, d \in DOMAIN Tree : \A j \in DOMAIN Tree[c], k \in DOMAIN Tree[d] :
       Tree[c][j].name = Tree[d][k].name => c = d /\ j = k

http_vars == << downloads, downloads_max, asking, slot, at, load, saved, job, first_pkg, lc, tries, http,
           file, net_avail, mm_shutdown, offered, early, overwritten, jobs, covers >>
host == << op, step, folder, home, entry, got, expected, stream, srv, disk, stored, remote, f_files,
           todo, host_abort, total, sent, open, twice, pos, readb, trouble, ops >>
mcvars == << part, vars, http_vars, host >>

Short == { "none", "version", "whatsnew", "showtime.txt", "SHOWTIME.VER", "SHOWTIME.SELF", "list",
           "themes", "image", "theme", "page", "p1", "p2" }
MCLength == [f \in Short \cup {"c1", "c2", "multiMAN.pkg"} |-> IF f \in Short THEN 1 ELSE 2]
MCPackage == << "p1", "p2" >>
Entry(n, d, isdir, m) == [name |-> n, folder |-> d, dir |-> isdir, media |-> m]
MCIndex == << Entry("d", "d", TRUE, FALSE), Entry("a", "d", FALSE, FALSE),
              Entry("x", "f", FALSE, FALSE), Entry("b", "d", FALSE, TRUE) >>
Dir(n) == [name |-> n, dir |-> TRUE]
Plain(n) == [name |-> n, dir |-> FALSE]
MCTree == [d |-> << Plain("a"), Dir("e"), Plain("x") >>, e |-> << Plain("b") >>,
           f |-> << Plain("y"), Plain("z") >>]
MCPathDepth == [d |-> 1, e |-> 2, f |-> 1]
MCHostSize == [a |-> 2, b |-> 2, x |-> 1, y |-> 2, z |-> 1]

MCInit == /\ part \in {"disk", "http", "host"} /\ Init /\ Http!Init /\ Host!Init
          /\ part # "host" => folder = "d"
          /\ part # "disk" => cur = "one"

InDisk(A) == part = "disk" /\ A /\ UNCHANGED << part, http_vars, host >>
InHttp(A) == part = "http" /\ A /\ UNCHANGED << part, vars, host >>
InHost(A) == part = "host" /\ A /\ UNCHANGED << part, vars, http_vars >>
MCNext == InDisk(Next) \/ InHttp(Http!Next) \/ InHost(Host!Next)

\* The fairness of the three parts.
MCFairSpec ==
  /\ MCInit /\ [][MCNext]_mcvars
  /\ WF_mcvars(InDisk(Work))
  /\ WF_mcvars(InHttp(Http!Thread)) /\ WF_mcvars(InHttp(Http!MainLoop))
  /\ WF_mcvars(InHttp(Http!Asked("column")))
  /\ WF_mcvars(InHost(Host!GetStep \/ Host!PutStep \/ Host!ComStep))

\* Apart from the types, what is downloaded is what was asked for, and what is offered to install is whole
\* (Downloads).
DownloadsSound == part = "http" => Http!TypeOK /\ Http!CoversOwn /\ Http!OfferedIsWhole

\* Apart from the types, a file that is copied from or to a host is made of its own bytes, all of
\* them when nothing went wrong, within the list, and with everything closed once (NetCopy).
CopiesSound ==
  part = "host" => Host!TypeOK /\ Host!GotOwn /\ Host!PutOwn /\ Host!ListBounded /\ Host!ClosedOnce

Busy == CASE part = "disk" -> pc = "batch"
          [] part = "http" -> downloads[0].status = 1
          [] part = "host" -> op # "idle"
Over == CASE part = "disk" -> pc = "pane"
          [] part = "http" -> downloads[0].status = 2 \/ mm_shutdown
          [] part = "host" -> op = "idle" \/ trouble \cap {"skipped", "short"} # {}

\* A batch ends (FileCopy), a cover that was asked for is tried unless the program ends
\* (Downloads), and a copy from or to a host ends, unless the user broke off a file and what is
\* left over is taken for a header, or a part of a header is (NetCopy).
TransfersEnd == Busy ~> Over
=============================================================================
