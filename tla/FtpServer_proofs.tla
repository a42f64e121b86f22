-------------------------- MODULE FtpServer_proofs --------------------------
EXTENDS FtpServer, FiniteSetTheorems, SequenceTheorems, TLAPS

\* A number below the modulus is its own remainder.
LEMMA ModFact ==
  ASSUME NEW N \in Nat, NEW n \in Nat, n < N
  PROVE  n % N = n
<1>1. n \div N \in Int /\ n % N \in 0 .. N - 1 /\ n = N * (n \div N) + (n % N)
  OBVIOUS
<1>2. ASSUME NEW q \in Int, NEW r \in 0 .. N - 1, n = N * q + r
      PROVE  r = n
  <2>1. CASE q = 0
    BY <2>1, <1>2
  <2>2. CASE q >= 1
    <3>1. N * q >= N
      BY <2>2
    <3> QED  BY <3>1, <1>2
  <2>3. CASE q <= -1
    <3>1. N * q <= -N
      BY <2>3
    <3> QED  BY <3>1, <1>2
  <2> QED  BY <2>1, <2>2, <2>3
<1> QED  BY <1>1, <1>2

-----------------------------------------------------------------------------
Inside == {"test", "recv", "pasv", "stor", "retr", "end", "close", "store"}

Over == { c \in Client : pc[c] = "over" }

CountTypes ==
  /\ ftp_clients \in Int /\ ghosts \in Nat
  /\ value \in [Client \cup {"server"} -> Int]
  /\ pc \in [Client -> {"none", "over"} \cup Inside]

\* The connection that is being counted has no thread yet.
AcceptedIsNew == server \in {"store", "create"} => accepted \in Client /\ pc[accepted] = "none"

\* A thread that could not be created used up a connection that is over.
GhostsAreOver == ghosts <= Cardinality(Over)

CountInv == CountTypes /\ AcceptedIsNew /\ GhostsAreOver /\ ClientsCounted

-----------------------------------------------------------------------------
\* Sessions and finished connections are sets apart; a connection that is neither,
\* like the one just accepted, leaves room for one more.
LEMMA Room ==
  ASSUME CountTypes
  PROVE  /\ IsFiniteSet(Alive) /\ IsFiniteSet(Over)
         /\ Cardinality(Alive) \in Nat /\ Cardinality(Over) \in Nat
         /\ Cardinality(Client) \in Nat
         /\ Cardinality(Alive) + Cardinality(Over) <= Cardinality(Client)
         /\ (\E c \in Client : pc[c] = "none") =>
              Cardinality(Alive) + Cardinality(Over) + 1 <= Cardinality(Client)
<1>1. IsFiniteSet(Client)
  BY FtpAssumption
<1>2. Alive \subseteq Client /\ Over \subseteq Client /\ Alive \cap Over = {}
  BY DEF Alive, Over
<1>3. IsFiniteSet(Alive) /\ IsFiniteSet(Over)
  BY <1>1, <1>2, FS_Subset
<1>4. Cardinality(Alive) \in Nat /\ Cardinality(Over) \in Nat /\ Cardinality(Client) \in Nat
  BY <1>1, <1>3, FS_CardinalityType
<1>5. Cardinality({}) = 0
  BY FS_EmptySet
<1>6. /\ IsFiniteSet(Alive \cup Over)
      /\ Cardinality(Alive \cup Over) = Cardinality(Alive) + Cardinality(Over)
  <2>1. /\ IsFiniteSet(Alive \cup Over)
        /\ Cardinality(Alive \cup Over) =
             Cardinality(Alive) + Cardinality(Over) - Cardinality(Alive \cap Over)
    BY <1>3, FS_Union
  <2>2. Cardinality(Alive \cap Over) = 0
    BY <1>2, <1>5
  <2> QED  BY <1>4, <2>1, <2>2
<1>7. Cardinality(Alive \cup Over) <= Cardinality(Client)
  BY <1>1, <1>2, FS_Subset
<1>8. ASSUME NEW c \in Client, pc[c] = "none"
      PROVE  Cardinality(Alive) + Cardinality(Over) + 1 <= Cardinality(Client)
  <2>1. c \notin Alive \cup Over
    BY <1>8 DEF Alive, Over
  <2>2. Cardinality((Alive \cup Over) \cup {c}) = Cardinality(Alive \cup Over) + 1
    BY <1>6, <2>1, FS_AddElement
  <2>3. (Alive \cup Over) \cup {c} \subseteq Client
    BY <1>2
  <2>4. Cardinality((Alive \cup Over) \cup {c}) <= Cardinality(Client)
    BY <1>1, <2>3, FS_Subset
  <2> QED  BY <1>6, <2>2, <2>4
<1> QED  BY <1>3, <1>4, <1>6, <1>7, <1>8

\* A step of a thread from one place inside to another counts nobody in or out.
LEMMA InsideStep ==
  ASSUME CountInv, NEW c \in Client, NEW label \in Inside,
         pc[c] \in Inside, Goto(c, label),
         value' \in [Client \cup {"server"} -> Int],
         UNCHANGED << ftp_clients, lost, ghosts, mm_shutdown, server, accepted >>
  PROVE  CountInv'
<1>1. pc' = [pc EXCEPT ![c] = label] /\ CountTypes
  BY DEF Goto, CountInv
<1>2. Alive' = Alive /\ Over' = Over
  BY <1>1 DEF Alive, Over, CountTypes, Inside
<1>3. CountTypes'
  BY <1>1 DEF CountTypes
<1>4. AcceptedIsNew'
  BY <1>1 DEF AcceptedIsNew, CountInv, CountTypes, Inside
<1>5. GhostsAreOver' /\ ClientsCounted'
  BY <1>2 DEF CountInv, GhostsAreOver, ClientsCounted
<1> QED  BY <1>3, <1>4, <1>5 DEF CountInv

\* A step of the accepting thread, or none at all, that leaves pc and the count alone.
LEMMA OutsideStep ==
  ASSUME CountInv, UNCHANGED << pc, ftp_clients, lost, ghosts >>,
         value' \in [Client \cup {"server"} -> Int],
         mm_shutdown => mm_shutdown',
         (server' = "create") <=> (server = "create"),
         AcceptedIsNew'
  PROVE  CountInv'
<1>1. Alive' = Alive /\ Over' = Over
  BY DEF Alive, Over
<1>2. CountTypes' /\ GhostsAreOver'
  BY <1>1 DEF CountInv, CountTypes, GhostsAreOver
<1>3. ClientsCounted'
  BY <1>1 DEF CountInv, ClientsCounted
<1> QED  BY <1>2, <1>3 DEF CountInv

-----------------------------------------------------------------------------
\* Nobody is connected at the start.
LEMMA CountInit == Init => CountInv
<1> SUFFICES ASSUME Init
             PROVE  CountInv
  OBVIOUS
<1>1. Alive = {} /\ Cardinality(Alive) = 0
  BY FS_EmptySet DEF Init, Alive, Everybody
<1>2. CountTypes
  BY DEF Init, CountTypes, Everybody
<1>3. GhostsAreOver
  BY <1>2, Room DEF Init, GhostsAreOver
<1>4. AcceptedIsNew /\ ClientsCounted
  BY <1>1 DEF Init, AcceptedIsNew, ClientsCounted
<1> QED  BY <1>2, <1>3, <1>4 DEF CountInv

\* The count cannot wrap: what it counts never exceeds the clients there are.
LEMMA CountStoreStep == CountInv /\ CountStore => CountInv'
<1> SUFFICES ASSUME CountInv, CountStore
             PROVE  CountInv'
  OBVIOUS
<1> DEFINE n == value["server"] + 1
<1>1. /\ server = "store" /\ server' = "create"
      /\ ftp_clients' = n % CounterSize
      /\ lost' = (lost \/ ftp_clients # value["server"])
      /\ value' = [value EXCEPT !["server"] = 0]
      /\ UNCHANGED << mm_shutdown, accepted, pc, ghosts >>
  BY DEF CountStore, At, Store
<1>2. CountTypes /\ accepted \in Client /\ pc[accepted] = "none"
  BY <1>1 DEF CountInv, AcceptedIsNew
<1>3. n \in Int /\ CounterSize \in Nat \ {0} /\ Cardinality(Client) < CounterSize
  BY <1>2, Room, FtpAssumption DEF CountTypes
<1>4. ftp_clients' \in Int
  BY <1>1, <1>3
<1>5. CountTypes'
  BY <1>1, <1>2, <1>4 DEF CountTypes
<1>6. Alive' = Alive /\ Over' = Over
  BY <1>1 DEF Alive, Over
<1>7. AcceptedIsNew' /\ GhostsAreOver'
  BY <1>1, <1>2, <1>6 DEF AcceptedIsNew, CountInv, GhostsAreOver
<1>8. ASSUME ~lost', ~mm_shutdown'
      PROVE  ftp_clients' = Cardinality(Alive) + ghosts + 1
  <2>1. n = Cardinality(Alive) + ghosts + 1
    <3>1. ~lost /\ ~mm_shutdown /\ ftp_clients = value["server"]
      BY <1>1, <1>8, Zenon
    <3>2. ftp_clients = Cardinality(Alive) + ghosts
      BY <1>1, <1>2, <3>1, Room DEF CountInv, ClientsCounted, CountTypes
    <3> QED  BY <3>1, <3>2
  <2>2. Cardinality(Alive) + Cardinality(Over) + 1 <= Cardinality(Client)
    BY <1>2, Room
  <2>3. n \in Nat /\ n < CounterSize
    BY <1>2, <1>3, <2>1, <2>2, Room DEF CountInv, GhostsAreOver, CountTypes
  <2>4. n % CounterSize = n
    <3> HIDE DEF n
    <3> QED  BY <1>3, <2>3, ModFact
  <2> HIDE DEF n
  <2> QED  BY <1>1, <2>1, <2>4
<1>9. ClientsCounted'
  BY <1>1, <1>6, <1>8 DEF ClientsCounted
<1> QED  BY <1>5, <1>7, <1>9 DEF CountInv

\* The new connection, counted already, gets its thread.
LEMMA CreateThreadStep == CountInv /\ CreateThread => CountInv'
<1> SUFFICES ASSUME CountInv, CreateThread
             PROVE  CountInv'
  OBVIOUS
<1>1. /\ server = "create" /\ server' = "test"
      /\ pc' = [pc EXCEPT ![accepted] = "test"]
      /\ UNCHANGED << mm_shutdown, ftp_clients, value, lost, ghosts >>
  BY DEF CreateThread, At, Goto, count
<1>2. CountTypes /\ accepted \in Client /\ pc[accepted] = "none"
  BY <1>1 DEF CountInv, AcceptedIsNew
<1>3. Alive' = Alive \cup {accepted} /\ accepted \notin Alive /\ Over' = Over
  BY <1>1, <1>2 DEF Alive, Over, CountTypes
<1>4. Cardinality(Alive') = Cardinality(Alive) + 1
  BY <1>2, <1>3, Room, FS_AddElement
<1>5. CountTypes' /\ AcceptedIsNew'
  BY <1>1, <1>2 DEF CountTypes, AcceptedIsNew, Inside
<1>6. GhostsAreOver'
  BY <1>1, <1>3 DEF CountInv, GhostsAreOver
<1>7. ClientsCounted'
  BY <1>1, <1>2, <1>4, Room DEF CountInv, ClientsCounted, CountTypes
<1> QED  BY <1>5, <1>6, <1>7 DEF CountInv

\* It does not get one, and stays counted.
LEMMA CreateFailsStep == CountInv /\ CreateFails => CountInv'
<1> SUFFICES ASSUME CountInv, CreateFails
             PROVE  CountInv'
  OBVIOUS
<1>1. /\ server = "create" /\ server' = "test" /\ ghosts' = ghosts + 1
      /\ pc' = [pc EXCEPT ![accepted] = "over"]
      /\ UNCHANGED << mm_shutdown, ftp_clients, value, lost >>
  BY DEF CreateFails, At, Goto
<1>2. CountTypes /\ accepted \in Client /\ pc[accepted] = "none"
  BY <1>1 DEF CountInv, AcceptedIsNew
<1>3. Over' = Over \cup {accepted} /\ accepted \notin Over /\ Alive' = Alive
  BY <1>1, <1>2 DEF Alive, Over, CountTypes
<1>4. Cardinality(Over') = Cardinality(Over) + 1
  BY <1>2, <1>3, Room, FS_AddElement
<1>5. CountTypes' /\ AcceptedIsNew'
  BY <1>1, <1>2 DEF CountTypes, AcceptedIsNew
<1>6. GhostsAreOver'
  BY <1>1, <1>2, <1>4, Room DEF CountInv, GhostsAreOver, CountTypes
<1>7. ClientsCounted'
  BY <1>1, <1>2, <1>3, Room DEF CountInv, ClientsCounted, CountTypes
<1> QED  BY <1>5, <1>6, <1>7 DEF CountInv

\* A session that is over takes itself off the count, which is at least 1.
LEMMA UncountStoreStep ==
  ASSUME CountInv, NEW c \in Client, UncountStore(c)
  PROVE  CountInv'
<1> DEFINE n == value[c] - 1
<1>1. /\ pc[c] = "store" /\ pc' = [pc EXCEPT ![c] = "over"]
      /\ ftp_clients' = n % CounterSize
      /\ lost' = (lost \/ ftp_clients # value[c])
      /\ value' = [value EXCEPT ![c] = 0]
      /\ UNCHANGED << mm_shutdown, server, accepted, ghosts >>
  BY DEF UncountStore, Goto, Store, system
<1>2. CountTypes
  BY DEF CountInv
<1>3. n \in Int /\ CounterSize \in Nat \ {0} /\ Cardinality(Client) < CounterSize
  BY <1>2, Room, FtpAssumption DEF CountTypes
<1>4. ftp_clients' \in Int
  BY <1>1, <1>3
<1>5. CountTypes' /\ AcceptedIsNew'
  BY <1>1, <1>2, <1>4 DEF CountInv, CountTypes, AcceptedIsNew
<1>6. /\ c \in Alive /\ Alive' = Alive \ {c}
      /\ c \notin Over /\ Over' = Over \cup {c}
  BY <1>1, <1>2 DEF Alive, Over, CountTypes
<1>7. Cardinality(Alive') = Cardinality(Alive) - 1 /\ Cardinality(Alive') \in Nat
  <2>1. Cardinality(Alive \ {c}) = Cardinality(Alive) - 1
    BY <1>2, <1>6, Room, FS_RemoveElement
  <2>2. IsFiniteSet(Alive \ {c})
    BY <1>2, Room, FS_Subset
  <2>3. Cardinality(Alive \ {c}) \in Nat
    BY <2>2, FS_CardinalityType
  <2> QED  BY <1>6, <2>1, <2>3
<1>8. Cardinality(Over') = Cardinality(Over) + 1
  BY <1>2, <1>6, Room, FS_AddElement
<1>9. GhostsAreOver'
  BY <1>1, <1>2, <1>8, Room DEF CountInv, GhostsAreOver, CountTypes
<1>10. ASSUME ~lost', ~mm_shutdown'
       PROVE  ftp_clients' = Cardinality(Alive') + ghosts + (IF server = "create" THEN 1 ELSE 0)
  <2>1. n = Cardinality(Alive') + ghosts + (IF server = "create" THEN 1 ELSE 0)
    <3>1. ~lost /\ ~mm_shutdown /\ ftp_clients = value[c]
      BY <1>1, <1>10, Zenon
    <3>2. ftp_clients = Cardinality(Alive) + ghosts + (IF server = "create" THEN 1 ELSE 0)
      BY <3>1 DEF CountInv, ClientsCounted
    <3> QED  BY <1>2, <1>7, <3>1, <3>2, Room DEF CountTypes
  <2>2. ghosts <= Cardinality(Over) /\ ghosts \in Nat
    BY DEF CountInv, GhostsAreOver, CountTypes
  <2>3. server = "create" => Cardinality(Alive) + Cardinality(Over) + 1 <= Cardinality(Client)
    BY <1>2, Room DEF CountInv, AcceptedIsNew
  <2>4. n \in Nat /\ n < CounterSize
    BY <1>2, <1>3, <1>7, <2>1, <2>2, <2>3, Room
  <2>5. n % CounterSize = n
    <3> HIDE DEF n
    <3> QED  BY <1>3, <2>4, ModFact
  <2> HIDE DEF n
  <2> QED  BY <1>1, <2>1, <2>5
<1>11. ClientsCounted'
  BY <1>1, <1>10 DEF ClientsCounted
<1> QED  BY <1>5, <1>9, <1>11 DEF CountInv

-----------------------------------------------------------------------------
\* The accepting thread.
LEMMA ServerStep == CountInv /\ Server => CountInv'
<1> SUFFICES ASSUME CountInv, Server
             PROVE  CountInv'
  OBVIOUS
<1>0. value \in [Client \cup {"server"} -> Int]
  BY DEF CountInv, CountTypes
<1>1. CASE Listen
  <2>1. AcceptedIsNew' /\ server # "create" /\ server' # "create"
    BY <1>1 DEF Listen, At, AcceptedIsNew
  <2> QED  BY <1>0, <1>1, <2>1, OutsideStep DEF Listen, At, count
<1>2. CASE ServerTest
  <2>1. AcceptedIsNew' /\ server # "create" /\ server' # "create"
    BY <1>2 DEF ServerTest, At, AcceptedIsNew
  <2> QED  BY <1>0, <1>2, <2>1, OutsideStep DEF ServerTest, At, count
<1>3. CASE AcceptFails
  <2>1. AcceptedIsNew' /\ server # "create" /\ server' # "create"
    BY <1>3 DEF AcceptFails, At, AcceptedIsNew
  <2> QED  BY <1>0, <1>3, <2>1, OutsideStep DEF AcceptFails, At, count
<1> QED  BY <1>1, <1>2, <1>3, CountStoreStep, CreateThreadStep, CreateFailsStep DEF Server

\* What the thread of a connection does by itself.
LEMMA SessionStep ==
  ASSUME CountInv, NEW c \in Client, Session(c)
  PROVE  CountInv'
<1>0. CountTypes
  BY DEF CountInv
<1>1. CASE LoopTest(c)
  <2>1. PICK label \in {"close", "recv"} : Goto(c, label)
    BY <1>1 DEF LoopTest
  <2> QED  BY <1>0, <1>1, <2>1, InsideStep DEF LoopTest, Inside, count, system, CountTypes
<1>2. CASE EndOfCommand(c)
  BY <1>0, <1>2, InsideStep DEF EndOfCommand, Inside, count, system, CountTypes
<1>3. CASE RetrBlock(c)
  <2>1. AcceptedIsNew'
    BY <1>3 DEF RetrBlock, system, AcceptedIsNew, CountInv
  <2> QED  BY <1>0, <1>3, <2>1, OutsideStep DEF RetrBlock, system, count, CountTypes
<1>4. CASE RetrEnds(c)
  BY <1>0, <1>4, InsideStep DEF RetrEnds, Inside, count, system, CountTypes
<1>5. CASE RetrFails(c)
  BY <1>0, <1>5, InsideStep DEF RetrFails, Inside, count, system, CountTypes
<1>6. CASE Close(c)
  <2>1. value' \in [Client \cup {"server"} -> Int]
    BY <1>0, <1>6 DEF Close, Load, CountTypes
  <2> QED  BY <1>6, <2>1, InsideStep DEF Close, Load, Inside, system
<1>7. CASE UncountStore(c)
  BY <1>7, UncountStoreStep
<1> QED  BY <1>1, <1>2, <1>3, <1>4, <1>5, <1>6, <1>7 DEF Session

\* A command of a session, whatever it does to the files, leaves the count alone.
LEMMA CommandStep ==
  ASSUME CountInv, NEW c \in Client, NEW label \in Inside, Command(c, label)
  PROVE  CountInv'
<1>1. CountTypes
  BY DEF CountInv
<1> QED  BY <1>1, InsideStep DEF Command, Inside, count, CountTypes

\* What waits for the client.
LEMMA AskedStep ==
  ASSUME CountInv, NEW c \in Client, Asked(c)
  PROVE  CountInv'
<1>0. CountTypes
  BY DEF CountInv
<1>1. CASE Accept(c)
  <2>1. value' \in [Client \cup {"server"} -> Int]
    BY <1>0, <1>1 DEF Accept, Load, CountTypes
  <2>2. AcceptedIsNew' /\ server # "create" /\ server' # "create"
    BY <1>1 DEF Accept, At, AcceptedIsNew
  <2> QED  BY <1>1, <2>1, <2>2, OutsideStep DEF Accept, At, Load
<1>2. CASE Hangup(c)
  BY <1>0, <1>2, InsideStep DEF Hangup, Inside, count, system, CountTypes
<1>3. CASE NotLoggedIn(c)
  BY <1>0, <1>3, InsideStep DEF NotLoggedIn, Inside, count, system, CountTypes
<1>4. CASE Pass(c)
  BY <1>0, <1>4, InsideStep DEF Pass, Inside, count, system, CountTypes
<1>5. CASE Quit(c)
  BY <1>0, <1>5, InsideStep DEF Quit, Inside, count, system, CountTypes
<1>6. CASE Other(c)
  BY <1>0, <1>6, InsideStep DEF Other, Inside, count, system, CountTypes
<1>7. CASE PasvAccept(c)
  BY <1>0, <1>7, InsideStep DEF PasvAccept, Inside, count, system, CountTypes
<1>8. CASE StorBlock(c)
  <2>1. AcceptedIsNew'
    BY <1>8 DEF StorBlock, system, AcceptedIsNew, CountInv
  <2> QED  BY <1>0, <1>8, <2>1, OutsideStep DEF StorBlock, system, count, CountTypes
<1>9. CASE StorEnds(c)
  BY <1>0, <1>9, InsideStep DEF StorEnds, Inside, count, system, CountTypes
<1>10. CASE Type(c) \/ Rest(c) \/ Port(c) \/ Exitapp(c) \/ Dele(c) \/ Rnfr(c) \/ Rnto(c)
  <2>1. Command(c, "end")
    BY <1>10 DEF Type, Rest, Port, Exitapp, Dele, Rnfr, Rnto
  <2> QED  BY <2>1, CommandStep DEF Inside
<1>11. CASE Pasv(c)
  BY <1>11, CommandStep DEF Pasv, Inside
<1>12. CASE Stor(c)
  BY <1>12, CommandStep DEF Stor, Inside
<1>13. CASE Retr(c)
  BY <1>13, CommandStep DEF Retr, Inside
<1> QED  BY <1>1, <1>2, <1>3, <1>4, <1>5, <1>6, <1>7, <1>8, <1>9, <1>10, <1>11, <1>12, <1>13
         DEF Asked

\* Every step of the server keeps the count.
LEMMA CountStep == CountInv /\ [Next]_vars => CountInv'
<1> SUFFICES ASSUME CountInv, [Next]_vars
             PROVE  CountInv'
  OBVIOUS
<1>0. CountTypes
  BY DEF CountInv
<1>1. CASE Server
  BY <1>1, ServerStep
<1>2. CASE Shutdown
  <2>1. AcceptedIsNew'
    BY <1>2 DEF Shutdown, AcceptedIsNew, CountInv
  <2> QED  BY <1>0, <1>2, <2>1, OutsideStep DEF Shutdown, count, CountTypes
<1>3. CASE \E c \in Client : Session(c) \/ Asked(c)
  BY <1>3, SessionStep, AskedStep
<1>4. CASE UNCHANGED vars
  <2>1. AcceptedIsNew'
    BY <1>4 DEF vars, system, AcceptedIsNew, CountInv
  <2> QED  BY <1>0, <1>4, <2>1, OutsideStep DEF vars, system, count, CountTypes
<1> QED  BY <1>1, <1>2, <1>3, <1>4 DEF Next

\* However many clients connect, as long as they are fewer than ftp_clients can count,
\* it is the number of sessions, unless an update was lost or a thread not created.
THEOREM ClientsAlwaysCounted == Spec => []ClientsCounted
<1>1. CountInv => ClientsCounted
  BY DEF CountInv
<1> QED  BY <1>1, CountInit, CountStep, PTL DEF Spec

-----------------------------------------------------------------------------
(***************************************************************************)
(* What is transferred.  The type invariant and this one need each other:  *)
(* a block is read from the file that the session has opened.              *)
(***************************************************************************)
Block == Client \cup {Old, Hole}

Transferring == {"stor", "retr"}

\* A session with no transfer has nothing open.  The client and the server agree where
\* the next transfer starts, if an int can hold it, until a command that ends drops the
\* restart point or keeps it.
Agreed(c) ==
  /\ pc[c] \notin Transferring \cup {"end"} => fd[c] = NoFile /\ moved[c] = << >>
  /\ pc[c] # "end" => result[c] = "none"
  /\ pc[c] \in Transferring => fd[c] \in Inode
  /\ result[c] # "none" => fd[c] \in Inode
  /\ pc[c] \in {"none", "test", "recv"} => ~dataactive[c]
  /\ pc[c] \in {"none", "test", "recv", "pasv"} \cup Transferring /\ Resumable(c) =>
       want[c] = rest[c]
  /\ pc[c] = "end" /\ dataactive[c] /\ Resumable(c) => want[c] = rest[c]

\* What was moved are the blocks of the file from the place where the client wanted it.
Placed(c) ==
  LET s == content[fd[c]] IN
    /\ moved[c] # << >> => want[c] + Len(moved[c]) <= Len(s)
    /\ \A k \in 1 .. Len(moved[c]) : moved[c][k] = s[want[c] + k]

\* An upload, or one that was acknowledged, into whose file no other session wrote.
Uploaded(c) ==
  ~disturbed[c] /\ Resumable(c) /\ (pc[c] = "stor" \/ result[c] = "stored") =>
    Placed(c) /\ (want[c] = 0 => Len(content[fd[c]]) = Len(moved[c]))

Downloaded(c) ==
  ~disturbed[c] /\ Resumable(c) /\ (pc[c] = "retr" \/ result[c] = "sent") =>
    Placed(c) /\ (pc[c] = "end" => want[c] + Len(moved[c]) >= Len(content[fd[c]]))

FileInv == TypeOK /\ CountInv /\ \A c \in Client : Agreed(c) /\ Uploaded(c) /\ Downloaded(c)

-----------------------------------------------------------------------------
\* Writing a block leaves a sequence of blocks, at least as long as before, with the
\* block in its place and every other block where it was.
LEMMA WrittenFacts ==
  ASSUME NEW s \in Seq(Block), NEW n \in Nat, NEW c \in Client
  PROVE  /\ Written(s, n, c) \in Seq(Block)
         /\ Len(Written(s, n, c)) = IF n < Len(s) THEN Len(s) ELSE n + 1
         /\ Written(s, n, c)[n + 1] = c
         /\ \A k \in 1 .. Len(s) : k # n + 1 => Written(s, n, c)[k] = s[k]
<1> DEFINE m == IF n < Len(s) THEN Len(s) ELSE n + 1
<1>1. m \in Nat /\ n + 1 \in 1 .. m /\ Len(s) <= m
  OBVIOUS
<1>2. \A k \in 1 .. Len(s) : s[k] \in Block
  OBVIOUS
<1>3. Written(s, n, c) = [k \in 1 .. m |->
                            IF k = n + 1 THEN c ELSE IF k <= Len(s) THEN s[k] ELSE Hole]
  BY DEF Written
<1> HIDE DEF m
<1>4. Written(s, n, c) \in [1 .. m -> Block]
  BY <1>1, <1>2, <1>3 DEF Block
<1>5. Written(s, n, c) \in Seq(Block) /\ Len(Written(s, n, c)) = m
  BY <1>1, <1>4
<1> QED  BY <1>1, <1>3, <1>5 DEF m

\* Blocks that are placed are the part of the file that they were asked from.
LEMMA PlacedIsSubSeq ==
  ASSUME NEW s \in Seq(Block), NEW t \in Seq(Block), NEW w \in Nat,
         t # << >> => w + Len(t) <= Len(s),
         \A k \in 1 .. Len(t) : t[k] = s[w + k]
  PROVE  SubSeq(s, w + 1, w + Len(t)) = t
<1>1. CASE t = << >>
  BY <1>1, SubSeqEmpty
<1>2. CASE t # << >>
  <2>1. Len(t) \in Nat /\ Len(t) > 0
    BY <1>2
  <2>2. \A i \in w + 1 .. w + Len(t) : s[i] \in Block
    BY <1>2, <2>1
  <2> DEFINE u == SubSeq(s, w + 1, w + Len(t))
  <2>3. u \in Seq(Block) /\ Len(u) = Len(t) /\ \A i \in 1 .. Len(t) : u[i] = s[w + i]
    BY <2>1, <2>2, SubSeqProperties
  <2>4. \A i \in 1 .. Len(t) : u[i] = t[i]
    BY <2>3
  <2> HIDE DEF u
  <2>5. u = t
    BY <2>3, <2>4, SeqEqual
  <2> QED  BY <2>5 DEF u
<1> QED  BY <1>1, <1>2

-----------------------------------------------------------------------------
\* The parts of the type invariant, each of which few actions touch.
PlaceTypes ==
  /\ exitapp \in {0, 1} /\ mm_shutdown \in BOOLEAN
  /\ server \in {"listen", "test", "accept", "store", "create", "over"}
  /\ accepted \in Client \cup {NoClient} /\ commands \in 0 .. MaxCommands
  /\ pc \in [Client -> {"none", "over"} \cup Inside]

SessionTypes ==
  /\ loggedin \in [Client -> BOOLEAN] /\ data_s \in [Client -> BOOLEAN]
  /\ dataactive \in [Client -> BOOLEAN] /\ rest \in [Client -> -(MaxInt + 1) .. MaxInt]
  /\ rnfr \in [Client -> Path \cup {NoFile}]

CounterTypes ==
  /\ ftp_clients \in 0 .. CounterSize - 1 /\ lost \in BOOLEAN
  /\ value \in [Client \cup {"server"} -> 0 .. CounterSize - 1]

FileTypes ==
  /\ name \in [Path -> Inode \cup {NoFile}] /\ fd \in [Client -> Inode \cup {NoFile}]
  /\ content \in [Inode -> Seq(Block)] /\ moved \in [Client -> Seq(Block)]
  /\ want \in [Client -> 0 .. MaxRest] /\ result \in [Client -> {"none", "stored", "sent"}]
  /\ disturbed \in [Client -> BOOLEAN]

LEMMA TypeParts ==
  TypeOK <=> /\ PlaceTypes /\ SessionTypes /\ CounterTypes /\ FileTypes
             /\ ghosts \in 0 .. Cardinality(Client)
  BY DEF TypeOK, PlaceTypes, SessionTypes, CounterTypes, FileTypes, Block, Inside

LEMMA Bounds ==
  /\ CounterSize \in Nat /\ 0 < CounterSize
  /\ MaxBlocks \in Nat /\ MaxCommands \in Nat /\ MaxInt \in Nat /\ MaxRest \in Nat
<1>1. Cardinality(Client) \in Nat
  BY FtpAssumption, FS_CardinalityType DEF FtpAssumption
<1> QED  BY <1>1, FtpAssumption DEF FtpAssumption

\* What atoi returns is an int, and the number itself if that is one.
LEMMA AtoiType ==
  ASSUME NEW n \in Nat
  PROVE  /\ Atoi(n) \subseteq -(MaxInt + 1) .. MaxInt
         /\ n <= MaxInt => Atoi(n) = { n }
<1> DEFINE w == 2 * (MaxInt + 1)
           m == n + MaxInt + 1
<1>1. MaxInt \in Nat /\ w \in Nat /\ w > 0 /\ m \in Nat
  BY Bounds
<1>2. m % w \in 0 .. w - 1
  <2> HIDE DEF m, w
  <2> QED  BY <1>1
<1>3. (m % w) - (MaxInt + 1) \in -(MaxInt + 1) .. MaxInt
  <2> DEFINE q == m % w
  <2>1. q \in 0 .. w - 1
    BY <1>2
  <2> HIDE DEF q
  <2>2. q - (MaxInt + 1) \in -(MaxInt + 1) .. MaxInt
    BY <1>1, <2>1
  <2> QED  BY <2>2 DEF q
<1>4. Atoi(n) = IF n <= MaxInt THEN { n } ELSE { MaxInt, (m % w) - (MaxInt + 1) }
  BY DEF Atoi
<1> HIDE DEF m, w
<1> QED  BY <1>1, <1>3, <1>4

\* Every step leaves the program at a place.
LEMMA PlaceStep ==
  ASSUME PlaceTypes, NEW c \in Client, Server \/ Shutdown \/ Session(c) \/ Asked(c)
  PROVE  PlaceTypes'
<1>1. CASE Accept(c)
  BY <1>1, Bounds DEF Accept, At, PlaceTypes, Inside
<1>2. CASE CreateThread \/ CreateFails
  BY <1>2, Bounds DEF CreateThread, CreateFails, At, Goto, PlaceTypes, Inside
<1>3. CASE CountStore
  BY <1>3, Bounds DEF CountStore, At, PlaceTypes, Inside
<1>4. CASE Type(c) \/ Rest(c) \/ Pasv(c) \/ Port(c)
  BY <1>4, Bounds DEF Type, Rest, Pasv, Port, Command, Goto, PlaceTypes, Inside
<1>5. CASE Exitapp(c) \/ Dele(c) \/ Rnfr(c) \/ Rnto(c)
  BY <1>5, Bounds DEF Exitapp, Dele, Rnfr, Rnto, Command, Goto, PlaceTypes, Inside
<1>6. CASE Stor(c) \/ Retr(c)
  BY <1>6, Bounds DEF Stor, Retr, Command, Goto, PlaceTypes, Inside
<1>7. CASE LoopTest(c) \/ EndOfCommand(c) \/ RetrEnds(c) \/ RetrFails(c) \/ Close(c) \/
          UncountStore(c)
  BY <1>7, Bounds DEF LoopTest, EndOfCommand, RetrEnds, RetrFails, Close, UncountStore,
              Goto, system, PlaceTypes, Inside
<1>8. CASE Hangup(c) \/ NotLoggedIn(c) \/ Pass(c) \/ Quit(c) \/ Other(c) \/ PasvAccept(c) \/
          StorEnds(c)
  BY <1>8, Bounds DEF Hangup, NotLoggedIn, Pass, Quit, Other, PasvAccept, StorEnds, Goto,
              system, PlaceTypes, Inside
<1>9. CASE Listen \/ ServerTest \/ AcceptFails \/ Shutdown \/ RetrBlock(c) \/ StorBlock(c)
  BY <1>9 DEF Listen, ServerTest, AcceptFails, Shutdown, RetrBlock, StorBlock, At, system,
              PlaceTypes, Inside
<1> QED  BY <1>1, <1>2, <1>3, <1>4, <1>5, <1>6, <1>7, <1>8, <1>9 DEF Server, Session, Asked

\* What a session keeps between commands.
LEMMA SessionStepTypes ==
  ASSUME SessionTypes, NEW c \in Client, Server \/ Shutdown \/ Session(c) \/ Asked(c)
  PROVE  SessionTypes'
<1>1. CASE EndOfCommand(c)
  BY <1>1, Bounds DEF EndOfCommand, SessionTypes
<1>2. CASE Close(c)
  BY <1>2, Bounds DEF Close, SessionTypes
<1>3. CASE Pass(c)
  BY <1>3, Bounds DEF Pass, SessionTypes
<1>4. CASE Type(c)
  BY <1>4, Bounds DEF Type, Command, SessionTypes
<1>5. CASE Rest(c)
  <2>1. PICK n \in 0 .. MaxRest : \E r \in Atoi(n) : rest' = [rest EXCEPT ![c] = r]
    BY <1>5 DEF Rest
  <2>3. Atoi(n) \subseteq -(MaxInt + 1) .. MaxInt
    BY Bounds, AtoiType
  <2>2. UNCHANGED << loggedin, data_s, rnfr >> /\ dataactive' = [dataactive EXCEPT ![c] = TRUE]
    BY <1>5 DEF Rest, Command
  <2> QED  BY <2>1, <2>2, <2>3, Bounds DEF SessionTypes
<1>6. CASE Pasv(c)
  BY <1>6, Bounds DEF Pasv, Command, SessionTypes
<1>7. CASE PasvAccept(c)
  BY <1>7, Bounds DEF PasvAccept, SessionTypes
<1>8. CASE Port(c)
  BY <1>8, Bounds DEF Port, Command, SessionTypes
<1>9. CASE Rnfr(c)
  BY <1>9, Bounds DEF Rnfr, Command, SessionTypes
<1>10. CASE Listen \/ ServerTest \/ AcceptFails \/ CountStore \/ CreateThread \/
          CreateFails \/ Shutdown \/ LoopTest(c) \/ RetrBlock(c) \/ RetrEnds(c) \/
          RetrFails(c) \/ UncountStore(c) \/ Accept(c) \/ Hangup(c) \/ NotLoggedIn(c) \/
          Quit(c) \/ Other(c) \/ Exitapp(c) \/ Dele(c) \/ Rnto(c) \/ Stor(c) \/
          StorBlock(c) \/ StorEnds(c) \/ Retr(c)
  BY <1>10 DEF Listen, ServerTest, AcceptFails, CountStore, CreateThread, CreateFails,
              Shutdown, LoopTest, RetrBlock, RetrEnds, RetrFails, UncountStore, Accept,
              Hangup, NotLoggedIn, Quit, Other, Exitapp, Dele, Rnto, Stor, StorBlock,
              StorEnds, Retr, Command, session, SessionTypes
<1> QED  BY <1>1, <1>2, <1>3, <1>4, <1>5, <1>6, <1>7, <1>8, <1>9, <1>10 DEF Server, Session, Asked

\* ftp_clients and what the threads have loaded of it fit the counter.
LEMMA CounterStep ==
  ASSUME CounterTypes, NEW c \in Client, Server \/ Shutdown \/ Session(c) \/ Asked(c)
  PROVE  CounterTypes'
<1>1. CASE Accept(c) \/ Close(c)
  BY <1>1, Bounds DEF Accept, Close, Load, CounterTypes
<1>2. ASSUME NEW t \in Client \cup {"server"}, NEW n \in Int, Store(t, n)
      PROVE  CounterTypes'
  <2>1. /\ ftp_clients' = n % CounterSize /\ value' = [value EXCEPT ![t] = 0]
        /\ lost' = (lost \/ ftp_clients # value[t])
    BY <1>2 DEF Store
  <2>2. ftp_clients' \in 0 .. CounterSize - 1
    BY <2>1, Bounds
  <2>3. lost' \in BOOLEAN
    BY <2>1, Zenon
  <2>4. value' \in [Client \cup {"server"} -> 0 .. CounterSize - 1]
    BY <2>1, Bounds DEF CounterTypes
  <2> QED  BY <2>2, <2>3, <2>4 DEF CounterTypes
<1>3. CASE CountStore
  <2>1. value["server"] + 1 \in Int
    BY Bounds DEF CounterTypes
  <2> QED  BY <1>2, <1>3, <2>1 DEF CountStore
<1>4. CASE UncountStore(c)
  <2>1. value[c] - 1 \in Int
    BY Bounds DEF CounterTypes
  <2> QED  BY <1>2, <1>4, <2>1 DEF UncountStore
<1>5. CASE Listen \/ ServerTest \/ AcceptFails \/ CreateThread \/ CreateFails \/ Shutdown \/
          LoopTest(c) \/ EndOfCommand(c) \/ RetrBlock(c) \/ RetrEnds(c) \/ RetrFails(c) \/
          Hangup(c) \/ NotLoggedIn(c) \/ Pass(c) \/ Quit(c) \/ Other(c) \/ Type(c) \/
          Rest(c) \/ Pasv(c) \/ PasvAccept(c) \/ Port(c) \/ Exitapp(c) \/ Dele(c) \/
          Rnfr(c) \/ Rnto(c) \/ Stor(c) \/ StorBlock(c) \/ StorEnds(c) \/ Retr(c)
  BY <1>5 DEF Listen, ServerTest, AcceptFails, CreateThread, CreateFails, Shutdown,
              LoopTest, EndOfCommand, RetrBlock, RetrEnds, RetrFails, Hangup, NotLoggedIn,
              Pass, Quit, Other, Type, Rest, Pasv, PasvAccept, Port, Exitapp, Dele, Rnfr,
              Rnto, Stor, StorBlock, StorEnds, Retr, Command, count, CounterTypes
<1> QED  BY <1>1, <1>3, <1>4, <1>5 DEF Server, Session, Asked

\* STOR opens one file, new or there already, and empties it unless it is resumed.
LEMMA StorFile ==
  ASSUME FileTypes, NEW c \in Client, Stor(c)
  PROVE  \E p \in Path, i \in Inode :
           /\ fd' = [fd EXCEPT ![c] = i] /\ name' = [name EXCEPT ![p] = i]
           /\ content' = [content EXCEPT
                            ![i] = IF name[p] = i /\ rest[c] > 0 THEN content[i] ELSE << >>]
           /\ disturbed' = Disturb(c, i)
<1>1. PICK p \in Path : \E i \in IF name[p] = NoFile THEN Fresh ELSE { name[p] } :
        /\ fd' = [fd EXCEPT ![c] = i] /\ name' = [name EXCEPT ![p] = i]
        /\ content' = [content EXCEPT
                         ![i] = IF name[p] = i /\ rest[c] > 0 THEN content[i] ELSE << >>]
        /\ disturbed' = Disturb(c, i)
  BY DEF Stor
<1>2. (IF name[p] = NoFile THEN Fresh ELSE { name[p] }) \subseteq Inode
  BY DEF Fresh, FileTypes
<1> QED  BY <1>1, <1>2

\* The files and the transfers.
LEMMA FileStep ==
  ASSUME FileTypes, SessionTypes, NEW c \in Client, Agreed(c),
         Server \/ Shutdown \/ Session(c) \/ Asked(c)
  PROVE  FileTypes'
<1>1. CASE EndOfCommand(c)
  BY <1>1, Bounds DEF EndOfCommand, FileTypes
<1>2. CASE Close(c) \/ Other(c) \/ Pasv(c) \/ Port(c) \/ Exitapp(c) \/ Rnfr(c)
  <2>1. Forget(c) /\ UNCHANGED << name, content >>
    BY <1>2 DEF Close, Other, Pasv, Port, Exitapp, Rnfr
  <2> QED  BY <2>1, Bounds DEF Forget, FileTypes
<1>3. CASE Rest(c)
  <2>1. PICK n \in 0 .. MaxRest : want' = [want EXCEPT ![c] = n]
    BY <1>3 DEF Rest
  <2>2. UNCHANGED << name, content, fd, moved, result, disturbed >>
    BY <1>3 DEF Rest
  <2> QED  BY <2>1, <2>2, Bounds DEF FileTypes
<1>4. CASE Dele(c)
  BY <1>4, Bounds DEF Dele, Forget, FileTypes
<1>5. CASE Rnto(c)
  <2>1. PICK p \in Path, q \in Path : name' = [name EXCEPT ![q] = name[p], ![p] = NoFile]
    BY <1>5 DEF Rnto
  <2> QED  BY <1>5, <2>1, Bounds DEF Rnto, Forget, FileTypes
<1>6. CASE Stor(c)
  <2>1. PICK p \in Path, i \in Inode :
          /\ fd' = [fd EXCEPT ![c] = i] /\ name' = [name EXCEPT ![p] = i]
          /\ content' = [content EXCEPT
                           ![i] = IF name[p] = i /\ rest[c] > 0 THEN content[i] ELSE << >>]
    BY <1>6, StorFile
  <2>2. disturbed' \in [Client -> BOOLEAN] /\ UNCHANGED << moved, want, result >>
    BY <1>6 DEF Stor, Disturb, FileTypes
  <2>3. content' \in [Inode -> Seq(Block)]
    BY <2>1 DEF FileTypes
  <2> QED  BY <2>1, <2>2, <2>3 DEF FileTypes
<1>7. CASE StorBlock(c)
  <2>1. /\ fd[c] \in Inode /\ content[fd[c]] \in Seq(Block) /\ Pos(c) \in Nat
        /\ moved[c] \in Seq(Block) /\ c \in Block
    BY <1>7, Bounds DEF StorBlock, Agreed, Transferring, FileTypes, SessionTypes, Pos, From,
                         Block
  <2>2. Written(content[fd[c]], Pos(c), c) \in Seq(Block)
    BY <2>1, WrittenFacts
  <2>5. Append(moved[c], c) \in Seq(Block)
    BY <2>1
  <2>3. disturbed' \in [Client -> BOOLEAN] /\ UNCHANGED << name, fd, want, result >>
    BY <1>7 DEF StorBlock, Disturb, FileTypes
  <2>4. /\ content' = [content EXCEPT ![fd[c]] = Written(content[fd[c]], Pos(c), c)]
        /\ moved' = [moved EXCEPT ![c] = Append(moved[c], c)]
    BY <1>7 DEF StorBlock
  <2> QED  BY <2>1, <2>2, <2>3, <2>4, <2>5 DEF FileTypes
<1>8. CASE RetrBlock(c)
  <2>1. /\ fd[c] \in Inode /\ content[fd[c]] \in Seq(Block) /\ Pos(c) \in Nat
        /\ moved[c] \in Seq(Block)
    BY <1>8, Bounds DEF RetrBlock, Agreed, Transferring, FileTypes, SessionTypes, Pos,
                         From
  <2>2. Pos(c) + 1 \in 1 .. Len(content[fd[c]])
    BY <1>8, <2>1 DEF RetrBlock
  <2>3. Append(moved[c], content[fd[c]][Pos(c) + 1]) \in Seq(Block)
    BY <2>1, <2>2
  <2> QED  BY <1>8, <2>3 DEF RetrBlock, FileTypes
<1>9. CASE StorEnds(c) \/ Retr(c) \/ RetrEnds(c) \/ RetrFails(c)
  BY <1>9, Bounds DEF StorEnds, Retr, RetrEnds, RetrFails, FileTypes
<1>10. CASE Listen \/ ServerTest \/ AcceptFails \/ CountStore \/ CreateThread \/
          CreateFails \/ Shutdown \/ LoopTest(c) \/ UncountStore(c) \/ Accept(c) \/
          Hangup(c) \/ NotLoggedIn(c) \/ Pass(c) \/ Quit(c) \/ Type(c) \/ PasvAccept(c)
  BY <1>10 DEF Listen, ServerTest, AcceptFails, CountStore, CreateThread, CreateFails,
              Shutdown, LoopTest, UncountStore, Accept, Hangup, NotLoggedIn, Pass, Quit,
              Type, PasvAccept, At, Command, files, transfer, FileTypes
<1> QED  BY <1>1, <1>2, <1>3, <1>4, <1>5, <1>6, <1>7, <1>8, <1>9, <1>10 DEF Server, Session, Asked

-----------------------------------------------------------------------------
\* What a session agreed on with its client is not another session's business.
LEMMA AgreedStep ==
  ASSUME TypeOK, AcceptedIsNew, NEW c \in Client, NEW d \in Client, Agreed(c), Agreed(d),
         Server \/ Shutdown \/ Session(c) \/ Asked(c)
  PROVE  Agreed(d)'
<1>1. CASE Listen \/ ServerTest \/ AcceptFails \/ CountStore \/ Accept(c)
  BY <1>1 DEF Listen, ServerTest, AcceptFails, CountStore, Accept, At, session, files,
              transfer, Agreed, Resumable, Transferring, TypeOK
<1>2. CASE CreateThread \/ CreateFails
  BY <1>2 DEF CreateThread, CreateFails, At, Goto, session, files, transfer, AcceptedIsNew,
              Agreed, Resumable, Transferring, TypeOK
<1>3. CASE LoopTest(c) \/ UncountStore(c) \/ Hangup(c)
  BY <1>3 DEF LoopTest, UncountStore, Hangup, Goto, session, files, transfer, Agreed, Resumable,
              Transferring, TypeOK
<1>4. CASE NotLoggedIn(c) \/ Pass(c) \/ Quit(c)
  BY <1>4 DEF NotLoggedIn, Pass, Quit, Goto, session, files, transfer, Agreed, Resumable, Transferring,
              TypeOK
<1>5. CASE EndOfCommand(c)
  BY <1>5 DEF EndOfCommand, Goto, Agreed, Resumable, Transferring, TypeOK
<1>6. CASE RetrBlock(c)
  BY <1>6 DEF RetrBlock, session, Agreed, Resumable, Transferring, TypeOK
<1>7. CASE RetrEnds(c)
  BY <1>7 DEF RetrEnds, Goto, session, Agreed, Resumable, Transferring, TypeOK
<1>8. CASE RetrFails(c)
  BY <1>8 DEF RetrFails, Goto, session, Agreed, Resumable, Transferring, TypeOK
<1>9. CASE StorBlock(c) \/ StorEnds(c)
  BY <1>9 DEF StorBlock, StorEnds, Goto, session, Agreed, Resumable, Transferring, TypeOK
<1>10. CASE Close(c) \/ Other(c) \/ PasvAccept(c)
  BY <1>10 DEF Close, Other, PasvAccept, Goto, Forget, session, files, transfer, Agreed, Resumable,
              Transferring, TypeOK
<1>11. CASE Type(c)
  BY <1>11 DEF Type, Command, Goto, files, transfer, Agreed, Resumable, Transferring, TypeOK
<1>18. CASE Rest(c)
  <2>0. PICK n \in 0 .. MaxRest : \E r \in Atoi(n) :
          rest' = [rest EXCEPT ![c] = r] /\ want' = [want EXCEPT ![c] = n]
    BY <1>18 DEF Rest
  <2>1. PICK r \in Atoi(n) :
          rest' = [rest EXCEPT ![c] = r] /\ want' = [want EXCEPT ![c] = n]
    BY <2>0
  <2>2. n <= MaxInt => r = n
    BY <2>1, Bounds, AtoiType
  <2>3. /\ pc[c] = "recv" /\ pc' = [pc EXCEPT ![c] = "end"]
        /\ dataactive' = [dataactive EXCEPT ![c] = TRUE] /\ UNCHANGED << fd, moved, result >>
    BY <1>18 DEF Rest, Command, Goto
  <2> QED  BY <2>1, <2>2, <2>3 DEF Agreed, Resumable, Transferring, TypeOK
<1>12. CASE Pasv(c)
  BY <1>12 DEF Pasv, Command, Goto, Forget, Agreed, Resumable, Transferring, TypeOK
<1>13. CASE Port(c) \/ Exitapp(c)
  BY <1>13 DEF Port, Exitapp, Command, Goto, Forget, Agreed, Resumable, Transferring, TypeOK
<1>14. CASE Dele(c) \/ Rnfr(c) \/ Rnto(c)
  BY <1>14 DEF Dele, Rnfr, Rnto, Command, Goto, Forget, Agreed, Resumable, Transferring, TypeOK
<1>15. CASE Retr(c)
  BY <1>15 DEF Retr, Command, Goto, Agreed, Resumable, Transferring, TypeOK
<1>16. CASE Stor(c)
  <2>1. PICK i \in Inode : fd' = [fd EXCEPT ![c] = i]
    BY <1>16, TypeParts, StorFile
  <2>2. /\ pc' = [pc EXCEPT ![c] = "stor"] /\ pc[c] = "recv"
        /\ UNCHANGED << dataactive, rest, moved, want, result >>
    BY <1>16 DEF Stor, Command, Goto
  <2> QED  BY <2>1, <2>2 DEF Agreed, Resumable, Transferring, TypeOK
<1>17. CASE Shutdown
  BY <1>17 DEF Shutdown, session, files, transfer, Agreed, Resumable
<1> QED  BY <1>1, <1>2, <1>3, <1>4, <1>5, <1>6, <1>7, <1>8, <1>9, <1>10, <1>11, <1>12,
            <1>13, <1>14, <1>15, <1>16, <1>17, <1>18
         DEF Server, Session, Asked

-----------------------------------------------------------------------------
\* A connection with no transfer has nothing to show.
LEMMA NoTransfer ==
  ASSUME NEW d \in Client, pc'[d] \notin Transferring, result'[d] = "none"
  PROVE  Uploaded(d)' /\ Downloaded(d)'
  BY DEF Uploaded, Downloaded, Transferring, Resumable

\* A transfer that does not move is kept as long as nobody writes into its file unnoticed.
LEMMA TransferKept ==
  ASSUME NEW d \in Client, Uploaded(d), Downloaded(d),
         pc'[d] = pc[d], result'[d] = result[d], want'[d] = want[d], moved'[d] = moved[d],
         fd'[d] = fd[d],
         disturbed'[d] \/ (disturbed'[d] = disturbed[d] /\ content'[fd[d]] = content[fd[d]])
  PROVE  Uploaded(d)' /\ Downloaded(d)'
<1>1. CASE disturbed'[d]
  BY <1>1 DEF Uploaded, Downloaded
<1>2. CASE disturbed'[d] = disturbed[d] /\ content'[fd[d]] = content[fd[d]]
  <2>1. Placed(d)' <=> Placed(d)
    BY <1>2 DEF Placed
  <2> QED  BY <1>2, <2>1 DEF Uploaded, Downloaded, Resumable
<1> QED  BY <1>1, <1>2

\* A step of one session leaves the transfer of another alone, or disturbs it.
LEMMA OtherTransfer ==
  ASSUME TypeOK, NEW c \in Client, NEW d \in Client, d # c, Session(c) \/ Asked(c),
         Agreed(c), Agreed(d), Uploaded(d), Downloaded(d)
  PROVE  Uploaded(d)' /\ Downloaded(d)'
<1>0. ASSUME NEW i \in Inode, NEW s, content' = [content EXCEPT ![i] = s],
             disturbed' = Disturb(c, i), moved'[d] = moved[d], pc'[d] = pc[d],
             fd'[d] = fd[d], UNCHANGED << want, result >>
      PROVE  Uploaded(d)' /\ Downloaded(d)'
  <2>1. disturbed'[d] <=> disturbed[d] \/ fd[d] = i
    BY <1>0 DEF Disturb
  <2>2. CASE fd[d] = i
    BY <1>0, <2>1, <2>2, TransferKept
  <2>3. CASE fd[d] # i /\ fd[d] \in Inode
    <3>1. disturbed' \in [Client -> BOOLEAN]
      BY <1>0 DEF Disturb
    <3>2. disturbed'[d] = disturbed[d]
      BY <2>1, <2>3, <3>1 DEF TypeOK
    <3>3. content'[fd[d]] = content[fd[d]]
      BY <1>0, <2>3 DEF TypeOK
    <3> QED  BY <1>0, <3>2, <3>3, TransferKept
  <2>4. CASE fd[d] \notin Inode
    <3>1. pc'[d] \notin Transferring /\ result'[d] = "none"
      BY <1>0, <2>4 DEF Agreed
    <3> QED  BY <3>1, NoTransfer
  <2> QED  BY <2>2, <2>3, <2>4
<1>1. CASE Stor(c)
  <2>1. PICK p \in Path, i \in Inode :
          /\ fd' = [fd EXCEPT ![c] = i]
          /\ content' = [content EXCEPT
                           ![i] = IF name[p] = i /\ rest[c] > 0 THEN content[i] ELSE << >>]
          /\ disturbed' = Disturb(c, i)
    BY <1>1, TypeParts, StorFile
  <2>2. pc'[d] = pc[d] /\ fd'[d] = fd[d] /\ UNCHANGED << moved, want, result >>
    BY <1>1, <2>1 DEF Stor, Command, Goto, TypeOK
  <2> QED  BY <1>0, <2>1, <2>2
<1>2. CASE StorBlock(c)
  <2>1. /\ moved'[d] = moved[d] /\ UNCHANGED << pc, fd, want, result >>
        /\ disturbed' = Disturb(c, fd[c])
        /\ content' = [content EXCEPT ![fd[c]] = Written(content[fd[c]], Pos(c), c)]
    BY <1>2 DEF StorBlock, TypeOK
  <2>2. fd[c] \in Inode
    BY <1>2 DEF StorBlock, Agreed, Transferring
  <2> QED  BY <1>0, <2>1, <2>2
<1>3. CASE LoopTest(c) \/ EndOfCommand(c) \/ RetrBlock(c) \/ RetrEnds(c) \/ RetrFails(c)
  <2>1. /\ pc'[d] = pc[d] /\ result'[d] = result[d] /\ want'[d] = want[d]
        /\ moved'[d] = moved[d] /\ fd'[d] = fd[d] /\ disturbed'[d] = disturbed[d]
        /\ content' = content
    BY <1>3 DEF LoopTest, EndOfCommand, RetrBlock, RetrEnds, RetrFails, Command, Goto,
                Forget, At, files, transfer, TypeOK
  <2> QED  BY <2>1, TransferKept
<1>4. CASE Close(c) \/ UncountStore(c) \/ Accept(c) \/ Hangup(c) \/ NotLoggedIn(c)
  <2>1. /\ pc'[d] = pc[d] /\ result'[d] = result[d] /\ want'[d] = want[d]
        /\ moved'[d] = moved[d] /\ fd'[d] = fd[d] /\ disturbed'[d] = disturbed[d]
        /\ content' = content
    BY <1>4 DEF Close, UncountStore, Accept, Hangup, NotLoggedIn, Command, Goto, Forget, At,
                files, transfer, TypeOK
  <2> QED  BY <2>1, TransferKept
<1>5. CASE Pass(c) \/ Quit(c) \/ Other(c) \/ PasvAccept(c) \/ StorEnds(c)
  <2>1. /\ pc'[d] = pc[d] /\ result'[d] = result[d] /\ want'[d] = want[d]
        /\ moved'[d] = moved[d] /\ fd'[d] = fd[d] /\ disturbed'[d] = disturbed[d]
        /\ content' = content
    BY <1>5 DEF Pass, Quit, Other, PasvAccept, StorEnds, Command, Goto, Forget, At, files,
                transfer, TypeOK
  <2> QED  BY <2>1, TransferKept
<1>6. CASE Type(c) \/ Rest(c) \/ Pasv(c) \/ Port(c) \/ Exitapp(c)
  <2>1. /\ pc'[d] = pc[d] /\ result'[d] = result[d] /\ want'[d] = want[d]
        /\ moved'[d] = moved[d] /\ fd'[d] = fd[d] /\ disturbed'[d] = disturbed[d]
        /\ content' = content
    BY <1>6 DEF Type, Rest, Pasv, Port, Exitapp, Command, Goto, Forget, At, files, transfer,
                TypeOK
  <2> QED  BY <2>1, TransferKept
<1>7. CASE Dele(c) \/ Rnfr(c) \/ Rnto(c) \/ Retr(c)
  <2>1. /\ pc'[d] = pc[d] /\ result'[d] = result[d] /\ want'[d] = want[d]
        /\ moved'[d] = moved[d] /\ fd'[d] = fd[d] /\ disturbed'[d] = disturbed[d]
        /\ content' = content
    BY <1>7 DEF Dele, Rnfr, Rnto, Retr, Command, Goto, Forget, At, files, transfer, TypeOK
  <2> QED  BY <2>1, TransferKept
<1> QED  BY <1>1, <1>2, <1>3, <1>4, <1>5, <1>6, <1>7 DEF Session, Asked

\* Its own transfer.
LEMMA OwnTransfer ==
  ASSUME TypeOK, NEW c \in Client, Agreed(c), Agreed(c)', Session(c) \/ Asked(c),
         Uploaded(c), Downloaded(c)
  PROVE  Uploaded(c)' /\ Downloaded(c)'
<1>0. /\ rest[c] \in Int /\ want[c] \in Nat /\ moved[c] \in Seq(Block) /\ c \in Block
      /\ pc[c] \in Transferring => fd[c] \in Inode /\ content[fd[c]] \in Seq(Block)
  BY Bounds DEF TypeOK, Agreed, Block
<1>1. CASE Stor(c)
  <2>1. PICK p \in Path, i \in Inode :
          /\ fd' = [fd EXCEPT ![c] = i]
          /\ content' = [content EXCEPT
                           ![i] = IF name[p] = i /\ rest[c] > 0 THEN content[i] ELSE << >>]
    BY <1>1, TypeParts, StorFile
  <2>2. /\ pc'[c] = "stor" /\ result'[c] = "none" /\ moved'[c] = << >>
        /\ want'[c] = want[c] /\ (Resumable(c) => want[c] = rest[c])
    BY <1>1 DEF Stor, Command, Goto, Agreed, Transferring, TypeOK
  <2>3. Placed(c)'
    BY <2>2 DEF Placed
  <2>4. Resumable(c) /\ want[c] = 0 => content'[fd'[c]] = << >>
    BY <1>0, <2>1, <2>2 DEF TypeOK
  <2> QED  BY <2>2, <2>3, <2>4 DEF Uploaded, Downloaded, Resumable
<1>2. CASE StorBlock(c)
  <2> DEFINE s == content[fd[c]]
             n == want[c] + Len(moved[c])
  <2>0. CASE ~Resumable(c)
    BY <1>2, <2>0 DEF StorBlock, Resumable, Uploaded, Downloaded
  <2> SUFFICES ASSUME Resumable(c)
               PROVE  Uploaded(c)' /\ Downloaded(c)'
    BY <2>0
  <2>1. /\ pc[c] = "stor" /\ result[c] = "none" /\ want[c] = rest[c] /\ Pos(c) = n
        /\ s \in Seq(Block) /\ n \in Nat /\ fd[c] \in Inode
    BY <1>0, <1>2 DEF StorBlock, Agreed, Transferring, Pos, From
  <2>2. /\ moved'[c] = Append(moved[c], c) /\ content'[fd[c]] = Written(s, n, c)
        /\ disturbed'[c] <=> disturbed[c]
        /\ UNCHANGED << pc, fd, want, result >>
    BY <1>2, <2>1 DEF StorBlock, Disturb, TypeOK
  <2>3. CASE disturbed[c]
    BY <2>2, <2>3 DEF Uploaded, Downloaded
  <2>4. CASE ~disturbed[c]
    <3> DEFINE t == content'[fd[c]]
               m == moved'[c]
               l == Len(moved[c])
    <3>1. Placed(c) /\ (want[c] = 0 => Len(s) = l)
      BY <2>1, <2>4 DEF Uploaded
    <3>2. /\ t \in Seq(Block) /\ t[n + 1] = c
          /\ Len(t) = IF n < Len(s) THEN Len(s) ELSE n + 1
          /\ \A k \in 1 .. Len(s) : k # n + 1 => t[k] = s[k]
      <4>1. t = Written(s, n, c)
        BY <2>2
      <4> HIDE DEF t, s, n
      <4> QED  BY <2>1, <4>1, WrittenFacts
    <3>3. /\ Len(m) = l + 1 /\ m[l + 1] = c
          /\ \A k \in 1 .. l : m[k] = moved[c][k]
      BY <1>0, <2>2
    <3>4. l \in Nat /\ Len(s) \in Nat /\ n = want[c] + l
      BY <1>0, <2>1
    <3>5. \A k \in 1 .. l : n <= Len(s) /\ moved[c][k] = s[want[c] + k]
      <4>1. moved[c] # << >> => n <= Len(s)
        BY <3>1 DEF Placed
      <4>2. \A k \in 1 .. l : moved[c][k] = s[want[c] + k]
        BY <3>1 DEF Placed
      <4>3. l > 0 => moved[c] # << >>
        BY <1>0
      <4> HIDE DEF s, n
      <4> QED  BY <3>4, <4>1, <4>2, <4>3
    <3> HIDE DEF m, t, s, n, l
    <3>6. want[c] + Len(m) <= Len(t) /\ (want[c] = 0 => Len(t) = Len(m))
      BY <1>0, <3>1, <3>2, <3>3, <3>4
    <3>7. \A k \in 1 .. Len(m) : m[k] = t[want[c] + k]
      <4>1. ASSUME NEW k \in 1 .. l
            PROVE  m[k] = t[want[c] + k]
        <5>1. want[c] + k \in 1 .. Len(s) /\ want[c] + k # n + 1
          BY <1>0, <3>4, <3>5
        <5> QED  BY <3>2, <3>3, <3>5, <5>1
      <4>2. m[l + 1] = t[want[c] + (l + 1)]
        BY <1>0, <3>2, <3>3, <3>4
      <4> QED  BY <3>3, <3>4, <4>1, <4>2
    <3>8. Placed(c)'
      BY <2>2, <3>6, <3>7 DEF Placed, m, t
    <3> QED  BY <2>1, <2>2, <3>6, <3>8 DEF Uploaded, Downloaded, m, t
  <2> QED  BY <2>3, <2>4
<1>3. CASE StorEnds(c)
  <2>1. /\ pc[c] = "stor" /\ pc'[c] = "end" /\ result'[c] \in {"stored", "none"}
        /\ UNCHANGED << content, fd, moved, want, disturbed >>
    BY <1>3 DEF StorEnds, Goto, TypeOK
  <2>2. Placed(c)' <=> Placed(c)
    BY <2>1 DEF Placed
  <2> QED  BY <2>1, <2>2 DEF Uploaded, Downloaded, Resumable
<1>4. CASE Retr(c)
  <2>1. pc'[c] = "retr" /\ result'[c] = "none" /\ moved'[c] = << >>
    BY <1>4 DEF Retr, Command, Goto, Agreed, Transferring, TypeOK
  <2>2. Placed(c)'
    BY <2>1 DEF Placed
  <2> QED  BY <2>1, <2>2 DEF Uploaded, Downloaded
<1>5. CASE RetrBlock(c)
  <2> DEFINE s == content[fd[c]]
             n == want[c] + Len(moved[c])
  <2>0. CASE ~Resumable(c)
    BY <1>5, <2>0 DEF RetrBlock, Resumable, Uploaded, Downloaded
  <2> SUFFICES ASSUME Resumable(c)
               PROVE  Uploaded(c)' /\ Downloaded(c)'
    BY <2>0
  <2>1. /\ pc[c] = "retr" /\ result[c] = "none" /\ n < Len(s) /\ n \in Nat
        /\ s \in Seq(Block) /\ s[n + 1] \in Block
        /\ moved'[c] = Append(moved[c], s[n + 1])
        /\ UNCHANGED << pc, content, fd, want, result, disturbed >>
    BY <1>0, <1>5 DEF RetrBlock, Agreed, Transferring, Pos, From, TypeOK
  <2>2. CASE disturbed[c]
    BY <2>1, <2>2 DEF Uploaded, Downloaded
  <2>3. CASE ~disturbed[c]
    <3>1. Placed(c)
      BY <2>1, <2>3 DEF Downloaded
    <3> DEFINE m == moved'[c]
               l == Len(moved[c])
    <3>2. /\ Len(m) = l + 1 /\ m[l + 1] = s[n + 1]
          /\ \A k \in 1 .. l : m[k] = moved[c][k]
      BY <1>0, <2>1
    <3>3. \A k \in 1 .. l : moved[c][k] = s[want[c] + k]
      BY <3>1 DEF Placed
    <3>4. l \in Nat /\ Len(s) \in Nat /\ n = want[c] + l
      BY <1>0, <2>1
    <3> HIDE DEF m, s, n, l
    <3>5. want[c] + Len(m) <= Len(s)
      BY <1>0, <2>1, <3>2, <3>4
    <3>6. \A k \in 1 .. Len(m) : m[k] = s[want[c] + k]
      <4>1. m[l + 1] = s[want[c] + (l + 1)]
        <5>1. n + 1 = want[c] + (l + 1)
          BY <1>0, <3>4
        <5> QED  BY <3>2, <5>1
      <4> QED  BY <3>2, <3>3, <3>4, <4>1
    <3>7. Placed(c)'
      BY <2>1, <3>5, <3>6 DEF Placed, m, s
    <3> QED  BY <2>1, <3>7 DEF Uploaded, Downloaded
  <2> QED  BY <2>2, <2>3
<1>6. CASE RetrEnds(c)
  <2>0. CASE ~Resumable(c)
    BY <1>6, <2>0 DEF RetrEnds, Resumable, Uploaded, Downloaded
  <2> SUFFICES ASSUME Resumable(c)
               PROVE  Uploaded(c)' /\ Downloaded(c)'
    BY <2>0
  <2>1. /\ pc[c] = "retr" /\ result'[c] = "sent" /\ pc'[c] = "end"
        /\ want[c] + Len(moved[c]) >= Len(content[fd[c]])
        /\ UNCHANGED << content, fd, moved, want, disturbed >>
    BY <1>0, <1>6 DEF RetrEnds, Goto, Agreed, Transferring, Pos, From, TypeOK
  <2>2. Placed(c)' <=> Placed(c)
    BY <2>1 DEF Placed
  <2> QED  BY <2>1, <2>2 DEF Uploaded, Downloaded, Resumable
<1>7. CASE RetrFails(c)
  <2>1. disturbed'[c]
    BY <1>7 DEF RetrFails, TypeOK
  <2> QED  BY <2>1 DEF Uploaded, Downloaded
<1>8. CASE LoopTest(c) \/ EndOfCommand(c) \/ Close(c) \/ UncountStore(c)
  <2>1. pc'[c] \notin Transferring /\ result'[c] = "none"
    BY <1>8 DEF LoopTest, EndOfCommand, Close, UncountStore, Command, Goto, Forget, At,
                files, transfer, Agreed, Transferring, TypeOK
  <2> QED  BY <2>1, NoTransfer
<1>9. CASE Hangup(c) \/ NotLoggedIn(c) \/ Pass(c) \/ Quit(c) \/ Other(c) \/ PasvAccept(c)
  <2>1. pc'[c] \notin Transferring /\ result'[c] = "none"
    BY <1>9 DEF Hangup, NotLoggedIn, Pass, Quit, Other, PasvAccept, Command, Goto, Forget,
                At, files, transfer, Agreed, Transferring, TypeOK
  <2> QED  BY <2>1, NoTransfer
<1>10. CASE Type(c) \/ Rest(c) \/ Pasv(c) \/ Port(c) \/ Exitapp(c)
  <2>1. pc'[c] \notin Transferring /\ result'[c] = "none"
    BY <1>10 DEF Type, Rest, Pasv, Port, Exitapp, Command, Goto, Forget, At, files,
                transfer, Agreed, Transferring, TypeOK
  <2> QED  BY <2>1, NoTransfer
<1>11. CASE Dele(c) \/ Rnfr(c) \/ Rnto(c)
  <2>1. pc'[c] \notin Transferring /\ result'[c] = "none"
    BY <1>11 DEF Dele, Rnfr, Rnto, Command, Goto, Forget, At, files, transfer, Agreed,
                Transferring, TypeOK
  <2> QED  BY <2>1, NoTransfer
<1>12. CASE Accept(c)
  <2>1. UNCHANGED << pc, content, fd, moved, want, result, disturbed >>
    BY <1>12 DEF Accept, At, files, transfer
  <2> QED  BY <2>1, TransferKept
<1> QED  BY <1>1, <1>2, <1>3, <1>4, <1>5, <1>6, <1>7, <1>8, <1>9, <1>10, <1>11, <1>12
         DEF Session, Asked

\* The accepting thread and the main loop.
LEMMA ServerTransfer ==
  ASSUME TypeOK, AcceptedIsNew, NEW d \in Client, Agreed(d), Server \/ Shutdown,
         Uploaded(d), Downloaded(d)
  PROVE  Uploaded(d)' /\ Downloaded(d)'
<1>1. CASE Listen \/ ServerTest \/ AcceptFails \/ CountStore \/ Shutdown
  <2>1. UNCHANGED << pc, content, fd, moved, want, result, disturbed >>
    BY <1>1 DEF Listen, ServerTest, AcceptFails, CountStore, Shutdown, At, files, transfer
  <2> QED  BY <2>1, TransferKept
<1>2. CASE CreateThread \/ CreateFails
  <2>1. /\ accepted \in Client /\ pc[accepted] = "none"
        /\ pc' \in { [pc EXCEPT ![accepted] = "test"], [pc EXCEPT ![accepted] = "over"] }
        /\ UNCHANGED << content, fd, moved, want, result, disturbed >>
    BY <1>2 DEF CreateThread, CreateFails, At, Goto, AcceptedIsNew, files, transfer
  <2>2. CASE d = accepted
    <3>1. pc'[d] \notin Transferring /\ result'[d] = "none"
      BY <2>1, <2>2 DEF Agreed, Transferring, TypeOK
    <3> QED  BY <3>1, NoTransfer
  <2>3. CASE d # accepted
    <3>1. pc'[d] = pc[d]
      BY <2>1, <2>3 DEF TypeOK
    <3> QED  BY <2>1, <3>1, TransferKept
  <2> QED  BY <2>2, <2>3
<1> QED  BY <1>1, <1>2 DEF Server

-----------------------------------------------------------------------------
\* There are no more ghosts than clients.
LEMMA GhostsBounded == CountInv => ghosts \in 0 .. Cardinality(Client)
<1> SUFFICES ASSUME CountInv
             PROVE  ghosts \in 0 .. Cardinality(Client)
  OBVIOUS
<1> QED  BY Room DEF CountInv, CountTypes, GhostsAreOver

LEMMA FileInvInit == Init => FileInv
<1> SUFFICES ASSUME Init
             PROVE  FileInv
  OBVIOUS
<1>1. CountInv /\ ghosts \in 0 .. Cardinality(Client)
  BY CountInit, GhostsBounded
<1>2. PlaceTypes /\ SessionTypes /\ CounterTypes
  <2>1. PlaceTypes
    <3>1. pc \in [Client -> {"none", "over"} \cup Inside]
      BY DEF Init, Everybody
    <3>2. /\ exitapp = 0 /\ mm_shutdown \in BOOLEAN /\ server = "listen" /\ accepted = NoClient
          /\ commands = 0
      BY DEF Init
    <3> QED  BY <3>1, <3>2, Bounds DEF PlaceTypes
  <2>2. SessionTypes
    BY Bounds DEF Init, Everybody, SessionTypes
  <2>3. CounterTypes
    <3>1. ftp_clients = 0 /\ lost \in BOOLEAN /\ value = [t \in Client \cup {"server"} |-> 0]
      BY DEF Init
    <3> QED  BY <3>1, Bounds DEF CounterTypes
  <2> QED  BY <2>1, <2>2, <2>3
<1>3. FileTypes
  <2>1. content \in [Inode -> Seq(Block)]
    <3>1. << Old >> \in Seq(Block) /\ << >> \in Seq(Block)
      BY DEF Block
    <3> QED  BY <3>1 DEF Init
  <2> QED  BY <2>1, Bounds, FtpAssumption DEF FtpAssumption, Init, Everybody, FileTypes
<1>4. TypeOK
  BY <1>1, <1>2, <1>3, TypeParts
<1>5. \A c \in Client : Agreed(c) /\ Uploaded(c) /\ Downloaded(c)
  BY DEF Init, Everybody, Agreed, Transferring, Uploaded, Downloaded
<1> QED  BY <1>1, <1>4, <1>5 DEF FileInv

\* Every step keeps the types, and every transfer that nobody disturbs.
LEMMA FileInvStep == FileInv /\ [Next]_vars => FileInv'
<1>1. CountInv' => (ghosts \in 0 .. Cardinality(Client))'
  BY GhostsBounded, PTL
<1> SUFFICES ASSUME FileInv, [Next]_vars
             PROVE  FileInv'
  OBVIOUS
<1>2. CountInv' /\ ghosts' \in 0 .. Cardinality(Client)
  BY <1>1, CountStep DEF FileInv
<1>3. ASSUME NEW c \in Client, Server \/ Shutdown \/ Session(c) \/ Asked(c)
      PROVE  TypeOK' /\ \A d \in Client : Agreed(d)'
  <2>1. TypeOK /\ Agreed(c) /\ AcceptedIsNew
    BY DEF FileInv, CountInv
  <2>2. PlaceTypes /\ SessionTypes /\ CounterTypes /\ FileTypes
    BY <2>1, TypeParts
  <2>3. PlaceTypes' /\ SessionTypes' /\ CounterTypes' /\ FileTypes'
    BY <1>3, <2>1, <2>2, PlaceStep, SessionStepTypes, CounterStep, FileStep
  <2>4. TypeOK'
    BY <1>2, <2>3 DEF TypeOK, PlaceTypes, SessionTypes, CounterTypes, FileTypes, Block, Inside
  <2>5. \A d \in Client : Agreed(d)'
    BY <1>3, <2>1, AgreedStep DEF FileInv
  <2> QED  BY <2>4, <2>5
<1>4. ASSUME NEW c \in Client, Session(c) \/ Asked(c)
      PROVE  FileInv'
  <2>1. TypeOK' /\ \A d \in Client : Agreed(d)'
    BY <1>3, <1>4
  <2>2. ASSUME NEW d \in Client
        PROVE  Uploaded(d)' /\ Downloaded(d)'
    <3>1. CASE d = c
      BY <1>4, <2>1, <3>1, OwnTransfer DEF FileInv
    <3>2. CASE d # c
      BY <1>4, <3>2, OtherTransfer DEF FileInv
    <3> QED  BY <3>1, <3>2
  <2> QED  BY <1>2, <2>1, <2>2 DEF FileInv
<1>5. CASE Server \/ Shutdown
  <2>1. \A d \in Client : Uploaded(d)' /\ Downloaded(d)'
    BY <1>5, ServerTransfer DEF FileInv, CountInv
  <2>2. CASE Client # {}
    <3>1. PICK c \in Client : TRUE
      BY <2>2
    <3>2. TypeOK' /\ \A d \in Client : Agreed(d)'
      BY <1>3, <1>5, <3>1
    <3> QED  BY <1>2, <2>1, <3>2 DEF FileInv
  <2>3. CASE Client = {}
    <3>1. Listen \/ ServerTest \/ AcceptFails \/ Shutdown
      BY <1>5, <2>3 DEF FileInv, CountInv, AcceptedIsNew, Server, CountStore, CreateThread,
                        CreateFails, At
    <3>2. TypeOK'
      BY <3>1 DEF FileInv, Listen, ServerTest, AcceptFails, Shutdown, At, system, session,
                  files, transfer, count, TypeOK
    <3> QED  BY <1>2, <2>3, <3>2 DEF FileInv
  <2> QED  BY <2>2, <2>3
<1>6. CASE UNCHANGED vars
  <2>1. TypeOK'
    BY <1>6 DEF FileInv, vars, system, session, files, transfer, count, TypeOK
  <2>2. \A c \in Client : Agreed(c)'
    BY <1>6 DEF FileInv, vars, session, files, transfer, Agreed, Resumable
  <2>3. \A c \in Client : Uploaded(c)' /\ Downloaded(c)'
    BY <1>6, TransferKept DEF FileInv, vars, files, transfer
  <2> QED  BY <1>2, <2>1, <2>2, <2>3 DEF FileInv
<1> QED  BY <1>4, <1>5, <1>6 DEF Next

\* A transfer that is acknowledged and was not disturbed is whole.
LEMMA AcknowledgedWhole == FileInv => TransfersWhole
<1> SUFFICES ASSUME FileInv
             PROVE  TransfersWhole
  OBVIOUS
<1>1. ASSUME NEW c \in Client, result[c] # "none"
      PROVE  content[fd[c]] \in Seq(Block) /\ moved[c] \in Seq(Block) /\ want[c] \in Nat
  BY <1>1, Bounds DEF FileInv, Agreed, TypeOK, Block
<1>2. ASSUME NEW c \in Client, result[c] # "none", Placed(c)
      PROVE  SubSeq(content[fd[c]], want[c] + 1, want[c] + Len(moved[c])) = moved[c]
  <2>1. /\ moved[c] # << >> => want[c] + Len(moved[c]) <= Len(content[fd[c]])
        /\ \A k \in 1 .. Len(moved[c]) : moved[c][k] = content[fd[c]][want[c] + k]
    BY <1>2 DEF Placed
  <2> QED  BY <1>1, <1>2, <2>1, PlacedIsSubSeq
<1>3. StoredWhole
  BY <1>2 DEF FileInv, Uploaded, StoredWhole
<1>4. ASSUME NEW c \in Client, pc[c] = "end", result[c] = "sent", ~disturbed[c], Resumable(c)
      PROVE  moved[c] = SubSeq(content[fd[c]], want[c] + 1, Len(content[fd[c]]))
  <2>1. Placed(c) /\ want[c] + Len(moved[c]) >= Len(content[fd[c]])
    BY <1>4 DEF FileInv, Downloaded
  <2>2. CASE moved[c] = << >>
    <3>1. Len(content[fd[c]]) < want[c] + 1
      BY <1>1, <1>4, <2>1, <2>2
    <3> QED  BY <1>1, <1>4, <2>2, <3>1, SubSeqEmpty
  <2>3. CASE moved[c] # << >>
    <3>1. want[c] + Len(moved[c]) = Len(content[fd[c]])
      BY <1>1, <1>4, <2>1, <2>3 DEF Placed
    <3> QED  BY <1>2, <1>4, <2>1, <3>1
  <2> QED  BY <2>2, <2>3
<1>5. DeliveredWhole
  BY <1>4 DEF DeliveredWhole
<1> QED  BY <1>3, <1>5 DEF TransfersWhole

-----------------------------------------------------------------------------
\* The state of the server is of its type: the restart points, the files and the counter,
\* which is stored modulo its size.
THEOREM FtpTypeCorrect == Spec => []TypeOK
<1>1. FileInv => TypeOK
  BY DEF FileInv
<1> QED  BY <1>1, FileInvInit, FileInvStep, PTL DEF Spec

\* However many clients there are, and whatever they rename, delete or resume: what was
\* acknowledged with 226 is in the file where the client wanted it, or was got whole,
\* unless another session wrote into the file meanwhile, a read failed, or the restart
\* point is larger than an int.
THEOREM TransfersAlwaysWhole == Spec => []TransfersWhole
  BY AcknowledgedWhole, FileInvInit, FileInvStep, PTL DEF Spec

=============================================================================
