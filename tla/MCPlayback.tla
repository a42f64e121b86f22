----------------------------- MODULE MCPlayback -----------------------------
(***************************************************************************)
(* Four questions about one player, which share no state here: part        *)
(* "threads" is the demultiplexer with the decoders, on a video stream of  *)
(* two chunks and an empty one and an audio stream with a false start and  *)
(* two frames, of which the first chunk cuts one; part "control" is the    *)
(* thread that opens, starts, joins and closes the modules; part "film" is *)
(* the parser of the file's headers and indexes, and part "reader" the     *)
(* buffered reader under it.                                               *)
(***************************************************************************)
EXTENDS Demux, TLC

CONSTANTS MaxPlays, MaxStreams, MaxOpens, FileSize, BufSize, MaxBytes

ASSUME PlaysAssumption == MaxPlays \in Nat

VARIABLES part, player_open, plays, phase, step, ret, player_exec, commonError, runs, held,
          repeats, fault, unjoined,
          film, filmPos, filmPhase, opens, info,
          filePos, fd, block, pBuffer, poolBytes, bEof, bUnbufferedMode, delivered, asked, ok,
          sought

player == << player_open, plays, phase, step, ret, player_exec, commonError, runs, held,
             repeats, fault, unjoined >>

parser_file == << film, filmPos, filmPhase, opens, info >>
reader == << filePos, fd, block, pBuffer, poolBytes, bEof, bUnbufferedMode, delivered, asked, ok,
             sought >>

Control == INSTANCE PlayerControl WITH is_bg_video <- player_open, mode_exec <- player_exec
Samples == INSTANCE FilmSamples
Films == Samples!Films
Avi == INSTANCE AviFile WITH pos <- filmPos, phase <- filmPhase
Reader == INSTANCE FileReader

MCData == (1 :> << 0, 0, 0 >>) @@ (2 :> << 1, 2, 0,  1, 2, 5, 0, 0,  1, 2, 5, 0, 0 >>)

At(offset, first, size) == [offset |-> offset, first |-> first, size |-> size]
MCIndex == (1 :> << At(10, 1, 1), At(30, 2, 0), At(40, 2, 2) >>) @@
           (2 :> << At(20, 1, 6), At(35, 7, 7) >>)
MCAuNum == (1 :> 1) @@ (2 :> 1)

Parts == {"threads", "control", "film", "reader"}
MCInit == part \in Parts /\ Init /\ Control!Init /\ Avi!Init /\ Reader!Init
Threads == part = "threads" /\ Next /\ UNCHANGED << part, player, parser_file, reader >>
Controls == part = "control" /\ Control!Next /\ UNCHANGED << part, vars, parser_file, reader >>
Parses == part = "film" /\ Avi!Next /\ UNCHANGED << part, vars, player, reader >>
ReadsFile == part = "reader" /\ Reader!Next /\ UNCHANGED << part, vars, player, parser_file >>
MCNext == Threads \/ Controls \/ Parses \/ ReadsFile
MCSpec == MCInit /\ [][MCNext]_<< part, vars, player, parser_file, reader >>

(* Each invariant about a part has its type invariant as the first conjunct. *)

\* What reaches a decoder is its stream (Demux): its units in order and each complete, never
\* changed while the decoder holds it, and all of them when the film ends without a fault.
UnitsWhole == part = "threads" => TypeOK /\ InOrder /\ BufferUntouched /\ NothingMissing

\* The parser finds the film (AviFile): the places it gives are those of the chosen streams'
\* data, and no sound film is refused; and its reader gives the bytes at the place it was asked
\* to seek (FileReader).
FilmFound == /\ part = "film" => Avi!TypeOK /\ Avi!IndexRight /\ Avi!Opens
             /\ part = "reader" => Reader!TypeOK /\ Reader!ReadsAsked

\* No module is closed under a thread that uses it, and everything is given back at the end of a
\* player whose modules could be opened and closed, however it ends (PlayerControl).
ResourcesSound == part = "control" => Control!TypeOK /\ Control!NoUseAfterClose /\ Control!AllReturned
=============================================================================
