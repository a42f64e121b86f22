------------------------------ MODULE AviFile ------------------------------
(***************************************************************************)
(* How the player reads the headers and the index of a film (avidmux.c,    *)
(* aviDmuxOpen and what it calls; video.c, openAvi).  A film is the        *)
(* sequence of its chunks, each with the place `at` of its fourcc and its  *)
(* dwSize, and the length of the file, which may be cut short.  The parser *)
(* goes from chunk to chunk by their sizes; a seek beyond the end of the   *)
(* file fails without being noticed, and a place where no chunk begins is  *)
(* read as one all the same.  Reads follow the contract of FileReader.     *)
(*                                                                         *)
(* A chunk has the fields of its id: stream, field (the bytes of the first *)
(* field, or 0) of "data"; lists (the chunks listed, in order) of "idx1"   *)
(* and "ix", absolute of "idx1", base and sub (TRUE: two fields) of "ix";  *)
(* indexes (the "ix" chunks) and super (the right type) of "indx"; frames, *)
(* streams of "avih"; frames of "dmlh"; type of "strh"; format of "strf";  *)
(* ends (where its contents end) of "movi".                                *)
(***************************************************************************)
EXTENDS Integers, Sequences, FiniteSetsExt, SequencesExt

CONSTANTS Films, MaxStreams, MaxOpens

VARIABLES film, pos, phase, opens,
          info   \* what the parser knows of the film (SAviDmuxCtlInfo from fileInfo on)
avi == << film, pos, phase, info, opens >>

StreamNo == 0..(MaxStreams - 1)
NULL == << 0 >>          \* no super index was read
None == MaxStreams       \* no stream was found

Chunk(i) == film.chunks[i]
Even(n) == n + (n % 2)
Readable(p, n) == p + n <= film.length
\* aviDmuxSkip: dwSize bytes, padded, unless that is beyond the end of the file.
Skip_Unpadded(p, n) == IF n >= 0 /\ Readable(p, n) THEN p + n ELSE p
Skip(p, n) == IF n >= 0 /\ Readable(p, Even(n)) THEN p + Even(n) ELSE p

\* aviDmuxOpen clears all that is known of the last film.
Cleared == [csi |-> -1, dwTotalFrames |-> 0, dwStreams |-> 0, odmlTotalFrames |-> 0,
            odmlIndexValid |-> FALSE, validStreamNum |-> 0, streamOffset |-> 0, next |-> 0,
            streamInfo |-> [s \in StreamNo |-> [fccType |-> "none", wFormatTag |-> "none"]],
            superIndex |-> [s \in StreamNo |-> NULL], streamPosition |-> [s \in StreamNo |-> << >>],
            maxDataSize |-> [s \in StreamNo |-> 0], chosen |-> << None, None >>]

\* Before the first film is opened.
NoFilm == [riff |-> FALSE, chunks |-> << >>, length |-> 0]

Init == film = NoFilm /\ pos = 0 /\ phase = "closed" /\ info = Cleared /\ opens = 0

Refuse == phase' = "refused" /\ UNCHANGED << film, pos, info, opens >>
Same == UNCHANGED << film, phase, opens >>

\* aviDmuxReadRiffAviHeader.
Open == /\ phase = "closed" /\ opens < MaxOpens
        /\ film' \in Films /\ opens' = opens + 1 /\ info' = Cleared
        /\ IF film'.riff /\ 12 <= film'.length
             THEN pos' = 12 /\ phase' = "reading"
             ELSE pos' = 0 /\ phase' = "refused"

-----------------------------------------------------------------------------
(***************************************************************************)
(* One turn of the loop of aviDmuxReadRiffAviChunk per chunk.              *)
(***************************************************************************)
Goes == phase = "reading" /\ Readable(pos, 4)
Starts(id) == {i \in DOMAIN film.chunks : Goes /\ Chunk(i).at = pos /\ Chunk(i).id = id}

\* A list whose contents come next.
EnterList(id) == \E i \in Starts(id) :
                   IF ~Readable(pos, 12) THEN Refuse
                   ELSE /\ pos' = pos + 12 /\ Same
                        /\ info' = [info EXCEPT !.csi = @ + (IF id = "strl" THEN 1 ELSE 0)]

\* aviDmuxCheckOdmlIndex: the super indexes count when every stream has one and the frames of
\* the whole film are known.
CheckOdmlIndex_AnyStream(streams) == /\ info.odmlTotalFrames >= info.dwTotalFrames
                                     /\ \E s \in 0..(streams - 1) : info.superIndex[s] # NULL
CheckOdmlIndex(streams) == /\ info.odmlTotalFrames >= info.dwTotalFrames
                           /\ \A s \in 0..(streams - 1) : info.superIndex[s] # NULL

Movi == \E i \in Starts("movi") :
          IF ~Readable(pos, 12) THEN Refuse
          ELSE LET streams == IF info.csi >= MaxStreams THEN MaxStreams ELSE info.csi + 1
                   valid == CheckOdmlIndex(streams)
               IN  /\ info' = [info EXCEPT !.validStreamNum = streams, !.odmlIndexValid = valid,
                                           !.streamOffset = IF valid THEN @ ELSE pos + 8]
                   /\ pos' = Skip(pos + 12, Chunk(i).ends - pos - 12) /\ Same

\* A chunk of which n bytes are read: those that do not come end the parse; what the chunk has
\* more is skipped.
Reads(i, n) == Readable(pos, 8 + n) /\ pos' = Skip(pos + 8 + n, Chunk(i).size - n) /\ Same
ReadsNot(n) == ~Readable(pos, 8 + n) /\ Refuse

Avih == \E i \in Starts("avih") :
          \/ ReadsNot(56)
          \/ /\ Reads(i, 56)
             /\ info' = [info EXCEPT !.dwTotalFrames = Chunk(i).frames,
                                     !.dwStreams = Chunk(i).streams]

Dmlh == \E i \in Starts("dmlh") :
          \/ ReadsNot(4)
          \/ Reads(i, 4) /\ info' = [info EXCEPT !.odmlTotalFrames = Chunk(i).frames]

Strh == \E i \in Starts("strh") :
          \/ ReadsNot(56)
          \/ /\ Reads(i, 56)
             /\ info' = [info EXCEPT !.streamInfo[info.csi].fccType = Chunk(i).type]

\* aviDmuxReadStrfChunk compares the format with PCM before its bytes are swapped, and so reads
\* the two bytes of cbSize of every format, those of a chunk of 16 bytes too.
FormatBytes == [MPEG |-> 40, MP3 |-> 30, AC3 |-> 18, PCM |-> 18]
StrfBytes(type, format) == CASE type = "vids" -> 40
                             [] type = "auds" -> FormatBytes[format]
                             [] OTHER -> 0
Strf == \E i \in Starts("strf") :
          LET n == StrfBytes(info.streamInfo[info.csi].fccType, Chunk(i).format)
          IN  \/ ReadsNot(n)
              \/ /\ Reads(i, n)
                 /\ info' = [info EXCEPT !.streamInfo[info.csi].wFormatTag = Chunk(i).format]

\* aviDmuxReadSuperIndexChunk takes an index of indexes only.
Indx == \E i \in Starts("indx") :
          LET n == 24 + 16 * Len(Chunk(i).indexes)
          IN  \/ ReadsNot(n)
              \/ ~Chunk(i).super /\ Refuse
              \/ /\ Chunk(i).super /\ Reads(i, n)
                 /\ info' = [info EXCEPT !.superIndex[info.csi] = Chunk(i).indexes]

-----------------------------------------------------------------------------
(***************************************************************************)
(* The index of AVI 1.0.  dwChunkOffset is the place of a chunk, counted   *)
(* from the start of the file or from the fourcc of the movi list: the     *)
(* first entry tells which.  A ckid that begins with no number counts as   *)
(* stream 0 (strtoul).                                                     *)
(***************************************************************************)
NumberOf(c) == IF c.id = "data" THEN c.stream ELSE 0
MoviFcc == (CHOOSE c \in ToSet(film.chunks) : c.id = "movi").at + 8
dwChunkOffset(i, n) == Chunk(n).at - (IF Chunk(i).absolute THEN 0 ELSE MoviFcc)

\* The comparison is between unsigned numbers.
Offset_Strict(i, offset) == LET first == dwChunkOffset(i, Chunk(i).lists[1])
                            IN  IF first < 4 \/ offset < first - 4 THEN 0 ELSE offset
Offset(i, offset) == LET first == dwChunkOffset(i, Chunk(i).lists[1])
                     IN  IF first < 4 \/ offset <= first - 4 THEN 0 ELSE offset
Place(i, n) == [offset |-> dwChunkOffset(i, n) + Offset(i, info.streamOffset) + 8,
                size |-> Chunk(n).size]
PlacesOf(i, s) == LET own == SelectSeq(Chunk(i).lists, LAMBDA n : NumberOf(Chunk(n)) = s)
                  IN  [k \in DOMAIN own |-> Place(i, own[k])]
Largest(places, least) == Max({least} \cup {places[k].size : k \in DOMAIN places})

Idx1 == \E i \in Starts("idx1") :
          LET n == IF info.odmlIndexValid THEN 0 ELSE 16 * Len(Chunk(i).lists)
              filled == {s \in StreamNo : ~info.odmlIndexValid /\ s < info.validStreamNum}
          IN  \/ ReadsNot(n)
              \/ /\ Reads(i, n)
                 /\ info' = [info EXCEPT
                       !.streamPosition = [s \in StreamNo |-> IF s \in filled THEN PlacesOf(i, s)
                                                            ELSE @[s]],
                       !.maxDataSize = [s \in StreamNo |-> IF s \in filled
                                                         THEN Largest(PlacesOf(i, s), @[s])
                                                         ELSE @[s]]]

\* The loop ends at the next RIFF, at an invalid fourcc or at the end of the file; the film needs
\* the streams that its header promises.
LoopEnds == /\ phase' = IF info.validStreamNum = info.dwStreams THEN "indexing" ELSE "refused"
            /\ UNCHANGED << film, pos, info, opens >>
AtEnd == /\ phase = "reading" /\ (~Readable(pos, 4) \/ Starts("RIFF") # {})
         /\ LoopEnds

\* Any other chunk is skipped.
Others == {"JUNK", "data", "ix"}
SkipChunk == \E id \in Others : \E i \in Starts(id) :
               \/ ReadsNot(0)
               \/ Reads(i, 0) /\ UNCHANGED info

\* The bytes where no chunk begins: an invalid fourcc ends the loop, and another one is skipped
\* with whatever size follows it.
Astray == /\ Goes /\ \A i \in DOMAIN film.chunks : Chunk(i).at # pos
          /\ \/ LoopEnds
             \/ ReadsNot(0)
             \/ /\ Readable(pos, 8)
                /\ pos' \in {pos + 8} \cup {p \in {c.at : c \in ToSet(film.chunks)} : p > pos + 8
                                                                     /\ p <= film.length}
                /\ Same /\ UNCHANGED info

-----------------------------------------------------------------------------
(***************************************************************************)
(* The indexes of OpenDML, after the loop: those that the super index of a *)
(* stream lists, one stream per step (aviDmuxReadStdFieldIndex).  An entry *)
(* of an index of fields gives the place of either field.                  *)
(***************************************************************************)
EntryBytes(c) == IF c.sub THEN 12 ELSE 8
IndexReadable(i) == Readable(Chunk(i).at, 32 + EntryBytes(Chunk(i)) * Len(Chunk(i).lists))

Stored(i, n) == Chunk(n).at + 8 - Chunk(i).base
Fields_WithoutBase(i, n) == << [offset |-> Stored(i, n), size |-> Chunk(n).size] >>
Fields(i, n) == LET c == Chunk(n)
                    first == Chunk(i).base + Stored(i, n)
                IN  IF Chunk(i).sub
                      THEN << [offset |-> first, size |-> c.field],
                              [offset |-> first + c.field, size |-> c.size - c.field] >>
                      ELSE << [offset |-> first, size |-> c.size] >>
Indexed(i) == FlattenSeq([k \in DOMAIN Chunk(i).lists |-> Fields(i, Chunk(i).lists[k])])

ReadStdFieldIndex ==
    /\ phase = "indexing" /\ info.odmlIndexValid /\ info.next < info.validStreamNum
    /\ LET indexes == info.superIndex[info.next]
           places == FlattenSeq([k \in DOMAIN indexes |-> Indexed(indexes[k])])
       IN  IF \E i \in ToSet(indexes) : ~IndexReadable(i) THEN Refuse
           ELSE /\ info' = [info EXCEPT !.streamPosition[info.next] = places,
                                        !.maxDataSize[info.next] = Largest(places, @),
                                        !.next = @ + 1]
                /\ UNCHANGED pos /\ Same

(***************************************************************************)
(* openAvi: the first video stream, and the first audio stream of the      *)
(* first of three formats of which there is one; a stream without an index *)
(* is not given (aviDmuxGetStreamInfo), and nothing else is tried then.    *)
(***************************************************************************)
FindStream(fits) == Min({None} \cup {s \in 0..(info.validStreamNum - 1) : fits[s]})
Video == FindStream([s \in StreamNo |-> info.streamInfo[s].fccType = "vids"])
FindAudio(format) == FindStream([s \in StreamNo |-> /\ info.streamInfo[s].fccType = "auds"
                                                    /\ info.streamInfo[s].wFormatTag = format])
FirstAudio == LET found == SelectSeq(<< FindAudio("MP3"), FindAudio("MPEG"), FindAudio("AC3") >>,
                                     LAMBDA s : s # None)
              IN  IF found = << >> THEN None ELSE found[1]
Given(s) == IF s = None THEN FALSE ELSE info.streamPosition[s] # << >>

Choose == /\ phase = "indexing" /\ (info.odmlIndexValid => info.next = info.validStreamNum)
          /\ IF Given(Video) /\ Given(FirstAudio)
               THEN info' = [info EXCEPT !.chosen = << Video, FirstAudio >>] /\ phase' = "open"
               ELSE phase' = "refused" /\ UNCHANGED info
          /\ UNCHANGED << film, pos, opens >>

\* aviDmuxClose and aviDmuxClearIndexInfo.
Close == /\ phase \in {"open", "refused"}
         /\ phase' = "closed"
         /\ info' = [info EXCEPT
               !.superIndex = [s \in StreamNo |-> IF s < info.validStreamNum THEN NULL ELSE @[s]],
               !.streamPosition = [s \in StreamNo |-> IF s < info.validStreamNum THEN << >>
                                                    ELSE @[s]],
               !.validStreamNum = 0]
         /\ UNCHANGED << film, pos, opens >>

Next == \/ Open \/ Movi \/ Avih \/ Dmlh \/ Strh \/ Strf \/ Indx \/ Idx1 \/ SkipChunk
        \/ \E id \in {"hdrl", "strl", "odml", "rec "} : EnterList(id)
        \/ Astray \/ AtEnd \/ ReadStdFieldIndex \/ Choose \/ Close
Spec == Init /\ [][Next]_avi
-----------------------------------------------------------------------------
TypeOK == /\ pos \in 0..film.length
          /\ phase \in {"closed", "reading", "indexing", "open", "refused"}
          /\ info.csi \in (-1)..(MaxStreams - 1) /\ info.validStreamNum \in 0..MaxStreams
          /\ {info.dwTotalFrames, info.dwStreams, info.odmlTotalFrames, info.streamOffset,
              info.next} \subseteq Nat
          /\ info.odmlIndexValid \in BOOLEAN /\ opens \in 0..MaxOpens
          /\ info.streamPosition \in [StreamNo -> Seq([offset : Nat, size : Nat])]
          /\ info.maxDataSize \in [StreamNo -> Nat] /\ info.chosen \in (0..None) \X (0..None)

\* What the film really holds of a stream: its data, in order, up to the next RIFF unless the
\* film has an OpenDML index, and in fields where that index says so.
Reach == LET riffs == {c.at : c \in {d \in ToSet(film.chunks) : d.id = "RIFF"}}
         IN  IF info.odmlIndexValid \/ riffs = {} THEN film.whole ELSE Min(riffs)
ByField(s) == info.odmlIndexValid /\ \E i \in ToSet(info.superIndex[s]) : Chunk(i).sub
Extents(s) ==
    FlattenSeq([k \in DOMAIN film.chunks |->
        LET c == Chunk(k)
        IN  IF c.id # "data" \/ c.at >= Reach THEN << >>
            ELSE IF c.stream # s THEN << >>
            ELSE IF ByField(s) THEN << [offset |-> c.at + 8, size |-> c.field],
                                       [offset |-> c.at + 8 + c.field, size |-> c.size - c.field] >>
            ELSE << [offset |-> c.at + 8, size |-> c.size] >>])

\* The index of AVI 1.0 that lists more than the data of streams, and the one counted from the
\* movi list whose first chunk is as far from it as it is from the start of the file: the code
\* mistakes both.
Mistaken == \E c \in ToSet(film.chunks) :
              /\ c.id = "idx1" /\ ~info.odmlIndexValid
              /\ \/ \E n \in ToSet(c.lists) : Chunk(n).id # "data"
                 \/ ~c.absolute /\ Chunk(c.lists[1]).at - MoviFcc - 4 >= MoviFcc

\* A film that opens, whole or cut short, with either kind of index or with both, plays the
\* chunks of its own streams: the places of the chosen streams are those of all their data in
\* order, and the largest of them is known.
IndexRight == phase = "open" /\ ~Mistaken =>
    \A s \in ToSet(info.chosen) :
        /\ info.streamPosition[s] = Extents(s)
        /\ info.maxDataSize[s] = Largest(Extents(s), 0)
        /\ info.streamInfo[s].fccType = (IF s = info.chosen[1] THEN "vids" ELSE "auds")

\* A film that is not cut short and whose index the code takes is not refused.
Opens == phase = "refused" /\ film.length = film.whole => ~film.plays
=============================================================================
