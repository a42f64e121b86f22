---------------------------- MODULE FilmSamples ----------------------------
(***************************************************************************)
(* The films that AviFile is checked with: both kinds of index, alone and  *)
(* together, sound tracks, records, headers it refuses, and each of them   *)
(* cut short.                                                              *)
(***************************************************************************)
EXTENDS Integers, Sequences, FiniteSetsExt, SequencesExt, TLC

\* The chunks of the films, laid out one behind the other.
IsList(id) == id \in {"RIFF", "hdrl", "strl", "odml", "rec ", "movi"}
Bytes(c) == IF IsList(c.id) THEN 12 ELSE 8 + c.size + (c.size % 2)
Laid(cs) == FoldLeft(LAMBDA done, c : Append(done, ("at" :> (IF done = << >> THEN 12
                         ELSE done[Len(done)].at + Bytes(done[Len(done)]))) @@ c), << >>, cs)
List(id) == [id |-> id, size |-> 0]
Leaf(id, size) == [id |-> id, size |-> size]
Header(frames, streams) == [frames |-> frames, streams |-> streams] @@ Leaf("avih", 56)
Dml(frames) == [frames |-> frames] @@ Leaf("dmlh", 6)
Strl(type, format, size) == << List("strl"), [type |-> type] @@ Leaf("strh", 56),
                               [format |-> format] @@ Leaf("strf", size) >>
Super(indexes) == << [indexes |-> indexes, super |-> TRUE] @@
                         Leaf("indx", 24 + 16 * Len(indexes) + 16) >>
MP3 == Strl("auds", "MP3", 30)
DivX == Strl("vids", "DIVX", 40)
DataChunk(stream, size) == [stream |-> stream, field |-> 0] @@ Leaf("data", size)
Fielded(stream, size, field) == [stream |-> stream, field |-> field] @@ Leaf("data", size)
Ix(lists, sub) == << [lists |-> lists, sub |-> sub] @@
                         Leaf("ix", 24 + (IF sub THEN 12 ELSE 8) * Len(lists)) >>
Idx(lists, absolute) == << [lists |-> lists, absolute |-> absolute] @@
                               Leaf("idx1", 16 * Len(lists)) >>
MoviList(n) == << List("movi") @@ [last |-> n] >>

\* The film of these chunks: the movi lists end before the chunk they name, and the indexes of
\* OpenDML count from the start of the file for the first RIFF and from the second after that.
FilmOf(cs, plays) ==
    LET laid == Laid(cs)
        end(n) == IF n > Len(laid) THEN laid[Len(laid)].at + Bytes(laid[Len(laid)]) ELSE laid[n].at
        base(i) == LET riffs == {j \in 1..i : laid[j].id = "RIFF"}
                   IN  IF riffs = {} THEN 0 ELSE laid[Max(riffs)].at
    IN  [riff |-> TRUE, plays |-> plays, whole |-> end(Len(laid) + 1), length |-> end(Len(laid) + 1),
         chunks |-> [i \in DOMAIN laid |->
            CASE laid[i].id = "movi" -> ("ends" :> end(laid[i].last)) @@ laid[i]
              [] laid[i].id = "ix" -> ("base" :> base(i)) @@ laid[i]
              [] OTHER -> laid[i]]]


Heads(frames, streams) == << List("hdrl"), Header(frames, streams) >>
Chunks == << DataChunk(0, 7), DataChunk(1, 4), DataChunk(0, 3), DataChunk(1, 9) >>

\* AVI 1.0: the headers, JUNK and movi are the chunks 1 to 10, the data 11 to 14.
Old(junk, lists, absolute, second, plays) ==
    FilmOf(Heads(2, 2) \o DivX \o second \o << Leaf("JUNK", junk) >> \o MoviList(15) \o Chunks
         \o Idx(lists, absolute), plays)
All == << 11, 12, 13, 14 >>
Relative == Old(5, All, FALSE, MP3, TRUE)
Absolute == Old(4, All, TRUE, MP3, TRUE)
\* The sound without an index, and its format one that reads beyond its chunk.
Silent == Old(5, << 11, 13 >>, FALSE, MP3, FALSE)
Pcm == Old(5, All, FALSE, Strl("auds", "PCM", 16), FALSE)
\* Records of interleaved chunks: the index lists them too.
Records == FilmOf(Heads(2, 2) \o DivX \o MP3 \o << Leaf("JUNK", 4) >> \o MoviList(16)
                \o << List("rec ") >> \o Chunks \o Idx(<< 11, 12, 13, 14, 15 >>, FALSE), TRUE)
\* Two sound tracks, of which the second in the file is in the format asked for first.
Tracks == FilmOf(Heads(2, 3) \o DivX \o Strl("auds", "AC3", 18) \o MP3 \o MoviList(17)
               \o << DataChunk(0, 7), DataChunk(2, 4), DataChunk(1, 6), DataChunk(0, 3) >>
               \o Idx(<< 13, 14, 15, 16 >>, FALSE), TRUE)
\* OpenDML: the headers of the streams with their super indexes are the chunks 3 to 10, odml and
\* dmlh 11 and 12, movi 13; two RIFFs of data and the index of AVI 1.0 for the first.
Dmls(dml, sub) ==
    FilmOf(Heads(2, 2) \o DivX \o Super(<< 18, 25 >>) \o MP3 \o Super(<< 19, 26 >>) \o dml
         \o MoviList(20)
         \o << Fielded(0, 7, 3), DataChunk(1, 4), Fielded(0, 5, 2), DataChunk(1, 9) >>
         \o Ix(<< 14, 16 >>, sub) \o Ix(<< 15, 17 >>, FALSE)
         \o Idx(<< 14, 15, 16, 17 >>, FALSE)
         \o << List("RIFF") >> \o MoviList(27) \o << Fielded(0, 11, 6), DataChunk(1, 2) >>
         \o Ix(<< 23 >>, sub) \o Ix(<< 24 >>, FALSE), TRUE)
OpenDml == Dmls(<< List("odml"), Dml(3) >>, FALSE)
ByFields == Dmls(<< List("odml"), Dml(3) >>, TRUE)
\* Without the number of all frames, its super indexes do not count.
NoFrames == Dmls(<< Leaf("JUNK", 1), Leaf("JUNK", 6) >>, FALSE)
\* A super index for one of the streams only.
OneSuper == FilmOf(Heads(2, 2) \o DivX \o Super(<< >>) \o MP3 \o << List("odml"), Dml(3) >>
                 \o MoviList(17) \o Chunks \o Idx(<< 13, 14, 15, 16 >>, FALSE), TRUE)
\* A stream fewer than the header says, and a super index of the wrong type.
Missing == FilmOf(Heads(2, 2) \o DivX \o << Leaf("JUNK", 4) >> \o MoviList(10)
                \o << DataChunk(0, 7), DataChunk(0, 2) >> \o Idx(<< 8, 9 >>, FALSE), FALSE)

Whole == {Relative, Absolute, Silent, Pcm, Records, Tracks, OpenDml, ByFields, NoFrames,
            OneSuper, Missing}
\* The films whole, and cut where a chunk begins and inside its header and its contents.
Cut(f) == {[f EXCEPT !.length = Min({f.whole, c.at + k})] : c \in ToSet(f.chunks), k \in {0, 5, 10}}
Films == Whole \cup UNION {Cut(f) : f \in Whole}
=============================================================================
