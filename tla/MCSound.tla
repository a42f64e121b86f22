------------------------------ MODULE MCSound ------------------------------
(***************************************************************************)
(* The two ways to hear something, which never run at once: part "film" is *)
(* the audio output of a film of up to four blocks, one of them empty,     *)
(* through two buffers; part "music" is the music player on a column of    *)
(* two songs and a file that is too small.                                 *)
(***************************************************************************)
EXTENDS AudioOut

CONSTANTS Column, Small, Bad, Blocks, MAX_MP3, Handles, MaxRequests

ASSUME MusicAssumption ==
  /\ DOMAIN Column = 1 .. Len(Column) /\ Len(Column) \in Nat \ {0} /\ MAX_MP3 \in Nat \ {0}
  /\ Blocks \in Nat /\ Handles \in Nat /\ MaxRequests \in Nat

VARIABLES part, playlist, current_mp3, max_mp3, force_mp3, force_mp3_file, force_mp3_fd, opened,
          mm_is_playing, update_ms, audio_sub_proc, mm_audio, tpc, arg, stream, request, requests,
          raced, stalled

Music == INSTANCE MusicPlayer
music == << playlist, current_mp3, max_mp3, force_mp3, force_mp3_file, force_mp3_fd, opened,
            mm_is_playing, update_ms, audio_sub_proc, mm_audio, tpc, arg, stream, request, requests,
            raced, stalled >>
mcvars == << part, vars, music >>

MCColumn == << "a", "b", "s" >>

MCInit == part \in {"film", "music"} /\ Init /\ Music!Init /\ (part = "music" => items = 0)

InFilm(A) == part = "film" /\ A /\ UNCHANGED << part, music >>
InMusic(A) == part = "music" /\ A /\ UNCHANGED << part, vars >>
MCNext == InFilm(Next) \/ InMusic(Music!Next)

MCSpec == MCInit /\ [][MCNext]_mcvars

\* The fairness of both parts.
MCFairSpec ==
  /\ MCSpec
  /\ WF_mcvars(InFilm(Apost)) /\ WF_mcvars(InFilm(AmixerCb)) /\ WF_mcvars(InFilm(Ender))
  /\ SF_mcvars(InFilm(Decoded)) /\ SF_mcvars(InFilm(SeqEndCb))
  /\ WF_mcvars(InMusic(Music!MainLoop)) /\ WF_mcvars(InMusic(Music!Misc))
  /\ WF_mcvars(InMusic(Music!WantsData)) /\ WF_mcvars(InMusic(Music!Stream))

\* Apart from the types, every buffer is in one place, every sample that is played is the next one
\* of the film, and all of them are when the film ends by itself (AudioOut).
SamplesInOrder == part = "film" => TypeOK /\ BuffersConserved /\ PlayedInOrder /\ AllPlayed

\* Apart from the types, the song that plays is the one the list stands at (MusicPlayer).
PlaysCurrent == part = "music" => Music!TypeOK /\ Music!PlaysCurrent

\* Once both outputs have started, the audio of a film ends (AudioOut), and a list that is left
\* alone goes round (MusicPlayer).
SoundGoesOn == /\ part = "film" => AudioEnds
               /\ part = "music" => Music!GoesRound
=============================================================================
