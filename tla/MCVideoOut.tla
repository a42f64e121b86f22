----------------------------- MODULE MCVideoOut -----------------------------
(* The video output, one part at a time: "frames", two interlaced pictures *)
(* around a progressive one, through the two frames of a stream of at most *)
(* 30 pictures a second; "clocks", the comparison with the audio clock.    *)
EXTENDS VideoOut, TLC

CONSTANTS Films, Half, MaxLead      \* of AvSync

VARIABLES part, sync
mcvars == << part, vars, sync >>
Clocks == INSTANCE AvSync

ASSUME ClocksAssumption ==
  /\ Half \in Nat /\ MaxLead \in Nat /\ MaxLead < Half
  /\ \A film \in Films : Clocks!Playable(film)

\* The films: some with sound, one without; the stamps of some wrap.
Film(base, blocks, fields) ==
  [blocks |-> [i \in DOMAIN blocks |-> base + blocks[i]],
   fields |-> [i \in DOMAIN fields |-> base + fields[i]]]
MCFilms ==
  {Film(base, b, f) : base \in {0, 13}, b \in {<< >>, << 0, 3, 5 >>, << 2, 4 >>},
                      f \in {<< 0, 2, 4, 7 >>, << 1, 2 >>}}

MCFieldsUpTo == (0 :> 0 @@ 1 :> 2 @@ 2 :> 3 @@ 3 :> 5)

MCInit ==
  /\ part \in {"frames", "clocks"}
  /\ Init
  /\ IF part = "clocks" THEN Clocks!Init ELSE Clocks!InitWith([blocks |-> << >>, fields |-> << >>])

InFrames(act) == part = "frames" /\ act /\ UNCHANGED << part, sync >>
InClocks(act) == part = "clocks" /\ act /\ UNCHANGED << part, vars >>
MCNext == InFrames(Next) \/ InClocks(Clocks!Next)

\* The fairness of VideoOut; the audio callback comes and the display thread runs (AvSync).
MCFairSpec ==
  /\ MCInit /\ [][MCNext]_mcvars
  /\ WF_mcvars(InFrames(Decoder)) /\ WF_mcvars(InFrames(AudioReady))
  /\ WF_mcvars(InFrames(Vpost)) /\ WF_mcvars(InFrames(Vdisp))
  /\ WF_mcvars(InClocks(Clocks!Callback)) /\ WF_mcvars(InClocks(Clocks!Display))

\* Fields are skipped when they are late and held when they are early (AvSync).
DecisionRight == Clocks!DecisionRight

\* A playback ends (VideoOut), and no field waits for the audio for ever (AvSync).
OutputEnds ==
  /\ part = "frames" => PlayerEnds
  /\ part = "clocks" => Clocks!FieldsShown
=============================================================================
