------------------------------ MODULE MCSpeech -------------------------------
(***************************************************************************)
(* Before and after the live session: the client that streams audio to the *)
(* transcription provider (Transcriber), two messages out of a set with    *)
(* every way labels continue or change; and the memory that compares the   *)
(* statements of a speaker (SpeakerMemory), statements 1 and 3 being the   *)
(* closest and 2 and 3 unrelated.  The session stands between them and     *)
(* they share no state, so a behaviour moves one of them, `part`, and      *)
(* leaves the other at rest: a run pays their sum, not their product.      *)
(***************************************************************************)
EXTENDS Transcriber, SpeakerMemory, TLC

CONSTANTS ann, bob, a, b, w1, w2

VARIABLE part

Word(s, i) == [speaker |-> s, start |-> i, end |-> i + 1]
InProgress(s, i) == [speaker |-> s, start |-> i, end |-> 0]
Said(labels, at) == [i \in DOMAIN labels |-> Word(labels[i], at + i)]
Turn(label, words) == [kind |-> "turn", text |-> TRUE, final |-> TRUE,
                       label |-> label, words |-> words]
Partial(label) == [kind |-> "turn", text |-> TRUE, final |-> FALSE,
                   label |-> label, words |-> << >>]
Other(kind) == [kind |-> kind, text |-> FALSE, final |-> FALSE,
                label |-> Unlabelled, words |-> << >>]

MCMessages ==
  {Turn(ann, Said(<<ann, Unlabelled, ann>>, 0)),
   Turn(bob, Said(<<ann, Unlabelled, bob>>, 3)),
   Turn(ann, Said(<<Unlabelled, ann, bob>>, 6)),
   Turn(ann, <<Word(ann, 12), InProgress(bob, 13)>>),
   Turn(ann, << >>), Partial(ann), Other("begin"), Other("termination")}

MCSimilarity ==
  [p \in Statements \X Statements |->
     IF {p[1], p[2]} = {2, 3} THEN 0
     ELSE IF {p[1], p[2]} = {1, 3} THEN 2 ELSE 1]

StreamMoves == part = "transcriber"
MemoryMoves == part = "memory"

InitSpeech ==
  /\ part \in {"transcriber", "memory"}
  /\ InitTranscriber
  /\ Init /\ (StreamMoves => speakerOf = [i \in Statements |-> Unknown])

NextSpeech ==
  \/ StreamMoves /\ NextTranscriber /\ UNCHANGED <<part, vars>>
  \/ MemoryMoves /\ Next /\ UNCHANGED <<part, transcriberVars>>

\* TranscriberFairness and Fairness, each while its part moves.
SpeechFairness ==
  /\ WF_transcriberVars(StreamMoves /\ WriterStep) /\ WF_transcriberVars(StreamMoves /\ ReaderStep)
  /\ WF_transcriberVars(StreamMoves /\ AdapterStep) /\ WF_transcriberVars(StreamMoves /\ CloseOut)
  /\ \A w \in Workers :
       /\ WF_vars(MemoryMoves /\ Detect(w))
       /\ SF_vars(MemoryMoves /\ (Lock(w) \/ Compare(w)))

SpeechSpec == InitSpeech /\ [][NextSpeech]_<<part, transcriberVars, vars>> /\ SpeechFairness

\* A session that is over closes on both sides, at the end of the audio unless
\* the provider goes on stalling, and a detection that starts ends: no lock,
\* slot or channel is waited for in vain.
SpeechEnds == SessionCloses /\ DetectionEnds
==============================================================================
