----------------------------- MODULE Transcriber -----------------------------
(***************************************************************************)
(* The streaming transcription of one live session                         *)
(* (internal/transcribe).  A writer gathers the small chunks of audio into *)
(* the frames the provider accepts; a reader turns the provider's messages *)
(* into events, one per speaker of a committed turn; an adapter hands the  *)
(* events to the live pipeline.  Writer and reader share one socket and    *)
(* one context: whichever ends first ends the other.                       *)
(*                                                                         *)
(* Audio is a stream of samples 1, 2, ...; sizes count samples.  A word is *)
(* its label and its times; words of a turn are told apart by their start. *)
(***************************************************************************)
EXTENDS Naturals, SequencesExt

CONSTANTS
  FrameSize,      \* assemblyAIChunkBytes
  MinFrame,       \* assemblyAIMinChunkBytes
  MaxFrame,       \* the longest frame the provider accepts
  ChunkSizes,     \* sizes of the chunks the source may deliver
  Unlabelled,     \* the empty speaker label
  Messages,       \* messages the provider may send
  MaxAudio,       \* bound: samples in one session
  MaxMessages     \* bound: messages in one session

ASSUME FramesAssumption ==
  /\ MinFrame \in Nat \ {0} /\ FrameSize \in Nat /\ MaxFrame \in Nat
  /\ MinFrame <= FrameSize /\ FrameSize <= MaxFrame
  /\ ChunkSizes \subseteq Nat \ {0}

VARIABLES
  call,       \* the TranscribeStream call: idle, streaming, failed
  audio,      \* the source has closed the chunk channel
  heard,      \* samples received from it
  held,       \* buf
  writer,     \* control point, and samples of buf already sent
  played,     \* samples the provider received
  lengths,    \* lengths of the frames they came in
  inbox,      \* messages sent and not yet read
  said,       \* messages sent
  socket,     \* open, stalled (the provider reads no more), closed
  reader,     \* control point, events not yet taken
  cancelled,  \* the shared context
  stopped,    \* the caller's context
  outClosed,  \* close(out) in streamSession
  adapter,    \* control point and event of StreamSegments' goroutine
  delivered   \* transcripts the live pipeline took

writeVars == <<audio, heard, held, writer, played, lengths>>
readVars  == <<reader, adapter, delivered, outClosed>>
peerVars  == <<inbox, said, socket>>
transcriberVars == <<call, writeVars, peerVars, readVars, cancelled, stopped>>

InitTranscriber ==
  /\ call = "idle"
  /\ audio = "open" /\ heard = 0 /\ held = << >>
  /\ played = << >> /\ lengths = {}
  /\ writer = [pc |-> "select", sent |-> 0]
  /\ inbox = << >> /\ said = << >> /\ socket = "open"
  /\ reader = [pc |-> "read", events |-> << >>]
  /\ cancelled = FALSE /\ stopped = FALSE /\ outClosed = FALSE
  /\ adapter = [pc |-> "range", event |-> << >>]
  /\ delivered = << >>

-----------------------------------------------------------------------------
(* From a message to its events.                                           *)

\* A span starts with its first word and ends with the latest end of a word,
\* never before its start: a word in progress has end 0.
Span(words) ==
  LET start == words[1].start
      latest == Max({words[i].end : i \in DOMAIN words})
  IN [start |-> start, end |-> IF latest < start THEN start ELSE latest]

Segment(words, speaker) ==
  [words |-> words, speaker |-> speaker, start |-> Span(words).start,
   end |-> Span(words).end, final |-> TRUE]

TextOnly(m, final) ==
  [words |-> << >>, speaker |-> m.label, start |-> 0, end |-> 0, final |-> final]

\* The first label of a run, empty when no word of it has one.
RunSpeaker(words) ==
  LET named == SelectSeq(words, LAMBDA w : w.speaker # Unlabelled)
  IN IF named = << >> THEN Unlabelled ELSE named[1].speaker

\* The runs so far, and the next word: it opens a run when it and the open run
\* have different labels, an empty label continuing the run.
Extend(runs, word) ==
  LET open == runs[Len(runs)]
      speaker == RunSpeaker(open)
  IN IF word.speaker # Unlabelled /\ speaker # Unlabelled /\ word.speaker # speaker
     THEN Append(runs, <<word>>)
     ELSE [runs EXCEPT ![Len(runs)] = Append(open, word)]

SpeakerRuns(words) ==
  LET runs[n \in DOMAIN words] ==
        IF n = 1 THEN <<<<words[1]>>>> ELSE Extend(runs[n - 1], words[n])
  IN runs[Len(words)]

\* Mutant: a turn is one segment, whoever speaks in it.
SegmentsOfTurn(m) ==
  IF m.words = << >> THEN <<TextOnly(m, TRUE)>> ELSE <<Segment(m.words, m.label)>>

\* A committed turn, split at its speakers.
Segments(m) ==
  IF m.words = << >> THEN <<TextOnly(m, TRUE)>>
  ELSE LET runs == SpeakerRuns(m.words)
       IN IF Len(runs) = 1 THEN <<Segment(m.words, m.label)>>
          ELSE [i \in DOMAIN runs |-> Segment(runs[i], RunSpeaker(runs[i]))]

\* The events of a message, and whether it ends the session.
Events ==
  [m \in Messages |-> IF m.kind # "turn" \/ ~m.text THEN << >>
                      ELSE IF m.final THEN Segments(m) ELSE <<TextOnly(m, FALSE)>>]

Ends(m) == m.kind \in {"termination", "error"}

-----------------------------------------------------------------------------
(* The call.                                                               *)

Dial(ok) ==
  /\ call = "idle"
  /\ call' = IF ok THEN "streaming" ELSE "failed"
  /\ UNCHANGED <<writeVars, peerVars, readVars, cancelled, stopped>>

Streaming == call = "streaming"

\* The caller's context ends, and with it the shared one.
Stop ==
  /\ Streaming /\ ~stopped
  /\ stopped' = TRUE /\ cancelled' = TRUE
  /\ UNCHANGED <<call, writeVars, peerVars, readVars>>

\* streamSession returns once both sides have ended.
CloseOut ==
  /\ Streaming /\ reader.pc = "done" /\ writer.pc = "done" /\ ~outClosed
  /\ outClosed' = TRUE /\ socket' = "closed"
  /\ UNCHANGED <<call, writeVars, inbox, said, reader, adapter, delivered,
                 cancelled, stopped>>

-----------------------------------------------------------------------------
(* The writer.                                                             *)

\* The writer returns and its deferred cancel ends the reader.
WriterDone ==
  /\ writer' = [writer EXCEPT !.pc = "done"]
  /\ cancelled' = TRUE

Receive(n) ==
  /\ Streaming /\ writer.pc = "select"
  /\ audio = "open" /\ heard + n <= MaxAudio
  /\ held' = held \o [i \in 1 .. n |-> heard + i]
  /\ heard' = heard + n
  /\ writer' = [pc |-> "emit", sent |-> 0]
  /\ UNCHANGED <<call, audio, played, lengths, peerVars, readVars, cancelled, stopped>>

\* The socket's writeBinary, when it succeeds.
Play(frame) ==
  /\ played' = played \o frame
  /\ lengths' = lengths \cup {Len(frame)}

FrameReady == Len(held) - writer.sent >= FrameSize

WriteFrame ==
  /\ Streaming /\ writer.pc = "emit" /\ FrameReady /\ socket = "open"
  /\ Play(SubSeq(held, writer.sent + 1, writer.sent + FrameSize))
  /\ writer' = [writer EXCEPT !.sent = @ + FrameSize]
  /\ UNCHANGED <<call, audio, heard, held, peerVars, readVars, cancelled, stopped>>

\* The provider is gone or the context is cancelled.  A write has no deadline of
\* its own: on a stalled socket it waits for one of the two.
WriteFails ==
  /\ Streaming /\ writer.pc = "emit" /\ FrameReady
  /\ cancelled \/ socket = "closed"
  /\ WriterDone
  /\ UNCHANGED <<call, audio, heard, held, played, lengths, peerVars, readVars, stopped>>

\* The tail moves to the front of the buffer.
Compact ==
  /\ Streaming /\ writer.pc = "emit" /\ ~FrameReady
  /\ held' = SubSeq(held, writer.sent + 1, Len(held))
  /\ writer' = [pc |-> "select", sent |-> 0]
  /\ UNCHANGED <<call, audio, heard, played, lengths, peerVars, readVars, cancelled, stopped>>

AudioEnds ==
  /\ Streaming /\ audio = "open"
  /\ audio' = "closed"
  /\ UNCHANGED <<call, heard, held, writer, played, lengths, peerVars, readVars, cancelled, stopped>>

\* On a clean end the tail is sent when it is long enough; a cancelled context
\* or a closed socket loses it, and a stalled one holds the writer.
Flush ==
  /\ Streaming /\ writer.pc = "select" /\ audio = "closed"
  /\ \/ /\ Len(held) >= MinFrame /\ socket = "open"
        /\ Play(held)
     \/ /\ Len(held) < MinFrame \/ socket = "closed" \/ cancelled
        /\ UNCHANGED <<played, lengths>>
  /\ WriterDone
  /\ UNCHANGED <<call, audio, heard, held, peerVars, readVars, stopped>>

WriterCancelled ==
  /\ Streaming /\ writer.pc = "select" /\ cancelled
  /\ WriterDone
  /\ UNCHANGED <<call, audio, heard, held, played, lengths, peerVars, readVars, stopped>>

-----------------------------------------------------------------------------
(* The provider.                                                           *)

Send(m) ==
  /\ Streaming /\ socket # "closed" /\ Len(said) < MaxMessages
  /\ inbox' = Append(inbox, m) /\ said' = Append(said, m)
  /\ UNCHANGED <<call, writeVars, socket, readVars, cancelled, stopped>>

\* It stops taking audio, for a while or for good; what it says still arrives.
Stall ==
  /\ Streaming /\ socket = "open"
  /\ socket' = "stalled"
  /\ UNCHANGED <<call, writeVars, inbox, said, readVars, cancelled, stopped>>

Resume ==
  /\ Streaming /\ socket = "stalled"
  /\ socket' = "open"
  /\ UNCHANGED <<call, writeVars, inbox, said, readVars, cancelled, stopped>>

HangUp ==
  /\ Streaming /\ socket # "closed"
  /\ socket' = "closed"
  /\ UNCHANGED <<call, writeVars, inbox, said, readVars, cancelled, stopped>>

-----------------------------------------------------------------------------
(* The reader and the adapter.                                             *)

\* readEvents returns, and streamSession cancels the writer.
ReaderDone(events) ==
  /\ reader' = [pc |-> "done", events |-> events]
  /\ cancelled' = TRUE

Read ==
  /\ Streaming /\ reader.pc = "read" /\ inbox # << >>
  /\ inbox' = Tail(inbox)
  /\ LET m == Head(inbox)
     IN IF Events[m] = << >> /\ Ends(m)
        THEN ReaderDone(<< >>)
        ELSE /\ reader' = [pc |-> IF Events[m] = << >> THEN "read" ELSE "emit",
                           events |-> Events[m]]
             /\ UNCHANGED cancelled
  /\ UNCHANGED <<call, writeVars, said, socket, adapter, delivered, outClosed, stopped>>

ReadFails ==
  /\ Streaming /\ reader.pc = "read"
  /\ cancelled \/ (socket = "closed" /\ inbox = << >>)
  /\ ReaderDone(<< >>)
  /\ UNCHANGED <<call, writeVars, peerVars, adapter, delivered, outClosed, stopped>>

\* The rendezvous on out.
Emit ==
  /\ Streaming /\ reader.pc = "emit" /\ adapter.pc = "range"
  /\ adapter' = [pc |-> "send", event |-> <<Head(reader.events)>>]
  /\ reader' = [reader EXCEPT !.events = Tail(@),
                              !.pc = IF Len(reader.events) = 1 THEN "read" ELSE "emit"]
  /\ UNCHANGED <<call, writeVars, peerVars, delivered, outClosed, cancelled, stopped>>

EmitCancelled ==
  /\ Streaming /\ reader.pc = "emit" /\ cancelled
  /\ ReaderDone(reader.events)
  /\ UNCHANGED <<call, writeVars, peerVars, adapter, delivered, outClosed, stopped>>

\* The live pipeline takes the transcript.
Deliver ==
  /\ Streaming /\ adapter.pc = "send"
  /\ delivered' = delivered \o adapter.event
  /\ adapter' = [pc |-> "range", event |-> << >>]
  /\ UNCHANGED <<call, writeVars, peerVars, reader, outClosed, cancelled, stopped>>

AdapterStops ==
  /\ Streaming /\ adapter.pc = "send" /\ stopped
  /\ adapter' = [pc |-> "done", event |-> << >>]
  /\ UNCHANGED <<call, writeVars, peerVars, reader, delivered, outClosed, cancelled, stopped>>

AdapterEnds ==
  /\ Streaming /\ adapter.pc = "range" /\ outClosed
  /\ adapter' = [pc |-> "done", event |-> << >>]
  /\ UNCHANGED <<call, writeVars, peerVars, reader, delivered, outClosed, cancelled, stopped>>

WriterStep == WriteFrame \/ WriteFails \/ Compact \/ Flush \/ WriterCancelled
ReaderStep == Read \/ ReadFails \/ Emit \/ EmitCancelled
AdapterStep == Deliver \/ AdapterStops \/ AdapterEnds

NextTranscriber ==
  \/ \E ok \in BOOLEAN : Dial(ok)
  \/ Stop \/ CloseOut
  \/ (\E n \in ChunkSizes : Receive(n)) \/ AudioEnds \/ WriterStep
  \/ (\E m \in Messages : Send(m)) \/ Stall \/ Resume \/ HangUp
  \/ ReaderStep \/ AdapterStep

\* The goroutines run; a call on a closed socket or a cancelled context
\* returns, and so does a write while the provider reads, but not on a stalled
\* socket; the live pipeline takes transcripts until it stops the session.
TranscriberFairness ==
  /\ WF_transcriberVars(WriterStep) /\ WF_transcriberVars(ReaderStep)
  /\ WF_transcriberVars(AdapterStep) /\ WF_transcriberVars(CloseOut)

TranscriberSpec ==
  InitTranscriber /\ [][NextTranscriber]_transcriberVars /\ TranscriberFairness

-----------------------------------------------------------------------------
(* Properties.                                                             *)

TranscriberTypeOK ==
  /\ call \in {"idle", "streaming", "failed"}
  /\ audio \in {"open", "closed"} /\ heard \in 0 .. MaxAudio
  /\ held \in Seq(1 .. MaxAudio) /\ played \in Seq(1 .. MaxAudio)
  /\ writer \in [pc : {"select", "emit", "done"}, sent : 0 .. MaxAudio]
  /\ writer.sent <= Len(held)
  /\ writer.pc = "select" => Len(held) < FrameSize
  /\ said \in Seq(Messages) /\ inbox \in Seq(Messages)
  /\ socket \in {"open", "stalled", "closed"}
  /\ reader.pc \in {"read", "emit", "done"}
  /\ reader.pc = "emit" <=> reader.events # << >> /\ reader.pc # "done"
  /\ adapter.pc \in {"range", "send", "done"}
  /\ adapter.pc = "send" <=> adapter.event # << >>
  /\ {cancelled, stopped, outClosed} \subseteq BOOLEAN

\* Every frame has a length the provider accepts: it closes the session, with
\* code 3007, on any other.
FramesFit == lengths \subseteq MinFrame .. MaxFrame

\* The provider hears the session's samples in order, none twice and none left
\* out before the last one it hears, and between chunks what it has not heard
\* is what the writer holds.
AudioWhole ==
  /\ played = [i \in 1 .. Len(played) |-> i]
  /\ writer.pc = "select" => played \o held = [i \in 1 .. heard |-> i]

WordsOf(segs) ==
  LET words[n \in 0 .. Len(segs)] ==
        IF n = 0 THEN << >> ELSE words[n - 1] \o segs[n].words
  IN words[Len(segs)]
Labels(words) == {words[i].speaker : i \in DOMAIN words} \ {Unlabelled}
Finals == SelectSeq(delivered, LAMBDA s : s.final)

\* The pipeline receives the words of the committed turns in their order,
\* each once and none left out before the last one.
WordsInOrder ==
  LET committed == SelectSeq(said, LAMBDA m : m.kind = "turn" /\ m.final /\ m.text)
  IN IsPrefix(WordsOf(Finals), WordsOf(committed))

\* No segment holds the words of two speakers or names a speaker who said none
\* of its words: a verdict would be given to the wrong one.
OneVoice ==
  \A i \in DOMAIN Finals :
    LET s == Finals[i]
    IN s.words # << >> =>
         /\ Cardinality(Labels(s.words)) <= 1
         /\ Labels(s.words) # {} => s.speaker \in Labels(s.words) \cup {Unlabelled}

\* A turn is split where the speaker changes and nowhere else, and no segment
\* ends before it starts.
SplitsAtSpeakers ==
  \A i \in DOMAIN Finals :
    /\ Finals[i].start <= Finals[i].end
    /\ \A j \in DOMAIN said :
         /\ Finals[i].words # << >> /\ Cardinality(Labels(said[j].words)) = 1
         /\ Finals[i].words[1] \in Range(said[j].words)
         => Finals[i].words = said[j].words

\* What goes out is what was heard, in frames the provider takes, and what
\* comes back is what was said, split where the speaker changes.
TranscriptWhole ==
  /\ TranscriberTypeOK /\ FramesFit /\ AudioWhole
  /\ WordsInOrder /\ OneVoice /\ SplitsAtSpeakers

\* Whichever side ends first, both end, the socket and the channel are closed,
\* and the adapter closes the pipeline's channel: always once the caller stops,
\* the provider closes or the reader ends, and at the end of the audio unless
\* the provider goes on stalling, for only they release a write it does not take.
AllDone == /\ writer.pc = "done" /\ reader.pc = "done" /\ outClosed
           /\ socket = "closed" /\ adapter.pc = "done"
Ended == Streaming /\ (stopped \/ socket = "closed" \/ reader.pc = "done")
SessionCloses ==
  /\ Ended ~> AllDone
  /\ <>[](socket # "stalled") => ((Streaming /\ audio = "closed") ~> AllDone)

\* streamSession, lines 249 to 255: only a turn the provider has not yet
\* committed is lost at the end of the audio, so a turn that has begun to be
\* delivered is delivered whole.  (The code does not keep this: the writer's
\* cancel ends the reader between two segments of a turn.)
CommittedWhole ==
  AllDone /\ ~stopped /\ audio = "closed" => reader.events = << >>
=============================================================================
