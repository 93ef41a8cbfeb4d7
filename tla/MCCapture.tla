------------------------------ MODULE MCCapture ------------------------------
(***************************************************************************)
(* The two ends of a captured channel: its supervisors and their archive   *)
(* (Capture), and the hub the feed goes to, with one viewer (TVHub).  The  *)
(* supervisor knows of the hub only whether its feed is taken, stuck or    *)
(* down, which Capture chooses freely: the two share no state.  So a       *)
(* behaviour moves one of them, `part`, and leaves the other at rest: a    *)
(* run pays their sum, not their product.                                  *)
(***************************************************************************)
EXTENDS Capture, TVHub, TLC

CONSTANTS c1, live, archived, s1, s2, f1, v1

VARIABLE part

MCChannels == {c1}
MCConfigs == {live, archived}
MCArchiving == {archived}
MCSups == {s1, s2}
MCKeys == {c1} \X (1 .. MaxSegments)
OneChannel == [p \in Feeds \cup Viewers |-> c1]

CaptureMoves == part = "capture"
HubMoves     == part = "hub"

\* While the hub moves, no channel is on for the supervisors.
InitChannel ==
  /\ part \in {"capture", "hub"} /\ Init /\ InitHub
  /\ HubMoves => \A c \in Channels : settings[c] = Off

\* Bound: what happens to the worker in one behaviour, whose channel may be on
\* from the first: two of edits, failed calls, kills and late recordings.
Troubles == faults + crashes + changes + Cardinality(late)
AllTroubles == 2

\* Bound: an id is left for each segment that may still be given a row.
IdsLeft ==
  Cardinality({k \in Keys : RowOf(k) = {}
                  /\ (k[2] \in disk[k[1]] \cup (written[k[1]] + 1 .. MaxSegments)
                       \/ \E s \in Sups : sup[s].job # NoJob /\ Segment(s) = k)})
    <= MaxId + 1 - nextId

NextChannel ==
  \/ CaptureMoves /\ Next /\ Troubles' <= AllTroubles /\ IdsLeft' /\ UNCHANGED <<part, hubVars>>
  \/ HubMoves /\ NextHub /\ UNCHANGED <<part, vars>>

\* Fairness and HubFairness, each while its part moves.
ChannelFairness ==
  /\ WF_vars(CaptureMoves /\ ManagerStep)
  /\ \A s \in Sups :
       /\ WF_vars(CaptureMoves /\ SupStep(s))
       /\ WF_vars(CaptureMoves /\ sup[s].feed = "stuck" /\ FeedChanges(s, "down"))
  /\ \A f \in Feeds :
       /\ WF_hubVars(HubMoves /\ (StartChannelSession(f) \/ SessionStartFails(f)))
       /\ WF_hubVars(HubMoves /\ FeedFrame(f))
       /\ WF_hubVars(HubMoves /\ AnalyzerReads(f))
       /\ WF_hubVars(HubMoves /\ f \in done /\ AnalyzerEnds(f))
       /\ WF_hubVars(HubMoves /\ EndSession(f))
       /\ WF_hubVars(HubMoves /\ f \in gone /\ FeedCloses(f))
  /\ \A v \in Viewers :
       WF_hubVars(HubMoves /\ (SendBacklog(v) \/ SendMessage(v) \/ ChannelStreamEnds(v) \/ CloseViewer(v)))
  /\ \A p \in Handlers : WF_hubVars(HubMoves /\ GcCheck(p))
  /\ WF_hubVars(HubMoves /\ GcDelete)

\* Supervisors, archives, feeds, viewers and rooms all come to their ends.
ChannelEnds == ChannelSettles /\ HubReleases

ChannelSpec == InitChannel /\ [][NextChannel]_<<part, vars, hubVars>> /\ ChannelFairness
=============================================================================
