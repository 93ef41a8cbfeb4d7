------------------------------ MODULE MCEvidence -----------------------------
(***************************************************************************)
(* The sides of the evidence: the runs that publish it and the workers     *)
(* that write it (Ingestion), the judgment of a unit's claims against what *)
(* retrieval finds (Adjudication, which draws its hits freely), and what   *)
(* two sources begin with: the mirror a bulk sync downloads from           *)
(* (DumpMirror) and the walk of a crawl (CategoryWalk).  A behaviour moves *)
(* one of them, `part`, and leaves the others at rest: a run pays their    *)
(* sum, not their product.                                                 *)
(***************************************************************************)
EXTENDS Adjudication, Ingestion, DumpMirror, CategoryWalk

VARIABLE part

MCHits == {[kind |-> "claim", id |-> 1, score |-> 9, stance |-> "unclear"],
           [kind |-> "claim", id |-> 2, score |-> 8, stance |-> "contradicts"],
           [kind |-> "evidence", id |-> 3, score |-> 8, stance |-> "body"]}
MCPages == [press |-> {4}, web |-> {5}]
MCReplies == {<<"blank">>, <<"t1", "t1">>, <<"blank", "t1", "t2", "t1">>}
Reply(state, basis, conf) == [state |-> state, basis |-> basis, conf |-> conf]
MCAnswers == {Reply("credible", "evidence", 5),
              Reply("unverifiable", "evidence", 11)}
MCQuotes == {[id |-> 3, exact |-> TRUE], [id |-> 4, exact |-> FALSE], [id |-> 5, exact |-> TRUE]}

\* The crawl's gate turns down the second revision of the first part.
MCRefused == {<<1, 2>>}
\* The first archive's scrutin does not parse, the second one's does.
MCUnparsable == {<<"i", 1>>}

\* Every subset of these links: two ways down to a category, and a cycle.
MCLinks == {<<1, 4>>, <<2, 3>>, <<3, 4>>, <<4, 5>>, <<5, 1>>}
GraphOf(links) ==
  [c \in Categories |-> SetToSortSeq({l[2] : l \in {x \in links : x[1] = c}}, <) \o <<10 + c, 10>>]
MCGraphs == {GraphOf(links) : links \in SUBSET MCLinks}
MCSeeds == <<1, 3, 2>>

IngestionMoves == part = "ingestion"
JudgmentMoves  == part = "judgment"
MirrorMoves    == part = "mirror"
WalkMoves      == part = "walk"

\* What is published is stored, and nothing runs.
IngestionAtRest ==
  /\ source = "crawl" /\ world = [i \in Items |-> 1] /\ archives = <<world>>
  /\ running = FALSE /\ runs = [n \in Slots |-> NoRun] /\ marker = 0
  /\ queue = EmptyBag /\ slots = [w \in Workers |-> Free]
  /\ table = [k \in Items \X Parts |-> 1]
  /\ sent = {} /\ written = {} /\ failures = EmptyBag /\ dropped = {} /\ faults = 0

WalkAtRest == rows = GraphOf({}) /\ maxPages = Max(PageLimits)

InitEvidence ==
  /\ part \in {"ingestion", "judgment", "mirror", "walk"}
  /\ InitAdjudication /\ (JudgmentMoves \/ mode = "matching")
  /\ IF IngestionMoves THEN InitIngestion ELSE IngestionAtRest
  /\ InitMirror
  /\ InitWalk /\ (WalkMoves \/ WalkAtRest)

NextEvidence ==
  \/ IngestionMoves /\ NextIngestion    /\ UNCHANGED <<part, adjudicationVars, mirrorVars, walkVars>>
  \/ JudgmentMoves  /\ NextAdjudication /\ UNCHANGED <<part, ingestionVars, mirrorVars, walkVars>>
  \/ MirrorMoves    /\ NextMirror       /\ UNCHANGED <<part, adjudicationVars, ingestionVars, walkVars>>
  \/ WalkMoves      /\ NextWalk         /\ UNCHANGED <<part, adjudicationVars, ingestionVars, mirrorVars>>

\* IngestionFairness and AdjudicationFairness, each while its part moves.
EvidenceFairness ==
  /\ WF_ingestionVars(IngestionMoves /\ \E n \in Slots : Produce(n))
  /\ \A w \in Workers : WF_ingestionVars(IngestionMoves /\ Process(w))
  /\ WF_ingestionVars(IngestionMoves /\ \E w \in Workers, m \in Waiting(queue) : Receive(w, m))
  /\ SF_ingestionVars(IngestionMoves /\ \E w \in Workers, m \in Waiting(queue) : Pending(m) /\ Receive(w, m))
  /\ WF_adjudicationVars(JudgmentMoves /\ (ClaimGate \/ Gate \/ Match \/ Decompose \/ Gather))
  /\ \A i \in 1 .. MaxClaims :
       /\ WF_adjudicationVars(JudgmentMoves /\ (Lookup(i) \/ Retrieve(i) \/ Borrow(i) \/ Route(i) \/ Verify(i) \/ Reverify(i)))
       /\ SF_adjudicationVars(JudgmentMoves /\ AcquireVerifySlot(i))
  /\ WF_adjudicationVars(JudgmentMoves /\ LiveReleases
       /\ UNCHANGED <<mode, unit, job, cache, shown, units, callFaults>>)

EvidenceSpec == InitEvidence /\ [][NextEvidence]_<<part, adjudicationVars, ingestionVars, mirrorVars, walkVars>> /\ EvidenceFairness

\* Every unit is answered, and what is published is settled.
EvidenceSettles == UnitSettles /\ PublishedSettles
=============================================================================
