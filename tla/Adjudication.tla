----------------------------- MODULE Adjudication -----------------------------
(***************************************************************************)
(* How one unit of text is judged outside a live session: one sentence of  *)
(* a document on the verify path (VerifyPath.AnalyzeText), or one unit on  *)
(* the older path that only gates and matches.  A gate decides whether it  *)
(* is worth checking; it is split into claims; the claims run side by side *)
(* through the cache, retrieval, a borrowed curated verdict, the routed    *)
(* sources and a verifier whose calls share a pool with the live sessions. *)
(* Every answer of a model, a source or a store is a choice, a failure     *)
(* included.  Similarities, weights and confidences are tenths.            *)
(***************************************************************************)
EXTENDS Integers, Sequences, FiniteSets, FiniteSetsExt

CONSTANTS
  Modes,         \* those of "credibility", "second pass", "political" and "matching" to be explored
  Texts, Blank,  \* claim texts after normalization; a text of white space
  Statement,     \* the unit itself, one of Texts
  Replies,       \* what the decomposer may answer
  MaxClaims,
  Hits,          \* what the two corpora may return: kind, id, score and stance
  MaxResults, ClusterSize, Threshold, WikiThreshold, BodyWeight,
  PoliticalId,   \* what a verdict borrowed from the political corpus cites
  Pages,         \* Pages[k]: what source k may return
  MinResults,
  Answers, Quotes,  \* a verifier's state, basis and confidence; the citations it may add
  Cap, FastTau, MidLo, MidHi,
  VerifySlots, MaxLive,   \* cap(verifySem); bound on what live sessions hold of it
  MaxUnits, MaxCallFaults

ASSUME TextsAssumption ==
  /\ Modes \subseteq {"credibility", "second pass", "political", "matching"}
  /\ Statement \in Texts /\ Blank \notin Texts /\ Replies \subseteq Seq(Texts \cup {Blank})
ASSUME AdjudicationAssumption ==
  /\ MaxClaims \in Nat \ {0} /\ MaxResults \in Nat \ {0} /\ ClusterSize \in Nat \ {0} /\ MinResults \in Nat \ {0}
  /\ VerifySlots \in Nat \ {0} /\ MaxLive \in 0 .. VerifySlots /\ MaxUnits \in Nat /\ MaxCallFaults \in Nat
  /\ Cap \in 0 .. 10 /\ BodyWeight \in 0 .. 10 /\ MidLo \in 0 .. 10 /\ MidHi \in MidLo .. 10

\* A corpus returns an entry once.
ASSUME HitsAssumption ==
  /\ IsFiniteSet(Hits) /\ \A h \in Hits : h.kind \in {"claim", "evidence"} /\ h.id \in Int /\ h.score \in Int
  /\ \A h, g \in Hits : h.kind = g.kind /\ h.id = g.id => h = g
ASSUME AnswersAssumption == \A a \in Answers : a.conf \in Int

VARIABLES
  mode,
  unit,    \* where the unit is, its claims or its scored matches
  job,     \* job[i]: the i-th claim of the unit
  cache,   \* cache[t]: the cached verdict of a text
  live,    \* slots of the verify pool held by live sessions
  shown,   \* history: shown[t] holds the passages ever found for a text
  units, callFaults

adjudicationVars == <<mode, unit, job, cache, live, shown, units, callFaults>>

None  == [state |-> "none"]
Judged(state, basis, conf, cites) == [state |-> state, basis |-> basis, conf |-> conf, cites |-> cites]
\* Nothing to check against: no call is made and nothing is claimed.
NoEvidence == Judged("unverifiable", "knowledge", 0, {})

NoJob == [pc |-> "none", text |-> Blank, hits |-> {}, failed |-> FALSE, verdict |-> None, by |-> "none"]
Working == {"lookup", "retrieve", "borrow", "route", "acquire", "verify", "reverify"}
Holders == {i \in DOMAIN job : job[i].pc = "verify"}
CallFault   == callFaults < MaxCallFaults /\ callFaults' = callFaults + 1
NoCallFault == UNCHANGED callFaults
Cut(s, n) == SubSeq(s, 1, Min({n, Len(s)}))

InitAdjudication ==
  /\ mode \in Modes
  /\ unit = [pc |-> "idle", matches |-> <<>>] /\ job = [i \in 1 .. MaxClaims |-> NoJob]
  /\ cache = [t \in Texts |-> None] /\ live = 0
  /\ shown = [t \in Texts |-> {}] /\ units = 0 /\ callFaults = 0

-----------------------------------------------------------------------------
(* Gates.                                                                  *)

\* Questions, openings and hedges are no claims; a model is asked about the rest.
WordList    == BOOLEAN
CheckWorthy == BOOLEAN
\* A transport error, an answer in prose, arguments that do not decode.
CallFails   == CallFault

\* A model that fails leaves the word list's word.
Cascade(worthy) ==
  \E claim \in WordList :
    \/ ~claim /\ worthy = FALSE /\ NoCallFault
    \/ claim /\ worthy \in CheckWorthy /\ NoCallFault
    \/ claim /\ worthy = TRUE /\ CallFails

Turn(to) == unit' = [unit EXCEPT !.pc = to]

NextUnit ==
  /\ unit.pc \in {"idle", "done", "failed", "skipped"} /\ units < MaxUnits
  /\ units' = units + 1
  /\ unit' = [pc |-> "gate", matches |-> <<>>] /\ job' = [i \in 1 .. MaxClaims |-> NoJob]
  /\ UNCHANGED <<mode, cache, live, shown, callFaults>>

\* The gate of the verify path asks for no corpus.
ClaimGate ==
  /\ unit.pc = "gate" /\ mode # "matching"
  /\ \E worthy \in BOOLEAN : Cascade(worthy) /\ Turn(IF worthy THEN "decompose" ELSE "skipped")
  /\ UNCHANGED <<mode, job, cache, live, shown, units>>

\* The unit is not embedded, or a corpus does not answer.
SearchFails == CallFault

\* A corpus covers the unit when its nearest entry is near enough.
Nearest(hits, kind) == {h \in hits : h.kind = kind /\ \A g \in hits : g.kind = kind => g.score <= h.score}
CoveredBy(hits) ==
  \/ \E h \in Nearest(hits, "claim") : h.score >= Threshold
  \/ \E h \in Nearest(hits, "evidence") : h.score >= WikiThreshold

\* The older gate also asks that a corpus covers the unit, and fails with it.
Gate ==
  /\ unit.pc = "gate" /\ mode = "matching"
  /\ \/ \E worthy \in BOOLEAN, hits \in SUBSET Hits :
          Cascade(worthy) /\ Turn(IF worthy /\ CoveredBy(hits) THEN "match" ELSE "skipped")
     \/ SearchFails /\ Turn("failed")
  /\ UNCHANGED <<mode, job, cache, live, shown, units>>

-----------------------------------------------------------------------------
(* Matching.                                                               *)

ClaimMatches(hits)    == {h \in hits : h.kind = "claim" /\ h.score >= Threshold}
EvidenceMatches(hits) == {h \in hits : h.kind = "evidence" /\ h.score >= WikiThreshold}

\* A claim goes before evidence of the same score.
Before(h, g) ==
  \/ h.score > g.score
  \/ h.score = g.score /\ h.kind = "claim" /\ g.kind = "evidence"
  \/ h.score = g.score /\ h.kind = g.kind /\ h.id < g.id
Ranked(hits) ==
  LET found == ClaimMatches(hits) \cup EvidenceMatches(hits)
  IN CHOOSE s \in [1 .. Cardinality(found) -> found] : \A n, k \in DOMAIN s : n < k => Before(s[n], s[k])
MatchSegment(hits) == Cut(Ranked(hits), MaxResults)

MatchWeight(h) ==
  IF h.score <= 0 \/ (h.kind = "claim" /\ h.stance = "unclear") THEN 0
  ELSE IF h.kind = "evidence" /\ h.stance = "body" THEN h.score * BodyWeight ELSE h.score * 10
Lead(matches) == Cut(matches, ClusterSize)
Against(h) == h.kind = "claim" /\ h.stance = "contradicts"
Total(w) == LET sum[n \in 0 .. Len(w)] == IF n = 0 THEN 0 ELSE sum[n - 1] + w[n] IN sum[Len(w)]
Weights(matches, against) ==
  Total([n \in DOMAIN matches |-> IF Against(matches[n]) = against THEN MatchWeight(matches[n]) ELSE 0])
Confidence(matches) ==
  [supporting |-> Weights(Lead(matches), FALSE), contradicting |-> Weights(Lead(matches), TRUE)]
Contributions(matches) == [n \in DOMAIN matches |-> IF n <= ClusterSize THEN MatchWeight(matches[n]) ELSE 0]

\* The older path ends here, with the matches and the confidence they carry.
Match ==
  /\ unit.pc = "match"
  /\ \/ SearchFails /\ Turn("failed")
     \/ NoCallFault /\ \E hits \in SUBSET Hits : unit' = [pc |-> "done", matches |-> MatchSegment(hits)]
  /\ UNCHANGED <<mode, job, cache, live, shown, units>>

-----------------------------------------------------------------------------
(* Claims.                                                                 *)

\* Where the i-th claim of a reply is, blank ones left out.
CleanClaims(reply, i) ==
  {n \in DOMAIN reply : reply[n] # Blank /\ Cardinality({m \in 1 .. n : reply[m] # Blank}) = i}

Start(reply) ==
  /\ job' = [i \in 1 .. MaxClaims |->
               IF CleanClaims(reply, i) = {} THEN NoJob
               ELSE [NoJob EXCEPT !.pc = "lookup", !.text = reply[Min(CleanClaims(reply, i))]]]
  /\ Turn(IF CleanClaims(reply, 1) = {} THEN "skipped" ELSE "claims")

\* A decomposer that fails leaves the unit as its only claim.
Decompose ==
  /\ unit.pc = "decompose"
  /\ \/ NoCallFault /\ \E reply \in Replies : Start(reply)
     \/ CallFails /\ Start(<<Statement>>)
  /\ UNCHANGED <<mode, cache, live, shown, units>>

Goes(i, to)       == job' = [job EXCEPT ![i].pc = to]
Fails(i)          == job' = [job EXCEPT ![i].pc = "error", ![i].hits = {}] /\ UNCHANGED <<cache, shown>>
Store(i, verdict) == cache' = [cache EXCEPT ![job[i].text] = verdict]
Shows(i, ids)     == shown' = [shown EXCEPT ![job[i].text] = @ \cup ids]
Ends(i, verdict, by) == job' = [job EXCEPT ![i] = [@ EXCEPT !.pc = "done", !.hits = {}, !.verdict = verdict, !.by = by]]
Reached(i, verdict, by) == Ends(i, verdict, by) /\ Store(i, verdict)
ClaimOnly == UNCHANGED <<mode, unit, live, units>>

Lookup(i) ==
  /\ job[i].pc = "lookup"
  /\ IF cache[job[i].text] # None THEN Ends(i, cache[job[i].text], "cache") ELSE Goes(i, "retrieve")
  /\ ClaimOnly /\ UNCHANGED <<cache, shown, callFaults>>

\* The first curated claim near enough lends its verdict; an unclear one
\* settles nothing.
FastMatch(matches) == {n \in DOMAIN matches : matches[n].kind = "claim" /\ matches[n].score >= FastTau}
CredibilityFromCurated(stance) ==
  CASE stance = "corroborates" -> "credible" [] stance = "contradicts" -> "disputed" [] OTHER -> "unverifiable"
Quote(id) == [id |-> id, exact |-> TRUE]
CuratedVerdict(h) ==
  LET state == CredibilityFromCurated(h.stance)
  IN IF state = "unverifiable" THEN Judged(state, "knowledge", h.score, {})
     ELSE Judged(state, "evidence", h.score, {Quote(h.id)})

Retrieve(i) ==
  /\ job[i].pc = "retrieve" /\ ClaimOnly
  /\ \/ SearchFails /\ Fails(i)
     \/ NoCallFault /\ \E found \in SUBSET Hits :
          LET matches == MatchSegment(found)
              hits    == {matches[n] : n \in DOMAIN matches}
              fast    == FastMatch(matches)
          IN /\ Shows(i, {h.id : h \in hits})
             /\ IF mode = "political"
                THEN job' = [job EXCEPT ![i].pc = "borrow", ![i].hits = hits] /\ UNCHANGED cache
                ELSE IF fast # {} THEN Reached(i, CuratedVerdict(matches[Min(fast)]), "curated")
                ELSE IF hits = {} THEN Reached(i, NoEvidence, "silence")
                ELSE job' = [job EXCEPT ![i].pc = "acquire", ![i].hits = hits] /\ UNCHANGED cache

\* A curated political claim lends its verdict as evidence, an unverifiable one too.
PoliticalCuratedVerdict(state, score) ==
  Judged(state, "evidence", score, IF state = "unverifiable" THEN {} ELSE {Quote(PoliticalId)})

\* The political corpus first, then the curated claims, then the sources; a
\* search that fails is a miss.
Borrow(i) ==
  /\ job[i].pc = "borrow" /\ ClaimOnly
  /\ \/ \E state \in {"credible", "disputed", "unverifiable"} :
          /\ NoCallFault /\ Reached(i, PoliticalCuratedVerdict(state, FastTau), "curated")
          /\ Shows(i, {PoliticalId})
     \/ /\ NoCallFault \/ CallFault
        /\ UNCHANGED shown
        /\ LET matches == Ranked(job[i].hits)
               fast    == FastMatch(matches)
           IN IF fast # {} THEN Reached(i, CuratedVerdict(matches[Min(fast)]), "curated")
              ELSE Goes(i, "route") /\ UNCHANGED cache

-----------------------------------------------------------------------------
(* Sources.                                                                *)

\* A promise or an opinion is not routed; a classifier that fails answers "other".
Classify(type) == type \in {"statistic", "voting", "attribution", "other", "opinion"}
Verifiable(type) == type # "opinion"
PreferredKind(type) ==
  CASE type = "statistic" -> "stats" [] type = "voting" -> "voting" [] type = "attribution" -> "press" [] OTHER -> "web"

\* What a source may answer.  The statistics and the votes are looked up by
\* hints alone, and a claim has none.
Pack(pages)  == [ok |-> TRUE, pages |-> pages]
Down         == [ok |-> FALSE, pages |-> {}]
StatsPack    == {Pack({})}
VotingPack   == {Pack({})}
PressPack    == {Pack(found) : found \in SUBSET Pages["press"]} \cup {Down}
WebPack      == {Pack(found) : found \in SUBSET Pages["web"]} \cup {Down}
Retrieved(kind) ==
  CASE kind = "stats" -> StatsPack [] kind = "voting" -> VotingPack [] kind = "press" -> PressPack [] kind = "web" -> WebPack

\* The web is asked when the preferred source gave too little, unless it was that source.
Broaden(type, first) ==
  IF PreferredKind(type) # "web" /\ Cardinality(first.pages) < MinResults THEN WebPack ELSE {Pack({})}

\* Mutant: the answer of the last source asked decides.
ThrowsLast(first, more) == first.pages \cup more.pages = {} /\ ~more.ok

\* Nothing found and a source failed: the claim fails, it is not unverifiable.
Throws(first, more) == first.pages \cup more.pages = {} /\ ~(first.ok /\ more.ok)

Route(i) ==
  /\ job[i].pc = "route" /\ ClaimOnly
  /\ \E type \in {"statistic", "voting", "attribution", "other", "opinion"} : Classify(type) /\
       \E first \in IF Verifiable(type) THEN Retrieved(PreferredKind(type)) ELSE {Pack({})} :
       \E more \in IF Verifiable(type) THEN Broaden(type, first) ELSE {Pack({})} :
         LET found   == first.pages \cup more.pages
             failed  == ~(first.ok /\ more.ok)
         IN /\ IF failed THEN CallFault ELSE NoCallFault
            /\ IF Throws(first, more) THEN Fails(i)
               ELSE /\ Shows(i, found)
                    /\ IF found = {}
                       THEN /\ job' = [job EXCEPT ![i] = [@ EXCEPT !.pc = "done", !.hits = {}, !.verdict = NoEvidence,
                                                         !.by = "silence", !.failed = failed]]
                            /\ Store(i, NoEvidence)
                       ELSE job' = [job EXCEPT ![i].pc = "acquire", ![i].hits = {[id |-> p] : p \in found}] /\ UNCHANGED cache

-----------------------------------------------------------------------------
(* The verifier.                                                           *)

\* Live sessions use the same pool.
LiveHolds    == live < MaxLive /\ live + Cardinality(Holders) < VerifySlots /\ live' = live + 1
LiveReleases == live > 0 /\ live' = live - 1
LiveSessions == (LiveHolds \/ LiveReleases) /\ UNCHANGED <<mode, unit, job, cache, shown, units, callFaults>>

\* A claim waits for its slot however long it takes, unless the job is cancelled.
AcquireVerifySlot(i) ==
  /\ job[i].pc = "acquire" /\ ClaimOnly
  /\ \/ NoCallFault /\ live + Cardinality(Holders) < VerifySlots /\ Goes(i, "verify") /\ UNCHANGED <<cache, shown>>
     \/ CallFault /\ Fails(i)

\* A citation survives when its passage was supplied and holds the quoted span.
ValidCitations(cites, ids) == {q \in cites : q.exact /\ q.id \in ids}

ClampConfidence(c) == Max({0, Min({c, 10})})
CapKnowledgeConfidence(c) == Min({ClampConfidence(c), Cap})

GroundVerdict(state, basis, cites, c) ==
  IF state # "unverifiable" /\ basis = "evidence" /\ cites # {} THEN Judged(state, basis, ClampConfidence(c), cites)
  ELSE Judged(state, "knowledge", CapKnowledgeConfidence(c), IF state = "unverifiable" THEN {} ELSE cites)

ValidateCitations(a, cites, ids) == GroundVerdict(a.state, a.basis, ValidCitations(cites, ids), a.conf)

Ids(i) == {h.id : h \in job[i].hits}
Judgment(i) == {ValidateCitations(a, cites, Ids(i)) : a \in Answers, cites \in SUBSET Quotes}

\* The deeper model answers the same request; the two-axis one judges the
\* literal truth of a claim, which is its state under another name.
DeeperJudgment(i)  == Judgment(i)
LiteralJudgment(i) == Judgment(i)

\* A second look is for a grounded verdict of middling confidence.
Qualifies(verdict) == verdict.basis = "evidence" /\ verdict.conf \in MidLo .. MidHi

Verify(i) ==
  /\ job[i].pc = "verify" /\ ClaimOnly /\ UNCHANGED shown
  /\ \/ CallFails /\ Fails(i)
     \/ NoCallFault /\ mode = "political" /\ \E verdict \in LiteralJudgment(i) : Reached(i, verdict, "verifier")
     \/ NoCallFault /\ mode # "political" /\ \E verdict \in Judgment(i) :
          IF mode = "second pass" /\ Qualifies(verdict)
          THEN job' = [job EXCEPT ![i].pc = "reverify", ![i].verdict = verdict] /\ UNCHANGED cache
          ELSE Reached(i, verdict, "verifier")

\* Mutant: the deeper model's word replaces the first one whatever it rests on.
UpgradeAlways(fast, reasoned) == reasoned

\* An ungrounded second opinion changes nothing.
Upgrade(fast, reasoned) == IF reasoned.basis = "evidence" /\ reasoned.cites # {} THEN reasoned ELSE fast

\* Outside the pool; a failure leaves the first verdict.
Reverify(i) ==
  /\ job[i].pc = "reverify" /\ ClaimOnly /\ UNCHANGED shown
  /\ \/ CallFails /\ Reached(i, job[i].verdict, "verifier")
     \/ NoCallFault /\ \E reasoned \in DeeperJudgment(i) : Reached(i, Upgrade(job[i].verdict, reasoned), "verifier")

\* Every claim of the unit has its result.
Gather ==
  /\ unit.pc = "claims" /\ \A i \in DOMAIN job : job[i].pc \notin Working
  /\ Turn("done")
  /\ UNCHANGED <<mode, job, cache, live, shown, units, callFaults>>

\* An entry outlives its time to live.
Expire(t) ==
  /\ cache[t] # None /\ cache' = [cache EXCEPT ![t] = None]
  /\ UNCHANGED <<mode, unit, job, live, shown, units, callFaults>>

Judge(i) == Lookup(i) \/ Retrieve(i) \/ Borrow(i) \/ Route(i) \/ AcquireVerifySlot(i) \/ Verify(i) \/ Reverify(i)
NextAdjudication ==
  \/ NextUnit \/ ClaimGate \/ Gate \/ Match \/ Decompose \/ Gather \/ LiveSessions
  \/ \E i \in DOMAIN job : Judge(i)
  \/ \E t \in Texts : Expire(t)

\* Calls return (a document's under the deadline of its analysis); the runtime serves the senders of a channel in
\* turn, and live sessions give their slots back.
AdjudicationFairness ==
  /\ WF_adjudicationVars(ClaimGate \/ Gate \/ Match \/ Decompose \/ Gather)
  /\ \A i \in 1 .. MaxClaims :
       /\ WF_adjudicationVars(Lookup(i) \/ Retrieve(i) \/ Borrow(i) \/ Route(i) \/ Verify(i) \/ Reverify(i))
       /\ SF_adjudicationVars(AcquireVerifySlot(i))
  /\ WF_adjudicationVars(LiveReleases /\ UNCHANGED <<mode, unit, job, cache, shown, units, callFaults>>)

-----------------------------------------------------------------------------
(* Properties.                                                             *)

\* The shape of the state; the calls of the pool, live ones included, fit in it.
AdjudicationTypeOK ==
  /\ mode \in Modes /\ units \in 0 .. MaxUnits /\ callFaults \in 0 .. MaxCallFaults
  /\ unit.pc \in {"idle", "gate", "decompose", "match", "claims", "done", "failed", "skipped"}
  /\ \A i \in DOMAIN job : job[i].pc \in Working \cup {"none", "done", "error"}
  /\ live + Cardinality(Holders) <= VerifySlots

AnsweredClaims == {i \in DOMAIN job : job[i].pc = "done"}

\* What a result cites was found for its own claim and says what it quotes,
\* also when the result comes from the cache; and a model's verdict that calls
\* itself evidence cites something (verify.go, ValidateCitations).
CitationsHold ==
  \A i \in AnsweredClaims :
    /\ \A q \in job[i].verdict.cites : q.exact /\ q.id \in shown[job[i].text]
    /\ job[i].by = "verifier" /\ job[i].verdict.basis = "evidence" => job[i].verdict.cites # {}

\* A model's verdict that rests on no citation never looks certain, whichever
\* pass gave it (second_pass.go, capKnowledgeConfidence).
KnowledgeStaysCapped ==
  \A i \in AnsweredClaims : job[i].by \in {"verifier", "silence"} /\ job[i].verdict.basis = "knowledge" => job[i].verdict.conf \in 0 .. Cap

\* "Nothing to check against" is said only when every source that was asked
\* answered: an outage is an error (route.go, Retrieve).
SilenceIsHonest ==
  \A i \in AnsweredClaims : job[i].by = "silence" => ~job[i].failed

\* The weights shown with the matches are the ones the score counted, and the
\* ranking lets no evidence of the same score hide a curated claim (confidence.go).
ScoreIsExplained ==
  unit.pc = "done" /\ mode = "matching" =>
    LET c == Confidence(unit.matches)
    IN Total(Contributions(unit.matches)) = c.supporting + c.contradicting

\* The second look never trades a grounded verdict for an ungrounded one.
NeverDowngraded ==
  [][\A i \in DOMAIN job :
       job[i].pc = "reverify" /\ job'[i].pc = "done" => job'[i].verdict.basis = "evidence" /\ job'[i].verdict.cites # {}]_adjudicationVars

\* Every unit taken is answered: skipped, failed, or with a result for each of
\* its claims, none of them shed for want of a slot (verify_path.go, AnalyzeText).
UnitSettles == unit.pc = "gate" ~> unit.pc \in {"done", "failed", "skipped"}

\* A verdict that rests on no citation never looks certain, a borrowed one
\* included: the code does not keep it.
NeverCertainUngrounded ==
  \A i \in AnsweredClaims : job[i].verdict.basis = "knowledge" => job[i].verdict.conf <= Cap

\* A verdict grounded in evidence cites it, a borrowed one included: the code
\* does not keep it.
EvidenceIsCited ==
  \A i \in AnsweredClaims : job[i].verdict.basis = "evidence" => job[i].verdict.cites # {}

\* What a claim is answered with is grounded in what was asked and what came
\* back: citations hold, knowledge stays under its cap, silence means silence,
\* and a score is explained by its matches.
JudgmentSound ==
  /\ AdjudicationTypeOK /\ CitationsHold /\ KnowledgeStaysCapped
  /\ SilenceIsHonest /\ ScoreIsExplained
=============================================================================
