---------------------------- MODULE CategoryWalk ----------------------------
(***************************************************************************)
(* The walk a crawl begins with (internal/wiki/crawl.go, mediawiki.go and  *)
(* cmd/wikicrawl): from the categories of its shard, breadth first and no  *)
(* deeper than MaxDepth, until it has maxPages articles.  A category's     *)
(* members come a few rows per reply, and a request that is throttled or   *)
(* lost is sent again, ApiRetries times.  The wiki stands still meanwhile. *)
(***************************************************************************)
EXTENDS Naturals, Sequences, FiniteSets, SequencesExt, Functions

CONSTANTS
  Categories, Articles,
  CategoryGraphs,    \* the wikis: the rows of each category, in order
  SeedCategories,    \* CRAWL_CATEGORIES, a sequence
  Shards, MaxDepth,
  PageLimits,        \* the values of CRAWL_MAX_PAGES
  RowsPerReply, ApiRetries,
  MaxApiFaults       \* requests that fail

ASSUME WalkAssumption ==
  /\ Categories \cap Articles = {} /\ SeedCategories \in Seq(Categories)
  /\ CategoryGraphs \subseteq [Categories -> Seq(Categories \cup Articles)]
  /\ {Shards, RowsPerReply} \subseteq Nat \ {0} /\ PageLimits \subseteq Nat \ {0}
  /\ {MaxDepth, ApiRetries, MaxApiFaults} \subseteq Nat

VARIABLES
  rows,       \* the wiki: one of CategoryGraphs
  maxPages,   \* one of PageLimits
  walk,       \* the walk of each shard
  apiFaults

walkVars == <<rows, maxPages, walk, apiFaults>>

ShardIndexes == 0 .. Shards - 1
Frontier(category, depth) == [title |-> category, depth |-> depth]
NotWalking ==
  [pc |-> "off", queue |-> << >>, seen |-> {}, out |-> << >>, at |-> << >>, read |-> 0, tries |-> 0]

InitWalk ==
  /\ rows \in CategoryGraphs /\ maxPages \in PageLimits
  /\ walk = [s \in ShardIndexes |-> NotWalking] /\ apiFaults = 0

SetWalk(s, fields) == walk' = [walk EXCEPT ![s] = fields @@ @]

\* The i-th category is the business of shard i mod Shards.
ShardCategories(s) ==
  LET mine == SelectSeq([i \in DOMAIN SeedCategories |-> <<i, SeedCategories[i]>>],
                        LAMBDA x : (x[1] - 1) % Shards = s)
  IN [i \in DOMAIN mine |-> mine[i][2]]

\* Categories join the queue once in a walk.
Enqueued(w, categories, depth) ==
  FoldLeft(LAMBDA v, c : IF c \in v.seen THEN v
                         ELSE [v EXCEPT !.seen = @ \cup {c}, !.queue = Append(@, Frontier(c, depth))],
           w, categories)

StartWalk(s) ==
  /\ walk[s].pc = "off"
  /\ walk' = [walk EXCEPT ![s] = [Enqueued(@, ShardCategories(s), 0) EXCEPT !.pc = "pick"]]
  /\ UNCHANGED <<rows, maxPages, apiFaults>>

\* Mutant: the category found last is walked first.
PickLast(s) ==
  LET w == walk[s]
  IN /\ w.pc = "pick"
     /\ SetWalk(s, IF w.queue # << >> /\ Len(w.out) < maxPages
                   THEN [pc |-> "ask", at |-> Last(w.queue), queue |-> Front(w.queue), read |-> 0, tries |-> 0]
                   ELSE [pc |-> "done", queue |-> << >>])
     /\ UNCHANGED <<rows, maxPages, apiFaults>>

PickCategory(s) ==
  LET w == walk[s]
  IN /\ w.pc = "pick"
     /\ SetWalk(s, IF w.queue # << >> /\ Len(w.out) < maxPages
                   THEN [pc |-> "ask", at |-> Head(w.queue), queue |-> Tail(w.queue), read |-> 0, tries |-> 0]
                   ELSE [pc |-> "done", queue |-> << >>])
     /\ UNCHANGED <<rows, maxPages, apiFaults>>

Members(c, kind) == SelectSeq(rows[c], LAMBDA x : x \in kind)

\* The articles of a category that the walk has not met, while there is room.
Collected(out, articles) ==
  FoldLeft(LAMBDA o, a : IF Len(o) >= maxPages \/ a \in Range(o) THEN o ELSE Append(o, a), out, articles)

Visited(w) ==
  LET c == w.at.title
      deeper == IF w.at.depth < MaxDepth THEN Members(c, Categories) ELSE << >>
  IN Enqueued([w EXCEPT !.out = Collected(@, Members(c, Articles))], deeper, w.at.depth + 1)

\* One reply: with a continuation token, or the last of the category.
Answered(s) ==
  LET w == walk[s]
      more == w.read + RowsPerReply < Len(rows[w.at.title])
  IN /\ w.pc = "ask"
     /\ walk' = [walk EXCEPT ![s] = IF more THEN [w EXCEPT !.read = @ + RowsPerReply, !.tries = 0]
                                    ELSE [Visited(w) EXCEPT !.pc = "pick", !.at = << >>]]
     /\ UNCHANGED <<rows, maxPages, apiFaults>>

ApiFault == apiFaults < MaxApiFaults /\ apiFaults' = apiFaults + 1

\* 429, 503 or a lost connection: the same request goes out again after a wait.
Throttled(s) ==
  /\ ApiFault /\ walk[s].pc = "ask"
  /\ SetWalk(s, IF walk[s].tries < ApiRetries THEN [tries |-> walk[s].tries + 1] ELSE [pc |-> "failed"])
  /\ UNCHANGED <<rows, maxPages>>

\* Any other answer, or an interrupt: the walk returns nothing.
WalkFails(s) ==
  /\ ApiFault /\ walk[s].pc = "ask"
  /\ SetWalk(s, [pc |-> "failed"])
  /\ UNCHANGED <<rows, maxPages>>

NextWalk ==
  \E s \in ShardIndexes :
    StartWalk(s) \/ PickCategory(s) \/ Answered(s) \/ Throttled(s) \/ WalkFails(s)

WalkSpec == InitWalk /\ [][NextWalk]_walkVars

-----------------------------------------------------------------------------
WalkTypeOK ==
  /\ rows \in [Categories -> Seq(Categories \cup Articles)] /\ maxPages \in PageLimits /\ apiFaults \in 0 .. MaxApiFaults
  /\ \A s \in ShardIndexes :
       /\ walk[s].pc \in {"off", "pick", "ask", "done", "failed"} /\ walk[s].tries \in 0 .. ApiRetries
       /\ walk[s].seen \subseteq Categories /\ Range(walk[s].out) \subseteq Articles

\* The categories at most n steps from some of them, and their articles.
Within(from, n) ==
  LET reach[k \in 0 .. n] == IF k = 0 THEN from
                             ELSE reach[k - 1] \cup UNION {Range(Members(c, Categories)) : c \in reach[k - 1]}
  IN reach[n]
Reachable(from) == UNION {Range(Members(c, Articles)) : c \in Within(from, MaxDepth)}

Full(s) == Len(walk[s].out) = maxPages
Walked(s) == walk[s].pc = "done"
Found(s) == Range(walk[s].out)

(* A walk that ends has no article twice and none from too deep; unless it is *)
(* full it has every article within reach of its categories, however they are *)
(* linked and in whatever order they turn up (CategoryMembers).  The shards   *)
(* between them miss nothing of the list (ShardCategories).                   *)
WalkWhole ==
  /\ \A s \in ShardIndexes : Walked(s) =>
       /\ IsInjective(walk[s].out) /\ Len(walk[s].out) <= maxPages
       /\ Found(s) \subseteq Reachable(Range(ShardCategories(s)))
       /\ ~Full(s) => Found(s) = Reachable(Range(ShardCategories(s)))
  /\ (\A s \in ShardIndexes : Walked(s) /\ ~Full(s)) =>
       UNION {Found(s) : s \in ShardIndexes} = Reachable(Range(SeedCategories))

WalkSound == WalkTypeOK /\ WalkWhole

(* "N producers each given a distinct index crawl disjoint categories and     *)
(* never duplicate API work" (ShardCategories): refuted, only the categories  *)
(* of the list are dealt out, and two of them may share a subcategory.        *)
ShardsDisjoint ==
  \A s, t \in ShardIndexes :
    s # t /\ walk[s].pc = "ask" /\ walk[t].pc = "ask" => walk[s].at.title # walk[t].at.title
=============================================================================
