------------------------------- MODULE Seeding -------------------------------
(***************************************************************************)
(* The seed tool (cmd/seed, internal/seed, internal/ingest) and the        *)
(* embedding cache it reads (internal/embed/cache.go).  A refresh embeds   *)
(* every fixture text and replaces the cache file; a seeding run loads the *)
(* file and upserts the selected datasets, each in its own way, with a     *)
(* crash or an error possible between any two writes.  Meanwhile fixtures  *)
(* are edited and an operator changes the channels.                        *)
(*                                                                         *)
(* A vector is the text, without its spacing, and the model it comes from. *)
(* The size of a clip is the clip.                                         *)
(***************************************************************************)
EXTENDS Naturals, FiniteSets, Functions

CONSTANTS
  Claims, Chunks, Politicals,   \* fixture entries of the three text datasets
  Texts, Normal,                \* fixture texts; NormalizeText
  FirstTexts,                   \* text of each entry at first
  Models,                       \* values of EMBEDDING_MODEL
  Clips,                        \* media a sample may be fetched from
  Channels,                     \* the registry
  Selections,                   \* datasets a run may be asked for
  BatchSize,                    \* ingest's batch
  None, Partial,
  MaxRuns, MaxEdits, MaxOps,    \* bounds: tool runs, edits, operator changes
  ClipsMayChange                \* SAMPLE_VIDEO_URL may differ between runs

Items == Claims \cup Chunks \cup Politicals
Datasets == {"claims", "wiki", "political", "videos", "tvChannels"}

ASSUME SeedingAssumption ==
  /\ Normal \in [Texts -> Nat] /\ FirstTexts \in [Items -> Texts]
  /\ BatchSize \in Nat \ {0}
  /\ Selections \subseteq SUBSET Datasets
  /\ ClipsMayChange \in BOOLEAN

VARIABLES
  fixture,    \* text of each entry, and the fixtures that do not validate
  cacheFile,  \* the committed cache: vectors by key, None or Partial
  tmp,        \* the temporary file of a save or of a fetch
  media,      \* the media cache: a clip, None or Partial
  object,     \* the sample's object in storage
  sample,     \* the sample's row: its size, 0 when unknown, or None
  db,         \* rows of the text datasets: content and vector, or None
  corpus,     \* the source evidence_sync_state is claimed for
  channel,    \* rows of the registry, or None
  intent,     \* what the operator last set for each channel
  tool,       \* the run in progress
  runs, edits, ops

seedFiles == <<cacheFile, tmp, media>>
seedRows  == <<object, sample, db, corpus, channel>>
seedingVars == <<fixture, seedFiles, seedRows, intent, tool, runs, edits, ops>>

Row(content, vec) == [content |-> content, vec |-> vec]
CacheKey(model, text) == <<model, Normal[text]>>

Resting == [pc |-> "idle", select |-> {}, model |-> None,
            cache |-> << >>, text |-> << >>, todo |-> {}, clip |-> None, size |-> 0]

InitSeeding ==
  /\ fixture = [text |-> FirstTexts, bad |-> {}]
  /\ cacheFile = None /\ tmp = None /\ media = None
  /\ object = None /\ sample = None /\ corpus = None
  /\ db = [i \in Items |-> None]
  /\ channel = [c \in Channels |-> None] /\ intent = [c \in Channels |-> None]
  /\ tool = Resting
  /\ runs = 0 /\ edits = 0 /\ ops = 0

-----------------------------------------------------------------------------
(* The run's control.                                                      *)

Follow == [claims |-> "wiki", wiki |-> "political", political |-> "videos",
           videos |-> "tvChannels", tvChannels |-> "done"]

\* The first selected dataset from d on.
NextDataset(d) ==
  LET skip[x \in Datasets \cup {"done"}] ==
        IF x = "done" \/ x \in tool.select THEN x ELSE skip[Follow[x]]
  IN skip[d]

At(pc) == tool.pc = pc
Goto(pc) == tool' = [tool EXCEPT !.pc = pc]
Fail == tool' = Resting
RunBounds == UNCHANGED <<runs, edits, ops>>

Start(select, model, clip) ==
  /\ At("idle") /\ runs < MaxRuns /\ runs' = runs + 1
  /\ select # {}
  /\ tool' = [Resting EXCEPT !.pc = "open", !.select = select, !.model = model, !.clip = clip]
  /\ UNCHANGED <<fixture, seedFiles, seedRows, intent, edits, ops>>

StartRefresh(model) ==
  /\ At("idle") /\ runs < MaxRuns /\ runs' = runs + 1
  /\ tool' = [Resting EXCEPT !.pc = "embed", !.model = model]
  /\ UNCHANGED <<fixture, seedFiles, seedRows, intent, edits, ops>>

\* The process is killed, a call fails, or a signal cancels its context.
Crash ==
  /\ ~At("idle") /\ ~At("done")
  /\ Fail /\ tmp' = None
  /\ UNCHANGED <<fixture, cacheFile, media, seedRows, intent>> /\ RunBounds

Finish ==
  /\ At("done")
  /\ tool' = Resting
  /\ UNCHANGED <<fixture, seedFiles, seedRows, intent>> /\ RunBounds

\* Only the text datasets open the cache; one that does not decode is an error.
Open ==
  /\ At("open")
  /\ IF tool.select \cap {"claims", "wiki", "political"} = {}
     THEN Goto(NextDataset("videos"))
     ELSE IF cacheFile = Partial THEN Fail
     ELSE tool' = [tool EXCEPT !.pc = NextDataset("claims"),
                               !.cache = IF cacheFile = None THEN << >> ELSE cacheFile]
  /\ UNCHANGED <<fixture, seedFiles, seedRows, intent>> /\ RunBounds

-----------------------------------------------------------------------------
(* The refresh: all the texts, then a temporary file renamed into place.   *)

Refresh ==
  /\ At("embed")
  /\ IF fixture.bad # {} THEN Fail
     ELSE tool' = [tool EXCEPT !.pc = "write",
            !.cache = [k \in {CacheKey(tool.model, fixture.text[i]) : i \in Items} |->
                         [model |-> k[1], word |-> k[2]]]]
  /\ UNCHANGED <<fixture, seedFiles, seedRows, intent>> /\ RunBounds

CreateTmp ==
  /\ At("write") /\ tmp = None
  /\ tmp' = Partial
  /\ UNCHANGED <<fixture, cacheFile, media, seedRows, intent, tool>> /\ RunBounds

WriteTmp ==
  /\ At("write") /\ tmp = Partial
  /\ tmp' = tool.cache /\ Goto("rename")
  /\ UNCHANGED <<fixture, cacheFile, media, seedRows, intent>> /\ RunBounds

Rename ==
  /\ At("rename")
  /\ cacheFile' = tmp /\ tmp' = None /\ Goto("done")
  /\ UNCHANGED <<fixture, media, seedRows, intent>> /\ RunBounds

-----------------------------------------------------------------------------
(* The text datasets.                                                      *)

\* The offline embedder: every text is in the cache or none is served.
Cached(i) == CacheKey(tool.model, tool.text[i]) \in DOMAIN tool.cache
CachedVector(i) == tool.cache[CacheKey(tool.model, tool.text[i])]

Entries(d) == CASE d = "claims" -> Claims [] d = "wiki" -> Chunks [] OTHER -> Politicals

\* A fixture is read whole and validated before anything is embedded.
LoadFixture(d, next) ==
  /\ At(d)
  /\ IF d \in fixture.bad THEN Fail
     ELSE tool' = [tool EXCEPT !.pc = next, !.todo = Entries(d),
                     !.text = [i \in Entries(d) \cup DOMAIN @ |->
                                IF i \in Entries(d) THEN fixture.text[i] ELSE @[i]]]
  /\ UNCHANGED <<fixture, seedFiles, seedRows, intent>> /\ RunBounds

LoadClaims    == LoadFixture("claims", "upsert claims")
LoadWiki      == LoadFixture("wiki", "ensure source")
LoadPolitical == LoadFixture("political", "upsert political")

\* The store's upsert by id.
Stored(batch) ==
  [i \in Items |-> IF i \in batch THEN Row(tool.text[i], CachedVector(i)) ELSE db[i]]

\* Rows and vectors of one batch are written in one statement.
UpsertBatch(batch, then) ==
  /\ batch \subseteq tool.todo
  /\ Cardinality(batch) = IF Cardinality(tool.todo) < BatchSize
                          THEN Cardinality(tool.todo) ELSE BatchSize
  /\ IF \E i \in batch : ~Cached(i) THEN Fail /\ UNCHANGED db
     ELSE /\ db' = Stored(batch)
          /\ tool' = [tool EXCEPT !.todo = @ \ batch,
                                  !.pc = IF batch = tool.todo THEN then ELSE @]
  /\ UNCHANGED <<fixture, seedFiles, object, sample, corpus, channel, intent>> /\ RunBounds

\* A batch too few.
SeedClaims ==
  /\ At("upsert claims")
  /\ \E batch \in SUBSET tool.todo : UpsertBatch(batch, NextDataset("wiki"))

\* The political claims: all are embedded before the first is written.
SeedPolitical ==
  /\ At("upsert political")
  /\ IF \E i \in tool.todo : ~Cached(i) THEN Fail /\ UNCHANGED db
     ELSE \E i \in tool.todo :
            /\ db' = Stored({i})
            /\ tool' = [tool EXCEPT !.todo = @ \ {i},
                          !.pc = IF tool.todo = {i} THEN NextDataset("videos") ELSE @]
  /\ UNCHANGED <<fixture, seedFiles, object, sample, corpus, channel, intent>> /\ RunBounds

EnsureSource ==
  /\ At("ensure source")
  /\ IF corpus = "other" THEN Fail /\ UNCHANGED corpus
     ELSE corpus' = "seed" /\ Goto("upsert chunks")
  /\ UNCHANGED <<fixture, seedFiles, object, sample, db, channel, intent>> /\ RunBounds

\* A chunk keeps its vector as long as its content is the same.
Upserted(i) ==
  Row(tool.text[i], IF db[i] # None /\ db[i].content = tool.text[i] THEN db[i].vec ELSE None)

UpsertChunks ==
  /\ At("upsert chunks")
  /\ db' = [i \in Items |-> IF i \in Chunks THEN Upserted(i) ELSE db[i]]
  /\ Goto("set embeddings")
  /\ UNCHANGED <<fixture, seedFiles, object, sample, corpus, channel, intent>> /\ RunBounds

SetEmbeddings ==
  /\ At("set embeddings")
  /\ IF \E i \in Chunks : ~Cached(i) THEN Fail /\ UNCHANGED db
     ELSE /\ db' = [i \in Items |-> IF i \in Chunks THEN [db[i] EXCEPT !.vec = CachedVector(i)] ELSE db[i]]
          /\ Goto(NextDataset("political"))
  /\ UNCHANGED <<fixture, seedFiles, object, sample, corpus, channel, intent>> /\ RunBounds

-----------------------------------------------------------------------------
(* The sample: its media when it can be had, then its row.                 *)

\* A cached clip is used whatever the address; otherwise it is fetched.
CachedClip ==
  /\ At("videos") /\ media # None
  /\ tool' = [tool EXCEPT !.pc = "exists", !.size = media]
  /\ UNCHANGED <<fixture, seedFiles, seedRows, intent>> /\ RunBounds

FetchStarts ==
  /\ At("videos") /\ media = None
  /\ tmp' = Partial /\ Goto("fetch")
  /\ UNCHANGED <<fixture, cacheFile, media, seedRows, intent>> /\ RunBounds

Fetched ==
  /\ At("fetch")
  /\ media' = tool.clip /\ tmp' = None
  /\ tool' = [tool EXCEPT !.pc = "exists", !.size = tool.clip]
  /\ UNCHANGED <<fixture, cacheFile, seedRows, intent>> /\ RunBounds

\* No network, an error status, a broken or an empty body: the row is seeded
\* without media.
FetchFails ==
  /\ At("fetch")
  /\ tmp' = None
  /\ tool' = [tool EXCEPT !.pc = "sample", !.size = 0]
  /\ UNCHANGED <<fixture, cacheFile, media, seedRows, intent>> /\ RunBounds

\* Mutant: the sample is uploaded when its object is there, not when it is missing.
ExistsInverted ==
  /\ At("exists")
  /\ Goto(IF object # None THEN "upload" ELSE "sample")
  /\ UNCHANGED <<fixture, seedFiles, seedRows, intent>> /\ RunBounds

Exists ==
  /\ At("exists")
  /\ Goto(IF object # None THEN "sample" ELSE "upload")
  /\ UNCHANGED <<fixture, seedFiles, seedRows, intent>> /\ RunBounds

Upload ==
  /\ At("upload")
  /\ object' = media /\ Goto("sample")
  /\ UNCHANGED <<fixture, seedFiles, sample, db, corpus, channel, intent>> /\ RunBounds

\* A known size survives a row seeded without media.
KnownSize(row, size) == IF size # 0 \/ row = None THEN size ELSE row

UpsertSample ==
  /\ At("sample")
  /\ sample' = KnownSize(sample, tool.size)
  /\ Goto(NextDataset("tvChannels"))
  /\ UNCHANGED <<fixture, seedFiles, object, db, corpus, channel, intent>> /\ RunBounds

-----------------------------------------------------------------------------
(* The channel registry.                                                   *)

SeedRow == [label |-> "seed", enabled |-> FALSE, archive |-> TRUE]

LoadRegistry ==
  /\ At("tvChannels")
  /\ tool' = [tool EXCEPT !.pc = "upsert channels", !.todo = Channels]
  /\ UNCHANGED <<fixture, seedFiles, seedRows, intent>> /\ RunBounds

\* What a conflict on the slug leaves of the row.
Refreshed(row) == [row EXCEPT !.label = SeedRow.label]

UpsertChannel(c) ==
  /\ At("upsert channels") /\ c \in tool.todo
  /\ channel' = [channel EXCEPT ![c] = IF @ = None THEN SeedRow ELSE Refreshed(@)]
  /\ intent' = [intent EXCEPT ![c] = IF channel[c] = None
                                     THEN [enabled |-> FALSE, archive |-> TRUE] ELSE @]
  /\ tool' = [tool EXCEPT !.todo = @ \ {c}, !.pc = IF tool.todo = {c} THEN "done" ELSE @]
  /\ UNCHANGED <<fixture, seedFiles, object, sample, db, corpus>> /\ RunBounds

-----------------------------------------------------------------------------
(* Around the tool.                                                        *)

Operate(c, row) ==
  /\ ops < MaxOps /\ ops' = ops + 1
  /\ channel[c] # None /\ channel' = [channel EXCEPT ![c] = row]
  /\ intent' = [intent EXCEPT ![c] = IF row = None THEN None
                ELSE [enabled |-> row.enabled, archive |-> row.archive]]
  /\ UNCHANGED <<fixture, seedFiles, object, sample, db, corpus, tool, runs, edits>>

Edited(c) == {[channel[c] EXCEPT !.enabled = ~@], [channel[c] EXCEPT !.archive = ~@],
              [channel[c] EXCEPT !.label = "edited"], None}

EditFixture(f) ==
  /\ edits < MaxEdits /\ edits' = edits + 1
  /\ f # fixture /\ fixture' = f
  /\ UNCHANGED <<seedFiles, seedRows, intent, tool, runs, ops>>

\* A wiki sync claims the corpus; the media cache is cleared.
ClaimOther ==
  /\ corpus = None /\ edits < MaxEdits /\ edits' = edits + 1
  /\ corpus' = "other"
  /\ UNCHANGED <<fixture, seedFiles, object, sample, db, channel, intent, tool, runs, ops>>

ClearMedia ==
  /\ At("idle") /\ media # None /\ edits < MaxEdits /\ edits' = edits + 1
  /\ media' = None
  /\ UNCHANGED <<fixture, cacheFile, tmp, seedRows, intent, tool, runs, ops>>

Edits == {[fixture EXCEPT !.text[i] = t] : i \in Items, t \in Texts}
         \cup {[fixture EXCEPT !.bad = {d}] : d \in {"claims", "wiki", "political"}}

ClipsOf == IF ClipsMayChange THEN Clips ELSE {CHOOSE c \in Clips : TRUE}

ToolStep ==
  \/ Finish \/ Open
  \/ Refresh \/ CreateTmp \/ WriteTmp \/ Rename
  \/ LoadClaims \/ SeedClaims
  \/ LoadWiki \/ EnsureSource \/ UpsertChunks \/ SetEmbeddings
  \/ LoadPolitical \/ SeedPolitical
  \/ CachedClip \/ FetchStarts \/ Fetched \/ FetchFails \/ Exists \/ Upload \/ UpsertSample
  \/ LoadRegistry \/ (\E c \in Channels : UpsertChannel(c))

NextSeeding ==
  \/ \E s \in Selections, m \in Models, c \in ClipsOf : Start(s, m, c)
  \/ \E m \in Models : StartRefresh(m)
  \/ ToolStep \/ Crash
  \/ \E c \in Channels : channel[c] # None /\ \E row \in Edited(c) : Operate(c, row)
  \/ \E f \in Edits : EditFixture(f)
  \/ ClaimOther \/ ClearMedia

SeedingSpec == InitSeeding /\ [][NextSeeding]_seedingVars

-----------------------------------------------------------------------------
(* Properties.                                                             *)

SeedingTypeOK ==
  /\ fixture.text \in [Items -> Texts]
  /\ \A i \in Items : db[i] = None \/ db[i].content \in Texts
  /\ \A i \in Claims \cup Politicals : db[i] # None => db[i].vec # None
  /\ tool.pc = "idle" => tool = Resting /\ tmp = None
  /\ tool.todo \subseteq Items \cup Channels
  /\ object \in Clips \cup {None, Partial} /\ sample \in Clips \cup {None, 0}
  /\ {corpus} \subseteq {None, "seed", "other"}

\* Whatever the step a save or a fetch dies in, the next run finds a cache
\* that decodes and a clip that is whole.
FilesWhole == cacheFile # Partial /\ media # Partial /\ object # Partial

\* A row is never found under the vector of another text: not between the
\* upsert of a chunk and its embedding, nor after a run that stopped there.
VectorOfContent ==
  \A i \in Items : db[i] # None /\ db[i].vec # None => db[i].vec.word = Normal[db[i].content]

\* A run that succeeds leaves every entry of the datasets it was asked for in
\* the store, as the fixture had it and with its vector of the run's model.
SeededWhole ==
  At("done") => \A d \in tool.select \cap {"claims", "wiki", "political"} : \A i \in Entries(d) :
    /\ db[i] # None /\ db[i].content = tool.text[i]
    /\ db[i].vec = CachedVector(i) /\ db[i].vec.model = tool.model

\* A row that gives the sample a size has the media behind it.
MediaBehindSize == sample \notin {None, 0} => object # None

\* Reseeding never re-arms what the operator turned off, nor disarms it.
ToggleKept ==
  \A c \in Channels : channel[c] # None =>
    [enabled |-> channel[c].enabled, archive |-> channel[c].archive] = intent[c]

\* Makefile, line 146, and seed/video.go, lines 31 to 33: SAMPLE_VIDEO_URL
\* overrides the clip, so an operator can supply one that matches.
\* (The code does not keep this: the media cache and the object are found by
\* the sample's key, whatever the address they came from.)
OverrideTakesEffect == At("done") /\ "videos" \in tool.select /\ tool.size # 0 => object = tool.clip

\* The size recorded is the size of the object. (The code does not keep this
\* when the address changes and the media cache is cleared.)
SizeOfObject == sample \notin {None, 0} => sample = object

\* Whatever step a run dies in and however runs follow one another: files are
\* whole, vectors belong to their texts, a run that succeeds leaves everything
\* it was asked for, media come before their size, and a toggle is kept.
SeedSound ==
  /\ SeedingTypeOK /\ FilesWhole /\ VectorOfContent
  /\ SeededWhole /\ MediaBehindSize /\ ToggleKept
=============================================================================
