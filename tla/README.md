# Truth in Stream: a verification project

TLA+ models of Truth in Stream: the Go backend (`src/stack/backend`), the
browser's side of what it shows live (`src/stack/frontend`) and the functions
that look after its workers. Truth in Stream is a service that listens to live
speech, videos, television channels and documents, splits what is said into
statements and fact-checks each of them against a corpus it keeps up to date.
TLC checks the models on small instances; TLAPS proves the results that matter
most for every value of the constants.

Go paths below are relative to `src/stack/backend/internal/`, TypeScript paths
to `src/stack/frontend/src/`, unless they say otherwise.

## 1. The system and what is hard about it

| component | code | state | operations | modules |
|---|---|---|---|---|
| live session | `service/live.go` | the unit being accumulated, idle timer and hold counter, unit queue, worker pool, event stream | receive interim or final, idle fire, flush, shed, score, close | `LiveAnalyzer`, `Statements`, `LiveAnalyzerProofs` |
| sentence scans | `service/live.go` | a text | count sentences, look for an open fragment | `TextShape`, `TextScan` |
| speaker memory | `service/consistency.go`, `live.go` | statements per speaker, a lock per speaker, stance slots | detect, rank, classify, flag, remember | `SpeakerMemory`, `SpeakerMemoryProofs` |
| transcription client | `transcribe/` | audio buffer, writer and reader of a socket, event channel | frame audio, split turns, end, close | `Transcriber`, `SpeakerMemoryProofs` |
| live socket | `handler/live.go`, `service/snapshot*.go` | audio channel, contexts, captured events, stored analyses | read audio, ping, write events, close, store, replay | `LiveSocket`, `LiveSocketProofs` |
| browser live session | `lib/live/`, `hooks/use-live-analysis.ts` | phase, attempts, intent, socket, capture, timer, statements, claims | play, pause, seek, open, close, reconnect, apply frames | `LiveSession`, `VerifyPath`, `LiveAnalyzerProofs` |
| verify path | `service/verify_path.go`, `second_pass.go`, `credibility.go`, `political_path.go` | verify slots, claim cache, speaker tallies | decompose, match, verify, upgrade, count | `VerifyPath`, `ClaimLifecycle`, `VerifyPathProofs` |
| claim judgment, gates and matching | the same, `service/gate.go`, `match.go`, `route.go`, `precheck*.go` | a unit, its claims, the cache, the pool | gate, match, route, retrieve, borrow, verify, verify again | `Adjudication`, `EvidenceProofs` |
| embedding client | `embed/` | one limiter, one context, a call per worker | retry, pace, send, read a reply | `EmbedClient`, `VerifyPathProofs` |
| channel hub | `service/tvhub.go`, `handler/tv_live.go` | rooms by channel, publisher flag, ring, subscribers | publish, feed, broadcast, end, subscribe, leave, reap | `TVHub`, `ChannelProofs` |
| channel viewer | `hooks/use-channel-live.ts`, `lib/live/` | status, attempts, timer, rows, claims, tallies | open, receive, lose, retry, give up | `ChannelViewer`, `LiveSocketProofs` |
| channel registry | `app/backoffice/_components/backoffice-tv-*.tsx`, `lib/tv/api.ts`, `service/tv_channel.go` | the table, tabs and forms, requests in flight | list, create, edit, toggle | `ChannelAdmin`, `ChannelProofs` |
| channel capture | `tvcapture/`, `service/tv_recording.go` | a supervisor per channel, segment files, rows and objects | reconcile, run, rotate, salvage, archive, prune, stop | `Capture`, `ChannelProofs` |
| document analysis | `service/document*.go`, `store/postgres/documents.go`, the document page | document and analysis status, results, the object, a page | upload, extract, start, run, fail, recover, delete, poll | `Documents`, `DeskProofs` |
| videos | `service/video.go`, `youtube.go`, `hooks/use-video-uploads.ts` | rows and objects, downloads in flight | register, upload, confirm, ingest, delete | `Library`, `DeskProofs` |
| embedding workers | `embedjob/`, `queue/`, `store/postgres/evidence_embed.go` | queue, in-memory batches, live and staging tables | deliver, batch, embed, requeue, drop | `EmbedFleet`, `Broker` |
| wikipedia sync | `wiki/`, `cmd/wikisync`, `cmd/wikicrawl`, `cmd/wikicluster` of the backend | dump files and their records, the walk of a crawl, checkpoint, staging plan, tables | download, walk categories, bulk run, swap, delta run, reset, cluster | `DumpMirror`, `CategoryWalk`, `Corpus`, `ClusterJob`, `EvidenceProofs` |
| accounts and access | `middleware/ratelimit.go`, `tvcapture/token.go` | a token bucket per client, the cached service token | allow, sweep, evict; fetch, use, invalidate | `LoginLimiter`, `TokenBuckets`, `CaptureToken`, `LiveSocketProofs` |
| scheduled ingestion | `crawljob/`, `factcheckjob/`, `scrutinsjob/`, `schedule/` | queues, marker, tables | tick, produce, receive, process, retry | `Ingestion`, `Broker`, `EvidenceProofs` |
| worker fleet lifecycle | `workerlifecycle/`, `cmd/workerlifecycle` | task sets, queue depths | scale, clean up, deploy | `Lifecycle`, `EvidenceProofs` |
| seeding | `cmd/seed`, `seed/`, `ingest/`, `embed/cache.go` | cache file, five datasets, the operator's switches | refresh, load, upsert | `Seeding` |

How they interact: a browser session opens a live socket, sends it audio and
builds statements, claims and tallies from its events; the live socket and the
channel hub both call `LiveAnalyzer.Run` and read its event channel; the
analyzer reads the transcription client's events; the hub fans a session's
events out to viewers; a capture process streams a channel's audio into the
hub's feed socket, for the channels the registry says are enabled; the session's
workers call the gates, the matcher, the verify path and the speaker memory;
those read the corpus that the wikipedia sync and the scheduled ingestion write
through the broker and the workers; seeding writes the curated part of it.

What is hard to test in each: `PROJECT.json` lists the hazards one by one at
their lines, with the properties that would catch them.

## 2. What each module models

### LiveAnalyzer, Statements

`loop` is the control point of `analyzeLoop`: `select` is the `select`
statement, `interim`, `subtitle` and `shed` are blocking sends on the event
channel, `join` is the code between a sent subtitle and `unit.add`, `full` the
test of the cap after it, `stopping`, `waiting` and `closed` the deferred close
of the queue, the wait for the workers and the close of the event channel. `unit`
is `liveUnit`, `timer` the idle timer, `queue` the unit channel, `worker[w]` one
goroutine of the pool and the members it has still to report. Every send can
complete (the consumer takes the event) or give up once the context is
cancelled; a `select` with two ready cases is a choice. A segment is its speaker
label and its *shape*: the three numbers `TextShape` takes from a text. Ids are
positions, so a unit's members are a set.

`Statements` is the abstract specification: statements are captioned in order
and resolved at most once after their caption, and a stream that closes with
the session not cancelled has resolved every statement. `LiveAnalyzer`
implements it by mapping `captioned` to the ids whose subtitle the consumer
has, `resolved` to those with a result, `closed` to the closed event channel.

### TextShape, TextScan

`TextScan` runs `sentenceCount` and `incompleteTrailingFragment` rune by rune
over every text up to the bound. It justifies the abstraction: the scans
compute the three numbers of `TextShape`, and joining texts with a space joins
the numbers as `TextShape!Joined` says.

### SpeakerMemory

The detection a worker runs after a verdict: wait for the speaker's lock, read
the prior statements, ask the stance model about the closest ones one slot at a
time, flag the first contradiction, remember the statement. `seen` is a history
variable: the priors a statement was ranked against.

### Transcriber

The writer gathers audio into frames the provider accepts (never short of
`MinFrame`, never above `MaxFrame`, the remainder flushed at the end), the
reader splits a committed turn wherever the speaker changes, the adapter hands
events on, and the two goroutines share a socket and a context, so whichever
ends first ends the other. The provider is external: any sequence of messages.

### LiveSocket

One socket of a video: `pc` is the handler's place between the lookup of a
stored analysis and its return, `reader` the audio reader, `pinging` the ping
loop. The analyzer is its promise, `Statements`, instantiated: composition by
contract, with `LiveAnalyzer` as the proved implementation. `peer` is what
became of the client, with `vanished` for a half-open connection and two codes
for a clean close, since `cleanClose` tells them apart. Events are captured
before they are written, as in `writeEvents`.

### LiveSession

`machine` is the reducer's state, and one operator per event (`OnPlay`,
`OnSeek`, ...) gives the next state and the commands, as `reduceSession` does;
`RunCommand` is the hook's interpreter over its refs (`hook`), the sockets and
the lists, and `Dispatch` runs a reduction's commands in order (`RunCommands`). A socket keeps
its session number for life, so events of one that was replaced still arrive
and are told apart by `IsCurrent`. The timeline is in units of one utterance:
`ApplyFrame` puts the n-th utterance a session heard at the session's base time
plus n - 1. The server is seen through what it may do: accept, replay, refuse,
end once all is resolved, or drop the connection.

### VerifyPath, ClaimLifecycle

What a worker does with a unit when the verify path is on. `worker[w]` is the
goroutine in `scoreUnit`, waiting at `claims` in `wg.Wait`; `job[c]` is one
`scoreClaim` goroutine, its control point named after the call it is about to
make. `mode` is the wiring (`credibility`, `second pass` or `political`; the
constructor never combines the last two). The counted verdict and its snapshot
are one step under the memory's mutex, the send of the snapshot another, so
snapshots may pass each other. `row` and `panel` are the browser's claim rows
and tallies, updated by the reducers of `claims.ts` and `speakers.ts`.
`ClaimLifecycle` is the abstract specification of one row; `VerifyPath`
implements it with `finished` mapped to the claims whose unit's worker has
moved on. One session is modelled; the pool and the cache are shared with
others, whose effect (a hit, an expiry, a full pool) is already a choice.

### Adjudication

What a claim's verdict is made of, for one unit of a document (`AnalyzeText`) or
of the older matching path: the gates, decomposition with blank and repeated
claims, the cache, retrieval, a verdict borrowed from a curated claim, routing
to the sources, the verifiers with their citation and confidence guards, and the
second look, the calls sharing the verify pool with live units. Texts and
vectors are abstracted to the answers they lead to; similarities, weights and
confidences are tenths.

### EmbedClient

Retries above a rate limiter above the HTTP call, shared by the callers of a
run together with its context. Time passes in ticks; a wait is the number of
ticks it has left. `turn` is the limiter's next free slot, `gap` the ticks until
a request keeps the interval, `owed` what is left of a provider's `Retry-After`. A reply
may lack entries, repeat them, name one out of range or give one too short.

### TVHub

`Publish` and `Subscribe` hold the hub's mutex and then the room's across lookup
and registration, so each is one step. `gcRoom` releases the room's mutex
between its check and its delete: two steps, with the hub's mutex held between
them (`collector`), and everything that runs under the room's mutex alone may
fall between. A feed handler is at `pump` (reading its socket) or `blocked` (in
`Feed`); the analyzer is seen from outside, as a reader of audio whose event
stream ends.

### ChannelViewer

The hook of a page that follows a channel: refused or accepted, detached by the
hub when it falls behind, told off air, disconnected, and retrying up to its
limit. The hub is its promise: sessions on and off air, a backlog snapshot on
attaching, then every frame in order, then off air. `screen` is what the page
shows of each unit, folded by the same reducers as a live session.

### ChannelAdmin

Tabs with a table of switches and a form, requests in flight and the service's
read, overlay and write of a patch as separate steps. `wanted` is a history
variable: the switch values last asked for. `serial` says whether patches are
handled one at a time.

### Capture

The manager reconciles one supervisor per enabled channel; `sup[s]` is one
supervisor with its control point in salvage, capture, archive or backoff;
`disk` and `written` are a channel's segment files. Archiving one segment is the
calls to the recordings service (a row, an upload, a completion),
each of which may fail or be lost. A crash drops the supervisors and keeps the
disk. An operator edits a channel at any moment and a recording may age past the
retention before it is archived; the code guards against neither, so two history
variables say where they struck. `hasty` holds the channels that were enabled
again while a disabled supervisor of theirs drained, which nobody awaits
(`manager.go:127`): until the worker starts anew such a channel may have two
supervisors and the salvage of the first may take what the second writes. `late`
holds the recordings that expired before they were archived: the prune may pass
between the upload and the row. The properties say that nothing else ever has
two supervisors, is uploaded while open or is left without a row, and that
nothing captured is lost even there.

### Documents

A document's record in the database, its object in storage, the requests that
extract it and start an analysis, the runs that write results sentence by
sentence, the startup recovery and the deletion. A server may stop at any step,
and one may boot beside another, as every rolling deploy does
(`terraform/modules/service/main.tf:133`): its recovery fails whatever it finds
under way, so a run of the other server may go on under a document that says
failed, and a second run start beside it (`raced`).
The module's second part adds a page that polls while what it got says analysing, each
answer being a read of the record and a later read of the claims.

### Library

Uploads (a row, a signed URL, the object, a confirmation, as separate calls of
a browser) and the ingest of one YouTube video that several links are submitted
for; rows and objects change in separate steps, and the server may stop between
them.

### Broker, EmbedFleet, Corpus

`Broker` is the job queue every producer and worker shares: a delivery stays the
broker's until it is acknowledged and comes back when its channel closes.
`EmbedFleet` is the embedding workers: the statements of the evidence tables as
operators on a function from keys to rows, then a batch, one call, the per-job
fallback, retries, drops, shutdown. `Corpus` composes them
with the three producers of the wiki (a bulk run into the live table or through
a staging table that is swapped in, the delta run, statistics), the checkpoint
and the plan.

### DumpMirror, CategoryWalk, ClusterJob

The tools around the two corpora. `DumpMirror` is the download a bulk sync
starts with: a number stands for the date of a generation and for the bytes of
its files; the choice of a generation is a probe per file, newest first, and a
file's bytes (`disk`) and the record of their generation (`sidecar`) change in
two steps, between which the process may stop. `CategoryWalk` is the breadth-first
walk of a crawl, one per shard, a reply of a few rows at a time, with `rows` the
wiki (any of the graphs a configuration gives) and `maxPages` the budget.
`ClusterJob` pages through the live table by key, groups what it read and
writes the groups back in batches, while ingestion inserts, embeds, deletes and
swaps. What k-means computes is data: a score is the text it was computed from
and the number of the run. `settled` is a history variable: the chunks embedded
with one text since the run began.

### LoginLimiter, TokenBuckets

`Allow` and `Deny` are one call of the limiter each, under its mutex: a sweep
when one is due, an eviction when the map is full, the client's bucket. Go's map
order makes the evicted bucket a choice among the full ones of a sample
(`Evicted`). A tick is the time a token takes to come back; ages are capped at
`StaleAfter`, beyond which nothing tells them apart. `TokenBuckets` is the
abstract limiter: a bucket for every client, for good. `LoginLimiter`
implements it by reading a missing bucket as a full one.

### CaptureToken

The manager, the feeds and the archives of a capture worker share one cached
token. `holder` is who holds the mutex over a fetch; issue and arrival of a token
are two steps, since its lifetime is counted from the arrival. The provider may
stop accepting what it gave out (`Rotate`). `rejected` is a history variable: the
tokens dropped because a call was turned away.

### Ingestion

One scheduled source: the tick, a producer's run that reads what the source
holds and publishes, the workers that write. The three sources differ in what a
job carries and in how a run reads: pages one after another (crawl, fact checks)
or one archive that is skipped while its marker says unchanged (scrutins). A job
is let go at once, without spending its budget, when the provider's answer is of
no use for it (crawl, fact checks) or when a scrutin does not parse
(`Unreadable`, `scrutinsjob.go:248`); `PublishedIsKept` says for what else a job
may be settled.

### Lifecycle

One worker service on ECS and the handlers that scale it, retire superseded task
sets and deploy new ones. A cleanup is three kinds of calls, with everything else
between them: the time and the depths (`CleanupList`), the task sets with their
definitions (`CleanupDescribe`), then one forced deletion after the other
(`CleanupDelete`), any of which may fail. A task set whose definition names no
queue version (0 in the model) works on the default one and is always retired.
A scaling reads the depths and sets the count in one step.

### Seeding

A refresh embeds every fixture text and replaces the cache file; a seeding run
loads the file and upserts the selected datasets, each in its own way, with a
crash or an error possible between any two writes, while fixtures are edited and
an operator changes the channels.

## 3. Runs

A run's module composes components that share no state through a variable
`part`: a behaviour moves one of them and leaves the others at rest, so the run
pays the sum of their states and not their product, and each component's
properties and fairness are those of its own specification. `MCCapture`,
`MCChannels`, `MCCorpus`, `MCDesk`, `MCEvidence`, `MCLiveAnalyzer`, `MCSockets`,
`MCSpeech` and `MCVerifyPath` are such compositions. What such a run asks of its
parts is one formula where it is one question: `EndsSound`, `DeskSound`,
`EmbedKept`, `ChannelEnds` and `SocketsEnd` are conjunctions of the parts' own
properties, each named where it is defined. Components that do
share state (`Corpus` with `EmbedFleet` and `Broker`) are composed by EXTENDS,
state and all.

| run | bounds | shows |
|---|---|---|
| `live_session` | 3 segments, 2 workers, queue of 1, cap 2, 1 hold; texts of 9 runes | no statement is lost or answered twice, units have one voice and keep the cap, the session implements `Statements`; the scans count what a reader counts |
| `live_session_liveness` | 2 segments | every captioned statement is resolved; streams close |
| `speech` | 10 samples in chunks of 5, frames of 2 to 5, 2 messages; 4 statements, 2 speakers, 2 workers, 1 stance slot | turns are delivered whole and frames fit; pairs are compared, flags are sound; streams close and detections end |
| `channels` | 2 feeds, 1 viewer, ring 1, viewer buffer 1, 2 events; 2 tabs, 2 channels, 2 requests; 3 seed runs, 1 edit, 1 operation; 2 utterances, 4 sockets, 1 retry | rooms and joins; the registry keeps identities and switches; a seed killed anywhere leaves whole files and the right vectors; phase and resources of a browser session agree |
| `capture` | 1 channel, on or off at first, 2 configurations, 2 supervisors, 2 segments, 3 ids, two troubles among 2 changes, 1 failed call, 1 kill and late recordings; 1 feed, 1 viewer | no segment is lost; one supervisor per channel and no open segment archived, but for a hasty channel; every object has a row or a segment, but for a late one; captures settle; feeds never wedge, viewers are released, rooms collected |
| `sockets` | 3 frames, audio buffer 1; 2 units of a session, replay 3, 1 attempt; 3 clients, 2 buckets, burst 2, ages to 3; 2 callers, lifetime 2, margin and timeout 1, 2 ticks, 1 rotation, 1 fault | what is stored was sent; the handler and its goroutines end; a page never takes back what it showed, and settles; a full map forgets only full buckets, the limiter implements `TokenBuckets`; a cached token is good, and calls get through again after a rotation |
| `verify_path` | 2 workers, 2 claims of one text, 1 slot, 3 modes; 2 callers, 3 attempts | rows settle, tallies are faithful, `ClaimLifecycle`; requests are paced, vectors are one's own |
| `evidence` | up to 2 claims, 4 modes; 1 item of 2 parts, 2 workers, 2 attempts, 1 edit, 1 fault; 3 generations, 2 mishaps; every subset of 5 links of 5 categories, 2 shards, depth 2, budgets of 2 and 9 articles, 1 fault | citations hold, knowledge stays capped, units settle; what is published is never lost; a run's dump and index are of one generation; a walk finds all within reach and nothing twice |
| `desk` | 2 servers, 2 requests, 2 sentences, 2 runs, 1 stop, 1 fault (one request and one of stop, fault and deletion under a page, two of the three without); 2 rows, 3 ingests, 1 deletion, 1 stop, 2 faults | an analysis that says complete is whole; records and results stay; analyses, pages and downloads end |
| `corpus` | 1 page in 3 revisions, 2 runs, 1 worker with a batch of 2, 1 fault; 3 chunks of 2 texts, pages and batches of 2, 2 runs, 2 changes | a vector belongs to its row's text, the checkpoint is honest, a swap is whole; what stays embedded is scored |
| `lifecycle` | 2 versions, 2 task sets, queues of 2, 2 posts, 2 messages a worker | no task set seen working is retired while its queue still needs it; the newest queue is worked off |
| `browser_session_intent` | 1 utterance, 5 sockets | *violation*: a play during a reconnect is forgotten |

The bounds are chosen so that each buffer fills: one more segment than the queue
and a worker can hold, one more event than the ring or a viewer's buffer, one
more frame than the audio buffer and the reader hold, one more claim than the
pool has slots, one more failure than the browser retries, one more chunk than a
frame takes, one more job than a batch. Two workers, feeds, tabs, callers or
claims of one text are enough for every race the code has, since each is between
two parties over one lock, room, row, cache entry or timeline position. Bounds
named `Max...`, `Frames`, `Units` and `Length` that appear in a guard of the
environment only end the input; a bound that is the code's own (`MaxAttempts`,
`MaxSentences`, `MaxIdleHolds`, `BatchSize`, buffers and slots) is a small
value of its configuration.

A document under no page and one under a page are parts of the `desk` run of
their own, since their product takes too long; with a second deletion of a video
the run takes too long as well. The theorems on `DocumentsSound` and
`LibrarySound` cover any number of servers, requests, pages' steps and deletions.

`live_session` and `channels` are checked up to symmetry of workers and of
feeds, which nothing tells apart; neither has a liveness property.

Assumptions under which a run holds, each a constant a reader can turn:

- `Corpus`: `FreshDumps` (a bulk run starts from a dump no older than the
  checkpoint) and `Overlap = FALSE` (producers run one at a time, as the
  commands are documented to be used).
- `Seeding`: `ClipsMayChange = FALSE` (the sample's address stays).
- `ChannelViewer`: one session per page in the run (`MaxSessions = 1`); see below.
- `ChannelAdmin`: `SwitchesAsWanted` speaks of patches handled one at a time
  (`serial`), the other properties of any.
- `EmbedClient`: callers share one limiter and one context, as the commands
  wire them.

### Where the code and its comments part

One violation is listed as a finding. `browser_session_intent`: a play pressed
while a reconnect is pending is forgotten. Modelling met others; each is a
definition at the end of its module (or a constant), quoting the comment, to be
put in a configuration as INVARIANT or PROPERTY beside the constants of the run
that checks the module.

| property | setting | what happens |
|---|---|---|
| `SpeakerMemory!EarlierWasSaidEarlier` | `speech` | workers finish out of order, so a flag's "earlier" statement can be the later one spoken (`consistency.go:22`) |
| `Transcriber!CommittedWhole` | `speech` | the writer's cancel at the end of the audio ends the reader between two segments of one committed turn (`stream.go:249`) |
| `Transcriber!SessionCloses` of a provider that stalls for good | `speech` | a provider that stops reading holds the writer after the audio has closed, so the stream stays open until the session is cancelled (`assemblyai.go:117`) |
| `TVHub!OffAirPrecedesClose` | `channels` | a viewer whose buffer is full when the session ends gets the close without off air (`tvhub.go:243`) |
| `TVHub!LeavingStopsWriter` | `capture` | a viewer that leaves a silent channel stays attached, with its goroutine and room (`tv_live.go:135`) |
| `TVHub!ConnectedIsLive` | `channels` | after the provider ends, the feed stays connected and its frames are dropped while the channel is off air (`tvhub.go:120`) |
| `ChannelViewer!OneSessionShown` | `sockets`, `MaxSessions = 2` | rows of a session that ended stay beside those of the next (`tvhub.go:159`) |
| `ChannelAdmin!FlippedIndependently` | `channels` | two patches read the same row and the later write undoes the other's switch (`tv_channel.go:43`) |
| `Capture!SupervisedOnce(c)` for every channel `c` | `capture` | a channel that is enabled again while its disabled supervisor drains gets a second one on the same directory (`manager.go:109`) |
| `Capture!OnlyClosedArchived` without its `hasty` | `capture` | the first supervisor's final salvage then uploads a segment the second one's process still writes, and a write-once upload keeps what it got |
| `Capture!Findable(k)` for every object `k` | `capture` | a segment that is archived while the retention prunes its expired recording ends as an object without a row (`tv_recording.go:205`) |
| `VerifyPath!SecondPassLeavesCapacity` | `verify_path`, one worker | a claim in its second pass holds its unit's scoring worker (`verify_path.go:452`) |
| `VerifyPath!QueueBounded` | `verify_path`, three claims, two of them of one unit | `VerifyQueueDepth` bounds how long a claim waits, not how many wait (`verify_path.go:691`) |
| `VerifyPath!CacheKeepsUpgrade` | `verify_path` | a claim already past the lookup overwrites an upgraded entry with its fast verdict (`verify_path.go:570`) |
| `Adjudication!NeverCertainUngrounded`, `!EvidenceIsCited` | `evidence` | a borrowed curated verdict is served with its confidence and without a citation |
| `EmbedClient!BudgetStopsCleanly` | `verify_path` | an exhausted budget is reported as an error of the call, not as the context's end (`ratelimit.go:33`) |
| `LiveSocket!StoredIsFlushed` | `sockets` | a client's clean close cancels the session, so units still queued are dropped and the analysis is stored without their results (`handler/live.go:371`) |
| `LiveSocket!StoredIsWhole` | `sockets` | a provider that ends early makes the server close first; the client's echo counts as its end of stream (`handler/live.go:375`) |
| `LiveSocket!FinishedIsStored` | `sockets` | the browser closes with a code that does not count as clean, so a finished video is analysed again |
| `LiveSession!ClaimsSurvive` | `channels` | verified claims are dropped by a reset |
| `LiveSession!EndsAtEndOfStream` | `channels` | `wasClean` is true of a close with an error code, so "analysis unavailable" ends the session instead of a retry (`socket.ts:29`) |
| `LiveSession!NeverDuplicated` | `channels` | the base time is read before the socket opens, so statements shift by the connection's latency and one heard again stands twice (`use-live-analysis.ts:262`) |
| `LiveSession!ReplayAligned` | `channels` | a stored analysis has no origin and is replayed at the viewer's present position (`use-live-analysis.ts:262`) |
| `Documents!AnalysingIsLock` | `desk` | a server that boots beside a run fails its document, which a reanalysis can then lock: two runs write results, count sentences and settle one document (`0012_documents.up.sql:17`) |
| `Documents!NeverLingers` | `desk` | a failure that cannot be recorded leaves the document analysing until the next boot; so does a run whose server dies while another one is up |
| `Documents!ReadyUrlDead` | `desk`, `MaxPuts = 2` | a document whose record is deleted no longer blocks its upload URL, which can store the object again |
| `Library!DeletesItsOwn` | `desk`, `MaxDeletes = 2` | two deletions of one YouTube record, the link submitted again between them: a YouTube video's key is the same for every record, so the second removes the new record's object (`video.go:198`) |
| `Library!OneDownload`, `!PendingAlwaysEnds`, `!NothingStranded` | `desk` | a second submission after a deletion downloads beside the first; a download dies with its server; an object may outlive its row |
| `Corpus!NoStaleTail` | `corpus`, `MaxRuns = 3`, `DumpTimes = {1, 2}`, no statistics | a live bulk run that stops between a stream's upsert and its trim leaves a tail no delta run revisits |
| `Corpus!StagingCleared` | `corpus` | a live bulk run never drops a staging table left by an earlier one |
| `Corpus!OthersKept` | `corpus` | a swap replaces the rows other sources wrote since the staging table was filled |
| `Corpus!BaselineSet` | `corpus` | no bulk run records the time a delta run starts from |
| `Corpus!CorpusSound` | `FreshDumps = FALSE` | an older dump loaded over newer pages is never repaired, since the pages' changes lie before the checkpoint |
| `DumpMirror!NeverMispaired` | `evidence`, `LaggingSpec` | a file is renamed into place before its generation is recorded, so after a stop between the two, and a mirror whose newest complete generation is the older one again, newer bytes pass for older ones (`download.go:212`) |
| `CategoryWalk!ShardsDisjoint` | `evidence` | only the listed categories are dealt out to the shards of a crawl, and two of them may share a subcategory (`crawlproduce.go:40`) |
| `ClusterJob!PriorOfItsText` | `corpus`, `MaxChanges = 3` | an ingest into the live table keeps the importance of the text it replaces, and the next bulk run publishes the chunk with it (`batch.go:395`) |
| `Ingestion!ScrutinsRepaired` | `evidence` | a late delivery of an older archive stands until the archive changes again, since an unchanged one is skipped; and a scrutin that does not parse is dropped at its first delivery (`scrutinsjob.go:248`) and so never written from that archive |
| `Lifecycle!PrimaryDrains`, `!NothingStranded` | `lifecycle` | after a rollback the newest queue is not the PRIMARY's; a task set that had no running tasks when the cleanup looked is retired over a queue that is not empty, even if its tasks have started since; so is one whose definition names no version, whatever it runs, and a rollback's new set, while it is being deployed |
| `Seeding!OverrideTakesEffect`, `!SizeOfObject` | `channels`, `ClipsMayChange = TRUE` | the media cache and the object are found by the sample's key, whatever address they came from (`seed/video.go:31`) |

## 4. Fairness

A goroutine that can run runs (weak fairness of the loop's, the workers', the
handlers' and the supervisors' steps); Go's `select` chooses among ready cases
at random, and its mutexes and channels serve waiters in turn (strong fairness
of the alternatives of a `select`, of a lock and of a slot). Decomposition,
retrieval and verification return because they are under deadlines
(`verify_path.go:470`, `:588`, `:642`), and all of a document's calls because its
analysis is (`document_analyzer.go:125`); in a live session the gate, the
classification of a claim, the search of curated claims and the consistency check
have the session's context alone (`verify_path.go:403`, `political_path.go:118`,
`:322`), and that they are answered is assumed. A write to a browser or a viewer
returns because it has a deadline. A write to the transcription provider has
none (`assemblyai.go:117`): it returns while the provider reads, when the socket
closes or when the session is cancelled, and `SpeechEnds` asks for the end of a
stream whose audio ended only of a provider that does not go on stalling. A
claim's wait for a slot and a ping return because they are under a timer, an
HTTP request because its client has a timeout; time passes (`Tick`, `Pass`). A
browser's timer fires and a message under way arrives (`ChannelViewer`). A
service without a server gets one (`Documents`), since the platform restarts it.
The broker does not pass over a waiting job for ever (strong fairness of a
pending job's delivery in `Ingestion`); the lifecycle handlers run on schedules
and most of their listings are whole (`Lifecycle`). The token cache's mutex
serves its waiters in turn (strong fairness of `MutexStep` in `CaptureToken`). Nothing is assumed of the
people, providers, browsers and captures around the system: a peer may vanish
without a trace and a provider fall silent. `LiveSession`, `ChannelAdmin`,
`Seeding` and `Corpus` claim no liveness in a run: whether a browser reconnects,
an operator saves or a tool is run again is up to people.

## 5. Proofs

Each theorem module extends the component's module and proves results for every
value of the constants that its named assumptions allow. The argument is the
same throughout: an inductive invariant, one step per action and per part that
the action disturbs, then the temporal step.

`LiveAnalyzerProofs` proves, for any set of workers, speakers and segments and
any bounds, that the types hold, that `SessionInv` is an invariant, and from it
that statements are resolved once, are never lost before cancellation, that the
timer always guards a buffered unit, and that the session implements
`Statements`. The invariant is needed because each of these talks about one
place a statement may be, while a step moves a statement between two:
`Captions` says which ids have been captioned at each control point, `OneCopy`
that an unresolved statement is in exactly one of the unit, the shed loop, the
queue and the workers, `HeldIsOpen` that such a statement has no result yet, and
`Control` that control points and buffers agree. The assumptions are the named
`ASSUME`s of the modules.

Its second part adds `OneVoice` and `WithinCap`, and with them the whole
invariant of the run, `SessionSound`: `UnitInv` says that every unit
in any place names only received segments its label may speak for, that a unit
without members is the blank one (so no label outlives a flush and names the next
speaker's words), and that the loop reaches its select only below the cap. It
rests on `SessionInv` for one fact: while a unit is shed the next one is empty.

`SpeakerMemoryProofs` proves, for any number of workers, speakers, statements and
stance slots and any similarity, the types, `NoPairMissed`, `FlagsAreSound` and
`OneFlagEach`, together `MemorySound`. The argument is ownership: from `Lock` to
`Remember` a worker owns
its speaker's lock (`Owned`), so the history it read at `Prior` is still the
history it appends to (`RankedAll`), while a statement is at one worker only
(`Claimed`), and in a history only once it has left the workers (`Recorded`).
`ClosestIsLeft` shows that the loop's choice of the closest candidate always
exists: `Closer` is a strict total order on a history (`CloserOrder`), ties being
broken by position as the stable sort does.

Of the transcription client the same module proves `FramesFit` and `AudioWhole`,
for any sizes of chunks and frames (`AudioIsWhole`). `AudioInv` says, while the
writer runs, which sample stands at each place of its buffer: the one that many
after the last the provider heard, less the samples of the buffer that are sent
already. So a frame cut at an advancing offset continues what was heard, and
moving the tail to the front changes neither. TLC checked `AudioInv` on the
`speech` run first. The other parts of `TranscriptWhole`, about the words that
come back, are only model-checked.

`LiveSocketProofs` proves, for any number of frames, any buffer and any way of
leaving, the types and `StoredAsSent`. For the types the invariant adds that a
reader which is forwarding holds one frame not yet put in (`InHand`), without
which `fed <= read` is not inductive. For `StoredAsSent`, `Capturing` relates
what was captured to what was written at every control point of the handler: the
two differ by the event being written, and after a failed write the stream no
longer counts as drained.

Of the browser's own session, `LiveAnalyzerProofs` proves `BrowserSound` and
`VerdictsSurvive` for any video, number of sockets and of attempts. Every event
that is dispatched is a new state and a list of commands, so the proof goes by
what each list leaves of the hook, the sockets and the lists (`CommandEffects`,
`LeavesBetween`). `Agree` says, of the state between two dispatches, which socket
is alive at which phase, what the timer and the capture do, and where the present
session's statements stand (`StandsInPlace`: at the base time plus the number of
the utterance); `Between` says what holds once a session is torn down and before
the next one opens: no socket is alive and no statement waits. `Awaited` ties a
statement still being analysed to an answer the present socket owes, which is
why a clean end, with every answer given, leaves none. `Attempted` is what a
failure for good rests on: a connection sets the attempts back to zero, so the
session that gives up after the last attempt was never heard of and has nothing
on screen to clear. `VerdictsSurvive` needs `StandsInPlace`: a frame lands on its
own statement or on one of another session. TLC checked `BrowserInv` on the run
before it was proved.

Of the registry, `ChannelProofs` proves, for any number of tabs, channels and requests and
any switches, `AdminSound` (slugs are unique, a form belongs to the row it was
opened on, and, where patches are handled one at a time, the switches are the
ones last asked for) and the action property `IdentityKept`. `AdminInv` adds that
a patch between its read and its write holds a copy of the row as it is
(`Holds`) and that there is at most one such patch (`InTurn`); both are under
`serial`, since without it `FlippedIndependently` fails, as section 3 says. The
assumption `GoneAssumption` says that the empty value of a form is not a channel.

Of the hub, the same module proves `HubSound` and `StreamWhole` for any number of channels,
feeds, viewers, events and frames and any ring and buffer sizes. `HubInv` says
that a session holds the room the hub finds for its channel (`Held`) and a seated
viewer sits in that room (`Seats`, `SubsOwn`), so nobody is in a room that was
deleted. Keeping it needs `StillEmpty`: what `gcRoom` saw empty is empty until it
deletes it, since joining needs the hub's mutex, which `gcRoom` keeps from the
check to the delete, and everything that may fall between only empties rooms.
`Counted` gives new rooms fresh names without a bound on them, since a handler
makes at most one. `StreamInv` gives what a viewer got a closed form: what it has
taken, what waits in its buffer and what it still has to write of its backlog
are together the events of the session it joined, from where it joined, without a
gap (`Whole`), up to the session's last one while it is attached (`UpToDate`);
the ring is the window of the session's last events that makes this true of a
viewer that joins late (`Rings`). `StreamInv` was checked by TLC with three events
and a ring of two before it was proved.

Of the worker that captures channels, the same module proves `CaptureSound` for any
number of channels, supervisors, segments, rows, faults and crashes. `CaptureInv`
was checked by TLC on the `capture` run before it was proved. Its part about the
manager says who may still be at work on a channel: the supervisor in the
manager's table is the one that is not cancelled (`RunningOK`), whoever was
cancelled and still drains is awaited by the manager, or is not wanted any more,
or its channel is hasty (`DrainingOK`), so what the manager is about to start it
starts on a channel without a supervisor or on a hasty one (`ManagerOK`,
`Startable`). `JobOK` says of a segment at hand that its object is stored and its
row ready before it leaves the disk, unless it is late: two supervisors of a
hasty channel may archive one segment, but they find the same row and the same
object, so nothing of it is lost. `ExpiredOK` and `PruneOK` say the same of the
retention from the other side: what it takes has left the disk or is late, and
an object goes before its row. The theorem has no hypothesis: what the code
allows of hasty channels and late recordings is in the model, and the statement
says of which channels and recordings it holds.

`DeskProofs` proves `DocumentsSound` and `RecordsKept` for any number of
servers, sentences, runs, requests, stops and faults, and `LibrarySound` for any number of
rows, ingests, deletions, stops and faults; together they are `DeskSound`. For the documents the invariant says
of every run at work that it works in a server that is up (`AtHome`), on a ready
document and no later than the last lock, and that the sentences before the one
it is at have a result (`WorkOK`), so a document that says complete has every
sentence, also when a server booted beside a run and two runs write. As long as
none did (`~raced`), the run at work is the one the record names (`RunHoldsLock`)
and those results are its own, each counted once (`Progress`). `Grows` relates
two states: while a document exists its runs are counted up and a result is
replaced only by that of a run at work, which carries `Held` across for a page
that read the record before the claims. For the videos the invariant follows a
download by its record: an ingest at work is the only one of its record
(`AtWork`, `OnePerRecord`), and once a record is gone either nothing is stored
under its key or the download that will sweep it is still there (`GoneSwept`,
`Swept`).

`VerifyPathProofs` proves, for any number of workers, units, claims, verdicts,
speakers and slots, `VerifySound` and that the path refines `ClaimLifecycle`
(`ImplementsLifecycle`). `VerifyInv` says that a worker has a unit of its own and
only its claims are begun (`WorkersKeep`, `Alone`, `Begun`), that a unit left
behind was answered or has claims that are done (`Left`), and at each point of a
claim's way what its row shows and where its verdict comes from (`ClaimsRight`).
The refinement follows from these parts action by action: a step that shows a row
is a step of `ClaimLifecycle`, the end of a unit finishes its claims, and every
other step leaves the abstract state alone. For the tallies, the snapshots of a
speaker that are still on their way, the tally and what the reader sees lie in one
line: no two that differ have the same sample, and the tally has the largest
(`InLine`), and unless the reader sees the tally one of those on their way is it
(`Latest`); so whichever arrives last, the larger sample wins and is the tally.
That rests on the sample growing with every verdict (`SampleCounts`), which is
proved for any finite set of states by taking a smallest set where the sum is
wrong. The proof takes the states of a verdict to be finitely many
(`VerdictsAssumption`); in the code they are an enumeration.

Of the client that embeds texts, which the same run checks, it proves
`EmbedSound` and `EmbedPolite` (together `EmbedKept`), for any number of callers, any batch and any
reply, interval and back-off. `Turns` orders the limiter's queue: the waits of
those in it are an interval apart, none ends before `gap`, and the next turn is
behind them all; so whoever is due has waited out the gap, and sending leaves an
interval to the next. `Ahead` bounds how far the queue reaches by the callers in
it, while the context lives: whoever is refused by a context that is over leaves
its turn unused, and nobody takes one any more. `Sound` says what a call carries:
a back-off shrinks with the sleep that waits it out, unless it lay above the cap,
and an error of the context is there only when the context is over. That a
success returns the batch in order is a counting argument: an acceptable reply
has as many entries as texts and no index twice, so every index once
(`OrderedIsBatch`).

`EvidenceProofs` proves `IngestionSound`, for any items, rows, runs, workers,
revisions and bounds, and `JudgmentSound` and `NeverDowngraded`, for any texts,
hits, replies, answers and bounds. For the jobs, a published one is waiting, at a
worker, or settled (`PublishedIsKept`). A worker gives a job up by the attempt
its delivery carries, and a job counts as settled by how often it has failed;
`Tried` relates the two: a delivery's attempt is never above the count, so
whoever gives up has spent the budget. `RunsRight` says what of an archive is
sent or still to send, which is what the marker is set by. For the verdicts,
`ClaimRight` says at each point of a claim's way that its passages were found for
its text and, at a second look, that the first verdict is grounded; the cache
keeps a verdict for the text it was reached for (`CacheOK`), and what was found
for a text is never taken back, so both survive the steps of the other claims.
The ranking is a choice of a sorted sequence, whose existence is proved by taking
a smallest set of hits that has none (`FirstExists`, `SortExists`), and the score
and the weights shown with it are compared along their running sums
(`SidesAddUp`). `HitsAssumption` says that a corpus returns an entry once: the
rows have primary keys.

Of the tools around the corpora the same module proves `MirrorSound` and
`ClustersAll`. `MirrorInv` says that a file's record is never ahead of its bytes
(`RecordsBehind`) and that what the disk holds was once whole on the mirror
(`StoredWhole`), so a run chooses a generation that is no older than anything
stored, unless the mirror dropped that (`Probing`, `Copying`): a record equal to
the chosen generation then says what the bytes are. A mirror that takes a newer
generation back breaks exactly this, as `NeverMispaired` under `LaggingSpec` shows. For the
clustering, each chunk that has stayed embedded is read up to the cursor with
the text it still has, and then written up to it in this run (`Paging`,
`Writing`); that a page of the first keys above a cursor skips none of them is a
lemma on finite sets of numbers (`FirstKeys`).

Of the worker fleet, the same module proves `WorkingSetDrained` for any number of
versions, deploys, messages and workers. A cleanup decides by depths and ages that
were read before, and deletes later still, so `FleetInv` ties what it holds to what
may have happened since: once a PRIMARY is old, nothing is posted to another version
(`PinsOK`); a set is at least as old as the cleanup takes it for (`AgesOK`); what it
found empty beside an old PRIMARY is empty still (`ListedOK`), and so is the queue of
each working set that it is about to delete (`DoomedOK`). A cleanup may take as long
as it likes: the one thing that would spoil it is a set that is old when it becomes
the PRIMARY, which a deploy shorter than `MaxAge` excludes (`DeployOK`). TLC checked `FleetInv` on the `lifecycle` run first. The
hypothesis is that `MaxAge` is not 0: a policy that does not wait at all retires
a set whose producers have just posted again.

The guards of access are in `LiveSocketProofs`. `LimiterInv` says of every bucket
that it is full or has at least a token for every tick of its age; so one old
enough for a sweep is full, and forgetting full buckets is a stutter of
`TokenBuckets` (`Forgets`). With the map's cap this is `LimiterSound`, and with
one step of the abstract limiter for each of the concrete one it is
`LimiterKeeps`. `TokenInv` bounds the moment a fetch began by the clock and the
timeout (`CallRight`), hence how far the cache overstates a token's end
(`CacheRight`), which the margin covers. That an answer under way carries a token
nobody was rejected with rests on the mutex: there is one fetch at a time
(`Holding`).

That module also proves `NothingTakenBack` of a page, and with the two guards and
the socket `EndsSound`, the invariant of the `sockets` run, for any units, sessions, backlog, buffer and number of
attempts. `ViewerInv` adds to the types of `ChannelViewer` where each frame of the
hub's backlog is: under way to the page or shown (`Pending`), so a page with
nothing under way shows them all. Whatever is shown stays (`Grows`), within one
session, because a row is only ever indexed under its own start (`Placing`), and
no two units of a session share one, as `ViewerAssumption` says; from two sessions
they may, and a row of the earlier one is replaced. `LineRight` says that off air
comes on a connection that is ending and that none is opened after it.

### What is only model-checked

Every liveness property (it rests on fairness and ENABLED), what the recursive
scans and folds compute, and the safety properties of the
modules without a proofs module. These are `TranscriptWhole`, `SeedSound`, `CorpusSound`,
`PublishedWhole`, `WalkSound` and `ScansSound`. The last runs recursive operators, which the prover
cannot take. `TranscriptWhole`, `SeedSound`, `CorpusSound`, `PublishedWhole` and
`WalkSound` are stated over folds of sequences or over what is reachable in a
graph, whose values for every input need an induction over data; by a smallest
counterexample, as in `SampleCounts`, that is possible but has not been done for
them (of `TranscriptWhole`, `AudioIsWhole` proves the two parts about the audio).
`StreamsFinish`, `SpeechEnds`,
`ChannelEnds`, `SocketsEnd`, `CallsSettle`, `EvidenceSettles`, `DeskEnds` and
`NewestDrains` are liveness.

## 6. Not modelled, and why

Model clients, parsers, public data sources, storage queries, HTTP handlers
other than the sockets, accounts themselves (their tokens and login limiter are
modelled), configuration and deployment keep no
state whose steps interleave: they are inputs and outputs, and the modules see
them as an answer, a failure or a choice. The rest of the frontend is pages,
forms and rendering; interim captions, consistency notes and the text of frames
are presentation. In the parts that are modelled:

- `LiveAnalyzer`: the per-claim path of `detectClaimConsistency` repeats
  `detectConsistency` and is not modelled apart.
- `VerifyPath`: the deep verdict is taken as grounded, which the adapter's
  citation guard (in `Adjudication`) ensures; framing flags are left out; one
  session is modelled, others appear as their effect on the pool and the cache.
- `Adjudication`: manipulation flags, and the text a verdict explains itself
  with.
- `LiveSession`: a change of video under a mounted hook, and a server that
  closes cleanly while it gives a wedged reader up (`LiveSocket` has it).
- `LiveSocket`: a clean end of a stream is taken as resolved (`Statements`).
- `Corpus`: two atomic runs at once, a page recreated under a new id (the old
  id's rows stay), the rate and the priority of jobs.
- `Ingestion`: pages that shrink (a crawl never trims them), the one-shot
  commands beside the scheduler, queue versions (`Lifecycle` has them), alerts.
- `Lifecycle`: one service. Two assumptions about the rollout (`Pass`): a deploy
  takes less than `MaxAge`, and a PRIMARY is younger than that while producers are
  pinned to another version. Whether ECS refuses to delete a set that was promoted
  after the cleanup looked is left open.
- `Capture`: the PCM bytes, what is in a segment or an upload (so not how two
  processes of a hasty channel that open a segment in the same second share it),
  the child process's plumbing, and the strip of recordings the page shows. The token cache has a module of its own, which
  shares no state with it.
- `DumpMirror`, `CategoryWalk`: retries of a single request of the download, and
  a wiki that changes while a walk reads it.
- `ClusterJob`: the grouping itself (k-means over vectors), and two runs of the
  job at once.
- `LoginLimiter`: clients are keys; how an address becomes one is left out.
- `Documents`, `Library`: lists, the upload form's validation, curated samples.

## 7. What comes next

The next proofs are those over folds, `SeedSound` first.
