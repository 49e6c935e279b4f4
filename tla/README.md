# A TLA+ model of the CPG streaming pipeline

This directory models, model-checks and partly proves correct the pipeline of
this repository: a parser service turns the Python files of a cloned repository
into a code property graph (CPG), publishes the graph as change events to Kafka,
and two Kafka Connect sinks rebuild it in Neo4j while a Spark job keeps the
files' metadata in MongoDB. Around it stand the commands a user types, the
scripts that set the services up, and the notebooks and scripts that check what
came out. Paths below are relative to the repository root; `src/` there is the
Python package.

Contents: [inventory](#inventory) · [modules](#modules) ·
[state and actions](#state-and-actions) · [runs](#runs) ·
[what the runs refute](#what-the-runs-refute) ·
[known limits](#known-limits-of-the-code) · [proofs](#proofs) ·
[bounds](#bounds) · [fairness](#fairness) ·
[what is left out](#what-is-left-out) · [plan](#plan)

## Inventory

| Part | State | Operations | Talks to | Correct when |
|---|---|---|---|---|
| `ProcessFileService` (`application/services/process_file.py`) | the local variables of one call | read, skip test, parse, diff, build and validate events, publish, commit, report an error | source repository, state store, producer | a committed row describes a generation that is in Kafka as a whole; deletes name what is there |
| `ProcessRepositoryService` (`process_repository.py`) | counters of a run | loop over the discovered files; abort, stop or go on after a failure | the above, discovery | every file is counted once; a failed file does not harm the next |
| `ReplayFileService` (`replay_file.py`) | none | preview of a difference, then one `execute` | the above | the preview describes what is published |
| Command line (`cli/main.py`) | none | `clone-source`, `discover`, `parse-repository`, `parse-file`, `replay-file`, with scope, limit, dry run | all of the above | commands in several terminals do not spoil each other's rows and manifests |
| State store (`state/sqlite_state_store.py`) | table `file_state` | `get`, `commit`, (`delete`, without a caller) | | one atomic row per file |
| Kafka producer (`messaging/kafka_producer.py`) | `_state`, staged records, delivery errors | `publish_event`, `flush`, delivery callback | librdkafka | a `flush` that returns has delivered everything; nothing dropped or failed returns later |
| JSON-lines writer (`messaging/jsonl_event_writer.py`) | open files | `write_event`, `flush`, `clean` | used by dry runs instead of the producer | a run leaves what it processed |
| Event validator, events, diff | none | pure | | the difference accounts for every committed element |
| Parser (`parsing/`) | none | AST, CFG, DFG and call graph of a file, and counts of them | | graphs closed under end points; edges are steps, reads and calls of an execution |
| Discovery, git source (`discover_repository.py`, `git_source_repository.py`, `manifest_writer.py`) | working copy, manifest | clone, list, filter, write the manifest | git | the files selected are those the scope allows; the manifest is of one discovery |
| Kafka | topics `cpg.nodes`, `cpg.edges`, `source.metadata`, `parser.errors`, `connector.errors`, keyed by `file_id` | append, read | | order within a key and topic, none across topics |
| Neo4j sinks (`infra/kafka-connect/connectors/*.json`) | consumer offsets; the graph with placeholders and tombstones | one Cypher statement per batch | Kafka, Neo4j | the graph is that of the committed content |
| Metadata sink (`spark_jobs/metadata_to_mongodb.py`) | checkpoint; a document per file | replace by `file_id` | Kafka, MongoDB | the document is the newest one |
| Deployment and set-up (`scripts/deploy_connectors.py`, `create_neo4j_schema.py`, `infra/kafka/create_topics.py`) | connector configurations, constraints, topics | compare, create, update, wait | Connect, Neo4j, Kafka | exit code 0 is true; repetition converges |
| Verification (`infrastructure/verification/`, `scripts/inspect_kafka_events.py`, `lab04-book/task3_*`, `task4_*`) | windows of offsets, counts taken | lag, end offsets, dead letters, graph queries; bracket, read, compare | Kafka, Neo4j | a verdict is worth something while the pipeline runs |

What makes it hard: nothing spans the state store, three topics and two
databases in one transaction. The process can die between any two steps; a
publication can reach Kafka in part, and what is still queued in librdkafka can
arrive after the failure was reported; files change while a run is going on;
failed publications pile up between two commits, so that deletes are built from
a row that is older than the topics; the sinks run at different speeds, in
batches whose statements do not work record by record, and redeliver after a
restart; a generation comes back when a file is changed back; several commands
share one state database, one working copy and one manifest; and whoever checks
the result sees one topic after another, and offsets that lag behind.

## Modules

```
CpgEvents ─┬─ SourceRepository ── CommandLine ── CommandLine_proofs (MCCommandLine)
           ├─ ParserRun ─┬─ ParserRun_proofs                      (MCParserRun)
           │             ├─ PublishingRun ── INSTANCE BatchPublisher (MCPublishingRun)
           │             ├─ DocumentVerification ────┐
           │             ├─ MetadataSink                          (MCMetadataSink)
           │             ├─ EventInspection ─────────┐
           │             └─ CpgPipeline ─┐           │            (MCCpgPipeline)
           └─ GraphSink ───(into)────────┴ SinkVerification
                                                     └ LiveVerification (MCLiveVerification)
PythonAst ── CfgBuilder, DfgBuilder, CallBuilder ── CpgParser     (MCCpgParser)
KafkaProducer ─┬─ INSTANCE BatchPublisher                         (MCKafkaProducer)
               └─ KafkaProducer_proofs
Deployment ── Deployment_proofs                                   (MCDeployment)
MetadataSink, ParserRun_proofs ── MetadataSink_proofs
CpgPipeline, ParserRun_proofs ── CpgPipeline_proofs
PublishingRun, ParserRun_proofs ── PublishingRun_proofs
LiveVerification, CpgPipeline_proofs ── LiveVerification_proofs
```

A line to the right is EXTENDS. An MC module gives the constants of the module
above it small values; its .cfg files name the runs.

**CpgEvents** is the vocabulary: contents, generations, events, rows of the state
store, `CpgDiffer.compute_diff`, the skip test and the events of one processing
of a file. A content stands for the bytes and their SHA-256; a *generation* is a
content and a version (`generation_id` joins `file_id`, `content_hash`,
`parser_version` and `schema_version`; the file is the key, and the two versions
are raised together). The parser is a constant, `ParsedNodes` and `ParsedEdges`.
Nodes and edges of two files never meet because their ids embed the `file_id`.

**ParserRun** is the process. `pc` and `job` are the position and the local
variables of `ProcessFileService.execute`; `todo`, `failFast` and `summary` those
of `ProcessRepositoryService.execute`. Two history variables serve the
properties: `dirty`, the files with records newer than their row, and
`abandoned`, generations published, in whole or in part, and not committed.

**KafkaProducer** opens up what is one step in ParserRun: the state machine of
`KafkaEventProducer` against librdkafka and a broker, with delivery reports that
are served by `poll` inside the enqueue loop, timeouts, records given up after
they may have been appended, and late deliveries after a failed flush.
**BatchPublisher** is the abstract specification, what a caller of
`EventPublisherPort` may rely on: an open record may be appended at any time, a
batch is confirmed only when all of it is in its topic, dropped only while none
of it is. Under the mapping `open <- staged or detached records`,
`usable <- _state # FAILED` the producer implements it.

**PublishingRun** is ParserRun with the publication taken record by record, over an
INSTANCE of BatchPublisher and nothing of KafkaProducer. `write_event` offers the
events one by one in the order of `events_to_send`; they land in Kafka while others
are still offered; `flush` returns or raises, or the process dies. `accepted` and
`landed` relate the events of `job.batch` to the publisher's numbers and to its
topic. A file and a topic are a partition, so that a record takes the next number
of its partition. `log` has no part of a publication that is under way;
`Kafka(t, f)` has. The two steps between the process and the broker are so:
KafkaProducer implements BatchPublisher, and with any BatchPublisher PublishingRun
implements ParserRun.

**GraphSink** holds the two Cypher statements as operators on the graph of one
file and a batch. The plugin prepends `UNWIND $events AS event`; Cypher's clauses
see what earlier clauses wrote for the *whole* batch, so that the leading
`OPTIONAL MATCH` finds what was there before the batch, while
`n_old.generation_id` is read after the upserts.

**CpgPipeline** composes ParserRun with the two sinks. How the pipeline is
operated is a parameter: `Disciplines` says what runs may be made to wait for
("nothing", or the connectors' committed "offsets", which must have reached the
end offsets), `RetryBeforeEdit` that a failed publication is repeated before the
file is edited again, `MaxLost` how many generations may lose batches to
`connector.errors`. A behaviour keeps one discipline.

**MetadataSink** composes ParserRun with the Spark job: micro-batches whose offsets
are logged before they are written and again when they are done, records written
one by one, `--available-now`, and another checkpoint directory.

**PythonAst**, **CfgBuilder**, **DfgBuilder**, **CallBuilder** and **CpgParser** are
the parser: a small abstract syntax with the paths node ids are hashed from, each
builder as recursive operators in the shape of its recursion, `parse_file` with
the deduplication by id, and the counts of `metadata.py`. CpgParser then *executes* the
parsed program, statement by statement, by rules that know nothing of the
builders, so that the edges can be compared with steps, reads and calls.

**SourceRepository** is what a scope of `file_filters.yaml` selects, with
inheritance; **CommandLine** the commands in several terminals over one working
copy, one state database, one set of manifests, and two writers (Kafka and JSON
lines). A batch is published whole there; ParserRun has the failures.

**Deployment** is the set-up: operators who run the three scripts again and again,
others who change topics and connectors meanwhile, and the sinks as far as the
uniqueness constraint matters to them.

**EventInspection** is what Task 3 does to the topics while a parser runs,
**SinkVerification** what Task 4 does to the graph while the pipeline runs,
**DocumentVerification** what Task 5 does to a topic that others publish to, and
**LiveVerification** puts them side by side: a behaviour is one of the three tasks.

The modules whose names end in `_proofs` hold the theorems. Operators whose comment begins with "Mutant" are plausible bugs; no specification uses them.

## State and actions

`PROJECT.json` gives, for every definition, the lines it stands for. In outline:

**ParserRun**

| Action | Code |
|---|---|
| `StartRun`, `EndRun` | start of a process with its adapters; the summary |
| `ReadFile`, `SkipUnchanged` | steps 1 to 4 of `execute` |
| `ParseFails`, `ParserRaises` | `ParsingError`, reported; any other exception, counted by the loop |
| `StageEvents` | diff, events, validation |
| `PublishBatch`, `PublishFails`, `PublishRejected` | writes and `flush` that return; that raise, with any subsequence of every partition's records appended; a producer that an earlier file left `FAILED` |
| `CommitState`, `CommitFails` | `state_store.commit` |
| `ReportError`, `ReportErrorFails`, `ReportErrorDropped`, `ReportErrorRejected` | `_handle_failure`, best effort: reported, failed, not serialisable (the producer stays READY), refused by a FAILED producer |
| `AbortBeforePublish`, `Crash` | reading the state, validating or serialising raises; the process is killed |
| `Edit`, `Upgrade` | the users of the working copy; a new `PARSER_VERSION` between runs |

**CpgPipeline** (in addition to ParserRun's)

| Action | Code |
|---|---|
| `Put` | a batch of up to `neo4j.batch.size` records in one transaction (`connectors/*.json`) |
| `CommitOffset`, `RestartTask` | Kafka Connect commits on an interval; a task restarts at the committed offset |
| `DeadLetter` | `errors.tolerance=all`: the batch goes to `connector.errors` and is skipped |
| `OperatedRun`, `OperatedEdit` | the operator's discipline, as the notebooks follow it |

**MetadataSink** (in addition to ParserRun's)

| Action | Code |
|---|---|
| `StartQuery`, `EndQuery`, `KillQuery` | `run` of the job, `--available-now`, a failure |
| `PlanBatch`, `WriteDocument`, `CommitBatch` | a micro-batch: offsets logged, `replace` by `file_id` with upsert, commit logged |
| `NewCheckpoint` | another `--checkpoint-location`, read from `starting_offsets` |

**CommandLine** (`proc[p]` is the process in terminal `p`)

| Action | Code |
|---|---|
| `Type` | a command line and its adapters; `--clean-output` |
| `Clone` | `clone_repository`: does nothing if `.git` is there |
| `ListRaw`, `Discover`, `WriteManifest` | the two walks of `DiscoverRepositoryService`, the records, and `ManifestWriter`, which empties the file before it fills it |
| `NextFile` | the loop over the discovered files, cut by `--limit` |
| `CheckFile`, `Preview`, `Report` | `parse-file` and `replay-file` before and after `execute` |
| `ReadFile`, `LoadRow`, `Publish`, `Commit` | `execute`, in as many steps as another process can come between |
| `Edit`, `Kill` | the working copy changes; a process is killed, a clone half made |

**Deployment** (`script[o]` is what operator `o` runs)

| Action | Code |
|---|---|
| `DescribeTopics`, `PrintMessage`, `CreateTopic`, `CreateTopicFails`, `EndTopics` | `create_topics.py`, topic by topic |
| `ApplySchema` | `create_neo4j_schema.py`: constraints, `IF NOT EXISTS` |
| `StartDeploy`, `GetConfig`, `Deploy`, `WaitForRunning`, `EndDeploy` | `deploy_connectors.py`, file by file: get, compare, POST or PUT, wait |
| `RestartTasks`, `MergeNode` | Connect starts and stops tasks; sinks whose transactions overlap MERGE a node |
| `CreateElsewhere`, `DeleteTopic`, `ChangeConnector` | others |

**PublishingRun**, for `PublishBatch`, `PublishFails` and a `Crash` in between

| Action | Code |
|---|---|
| `OfferEvent` | `_write`, for the next of `serialized_events`: `publish_event` |
| `RecordLands` | librdkafka and the broker append a record |
| `EventRaises`, `FlushRaises` | `publish_event` raises and drops the batch; `flush` raises |
| `FlushReturns` | `flush` returns: the publication is over |
| `PublicationAborts` | `PublishError` is raised out of the loop, or the process is killed |
| `StartWithProducer`, `ReportFails` | `get_adapters` builds a new producer; the report of an error breaks it |
| `Elsewhere`, `FaultElsewhere` | the other steps of ParserRun |

**EventInspection**, **SinkVerification** and **DocumentVerification**

| Action | Code |
|---|---|
| `OpenWindow`, `AskBefore`, `CloseWindow`, `AskAfter` | end offsets, topic after topic |
| `Listen`, `PollRecord`, `PollNothing`, `ListeningBreaks` | `inspect_kafka_events.py`: seek or subscribe to the four topics other than `connector.errors`, poll, stop when idle, verdict |
| `reports`, `ErrorEvent`, `ReportsFollow` | `parser.errors` as a topic, with order and repetitions: a failed parse leaves no row, so the next run sends the same event again |
| `NotebookBegins`, `NotebookReads`, `NotebookCompares` | the cells of Task 3: a bracketed run, then an unchanged rerun |
| `Begin`, `AwaitNodes`, `AwaitEdges`, `AwaitTimesOut` | the cells of Task 4: a new state database, `wait_for_zero_lag` for either group |
| `CheckIntegrity`, `CompareCounts` | `get_graph_counts` after the run; compared after the replay |
| `PrepareReplay`, `CheckReplayDlq` | `calculate_dlq_delta`, and the second run |
| `CaptureBaseline`, `Execute`, `ReadFirst`, `EditSource`, `ReadSecond` | the cells of Task 5 that publish: offsets asked, `process_service.execute` (ParserRun, step by step), the record read back by offset |
| `LoadBaseline`, `ResumeCheckpoint`, `LoadSecond`, `SparkFails` | `run_spark` with the rows and the document expected of it; an exit code other than 0 |
| `OthersPublish` | records of other files in `source.metadata` |
| `ParserMeanwhile`, `PipelineMeanwhile` | the pipeline, at its own pace |

**CpgParser**: `Init` parses one of `Programs`, `Step` executes one statement of one
scope of it.

**KafkaProducer**: one action per operation of `KafkaEventProducer`, per delivery
report, and per thing librdkafka and the broker may do meanwhile.

## Runs

| Run | Distinct states | Shows |
|---|---|---|
| `parser_one` | 1 313 332 | One file, behind one that never parses and may leave the producer failed (a `CONSTRAINT` fixes that file and its place in the run); any history of two edits, deletions and restorations over three contents and an unparsable one, an upgrade, `fail_fast` on and off, one fault. `StoreBackedByLog`: a committed row is backed by the topics. `CommittedIsLive`: deletes of later attempts never take away a committed element. `OnlyAbandonedOutlives`: what outlives its generation was abandoned. `SkippedIsPublished`, `DeletesNameLatestContent`. |
| `publishing` | 334 231 | Two files, one run, one producer, events published one by one, a fault anywhere. `ImplementsParserRun`: every publication has an outcome that ParserRun gives it. `RunAccountsForEveryFile`; a failed report of one file poisons the producer but never gets the other committed unpublished. `EventuallyCommitted` under fairness. |
| `producer` | 29 238 | `ConfirmedIsInTopic`, `DiscardedIsNeverSent`, `TopicInOrder` (no duplicates, no overtaking), `ImplementsPublisher`, and `FlushEnds` with no assumption on the broker. |
| `pipeline_operated` | 41 276 | Offsets awaited, failures retried first, a fault anywhere, tasks that restart, batches of two: `GraphFollowsCommitted`, whenever the sinks are through Neo4j holds the committed content, hydrated, in its generation, and nothing else; and `GraphConverges`, that it ends up as that of the content on disk. |
| `pipeline_disciplines` | 986 729 | Three contents in a row, either discipline, a generation that loses batches. `AwaitedGraphFollows`: with runs that wait, the same as above. `CommittedNodesArePresent`: with runs that wait for nothing, whatever the lag between the sinks, the committed *nodes* are there. The edges need not be, see below. |
| `graphs` | 20 654 | A function with every `if`, `while` and `for` over every body of eighteen blocks, between other statements, and nested functions, imports and calls at module level. `CfgStepsAreEdges` and `CfgEdgesAreSteps`: control-flow edges are the steps of an execution, but for the kinds named in them. `ReadsAreLinked` and `DfgEdgesAreReads`: two passes over a loop find every definition that can be read, and only those. `CallsReach`, `GraphIsClosed`, `CountsDescribeGraph`. |
| `metadata` | 163 124 | `DocumentsMatchCheckpoint`: batches written twice, and topics read twice, leave the newest document, and a job that has caught up agrees with the state store. `DocumentsConverge` under fairness. |
| `commands` | 838 201 | Three commands out of six in two terminals, an edit and a kill. `RunStaysInScope`, `ManifestIsOfOneRun`; `SequentialIsExact`: files no two processes worked on at a time have in Kafka what their row says; `PreviewIsPublished`. |
| `deployment` | 223 541 | Two operators, a failing request, somebody else's change. `TopicsAreAsClaimed`, `ConnectorsAreAsClaimed`: an exit code 0 is true; `NodesAreUnique` with the schema first; `DeploymentConverges`. |
| `live_checks` | 2 435 115 | Task 3 over a file that changes twice, or that cannot be parsed at first, with a fault: `WindowIsWhole`, the offsets of the topics, asked one by one, bracket the same publications; `DuplicatesMeanRepetition`, a repeated event id is either that of a failed parse, which every run over the unchanged file reports again because no row was committed, or of a file published again after an uncommitted publication, or whose content came back; `RerunWindowIsEmpty`. Task 4 with redeliveries and dead letters: `VerdictIsSound`, what passes is in Neo4j, and an assertion that fails has dead letters behind it if the connectors were through when the notebook began, and had left no placeholders. Task 5 on a shared topic: `DocumentVerdictIsTrue`, offsets and row counts that agree prove that the job took the notebook's two records and no other, and disagree only after a failure or a foreign record. |

Every property of these runs is also checked to fail for a plausible bug: the
operators marked "Mutant" beside the definitions of the modules (a swallowed
publication error, deletes stamped with the wrong hash, a flush that does not
look at its reports, a loop variable that is not reset, offsets of one topic
taken for another's window, …).

## What the runs refute

Two runs check a statement of the repository's docs or tests and find it
violated by what the code does.

| Run | What happens |
|---|---|
| `pipeline_revert` | A file is changed and changed back, every run waiting for the sinks. Its generation returns, and so do the tombstones: the edges that were deleted in between are never created again, although the state store counts them as present. `lab04-book/task6_idempotent_replay.ipynb:479` promises that a replay leaves the nodes and edges of the new graph. |
| `dry_run` | `get_adapters` (`cli/main.py:59`) gives dry runs the state database of real ones. A dry run commits its rows, and the run with Kafka after it skips the files: they are in no topic. `README.md:159-168` has the reader do exactly that. |

## Known limits of the code

Behaviours met while modelling that the passing properties exclude by name, so
that a reader knows what the properties do *not* promise.

- *Runs that do not wait.* With the node sink ahead of the edge sink, a delete
  leaves a tombstone for one generation only, an older edge upsert recreates a
  placeholder, and an edge stays or is dropped. A task that restarts from an old
  offset replays the same way. Hence `AwaitedGraphFollows` for the graph, and
  `CommittedNodesArePresent` for the rest.
- *Lag.* `kafka-consumer-groups` prints "-" before the first commit of a group and
  `get_connector_lag` counts that as 0: `wait_for_zero_lag` may return at once.
  Hence `primed` in `VerdictIsSound`; and an unprimed Task 4 accepts any
  graph with at least one node and edge.
- *Placeholders of old.* Edges of a generation that is no longer current, delivered
  late or again, or whose nodes went to `connector.errors`, leave placeholders that
  no later event removes. `CheckIntegrity` counts those too: Task 4 then fails
  without a dead letter of its own. Hence `clean` in `VerdictIsSound`.
- *Half-published edits.* A publication fails after its deletes arrived, the edit
  is taken back, the hash equals the row's: the file is skipped for ever while its
  elements are gone downstream. Hence "unless abandoned" in `CommittedIsLive`.
- *Abandoned generations.* The difference is to the committed row: what a failed
  publication had brought and the next edit dropped is never deleted. Hence
  `OnlyAbandonedOutlives`, and `RetryBeforeEdit` in the pipeline.
- *Upgrades.* Deletes after an upgrade carry the new version with the old hash
  (`process_file.py:119`): both sinks ignore them. The pipeline is checked with
  one version.
- *Two commands on one database* (`contended` in `SequentialIsExact`), *and a new
  database* (Task 4 makes one): no deletes are produced for what another database
  published. `VerdictIsSound` speaks of what must be there, not of what must not.
- *Control and data flow.* No edge leads into a `return`, `break` or `continue` from
  the statement before it; `continue` is connected to what follows the loop; the
  `else` of a loop is not visited; the target of an augmented assignment is defined
  and never read; a `for` defines its target before its iterable is read.
- *Manifest.* A file cut off by `max_files` is recorded with the reason "Excluded by
  scope include pattern"; `discover` writes the manifest of `final` whatever its
  scope; two writers at a time interleave.
- *Clone.* An interrupted clone counts as cloned ever after, and the checkout of a
  target commit is not checked.
- *Deployment.* Passwords are not compared, so that a rotated one is not deployed;
  a GET that fails in any way means "does not exist", and the POST is refused.
- *Inspection.* `inspect_kafka_events.py` fails on an event id it sees twice,
  although a retry, and a content that comes back, produce the same ids.

## Proofs

TLAPS checks the following for all values of the constants that satisfy the
named assumptions (`ProducerAssumption`; `CpgAssumption`, `ParsedOnceAssumption` and `RunAssumption`;
`FilesAreOrdered`, `FiltersAssumption` and `CommandAssumption`;
`SinkAssumption`, `PipelineAssumption`, `ClosedGraphAssumption`; `ProcessAssumption`; `DeploymentAssumption`; `InspectionAssumption`, `VerificationAssumption`, `DocumentAssumption`), with no bound on
records, files, contents, edits, faults, batches or restarts. What a theorem assumes beyond them stands
in its statement.

`KafkaProducer_proofs`

- `TypeCorrect`, `ConfirmedDelivered`, `DiscardedNeverSent`, `OrderKept`: the type
  invariant and the three safety properties of the producer.
- `Refinement`: the producer implements `BatchPublisher`.

`ConfirmedIsInTopic` is not inductive: that flush has no errors to report says
nothing unless every record it enqueued is accounted for. The inductive invariant
`IInv` adds `Conserved` (a record that was enqueued by the current flush is in a
queue, or has a report waiting, or is among the errors, or is in its topic),
`Ordered` (topic, then queue, then the records not yet enqueued, then the staged
ones are increasing in each partition, hence `TopicInOrder`), `Forgotten` (a
discarded record is nowhere), `Phases` (what the states mean for the other
variables) and `QueueIsOpen` (what librdkafka still holds belongs to the batch
being flushed or that failed), which the refinement needs for late deliveries.
`Refinement` maps initial states to initial states and every action to an action
of BatchPublisher or a stutter: `Delivered` and a `GivenUp` that appended to
`AppendRecord`, `FlushReturns` to `Confirm`, the failures to `Fail`.

`ParserRun_proofs`

- `TypeCorrect`: the type invariant, including that a partial delivery and the
  orders drawn for the removed ids stay sequences of events.
- `CommittedIsBacked` (`StoreBackedByLog`) from `BackedInvariance`: topics only
  grow, a staged batch holds every upsert of the generation it was built from,
  and at `published` that batch is in the topics. The version can change only
  while no process is up, so that `JobGeneration` is the same from staging to
  commit; the content is the one that was read, whatever happens on disk.
- `SkipsArePublished` (`SkippedIsPublished`), an action property, from the same
  invariant.
- `EveryFileCounted` (`RunAccountsForEveryFile`), with `todo` finite and without
  the file in progress.

and, of what a consumer that applies the topics in order is left with:

- `CommittedStaysLive` (`CommittedIsLive`), `OutlivingIsAbandoned`
  (`OnlyAbandonedOutlives`) and the action property `DeletesNameLatest`
  (`DeletesNameLatestContent`), all from `LogInvariance`.

None of these three is inductive: they speak of settled files, and a file is settled by
a commit, long after the records were appended. `LogInv` follows the publication
that the commit relies on. `BatchIsDifference`: a staged batch holds the upserts
of its generation, and the deletes of what the committed row has and the
generation has not, and nothing else. `PublishedShows`: between the
publication and the commit the topics already show the generation. `FileShows`:
the row's elements are live unless the file is dirty (a dirty file whose row
has not changed may have lost some), what is live is in the row or was
abandoned, and the row's generation wrote its elements last. The lemmas beneath
it are about the live elements of `s \o d`: an append that starts with upserts of `x` and
does not delete `x` keeps it live, and any subsequence of a batch, which is
what a failed publication may leave, makes nothing live that the batch did not
upsert. `MetadataInv` is the companion for `source.metadata`, used below.

`PublishingRun_proofs`, for any batches, numbers and plans of partitions

- `PublishingInvariance`: in a publication the records accepted carry the first events of
  each topic, increasing and, until something is raised, open (`CarriesBatch`);
  a record is in the topic if and only if `landed` has its place (`LandedIsTopic`); and
  `landed` is increasing and without a gap, or a place is missing that has been passed
  and can never land (`LandsInOrder`). Outside a publication nothing is accepted
  or landed, and inside one the process is at `staged` with a usable producer
  (`CallFitsRun`).
- `RefinesParserRun` (`ImplementsParserRun`): `PublishingSpec => Spec`, by the identity on
  ParserRun's variables. Offers, landings and exceptions are stutters.
  `FlushReturns` is `PublishBatch`: `Confirm` asks that every open record is in the topic, so
  no place is missing, so `landed` has no gap and what landed is the batch
  (`WholeBatchLands`). `PublicationAborts` is `PublishFails`: an increasing `landed` makes what
  landed of each topic a subsequence of its batch (`LandedAreEvents`), and history changes
  unless nothing landed.
- `RecordsKeepPromises`: hence `StoreBackedByLog`, `CommittedIsLive` and
  `OnlyAbandonedOutlives` hold of a process that publishes record by record.

With `KafkaProducer_proofs.Refinement` this is the argument that ParserRun may take a
publication as one step. That the producer can stand for the publisher inside the
process, state by state, is the composition of the two and is not a theorem of
its own: the process knows the publisher through `BatchPublisher`'s actions only.

`MetadataSink_proofs`

- `DocumentsFollowCheckpoint` (`DocumentsMatchCheckpoint`) from `SinkInv`. Within a
  batch a document may be ahead of the progress, when the batch is written for the
  second time; so the invariant gives the document of a file only where nothing
  of the batch is left for it, or where something was written. `ParserInv`
  ties the last record of a settled file to its row.

`CpgPipeline_proofs`

- `PipelineRunsParser`: `PipelineSpec => Spec`, step by step, so that all theorems
  about ParserRun hold in the pipeline.
- `PipelineTypeCorrect`: graphs and offsets stay well typed through both statements.
- `CommittedNodesStay` (`CommittedNodesArePresent`), with runs that wait for
  nothing. `HistoryInv`: every delete in the topic was built for a content that
  comes later in the history of the file and has not the node, so that no later row
  holds the node in the delete's generation. `SinkFollows`: if the last
  record of the topic about a node is an upsert in a generation that is nowhere
  deleted, and the sink has passed it, Neo4j has the node in that
  generation. It holds through batches of any size and any redelivery, because
  whatever replays an old record of a node replays its last one after it.
- `AwaitedGraphIsExact` (`AwaitedGraphFollows`) and `OperatedGraphIsExact`
  (`GraphFollowsCommitted`): nodes, edges, placeholders and nothing else. Here the
  order *between* the sinks matters, and `OperatedInv` describes it: a file
  has a window in both topics, beyond offsets that are committed, of records of one
  publication of `g` over a committed `o`, perhaps repeated, perhaps partial
  (`Delivered`); its graph is between `o` and `g`; its tombstones are of
  contents that come before `g`'s (`TombsPrecede`), so that no upsert of `g` is
  stopped by one; what a sink has passed has had its effect; and at a commit the
  window is complete (`IsComplete`), so that nothing of `o` is left. `Awaiting`
  opens a new window only when both sinks have committed the old one. The
  window's edge deletes may meet an edge that the node sink detached, its edge upserts
  placeholders or nodes; each case is a lemma on the Cypher statements.

The three theorems assume `ContentsDoNotReturn`, that the edits of a file can be ranked, and
the last two also `RetryBeforeEdit` and `MaxVersion = 1`. All of them are values of
constants that `pipeline_operated` and `pipeline_disciplines` have; they say how the pipeline is
used, not what the code does. `pipeline_revert` shows the property fail without
the first, and [known limits](#known-limits-of-the-code) what fails without the others.

Positions in a topic are chosen as the last of a finite set of positions. That it exists
(`FiniteHasMax`) is proved from the well-founded inclusion of finite sets, because
induction over numbers would need an operator as a parameter.

`Deployment_proofs`, for any operators, connectors, targets, topics, failures and
changes by others

- `TopicsClaimed` (`TopicsAreAsClaimed`) from `TopicsInv`: while a script has seen no
  failure, a topic that is not as desired was missing when the script looked, and its message
  is still to be read. Topics others create in between make the request fail.
- `ConnectorsClaimed` (`ConnectorsAreAsClaimed`) from `DeployInv`: a deployment that
  has not failed so far has deployed every file but those left, and the one at
  hand if it was sent or had no drift. What is deployed stays deployed: other
  operators send the same targets, and whoever changes a connector makes every
  claim, and every script that is under way, void.
- `NodesUnique` (`NodesAreUnique`) from `SchemaInv`: constraints come before
  connectors, and connectors before nodes, so that no sink ever writes two nodes
  that a constraint does not stop.

`ShapeInv` adds the shape of a script's record. The theorems rest on
`DeploymentAssumption`.

`CommandLine_proofs`, for any commands, terminals, scopes, edits and kills

- `BaseIsInvariant`: types, what the step a process is at says of its record, and that
  whoever looks at the working copy looks at a copy of a commit. Every action is
  reduced to the record it leaves for its process (`Goes`), which the four proofs
  below share.
- `RunsStayInScope` (`RunStaysInScope`) from `RunInv`: the files of a run are
  those of its list that are left and the one at hand; the list is within the rules and
  `max_files` when the manifest is opened (`ListFilesIs`), is cut to `--limit` when
  the manifest has been written, and only shrinks from then on. `Scope` and `Rules`
  are recursive along `extends`; that they are defined (`ScopeDefined`,
  `RulesDefined`) comes from a depth, which `FiltersAssumption` gives because no
  scope extends itself. The theorem assumes `ExtensionsKeepExclusions`: a scope
  that extends another has no `exclude` of its own, true of `file_filters.yaml`.
  One that had would replace its parent's rules, not add to them, as
  `_load_scope` overrides key by key.
- `ManifestsAreOfOneRun` (`ManifestIsOfOneRun`) from `ManifestInv`: a manifest that is
  not mixed has one writer at most and is empty until that one writes; the records
  a process holds are in order, of its scope and at the commit of the copy.
- `SequentialFilesAreExact` (`SequentialIsExact`) from `ExactInv`: of a file that is
  neither contended nor committed by a dry run, one process at most is between the load of
  the row and the commit, with the row it loaded still in the store; the topics
  are the row's until the batch is published and the new content's from then on.
- `ReplayReportsItsBatch` (`PreviewIsPublished`) from `PreviewInv`: the preview is the
  count for the row and the content on disk, then for the content read, then for
  the row loaded, unless the process is marked as changed. That a clone changes the
  disk under no preview comes from `CopyFits`: a preview is of a copy.

`LiveVerification_proofs`, for the three tasks. The lemmas on steps show that every step of the three tasks is a step of the parser process, or
the renewal of the state database by a notebook, or a failure of the Spark job; the
script never renews the database, so that all that `ParserRun_proofs` says holds
while it runs.

- `RerunIsEmpty` (`RerunWindowIsEmpty`) from `NotebookInv`. A first run that counted no
  failure has dealt with every file but those left and the one at hand
  (`RunCovers`); it ends with every row current (`AllCurrent`). From then on, unless
  something is edited or upgraded, the second run only reads and skips, and the
  offsets asked before and after it are end offsets of one and the same log
  (`Asked`), topic by topic.
- `WindowsAreWhole` (`WindowIsWhole`) from `WindowInv`. `Whole`: of every generation,
  the log between two sets of offsets has all the upserts, or none. A publication
  appends a staged batch, which holds all the upserts of its generation and none of
  another (`StagedIsWhole`, from `BatchIsDifference`); while the offsets are asked
  nothing is published, or the window is `torn`. `ScriptReads` says that what the
  script has seen is what lies between its start and its cursor and inside the
  window, so that a script that has reached the end has seen the window and nothing
  else, however the parser process went on appending.
- `DuplicatesAreRepetition` (`DuplicatesMeanRepetition`) from `IdsInv`: in the log of a
  file that was not published again, all ids differ (`Distinct`). A staged batch is
  distinct in itself because the parser lists no id twice (`ParsedOnceAssumption`:
  `CpgParser.parse_file` keeps the first of every id) and deletes differ from upserts
  by type. Against the log, `RowLeads`: the row has a version at least that of every upsert in the
  log, and no delete names the row's generation and one of its elements. So an upsert
  of the same content means an unchanged file, which is skipped, or a content that came back;
  a delete names the row's content in the version that runs, and one like it would be
  of an element that the row has not. Between publication and commit `PublishedOnce` stands in for `RowLeads`.
  The ids of `parser.errors` may repeat (process_file.py:240: deterministic, and no row is
  committed that would keep the next run from sending the event again). Of them the
  theorem says that the script read two records and not one twice: an id seen
  has a place before the cursor (`ReportsKeep`), a second reading is a second place.
- `DocumentVerdictsAreTrue` (`DocumentVerdictIsTrue`) from `DocumentInv`, cell by cell.
  `OwnRun`: the notebook's runs touch its own file only, which parses (`OwnFile`), and
  a run that has counted a processed file leaves a row with the file's hash.
  `Established` is what holds however much failed and whoever else published: the
  offsets that the cells recorded, and a record of this file behind each of them once
  a cell has read it. It gives the half for "passed". For "failed", `Timely` gives the
  exact offsets at every step of a run (`OnTime`), as long as `Undisturbed`: no fault,
  and no foreign record behind the baseline. Neither is ever undone, so that a failed
  verdict has a fault or a foreign record behind it.
- `VerdictsAreSound` (`VerdictIsSound`) from `VerificationInv`. `OneRun`: over a new
  database every file that the run has not done has no row, so that it is published
  whole, and a run without failures leaves every row. `GroupOffsets`: a group that
  has committed reports its true lag, and nothing is published once the run has ended;
  so what a wait has seen at zero stays there (`Awaited`). `Trace`: the records of
  this run lie behind an offset that was committed when it began, hence no redelivery
  falls back to anything older; they are upserts in a generation that no delete names
  (`TombsNamed`, and `primed`), so no tombstone stops them, and those that a sink has
  passed show in the graph. Of the replay this says what it says of the first run,
  because nothing is dead-lettered between the two. `Steady` is for the other half:
  placeholders are nodes of this run (`clean`), so that none is left after the
  wait, and a graph that has the whole file keeps its counts through the replay.

Only model-checked:

- the liveness properties (`EventuallyCommitted`, `FlushEnds`, `GraphConverges`,
  `DocumentsConverge`, `DeploymentConverges`), which need fairness and ENABLED;
- the parser's graphs (`graphs`): CfgBuilder, DfgBuilder, CpgParser and
  PythonAst are RECURSIVE operators over syntax trees, and what they compute for
  every input is a matter of induction, which the prover cannot do.

## Bounds

Every bound is a constant in a guard. `MaxEdits`, `MaxFaults` and `MaxVersion` bound
the changes on disk, the faults and the upgrades; `EditsAllowed` and
`FaultsAllowed` do so for each task of LiveVerification; `MaxRecords` the
records offered to a producer; `MaxCheckpoints` the checkpoint directories;
`MaxTheirs` the records of other files; `MaxCommands` the commands typed; `MaxMeddling` what others do to topics and
connectors; `MaxLost` the generations that lose batches and `MaxDeadLetters` the
records in `connector.errors`. `NodeBatch` and `EdgeBatch` are the batch sizes of the sinks (100
and 5 in the repository): a batch is any number of records up to them, two of
either kind in `pipeline_operated`, four and one in `pipeline_disciplines`, two
and one in `live_checks`, enough for a batch to hold records of two generations
of the same element. `Patience` is the number of idle polls after which the
inspection stops, five in the script and two here: what matters is that it
may stop too early, which two allow. `MaxReports` bounds the reports of a file in
`parser.errors`; two are enough for one to be repeated. Topics, offsets and runs are bounded
through all of these.

They suffice for what is at stake. A partial publication that is followed by an
edit and a commit needs one fault and two edits; a second failure in the same
run follows from the first, because the producer stays FAILED (`publishing`). A stale tombstone needs an element that lives
through two generations and dies in the third. The publications of `publishing` have up to
six events, of all five types, and one fault: a record passed over, an
event that cannot be serialised, a flush that raises, or a kill; three runs of two
files need no more than 54 numbers. A producer can be led
through a confirmed, a dropped and a failing batch with five records, two of one
partition in a batch. A batch of the Spark job that is taken again after newer
metadata needs one kill, and a second reading of the topic one more checkpoint.
Lost updates and mixed manifests need two processes and two commands; the third
command sees what they left. One request that fails and one change by somebody
else can fall between any two steps of two operators. A content that comes back
needs two edits. Statements of the parsed programs nest three deep (a function, a compound, a compound within),
and the bodies include every jump, alone and under a condition.

One file is enough where files share nothing but the process; `parser_one` puts a
file that never parses before it, for the producer they share (`list_python_files`
sorts the paths, so a run meets its files in a fixed order; the theorems about
ParserRun hold for any order), `publishing` has
the case in which they share the counters too, `commands` the one
in which they share a manifest and a limit. `SYMMETRY` is used for the terminals
of `commands` only, whose properties are invariants. The theorems remove the
bounds where they apply.

`CHECK_DEADLOCK FALSE` stands where the system ends: the producer has used up its
records, a program has run to its exit, the commands are typed and done, a
notebook has its verdict. Elsewhere behaviours never deadlock, because a process
can always be started again.

## Fairness

- `FairPublishingSpec`: a process that is up proceeds (`WF` of what a
  single-threaded run does next, faults excluded), and the command is run again
  when it is down. Nothing in the repository reruns it by itself: convergence is
  a promise to an operator who does. The edits and faults end by their bounds. Kafka
  appends what it was given, unless a fault keeps it from doing so, which makes `flush`
  raise; an exception ends the publication. `flush` needs no more, by `FlushEnds` of KafkaProducer.
- `FairSpec` of KafkaProducer: the caller's thread runs on inside `flush`. No
  fairness of the broker or of librdkafka: `Producer.flush(timeout)` ends the wait.
- `PipelineFairness`: the parser's, a sink with records consumes some, and offsets
  are committed again and again (`SF`, since the interval commit of Kafka Connect
  may be preempted by restarts but recurs). Without it a task could restart from
  the same offset for ever.
- `FairMetadataSpec`: the parser's, the job is started again when it has ended, and
  carries out its batch. `SF` of `PlanBatch`, because a query with
  `--available-now` that may end as soon as it starts takes what there is first.
- `FairSpec` of Deployment: scripts run to their end, and the operators in `Steady`
  start each of them again and again (`SF`, since it can be started only when no
  other runs in their terminal). Others are under no obligation.

EventInspection, SinkVerification, DocumentVerification and CommandLine assume no fairness and have no liveness
properties: `wait_for_zero_lag` gives up, and commands are typed by people.

## What is left out

- Event payloads, wording, logging and metrics, the JSON schemas of
  `event_validator.py` (its effect, an exception before anything is published, is
  in ParserRun), settings and environment variables.
- Of Python, `with`, `try`, classes, attributes, subscripts and expressions with
  more than one name: every builder treats them as statements with children.
- The migration of a state database without version columns; `delete` of a row,
  which nothing calls. A file that disappears keeps its row, its graph and its
  document: no code propagates deletions, so no property speaks of it.
- The division by zero with which the edge statement rejects an edge whose end
  points changed: edge ids are hashes over their end points.
- The two sinks' transactions are atomic in CpgPipeline. Deployment has the one
  interleaving that the schema is there to prevent, the MERGE of one node by two
  transactions; others, clause by clause, are planned.
- A `KeyboardInterrupt` inside `flush` (the process ends, as in `PublishFails`, or
  in `Crash` before or after a report).
- In ParserRun `parser.errors` is the set of the hashes reported, by file: no component
  reads it. EventInspection, whose script does, keeps it as a topic.
- Starting offsets of the Spark job other than `earliest` (`--starting-offsets`).
- Steps that are one in the model and several in the code, where the interleavings
  make no difference to a property: the second walk, the hashing and the opening of
  the manifest in `Discover`; the records of a manifest in `WriteManifest` (a manifest
  with several writers is excepted by name); the two readings of the end of
  `connector.errors` before the replay of Task 4 in `PrepareReplay` (no lag is left
  between them, so nothing is pending that could add a record).
- The cell of Task 3 on a syntax error; that Task 5 asks for duplicate documents
  (they are kept by `file_id`) and indexes, and that other Spark jobs may write to
  its collection;
  `inspect_neo4j_graph.py`, which prints what it reads (the option
  `--fail-on-duplicates` that Task 6 passes to it does not exist); the queries
  for duplicate edges, missing properties and tombstones.
- Symbolic links and source roots in the working copy; what a glob pattern
  matches is a set of paths.
- Waiting for the services to come up before topics and schema are created.
- Tasks 1, 2 and 6 of the book, apart from the components they call.

## Plan

Theorems:

1. PublishingRun with KafkaProducer in place of BatchPublisher, as one composition.

And of the system:

2. The sinks' statements clause by clause, as two concurrent transactions.
3. Several Spark jobs over one collection, and records of other producers in the
   topics that Tasks 3 and 4 look at.
4. `try`, `with` and classes in PythonAst.
