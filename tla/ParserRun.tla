------------------------------ MODULE ParserRun ------------------------------
(***************************************************************************)
(* The parser process: ProcessRepositoryService.execute runs over the      *)
(* discovered files and calls ProcessFileService.execute for each, which   *)
(* reads, compares with the SQLite state, parses, diffs, publishes one     *)
(* batch of events and, only after the broker acknowledged all of it,      *)
(* commits the new state.  The process can die between any two steps, a    *)
(* publication can fail half way, files change and disappear while a run   *)
(* is going on, and a new parser version can be deployed between runs.     *)
(*                                                                         *)
(* A topic is modelled per key: records with one file_id share a partition *)
(* and keep their order, and records of two files are never compared.      *)
(* Here the outcome of a publication is one step, whole or in part;        *)
(* PublishingRun.tla takes it record by record and implements this module. *)
(***************************************************************************)
EXTENDS CpgEvents

CONSTANTS
    NoJob,         \* no file is being processed
    AllowedEdits,  \* pairs of contents: how the users of the repository edit it
    FailFastModes, \* the values of fail_fast in use; the CLI leaves it FALSE
    MaxEdits,      \* bound on the number of changes on disk
    MaxFaults      \* bound on crashes and on failed calls to Kafka and SQLite

ASSUME RunAssumption ==
    /\ NoJob \notin [file : Files, content : Contents \cup {Missing},
                     batch : [Topics -> Seq(Event)]]
    /\ NoRow \notin Row
    /\ AllowedEdits \subseteq (Contents \cup {Missing}) \X (Contents \cup {Missing})
    /\ FailFastModes \subseteq BOOLEAN
    /\ MaxEdits \in Nat
    /\ MaxFaults \in Nat

VARIABLES
    disk,       \* the working copy: the content of each file
    edits,      \* how many changes it has seen
    version,    \* the parser and schema version of the deployed program
    store,      \* the SQLite table file_state, by file_id
    log,        \* the Kafka topics, by topic and key
    errors,     \* parser.errors, by key: the hashes reported, as event ids
    pc,         \* where the process is
    todo,       \* the files of this run that are still to be processed
    job,        \* the local variables of ProcessFileService.execute
    producer,   \* READY, or FAILED and unusable until the process ends
    failFast,   \* the argument of ProcessRepositoryService.execute
    summary,    \* the counters it returns
    faults,     \* how many faults have happened
    abandoned,  \* history: generations published, wholly or not, never committed
    dirty       \* history: files with records newer than their committed row

envVars == <<disk, edits, version>>
runVars == <<todo, failFast, summary>>
histVars == <<abandoned, dirty>>
vars == <<disk, edits, version, store, log, errors, pc, todo, job, producer,
          failFast, summary, faults, abandoned, dirty>>

PC == {"down", "loop", "read", "failing", "staged", "published"}

NoEvents == [t \in Topics |-> << >>]
Job == [file : Files, content : Contents \cup {Missing}, batch : [Topics -> Seq(Event)]]
EmptySummary == [eligible |-> 0, processed |-> 0, skipped |-> 0, failed |-> 0]
Summary == [eligible : Nat, processed : Nat, skipped : Nat, failed : Nat]

TypeOK ==
    /\ disk \in [Files -> Contents \cup {Missing}]
    /\ edits \in Nat
    /\ version \in Versions
    /\ store \in [Files -> Row \cup {NoRow}]
    /\ log \in [Topics -> [Files -> Seq(Event)]]
    /\ errors \in [Files -> SUBSET (Contents \cup {Missing})]
    /\ pc \in PC
    /\ todo \in SUBSET Files
    /\ job \in Job \cup {NoJob}
    /\ pc \in {"read", "failing", "staged", "published"} <=> job # NoJob
    /\ producer \in {"READY", "FAILED"}
    /\ failFast \in BOOLEAN
    /\ summary \in Summary
    /\ faults \in Nat
    /\ abandoned \in [Files -> SUBSET Generation]
    /\ dirty \in SUBSET Files

Init ==
    /\ disk \in [Files -> Contents \cup {Missing}]
    /\ edits = 0
    /\ version = 1
    /\ store = [f \in Files |-> NoRow]
    /\ log = [t \in Topics |-> [f \in Files |-> << >>]]
    /\ errors = [f \in Files |-> {}]
    /\ pc = "down"
    /\ todo = {}
    /\ job = NoJob
    /\ producer = "READY"
    /\ failFast = FALSE
    /\ summary = EmptySummary
    /\ faults = 0
    /\ abandoned = [f \in Files |-> {}]
    /\ dirty = {}
-----------------------------------------------------------------------------
(***************************************************************************)
(* The environment: edits, deletions and restorations of files at any      *)
(* moment, and the deployment of a new version between two runs.           *)
(***************************************************************************)
Edit(f, c) ==
    /\ edits < MaxEdits
    /\ <<disk[f], c>> \in AllowedEdits
    /\ disk' = [disk EXCEPT ![f] = c]
    /\ edits' = edits + 1
    /\ UNCHANGED <<version, store, log, errors, pc, job, producer, faults,
                   runVars, histVars>>

Upgrade ==
    /\ pc = "down"
    /\ version < MaxVersion
    /\ version' = version + 1
    /\ UNCHANGED <<disk, edits, store, log, errors, pc, job, producer, faults,
                   runVars, histVars>>
-----------------------------------------------------------------------------
(***************************************************************************)
(* ProcessRepositoryService.execute                                        *)
(***************************************************************************)

(* Mutant: a run over the files that have no row yet.                      *)
StartRunNewFiles ==
    /\ pc = "down"
    /\ pc' = "loop"
    /\ todo' = {f \in Files : disk[f] # Missing /\ store[f] = NoRow}
    /\ summary' = [EmptySummary EXCEPT !.eligible = Cardinality(todo')]
    /\ failFast' \in FailFastModes
    /\ producer' = "READY"
    /\ UNCHANGED <<envVars, store, log, errors, job, faults, histVars>>

(* A process starts: adapters are built, discovery lists the files.        *)
StartRun ==
    /\ pc = "down"
    /\ pc' = "loop"
    /\ todo' = {f \in Files : disk[f] # Missing}
    /\ summary' = [EmptySummary EXCEPT !.eligible = Cardinality(todo')]
    /\ failFast' \in FailFastModes
    /\ producer' = "READY"
    /\ UNCHANGED <<envVars, store, log, errors, job, faults, histVars>>

(* Mutant: the local variables survive the end of the run.                 *)
HaltKeepingJob ==
    /\ pc' = "down"
    /\ todo' = {}
    /\ producer' = "READY"
    /\ failFast' = FALSE
    /\ summary' = EmptySummary
    /\ UNCHANGED job

(* The process ends, by finishing its loop or by an exception that aborts  *)
(* it: what it held in memory, the summary it printed included, is gone.   *)
Halt ==
    /\ pc' = "down"
    /\ job' = NoJob
    /\ todo' = {}
    /\ producer' = "READY"
    /\ failFast' = FALSE
    /\ summary' = EmptySummary

EndRun ==
    /\ pc = "loop"
    /\ todo = {}
    /\ Halt
    /\ UNCHANGED <<envVars, store, log, errors, faults, histVars>>

(* The loop goes on with the next file.                                    *)
NextFile ==
    /\ pc' = "loop"
    /\ job' = NoJob
    /\ UNCHANGED <<todo, failFast, producer>>

(* Mutant: a failed file that is not counted.                              *)
AfterFailureUncounted(producerNext) ==
    IF failFast
    THEN Halt
    ELSE /\ pc' = "loop"
         /\ job' = NoJob
         /\ producer' = producerNext
         /\ UNCHANGED <<todo, failFast, summary>>

(* A FAILED result, or an exception that is not fatal: the file counts as  *)
(* failed and the loop goes on, or stops if fail_fast is set.              *)
AfterFailure(producerNext) ==
    IF failFast
    THEN Halt
    ELSE /\ summary' = [summary EXCEPT !.failed = @ + 1]
         /\ pc' = "loop"
         /\ job' = NoJob
         /\ producer' = producerNext
         /\ UNCHANGED <<todo, failFast>>

(* PublishError, SchemaValidationError and StateStoreError are raised out  *)
(* of the loop, and the counters with them.                                *)
Abort == Halt
-----------------------------------------------------------------------------
(***************************************************************************)
(* ProcessFileService.execute                                              *)
(***************************************************************************)
JobFor(f, c) == [file |-> f, content |-> c, batch |-> NoEvents]

JobGeneration == <<job.content, version>>

(* read_file: from here on the run works on the bytes it has read.         *)
ReadFile(f) ==
    /\ pc = "loop"
    /\ f \in todo
    /\ job' = JobFor(f, disk[f])
    /\ todo' = todo \ {f}
    /\ pc' = IF disk[f] = Missing THEN "failing" ELSE "read"
    /\ UNCHANGED <<envVars, store, log, errors, producer, failFast, summary,
                   faults, histVars>>

SkipUnchanged ==
    /\ pc = "read"
    /\ Unchanged(store[job.file], JobGeneration)
    /\ summary' = [summary EXCEPT !.skipped = @ + 1]
    /\ NextFile
    /\ UNCHANGED <<envVars, store, log, errors, faults, histVars>>

(* The parser raises ParsingError and the failure is reported.             *)
ParseFails ==
    /\ pc = "read"
    /\ ~ Unchanged(store[job.file], JobGeneration)
    /\ job.content \in Unparsable
    /\ pc' = "failing"
    /\ UNCHANGED <<envVars, store, log, errors, job, producer, runVars, faults,
                   histVars>>

(* It raises anything else: nothing is reported, the loop counts it.       *)
ParserRaises ==
    /\ pc = "read"
    /\ ~ Unchanged(store[job.file], JobGeneration)
    /\ job.content \in Unparsable
    /\ AfterFailure(producer)
    /\ UNCHANGED <<envVars, store, log, errors, faults, histVars>>

(* The graph is parsed, compared with the committed row, and turned into   *)
(* validated events.                                                       *)
StageEvents ==
    /\ pc = "read"
    /\ ~ Unchanged(store[job.file], JobGeneration)
    /\ job.content \notin Unparsable
    /\ LET row == store[job.file]
       IN \E dn \in SetToSeqs(RemovedNodes(row, JobGeneration)),
             de \in SetToSeqs(RemovedEdges(row, JobGeneration)) :
             job' = [job EXCEPT !.batch =
                       EventsToSend(job.file, row, JobGeneration, dn, de)]
    /\ pc' = "staged"
    /\ UNCHANGED <<envVars, store, log, errors, producer, runVars, faults,
                   histVars>>

(* Every record of the batch reaches its topic and is acknowledged.        *)
Deliver(d) ==
    log' = [t \in Topics |-> [log[t] EXCEPT ![job.file] = @ \o d[t]]]

PublishBatch ==
    /\ pc = "staged"
    /\ producer = "READY"
    /\ Deliver(job.batch)
    /\ pc' = "published"
    /\ dirty' = dirty \cup {job.file}
    /\ abandoned' = [abandoned EXCEPT ![job.file] = @ \cup {JobGeneration}]
    /\ UNCHANGED <<envVars, store, errors, job, producer, runVars, faults>>

(* The subsequences of s.  They are drawn by index sets, so that the       *)
(* prover can see that each is a sequence over the elements of s.          *)
Subsequences(s) ==
    UNION { { [i \in 1..k |-> s[ix[i]]] :
                ix \in {g \in [1..k -> DOMAIN s] :
                          \A i, j \in 1..k : i < j => g[i] < g[j]} }
            : k \in 0..Len(s) }

(* write_event or flush raises, or the process dies inside them: of every  *)
(* partition any subsequence of the records may have been appended.        *)
PartlyDelivered ==
    \E n \in Subsequences(job.batch["cpg.nodes"]),
       e \in Subsequences(job.batch["cpg.edges"]),
       m \in Subsequences(job.batch["source.metadata"]) :
       LET part == [t \in Topics |-> CASE t = "cpg.nodes" -> n
                                       [] t = "cpg.edges" -> e
                                       [] t = "source.metadata" -> m]
       IN /\ Deliver(part)
          /\ IF part = NoEvents
             THEN UNCHANGED histVars
             ELSE /\ dirty' = dirty \cup {job.file}
                  /\ abandoned' = [abandoned EXCEPT
                                     ![job.file] = @ \cup {JobGeneration}]

(* Mutant: the exception is logged and the state committed all the same.   *)
PublishFailsSwallowed ==
    /\ pc = "staged"
    /\ producer = "READY"
    /\ faults < MaxFaults
    /\ faults' = faults + 1
    /\ PartlyDelivered
    /\ pc' = "published"
    /\ UNCHANGED <<envVars, runVars, store, errors, job, producer>>

PublishFails ==
    /\ pc = "staged"
    /\ producer = "READY"
    /\ faults < MaxFaults
    /\ faults' = faults + 1
    /\ PartlyDelivered
    /\ Abort
    /\ UNCHANGED <<envVars, store, errors>>

(* Reading the state, validating or serialising an event raises before any *)
(* record is handed to Kafka.                                              *)
AbortBeforePublish ==
    /\ pc \in {"read", "failing", "staged"}
    /\ faults < MaxFaults
    /\ faults' = faults + 1
    /\ Abort
    /\ UNCHANGED <<envVars, store, log, errors, histVars>>

(* The producer failed on an earlier file, where the error was swallowed.  *)
PublishRejected ==
    /\ pc = "staged"
    /\ producer = "FAILED"
    /\ Abort
    /\ UNCHANGED <<envVars, store, log, errors, faults, histVars>>

CommitState ==
    /\ pc = "published"
    /\ store' = [store EXCEPT ![job.file] = RowFor(JobGeneration)]
    /\ summary' = [summary EXCEPT !.processed = @ + 1]
    /\ NextFile
    /\ dirty' = dirty \ {job.file}
    /\ abandoned' = [abandoned EXCEPT ![job.file] = @ \ {JobGeneration}]
    /\ UNCHANGED <<envVars, log, errors, faults>>

CommitFails ==
    /\ pc = "published"
    /\ faults < MaxFaults
    /\ faults' = faults + 1
    /\ Abort
    /\ UNCHANGED <<envVars, store, log, errors, histVars>>

(* _handle_failure: the report is written and flushed, best effort.        *)
ReportError ==
    /\ pc = "failing"
    /\ producer = "READY"
    /\ errors' = [errors EXCEPT ![job.file] = @ \cup {job.content}]
    /\ AfterFailure("READY")
    /\ UNCHANGED <<envVars, store, log, faults, histVars>>

ReportErrorFails ==
    /\ pc = "failing"
    /\ producer = "READY"
    /\ faults < MaxFaults
    /\ faults' = faults + 1
    /\ \/ errors' = [errors EXCEPT ![job.file] = @ \cup {job.content}]
       \/ UNCHANGED errors
    /\ AfterFailure("FAILED")
    /\ UNCHANGED <<envVars, store, log, histVars>>

(* The report cannot be serialised: it is dropped, and the producer is     *)
(* none the worse for it.                                                  *)
ReportErrorDropped ==
    /\ pc = "failing"
    /\ producer = "READY"
    /\ faults < MaxFaults
    /\ faults' = faults + 1
    /\ AfterFailure("READY")
    /\ UNCHANGED <<envVars, store, log, errors, histVars>>

ReportErrorRejected ==
    /\ pc = "failing"
    /\ producer = "FAILED"
    /\ AfterFailure("FAILED")
    /\ UNCHANGED <<envVars, store, log, errors, faults, histVars>>

(* The process is killed; inside a publication this is PublishFails, and   *)
(* inside a report it comes before the report or after it.                 *)
Crash ==
    /\ pc # "down"
    /\ faults < MaxFaults
    /\ faults' = faults + 1
    /\ Halt
    /\ UNCHANGED <<envVars, store, log, errors, histVars>>
-----------------------------------------------------------------------------
(* What a run does when nothing goes wrong around it.                      *)
Proceed ==
    \/ \E f \in Files : ReadFile(f)
    \/ SkipUnchanged
    \/ ParseFails \/ ParserRaises
    \/ StageEvents
    \/ PublishBatch \/ PublishRejected
    \/ CommitState
    \/ ReportError \/ ReportErrorRejected
    \/ EndRun

Fault ==
    \/ AbortBeforePublish \/ PublishFails \/ CommitFails
    \/ ReportErrorFails \/ ReportErrorDropped
    \/ Crash

Environment ==
    \/ \E f \in Files, c \in Contents \cup {Missing} : Edit(f, c)
    \/ Upgrade

RunNext == StartRun \/ Proceed \/ Fault

Next == RunNext \/ Environment

Spec == Init /\ [][Next]_vars

-----------------------------------------------------------------------------
(***************************************************************************)
(* What the parser process promises.                                       *)
(***************************************************************************)

(* Every element of generation g of file f is in the topics.               *)
FullyPublished(f, g) ==
    /\ \A n \in NodesOf(g) : NodeUpsert(n, g) \in Range(log["cpg.nodes"][f])
    /\ \A e \in EdgesOf(g) : EdgeUpsert(e, g) \in Range(log["cpg.edges"][f])
    /\ FileMetadataUpsert(f, g) \in Range(log["source.metadata"][f])

(* "Commit to SQLite State DB only after successful delivery ack": whatever*)
(* failed or died in between, a committed row describes a generation that  *)
(* is in Kafka as a whole, and holds exactly that generation's ids.        *)
StoreBackedByLog ==
    \A f \in Files : store[f] # NoRow =>
        /\ store[f] = RowFor(<<store[f].hash, store[f].version>>)
        /\ FullyPublished(f, <<store[f].hash, store[f].version>>)

(* A file is skipped only if the generation a fresh run would publish, the *)
(* bytes just read under the deployed version, is already in Kafka.        *)
SkippedIsPublished ==
    [][SkipUnchanged => FullyPublished(job.file, JobGeneration)]_vars

(* The ids a consumer that applies the topic in order is left with: those  *)
(* whose last event is an upsert.                                          *)
Live(s, upsert) ==
    {s[i].id : i \in {i \in DOMAIN s :
        /\ s[i].type = upsert
        /\ \A j \in DOMAIN s : j > i /\ s[j].id = s[i].id => s[j].type = upsert}}

LiveNodes(f) == Live(log["cpg.nodes"][f], "NODE_UPSERT")
LiveEdges(f) == Live(log["cpg.edges"][f], "EDGE_UPSERT")

Settled(f) == f \notin dirty

(* No sequence of edits, aborted runs and retries makes the deletes of a   *)
(* later generation take away an element of the committed one.             *)
CommittedIsLive ==
    \A f \in Files : Settled(f) /\ store[f] # NoRow =>
        /\ store[f].nodes \subseteq LiveNodes(f)
        /\ store[f].edges \subseteq LiveEdges(f)

(* What outlives its generation in the topics is nothing but what was      *)
(* published and never committed: the difference to the committed row      *)
(* accounts for every committed element, through skips, retries and        *)
(* upgrades.                                                               *)
OnlyAbandonedOutlives ==
    \A f \in Files : Settled(f) =>
        /\ LiveNodes(f) \subseteq
             RowNodes(store[f]) \cup UNION {NodesOf(g) : g \in abandoned[f]}
        /\ LiveEdges(f) \subseteq
             RowEdges(store[f]) \cup UNION {EdgesOf(g) : g \in abandoned[f]}

(* A delete is dropped by the sink unless it names the generation that     *)
(* last wrote the element.  As long as no publication of the file was left *)
(* uncommitted, every delete names the content that did.                   *)
LatestUpsert(s, upsert, x) ==
    LET hits == {i \in DOMAIN s : s[i].type = upsert /\ s[i].id = x}
    IN s[CHOOSE i \in hits : \A j \in hits : j <= i].gen

NamesLatest(t, delete, upsert) ==
    \A d \in Range(job.batch[t]) : d.type = delete =>
        LatestUpsert(log[t][job.file], upsert, d.id)[1] = d.gen[1]

DeletesNameLatestContent ==
    [][PublishBatch /\ abandoned[job.file] = {} =>
         /\ NamesLatest("cpg.nodes", "NODE_DELETE", "NODE_UPSERT")
         /\ NamesLatest("cpg.edges", "EDGE_DELETE", "EDGE_UPSERT")]_vars

(* Every file of a run is accounted for exactly once in its summary.       *)
RunAccountsForEveryFile ==
    pc # "down" =>
        summary.processed + summary.skipped + summary.failed
          + Cardinality(todo) + (IF job = NoJob THEN 0 ELSE 1) = summary.eligible

(* Once edits, upgrades and faults cease, every file that parses ends up   *)
(* committed in the content it has on disk, under the deployed version.    *)
EventuallyCommitted ==
    <>[](\A f \in Files : disk[f] \in Contents \ Unparsable =>
            Unchanged(store[f], <<disk[f], version>>))
=============================================================================
