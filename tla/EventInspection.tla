--------------------------- MODULE EventInspection ---------------------------
(***************************************************************************)
(* What Task 3 checks on the topics, while the parser process runs.        *)
(* scripts/inspect_kafka_events.py listens to the records between two sets *)
(* of end offsets (or to all there are, without the files) until nothing   *)
(* arrives any more, and fails if it sees an event id twice.  The Task 3   *)
(* notebook brackets a run with end offsets, reads exactly the records in  *)
(* between, and then expects none from a second run.                       *)
(*                                                                         *)
(* End offsets are asked for one topic after the other.  They are by key,  *)
(* as the log of ParserRun is.  The reports of failed parses are a topic   *)
(* here, with an order and with repetitions, where ParserRun has the set   *)
(* of the hashes reported.                                                 *)
(***************************************************************************)
EXTENDS ParserRun

CONSTANTS
    Patience,    \* the empty polls in a row after which the script stops
    MaxReports   \* a bound on the reports in parser.errors, by file

ASSUME InspectionAssumption == Patience \in Nat \ {0} /\ MaxReports \in Nat

VARIABLES
    reports,     \* the records of parser.errors, by key
    tool,        \* the script or the notebook
    stage,       \* how far it is; at the end, its outcome
    asked,       \* how many topics have told their end offsets
    bounded,     \* the script was given the two files of offsets
    before,      \* end offsets at the start of the window, by topic and key
    after,       \* and at its end
    cursor,      \* the records read, by topic and key
    emptyPolls,  \* polls without a record since the last record
    seen,        \* the event ids read
    duplicates,  \* those of them that were read more than once
    second,      \* the notebook is at the rerun
    repeated,    \* history: files published after a failure, or that came back
    torn,        \* history: a publication in parts, or while offsets are asked for
    calm,        \* history: nothing was edited since the notebook's first run
    heard        \* history: the script stopped with nothing in the window unread

windowVars == <<asked, bounded, before, after, second>>
readVars == <<cursor, emptyPolls, seen, duplicates>>
inspectionHistory == <<repeated, torn, calm, heard>>
inspectionVars == <<reports, tool, stage, windowVars, readVars, inspectionHistory>>

Stages == {"idle", "before", "open", "running", "ran", "after", "closed",
           "reading", "passed", "failed", "aborted"}

Streams == Topics \cup {"parser.errors"}

Stream(t, f) == IF t = "parser.errors" THEN reports[f] ELSE log[t][f]

Nowhere == [t \in Streams |-> [f \in Files |-> 0]]

InspectionInit ==
    /\ reports = [f \in Files |-> << >>]
    /\ tool \in {"script", "notebook"}
    /\ stage = "idle"
    /\ asked = 0
    /\ bounded = TRUE
    /\ before = Nowhere /\ after = Nowhere /\ cursor = Nowhere
    /\ emptyPolls = 0
    /\ seen = {}
    /\ duplicates = {}
    /\ second = FALSE
    /\ repeated = {}
    /\ torn = FALSE /\ calm = TRUE /\ heard = FALSE
-----------------------------------------------------------------------------
(***************************************************************************)
(* The window.                                                             *)
(***************************************************************************)
TopicOrder == <<"cpg.nodes", "cpg.edges", "source.metadata", "parser.errors">>

(* get_topic_end_offsets                                                   *)
EndOffsets(t) == [f \in Files |-> Len(Stream(t, f))]

(* The next topic in the order of the loop is asked, by a program that the *)
(* script knows nothing of; or by the notebook, which waits for its runs.  *)
Ask ==
    /\ tool = "notebook" => pc = "down"
    /\ asked' = asked + 1

AskBefore ==
    /\ stage = "before"
    /\ Ask
    /\ before' = [before EXCEPT ![TopicOrder[asked']] = EndOffsets(TopicOrder[asked'])]
    /\ stage' = IF asked' = Len(TopicOrder) THEN "open" ELSE "before"
    /\ UNCHANGED <<vars, reports, tool, bounded, after, second, readVars, inspectionHistory>>

AskAfter ==
    /\ stage = "after"
    /\ Ask
    /\ after' = [after EXCEPT ![TopicOrder[asked']] = EndOffsets(TopicOrder[asked'])]
    /\ stage' = IF asked' = Len(TopicOrder) THEN "closed" ELSE "after"
    /\ UNCHANGED <<vars, reports, tool, bounded, before, second, readVars, inspectionHistory>>

OpenWindow ==
    /\ tool = "script"
    /\ stage = "idle"
    /\ stage' = "before"
    /\ UNCHANGED <<vars, reports, tool, windowVars, readVars, inspectionHistory>>

CloseWindow ==
    /\ stage = IF tool = "script" THEN "open" ELSE "ran"
    /\ stage' = "after"
    /\ asked' = 0
    /\ UNCHANGED <<vars, reports, tool, bounded, before, after, second, readVars,
                   inspectionHistory>>
-----------------------------------------------------------------------------
(***************************************************************************)
(* inspect_kafka_events.py                                                 *)
(***************************************************************************)
(* The partitions are assigned and sought; or the topics are subscribed    *)
(* to, by a group that never commits, from the earliest record.            *)
Listen ==
    /\ tool = "script"
    /\ \/ stage = "closed" /\ cursor' = before /\ bounded' = TRUE
       \/ stage = "idle" /\ cursor' = Nowhere /\ bounded' = FALSE
    /\ stage' = "reading"
    /\ UNCHANGED <<vars, reports, tool, asked, before, after, second, emptyPolls, seen,
                   duplicates, inspectionHistory>>

(* Mutant: the end offset is taken for the last record of the window.      *)
InWindowInclusive(t, f, offset) == ~bounded \/ offset <= after[t][f]

InWindow(t, f, offset) == ~bounded \/ offset < after[t][f]

(* Mutant: the hash of the content is left out.                            *)
EventIdOfVersion(f, event) == <<f, event.type, event.id, event.gen[2]>>

(* generate_event_id hashes the versions, the type, the entity, whose id   *)
(* embeds the file, and the content hash: of a record, all there is.       *)
EventId(f, event) == <<f, event.type, event.id, event.gen>>

(* A record arrives.  One behind the window is skipped, but it was an      *)
(* arrival all the same.                                                   *)
PollRecord(t, f) ==
    /\ tool = "script" /\ stage = "reading"
    /\ cursor[t][f] < Len(Stream(t, f))
    /\ cursor' = [cursor EXCEPT ![t][f] = @ + 1]
    /\ emptyPolls' = 0
    /\ IF InWindow(t, f, cursor[t][f])
       THEN LET id == EventId(f, Stream(t, f)[cursor[t][f] + 1])
            IN /\ seen' = seen \cup {id}
               /\ duplicates' = duplicates \cup ({id} \cap seen)
       ELSE UNCHANGED <<seen, duplicates>>
    /\ UNCHANGED <<vars, reports, tool, stage, windowVars, inspectionHistory>>

EverythingRead ==
    \A t \in Streams, f \in Files :
        cursor[t][f] >= IF bounded THEN after[t][f] ELSE Len(Stream(t, f))

(* The exit code: keys, schemas and routing are right by construction.     *)
Verdict ==
    /\ stage' = IF duplicates # {} THEN "failed" ELSE "passed"
    /\ heard' = EverythingRead

(* poll(1.0) returns None, be it that the broker is slow or that there is  *)
(* nothing to read.                                                        *)
PollNothing ==
    /\ tool = "script" /\ stage = "reading"
    /\ emptyPolls' = emptyPolls + 1
    /\ IF emptyPolls' < Patience THEN UNCHANGED <<stage, heard>> ELSE Verdict
    /\ UNCHANGED <<vars, reports, tool, windowVars, cursor, seen, duplicates, repeated, torn, calm>>

(* A consumer error, or Ctrl-C: the verdict is on what has been read.      *)
ListeningBreaks ==
    /\ tool = "script" /\ stage = "reading"
    /\ Verdict
    /\ UNCHANGED <<vars, reports, tool, windowVars, readVars, repeated, torn, calm>>
-----------------------------------------------------------------------------
(***************************************************************************)
(* The Task 3 notebook                                                     *)
(***************************************************************************)
(* It starts with a state database of its own.                             *)
NotebookBegins ==
    /\ tool = "notebook" /\ stage = "idle"
    /\ pc = "down"
    /\ store' = [f \in Files |-> NoRow]
    /\ stage' = "before"
    /\ UNCHANGED <<disk, edits, version, log, errors, pc, job, producer, faults,
                   runVars, histVars, reports, tool, windowVars, readVars, inspectionHistory>>

(* Mutant: the offsets captured before the first run serve for the second. *)
NotebookReadsKeepingOffsets ==
    /\ tool = "notebook" /\ stage = "closed" /\ ~second
    /\ \/ stage' = "aborted" /\ UNCHANGED <<windowVars, cursor>>
       \/ /\ stage' = "open"
          /\ cursor' = after
          /\ asked' = 0 /\ second' = TRUE
          /\ UNCHANGED <<bounded, before, after>>
    /\ UNCHANGED <<vars, reports, tool, emptyPolls, seen, duplicates, inspectionHistory>>

(* Every partition is read from its offset before, for as many records as  *)
(* came since; a poll that returns None, or an error, fails an assertion.  *)
NotebookReads ==
    /\ tool = "notebook" /\ stage = "closed" /\ ~second
    /\ \/ stage' = "aborted" /\ UNCHANGED <<windowVars, cursor>>
       \/ /\ stage' = "before"
          /\ cursor' = after
          /\ asked' = 0 /\ second' = TRUE
          /\ UNCHANGED <<bounded, before, after>>
    /\ UNCHANGED <<vars, reports, tool, emptyPolls, seen, duplicates, inspectionHistory>>

(* The unchanged rerun: no topic may have grown.                           *)
NotebookCompares ==
    /\ tool = "notebook" /\ stage = "closed" /\ second
    /\ stage' = IF after = before THEN "passed" ELSE "failed"
    /\ UNCHANGED <<vars, reports, tool, windowVars, readVars, inspectionHistory>>
-----------------------------------------------------------------------------
(***************************************************************************)
(* The parser process meanwhile.  The notebook starts it itself, once for  *)
(* every window, and goes on if the command returns 0.                     *)
(***************************************************************************)
NotebookBusy == tool = "notebook" /\ stage # "idle"

RunEnds == pc # "down" /\ pc' = "down"

NotebookFollows ==
    IF ~NotebookBusy THEN UNCHANGED stage
    ELSE IF pc = "down" /\ pc' = "loop" THEN stage = "open" /\ stage' = "running"
    ELSE IF RunEnds THEN stage' = IF EndRun /\ summary.failed = 0 THEN "ran" ELSE "aborted"
    ELSE UNCHANGED stage

Publishes == log' # log

UpsertedGenerations(f) ==
    {event.gen : event \in {x \in UNION {Range(log[t][f]) : t \in Topics} :
        x.type \in {"NODE_UPSERT", "EDGE_UPSERT", "FILE_METADATA_UPSERT"}}}

(* A content that was published before, and not last.                      *)
ComesBack ==
    /\ \E g \in UpsertedGenerations(job.file) : g[1] = job.content
    /\ store[job.file] # NoRow => store[job.file].hash # job.content

Again == abandoned[job.file] # {} \/ ComesBack

Remember ==
    /\ repeated' = IF Publishes /\ Again THEN repeated \cup {job.file} ELSE repeated
    /\ torn' = \/ torn
               \/ Publishes /\ pc' = "down"
               \/ Publishes /\ stage \in {"before", "after"} /\ asked > 0
    /\ calm' = (calm /\ (NotebookBusy => UNCHANGED <<disk, version>>))

(* A report of one generation is the same event whenever it is made; the   *)
(* hash of a file that cannot be read is that of no content.               *)
ErrorEvent(f, g) == [type |-> "PARSER_ERROR", id |-> f, gen |-> g]

ReportLands ==
    /\ ReportError \/ (ReportErrorFails /\ job.content \in errors'[job.file])
    /\ Len(reports[job.file]) < MaxReports
    /\ reports' = [reports EXCEPT ![job.file] =
                     Append(@, ErrorEvent(job.file, JobGeneration))]

(* One that fails may have landed; one that is dropped or rejected has not.*)
ReportsFollow ==
    \/ ReportLands
    \/ ~ReportError /\ UNCHANGED <<errors, reports>>

Over == stage \in {"passed", "failed", "aborted"}

(* What happens after the outcome is of no interest.                       *)
ParserMeanwhile ==
    /\ ~Over
    /\ Next
    /\ NotebookFollows
    /\ Remember
    /\ ReportsFollow
    /\ UNCHANGED <<tool, windowVars, readVars, heard>>

InspectionStep ==
    \/ OpenWindow \/ AskBefore \/ CloseWindow \/ AskAfter
    \/ Listen \/ PollNothing \/ ListeningBreaks
    \/ \E t \in Streams, f \in Files : PollRecord(t, f)
    \/ NotebookBegins \/ NotebookReads \/ NotebookCompares

InspectionNext == ParserMeanwhile \/ InspectionStep
-----------------------------------------------------------------------------
UpsertsOf(f, g) ==
    {EventId(f, event) : event \in {NodeUpsert(n, g) : n \in NodesOf(g)}
                             \cup {EdgeUpsert(e, g) : e \in EdgesOf(g)}
                             \cup {FileMetadataUpsert(f, g)}}

(* WindowIsWhole: what the script has read, of windows between whole       *)
(* publications, are whole generations: the offsets of the topics, taken   *)
(* one by one, bracket the same publications in all of them.               *)
WindowIsWhole ==
    tool = "script" /\ stage \in {"passed", "failed"} /\ heard /\ ~torn =>
        \A f \in Files, g \in Generation :
            UpsertsOf(f, g) \subseteq seen \/ UpsertsOf(f, g) \cap seen = {}

(* Two records of parser.errors with this id.                              *)
ReportedTwice(id) ==
    \E i, j \in DOMAIN reports[id[1]] :
        /\ i # j
        /\ EventId(id[1], reports[id[1]][i]) = id
        /\ EventId(id[1], reports[id[1]][j]) = id

(* DuplicatesMeanRepetition: event ids are deterministic, and the script   *)
(* fails on a duplicate, which is one of two kinds.  A failed parse leaves *)
(* no row, so every further run over the unchanged file reports it under   *)
(* the same id: then the report really is there twice.  Any other id that  *)
(* is read again is of a file published after a publication that was never *)
(* committed, or whose content came back, under whatever version: whatever *)
(* upserts and deletes of the same elements other edits and upgrades       *)
(* produce, their ids differ.  (That a generation was repeated would be    *)
(* too much to ask: a delete pairs the hash of the row with the version    *)
(* that runs, and may do so again when the content is back.)               *)
DuplicatesMeanRepetition ==
    tool = "script" =>
        /\ stage = "failed" => duplicates # {}
        /\ \A id \in duplicates :
               IF id[2] = "PARSER_ERROR" THEN ReportedTwice(id)
               ELSE id[1] \in repeated

(* RerunWindowIsEmpty: the second run of the notebook publishes nothing,   *)
(* unless the file was edited or the parser upgraded in between, whatever  *)
(* had failed before the notebook was started.                             *)
RerunWindowIsEmpty ==
    tool = "notebook" /\ stage = "failed" => ~calm
=============================================================================
