------------------------- MODULE DocumentVerification -------------------------
(***************************************************************************)
(* What Task 5 checks on MongoDB: its notebook publishes a file of its own *)
(* twice, from a state database of its own, has the Spark job take what    *)
(* came since a baseline offset, over a checkpoint of its own, and expects *)
(* the offsets, the numbers of rows and the document to agree.  The topic  *)
(* is shared: others publish to it all the while.  What the job does with  *)
(* a batch, and after a failure, is in MetadataSink; here a job that ends  *)
(* with exit code 0 has taken all there was.                               *)
(***************************************************************************)
EXTENDS ParserRun

CONSTANTS
    target_file,   \* the file of the notebook
    Theirs,        \* a record of another file
    NoHash,        \* the content_hash if there is no document
    MaxTheirs      \* bound on the records of other files

ASSUME DocumentAssumption ==
    /\ target_file \in Files
    /\ Theirs \notin Contents /\ NoHash \notin Contents
    /\ MaxTheirs \in Nat

VARIABLES
    cell,          \* how far the notebook is; at the end, its outcome
    partition,     \* source.metadata: per record the content, or Theirs
    baseline,      \* baseline_latest_offset, where the job starts
    beforeReplay,  \* before_replay_offset
    checkpoint,    \* the offset the job resumes from
    content_hash   \* of the document of the file

documentVars == <<cell, partition, baseline, beforeReplay, checkpoint, content_hash>>

Cells == {"capture", "first", "read", "load", "resume", "edit", "second",
          "reread", "upsert", "passed", "failed"}

DocumentInit ==
    /\ cell = "capture"
    /\ partition = << >>
    /\ baseline = 0 /\ beforeReplay = 0 /\ checkpoint = 0
    /\ content_hash = NoHash

(* initial_source is written: a file of its own, which parses, and the     *)
(* only one the notebook processes.                                        *)
OwnFile ==
    /\ disk[target_file] \in Contents \ Unparsable
    /\ \A f \in Files \ {target_file} : disk[f] = Missing

(* The next cell, or none after an assertion that fails.                   *)
Expect(holds, next) == cell' = IF holds THEN next ELSE "failed"
-----------------------------------------------------------------------------
(* kafka_latest_offset                                                     *)
LatestOffset == Len(partition)

CaptureBaseline ==
    /\ cell = "capture"
    /\ baseline' = LatestOffset
    /\ checkpoint' = LatestOffset
    /\ cell' = "first"
    /\ UNCHANGED <<vars, partition, beforeReplay, content_hash>>

(* The records of the file that a step of the parser appends.              *)
Appended ==
    LET old == log["source.metadata"][target_file]
        new == log'["source.metadata"][target_file]
    IN [i \in 1..(Len(new) - Len(old)) |-> new[Len(old) + i].gen[1]]

(* process_service.execute, which has to return SUCCESS.                   *)
Execute ==
    /\ cell \in {"first", "second"}
    /\ RunNext
    /\ partition' = partition \o Appended
    /\ IF pc # "down" /\ pc' = "down"
       THEN Expect(EndRun /\ summary.processed = 1,
                   IF cell = "first" THEN "read" ELSE "reread")
       ELSE UNCHANGED cell
    /\ UNCHANGED <<baseline, beforeReplay, checkpoint, content_hash>>

(* The record at the baseline offset is the file's.                        *)
ReadFirst ==
    /\ cell = "read"
    /\ Expect(partition[baseline + 1] = disk[target_file], "load")
    /\ UNCHANGED <<vars, partition, baseline, beforeReplay, checkpoint, content_hash>>

(* modified_source is written: another content, which parses too.          *)
EditSource ==
    /\ cell = "edit"
    /\ beforeReplay' = LatestOffset
    /\ \E c \in Contents \ (Unparsable \cup {disk[target_file]}) : Edit(target_file, c)
    /\ cell' = "second"
    /\ UNCHANGED <<partition, baseline, checkpoint, content_hash>>

(* Exactly one record came, the last one, and it has another content.      *)
ReadSecond ==
    /\ cell = "reread"
    /\ Expect(/\ LatestOffset = beforeReplay + 1
              /\ partition[LatestOffset] \in Contents \ {partition[baseline + 1]},
              "upsert")
    /\ UNCHANGED <<vars, partition, baseline, beforeReplay, checkpoint, content_hash>>
-----------------------------------------------------------------------------
(***************************************************************************)
(* run_spark and what is expected of it.                                   *)
(***************************************************************************)
(* The document holds the last record of the file, replaced by file_id.    *)
Upserted(batch) ==
    LET own == {i \in DOMAIN batch : batch[i] \in Contents}
    IN IF own = {} THEN content_hash ELSE batch[CHOOSE i \in own : \A j \in own : j <= i]

Pending == SubSeq(partition, checkpoint + 1, Len(partition))

(* Mutant: the number of rows has to be the expected one at least.         *)
SparkTakesAtLeast(rows, next) ==
    /\ content_hash' = Upserted(Pending)
    /\ checkpoint' = LatestOffset
    /\ Expect(Len(Pending) >= rows /\ content_hash' = disk[target_file], next)
    /\ UNCHANGED <<vars, partition, baseline, beforeReplay>>

(* The last numInputRows is as expected, and document_state finds the      *)
(* content_hash of the record.                                             *)
SparkTakes(rows, next) ==
    /\ content_hash' = Upserted(Pending)
    /\ checkpoint' = LatestOffset
    /\ Expect(Len(Pending) = rows /\ content_hash' = disk[target_file], next)
    /\ UNCHANGED <<vars, partition, baseline, beforeReplay>>

LoadBaseline == cell = "load" /\ SparkTakes(1, "resume")

(* No new record, and the document is what it was.                         *)
ResumeCheckpoint == cell = "resume" /\ SparkTakes(0, "edit")

LoadSecond == cell = "upsert" /\ SparkTakes(1, "passed")

(* The exit code is not 0, whatever the job had written by then.           *)
SparkFails ==
    /\ cell \in {"load", "resume", "upsert"}
    /\ faults < MaxFaults
    /\ faults' = faults + 1
    /\ content_hash' \in {content_hash, Upserted(Pending)}
    /\ cell' = "failed"
    /\ UNCHANGED <<envVars, store, log, errors, pc, job, producer, runVars, histVars,
                   partition, baseline, beforeReplay, checkpoint>>

(* Another parser publishes the metadata of another file.                  *)
OthersPublish ==
    /\ cell \notin {"passed", "failed"}
    /\ Cardinality({i \in DOMAIN partition : partition[i] = Theirs}) < MaxTheirs
    /\ partition' = Append(partition, Theirs)
    /\ UNCHANGED <<vars, cell, baseline, beforeReplay, checkpoint, content_hash>>

DocumentNext ==
    \/ CaptureBaseline \/ Execute \/ ReadFirst \/ EditSource \/ ReadSecond
    \/ LoadBaseline \/ ResumeCheckpoint \/ LoadSecond \/ SparkFails
    \/ OthersPublish
-----------------------------------------------------------------------------
(* DocumentVerdictIsTrue: the notebook counts offsets and rows and looks   *)
(* at the keys of two records.  When all that agrees, the job has taken    *)
(* these two and nothing else since the baseline, and document, state      *)
(* store and file agree; when it does not, something did fail, or somebody *)
(* else published in between.                                              *)
DocumentVerdictIsTrue ==
    /\ cell = "passed" =>
         /\ checkpoint = baseline + 2
         /\ Theirs \notin {partition[i] : i \in baseline + 1..checkpoint}
         /\ content_hash = disk[target_file]
         /\ store[target_file].hash = disk[target_file]
    /\ cell = "failed" =>
         \/ faults > 0
         \/ Theirs \in {partition[i] : i \in baseline + 1..Len(partition)}
=============================================================================
