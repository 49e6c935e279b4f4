----------------------------- MODULE MetadataSink -----------------------------
(***************************************************************************)
(* The metadata path, end to end: the parser process (ParserRun) appends   *)
(* to source.metadata, and the Spark job of metadata_to_mongodb.py copies  *)
(* every record into MongoDB, one document per file_id.  Spark logs which  *)
(* offsets a micro-batch takes, writes them record by record, and logs     *)
(* that the batch is done; a job that died in between takes the same batch *)
(* again, from its start.  Offsets are by key, as the log of ParserRun is. *)
(***************************************************************************)
EXTENDS ParserRun

CONSTANTS
    NoDocument,     \* a file_id that the collection does not have
    MaxCheckpoints  \* bound on the checkpoint directories used

ASSUME SinkAssumption ==
    /\ NoDocument \notin Generation
    /\ MaxCheckpoints \in Nat \ {0}

VARIABLES
    documents,   \* the collection, by file_id
    query,       \* whether the streaming query runs, and in a batch
    planned,     \* checkpoint, offset log: where the last batch ends
    done,        \* checkpoint, commit log: where the last batch done ended
    written,     \* how far the running batch has got
    checkpoints  \* how many checkpoint directories have been used

sinkVars == <<documents, query, planned, done, written, checkpoints>>
metadataVars == <<vars, sinkVars>>

(* build_metadata_stream: what the topic holds of a file, and the events   *)
(* that become rows; a document keeps the generation of its event.         *)
Record(f) == log["source.metadata"][f]
ValidEvent(event) == event.type = "FILE_METADATA_UPSERT"

Earliest == [f \in Files |-> 0]
Latest == [f \in Files |-> Len(Record(f))]

MetadataInit ==
    /\ Init
    /\ documents = [f \in Files |-> NoDocument]
    /\ query = "stopped"
    /\ planned = Earliest /\ done = Earliest /\ written = Earliest
    /\ checkpoints = 1
-----------------------------------------------------------------------------
(* Mutant: a batch that was under way is taken as done.                    *)
StartQueryAfterPlanned ==
    /\ query = "stopped"
    /\ done' = planned
    /\ written' = planned
    /\ query' = "idle"
    /\ UNCHANGED <<vars, documents, planned, checkpoints>>

(* run: the query starts where its checkpoint says, and takes a batch that *)
(* was not finished again.                                                 *)
StartQuery ==
    /\ query = "stopped"
    /\ written' = done
    /\ query' = IF planned = done THEN "idle" ELSE "writing"
    /\ UNCHANGED <<vars, documents, planned, done, checkpoints>>

(* Without maxOffsetsPerTrigger a batch takes all there is.                *)
PlanBatch ==
    /\ query = "idle"
    /\ Latest # done
    /\ planned' = Latest
    /\ query' = "writing"
    /\ UNCHANGED <<vars, documents, done, written, checkpoints>>

(* The document with the file_id of the record is replaced, or inserted.   *)
WriteDocument(f) ==
    /\ query = "writing"
    /\ written[f] < planned[f]
    /\ written' = [written EXCEPT ![f] = @ + 1]
    /\ LET event == Record(f)[written[f] + 1]
       IN documents' = IF ValidEvent(event) THEN [documents EXCEPT ![f] = event.gen]
                       ELSE documents
    /\ UNCHANGED <<vars, query, planned, done, checkpoints>>

(* Mutant: the batch counts as everything there is by now.                 *)
CommitBatchLatest ==
    /\ query = "writing"
    /\ written = planned
    /\ done' = Latest
    /\ query' = "idle"
    /\ UNCHANGED <<vars, documents, planned, written, checkpoints>>

CommitBatch ==
    /\ query = "writing"
    /\ written = planned
    /\ done' = planned
    /\ query' = "idle"
    /\ UNCHANGED <<vars, documents, planned, written, checkpoints>>

(* --available-now: the query ends when it has taken what there was.       *)
EndQuery ==
    /\ query = "idle"
    /\ query' = "stopped"
    /\ UNCHANGED <<vars, documents, planned, done, written, checkpoints>>

(* MongoDB cannot be reached, or the job is killed.                        *)
KillQuery ==
    /\ query # "stopped"
    /\ faults < MaxFaults
    /\ faults' = faults + 1
    /\ query' = "stopped"
    /\ UNCHANGED <<envVars, store, log, errors, pc, job, producer, runVars,
                   histVars, documents, planned, done, written, checkpoints>>

(* The job is started over another checkpoint directory, which has none:   *)
(* it begins at starting_offsets, by default the earliest.                 *)
NewCheckpoint ==
    /\ query = "stopped"
    /\ checkpoints < MaxCheckpoints
    /\ checkpoints' = checkpoints + 1
    /\ planned' = Earliest /\ done' = Earliest /\ written' = Earliest
    /\ UNCHANGED <<vars, documents, query>>

JobStep == StartQuery \/ PlanBatch \/ (\E f \in Files : WriteDocument(f)) \/ CommitBatch

MetadataNext ==
    \/ Next /\ UNCHANGED sinkVars
    \/ JobStep \/ EndQuery \/ KillQuery \/ NewCheckpoint

MetadataSpec == MetadataInit /\ [][MetadataNext]_metadataVars

(* The job is started again when it has ended, and finds what there is; a  *)
(* query that could end at once is not prevented from planning for ever.   *)
FairMetadataSpec ==
    /\ MetadataSpec
    /\ WF_metadataVars(Proceed /\ UNCHANGED sinkVars)
    /\ WF_metadataVars(StartRun /\ UNCHANGED sinkVars)
    /\ WF_metadataVars(StartQuery)
    /\ SF_metadataVars(PlanBatch)
    /\ WF_metadataVars(\E f \in Files : WriteDocument(f))
    /\ WF_metadataVars(CommitBatch)
-----------------------------------------------------------------------------
(* DocumentsMatchCheckpoint: between batches every file's document is the  *)
(* last record the checkpoint counts as done: records that were written    *)
(* twice, by a batch taken again or over a new checkpoint, have left the   *)
(* document where the newest of them puts it, and none was passed over.    *)
(* When there are no more, and the publications of the file are all        *)
(* committed, it describes the generation the state store holds, whatever  *)
(* failed on either side in between.                                       *)
DocumentsMatchCheckpoint ==
    \A f \in Files : planned = done /\ done[f] > 0 =>
        /\ documents[f] = Record(f)[done[f]].gen
        /\ done[f] = Len(Record(f)) /\ Settled(f) /\ store[f] # NoRow =>
             documents[f] = <<store[f].hash, store[f].version>>

(* DocumentsConverge: once edits and faults cease, the document of a file  *)
(* that parses describes what is on disk, unless its last publication was  *)
(* abandoned.                                                              *)
DocumentsConverge ==
    <>[](\A f \in Files :
            disk[f] \in Contents \ Unparsable /\ Settled(f)
                => documents[f] = <<disk[f], version>>)
=============================================================================
