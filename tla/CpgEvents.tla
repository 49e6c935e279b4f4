------------------------------ MODULE CpgEvents ------------------------------
(***************************************************************************)
(* The vocabulary shared by every component of the CPG streaming pipeline: *)
(* the source files, their contents, the code property graph the parser    *)
(* derives from a content, the generation that stamps every event, the     *)
(* change events, and the difference between two graphs of a file.         *)
(*                                                                         *)
(* A content stands for the bytes of a file and for their content_hash:    *)
(* SHA-256 is taken to be injective.  Node and edge ids embed the file_id, *)
(* so that one set of ids may be reused for every file: an id never leaves *)
(* the state, the log or the graph of its own file.                        *)
(***************************************************************************)
EXTENDS Naturals, Sequences, FiniteSets, SequencesExt

CONSTANTS
    Files,         \* the eligible files, by file_id
    Contents,      \* what a file may contain
    Missing,       \* the "content" of a file that cannot be read
    Unparsable,    \* the contents on which the parser raises
    Nodes, Edges,  \* node ids and edge ids
    Src, Dst,      \* the end points of an edge; its id is a hash over them
    ParsedNodes,   \* the node ids a version of the parser finds in a content
    ParsedEdges,   \* the edge ids it finds; both lists, in the parser's order
    MaxVersion     \* parser/schema versions deployed in the system's life

Versions == 1..MaxVersion

(***************************************************************************)
(* generation_id is the file_id, the content_hash and the two versions     *)
(* joined together; the file is implied by the key of the record, so that  *)
(* a generation is a content and a version here.                           *)
(***************************************************************************)
Generation == Contents \X Versions

ASSUME CpgAssumption ==
    /\ IsFiniteSet(Files)
    /\ Missing \notin Contents
    /\ Unparsable \subseteq Contents
    /\ IsFiniteSet(Nodes)
    /\ IsFiniteSet(Edges)
    /\ Src \in [Edges -> Nodes]
    /\ Dst \in [Edges -> Nodes]
    /\ ParsedNodes \in [Generation -> Seq(Nodes)]
    /\ ParsedEdges \in [Generation -> Seq(Edges)]
    /\ MaxVersion \in Nat \ {0}

(* CpgParser keeps the first of the nodes of an id, and of the edges.      *)
ASSUME ParsedOnceAssumption ==
    \A g \in Generation : IsInjective(ParsedNodes[g]) /\ IsInjective(ParsedEdges[g])

-----------------------------------------------------------------------------
(* The topics the graph sinks and the metadata sink read.                  *)
Topics == {"cpg.nodes", "cpg.edges", "source.metadata"}

NodeUpsert(n, g)       == [type |-> "NODE_UPSERT", id |-> n, gen |-> g]
NodeDelete(n, g)       == [type |-> "NODE_DELETE", id |-> n, gen |-> g]
EdgeUpsert(e, g)       == [type |-> "EDGE_UPSERT", id |-> e, gen |-> g]
EdgeDelete(e, g)       == [type |-> "EDGE_DELETE", id |-> e, gen |-> g]
FileMetadataUpsert(f, g) ==
    [type |-> "FILE_METADATA_UPSERT", id |-> f, gen |-> g]

NodeEvent == [type : {"NODE_UPSERT", "NODE_DELETE"}, id : Nodes, gen : Generation]
EdgeEvent == [type : {"EDGE_UPSERT", "EDGE_DELETE"}, id : Edges, gen : Generation]
MetadataEvent == [type : {"FILE_METADATA_UPSERT"}, id : Files, gen : Generation]
Event == NodeEvent \cup EdgeEvent \cup MetadataEvent

-----------------------------------------------------------------------------
(***************************************************************************)
(* The rows of the state store and the difference of two graphs.           *)
(***************************************************************************)
CONSTANT NoRow     \* get() found nothing

Row == [hash : Contents, version : Versions, nodes : SUBSET Nodes, edges : SUBSET Edges]

NodesOf(g) == Range(ParsedNodes[g])
EdgesOf(g) == Range(ParsedEdges[g])

RowFor(g) ==
    [hash |-> g[1], version |-> g[2], nodes |-> NodesOf(g), edges |-> EdgesOf(g)]

(* CpgDiffer.compute_diff: what the previous row holds and the current     *)
(* graph lacks; every current element is upserted whether it is new or not.*)
RowNodes(row) == IF row = NoRow THEN {} ELSE row.nodes
RowEdges(row) == IF row = NoRow THEN {} ELSE row.edges

(* Mutant: the difference taken the other way round.                       *)
RemovedNodesSwapped(row, g) == NodesOf(g) \ RowNodes(row)

RemovedNodes(row, g) == RowNodes(row) \ NodesOf(g)
RemovedEdges(row, g) == RowEdges(row) \ EdgesOf(g)

(* Mutant: a skip test that forgets the versions.                          *)
UnchangedHash(row, g) == row # NoRow /\ row.hash = g[1]

(* The skip test of a file that has not changed since it was committed.    *)
Unchanged(row, g) == row # NoRow /\ <<row.hash, row.version>> = g

(***************************************************************************)
(* The events of one processing of a file, split by topic.  Deletes come   *)
(* before upserts; a delete carries the hash of the committed row and the  *)
(* version of the running parser.  dn and de order the removed ids, which  *)
(* the code takes out of a set.                                            *)
(***************************************************************************)
(* Mutant: deletes stamped with the hash of the content being processed.   *)
DeleteGenerationCurrent(row, g) == g

DeleteGeneration(row, g) == << IF row = NoRow THEN g[1] ELSE row.hash, g[2] >>

NodesToSend(row, g, dn) ==
    LET old == DeleteGeneration(row, g)
    IN [i \in DOMAIN dn |-> NodeDelete(dn[i], old)] \o
       [i \in DOMAIN ParsedNodes[g] |-> NodeUpsert(ParsedNodes[g][i], g)]

EdgesToSend(row, g, de) ==
    LET old == DeleteGeneration(row, g)
    IN [i \in DOMAIN de |-> EdgeDelete(de[i], old)] \o
       [i \in DOMAIN ParsedEdges[g] |-> EdgeUpsert(ParsedEdges[g][i], g)]

EventsToSend(f, row, g, dn, de) ==
    [t \in Topics |-> CASE t = "cpg.nodes"       -> NodesToSend(row, g, dn)
                        [] t = "cpg.edges"       -> EdgesToSend(row, g, de)
                        [] t = "source.metadata" -> << FileMetadataUpsert(f, g) >>]
=============================================================================
