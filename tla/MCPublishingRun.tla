--------------------------- MODULE MCPublishingRun ---------------------------
(***************************************************************************)
(* Two files over one producer.  Numbers go round the topics and files, so *)
(* that every event finds one.                                             *)
(***************************************************************************)
EXTENDS PublishingRun

CONSTANTS f1, f2, a, b, bad, m, n, mn

MCSrc == [e \in Edges |-> m]
MCDst == [e \in Edges |-> n]
MCParsedNodes == [g \in Generation |-> CASE g[1] = a -> <<m, n>>
                                         [] g[1] = b -> <<n>>
                                         [] OTHER    -> << >>]
MCParsedEdges == [g \in Generation |-> IF g[1] = a THEN <<mn>> ELSE << >>]

MCPartitions == SetToSeq(Topics \X Files)
MCPartitionOf == [r \in 1..MaxRecords |-> MCPartitions[1 + (r % Len(MCPartitions))]]

AnyEdit == {p \in (Contents \cup {Missing}) \X (Contents \cup {Missing}) : p[1] # p[2]}
=============================================================================
