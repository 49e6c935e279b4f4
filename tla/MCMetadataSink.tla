--------------------------- MODULE MCMetadataSink ---------------------------
(***************************************************************************)
(* A small instance of MetadataSink: one file, one node per content.       *)
(***************************************************************************)
EXTENDS MetadataSink

CONSTANTS f1, a, b, bad, m, n

MCParsedNodes ==
    [g \in Generation |-> CASE g[1] = a -> <<m>>
                            [] g[1] = b -> <<n>>
                            [] OTHER    -> << >>]
MCParsedEdges == [g \in Generation |-> << >>]
NoEndPoints == [e \in {} |-> m]
AnyEdit == {p \in (Contents \cup {Missing}) \X (Contents \cup {Missing}) : p[1] # p[2]}
=============================================================================
