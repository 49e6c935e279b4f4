---------------------------- MODULE MCCpgPipeline ----------------------------
(***************************************************************************)
(* Small instances of CpgPipeline: one file (files share neither ids nor   *)
(* keys).  Content a parses to an edge between two nodes, b drops a node   *)
(* and the edge, c brings both back and adds to them, d keeps the addition.*)
(***************************************************************************)
EXTENDS CpgPipeline

CONSTANTS f1, a, b, c, d, m, n, o, mn, no

MCSrc == (mn :> m) @@ (no :> n)
MCDst == (mn :> n) @@ (no :> o)

MCParsedNodes ==
    [g \in Generation |-> CASE g[1] = a -> <<m, n>>
                            [] g[1] = b -> <<n>>
                            [] g[1] = c -> <<m, n, o>>
                            [] g[1] = d -> <<n, o>>]
MCParsedEdges ==
    [g \in Generation |-> CASE g[1] = a -> <<mn>>
                            [] g[1] = b -> << >>
                            [] g[1] = c -> <<mn, no>>
                            [] g[1] = d -> <<no>>]

(* A file is edited onwards: contents do not come back.                    *)
FreshEdits == {<<a, b>>, <<b, c>>, <<a, c>>, <<c, d>>, <<a, d>>} \cap (Contents \X Contents)

(* Or a change is taken back.                                              *)
RevertingEdits == {<<a, d>>, <<d, a>>} \cap (Contents \X Contents)
=============================================================================
