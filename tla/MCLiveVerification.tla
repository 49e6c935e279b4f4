------------------------- MODULE MCLiveVerification -------------------------
(***************************************************************************)
(* A small instance of LiveVerification: the topics are inspected while a  *)
(* file changes back and forth between two contents of one node each, or   *)
(* while one that cannot be parsed gives way to one that can; the graph    *)
(* while a content of two nodes and an edge is followed by another such,   *)
(* the documents while one of a single node becomes another.               *)
(***************************************************************************)
EXTENDS LiveVerification

CONSTANTS f1, a, b, c, d, e, bad, m, n, o, mn, no

MCSrc == (mn :> m) @@ (no :> n)
MCDst == (mn :> n) @@ (no :> o)

MCParsedNodes ==
    [g \in Generation |-> CASE g[1] = a -> <<m>>
                            [] g[1] \in {b, e} -> <<n>>
                            [] g[1] = c -> <<m, n>>
                            [] g[1] = d -> <<n, o>>
                            [] OTHER    -> << >>]
MCParsedEdges ==
    [g \in Generation |-> CASE g[1] = c -> <<mn>>
                            [] g[1] = d -> <<no>>
                            [] OTHER    -> << >>]

MCFirstContents ==
    [t \in Tasks |-> CASE t = "topics"    -> {a, bad}
                       [] t = "graph"     -> {c}
                       [] t = "documents" -> {a}]
MCEditsAllowed == [t \in Tasks |-> IF t = "topics" THEN 2 ELSE 1]
MCFaultsAllowed == [t \in Tasks |-> IF t = "graph" THEN 0 ELSE 1]

BackAndForth == {<<a, b>>, <<b, a>>, <<bad, e>>, <<c, d>>}
=============================================================================
