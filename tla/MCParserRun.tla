----------------------------- MODULE MCParserRun -----------------------------
(***************************************************************************)
(* Small instances of ParserRun.  Content a parses to two nodes and an     *)
(* edge between them, b to another pair and edge, c to the node they share;*)
(* version 2 of the parser no longer finds that edge of a.                 *)
(***************************************************************************)
EXTENDS ParserRun

CONSTANTS f1, f2, a, b, c, bad, m, n, o, mn, no

MCSrc == (mn :> m) @@ (no :> n)
MCDst == (mn :> n) @@ (no :> o)

MCParsedNodes ==
    [g \in Generation |-> CASE g[1] = a -> <<m, n>>
                            [] g[1] = b -> <<n, o>>
                            [] g[1] = c -> <<n>>
                            [] OTHER    -> << >>]
MCParsedEdges ==
    [g \in Generation |-> CASE g = <<a, 1>> -> <<mn>>
                            [] g[1] = b     -> <<no>>
                            [] OTHER        -> << >>]

(* Any content may follow any other, and files come and go.                *)
AnyEdit == {p \in (Contents \cup {Missing}) \X (Contents \cup {Missing}) : p[1] # p[2]}

(* The second file never parses and comes first: it is there for what its  *)
(* failure does to the other, by the run and the producer they share.      *)
FirstIsBad ==
    /\ disk[f2] = bad
    /\ job # NoJob /\ job.file = f1 => f2 \notin todo
=============================================================================
