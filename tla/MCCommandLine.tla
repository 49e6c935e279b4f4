--------------------------- MODULE MCCommandLine ---------------------------
(***************************************************************************)
(* A small instance of CommandLine: two terminals, three files, of which   *)
(* the second is a test, and the scopes of file_filters.yaml.              *)
(***************************************************************************)
EXTENDS CommandLine

CONSTANTS a, b, bad, m, n, o, p1, p2, head

MCTree == [c \in Commits |-> IF c = head THEN <<a, a, b>> ELSE <<b, Missing, bad>>]
MCFilters ==
    [eligible |-> [include |-> AllPython,
                   exclude |-> <<[paths |-> {2}, reason |-> "Excluded test file"]>>],
     final    |-> [extends |-> "eligible"],
     smoke    |-> [extends |-> "eligible", max_files |-> 1, include |-> {1, 2, 3}]]

ParseRepository(scope, limit, writer) ==
    [kind |-> "parse-repository", scope |-> scope, limit |-> limit,
     writer |-> writer, clean |-> writer = "jsonl"]
OneFile(kind, f, writer) ==
    [kind |-> kind, file |-> f, writer |-> writer, clean |-> FALSE]
Discovery(kind, scope) ==
    [kind |-> kind, scope |-> scope, writer |-> "jsonl", clean |-> FALSE]

MCCommands == {ParseRepository("final", 1, "kafka"), ParseRepository("smoke", 0, "jsonl"),
               OneFile("parse-file", 1, "kafka"), OneFile("replay-file", 1, "kafka"),
               Discovery("discover", "smoke"), Discovery("clone-source", "final")}

MCParsedNodes == [g \in Generation |-> CASE g[1] = a -> <<m, n>>
                                         [] g[1] = b -> <<n, o>>
                                         [] OTHER    -> << >>]
MCParsedEdges == [g \in Generation |-> << >>]
NoEndPoints == [e \in {} |-> m]
Terminals == Permutations(Processes)
=============================================================================
