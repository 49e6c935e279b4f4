------------------------------ MODULE CpgParser ------------------------------
(***************************************************************************)
(* CpgParser.parse_file puts the four graphs of a file together, without   *)
(* duplicates, and, to state what they are for, an execution of the parsed *)
(* program: one scope at a time, statement by statement, tests and         *)
(* iterables being free to go either way.  The language is Python's own;   *)
(* the execution knows nothing of the builders.                            *)
(***************************************************************************)
EXTENDS CfgBuilder, DfgBuilder, CallBuilder

CONSTANTS
    Programs,   \* the sources that are parsed, as blocks of the module
    NoNode      \* a name that nothing in this scope has bound

VARIABLES
    program,    \* the module's tree, with paths
    cpg,        \* what parse_file returns for it: its nodes, its edges, its metadata
    scope,      \* the scope that is executed
    pc,         \* where the execution is: a statement, or an end of the scope
    came,       \* where it was before
    env,        \* by name, the node that bound it last
    reads       \* the uses of the last step, each with the node it read

vars == <<program, cpg, scope, pc, came, env, reads>>

(* Mutant: only the functions of the module's own body are counted.        *)
FunctionsCountedTop(tree) == {s \in Range(tree) : s.kind = "function"}

(* MetadataExtractor.extract: it walks the tree once more, its own way; an *)
(* import here is of one name, and there are no classes.                   *)
FunctionsCounted(tree) == {s \in AllStmts(tree) : s.kind = "function"}
ImportsCounted(tree) == {s \in AllStmts(tree) : s.kind = "import"}

extract(tree, nodes, edges) ==
    [function_count |-> Cardinality(FunctionsCounted(tree)),
     import_count   |-> Cardinality(ImportsCounted(tree)),
     node_count     |-> Cardinality(nodes),
     edge_count     |-> Cardinality(edges)]

parse_file(tree) ==
    LET nodes == AstNodes(tree) \cup CfgNodes(tree) \cup ExternalNodes(tree)
        edges == AstEdges(tree) \cup CfgEdges(tree) \cup DfgEdges(tree) \cup CallEdges(tree)
    IN [nodes |-> nodes, edges |-> edges, metadata |-> extract(tree, nodes, edges)]

Pairs(types) == {<<e[1], e[3]>> : e \in {e \in cpg.edges : e[2] \in types}}
CfgTypes == {"CFG_NEXT", "CFG_TRUE", "CFG_FALSE", "CFG_LOOP_BODY",
             "CFG_LOOP_EXIT", "CFG_LOOP_BACK", "CFG_RETURN"}

-----------------------------------------------------------------------------
(***************************************************************************)
(* Execution.  A for evaluates its iterable once, at a point of its own    *)
(* before the statement proper.                                            *)
(***************************************************************************)
StmtAt(p) == CHOOSE s \in AllStmts(program) : s.at = p
Positions == {s.at : s \in AllStmts(program)}
Kind(p) == StmtAt(p).kind

IterPoint(p) == Append(p, <<"iter", 0>>)
IsIter(p) == p # Module /\ Last(p)[1] = "iter"
Enter(p) == IF Kind(p) = "for" THEN IterPoint(p) ELSE p
First(p, field) == Append(p, <<field, 1>>)

(* Where control goes when the statement at p has run to its end.          *)
RECURSIVE After(_)
After(p) ==
    LET sibling == Append(Front(p), <<Last(p)[1], Last(p)[2] + 1>>)
        parent  == Front(p)
    IN IF sibling \in Positions THEN Enter(sibling)
       ELSE IF parent = scope THEN ExitNode(scope)
       ELSE IF Kind(parent) \in Loops /\ Last(p)[1] = "body" THEN parent
       ELSE After(parent)

(* The loop a break or continue at p belongs to.                           *)
RECURSIVE LoopAround(_)
LoopAround(p) ==
    IF Kind(Front(p)) \in Loops /\ Last(p)[1] = "body"
    THEN Front(p) ELSE LoopAround(Front(p))

Block(p, field) == IF First(p, field) \in Positions THEN Enter(First(p, field)) ELSE After(p)

Successors(p) ==
    CASE p = EntryNode(scope)      -> {Enter(First(scope, "body"))}
      [] IsIter(p)                 -> {Front(p)}
      [] Kind(p) \in Loops \cup {"if"} -> {Block(p, "body"), Block(p, "orelse")}
      [] Kind(p) = "return"        -> {ExitNode(scope)}
      [] Kind(p) = "break"         -> {After(LoopAround(p))}
      [] Kind(p) = "continue"      -> {LoopAround(p)}
      [] OTHER                     -> {After(p)}

(* What the step from point p reads, and what it binds.                    *)
Uses(p) ==
    IF p = EntryNode(scope) THEN {}
    ELSE LET s == StmtAt(IF IsIter(p) THEN Front(p) ELSE p)
         IN (IF (s.kind = "for" /\ ~ IsIter(p)) \/ s.kind = "function" \/ s.use = NoName
             THEN {} ELSE {<<s.use, UseNode(s)>>})
            \cup (IF s.kind = "aug" THEN {<<s.def, TargetNode(s)>>} ELSE {})

(* A for binds its target on the way into its body only.                   *)
Binds(p, q) ==
    /\ p # EntryNode(scope) /\ ~ IsIter(p) /\ Kind(p) \in Binders
    /\ Kind(p) = "for" => q = Block(p, "body")
Binding(s) == IF s.kind \in {"function", "import"} THEN s.at ELSE TargetNode(s)
Bind(p, q, n, d) == IF Binds(p, q) /\ StmtAt(p).def = n THEN Binding(StmtAt(p)) ELSE d

(* A function's argument is bound from the start.                          *)
Bound(n) ==
    IF scope # Module /\ StmtAt(scope).use = n THEN ArgNode(StmtAt(scope)) ELSE NoNode

ScopeBody == IF scope = Module THEN program ELSE StmtAt(scope).body

Init ==
    /\ program \in {Labelled(p, Module, "body") : p \in Programs}
    /\ cpg = parse_file(program)
    /\ scope \in {Module} \cup {s.at : s \in Functions(program)}
    /\ pc = EntryNode(scope) /\ came = pc
    /\ env = [n \in Names |-> Bound(n)]
    /\ reads = {}

Step ==
    /\ pc # ExitNode(scope)
    /\ came' = pc
    /\ pc' \in Successors(pc)
    /\ env' = [n \in Names |-> Bind(pc, pc', n, env[n])]
    /\ reads' = {<<env[u[1]], u[2]>> : u \in Uses(pc)}
    /\ UNCHANGED <<program, cpg, scope>>

Next == Step
Spec == Init /\ [][Next]_vars

-----------------------------------------------------------------------------
(***************************************************************************)
(* Properties.                                                             *)
(***************************************************************************)
ScopeEnds == {EntryNode(scope), ExitNode(scope)}
StmtOf(p) == IF p \notin ScopeEnds /\ IsIter(p) THEN Front(p) ELSE p
IsJump(p) == p \notin ScopeEnds /\ Kind(p) \in Jumps
HasElse(p) == StmtAt(p).orelse # << >>
InScope == ScopeStmts(ScopeBody)

(* GraphIsClosed: every edge parse_file returns joins two nodes it         *)
(* returns, whatever builder made the edge and the nodes: what is          *)
(* published of a file has no edge to a node the sink would never be sent. *)
GraphIsClosed == \A e \in cpg.edges : {e[1], e[3]} \subseteq cpg.nodes

(* CountsDescribeGraph: the metadata that goes to MongoDB agrees with the  *)
(* graph that goes to Neo4j, although each comes from a walk of its own:   *)
(* every function counted has its control flow, with an entry and an exit. *)
CountsDescribeGraph ==
    LET scopes == {p \in cpg.nodes \ {Module} : {EntryNode(p), ExitNode(p)} \subseteq cpg.nodes}
    IN /\ cpg.metadata.function_count = Cardinality(scopes)
       /\ cpg.metadata.node_count = Cardinality(cpg.nodes)
       /\ cpg.metadata.edge_count = Cardinality(cpg.edges)

(* The steps CfgBuilder has no edge for: into a statement that jumps,      *)
(* since the edges into it are dropped with those out of it; out of a      *)
(* continue; and around the else of a loop.                                *)
Untracked(p, q) ==
    \/ IsIter(p) \/ IsJump(q)
    \/ p \notin ScopeEnds /\ Kind(p) = "continue"
    \/ \E s \in InScope : s.kind \in Loops /\ s.orelse # << >>

(* CfgStepsAreEdges: apart from those, execution follows the edges of      *)
(* build_block_cfg: every branch taken, loop entered, repeated or left,    *)
(* break and return.                                                       *)
CfgStepsAreEdges ==
    came # pc /\ ~ Untracked(came, StmtOf(pc))
        => <<StmtOf(came), StmtOf(pc)>> \in Pairs(CfgTypes)

(* CfgEdgesAreSteps: and no edge leads where execution cannot go, but for  *)
(* continue, the loop whose else is not visited, and the LOOP_BACK that is *)
(* drawn from the last statement of a body even if that is an if with an   *)
(* else, which only its branches leave.                                    *)
CfgEdgesAreSteps ==
    pc = EntryNode(scope) =>
        \A e \in cpg.edges :
            \/ e[2] \notin CfgTypes
            \/ e[1] \notin {pc} \cup {s.at : s \in InScope}
            \/ e[3] \in {StmtOf(q) : q \in Successors(e[1])}
            \/ e[1] # pc /\ Kind(e[1]) = "continue"
            \/ e[1] # pc /\ Kind(e[1]) = "if" /\ HasElse(e[1]) /\ e[2] = "CFG_LOOP_BACK"
            \/ \E s \in InScope : s.kind \in Loops /\ s.orelse # << >>

(* What analyze_scope does not follow: break and continue, the else of a   *)
(* loop, the names of imports, the read of an augmented assignment, and a  *)
(* name that is read in the statement that binds it out of order.          *)
Structured ==
    \A s \in InScope : (s.kind \notin {"break", "continue"})
                       /\ (s.kind \in Loops => s.orelse = << >>)
OutOfOrder(s) == s.kind = "aug" \/ (s.kind = "for" /\ s.def = s.use)
Followed(r) ==
    /\ r[1] # NoNode
    /\ r[1] \notin {s.at : s \in {s \in InScope : s.kind = "import"}}
    /\ r[2] \notin UNION {{UseNode(s), TargetNode(s)} : s \in {s \in InScope : OutOfOrder(s)}}

(* ReadsAreLinked: the definition an execution reads is linked to the use, *)
(* through branches, loops in loops and however often a loop repeats: two  *)
(* passes over a body are enough.                                          *)
ReadsAreLinked ==
    Structured => \A r \in reads : Followed(r) => r \in Pairs({"DFG_DEF_USE"})

(* What an execution can read: which definitions reach which points.       *)
RECURSIVE Reached(_)
Reached(facts) ==
    LET more == facts \cup
            UNION {{<<q, f[2], Bind(f[1], q, f[2], f[3])>> : q \in Successors(f[1])}
                   : f \in {f \in facts : f[1] # ExitNode(scope)}}
    IN IF more = facts THEN facts ELSE Reached(more)

Readable ==
    UNION {{<<f[3], u[2]>> : u \in {u \in Uses(f[1]) : u[1] = f[2]}}
           : f \in {f \in Reached({<<EntryNode(scope), n, Bound(n)>> : n \in Names})
                        : f[1] # ExitNode(scope)}}

(* DfgEdgesAreReads: where nothing jumps and no loop rebinds what it       *)
(* iterates over, every DFG edge into a use of the scope is a definition   *)
(* that some execution reads there: branches and loops merge definitions   *)
(* that reach, and never one that was overwritten.                         *)
DfgEdgesAreReads ==
    /\ pc = EntryNode(scope)
    /\ Structured
    /\ \A s \in InScope : s.kind # "return"
    /\ \A s \in InScope : s.kind = "for" =>
            s.use \notin {t.def : t \in {s} \cup ScopeStmts(s.body)}
    => \A e \in cpg.edges :
         e[2] = "DFG_DEF_USE"
         /\ e[3] \in {UseNode(s) : s \in {s \in InScope : ~ OutOfOrder(s)}}
         => <<e[1], e[3]>> \in Readable

(* The scope a name is looked up in, from a call in this scope.            *)
BindersIn(stmts, n) == {s \in ScopeStmts(stmts) : s.kind \in Binders /\ s.def = n}
BindersSeen(n) ==
    IF BindersIn(ScopeBody, n) # {} \/ Bound(n) # NoNode
    THEN BindersIn(ScopeBody, n) ELSE BindersIn(program, n)

(* CallsReach: a call whose name has one binder, a function of the module, *)
(* is an edge from the function the call stands in to that function; a     *)
(* name that neither the scope itself nor the module binds is an edge to a *)
(* symbol outside, even if a function around the scope binds it.           *)
CallsReach ==
    pc # ExitNode(scope) /\ pc # EntryNode(scope) /\ ~ IsIter(pc) /\ Kind(pc) = "call" =>
        LET n == StmtAt(pc).use
            edgeTo(t) == Edge(scope, "CALLS", t, CallNode(StmtAt(pc))) \in cpg.edges
        IN /\ \A s \in BindersSeen(n) :
                BindersSeen(n) = {s} /\ s.kind = "function" /\ s \in Range(program)
                    => edgeTo(s.at)
           /\ BindersSeen(n) = {} /\ Bound(n) = NoNode => edgeTo(ExternalNode(n))

=============================================================================
