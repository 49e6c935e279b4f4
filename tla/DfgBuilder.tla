----------------------------- MODULE DfgBuilder -----------------------------
(***************************************************************************)
(* DfgBuilder: definitions that reach a use, scope by scope.  A state maps *)
(* every name to the nodes that may have defined it, and collects the      *)
(* edges found so far.                                                     *)
(***************************************************************************)
EXTENDS PythonAst

(* Mutant: the second of two branches wins.                                *)
MergeLast(a, b) == [defs |-> b.defs, edges |-> a.edges \cup b.edges]

(* merge_states *)
Merge(a, b) ==
    [defs  |-> [n \in Names |-> a.defs[n] \cup b.defs[n]],
     edges |-> a.edges \cup b.edges]

(* A Name node with a Load or a Store context; NoName: there is none.      *)
Load(n, node, st) ==
    IF n = NoName THEN st
    ELSE [st EXCEPT !.edges = @ \cup
             {Edge(d, "DFG_DEF_USE", node, << >>) : d \in st.defs[n]}]

(* Mutant: an assignment leaves the definitions before it in force.        *)
StoreAdds(n, node, st) == [st EXCEPT !.defs[n] = @ \cup {node}]

Store(n, node, st) == [st EXCEPT !.defs[n] = {node}]

RECURSIVE VisitBlock(_, _)

(* One pass over a loop: the target of a for before its iterable.          *)
LoopPass(s, st) ==
    VisitBlock(s.body,
               IF s.kind = "for"
               THEN Load(s.use, UseNode(s), Store(s.def, TargetNode(s), st))
               ELSE Load(s.use, UseNode(s), st))

(* Mutant: a single pass, which misses what comes round the loop.          *)
VisitLoopOnce(s, st) == Merge(st, LoopPass(s, st))

(* Two passes, the second from what the first merged into the entry.       *)
VisitLoop(s, st) == Merge(st, LoopPass(s, Merge(st, LoopPass(s, st))))

(* The target of an augmented assignment has a Store context only: it is   *)
(* defined, twice, and never read.                                         *)
VisitAug(s, st) ==
    Store(s.def, TargetNode(s),
          Load(s.use, UseNode(s), Store(s.def, TargetNode(s), st)))

VisitIf(s, st) ==
    LET tested == Load(s.use, UseNode(s), st)
    IN Merge(VisitBlock(s.body, tested), VisitBlock(s.orelse, tested))

(* visit_node.  The names of an import are no Name nodes.                  *)
Visit(s, st) ==
    CASE s.kind = "function" -> Store(s.def, s.at, st)
      [] s.kind = "assign"   -> Store(s.def, TargetNode(s), Load(s.use, UseNode(s), st))
      [] s.kind = "aug"      -> VisitAug(s, st)
      [] s.kind = "if"       -> VisitIf(s, st)
      [] s.kind \in Loops    -> VisitLoop(s, st)
      [] s.kind \in {"expr", "call", "return"} -> Load(s.use, UseNode(s), st)
      [] OTHER               -> st

VisitBlock(stmts, st) == FoldLeft(LAMBDA acc, s : Visit(s, acc), st, stmts)

NoDefs == [n \in Names |-> {}]

(* analyze_scope: the argument of a function is a definition.              *)
ScopeDfg(body, defs) == VisitBlock(body, [defs |-> defs, edges |-> {}]).edges

DfgEdges(program) ==
    ScopeDfg(program, NoDefs)
      \cup UNION {ScopeDfg(s.body, [NoDefs EXCEPT ![s.use] = {ArgNode(s)}])
                  : s \in Functions(program)}
=============================================================================
