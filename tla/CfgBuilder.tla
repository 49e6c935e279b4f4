----------------------------- MODULE CfgBuilder -----------------------------
(***************************************************************************)
(* CfgBuilder: the control-flow edges of every scope.  build_block_cfg     *)
(* goes through a block from its last statement to its first; rest holds   *)
(* the entry points of what follows (current_next) and the edges so far.   *)
(***************************************************************************)
EXTENDS PythonAst

Arcs(source, type, targets) == {Edge(source, type, t, << >>) : t \in targets}

RECURSIVE BlockCfg(_, _, _, _, _)

Built(rest, entry, edges) == [entry |-> entry, edges |-> rest.edges \cup edges]

(* Mutant: an if without else that does not lead past its body.            *)
IfCfgNoElse(s, rest, exit, brk, cont) ==
    LET then == BlockCfg(s.body, exit, rest.entry, brk, cont)
        else == IF s.orelse = << >> THEN [entry |-> {}, edges |-> {}]
                ELSE BlockCfg(s.orelse, exit, rest.entry, brk, cont)
    IN Built(rest, {s.at},
             then.edges \cup else.edges
               \cup Arcs(s.at, "CFG_TRUE", then.entry)
               \cup Arcs(s.at, "CFG_FALSE", else.entry))

IfCfg(s, rest, exit, brk, cont) ==
    LET then == BlockCfg(s.body, exit, rest.entry, brk, cont)
        else == BlockCfg(s.orelse, exit, rest.entry, brk, cont)
    IN Built(rest, {s.at},
             then.edges \cup else.edges
               \cup Arcs(s.at, "CFG_TRUE", then.entry)
               \cup Arcs(s.at, "CFG_FALSE", else.entry))

(* Mutant: break leads back to the loop instead of out of it.              *)
LoopCfgBreakBack(s, rest, exit) ==
    LET body == BlockCfg(s.body, exit, {s.at}, {s.at}, rest.entry)
        last == s.body[Len(s.body)]
    IN Built(rest, {s.at},
             body.edges
               \cup Arcs(s.at, "CFG_LOOP_BODY", body.entry)
               \cup Arcs(s.at, "CFG_LOOP_EXIT", rest.entry)
               \cup (IF last.kind \in Jumps THEN {}
                     ELSE Arcs(last.at, "CFG_LOOP_BACK", {s.at})))

(* What follows the loop is where its breaks lead, and its continues too.  *)
(* The else block of a loop is not visited.                                *)
LoopCfg(s, rest, exit) ==
    LET body == BlockCfg(s.body, exit, {s.at}, rest.entry, rest.entry)
        last == s.body[Len(s.body)]
    IN Built(rest, {s.at},
             body.edges
               \cup Arcs(s.at, "CFG_LOOP_BODY", body.entry)
               \cup Arcs(s.at, "CFG_LOOP_EXIT", rest.entry)
               \cup (IF last.kind \in Jumps THEN {}
                     ELSE Arcs(last.at, "CFG_LOOP_BACK", {s.at})))

StmtCfg(s, rest, exit, brk, cont) ==
    CASE s.kind = "if"       -> IfCfg(s, rest, exit, brk, cont)
      [] s.kind \in Loops    -> LoopCfg(s, rest, exit)
      [] s.kind = "return"   -> Built(rest, {}, Arcs(s.at, "CFG_RETURN", {exit}))
      [] s.kind = "break"    -> Built(rest, {}, Arcs(s.at, "CFG_LOOP_EXIT", brk))
      [] s.kind = "continue" -> Built(rest, {}, Arcs(s.at, "CFG_LOOP_BACK", cont))
      [] OTHER               -> Built(rest, {s.at}, Arcs(s.at, "CFG_NEXT", rest.entry))

BlockCfg(stmts, exit, next, brk, cont) ==
    FoldRight(LAMBDA s, rest : StmtCfg(s, rest, exit, brk, cont),
              stmts, [entry |-> next, edges |-> {}])

(* process_scope *)
ScopeCfg(body, scope) ==
    LET block == BlockCfg(body, ExitNode(scope), {ExitNode(scope)}, {}, {})
    IN block.edges \cup Arcs(EntryNode(scope), "CFG_NEXT", block.entry)

CfgScopes(program) == {<<Module, program>>} \cup {<<s.at, s.body>> : s \in Functions(program)}

CfgNodes(program) ==
    UNION {{EntryNode(c[1]), ExitNode(c[1])} : c \in {c \in CfgScopes(program) : c[2] # << >>}}

CfgEdges(program) ==
    UNION {ScopeCfg(c[2], c[1]) : c \in {c \in CfgScopes(program) : c[2] # << >>}}
=============================================================================
