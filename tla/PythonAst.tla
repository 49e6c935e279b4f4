------------------------------ MODULE PythonAst ------------------------------
(***************************************************************************)
(* The part of Python's abstract syntax the builders look at, and what     *)
(* AstBuilder makes of it: every node gets a path from the module's root,  *)
(* a sequence of <<field, index>> pairs, over which its id is a hash.  A   *)
(* path therefore stands for a node_id of the file.                        *)
(*                                                                         *)
(* A statement has a kind, the name it binds (def), the name it reads      *)
(* (use), and two blocks.  An expression is one name, or the call of one.  *)
(***************************************************************************)
EXTENDS Naturals, Sequences, FiniteSets, SequencesExt

CONSTANTS Names, NoName     \* the identifiers of the programs

ASSUME NameAssumption == NoName \notin Names

Loops == {"while", "for"}
Jumps == {"return", "break", "continue"}
Binders == {"assign", "aug", "for", "function", "import"}

Compound(kind, def, use, body, orelse) ==
    [kind |-> kind, def |-> def, use |-> use, body |-> body, orelse |-> orelse]
Simple(kind, def, use) == Compound(kind, def, use, << >>, << >>)

(* The nodes below a statement s that has been given its path.             *)
TargetNode(s) == Append(s.at, <<"target", 0>>)
ValueNode(s)  == Append(s.at, <<"value", 0>>)
ArgNode(s)    == Append(s.at, <<"args", 0>>)
CallNode(s)   == ValueNode(s)
UseNode(s)    == IF s.kind = "call" THEN Append(CallNode(s), <<"func", 0>>)
                                    ELSE ValueNode(s)

(* The scopes' synthetic nodes, and the symbols outside the file.          *)
EntryNode(scope) == Append(scope, <<"entry", 0>>)
ExitNode(scope)  == Append(scope, <<"exit", 0>>)
ExternalNode(n)  == << <<"External", 0>>, <<n, 0>> >>
Module == << >>

(* traverse: the child path of a statement is its parent's, a field and an *)
(* index.                                                                  *)
RECURSIVE Labelled(_, _, _)
Labelled(stmts, parent, field) ==
    [i \in DOMAIN stmts |->
        LET s  == stmts[i]
            at == Append(parent, <<field, i>>)
        IN [at |-> at, kind |-> s.kind, def |-> s.def, use |-> s.use,
            body   |-> Labelled(s.body, at, "body"),
            orelse |-> Labelled(s.orelse, at, "orelse")]]

(* ast.walk: every statement of a block.                                   *)
RECURSIVE AllStmts(_)
AllStmts(stmts) ==
    UNION { {s} \cup AllStmts(s.body) \cup AllStmts(s.orelse) : s \in Range(stmts) }

(* The statements of one scope: those of nested functions are not its own. *)
RECURSIVE ScopeStmts(_)
ScopeStmts(stmts) ==
    UNION { {s} \cup (IF s.kind = "function" THEN {}
                      ELSE ScopeStmts(s.body) \cup ScopeStmts(s.orelse))
            : s \in Range(stmts) }

Functions(program) == {s \in AllStmts(program) : s.kind = "function"}

(* The nodes of a statement, itself and its expressions.                   *)
AstNodesOf(s) ==
    {s.at}
      \cup (IF s.kind \in {"assign", "aug", "for"} THEN {TargetNode(s)} ELSE {})
      \cup (IF s.kind = "call" THEN {CallNode(s)} ELSE {})
      \cup (IF s.kind = "function" THEN {ArgNode(s)}
            ELSE IF s.use # NoName THEN {UseNode(s)} ELSE {})

AstNodes(program) == {Module} \cup UNION {AstNodesOf(s) : s \in AllStmts(program)}

Edge(source, type, target, role) == <<source, type, target, role>>

AstEdges(program) ==
    {Edge(Front(p), "AST_CHILD", p, << >>) : p \in AstNodes(program) \ {Module}}
=============================================================================
