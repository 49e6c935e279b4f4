----------------------------- MODULE CallBuilder -----------------------------
(***************************************************************************)
(* CallBuilder: a CALLS edge for every call, from the function around it   *)
(* to a function of the module, or to a symbol outside the file.           *)
(***************************************************************************)
EXTENDS PythonAst

Calls(program) == {s \in AllStmts(program) : s.kind = "call"}

(* local_symbols: the functions at module level; the last of a name wins.  *)
LocalSymbols(program) ==
    [n \in {s.def : s \in {t \in Range(program) : t.kind = "function"}} |->
        program[CHOOSE i \in DOMAIN program :
            /\ program[i].kind = "function" /\ program[i].def = n
            /\ \A j \in DOMAIN program :
                 j > i => ~ (program[j].kind = "function" /\ program[j].def = n)].at]

(* Imports count wherever they stand, and under the name they come from;   *)
(* a call that is neither local nor imported keeps its own text.           *)
Resolution(program, n) ==
    CASE n \in DOMAIN LocalSymbols(program) -> "LOCAL_FUNCTION"
      [] \E s \in AllStmts(program) : s.kind = "import" /\ s.def = n -> "IMPORTED_SYMBOL"
      [] OTHER -> "UNRESOLVED_DYNAMIC_CALL"

CallTarget(program, n) ==
    IF Resolution(program, n) = "LOCAL_FUNCTION"
    THEN LocalSymbols(program)[n] ELSE ExternalNode(n)

(* Mutant: every call is attributed to the module.                         *)
CallerModule(program, s) == Module

(* traverse: the innermost function around the call, or the module.        *)
Caller(program, s) ==
    LET around == {f.at : f \in {f \in Functions(program) : IsStrictPrefix(f.at, s.at)}}
    IN IF around = {} THEN Module
       ELSE CHOOSE p \in around : \A q \in around : Len(q) <= Len(p)

(* Mutant: the symbols outside the file are left out.                      *)
ExternalNodesNone(program) == {}

ExternalNodes(program) ==
    {ExternalNode(n) :
        n \in {s.use : s \in {s \in Calls(program) :
                                Resolution(program, s.use) # "LOCAL_FUNCTION"}}}

CallEdges(program) ==
    {Edge(Caller(program, s), "CALLS", CallTarget(program, s.use), CallNode(s))
     : s \in Calls(program)}
=============================================================================
