---------------------------- MODULE MCCpgParser ----------------------------
(***************************************************************************)
(* The programs: a function f(x) with one compound statement between two   *)
(* simple ones, and a tail at module level that calls.                     *)
(***************************************************************************)
EXTENDS CpgParser

Assign(n, m) == Simple("assign", n, m)
Expr(n)      == Simple("expr", NoName, n)
Call(n)      == Simple("call", NoName, n)
Jump(kind)   == Simple(kind, NoName, NoName)
If(n, b, o)  == Compound("if", NoName, n, b, o)
While(n, b)  == Compound("while", NoName, n, b, << >>)
For(d, n, b) == Compound("for", d, n, b, << >>)
Def(f, b)    == Compound("function", f, "x", b, << >>)

Plain == {Assign("x", "y"), Assign("y", "x"), Expr("x")}
Inner == { <<If("x", <<Assign("x", "y")>>, <<Jump(k)>>)>> : k \in Jumps }
         \cup { <<If("y", <<Jump(k)>>, << >>), Assign("y", "x")>> : k \in Jumps }
         \cup { <<If("y", <<Assign("y", "x")>>, <<Assign("x", "y")>>)>>,
                <<If("x", <<Assign("x", "y")>>, << >>)>>,
                <<While("x", <<Assign("y", "x"), Assign("x", "y")>>)>>,
                <<For("y", "x", <<Assign("x", "y"), If("x", <<Jump("break")>>, << >>)>>)>> }
Leaves == { <<s>> : s \in Plain \cup {Jump(k) : k \in Jumps} }
          \cup { <<Assign("y", "x"), Expr("y")>>, <<Call("f"), Simple("aug", "x", "y")>> }
Bodies == Leaves \cup Inner
NoLoopJump(b) == \A s \in AllStmts(Labelled(b, Module, "body")) :
                    s.kind \in {"break", "continue"}
                        => \E i \in DOMAIN b : b[i].kind \in Loops

Branches == {b \in Bodies : NoLoopJump(b)}
Compounds ==
    {If("x", b, << >>) : b \in Branches}
      \cup {If("x", b, o) : b, o \in Branches}
      \cup {While("x", b) : b \in Bodies}
      \cup {For("y", "x", b) : b \in Bodies}
      \cup {Compound("while", NoName, "y", b, <<Assign("x", "y")>>) : b \in Leaves}

Pre  == { << >>, <<Assign("y", "x")>> }
Post == { << >>, <<Expr("y")>>, <<Jump("return")>> }
Tails == { <<Call("f")>> }
MoreTails == { <<Simple("import", "g", NoName), Call("g")>>,
               <<If("y", <<Call("h")>>, <<Def("f", <<Call("f")>>), Call("f")>>)>>,
               <<Def("g", <<Def("h", <<Call("g"), Call("h")>>), Call("h")>>), Call("g")>> }

MCPrograms ==
    { <<Def("f", pre \o <<c>> \o post)>> \o tail :
        pre \in Pre, c \in Compounds, post \in Post, tail \in Tails }
      \cup { <<Def("f", <<c>>)>> \o tail :
        c \in {While("x", b) : b \in Bodies}, tail \in MoreTails }
MCNames == {"x", "y", "f", "g", "h"}
=============================================================================
