------------------------------- MODULE MCBodies -------------------------------
EXTENDS Bodies, SequencesExt

CONSTANTS x, m1, m2

Stmt(kind, name, mach) == [kind |-> kind, name |-> name, on |-> mach]

Plain(kinds) == {Stmt(kind, None, None) : kind \in kinds}

MCOps ==
    LET ons == {Stmt("on", None, m) : m \in {m1, m2}}
        stmts == Plain({"require", "exec", "interactive", "transfer", "shell"})
                    \cup {Stmt("let", x, None), Stmt("choose", x, None), Stmt("declare", x, None)}
    IN  {<<s>> : s \in stmts \cup ons}
            \cup {<<s, o, t>> : s \in {Stmt("exec", None, None)}, o \in ons, t \in stmts}

MCFuncs ==
    LET ons == {Stmt("on", None, m) : m \in {m1, m2}}
        stmts == Plain({"require", "setenv", "exec", "interactive", "write", "transfer",
                        "return", "note"})
                    \cup {Stmt("let", x, None), Stmt("read", x, None), Stmt("declare", x, None)}
    IN  {<<s, t>> : s \in stmts, t \in stmts}
            \cup {<<Stmt("exec", None, None), o, s>> : o \in ons, s \in stmts}

MCTasks ==
    LET items == {Stmt("let", x, None), Stmt("let", m2, None), Stmt("args", x, None),
                  Stmt("remote", x, m1), Stmt("remote", x, m2)} \cup Plain({"expr", "note"})
    IN  {<<s, t>> : s \in items, t \in items} \cup {<<>>}

MCLists == {<<>>, <<m1>>, <<m1, m2>>, <<m2, m1>>}
=============================================================================
