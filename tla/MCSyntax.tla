------------------------------ MODULE MCSyntax ------------------------------
(* Instances of Syntax for TLC: what is written in each frame, and around it. *)
EXTENDS Syntax

Words(words) == {Written(<<w>>) : w \in words}

Phrases(phrases) == {Written(p) : p \in phrases}

MCFrames ==
    {"expr", "cond", "type", "role", "task", "stmt", "resource", "device", "machine",
     "operation", "option", "service", "function"}

MCOpening ==
    [f \in MCFrames |->
        Written(CASE f = "expr" -> <<"if">>
                  [] f = "cond" -> <<"grant", "a", "can", "o", "if">>
                  [] f = "type" -> <<"alias", "t", "=">>
                  [] f = "role" -> <<"role", "r", "{">>
                  [] f = "task" -> <<"tasks", "{">>
                  [] f = "stmt" -> <<>>
                  [] f = "resource" -> <<"resource", "r", "{">>
                  [] f = "device" -> <<"device", "d", "{">>
                  [] f = "machine" -> <<"machine", "m", "{">>
                  [] f = "operation" -> <<"operation", "o", "(", "Int", "n", ")", "{">>
                  [] f = "option" -> <<"operation", "o", "(", ")", "{", "options", "{">>
                  [] f = "service" -> <<"service", "s", "(">>
                  [] f = "function" -> <<"function", "f", "(", ")", "{">>)]

MCClosing ==
    [f \in MCFrames |->
        Written(CASE f = "expr" -> <<"{", "}">>
                  [] f \in {"cond", "type"} -> <<";">>
                  [] f = "option" -> <<"}", "}">>
                  [] f = "stmt" -> <<>>
                  [] OTHER -> <<"}">>)]

MCChunks ==
    [f \in MCFrames |->
        CASE f = "expr" -> Words({"a", "or", "and", "<", "+", "*", "not", "-", "(", ")", "["})
          [] f = "cond" ->
                Words({"x", "is", "or", "and", "not", "down", "can", "in", "exists"})
                \cup Phrases({<<"{", "v", ":", "Int", "}">>})
                \cup {Written(<<"starts", "with">>) \o <<Quoted("p")>>,
                      Written(<<"matches">>) \o <<Quoted("\"")>>}
          [] f = "type" ->
                Words({"Int", "Job", "map", "of", "to", "ordered", "set", "[", "mut", "]"})
                \cup Phrases({<<"new", "list">>}) \cup {<<Symbol("("), Num(2), Symbol(")")>>}
          [] f = "role" ->
                Words({"can", "cannot", "w", ",", "down", "."})
                \cup Phrases({<<"up", "q">>, <<"can", "define", "operation", "for">>,
                              <<"{", "x", ":", "Job", "}">>, <<"if", "x", "is", "r">>})
          [] f = "task" ->
                Words({"x", "f", ",", "(", ")", "<-", "+", "optimize", "for", "KB"})
                \cup Phrases({<<"{", "k", "}">>}) \cup {<<Num(9)>>, <<Quoted("$h")>>}
          [] f = "stmt" ->
                Words({"m", ";", "}"})
                \cup Phrases({<<"on", "m">>, <<"if", "x", "{">>, <<"}", "else", "{">>,
                              <<"}", "else", "if", "y", "{">>, <<"grant", "a", "can", "o">>,
                              <<"try", "{">>, <<"}", "catch", "error", "e", "{">>,
                              <<"}", "finally", "{">>, <<"while", "b", "is", "true", "{">>,
                              <<"for", "i", "in", "x", "{">>})
          [] f = "resource" ->
                Words({"Job", ",", "capacity", ":"})
                \cup Phrases({<<"field", "p">>, <<"default", "=", "x">>})
          [] f = "device" ->
                Words({"bytes", ",", "}"})
                \cup Phrases({<<"extent", "e">>, <<"default", "=", "x">>, <<"cost", "rule", "{">>,
                              <<"sum", "(", "cost", "e", ")", "-",
                                "(", "cost", "h", ")", "<=", "x">>})
                \cup {<<Word("e"), Symbol("<="), Num(2)>>}
          [] f = "machine" ->
                Words({",", "x"})
                \cup Phrases({<<"extent", "e">>, <<"mountpoint", "p">>, <<"{", "}">>,
                              <<"device", "g", "type", "t">>})
                \cup {<<Num(1), Word("GB")>>, <<Word("key"), Quoted("k")>>}
          [] f = "operation" ->
                Words({",", "}", "o"})
                \cup Phrases({<<"requires", "x">>, <<"allow", "if", "role", "is", "r">>,
                              <<"costs", "{">>, <<"stop", ":", "x">>, <<"store", ":", "x">>})
                \cup {<<Word("c"), Symbol(":"), Num(1)>>}
          [] f = "option" ->
                Words({";", "x", "exec"})
                \cup Phrases({<<"on", "m">>, <<"let", "v", "=">>, <<"requires", "x">>,
                              <<"exec", "interactive", "c">>, <<"transfer", "a", "to", "b">>})
          [] f = "service" ->
                Words({"n", "Int", ",", ":"})
                \cup Phrases({<<")", "on", "m", "{">>}) \cup {<<Word("c"), Num(1)>>}
          [] f = "function" ->
                Words({";", "x"})
                \cup Phrases({<<"let", "v", ":", "Int">>, <<"return">>, <<"write">>,
                              <<"read", "json">>, <<"exec", "c">>, <<"success", "if", "x">>,
                              <<"failure", "otherwise">>, <<"requires", "x">>,
                              <<"transfer", "a", "to", "b">>})]

MCMaxChunks ==
    [f \in MCFrames |->
        CASE f \in {"resource", "service", "device"} -> 6
          [] f \in {"task", "function"} -> 4
          [] OTHER -> 5]
=============================================================================
