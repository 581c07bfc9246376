------------------------------- MODULE Tokens -------------------------------
(***************************************************************************)
(* Source text and its tokens (parser.rs, tokenize).  A text is a sequence *)
(* of lexemes: words, numbers, string literals and symbols, with white     *)
(* space or a comment between them wherever the code needs one.  Words     *)
(* have letters only.  A string literal that is written without its        *)
(* escapes and has a quote in it leaves a quote open: "unclosed".          *)
(***************************************************************************)
EXTENDS Ast

Keywords ==
    {"role", "resource", "device", "extent", "machine", "operation", "service", "function",
     "can", "cannot", "grant", "alias", "requires", "allow", "if", "and", "or", "not", "is",
     "in", "from", "on", "exec", "transfer", "read", "write", "let", "mut", "for", "while",
     "break", "continue", "return", "define", "optimize", "costs", "cost", "rule", "default",
     "type", "key", "extend", "choose", "try", "catch", "finally", "success", "failure",
     "error", "else", "true", "false", "then", "exists", "matches", "starts", "ends", "with",
     "set", "start", "stop", "as", "dependency", "secret", "cmd", "bytes", "down", "of",
     "tasks", "capacity", "field", "up", "mountpoint", "where", "broadcast", "sum", "options",
     "batch", "interactive"}

Symbols ==
    ArithmeticOps \cup CompareOps
    \cup {"=", "(", ")", "{", "}", "[", "]", ",", ";", ":", ".", "<-"}

ByteSuffixes == {"KB", "KiB", "MB", "MiB", "GB", "GiB", "TB", "TiB"}

-----------------------------------------------------------------------------
(* Lexemes, and a text of words and symbols. *)
Word(w) == <<"word", w>>
Num(n) == <<"number", n>>
Quoted(s) == <<"string", s>>
Symbol(s) == <<"symbol", s>>
Unclosed == <<"unclosed", "">>

Written(strings) ==
    [i \in DOMAIN strings |-> IF strings[i] \in Symbols THEN Symbol(strings[i])
                              ELSE Word(strings[i])]

(* Tokens. *)
Kw(w) == <<"Kw", w>>
Ident(name) == <<"Ident", name>>
Str(s) == <<"Str", s>>
Whole(n) == <<"Int", n>>
Bytes(n, suffix) == <<"Bytes", n, suffix>>
Sym(s) == <<"Sym", s>>
Eof == <<"Eof">>

WordToken(w) == IF w \in Keywords THEN Kw(w) ELSE Ident(w)

(* A number that does not fit its type is 0. *)
Fit(n, limit) == IF n <= limit THEN n ELSE 0

(* The lexeme after a number, without its first n letters. *)
Cut(text, n) ==
    IF Len(text[1][2]) = n THEN Tail(text) ELSE <<Word(After(text[1][2], n))>> \o Tail(text)

(* After a number a suffix makes it a number of bytes, and an `s` (of a duration) is   *)
(* dropped: also across white space and when they only begin the next word.            *)
RECURSIVE Tokenize(_)

TokenizeNumber(n, text) ==
    LET word == IF text # <<>> /\ text[1][1] = "word" THEN text[1][2] ELSE ""
        suffixes == {s \in ByteSuffixes : StartsWith(word, s)}
        suffix == CHOOSE s \in suffixes : TRUE
    IN  CASE suffixes # {} ->
                <<Bytes(Fit(n, 2 * Top + 1), suffix)>> \o Tokenize(Cut(text, Len(suffix)))
          [] suffixes = {} /\ StartsWith(word, "s") ->
                <<Whole(Fit(n, Top))>> \o Tokenize(Cut(text, 1))
          [] OTHER -> <<Whole(Fit(n, Top))>> \o Tokenize(text)

Tokenize(text) ==
    IF text = <<>> THEN <<>>
    ELSE CASE text[1][1] = "word" -> <<WordToken(text[1][2])>> \o Tokenize(Tail(text))
           [] text[1][1] = "string" -> <<Str(text[1][2])>> \o Tokenize(Tail(text))
           [] text[1][1] = "symbol" -> <<Sym(text[1][2])>> \o Tokenize(Tail(text))
           [] text[1][1] = "number" -> TokenizeNumber(text[1][2], Tail(text))

Lexes(text) == Unclosed \notin ToSet(text)
=============================================================================
