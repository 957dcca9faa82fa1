------------------------------ MODULE MCShell ------------------------------
(* Lines for TLC: every line of up to three symbols, every line of up to four tokens
   with one blank between each two, and longer ones like those of src/shell/test. *)
EXTENDS Shell

UpTo(n, S) == UNION {[1 .. k -> S] : k \in 0 .. n}
Spread(t) == [i \in 1 .. 2 * Len(t) - 1 |-> IF i % 2 = 0 THEN " " ELSE t[(i + 1) \div 2]]

CONSTANTS a, f

AnyLine == UpTo(3, Symbols \ {f, "<"})
SpacedLine == {Spread(t) : t \in (UpTo(3, Symbols \ {" ", "<"}) \cup UpTo(4, {a, f, ">", "&"}))
                                 \ {<<>>}}
Longer == {Spread(t) : t \in {
    <<a, "<", f>>, <<a, "<", "2>">>, <<a, "&", "<", f>>, <<"&", "&", "&", a>>,
    <<a, "<", f, f>>, <<a, ">", a, ">", f>>, <<a, "<", a, ">", f>>, <<a, "<", a, ">", f, "2>", a>>,
    <<a, "2>", f, "<", a, "&">>, <<a, "2>", f, ">", a, "\\">>}}
MCLines == Longer \cup AnyLine \cup SpacedLine
FewLines == {Spread(<<a>> \o t) : t \in UpTo(2, Symbols \ {" "})}
=============================================================================
