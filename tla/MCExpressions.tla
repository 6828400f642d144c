--------------------------- MODULE MCExpressions ---------------------------
(* Expressions out of families of forms.                                    *)
EXTENDS ExpressionMeaning

MCGrammars ==
  { {"num", "x", "sub", "f", "assign", "not"},
    {"x", "y", "and", "or", "cond", "f"},
    {"p", "q", "num", "member", "assign", "h", "g", "k"},
    {"p", "q", "x", "assign", "comma", "cond", "g", "sub"},
    {"num", "x", "h", "comma", "member", "sub", "k", "p"} }

\* What is otherwise avoided: structs that are assigned while another one is, and
\* structs that are returned and passed on.
MCAvoided == {{"p", "q", "r", "assign", "comma"}, {"num", "x", "h", "g", "k"}}
=============================================================================
