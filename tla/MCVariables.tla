---------------------------- MODULE MCVariables -----------------------------
EXTENDS Variables

\* Definitions without cases: with or without a variable of their own, setting one
\* from the response or not.
NoCases ==
    {[variables |-> b, cases |-> <<>>, uses |-> x, toSet |-> s] :
        b \in {[v \in Var |-> IF v = w THEN "own" ELSE Undef] : w \in Var \cup {None}},
        x \in Var, s \in Var \cup {None}}

\* Definitions with two cases: they and either case may define the variable x.
TwoCases ==
    {[variables |-> a, cases |-> <<b, c>>, uses |-> "x", toSet |-> s] :
        a \in {Empty, [Empty EXCEPT !["x"] = "other"]},
        b \in {Empty, [Empty EXCEPT !["x"] = "own"]},
        c \in {Empty, [Empty EXCEPT !["x"] = "other"]},
        s \in Var \cup {None}}

Both == NoCases \cup TwoCases
=============================================================================
