----------------------------- MODULE MCCompare -----------------------------
(* Scalars of three types, patterns, maps of one or two keys, and arrays   *)
(* of up to three elements, nested once.                                   *)
EXTENDS Compare

S(t, n)  == [t |-> t, v |-> n]
N1 == S("num", 1)
N2 == S("num", 2)
Nil == S("nil", 0)
Rx(A) == [t |-> "regex", accepts |-> A]
A(s) == [t |-> "array", items |-> s]
M1(x) == [t |-> "map", fields |-> [k \in {"a"} |-> x]]
M2(x, y) == [t |-> "map", fields |-> [k \in {"a", "b"} |-> IF k = "a" THEN x ELSE y]]
L(parts) == [t |-> "len", parts |-> parts]
P(k, n) == [key |-> k, n |-> n]

SeqsOf(T, n) == UNION {[1..k -> T] : k \in 0..n}
Arrays(T, n) == {A(s) : s \in SeqsOf(T, n)}

ExpElems == {N1, N2, Rx({N1, N2}), L(<<P("min", 1)>>), M1(N1), M2(N1, N2),
             A(<<N1, N2>>), A(<<Rx({N1, N2}), N1>>)}
ActElems == {N1, N2, S("str", 1), Nil, M1(N1), M1(N2), M2(N1, N2),
             A(<<N2, N1>>), A(<<N1, N1>>)}
Lens == {L(s) : s \in SeqsOf({P(k, n) : k \in {"", "min", "max", "other"},
                                        n \in -1..2}, 2)}
         \union {L(<<P("min", 1), P("max", 2), P("max", 2)>>)}
Threes(T) == {A(s) : s \in [1..3 -> T]}
Nested == {M1(x) : x \in Arrays({N1, N2, M1(N1)}, 2)}

Pairs ==
    (ExpElems \X ActElems)
    \union (Arrays(ExpElems, 2) \X Arrays(ActElems, 2))
    \union (Threes({N1, N2, Rx({N1, N2}), M1(N1)}) \X
            Threes({N1, N2, M1(N1), M2(N1, N2)}))
    \union (Nested \X Nested)
    \union (Lens \X (Arrays({N1}, 3) \union {N1}))
Par == [ignoreValues : BOOLEAN, ignoreOrder : BOOLEAN, disallowExtra : BOOLEAN,
        failFast : {FALSE}]
Leaves == Arrays({N1, N2, Rx({N1}), Rx({N1, N2}), Rx({})}, 3)
Call(o, q, p) == [op |-> o, exp |-> q[1], act |-> q[2], par |-> p]
Plain == [ignoreValues |-> FALSE, ignoreOrder |-> FALSE,
          disallowExtra |-> FALSE, failFast |-> FALSE]

MCInputs == {Call("Compare", q, p) : q \in Pairs, p \in Par}
            \union {Call("Query", q, Plain) : q \in Leaves \X Arrays({N1, N2}, 3)}
=============================================================================
