---------------------------- MODULE MCCheckers ----------------------------
(* Answers, headers and queries are varied one after the other, each at     *)
(* every entry point.                                                       *)
EXTENDS Checkers

None == [s \in {} |-> ""]
Def == [transport |-> "http", responses |-> [s \in {200} |-> "x"], headers |-> None,
        query |-> "", dbResponse |-> Nil, checks |-> <<>>, cases |-> FALSE,
        ignoreOrder |-> FALSE]
Result == [status |-> 200, type |-> "json", body |-> "x2", headers |-> None]
Entries == {"main", "RunWithTesting", "RunWithMultiDb"}
In(D, R) == [entry : Entries, hasDb : BOOLEAN, def : D, result : R]

Responses == {None, [s \in {500} |-> "x"]}
             \union {[s \in {200} |-> t] : t \in Text}
             \union {[s \in {200, 500} |-> "y"]}
Bodies == In({[Def EXCEPT !.transport = t, !.responses = r] :
                 t \in {"http", "grpc"}, r \in Responses},
             {[Result EXCEPT !.type = t, !.body = b] :
                 t \in {"json", "xml", "text"}, b \in Text})

Values == {"x", "y"}
Expected == UNION {[K -> Values] : K \in SUBSET Header}
Actual == UNION {[K -> {<<"x">>, <<"y">>, <<"x", "y">>}] : K \in SUBSET {"Accept", "Etag"}}
Headers == In({[Def EXCEPT !.headers = [s \in {200} |-> h]] : h \in Expected}
                 \union {[Def EXCEPT !.transport = "grpc",
                                     !.headers = [s \in {200} |-> [k \in {"Etag"} |-> "x"]]]},
              {[Result EXCEPT !.headers = h] : h \in Actual})

Check(d, q, r) == [db |-> d, query |-> q, response |-> r]
Checks == {Check("one", "q1", <<"x">>), Check("two", "q2", <<"y", "x">>),
           Check("one", "q3", <<>>), Check("one", "", Nil), Check("other", "q4", <<"x">>),
           Check("two", "q5", <<"bad">>), Check("one", "q6", Nil)}
Queries == In({[Def EXCEPT !.query = own[1], !.dbResponse = own[2], !.checks = cs,
                           !.cases = c, !.ignoreOrder = o] :
                  own \in {<<"", Nil>>, <<"q", <<"x", "y">>>>, <<"q", Nil>>, <<"", <<"x">>>>},
                  cs \in UNION {[1..n -> Checks] : n \in 0..2},
                  c \in BOOLEAN, o \in BOOLEAN},
              {Result})

MCInputs == Bodies \union Headers \union Queries
MCAnswers == UNION {[1..n -> {"x2", "y"}] : n \in 0..2}
=============================================================================
