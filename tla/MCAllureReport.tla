--------------------------- MODULE MCAllureReport ---------------------------
(* Two services, two queries, definitions of every strategy, nested ones too. *)
EXTENDS AllureReport, SequencesExt

Const == [strategy |-> "constant", keys |-> <<>>, inner |-> <<>>]
Def(strategy, keys, inner) == [strategy |-> strategy, keys |-> keys, inner |-> inner]
Defs ==
    {Const,
     Def("uriVary", <<"/a", "/b">>, Const),
     Def("uriVary", <<"/a">>, Def("sequence", <<"0", "1">>, Const)),
     Def("methodVary", <<"GET", "POST">>, Const),
     Def("sequence", <<"0", "1">>, Const),
     Def("sequence", <<"0">>, Def("uriVary", <<"/a">>, Const)),
     Def("basedOnRequest", <<"0", "1", "2">>, Const),
     Def("basedOnRequest", <<"0">>, Def("methodVary", <<"GET">>, Const))}

\* The errors that the mocks of a test can report: at any of its definitions, and a
\* request to a service with or without a definition that nothing handles.
MockErrors(mocks) ==
    {MockError(s, NoPath) : s \in {1, 2}}
        \cup UNION {{MockError(s, p) : p \in Paths(mocks[s])} : s \in DOMAIN mocks}

Case(fixtures, mocks, wantHeaders, sent, some, queries, errors) ==
    [fixtures |-> fixtures, mocks |-> mocks, wantHeaders |-> wantHeaders, sent |-> sent,
     body |-> some, headers |-> some, queries |-> queries, errors |-> errors]

\* Up to two mock errors, for every definition.
MockCases ==
    UNION {{Case(FALSE, mocks, FALSE, {}, FALSE, <<>>, errors) :
                errors \in BoundedSeq(MockErrors(mocks), 2)} :
           mocks \in {<<>>} \cup {<<d>> : d \in Defs} \cup {<<Const, d>> : d \in Defs}}

\* Up to two errors of other kinds, with every shape of request and response.
CheckErrors ==
    {CheckError(cat, 0) : cat \in {"status_code", "body"}} \cup {PlainError}
CheckCases ==
    {Case(fixtures, <<>>, wantHeaders, sent, some, queries, errors) :
        fixtures \in BOOLEAN, wantHeaders \in BOOLEAN, some \in BOOLEAN,
        sent \in {{}, {"headers"}, {"body", "headers", "cookies"}},
        queries \in BoundedSeq(BOOLEAN, 2), errors \in BoundedSeq(CheckErrors, 1)}
DataCases ==
    {[c EXCEPT !.errors = @ \o more] :
        c \in {d \in CheckCases : d.wantHeaders /\ Len(d.queries) = 2 /\ ~d.fixtures},
        more \in BoundedSeq({CheckError("header", 0), CheckError("database", 1),
                             CheckError("database", 2)}, 2)}

\* Version 1 looks at the queries and at whether there are errors.
MCCases1 == {c \in CheckCases : ~c.fixtures /\ c.sent = {} /\ ~c.wantHeaders /\ ~c.body
                                 /\ ~c.headers /\ c.errors \in {<<>>, <<PlainError>>}}
MCCases  == MockCases \cup CheckCases \cup DataCases
=============================================================================
