------------------------------ MODULE Checkers ------------------------------
(***************************************************************************)
(* The checkers of a test's result: which ones each entry point registers  *)
(* (main, RunWithTesting, RunWithMultiDb), the order in which executeTest  *)
(* runs them, and the errors they add to the result or abort the run with. *)
(*                                                                         *)
(* A body, a header value or a row of the database is a text.  A text that *)
(* parses has a document; module Compare has the comparison of documents,  *)
(* here two documents agree when they are equal.  A text that is compared  *)
(* as such is a string.  "x" and "x2" stand for two texts of one document. *)
(***************************************************************************)
EXTENDS Integers, Sequences, FiniteSets

CONSTANTS Inputs,    \* what the checkers are given: [entry, hasDb, def, result]
          Answers,   \* what the database may answer to a query: sequences of rows
          Databases, \* the names RunWithMultiDb maps to a connection
          Words      \* names of databases and texts of queries

VARIABLES in, test, checkers, queries, found, errors, dbResult, outcome
vars == <<in, test, checkers, queries, found, errors, dbResult, outcome>>

Text == {"", "bad", "x", "x2", "y"}
Parses(t) == t \notin {"", "bad"}
Json == {t \in Text : Parses(t)}
Document(t) == IF t = "x2" THEN "x" ELSE t
Agree(e, a) == Document(e) = Document(a)

Header == {"accept", "Accept", "Etag"}
CanonicalMIMEHeaderKey(k) == IF k = "accept" THEN "Accept" ELSE k

Nil == <<"nil">>    \* the expected rows of a check that states none

DbCheck == [db : Words, query : Words, response : Seq(Text) \cup {Nil}]

(* The database answers with rows as JSON (row_to_json), which parse. *)
ASSUME CheckersAssumption ==
    /\ \A input \in Inputs :
          /\ input.entry \in {"main", "RunWithTesting", "RunWithMultiDb"}
          /\ input.hasDb \in BOOLEAN
          /\ DOMAIN input.def = {"transport", "responses", "headers", "query", "dbResponse",
                                 "checks", "cases", "ignoreOrder"}
          /\ input.def.transport \in {"http", "grpc"}
          /\ input.def.checks \in Seq(DbCheck)
          /\ input.def.query \in Words /\ input.def.dbResponse \in Seq(Text) \cup {Nil}
    /\ \A rows \in Answers : rows \in Seq(Json)
    /\ "" \in Words

(* An error has a kind, for a header its name, for a query its index. *)
Err(kind, name, at) == [kind |-> kind, name |-> name, at |-> at]

(* makeTestFromDefinition: with cases, the checks lose the name of their    *)
(* database, and an empty list of rows becomes nil.                         *)
MakeChecks(def) ==
    IF ~def.cases THEN def.checks
    ELSE [i \in DOMAIN def.checks |->
            [db |-> "", query |-> def.checks[i].query,
             response |-> IF def.checks[i].response = <<>> THEN Nil
                          ELSE def.checks[i].response]]

addCheckersMain == <<"body">> \o IF in.hasDb THEN <<"db">> ELSE <<>>
addCheckersTesting ==
    <<"grpc", "body", "header">> \o IF in.hasDb THEN <<"db">> ELSE <<>>
addCheckersMultiDb == <<"body", "header", "multidb">>

Init ==
    /\ in \in Inputs
    /\ test = [in.def EXCEPT !.checks = MakeChecks(in.def)]
    /\ checkers = CASE in.entry = "main" -> addCheckersMain
                    [] in.entry = "RunWithTesting" -> addCheckersTesting
                    [] in.entry = "RunWithMultiDb" -> addCheckersMultiDb
    /\ queries = <<>> /\ found = {} /\ errors = {} /\ dbResult = <<>>
    /\ outcome = "running"

Turn(c) == outcome = "running" /\ checkers # <<>> /\ Head(checkers) = c

(* A checker returns its errors, and the next one has its turn ... *)
Report(errs) ==
    /\ errors' = errors \cup errs /\ checkers' = Tail(checkers)
    /\ UNCHANGED <<in, test, queries, found, dbResult, outcome>>

(* ... or it returns no errors but one that ends the run. *)
Abort(how) ==
    /\ outcome' = how
    /\ UNCHANGED <<in, test, checkers, queries, found, errors, dbResult>>

-----------------------------------------------------------------------------
(* Bodies and headers.                                                      *)

\* Mutant of DocumentErrors: an answer that does not parse is not compared.
DocumentErrorsParsed(e, a) ==
    IF Parses(a) => Agree(e, a) THEN {} ELSE {Err("body", "", 0)}

(* compareJsonBody and compareXmlBody, once the expected body has parsed.   *)
DocumentErrors(e, a) == IF Parses(a) /\ Agree(e, a) THEN {} ELSE {Err("body", "", 0)}

TextErrors(e, a) == IF e = a THEN {} ELSE {Err("body", "", 0)}

AsDocument(e) == in.result.type \in {"json", "xml"} /\ e # ""

(* ResponseBodyChecker.Check.  Without any expected response the index of   *)
(* the first expected status is out of range.                               *)
CheckBody ==
    LET status == in.result.status
        a == in.result.body
        e == test.responses[status] IN
    /\ Turn("body")
    /\ \/ test.transport = "grpc" /\ Report({})
       \/ /\ test.transport # "grpc" /\ status \in DOMAIN test.responses
          /\ \/ ~AsDocument(e) /\ Report(TextErrors(e, a))
             \/ AsDocument(e) /\ ~Parses(e) /\ Abort("error")
             \/ AsDocument(e) /\ Parses(e) /\ Report(DocumentErrors(e, a))
       \/ /\ test.transport # "grpc" /\ status \notin DOMAIN test.responses
          /\ IF DOMAIN test.responses = {} THEN Abort("panic")
             ELSE Report({Err("status", "", 0)})

(* GrpcResponseChecker.Check *)
CheckGrpc ==
    LET status == in.result.status
        a == in.result.body
        e == test.responses[status] IN
    /\ Turn("grpc")
    /\ \/ test.transport # "grpc" /\ Report({})
       \/ /\ test.transport = "grpc" /\ status \notin DOMAIN test.responses
          /\ Report({Err("status", "", 0)})
       \/ /\ test.transport = "grpc" /\ status \in DOMAIN test.responses
          /\ \/ e = "" /\ Report({})
             \/ e # "" /\ ~Parses(e) /\ Abort("error")
             \/ Parses(e) /\ Report(DocumentErrors(e, a))

\* Mutant of HeaderFound: the last value of the header decides.
HeaderFoundLast(k, v) ==
    LET name == CanonicalMIMEHeaderKey(k)
        values == in.result.headers[name] IN
    name \in DOMAIN in.result.headers /\ values[Len(values)] = v

HeaderFound(k, v) ==
    LET name == CanonicalMIMEHeaderKey(k) IN
    /\ name \in DOMAIN in.result.headers
    /\ \E i \in DOMAIN in.result.headers[name] : in.result.headers[name][i] = v

(* ResponseHeaderChecker.Check *)
CheckHeader ==
    LET expected == test.headers[in.result.status] IN
    /\ Turn("header")
    /\ \/ /\ test.transport = "grpc" \/ in.result.status \notin DOMAIN test.headers
          /\ Report({})
       \/ /\ test.transport # "grpc" /\ in.result.status \in DOMAIN test.headers
          /\ Report({Err("header", CanonicalMIMEHeaderKey(k), 0) :
                        k \in {k \in DOMAIN expected : ~HeaderFound(k, expected[k])}})

-----------------------------------------------------------------------------
(* Queries.                                                                 *)

(* The check that a test states with dbQuery and dbResponse. *)
OwnCheck == [db |-> "", query |-> test.query, response |-> test.dbResponse]

(* ResponseDbChecker.Check runs the test's own check and then the others;   *)
(* ResponseMultiDbChecker.Check only the others, each in its database.      *)
StartQueries ==
    /\ \/ Turn("db") /\ queries' = <<OwnCheck>> \o test.checks
       \/ Turn("multidb") /\ queries' = test.checks
    /\ checkers' = <<"queries">> \o Tail(checkers)
    /\ UNCHANGED <<in, test, found, errors, dbResult, outcome>>

Mapped(q) == in.entry = "RunWithMultiDb" => q.db \in Databases
Skipped(q) == q.query = "" /\ q.response = Nil
Complete(q) == q.query # "" /\ q.response # Nil

Permutations(n) ==
    {f \in [1..n -> 1..n] : \A i, j \in 1..n : f[i] = f[j] => i = j}

(* Compare on the rows, in order or in any order. *)
RowsAgree(es, as) ==
    IF test.ignoreOrder
    THEN \E f \in Permutations(Len(es)) : \A i \in DOMAIN es : Agree(es[i], as[f[i]])
    ELSE \A i \in DOMAIN es : Agree(es[i], as[i])

\* Mutant of RowErrors: the index is taken after the result was appended.
RowErrorsAfter(es, as) ==
    IF RowsAgree(es, as) THEN {} ELSE {Err("database", "", Len(dbResult) + 1)}

(* The number of errors is left out: one stands for all of a query. *)
RowErrors(es, as) ==
    IF RowsAgree(es, as) THEN {} ELSE {Err("database", "", Len(dbResult))}

SkipQuery ==
    /\ Turn("queries") /\ queries # <<>>
    /\ Mapped(Head(queries)) /\ Skipped(Head(queries))
    /\ queries' = Tail(queries)
    /\ UNCHANGED <<in, test, checkers, found, errors, dbResult, outcome>>

(* The database is not mapped, the check lacks its query or its rows, or    *)
(* the database returns an error.                                           *)
RefuseQuery ==
    /\ Turn("queries") /\ queries # <<>>
    /\ ~Mapped(Head(queries)) \/ ~Skipped(Head(queries))
    /\ Abort("error")

(* ResponseDbChecker.check.  newQuery runs the query up to its first ";";  *)
(* what the database answers to that is any of Answers.                    *)
RunQuery(rows) ==
    LET q == Head(queries)
        expectedParse == \A i \in DOMAIN q.response : Parses(q.response[i]) IN
    /\ Turn("queries") /\ queries # <<>> /\ Mapped(q) /\ Complete(q)
    /\ dbResult' = Append(dbResult, [query |-> q.query, rows |-> rows])
    /\ \/ /\ Len(rows) # Len(q.response)
          /\ found' = found \cup {Err("database", "", Len(dbResult))}
          /\ queries' = Tail(queries) /\ UNCHANGED outcome
       \/ /\ Len(rows) = Len(q.response) /\ ~expectedParse
          /\ outcome' = "error" /\ UNCHANGED <<found, queries>>
       \/ /\ Len(rows) = Len(q.response) /\ expectedParse
          /\ found' = found \cup RowErrors(q.response, rows)
          /\ queries' = Tail(queries) /\ UNCHANGED outcome
    /\ UNCHANGED <<in, test, checkers, errors>>

EndQueries ==
    /\ Turn("queries") /\ queries = <<>>
    /\ errors' = errors \cup found /\ found' = {} /\ checkers' = Tail(checkers)
    /\ UNCHANGED <<in, test, queries, dbResult, outcome>>

(* executeTest returns the result. *)
Finish ==
    /\ outcome = "running" /\ checkers = <<>> /\ outcome' = "done"
    /\ UNCHANGED <<in, test, checkers, queries, found, errors, dbResult>>

Next ==
    \/ CheckBody \/ CheckGrpc \/ CheckHeader
    \/ StartQueries \/ SkipQuery \/ RefuseQuery \/ EndQueries \/ Finish
    \/ \E rows \in Answers : RunQuery(rows)

Spec == Init /\ [][Next]_vars

-----------------------------------------------------------------------------
(* What the author of a test expects.                                       *)

StatusMet == in.result.status \in DOMAIN test.responses

(* The body is the expected text, or where bodies are documents another     *)
(* text of the same document; of a gRPC answer nothing may be expected.     *)
BodyMet ==
    LET e == test.responses[in.result.status]
        a == in.result.body IN
    StatusMet =>
        \/ e = a
        \/ test.transport = "grpc" /\ e = ""
        \/ /\ test.transport = "grpc" \/ in.result.type \in {"json", "xml"}
           /\ Parses(e) /\ Parses(a) /\ Document(e) = Document(a)

HeadersMet ==
    test.transport = "http" /\ in.result.status \in DOMAIN test.headers =>
        \A k \in DOMAIN test.headers[in.result.status] :
            \E name \in DOMAIN in.result.headers :
                /\ name = CanonicalMIMEHeaderKey(k)
                /\ \E i \in DOMAIN in.result.headers[name] :
                      in.result.headers[name][i] = test.headers[in.result.status][k]

(* The checks that a test states, and those of them that are complete. *)
Stated == IF in.entry = "RunWithMultiDb" THEN test.checks ELSE <<OwnCheck>> \o test.checks
Asked  == {k \in DOMAIN Stated : Complete(Stated[k])}

(* The place of a complete check among the complete ones. *)
Position(k) == Cardinality({j \in Asked : j <= k})

(* How often each document occurs in a sequence of rows. *)
Occurrences(rows) ==
    [d \in {"x", "y"} |-> Cardinality({i \in DOMAIN rows : Document(rows[i]) = d})]

RowsMet(k) ==
    LET es == Stated[k].response
        as == dbResult[Position(k)].rows IN
    /\ Len(es) = Len(as)
    /\ IF test.ignoreOrder THEN Occurrences(es) = Occurrences(as)
       ELSE \A j \in DOMAIN es : Document(es[j]) = Document(as[j])

QueriesMet == Len(dbResult) = Cardinality(Asked) /\ \A k \in Asked : RowsMet(k)

(* A result without errors meets what the test expects of it: of an HTTP    *)
(* answer status and body at every entry point; in RunWithTesting, which    *)
(* registers all the checkers, the gRPC answer, the headers and, with a     *)
(* database, the rows of every query as well.                               *)
PassMeansMet ==
    outcome = "done" /\ errors = {} =>
        /\ test.transport = "http" => StatusMet /\ BodyMet
        /\ in.entry = "RunWithTesting" =>
              StatusMet /\ BodyMet /\ HeadersMet /\ (in.hasDb => QueriesMet)

(* A result that meets everything the test expects has no errors, whatever  *)
(* the entry point: no checker complains of what another one is for.        *)
NoFalseAlarm ==
    outcome = "done" /\ StatusMet /\ BodyMet /\ HeadersMet /\ QueriesMet => errors = {}

(* The identifiers of database errors, by which the Allure 2 report finds   *)
(* the query that failed, are the positions in DatabaseResult of exactly    *)
(* the queries whose rows differ, although checks are skipped and the two   *)
(* ways to state a check are numbered together.                             *)
ErrorsPointAtQuery ==
    outcome = "done" /\ dbResult # <<>> =>
        /\ Len(dbResult) = Cardinality(Asked)
        /\ \A k \in Asked : dbResult[Position(k)].query = Stated[k].query
        /\ {e.at : e \in {e \in errors : e.kind = "database"}}
              = {Position(k) - 1 : k \in {k \in Asked : ~RowsMet(k)}}
=============================================================================
