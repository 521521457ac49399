---------------------------- MODULE AllureReport ----------------------------
(***************************************************************************)
(* The Allure outputs.  Version 2 builds one Result per test, a tree of    *)
(* steps, and saves it at the end of Process; version 1 collects the cases *)
(* of a suite, which Finalize writes.                                      *)
(*                                                                         *)
(* Each function of Allure2Output is the list of the calls it makes on the *)
(* allure2 package; the actions carry the calls out one by one on Go's     *)
(* data structure: StartStep and StartSubStep append to a slice and return *)
(* a pointer into its array, which a later append may replace.             *)
(***************************************************************************)
EXTENDS Integers, Sequences, FiniteSets, TLC, FiniteSetsExt

CONSTANTS
    Cases,    \* tests with their results, the arguments of Process
    Cases1,   \* those handed to version 1
    URIs,     \* keys of branches that start with a slash
    MaxCases  \* bound: tests of a version 1 suite

ASSUME CasesAssumption == \A c \in Cases1 : Len(c.queries) \in Nat

(***************************************************************************)
(* A case: fixtures (the test names some), mocks (a function from the      *)
(* services it defines to definitions), wantHeaders (it expects response   *)
(* headers), sent (kinds of request attachments there are), body and       *)
(* headers (the response has some), queries (for each database result,     *)
(* whether it has rows) and errors (of the result).  Services and queries  *)
(* are numbers: the rank of the name, the position in DatabaseResult.      *)
(*                                                                         *)
(* A mock definition: its strategy, the keys of its branches (URIs,        *)
(* methods or indexes, in sorted order) and the definition of every branch.*)
(***************************************************************************)
\* The paths loadDefinition gives to a definition and its branches, without the "$".
Paths(d) ==
    LET Branch(e) == {<<e.strategy, e.keys[i]>> : i \in DOMAIN e.keys}
    IN  {<<>>} \cup Branch(d)
        \cup {p \o q : p \in Branch(d), q \in IF d.keys = <<>> THEN {} ELSE Branch(d.inner)}

\* Errors of the checkers, errors without a category, and errors of the mocks: those
\* of a constraint or a number of calls have the path of their definition.
NoPath == <<"">>
CheckError(cat, id)  == [kind |-> "check", cat |-> cat, id |-> id, path |-> NoPath]
PlainError           == [kind |-> "plain", cat |-> "", id |-> 0, path |-> NoPath]
MockError(srv, path) == [kind |-> "mock", cat |-> "", id |-> srv, path |-> path]

VARIABLES
    format,   \* "v1" or "v2"
    case,     \* the case being processed; <<>>: none
    todo,     \* calls that Process has still to make
    ret,      \* "idle", "running"; "nil" or "error" when Process returned
    arrays,   \* arrays behind the slices of steps
    ptr,      \* the pointers to steps held by local variables
    result,   \* the Result: its slice of steps and its status
    files,    \* attachments on disk
    suite,    \* v1: cases of the suite
    current,  \* v1: currentState, the case that attachments and EndCase go to
    onDisk,   \* v1: "no", "written" or "lost"
    handed    \* history, v1: the cases processed so far

tree    == <<arrays, ptr, result>>
v1Vars  == <<suite, current, onDisk, handed>>
vars    == <<format, case, todo, ret, tree, files, v1Vars>>

Nil     == [a |-> 0, n |-> 0]
NewStep(name) == [name |-> name, status |-> "unknown", steps |-> Nil, atts |-> {}]

Init ==
    /\ format \in {"v1", "v2"} /\ case = <<>> /\ todo = <<>> /\ ret = "idle"
    /\ arrays = <<>> /\ ptr = <<>> /\ result = [steps |-> Nil, status |-> "unknown"]
    /\ files = {} /\ suite = <<>> /\ current = 0 /\ onDisk = "no" /\ handed = <<>>

-----------------------------------------------------------------------------
(* The calls of Allure2Output                                              *)

StartStep(v, name)        == <<[op |-> "step", var |-> v, name |-> name]>>
StartSubStep(v, up, name) == <<[op |-> "substep", var |-> v, up |-> up, name |-> name]>>
Finish(v, status)         == <<[op |-> "finish", var |-> v, status |-> status]>>
Attach(v)                 == <<[op |-> "attach", var |-> v]>>

If(p, calls)   == IF p THEN calls ELSE <<>>
Verdict(bad)   == IF bad THEN "failed" ELSE "passed"
Each(Op(_), s) == LET upTo[n \in 0..Len(s)] == IF n = 0 THEN <<>> ELSE upTo[n - 1] \o Op(s[n])
                  IN  upTo[Len(s)]

AllureStatus(errors) == Verdict(errors # <<>>)

\* The errors of a category with an identifier, by their indexes.  Errors that are of
\* neither kind count as errors of the body.
Category(e) == CASE e.kind = "check" -> e.cat [] e.kind = "mock" -> "mock" [] OTHER -> "body"
categorizeErrors(errors, cat, id) ==
    SelectSeq([i \in DOMAIN errors |-> i],
              LAMBDA i : Category(errors[i]) = cat /\ errors[i].id = id)
Has(errors, cat) == \E i \in DOMAIN errors : Category(errors[i]) = cat

\* The services of the test in the order of their names, and the endpoints of one.
extractMocksInfo(c) == CHOOSE names \in [1..Cardinality(DOMAIN c.mocks) -> DOMAIN c.mocks] :
                           \A i, j \in DOMAIN names : i < j => names[i] < names[j]
extractEndpoints(d) ==
    CASE d.strategy \in {"uriVary", "methodVary"} -> [i \in DOMAIN d.keys |-> <<d.keys[i]>>]
      [] d.strategy = "basedOnRequest" -> [i \in DOMAIN d.keys |-> <<"case", d.keys[i]>>]
      [] d.strategy = "sequence" -> [i \in DOMAIN d.keys |-> <<"step", d.keys[i]>>]
      [] OTHER -> <<<<"/">>>>

addPreparationStep(c) ==
    LET services == extractMocksInfo(c)
        Brief(s) == StartSubStep("serviceStep", "mocksStep", <<"brief", s>>)
                    \o Finish("serviceStep", "passed")
    IN  If(c.fixtures \/ services # <<>>,
           StartStep("prepStep", <<"preparation">>)
           \o If(c.fixtures, StartSubStep("fixtureStep", "prepStep", <<"fixtures">>)
                             \o Finish("fixtureStep", "passed"))
           \o If(services # <<>>, StartSubStep("mocksStep", "prepStep", <<"mocks set up">>)
                                  \o Each(Brief, services) \o Finish("mocksStep", "passed"))
           \o Finish("prepStep", "passed"))

addRequestStep(c) ==
    StartStep("requestStep", <<"request">>)
    \o Each(LAMBDA kind : If(kind \in c.sent, Attach("requestStep")),
            <<"body", "headers", "cookies">>)
    \o Finish("requestStep", "passed")

addResponseVerificationStep(c) ==
    LET bad(cat) == Verdict(Has(c.errors, cat)) IN
    StartStep("responseStep", <<"response">>)
    \o StartSubStep("statusStep", "responseStep", <<"status_code">>)
    \o Finish("statusStep", bad("status_code"))
    \o StartSubStep("bodyStep", "responseStep", <<"body">>)
    \o If(c.body, Attach("bodyStep")) \o Finish("bodyStep", bad("body"))
    \o If(c.wantHeaders, StartSubStep("headerStep", "responseStep", <<"header">>)
                         \o If(c.headers, Attach("headerStep"))
                         \o Finish("headerStep", bad("header")))
    \o Finish("responseStep",
              Verdict(\E cat \in {"status_code", "body", "header"} : Has(c.errors, cat)))

\* The calls for query i; queries are numbered as in the identifiers of their errors.
StartQuery(c, v, i) ==
    StartSubStep(v, "dbStep", <<"query", i>>) \o Attach(v) \o If(c.queries[i], Attach(v))
FinishQuery(c, v, i) ==
    Finish(v, Verdict(categorizeErrors(c.errors, "database", i) # <<>>))

\* Mutant of addDatabaseVerificationStep: the steps of all queries are finished together.
addDatabaseVerificationStepLate(c) ==
    LET n == [i \in DOMAIN c.queries |-> i] IN
    If(n # <<>>,
       StartStep("dbStep", <<"database">>)
       \o Each(LAMBDA i : StartQuery(c, ToString(i), i), n)
       \o Each(LAMBDA i : FinishQuery(c, ToString(i), i), n)
       \o Finish("dbStep", Verdict(Has(c.errors, "database"))))

addDatabaseVerificationStep(c) ==
    LET n == [i \in DOMAIN c.queries |-> i] IN
    If(n # <<>>,
       StartStep("dbStep", <<"database">>)
       \o Each(LAMBDA i : StartQuery(c, "dbQueryStep", i) \o FinishQuery(c, "dbQueryStep", i), n)
       \o Finish("dbStep", Verdict(Has(c.errors, "database"))))

FromSlash(p) == LET slash == {i \in DOMAIN p : p[i] \in URIs}
                IN  IF slash = {} THEN <<>> ELSE SubSeq(p, Min(slash), Len(p))

\* Mutant of extractURIFromPath: any index is that of a step.
extractURIFromPathSteps(p) ==
    CASE p # <<>> /\ p[1] \in {"uriVary", "methodVary"} -> Tail(p)
      [] Len(p) = 2 /\ p[1] \in {"basedOnRequest", "sequence"} -> <<"step", p[2]>>
      [] OTHER -> FromSlash(p)

\* The text after the prefix, the name of the case or step, or what follows the first
\* slash; <<>> stands for the empty string.  A text is the sequence of its parts.
extractURIFromPath(p) ==
    CASE p # <<>> /\ p[1] \in {"uriVary", "methodVary"} -> Tail(p)
      [] Len(p) = 2 /\ p[1] = "basedOnRequest"       -> <<"case", p[2]>>
      [] Len(p) = 2 /\ p[1] = "sequence"             -> <<"step", p[2]>>
      [] OTHER -> FromSlash(p)

groupErrorsByEndpoint(errors, es, endpoint) ==
    SelectSeq(es, LAMBDA i : endpoint = IF errors[i].path = NoPath THEN <<>>
                                        ELSE extractURIFromPath(errors[i].path))

ErrStep(up, i) == StartSubStep("errStep", up, <<"error", i>>) \o Finish("errStep", "failed")

\* The errors of the listed endpoints, then those without an endpoint, under step up.
Grouped(c, s, up) ==
    LET Of(ep) == groupErrorsByEndpoint(c.errors, categorizeErrors(c.errors, "mock", s), ep)
        Err(i) == ErrStep("endpointStep", i)
        Endpoint(ep) == If(Of(ep) # <<>>, StartSubStep("endpointStep", up, <<"endpoint", ep>>)
                                          \o Each(Err, Of(ep)) \o Finish("endpointStep", "failed"))
    IN  Each(Endpoint, extractEndpoints(c.mocks[s])) \o Each(LAMBDA i : ErrStep(up, i), Of(<<>>))

addEndpointGroupedErrors(c, s) == Grouped(c, s, "serviceStep")

\* Mutant of addStrategyGroupedErrors: only the errors of an endpoint count.
addStrategyGroupedErrorsUngrouped(c, s) ==
    LET calls == Grouped(c, s, "strategyStep")
        bad   == \E k \in DOMAIN calls : calls[k].op = "substep" /\ calls[k].var = "endpointStep"
    IN  StartSubStep("strategyStep", "serviceStep", <<"strategy">>)
        \o calls \o Finish("strategyStep", Verdict(bad))

addStrategyGroupedErrors(c, s) ==
    LET calls == Grouped(c, s, "strategyStep") IN
    StartSubStep("strategyStep", "serviceStep", <<"strategy">>)
    \o calls \o Finish("strategyStep", Verdict(calls # <<>>))

addMockVerificationSubsteps(c, s) ==
    LET es == categorizeErrors(c.errors, "mock", s) IN
    StartSubStep("serviceStep", "mockStep", <<"service", s>>)
    \o (CASE es = <<>> -> <<>>
          [] es # <<>> /\ c.mocks[s].strategy \in {"uriVary", "methodVary"} ->
                addEndpointGroupedErrors(c, s)
          [] es # <<>> /\ c.mocks[s].strategy \in {"sequence", "basedOnRequest"} ->
                addStrategyGroupedErrors(c, s)
          [] OTHER -> Each(LAMBDA i : ErrStep("serviceStep", i), es))
    \o Finish("serviceStep", Verdict(es # <<>>))

addMockVerificationStep(c) ==
    If(DOMAIN c.mocks # {},
       StartStep("mockStep", <<"mock">>)
       \o Each(LAMBDA s : addMockVerificationSubsteps(c, s), extractMocksInfo(c))
       \o Finish("mockStep", Verdict(Has(c.errors, "mock"))))

addVerificationSteps(c) ==
    addResponseVerificationStep(c) \o addDatabaseVerificationStep(c) \o addMockVerificationStep(c)

-----------------------------------------------------------------------------
(* Version 2: Process and the allure2 package                              *)

\* Process up to its first call of a step function: a new Result with its status.
Process(c) ==
    /\ format = "v2" /\ ret = "idle"
    /\ case' = c /\ ret' = "running"
    /\ todo' = addPreparationStep(c) \o addRequestStep(c) \o addVerificationSteps(c)
    /\ result' = [steps |-> Nil, status |-> AllureStatus(c.errors)]
    /\ UNCHANGED <<format, arrays, ptr, files, v1Vars>>

\* append(slice, step): in place while the array has room, else in a copy twice as
\* large.  The arrays afterwards, and the new slice.
GoAppend(slice, step) ==
    LET old  == IF slice.a = 0 THEN <<>> ELSE arrays[slice.a]
        room == slice.n < Len(old)
        cap  == IF slice.n = 0 THEN 1 ELSE 2 * slice.n
        copy == [i \in 1..cap |-> IF i <= slice.n THEN old[i] ELSE step]
    IN  IF room THEN [heap  |-> [arrays EXCEPT ![slice.a][slice.n + 1] = step],
                      slice |-> [a |-> slice.a, n |-> slice.n + 1]]
                ELSE [heap  |-> Append(arrays, copy),
                      slice |-> [a |-> Len(arrays) + 1, n |-> slice.n + 1]]

Call(op) == format = "v2" /\ ret = "running" /\ todo # <<>> /\ Head(todo).op = op

At(p) == arrays[p.a][p.n]

\* A local variable is used where it is in scope, after its assignment.
Assigned(v)  == v \in DOMAIN ptr
Assign(v, p) == ptr' = [w \in DOMAIN ptr \union {v} |-> IF w = v THEN p ELSE ptr[w]]

ResultStartStep ==
    LET new == GoAppend(result.steps, NewStep(Head(todo).name)) IN
    /\ Call("step")
    /\ arrays' = new.heap /\ result' = [result EXCEPT !.steps = new.slice]
    /\ Assign(Head(todo).var, new.slice)
    /\ todo' = Tail(todo)
    /\ UNCHANGED <<format, case, ret, files, v1Vars>>

StepStartSubStep ==
    LET up  == ptr[Head(todo).up]
        new == GoAppend(At(up).steps, NewStep(Head(todo).name))
    IN  /\ Call("substep") /\ Assigned(Head(todo).up)
        /\ arrays' = [new.heap EXCEPT ![up.a][up.n].steps = new.slice]
        /\ Assign(Head(todo).var, new.slice)
        /\ todo' = Tail(todo)
        /\ UNCHANGED <<format, case, ret, result, files, v1Vars>>

StepFinish ==
    LET p == ptr[Head(todo).var] IN
    /\ Call("finish") /\ Assigned(Head(todo).var)
    /\ arrays' = [arrays EXCEPT ![p.a][p.n].status = Head(todo).status]
    /\ todo' = Tail(todo)
    /\ UNCHANGED <<format, case, ret, ptr, result, files, v1Vars>>

\* Mutant of StepAddAttachment: the error of WriteFile is dropped.
StepAddAttachmentForgets(ok) ==
    LET p == ptr[Head(todo).var] IN
    /\ Call("attach") /\ Assigned(Head(todo).var)
    /\ files' = IF ok THEN files \cup {Len(todo)} ELSE files
    /\ arrays' = [arrays EXCEPT ![p.a][p.n].atts = @ \cup {Len(todo)}]
    /\ todo' = Tail(todo)
    /\ UNCHANGED <<format, case, ret, ptr, result, v1Vars>>

\* Step.AddAttachment: the file first, under a fresh name, then the reference to it.
\* When it cannot be written, every caller up to Process returns the error.
StepAddAttachment(ok) ==
    LET p == ptr[Head(todo).var] IN
    /\ Call("attach") /\ Assigned(Head(todo).var)
    /\ IF ok THEN /\ files' = files \cup {Len(todo)}
                  /\ arrays' = [arrays EXCEPT ![p.a][p.n].atts = @ \cup {Len(todo)}]
                  /\ todo' = Tail(todo) /\ ret' = ret
             ELSE todo' = <<>> /\ ret' = "error" /\ UNCHANGED <<files, arrays>>
    /\ UNCHANGED <<format, case, ptr, result, v1Vars>>

\* Finish and Save: the Result on disk is the tree reachable from its slice.
Save(ok) ==
    /\ format = "v2" /\ ret = "running" /\ todo = <<>>
    /\ ret' = IF ok THEN "nil" ELSE "error"
    /\ UNCHANGED <<format, case, todo, tree, files, v1Vars>>

\* Process has returned; nothing of the Result is kept for the next test.
Returned ==
    /\ format = "v2" /\ ret \in {"nil", "error"}
    /\ ret' = "idle" /\ case' = <<>> /\ arrays' = <<>> /\ ptr' = <<>> /\ files' = {}
    /\ result' = [steps |-> Nil, status |-> "unknown"]
    /\ UNCHANGED <<format, todo, v1Vars>>

-----------------------------------------------------------------------------
(* Version 1: AllureReportOutput.Process and the Allure type               *)

\* Mutant of StartCase: the case of the first test stays the current one.
StartCaseKeepsCurrent(c) ==
    /\ format = "v1" /\ ret = "idle" /\ onDisk = "no" /\ Len(handed) < MaxCases
    /\ case' = c /\ ret' = "running"
    /\ suite' = Append(suite, [status |-> "none", atts |-> 0])
    /\ current' = IF current = 0 THEN Len(suite') ELSE current
    /\ todo' = [i \in 1..(2 + 2 * Len(c.queries)) |-> Attach("")[1]]
    /\ UNCHANGED <<format, tree, files, onDisk, handed>>

\* Process up to its first attachment: StartCase.  Two attachments for the request and
\* the response, two for each query.
StartCase(c) ==
    /\ format = "v1" /\ ret = "idle" /\ onDisk = "no" /\ Len(handed) < MaxCases
    /\ case' = c /\ ret' = "running"
    /\ suite' = Append(suite, [status |-> "none", atts |-> 0])
    /\ current' = Len(suite')
    /\ todo' = [i \in 1..(2 + 2 * Len(c.queries)) |-> Attach("")[1]]
    /\ UNCHANGED <<format, tree, files, onDisk, handed>>

\* Allure.AddAttachment refers to the file whether or not it could be written.
AllureAddAttachment ==
    /\ format = "v1" /\ ret = "running" /\ todo # <<>>
    /\ suite' = [suite EXCEPT ![current].atts = @ + 1]
    /\ todo' = Tail(todo)
    /\ UNCHANGED <<format, case, ret, tree, files, current, onDisk, handed>>

EndCase ==
    /\ format = "v1" /\ ret = "running" /\ todo = <<>>
    /\ suite' = [suite EXCEPT ![current].status = AllureStatus(case.errors)]
    /\ handed' = Append(handed, [status |-> AllureStatus(case.errors),
                                 atts |-> 2 + 2 * Len(case.queries)])
    /\ ret' = "idle" /\ case' = <<>>
    /\ UNCHANGED <<format, todo, tree, files, current, onDisk>>

\* EndSuite: a suite without cases is not written, and an error is dropped.
Finalize(ok) ==
    /\ format = "v1" /\ ret = "idle" /\ onDisk = "no"
    /\ onDisk' = IF ok /\ suite # <<>> THEN "written" ELSE "lost"
    /\ UNCHANGED <<format, case, todo, ret, tree, files, suite, current, handed>>

Next ==
    \/ \E c \in Cases : Process(c)
    \/ \E c \in Cases1 : StartCase(c)
    \/ ResultStartStep \/ StepStartSubStep \/ StepFinish \/ Returned
    \/ \E ok \in BOOLEAN : StepAddAttachment(ok) \/ Save(ok) \/ Finalize(ok)
    \/ AllureAddAttachment \/ EndCase
    \/ onDisk # "no" /\ UNCHANGED vars

Spec == Init /\ [][Next]_vars
-----------------------------------------------------------------------------
(* Properties                                                              *)

\* The steps of a slice, and those at any depth below it: no step is deeper than an
\* error of an endpoint of a strategy of a service of mockStep.
Cells(slice) == {arrays[slice.a][i] : i \in 1..slice.n}
Below(x)     == Cells(x.steps)
BelowAll(X)  == UNION {Below(x) : x \in X}
Steps(slice) ==
    LET top       == Cells(slice)
        services  == BelowAll(top)
        groups    == BelowAll(services)
        endpoints == BelowAll(groups)
    IN  top \cup services \cup groups \cup endpoints \cup BelowAll(endpoints)

Saved    == format = "v2" /\ ret = "nil"
Failed(name) == \E x \in Steps(result.steps) : x.name = name /\ x.status = "failed"

\* Every step of a saved result was finished: no status was written through a pointer
\* into an array that append had already replaced (StartStep, StartSubStep).
StepsFinished ==
    Saved => \A x \in Steps(result.steps) : x.status # "unknown"

\* Every error of a failed test shows in its result: a mock error as a failed step of
\* its own, any other as a failed check of its kind.  Excepted are the errors of a
\* service the test defines no mock for, and of a definition inside a branch of
\* another branch, which addEndpointGroupedErrors and addStrategyGroupedErrors drop.
ErrorsShown ==
    Saved => \A i \in DOMAIN case.errors :
        LET e == case.errors[i] IN
        CASE e.kind = "mock" ->
                e.id \in DOMAIN case.mocks /\ Len(e.path) <= 2 => Failed(<<"error", i>>)
          [] Category(e) = "database" -> Failed(<<"query", e.id>>) /\ Failed(<<"database">>)
          [] OTHER -> Failed(<<Category(e)>>) /\ Failed(<<"response">>)

\* A step fails only for a reason: it has a failed substep, or it is a check or an
\* error of the result, or a service with errors; and a failed substep fails its step
\* and the result.
FailuresJustified ==
    Saved => \A x \in Steps(result.steps) :
        /\ x.status = "failed" => result.status = "failed"
        /\ (\E y \in Below(x) : y.status = "failed") => x.status = "failed"
        /\ x.status = "failed" /\ (\A y \in Below(x) : y.status # "failed") =>
             CASE x.name[1] = "error"   -> x.name[2] \in DOMAIN case.errors
               [] x.name[1] = "query"   -> \E i \in DOMAIN case.errors :
                                              case.errors[i] = CheckError("database", x.name[2])
               [] x.name[1] = "service" -> \E i \in DOMAIN case.errors :
                      case.errors[i].kind = "mock" /\ case.errors[i].id = x.name[2]
               [] OTHER -> Has(case.errors, x.name[1])

\* Every attachment a saved result refers to is on disk (Step.AddAttachment).
AttachmentsOnDisk ==
    Saved => \A x \in Steps(result.steps) : x.atts \subseteq files

\* A suite on disk has, in order, one case for each test handed to the output, with
\* the verdict and the attachments of that test (StartCase, AddAttachment, EndCase).
SuiteTellsAll ==
    onDisk = "written" => suite = handed
=============================================================================
