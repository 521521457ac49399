------------------------------- MODULE Runner -------------------------------
(***************************************************************************)
(* The run loop: Runner.Run, buildTestExecutor and executeTest, the two    *)
(* handlers (ConsoleHandler of the command line, testingHandler of         *)
(* RunWithTesting), the outputs, and what main and RunWithTesting do when  *)
(* Run returns.  What the stages of a test do to mocks and variables is in *)
(* ServiceMock, GrpcMock and Variables; here they succeed or fail.         *)
(***************************************************************************)
EXTENDS Integers, Sequences, FiniteSets

CONSTANTS
    NTests,     \* tests the loader returns
    NCheckers,  \* checkers added to the runner
    Allure      \* Allure formats to choose from: subset of {"none", "v1", "v2"}

ASSUME ConstAssumption ==
    NTests \in Nat /\ NCheckers \in Nat /\ Allure \subseteq {"none", "v1", "v2"}

Test   == 1..NTests
Status == {"", "focus", "broken", "skipped"}
Key    == {"", "http", "grpc", "ftp"}

\* executeTest up to the checkers.
Pipeline == <<"fixtures", "fixturesMultiDb", "mocks", "grpcMocks", "beforeScript",
              "transport", "execute", "afterRequestScript", "endMocks", "variables">>

VARIABLES
    handler,     \* "console" or "testing"
    allure,      \* Allure format in use
    written,     \* history: statuses as written in the YAML files
    status,      \* statuses of the tests, which Run overwrites
    pc,          \* where Run is
    at,          \* stage of the pipeline, checker or output reached
    test,        \* the test being run
    errs,        \* the result of the test holds errors
    err,         \* what the executor returned: nil, skipped, broken, failure
    key,         \* its transport
    transports,  \* keys of Runner.transports
    open,        \* those whose executor may hold a connection
    processed,   \* processed[o]: tests handed to output o, in order
    report,      \* tests whose Allure result is on disk
    finalized,   \* history: Finalize was called and has written its suite, or lost it
    counters,    \* of ConsoleHandler
    sub,         \* outcome of the subtest of each test (testing)
    exit,        \* exit code of the process; -1: running
    ran, bad     \* history: tests executed; tests whose result holds errors

runVars  == <<pc, at, test, errs, err>>
connVars == <<key, transports, open>>
outVars  == <<processed, report, finalized>>
endVars  == <<counters, sub, exit>>
inVars   == <<handler, allure, written>>
hist     == <<ran, bad>>
vars     == <<inVars, status, runVars, connVars, outVars, endVars, hist>>

\* The outputs in the order they are added; output 1 is console or testing.
Output == IF allure = "none" THEN 1..1 ELSE 1..2

Init ==
    /\ handler \in {"console", "testing"} /\ allure \in Allure
    /\ written \in [Test -> Status] /\ status = written
    /\ pc = "load" /\ at = 0 /\ test = 0 /\ errs = FALSE /\ err = "nil"
    /\ key = "" /\ transports = {} /\ open = {}
    /\ processed = [o \in 1..2 |-> <<>>] /\ report = {} /\ finalized = "no"
    /\ counters = [total |-> 0, failed |-> 0, skipped |-> 0, broken |-> 0]
    /\ sub = [t \in Test |-> "none"] /\ exit = -1
    /\ ran = {} /\ bad = {}

-----------------------------------------------------------------------------
(* Run                                                                     *)

\* loader.Load, which may fail before anything has been deferred.
Load ==
    /\ pc = "load"
    /\ \/ pc' = "next" /\ err' = err
       \/ pc' = "returned" /\ err' = "failure"
    /\ UNCHANGED <<inVars, status, at, test, errs, connVars, outVars, endVars, hist>>

HasFocused == \E t \in Test : written[t] = "focus"

\* Mutant of Rewritten: tests without a status still run when one is focused.
RewrittenFocusOnly(st) ==
    IF HasFocused /\ st = "focus" THEN "" ELSE st

\* The status a test runs with.
Rewritten(st) ==
    CASE ~HasFocused \/ st = "broken" -> st
      [] HasFocused /\ st = "focus" -> ""
      [] OTHER -> "skipped"

\* The next iteration, up to the check of the status in the executor.
TakeTest ==
    LET t  == test + 1
        st == Rewritten(status[t])
    IN  /\ pc = "next" /\ test < NTests
        /\ test' = t /\ status' = [status EXCEPT ![t] = st]
        /\ errs' = FALSE
        /\ IF st \in {"broken", "skipped"}
           THEN pc' = "handle" /\ err' = st /\ at' = 0 /\ ran' = ran
           ELSE pc' = "stage" /\ err' = "nil" /\ at' = 1 /\ ran' = ran \cup {t}
        /\ UNCHANGED <<inVars, connVars, outVars, endVars, bad>>

Advance ==
    IF at = Len(Pipeline) THEN pc' = "check" /\ at' = 1 ELSE pc' = pc /\ at' = at + 1

\* A stage that does its work, or has none.
Stage ==
    /\ pc = "stage" /\ Pipeline[at] \notin {"transport", "execute", "endMocks"}
    /\ Advance
    /\ UNCHANGED <<inVars, status, test, errs, err, connVars, outVars, endVars, hist>>

\* Any of them may return an error instead.
StageError ==
    /\ pc = "stage" /\ Pipeline[at] \notin {"transport", "execute", "endMocks"}
    /\ pc' = "handle" /\ err' = "failure"
    /\ UNCHANGED <<inVars, status, at, test, errs, connVars, outVars, endVars, hist>>

\* getTransportExecutor: one executor per transport, created at its first use.
GetTransportExecutor(k) ==
    /\ pc = "stage" /\ Pipeline[at] = "transport"
    /\ key' = k
    /\ IF k = "ftp"
       THEN pc' = "handle" /\ err' = "failure" /\ UNCHANGED <<at, transports>>
       ELSE Advance /\ transports' = transports \cup {k} /\ err' = err
    /\ UNCHANGED <<inVars, status, test, errs, open, outVars, endVars, hist>>

\* transport.Execute; a gRPC executor keeps its connection for later tests, and may
\* have opened it although the call failed.
Execute ==
    /\ pc = "stage" /\ Pipeline[at] = "execute"
    /\ \/ Advance /\ err' = err
          /\ open' = IF key = "grpc" THEN open \cup {key} ELSE open
       \/ pc' = "handle" /\ err' = "failure" /\ at' = at
          /\ open' \in IF key = "grpc" THEN {open, open \cup {key}} ELSE {open}
    /\ UNCHANGED <<inVars, status, test, errs, key, transports, outVars, endVars, hist>>

\* Mocks.EndRunningContext: its errors go into the result.
EndMocks(found) ==
    /\ pc = "stage" /\ Pipeline[at] = "endMocks"
    /\ Advance
    /\ errs' = found /\ bad' = IF found THEN bad \cup {test} ELSE bad
    /\ UNCHANGED <<inVars, status, test, err, connVars, outVars, endVars, ran>>

\* The next checker adds the errors it finds.
Check(found) ==
    /\ pc = "check" /\ at <= NCheckers
    /\ errs' = (errs \/ found) /\ bad' = IF found THEN bad \cup {test} ELSE bad
    /\ at' = at + 1
    /\ UNCHANGED <<inVars, status, pc, test, err, connVars, outVars, endVars, ran>>

CheckError ==
    /\ pc = "check" /\ at <= NCheckers
    /\ pc' = "handle" /\ err' = "failure"
    /\ UNCHANGED <<inVars, status, at, test, errs, connVars, outVars, endVars, hist>>

Checked ==
    /\ pc = "check" /\ at > NCheckers
    /\ pc' = "output" /\ at' = 1
    /\ UNCHANGED <<inVars, status, test, errs, err, connVars, outVars, endVars, hist>>

\* The next output.  Allure v1 collects cases for Finalize, v2 saves each at once.
Process ==
    /\ pc = "output" /\ at \in Output
    /\ processed' = [processed EXCEPT ![at] = Append(@, test)]
    /\ report' = IF at = 2 /\ allure = "v2" THEN report \cup {test} ELSE report
    /\ at' = at + 1
    /\ UNCHANGED <<inVars, status, pc, test, errs, err, connVars, finalized, endVars, hist>>

\* Allure v1 never fails.
ProcessError ==
    /\ pc = "output" /\ at \in Output /\ ~(at = 2 /\ allure = "v1")
    /\ pc' = "handle" /\ err' = "failure"
    /\ UNCHANGED <<inVars, status, at, test, errs, connVars, outVars, endVars, hist>>

Processed ==
    /\ pc = "output" /\ at \notin Output
    /\ pc' = "handle"
    /\ UNCHANGED <<inVars, status, at, test, errs, err, connVars, outVars, endVars, hist>>

-----------------------------------------------------------------------------
(* The handlers                                                            *)

\* The counters after a test that did not fail to run.
Counted(c) ==
    [total   |-> c.total + 1,
     failed  |-> IF err = "nil" /\ errs THEN c.failed + 1 ELSE c.failed,
     skipped |-> IF err = "skipped" THEN c.skipped + 1 ELSE c.skipped,
     broken  |-> IF err = "broken" THEN c.broken + 1 ELSE c.broken]

\* ConsoleHandler.HandleTest
HandleConsole ==
    /\ pc = "handle" /\ handler = "console"
    /\ IF err = "failure" THEN pc' = "close" /\ UNCHANGED counters
                          ELSE pc' = "next" /\ counters' = Counted(counters)
    /\ UNCHANGED <<inVars, status, at, test, errs, err, connVars, outVars, sub, exit, hist>>

\* Mutant of Outcome: a subtest that could be run passes.
OutcomeIgnoresResult ==
    CASE err \in {"skipped", "broken"} -> "skip"
      [] err = "failure" -> "fail"
      [] OTHER -> "pass"

\* What becomes of the subtest.
Outcome ==
    CASE err \in {"skipped", "broken"} -> "skip"
      [] err = "failure" -> "fail"
      [] OTHER -> IF errs THEN "fail" ELSE "pass"

\* Mutant of HandleTesting: the error stays in the subtest.
HandleTestingForgets ==
    /\ pc = "handle" /\ handler = "testing"
    /\ sub' = [sub EXCEPT ![test] = Outcome]
    /\ pc' = "next"
    /\ UNCHANGED <<inVars, status, at, test, errs, err, connVars, outVars, counters, exit, hist>>

\* testingHandler.HandleTest: t.Run waits for the subtest; an error is handed on.
HandleTesting ==
    /\ pc = "handle" /\ handler = "testing"
    /\ sub' = [sub EXCEPT ![test] = Outcome]
    /\ pc' = IF err = "failure" THEN "close" ELSE "next"
    /\ UNCHANGED <<inVars, status, at, test, errs, err, connVars, outVars, counters, exit, hist>>

Done ==
    /\ pc = "next" /\ test = NTests
    /\ pc' = "close" /\ err' = "nil"
    /\ UNCHANGED <<inVars, status, at, test, errs, connVars, outVars, endVars, hist>>

\* The deferred function of Run.
Close ==
    /\ pc = "close"
    /\ pc' = "returned" /\ open' = {}
    /\ UNCHANGED <<inVars, status, at, test, errs, err, key, transports, outVars, endVars, hist>>

\* The tests handed to the Allure output.
Handed == {processed[2][k] : k \in DOMAIN processed[2]}

\* AllureReportOutput.Finalize writes the suite with all its cases; the error of
\* EndSuite is dropped, and so was that of making the directory.  With v2 there is
\* nothing left to do.
Finalize ==
    IF allure = "v1"
    THEN \/ finalized' = "written" /\ report' = Handed
         \/ finalized' = "lost" /\ report' = report
    ELSE finalized' = "written" /\ report' = report

\* main: log.Fatal on an error, else Finalize, Summary and the exit code.
Main ==
    /\ pc = "returned" /\ handler = "console"
    /\ pc' = "end"
    /\ IF err = "failure" THEN exit' = 1 /\ UNCHANGED <<report, finalized>>
       ELSE exit' = (IF counters.failed = 0 THEN 0 ELSE 1) /\ Finalize
    /\ UNCHANGED <<inVars, status, at, test, errs, err, connVars, processed, counters, sub, hist>>

\* Mutant of RunWithTesting: Finalize is not deferred.
RunWithTestingNoDefer ==
    /\ pc = "returned" /\ handler = "testing"
    /\ pc' = "end"
    /\ exit' = IF err = "failure" \/ \E t \in Test : sub[t] = "fail" THEN 1 ELSE 0
    /\ IF err = "failure" THEN UNCHANGED <<report, finalized>> ELSE Finalize
    /\ UNCHANGED <<inVars, status, at, test, errs, err, connVars, processed, counters, sub, hist>>

\* RunWithTesting: t.Fatal on an error; Finalize is deferred.
RunWithTesting ==
    /\ pc = "returned" /\ handler = "testing"
    /\ pc' = "end"
    /\ exit' = IF err = "failure" \/ \E t \in Test : sub[t] = "fail" THEN 1 ELSE 0
    /\ Finalize
    /\ UNCHANGED <<inVars, status, at, test, errs, err, connVars, processed, counters, sub, hist>>

Step ==
    \/ Load \/ TakeTest \/ Stage \/ StageError \/ Execute
    \/ \E k \in Key : GetTransportExecutor(k)
    \/ \E found \in BOOLEAN : EndMocks(found) \/ Check(found)
    \/ CheckError \/ Checked \/ Process \/ ProcessError \/ Processed
    \/ HandleConsole \/ HandleTesting \/ Done \/ Close \/ Main \/ RunWithTesting

Next == Step \/ (pc = "end" /\ UNCHANGED vars)

Spec     == Init /\ [][Next]_vars
-----------------------------------------------------------------------------
(* Properties                                                              *)

\* README.md:380: with a focused test only focused tests are executed, otherwise all
\* but the broken and skipped ones; in particular the rewriting of one status does
\* not change what the loop decides about a later test (Runner.Run).
FocusRespected ==
    \A t \in ran : IF HasFocused THEN written[t] = "focus"
                   ELSE written[t] \notin {"broken", "skipped"}

\* Exit code 0, or a passed test function, is earned: every test that was meant to
\* run was executed, has no errors in its result and reached every output.
GreenIsEarned ==
    exit = 0 =>
        /\ bad = {}
        /\ \A t \in Test \ ran : Rewritten(written[t]) \in {"broken", "skipped"}
        /\ \A o \in Output : \A t \in ran : \E k \in DOMAIN processed[o] : processed[o][k] = t

\* Every result handed to the Allure output is on disk at the end.  A suite of version
\* 1 is missing, as a whole, only when main was ended by log.Fatal or when writing it
\* failed in Finalize; a run that stops at a test it could not run loses nothing else.
ReportComplete ==
    exit # -1 => \/ report = Handed
                 \/ /\ allure = "v1" /\ report = {}
                    /\ (handler = "console" /\ err = "failure") \/ finalized = "lost"

\* The test is still in the hands of executeTest or of the handler.
InProgress == pc \in {"stage", "check", "output", "handle"}

\* What has become of test t.
VerdictOf(t) ==
    IF t > test \/ (t = test /\ InProgress) THEN "waiting"
    ELSE IF t \notin ran THEN "skipped"
    ELSE IF t = test /\ err = "failure" THEN "error"
    ELSE IF t \in bad THEN "failed" ELSE "passed"

Promise == INSTANCE TestRun WITH verdict <- [t \in Test |-> VerdictOf(t)]

\* Run, its handlers and its two callers keep the promise of TestRun, whatever stage
\* of whatever test fails: tests are judged in order and as their written statuses
\* ask for, nothing runs after a test that could not be run, and the exit code is 0
\* exactly when all were judged and none failed.
KeepsPromise == Promise!Spec
=============================================================================
