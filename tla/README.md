# TLA+ specifications of gonkey

gonkey runs API tests described in YAML: for every test it loads fixtures,
sets up mock servers (HTTP and gRPC), runs scripts, sends a request over HTTP or
gRPC, takes variables from the response, and hands the result to checkers and
outputs. The specifications here model what is stateful or concurrent in that:
the mock servers under concurrent requests, the runner that drives them, the
variables, the shared gRPC connections, the scripts, the SQL and Redis fixtures,
the comparison and the checkers that decide a test, and the Allure reports that
tell of it. Paths are relative to `src/`.

## The system

| Part | State | Operations | Module |
|---|---|---|---|
| HTTP mocks (`mocks/`) | definition trees with counters, errors, one lock per service | serve a request, reset, load, end of the running context | `ServiceMock` |
| gRPC mocks (`mocks/grpc/`) | `sync.Map` of definitions, recorded requests, errors | serve a call, reset, load | `GrpcMock` |
| Runner, handlers, `main`, `RunWithTesting` (`runner/`, `main.go`) | statuses, transports, counters, outputs | the run loop, the stages of `executeTest`, the two handlers, the end of the run | `Runner`, which implements `TestRun` |
| Variables and YAML cases (`variables/`, `testloader/yaml_file/`) | variables of the run, maps shared by the cases | make tests of cases, load, substitute, set from the response | `Variables` |
| gRPC transport (`runner/grpc_transport.go`, `getTransportExecutor`) | executors, connection, descriptor cache | look up, dial, parse, invoke, close | `GrpcTransport` |
| Scripts (`cmd_runner/`) | process, pipe, timer, goroutine in `Wait` | `CmdRun` | `CmdRunner` |
| SQL fixtures (`fixtures/postgres`, `fixtures/mysql`) | the files and references of a load, the database, its sequences | gather, truncate, insert, repair sequences, commit | `SqlFixtures` |
| Redis fixtures (`fixtures/redis`) | nested calls of the parser, names with their records, the databases | parse a file and what it inherits, build templates and records, one pipeline per database | `RedisFixtures` |
| Comparison (`compare/`) | none | `Compare`, `Query` | `Compare` |
| Checkers (`checker/`) | errors and database results of a test | one check per checker and per query | `Checkers` |
| Allure outputs (`output/allure_report/`) | slices of steps and pointers into them, attachments on disk, the suite | start, finish and attach, save; start and end a case, finalize | `AllureReport` |
| Aerospike fixtures, console output, request building, OpenAPI addon | mostly pure, or I/O | | not modelled, see below |

How they interact. `Runner.executeTest` is the only driver: it resets and loads
the mocks (`setupMocks`), then the service under test sends requests to the mocks
*while* and possibly *after* the runner waits for its answer; nothing ties a
request to the test that caused it. The specifications therefore let requests
arrive at any time, also during resets and after the verdict.

What makes it hard to test: requests interleave with resets and with collecting
errors; a test may abort after some mocks have been loaded; counters live in a
tree of definitions and are reset recursively; gRPC calls hold no lock; maps are
shared between the cases of a test; the timer of a script races with its end; one
of several outputs may fail. `PROJECT.json` lists these hazards at their lines.

## Modules

### ServiceMock

State: `mock`, `errors` and the lock of `ServiceMock`; `calls` of every
`Definition`; `count` of every `sequentialReply`. `Tree` gives for each definition
its strategy, its nested definitions and its constraints, a constraint being the set of requests
that violate it. `cur[s]` is the request that holds the lock of service `s`, with
a cursor into the tree; each step of `Serve` executes one definition
(`Execute` or `ExecuteWithoutVerifying`) and either answers or moves the cursor.
The runner's loops over Go maps visit the services in any order, one lock
acquisition per step. `EndRunningContext` returns a slice that may share its array
with `m.errors`; `Overwrite` models what a request does to it before
`Mocks.EndRunningContext` has copied it; one element `constraint` of the set of errors
stands for all that a request violates at a definition, so `Repeats` tells when the
slice may be longer than the set. `log`, `stamp` and `reply`, the answer to each
request, are history.

The steps of different services interleave, and so do requests with the runner.
Within one service the lock makes requests sequential, as in `ServeHTTP`.

### GrpcMock

A call is four steps (`Lookup`, `RecvError` or `Record`, `Answer`), a reset is
one step per key `Range` visits and one for the section under the mutex.
Definitions carry the test they were loaded for. The loader visits the entries in
any order and stops at the first it cannot convert, leaving the others in place.
The branch of the handler for a stream without a method is left out: gRPC hands it
no such stream.

### Runner

One action per stage of `executeTest`; a stage succeeds or fails. `Run` rewrites
the statuses while it iterates, both handlers, `Finalize` and the exit code are
modelled. `Finalize` writes the suite of an Allure v1 report or loses it, because it
drops the error of `EndSuite`. `ran`, `bad` and `finalized` are history.

`TestRun` is what a run promises to the reader of its exit code: tests are judged
in order, each as its written status and those of the others ask for, a test that
could not be run ends the run, and exit code 0 means that all were judged and none
failed. It knows neither stages nor handlers, rewritten statuses or outputs.
`Runner` implements it under the mapping `verdict[t] <- VerdictOf(t)`: a test has
its verdict when the handler has returned, so that the stages, checks and outputs
of a test are stuttering steps (`KeepsPromise`).

### Variables

A field of a test is one placeholder. `Perform` replaces it only while it is a
placeholder, which is why the two passes of `Apply` around the request matter.
`combined` and `mock` are indexed by definition and not by test, because
`CombinedVariables` and the nested maps of the mocks are shared by the cases.
`MakeTestsError` stands for a case whose arguments do not fit a template, and for
the panic on a variable that is not a string; the substitution itself is pure data.

### GrpcTransport

The steps of `getTransportExecutor`, `getConn` and `buildDescriptorSource` between
two lock operations; `Invocations` is what `grpcurl` returns. Executions may
overlap, although the handlers of the package are sequential: the mutexes and the
`sync.Map` are there for that, and the model shows what they give.
`overlapped` tells the two situations apart. There are two types of descriptor
source; the loader refuses a third (parser.go:76).

### CmdRunner

The script, the kernel (pipe, signal, reaping) and the timer are the environment;
`CmdRun` and the goroutine in `Wait` are the program. A script may close its output
before it ends, and may write a line that is too long for `bufio.Scanner`, which then
stops (`TooLong`). An exec'd child that keeps the pipe open is not modelled.

### SqlFixtures

Both loaders in one module: `dialect` tells PostgreSQL (all tables truncated in one
statement, one insert per table, sequences repaired, one transaction) from MySQL
(truncate by table, insert by row, read the row back). Files are opened, inherited,
and their templates and tables gathered one per step, in the order of `loadYml`;
the definitions for gathering and for references stand for both loaders, whose
code is the same there, and the map names the lines of one of them. Every
statement may fail, and a reference of fewer than five characters panics
(`SlicePanics`). A reference gets what was read back of the row it names, not what was
stored: PostgreSQL's row comes as JSON and its numbers as `float64` (`Float`, exact up
to `MaxExact`), MySQL's NULL comes as text (`ReadBack`). That PostgreSQL's `TRUNCATE
... CASCADE` follows foreign keys from table to table (`Reaching`), that `setval` survives a rollback, and that MySQL's `TRUNCATE` commits
implicitly and restarts `AUTO_INCREMENT` are facts of the databases, not of the
repository, and are assumed; so is that an `id` of a MySQL table is
`AUTO_INCREMENT`: for another one `LastInsertId` is 0, and line 284 of the loader
fails or reads another row. `due` is history. `AppInsert` is an insert of the
tested application after a load.

### RedisFixtures

`stack` holds the nested calls of `ParseFiles` and `Parse`, each with its own cache
of file names, `refs` the records by name that later ones may extend. Databases and
records are taken in any order, the order of Go maps. A pipeline is one step that
may fail with none or some of its commands carried out; a refused command makes it
fail while the others are carried out. What commands do is Redis, and assumed; two
things more are assumed of it. `SELECT` is not refused: for a number out of the
server's range the commands after it in the pipeline would be carried out in the
database the connection is in. And the client does not send a broken pipeline again
by itself (`max_retries`, README.md:207, is off): without `FLUSHDB` a second sending
would add the elements of a list twice.
Fixtures are in one directory: with more, every name must exist in each of them,
because `ParseFiles` gives up at the first directory without the file.

The model shows what is not obvious from the code: a file with templates that is
inherited on two ways always fails with "duplicating ref name"; files that inherit
each other exhaust the stack; whether a record may extend one of its own file
depends on the order of a map; an extending record takes the expiration of its base
and loses its own. `RefusedForCause` lists all reasons for which a load can fail.

### AllureReport

Each function of `Allure2Output` is the list of calls it makes on the `allure2`
package, and the actions carry the calls out one by one on Go's data: `arrays` are
the arrays behind slices of steps, `ptr` the pointers that local variables hold, and
`GoAppend` copies an array that is full. Version 1 collects the cases of a suite
through `currentState`. `handed` is history. Errors of mocks carry the path of their
definition, from which `extractURIFromPath` takes the endpoint to group them by.
Two sorts of mock errors appear in no step, and `ErrorsShown` excepts them: those of
a definition inside a branch of another branch, whose endpoint is not listed by
`extractEndpoints`, and those of a service the test defines no mock for.

### Compare

`compareBranch` and its helpers as recursive operators over scalars, arrays, maps
and patterns; a regular expression is the set of scalars it accepts, a
`$matchArrayLen` its parsed parts. `Matches` is the reference: it pairs unordered
arrays by any bijection, where the code searches greedily.

### Checkers

The lists of checkers of the three entry points and one action per checker; the
database checkers take one step per query. A body or a row is a text with or
without a document; what it means for documents to agree is the subject of
`Compare`. `Stated` are the checks that reach the database at an entry point, `Asked`
the complete ones among them, and `Position` is a check's place among these. A query is run up
to its first `;`, and its answer may be any. Checkers passed by the caller are not
modelled.

## Runs

| Run | Shows | Bounds | Distinct states |
|---|---|---|---|
| `service_mock` | sequences in order, counters count the current running context, offenders and call mismatches end up in the result, nothing of an aborted test is left in the next, the run ends | 2 services, 2 tests of which the first cannot be loaded, 3 requests, all strategies | 107 k |
| `grpc_mock` | errors are exactly the mismatches among the recorded requests; calls use the definition of their test | 2 mocks, 2 methods, 4 tests, 2 calls | 217 k |
| `variables` | which value reaches request, mocks and checks, how long a set variable lasts | 2 definitions out of 42, 2 variables, every environment and answer | 556 k |
| `runner` | focus, exit code, reports, what an error stops; refinement of `TestRun` | 3 tests, 2 checkers, both handlers, three Allure settings | 255 k |
| `grpc_transport` | no connection is lost, one parse per file, nothing left open | 3 executions, 1 file | 566 k |
| `cmd_runner` | verdict, which scripts may be left running, `CmdRun` returns | 4 lines, pipe of 2, any one of the lines too long | 20 k |
| `sql_fixtures` | a load stores exactly what the files say, fails as a whole (PostgreSQL), leaves other tables alone, ends; ids stay free | both dialects, 11 requests over files that inherit each other in a cycle, a chain of 2 foreign keys, integers beyond `MaxExact`, 2 loads | 52 k |
| `redis_fixtures` | a load stores exactly what the named files say; a load fails only for a cause | 7 directories of 4 files, lists of up to 3 names | 14 k |
| `allure` | steps are finished, errors show, failures have a reason, attachments exist, the suite is complete | 8 definitions, 2 services, up to 2 mock errors or 3 others, 2 queries, 2 cases of a suite | 70 k |
| `compare` | no error if and only if the values match, as far as the greedy search allows | arrays of up to 3, nested once; all parameters | 202 k |
| `checkers` | what a result without errors guarantees, that nothing else is reported, that errors name their query | 3 entry points, own check and up to 2 others, answers of up to 2 rows | 315 k |

Why these are enough to be interesting: three requests exhaust a sequence of two
and give an error slice its spare capacity (which Go's growth leaves only from
three entries on); two services are needed for the order of the loops, and for a
test that is aborted when one of them already has its new definition; a second test
shows what it left behind; three tests let a focused test come before, between and
after others; two calls suffice for one in flight during
a reset and one after it; a pipe smaller than the output blocks the script; two
loads show what the first leaves behind; three elements let one element be swapped
into the place of another that is still to be matched; two further checks let one
be skipped before one that fails; a chain of foreign keys lets `CASCADE` reach a table
that refers to no named one itself; three steps under one parent make a slice grow
twice, so that a pointer into the first array is stale; three names let a file be
listed twice with another between.

`MatchIsFound` is restricted: with unordered arrays and an expected value that has
patterns, or maps that may match larger ones, the greedy search can give a general
element the partner a special one needs, and reports an error although a pairing
exists. `RequestPriority` and `ResponsePriority` leave out a variable that a later case
redefines (`Settled`), the mocks of later cases, and a placeholder that both the
environment and the test's own response have a value for (`Disputed`): there the code
does not do what the documents say, see below. `Verdict` excepts a script that was
sent SIGTERM and whose output could not be read to its end. `ReportComplete` excepts a
suite that could not be written, whose error nobody sees. `LoadedExactly` says of a
reference that it has the value referred to where that survives being read back.
`AllClosed` is claimed when executions do not overlap. `AllOrNothing` is claimed of PostgreSQL only. `FreshIds` is claimed only
after a successful load, because `setval` is not undone by the rollback of a
failed one. `PassMeansMet` claims everything of `RunWithTesting` only: `main`
registers no checker for headers or gRPC answers, and `RunWithMultiDb` none
for gRPC answers nor for the test's own `dbQuery`.

Each property is stated with the code behaviour it is about in its module, and
`PROJECT.json` names for each a plausible change of the code that breaks it.

### A run that ends in a violation

It states what a document says, and the trace shows the code doing otherwise.

| Run | Says | Does |
|---|---|---|
| `grpc_expected_request` | README.md:1813 `expectedRequest` is "verified against the incoming request" | the runner never asks the gRPC mocks for their errors |

Other disagreements, without a run; the properties leave these cases out and assert
neither side. In the models: all cases of a definition run with
the values of the last case that defines a variable (`WrittenByCases`), against
README.md:680 "Variables like these will be available through another cases if not
redefined."; a gRPC call in flight is
recorded after a reset, against mocks/grpc/mock.go:48 "ResetDefinitions clears all
definitions, recorded requests and errors"; the mocks of all cases keep the values
of the first (`Perform` in `Prepare`), against testloader/yaml_file/test.go:198 "deep
copy TestDefinition map fields"; a reference to an integer above 2^53 in PostgreSQL is
rounded, and one to NULL in MySQL gets the text `NULL`, against
fixtures/postgres/postgres.go:436 and fixtures/mysql/mysql.go:449 "using value of
previously inserted named record"; after a timeout `CmdRun` may return nil beside a
running script (`ScanEnd`); the output of a script is not printed after it ended by
itself, because `Wait` has closed the pipe, against cmd_runner/cmd_runner.go:62
"Print log"; `responseHeaders` (README.md:458) are not checked by `main`; a
`dbResponse` without items, which README.md:2085 calls an "empty list", is nil and
aborts the run; the `dbChecks` of a test with cases lose the name of their database.
Seen while reading: README.md:891 says that inheritance does not work within
one file, which the loaders allow; MySQL forgets the name of a row in a table
without `id`; a sequence that is
exhausted answers 200 and not the "404 Not Found" of README.md:1693; a call
without definition is not recorded, against README.md:1918 "records every
incoming request"; a script that ignores SIGTERM is not stopped by its timeout
(README.md:1961); the environment fills placeholders of the expected response
before the response of the running test can, which README.md:571-576 lists first.

## Fairness

`service_mock`: weak fairness of the runner and of each service's handler,
that is, Go runs every runnable goroutine and an `RWMutex` does not starve a
waiting writer; requests are finitely many.
`cmd_runner`: both goroutines run, the timer fires,
signals are delivered; nothing is assumed of the script, and `Returns` is claimed
only for scripts that do not ignore SIGTERM. `sql_fixtures`: the loader goes on,
that is, the database answers every statement or returns an error. `RunEnds` assumes
that the service under test answers or the transport times out.

## Proofs

Each theorem holds for every value of the constants. The constants are assumed to
have their types (`ConstAssumption`, `CheckersAssumption`, `FixtureAssumption`).
`ServiceMock` also assumes that there are finitely many definitions and services,
and that definitions form trees which services do not share, as the loader builds
them (`TreeAssumption`). `SqlFixtures` assumes that a template has a name (it is a
key of the map of templates) and that files, rows and expressions have the shape
the YAML decoder gives them; nothing is assumed about how files inherit, extend or
refer to each other. `CheckersAssumption` gives tests and answers their shape, and
nothing more.

`ServiceMock_proofs`: any services, definition trees, tests and number of requests.

- `TypeCorrect`: `Spec => []TypeOK`.
- `SequencesInOrder`: `Spec => []SequenceInOrder`. `SequenceInOrder` alone is not
  inductive. The invariant `SeqInv` adds that a service mounts only its own roots
  (`Mounted`), that a request being served is inside the mounted tree (`InTree`),
  and that an element is reached only after the counter has passed it (`Handed`).
  With the tree assumption, two services are never at the same definition, and a
  reset, which needs the lock, finds nobody in the tree it zeroes.
- `DefinitionsNotDerived`: `Spec => []DefinitionsOfTheTest`, from `Defined`, which
  says for each phase of the set-up which services have which definition.
- `ErrorsNotCarriedOver`: `Spec => []NoCarryOver`. `Current` says that from the
  reset of a service on, its errors, the request in progress and the slice being
  collected carry the number of the current test.
- `CallsAreCounted`: `Spec => []CallsCountWindow`. `Window` says that visits are
  numbered and belong to their service (`Numbered`), that the visits of the request
  in progress are the definitions on its way down from the root (`Path`), so that it
  never comes back to one, that between reset and load only the default definition
  is visited (`InDefault`), and that the counters of a mounted tree are the
  cardinalities of its visits (`Counted`).
- `MismatchesFail`: `Spec => []MismatchFailsTest`. `Punctual` tells visits before and
  after the end of the running context apart; `Failed` says that a service whose
  counts were wrong then has an error in the result or among the mismatches being
  collected, which no late request can overwrite.
- `OffendersAreNamed`: `Spec => []OffendersReported`. `Reported` follows an error from
  the request to the service's errors, to the slice being collected (`Told`) and to
  the result.

All rest on `ServeShape`: whatever the strategy, a step of a handler counts a call
at the definition reached and then answers or descends to one nested definition.

`Runner_proofs`: any number of tests, checkers and statuses. The invariant relates
the loop to the written statuses (`Selected`), the place in the code to the error
and the test (`Control`), the result of the test to `bad` (`Result`), the handlers'
counters to the tests judged so far (`Tally`), and the outputs and the report to the
tests executed (`HandedOut`, `OnDisk`, which also says when a suite may be missing). From it follow `OnlyFocusedRun`
(`FocusRespected`), `EarnedGreen` (`GreenIsEarned`), `CompleteReport`
(`ReportComplete`), and `RunImplementsTestRun`: `Spec => KeepsPromise`, where a
stage is a stuttering step of `TestRun`, the return of a handler is its `Judge`, and
the end of `main` or of `RunWithTesting` its `Finish`.

The same module proves what holds of the two parts that the run loop drives at the
end of a chain of calls, which it takes in with `INSTANCE`:

- `VerdictOfTheScript`: `Cmd!Spec => []Cmd!Verdict`, for any script and pipe, with
  what the goroutine in `Wait` has reported (`CmdWaited`) and where `CmdRun` is
  (`CmdControl`).
- `SuiteIsComplete`: `A!Spec => []A!SuiteTellsAll`, for any number of tests and any
  numbers of queries. `SuiteInv` says that between two tests the suite tells all that
  were handed in; during a test its last case is the current one and lacks exactly
  the attachments that are still to be added.
- `AttachmentsAreOnDisk`: `A!Spec => []A!AttachmentsOnDisk`, for any cases, errors and
  mocks, and whichever attachments cannot be written. `TreeInv` says that every step
  in every array, also in the arrays that `append` has left behind, refers to
  attachments on disk only, and that every pointer and slice lies in an array there
  is. It is needed because a pointer may be stale: what is attached through it must
  not disturb the arrays the result is read from. Arrays are only added to (`Grown`),
  so what was a pointer stays one.

`Grpc_proofs`, about the two gRPC parts.

- The mocks, for any mocks, methods, payloads, tests and number of calls:
  `OnlyMismatches` (`ErrorsAreMismatches`) and `ServedFromOwnDefinition`
  (`OwnDefinition`). The invariant adds that recorded calls are numbered (`Numbered`)
  and that, from the reset of a mock on, it holds definitions of the current test
  only, except for keys that `Range` has still to visit (`Replaced`).
- The transport (`T`, an instance of `GrpcTransport`), for any number of executions,
  overlapping or not, and of files: `NothingLost` (`NoConnectionLost`),
  `CallsOnLiveConnection` (`LiveConnection`), `SharedParse` (`OneSource`) and
  `RunClosesAll` (`AllClosed`). The invariant says what an execution may rely on at
  each place of `Execute` (`Using`: its connection is the executor's, its protoset
  the one that was kept), to whom connections belong (`Owned`), and, while executions
  do not overlap, that there is one executor and the Runner knows it (`OneByOne`).

`Variables_proofs`: any file, definitions, cases, environment and answers.
`RequestUsesHighestPlace` (`RequestPriority`), `ChecksUseHighestPlace`
(`ResponsePriority`), and the action property `VariablesLast` (`SetVariableLasts`).
The lemma `OwnIsDescribed` says that the map the cases share holds what the test's
description says when no later case redefines the variable, and `MocksFresh` that no
test has touched the mocks of a definition before its first one. The invariant ties the two passes of
`Apply` together (`Bound`): while the request is under way the variables are those
before the test overlaid with the test's own, and request and response have been
filled alike.

`Checkers_proofs`: any tests, answers, rows and number of checks. `PassesAreMet`
(`PassMeansMet`), `MetPasses` (`NoFalseAlarm`) and `IdentifiersPointAtQueries`
(`ErrorsPointAtQuery`). `Order` says which checkers are still to run, `Verdicts` what
the errors so far and their absence say of status, body and headers, and `Progress`
that the first n stated checks have been dealt with: the complete ones among them
are in `DatabaseResult` in their order, and the identifiers of the errors are the
positions of those whose rows differ. That two lists of rows agree is a bijection of
their places, from equal numbers of each document.

The SQL fixtures have three modules, each extending the one before:
`SqlFixtures_proofs` (types, and what is gathered comes from files that are due),
`SqlGather_proofs` (which tables are left alone, which sections are gathered, what a
step of inserting adds) and `SqlLoads_proofs` (values, and the four theorems). They
hold for any files, tables, foreign keys, requests, number of loads and of the
application's inserts, both loaders, and a failure at any statement. The lemmas of
the first two have a hypothesis `Finiteness` (a set of numbers has a least one, a
part of an interval a cardinality); `SqlLoads_proofs` proves it (`FinitenessHolds`),
and the theorems do not have it.

- `NumbersAreFresh`: `Spec => []FreshIds`. `Sequenced` says for each phase in which
  tables no id is greater than its sequence's last number; `fixSequences` restores
  it for what is about to be committed.
- `OthersAreUntouched`: `Spec => []OthersUntouched`. `Within`: what has been gathered
  comes from files that are due. `Apart`: only the tables these name, and those from which a chain of foreign
  keys leads to them, differ from `before`, and nothing has been committed while
  PostgreSQL's transaction is open.
- `FailedLoadsUndone`: `Spec => []AllOrNothing`, and `LoadsAreExact`:
  `Spec => []LoadedExactly`. The argument has four parts. While files are gathered,
  every file due is reached from what is open or queued (`Owes`), and a file has its
  sections in `tables` once, when its call of `loadFile` is over (`Walk`, `Once`);
  hence at `Begin` every section is there (`AllTabled`), cycles of inheritance
  included. While rows are inserted, the tables hold exactly the rows processed so
  far, each once (`Filling`); one step of either loader adds the rows from `row` to
  some `hi` of the current section (`Grown`, `Entered`), which lets both loaders
  share one proof. A name in `refsInserted` has the columns of a stored row of that
  name (`Registered`), and a stored row holds what its entry says (`Kept`); both last
  because a name, once defined, is never defined again (`RowsGrow`). When every
  section is done, the rows are counted by a bijection, and a column that refers to
  another has the value read back of it (`CompleteAtEnd`). `BaseUnspoiled` is inductive on top of
  `Within`.

Only model-checked:

- all liveness (`RunEnds`, `Returns`, `LoadReturns`), which is out of
  the prover's reach;
- `Compare` (`NoErrorMeansMatch`, `MatchIsFound`) and `RedisFixtures`
  (`RedisLoadedExactly`, `RefusedForCause`), where the code or the reference it is
  compared with is a recursive operator: the prover loses its SMT backend there, and
  what a recursive definition computes would need induction with an operator as
  parameter, which the provers cannot instantiate;
- the other properties of `AllureReport` (`StepsFinished`, `ErrorsShown`,
  `FailuresJustified`): they say what a whole list of calls, built by concatenation
  over the errors of a case, has done to the tree, which is an induction over that
  list.

Where a proof needs a least number (`LeastNat`, `LeastNumber`) it takes it from
`WFMin`.

## Not modelled

- Starting and stopping of the mock servers: a failing `Mocks.Start` always ends in a
  panic, because `Shutdown` dereferences the nil server of the service that did not
  start (mocks/mocks.go:44, mocks/service_mock.go:47). Nothing interleaves there.
- How constraints compare and how templates render, and the syntax of definitions: a
  constraint is the set of requests that violate it. The JSON constraints call
  `Compare`, which is modelled.
- Aerospike fixtures: the gathering of files and templates is that of the SQL
  loaders, and there are no references to values of other rows, no transactions and
  no sequences.
- The substitution of arguments into cases, how requests are built, the formatting
  of the console output, the XML conversion, gRPC reflection: pure data.
- The OpenAPI addon (it calls a library) and scripts on Windows (another system
  interface with the same structure).

The map names 5,232 of the 10,950 lines (48%) of the Go files that are neither
tests, examples nor generated.

## Plan

1. The constraints of the mocks and the syntax of their definitions.
2. An abstract specification of a mock service (one request at a time, a window
   per test) that `ServiceMock` implements.
3. `RedisFixtures` without recursive operators, as far as it stays readable, and a
   proof that a load stores what the files say.
4. The remaining properties of `AllureReport`, from an invariant that relates the calls
   still to be made to the steps there are.
