---------------------------- MODULE Runner_proofs ----------------------------
(***************************************************************************)
(* Proofs about the run loop, for any number of tests and of checkers: it  *)
(* implements TestRun, executes exactly the tests it is meant to, and a    *)
(* green exit and the Allure report are what they claim to be.  Then about *)
(* the scripts it runs around a request and the Allure outputs it hands    *)
(* its results to.                                                         *)
(***************************************************************************)
EXTENDS Runner, TLAPS

-----------------------------------------------------------------------------
(* The inductive invariant.                                                *)

PC == {"load", "next", "stage", "check", "output", "handle", "close", "returned", "end"}

\* The state of Run has the shape the Go types give it.
TypeOK ==
    /\ handler \in {"console", "testing"} /\ allure \in {"none", "v1", "v2"}
    /\ written \in [Test -> Status] /\ status \in [Test -> Status]
    /\ pc \in PC /\ at \in Nat /\ test \in 0..NTests
    /\ errs \in BOOLEAN /\ err \in {"nil", "skipped", "broken", "failure"}
    /\ processed \in [1..2 -> Seq(Test)]
    /\ counters \in [total : Nat, failed : Nat, skipped : Nat, broken : Nat]
    /\ sub \in [Test -> {"none", "skip", "fail", "pass"}]
    /\ exit \in {-1, 0, 1}
    /\ ran \subseteq Test /\ bad \subseteq ran

\* The tests executed are those meant to run, up to the current one: a status that
\* was overwritten is never read again.
Selected ==
    /\ \A t \in Test : t > test => status[t] = written[t]
    /\ \A t \in Test :
          t \in ran <=> t <= test /\ Rewritten(written[t]) \notin {"broken", "skipped"}

\* What the place Run has reached says about the current test and its error.
Control ==
    /\ pc = "load" => test = 0 /\ err = "nil"
    /\ InProgress => test \in Test
    /\ pc \in {"stage", "check", "output"} => test \in ran /\ err = "nil"
    /\ pc = "handle" => (test \notin ran <=> err \in {"skipped", "broken"})
    /\ pc = "next" => err # "failure"
    /\ pc \in {"close", "returned", "end"} =>
          \/ err = "failure" /\ (test = 0 \/ test \in ran)
          \/ err = "nil" /\ test = NTests
    /\ pc = "stage" => at \in 1..10
    /\ pc = "output" => at >= 1
    /\ exit = -1 <=> pc # "end"

\* The result of the current test holds errors exactly if it is a bad one; it holds
\* none before the mocks have been asked.
Result ==
    /\ InProgress => (errs <=> test \in bad)
    /\ pc = "stage" /\ at <= 9 => ~errs

\* What the handlers have counted or reported is what became of the tests.
Tally ==
    /\ handler = "console" =>
          (counters.failed = 0 <=> \A t \in Test : VerdictOf(t) # "failed")
    /\ handler = "testing" =>
          \A t \in Test : sub[t] = "fail" <=> VerdictOf(t) \in {"failed", "error"}
    /\ exit = 0 => err = "nil" /\ bad = {}

Reached(o, t) == \E k \in DOMAIN processed[o] : processed[o][k] = t

\* An executed test has been handed to an output unless it is still on its way
\* there or could not be run.
HandedOut ==
    \A o \in Output : \A t \in ran :
        \/ Reached(o, t)
        \/ t = test /\ \/ pc \in {"stage", "check"}
                       \/ pc = "output" /\ at <= o
                       \/ err = "failure"

\* What the Allure output has on disk.
OnDisk ==
    /\ allure = "none" => processed[2] = <<>> /\ report = {}
    /\ allure = "v1" /\ exit = -1 => report = {}
    /\ allure = "v2" => report = Handed
    /\ ReportComplete

Inv == TypeOK /\ Selected /\ Control /\ Result /\ Tally /\ HandedOut /\ OnDisk

-----------------------------------------------------------------------------
(* Facts the steps below rest on.                                          *)

\* A test is meant to run exactly when the status Run gives it lets the executor
\* start it.
LEMMA MeantIsRewritten ==
    ASSUME TypeOK, NEW t \in Test
    PROVE  Promise!Meant(t) <=> Rewritten(written[t]) \notin {"broken", "skipped"}
  BY DEF TypeOK, Status, Rewritten, HasFocused, Promise!Meant, Promise!Test, Test

LEMMA PipelineLength == Len(Pipeline) = 10 /\ Pipeline[9] = "endMocks"
  BY Zenon DEF Pipeline

\* The inputs never change.
LEMMA InputsFixed ==
    ASSUME [Next]_vars
    PROVE  UNCHANGED inVars
  BY DEF Next, Step, Load, TakeTest, Stage, StageError, GetTransportExecutor, Execute,
         EndMocks, Check, CheckError, Checked, Process, ProcessError, Processed,
         HandleConsole, HandleTesting, Done, Close, Main, RunWithTesting, inVars, vars

LEMMA InitInv == Init => Inv
  <1> SUFFICES ASSUME Init PROVE Inv  OBVIOUS
  <1>1. /\ test = 0 /\ at = 0 /\ exit = -1 /\ pc = "load" /\ err = "nil"
        /\ status = written /\ ran = {} /\ bad = {} /\ report = {}
        /\ counters = [total |-> 0, failed |-> 0, skipped |-> 0, broken |-> 0]
        /\ sub = [t \in Test |-> "none"]
        /\ handler \in {"console", "testing"} /\ allure \in Allure
        /\ written \in [Test -> Status]
    BY Zenon DEF Init
  <1>2. errs \in BOOLEAN /\ ~errs
    BY Zenon DEF Init
  <1>3. processed = [o \in 1..2 |-> <<>>]
    BY Zenon DEF Init
  <1>4. processed[2] = <<>> /\ processed \in [1..2 -> Seq(Test)]
    BY <1>3
  <1>5. TypeOK
    BY <1>1, <1>2, <1>4, ConstAssumption DEF TypeOK, PC
  <1>6. Selected
    BY <1>1, ConstAssumption DEF Selected, Test
  <1>7. Control /\ Result
    BY <1>1, <1>2 DEF Control, Result, InProgress
  <1>8. Tally
    BY <1>1, ConstAssumption DEF Tally, VerdictOf, Test
  <1>9. HandedOut
    BY <1>1 DEF HandedOut
  <1>10. OnDisk
    BY <1>1, <1>4 DEF OnDisk, ReportComplete, Handed
  <1> QED BY <1>5, <1>6, <1>7, <1>8, <1>9, <1>10 DEF Inv
-----------------------------------------------------------------------------
(* Every step preserves the invariant.                                     *)

\* The steps that only move on: inside a test, to its next stage, or to the end.
Moves ==
    \/ Load \/ Stage \/ StageError \/ Execute \/ CheckError \/ Checked \/ ProcessError
    \/ Processed \/ Done \/ Close \/ (\E k \in Key : GetTransportExecutor(k))

Judges == \E found \in BOOLEAN : EndMocks(found) \/ Check(found)

\* What they leave alone.
LEMMA MovesFrame ==
    ASSUME Moves
    PROVE  UNCHANGED <<inVars, status, test, errs, outVars, endVars, hist>>
  BY Zenon DEF Moves, Load, Stage, StageError, Execute, CheckError, Checked, ProcessError,
         Processed, Done, Close, GetTransportExecutor

LEMMA JudgesFrame ==
    ASSUME Judges
    PROVE  UNCHANGED <<inVars, status, test, err, outVars, endVars, ran>>
  BY Zenon DEF Judges, EndMocks, Check

\* The steps of Run, by what they do to the state of the invariant.
LEMMA StepCases ==
    ASSUME [Next]_vars
    PROVE  \/ TakeTest \/ Moves \/ Judges \/ Process \/ HandleConsole \/ HandleTesting
           \/ Main \/ RunWithTesting \/ UNCHANGED vars
  BY Zenon DEF Next, Step, Moves, Judges

\* None of the steps inside Run is possible once the program has ended.
LEMMA EndIsFinal ==
    ASSUME pc = "end"
    PROVE  ~TakeTest /\ ~Moves /\ ~Judges /\ ~Process
  <1>1. ~TakeTest /\ ~Process
    BY DEF TakeTest, Process
  <1>2. ~Judges
    BY DEF Judges, EndMocks, Check
  <1>3. ~Load /\ ~Stage /\ ~StageError /\ ~Execute /\ ~CheckError
    BY DEF Load, Stage, StageError, Execute, CheckError
  <1>4. ~Checked /\ ~ProcessError /\ ~Processed /\ ~Done /\ ~Close
    BY DEF Checked, ProcessError, Processed, Done, Close
  <1>5. \A k \in Key : ~GetTransportExecutor(k)
    BY DEF GetTransportExecutor
  <1> QED BY <1>1, <1>2, <1>3, <1>4, <1>5 DEF Moves

LEMMA TypeStep ==
    ASSUME Inv, [Next]_vars
    PROVE  TypeOK'
  <1> USE ConstAssumption DEF Inv, inVars, runVars, outVars, endVars, hist
  <1>1. CASE TakeTest
    <2>1. test + 1 \in Test /\ test + 1 \in 0..NTests
      BY <1>1 DEF TakeTest, TypeOK, Test
    <2>2. Rewritten(status[test + 1]) \in Status
      BY <2>1 DEF Rewritten, TypeOK, Status
    <2>3. status' \in [Test -> Status] /\ test' \in 0..NTests /\ ran' \subseteq Test
          /\ err' \in {"nil", "skipped", "broken", "failure"} /\ pc' \in PC /\ at' \in Nat
          /\ bad' \subseteq ran'
      BY <1>1, <2>1, <2>2 DEF TakeTest, TypeOK, PC
    <2>4. errs' \in BOOLEAN
      BY Zenon, <1>1 DEF TakeTest
    <2>5. UNCHANGED <<inVars, outVars, endVars>>
      BY Zenon, <1>1 DEF TakeTest
    <2> QED BY <2>3, <2>4, <2>5 DEF TypeOK
  <1>2. CASE Moves
    <2>1. UNCHANGED <<inVars, status, test, errs, outVars, endVars, hist>>
      BY <1>2, MovesFrame
    <2>2. pc' \in PC /\ at' \in Nat /\ err' \in {"nil", "skipped", "broken", "failure"}
      BY <1>2 DEF Moves, Load, Stage, StageError, Execute, CheckError, Checked,
        ProcessError, Processed, Done, Close, GetTransportExecutor, Advance, TypeOK, PC
    <2> QED BY <2>1, <2>2, Zenon DEF TypeOK
  <1>3. CASE Judges
    <2>1. UNCHANGED <<inVars, status, test, err, outVars, endVars, ran>>
      BY <1>3, JudgesFrame
    <2>2. pc' \in PC /\ at' \in Nat
      BY <1>3 DEF Judges, EndMocks, Check, Advance, TypeOK, PC
    <2>3. errs' \in BOOLEAN
      BY Zenon, <1>3 DEF Judges, EndMocks, Check
    <2>4. pc \in {"stage", "check"} /\ bad' \subseteq bad \cup {test}
      BY <1>3 DEF Judges, EndMocks, Check
    <2>5. bad' \subseteq ran
      BY <2>4 DEF Control, TypeOK
    <2> QED BY <2>1, <2>2, <2>3, <2>5 DEF TypeOK
  <1>4. CASE Process
    <2>1. UNCHANGED <<inVars, status, pc, test, errs, err, endVars, hist>>
      BY Zenon, <1>4 DEF Process
    <2>2. test \in Test /\ at \in 1..2
      BY <1>4 DEF Process, Control, InProgress, Output
    <2>3. processed' \in [1..2 -> Seq(Test)] /\ at' \in Nat
      BY <1>4, <2>2 DEF Process, TypeOK
    <2> QED BY <2>1, <2>3 DEF TypeOK
  <1>5. CASE HandleConsole
    <2>1. UNCHANGED <<inVars, status, at, test, errs, err, outVars, sub, exit, hist>>
      BY Zenon, <1>5 DEF HandleConsole
    <2>2. pc' \in PC
      BY <1>5 DEF HandleConsole, PC
    <2>3. counters' = counters \/ counters' = Counted(counters)
      BY Zenon, <1>5 DEF HandleConsole
    <2>4. Counted(counters) \in [total : Nat, failed : Nat, skipped : Nat, broken : Nat]
      BY DEF Counted, TypeOK
    <2> QED BY <2>1, <2>2, <2>3, <2>4 DEF TypeOK
  <1>6. CASE HandleTesting
    <2>1. UNCHANGED <<inVars, status, at, test, errs, err, outVars, counters, exit, hist>>
      BY Zenon, <1>6 DEF HandleTesting
    <2>2. pc' \in PC
      BY <1>6 DEF HandleTesting, PC
    <2>3. Outcome \in {"none", "skip", "fail", "pass"}
      BY DEF Outcome
    <2>4. sub' \in [Test -> {"none", "skip", "fail", "pass"}]
      BY <1>6, <2>3, Zenon DEF HandleTesting, TypeOK
    <2> QED BY <2>1, <2>2, <2>4 DEF TypeOK
  <1>7. CASE Main \/ RunWithTesting
    <2>1. UNCHANGED <<inVars, status, at, test, errs, err, processed, counters, sub, hist>>
      BY Zenon, <1>7 DEF Main, RunWithTesting
    <2>2. pc' \in PC /\ exit' \in {-1, 0, 1}
      BY <1>7 DEF Main, RunWithTesting, PC
    <2> QED BY <2>1, <2>2 DEF TypeOK
  <1>8. CASE UNCHANGED vars
    BY <1>8 DEF vars, TypeOK
  <1> QED BY <1>1, <1>2, <1>3, <1>4, <1>5, <1>6, <1>7, <1>8, StepCases

\* Run decides about test t by the status written for t, which no earlier iteration
\* has touched.
LEMMA SelectedStep ==
    ASSUME Inv, [Next]_vars
    PROVE  Selected'
  <1> USE ConstAssumption DEF Inv, inVars, runVars, outVars, endVars, hist
  <1>0. written' = written /\ \A t \in Test : Rewritten(written[t])' = Rewritten(written[t])
    BY InputsFixed DEF Rewritten, HasFocused
  <1>1. CASE TakeTest
    <2> DEFINE t0 == test + 1
    <2>1. /\ t0 \in Test /\ test' = t0 /\ t0 \notin ran /\ status[t0] = written[t0]
          /\ test \in Int
      BY <1>1 DEF TakeTest, TypeOK, Test, Selected
    <2>2. status' = [status EXCEPT ![t0] = Rewritten(written[t0])]
      BY <1>1, <2>1 DEF TakeTest
    <2>3. ran' = IF Rewritten(written[t0]) \in {"broken", "skipped"} THEN ran
                 ELSE ran \cup {t0}
      BY <1>1, <2>1 DEF TakeTest
    <2>4. \A t \in Test : t > t0 => status'[t] = written[t]
      BY <2>1, <2>2 DEF Selected, TypeOK, Test
    <2>5. \A t \in Test : t \in ran' <=>
              t <= t0 /\ Rewritten(written[t]) \notin {"broken", "skipped"}
      <3> SUFFICES ASSUME NEW t \in Test
                   PROVE  t \in ran' <=>
                            t <= t0 /\ Rewritten(written[t]) \notin {"broken", "skipped"}
        OBVIOUS
      <3>1. CASE t = t0
        BY <3>1, <2>1, <2>3
      <3>2. CASE t # t0
        <4>1. t \in ran' <=> t \in ran
          BY <3>2, <2>3
        <4>2. t <= t0 <=> t <= test
          BY <3>2, <2>1 DEF Test
        <4> QED BY <4>1, <4>2 DEF Selected
      <3> QED BY <3>1, <3>2
    <2> QED BY <1>0, <2>1, <2>4, <2>5 DEF Selected
  <1>2. CASE ~TakeTest
    <2>1. UNCHANGED <<status, test, ran>>
      BY Zenon, <1>2, StepCases, MovesFrame, JudgesFrame
         DEF Process, HandleConsole, HandleTesting, Main, RunWithTesting, vars
    <2> QED BY <1>0, <2>1 DEF Selected
  <1> QED BY <1>1, <1>2

\* An error leads straight to the handler and from there out of the loop.
LEMMA ControlStep ==
    ASSUME Inv, [Next]_vars
    PROVE  Control'
  <1> USE ConstAssumption DEF Inv, inVars, runVars, outVars, endVars, hist
  <1>1. CASE TakeTest
    <2> DEFINE st == Rewritten(status[test + 1])
    <2>1. test' \in Test /\ exit' = exit /\ exit = -1
      BY <1>1 DEF TakeTest, TypeOK, Test, Control
    <2>2. test' \notin ran
      BY <1>1 DEF TakeTest, TypeOK, Test, Selected
    <2>3. CASE st \in {"broken", "skipped"}
      BY <1>1, <2>1, <2>2, <2>3 DEF TakeTest, Control, InProgress
    <2>4. CASE st \notin {"broken", "skipped"}
      BY <1>1, <2>1, <2>4 DEF TakeTest, Control, InProgress
    <2> QED BY <2>3, <2>4
  <1>2. CASE Moves
    <2>1. UNCHANGED <<test, ran, exit>>
      BY <1>2, MovesFrame
    <2>2. CASE Load
      BY <2>1, <2>2, Zenon DEF Load, Control, InProgress
    <2>3. CASE Stage \/ StageError \/ Execute \/ \E k \in Key : GetTransportExecutor(k)
      BY <2>1, <2>3, PipelineLength DEF Stage, StageError, Execute, GetTransportExecutor,
        Advance, Control, InProgress
    <2>4. CASE CheckError \/ Checked \/ ProcessError \/ Processed
      BY <2>1, <2>4 DEF CheckError, Checked, ProcessError, Processed, Control, InProgress
    <2>5. CASE Done \/ Close
      BY <2>1, <2>5 DEF Done, Close, Control, InProgress
    <2> QED BY <1>2, <2>2, <2>3, <2>4, <2>5 DEF Moves
  <1>3. CASE Judges
    <2>1. UNCHANGED <<test, err, ran, exit>>
      BY <1>3, JudgesFrame
    <2> QED BY <1>3, <2>1, PipelineLength
            DEF Judges, EndMocks, Check, Advance, Control, InProgress
  <1>4. CASE Process
    BY <1>4 DEF Process, Control, InProgress, TypeOK
  <1>5. CASE HandleConsole \/ HandleTesting
    BY <1>5 DEF HandleConsole, HandleTesting, Control, InProgress, TypeOK
  <1>6. CASE Main \/ RunWithTesting
    BY <1>6 DEF Main, RunWithTesting, Control, InProgress
  <1>7. CASE UNCHANGED vars
    BY <1>7 DEF vars, Control, InProgress
  <1> QED BY <1>1, <1>2, <1>3, <1>4, <1>5, <1>6, <1>7, StepCases

LEMMA ResultStep ==
    ASSUME Inv, [Next]_vars
    PROVE  Result'
  <1> USE ConstAssumption DEF Inv, inVars, runVars, outVars, endVars, hist
  <1>1. CASE TakeTest
    <2>1. test' \notin bad /\ bad' = bad
      BY <1>1 DEF TakeTest, TypeOK, Test, Selected
    <2>2. ~errs'
      BY Zenon, <1>1 DEF TakeTest
    <2> QED BY <2>1, <2>2 DEF Result
  <1>2. CASE Moves
    <2>1. UNCHANGED <<test, errs, bad>>
      BY <1>2, MovesFrame, Zenon
    <2>2. InProgress' => InProgress
      BY <1>2, Zenon DEF Moves, Load, Stage, StageError, Execute, CheckError, Checked,
        ProcessError, Processed, Done, Close, GetTransportExecutor, InProgress, Advance
    <2>3. pc' = "stage" /\ at' <= 9 => pc = "stage" /\ at <= 9
      BY <1>2, PipelineLength
         DEF Moves, Load, Stage, StageError, Execute, CheckError, Checked, ProcessError,
             Processed, Done, Close, GetTransportExecutor, Advance, Control
    <2> QED BY <2>1, <2>2, <2>3 DEF Result
  <1>3. ASSUME NEW found \in BOOLEAN, EndMocks(found) PROVE Result'
    <2>1. pc = "stage" /\ at = 9 /\ test \notin bad
      <3>1. pc = "stage" /\ at \in 1..10 /\ Pipeline[at] = "endMocks"
        BY <1>3 DEF EndMocks, Control
      <3>2. at = 9
        BY <3>1 DEF Pipeline
      <3> QED BY <3>1, <3>2 DEF Result, InProgress
    <2>2. pc' = "stage" /\ at' = 10 /\ test' = test
      BY <1>3, <2>1, PipelineLength DEF EndMocks, Advance
    <2>3. (errs' <=> found) /\ bad' = IF found THEN bad \cup {test} ELSE bad
      BY Zenon, <1>3 DEF EndMocks
    <2> QED BY <2>1, <2>2, <2>3 DEF Result
  <1>4. ASSUME NEW found \in BOOLEAN, Check(found) PROVE Result'
    <2>1. pc = "check" /\ pc' = "check" /\ test' = test
      BY <1>4 DEF Check
    <2>2. (errs' <=> errs \/ found) /\ bad' = IF found THEN bad \cup {test} ELSE bad
      BY Zenon, <1>4 DEF Check
    <2> QED BY <2>1, <2>2 DEF Result, InProgress
  <1>5. CASE Process \/ HandleConsole \/ HandleTesting \/ Main \/ RunWithTesting \/ UNCHANGED vars
    <2>1. UNCHANGED <<test, errs, bad, at>> \/ (Process /\ UNCHANGED <<test, errs, bad>>)
      BY Zenon, <1>5 DEF Process, HandleConsole, HandleTesting, Main, RunWithTesting, vars
    <2>2. pc' = pc \/ pc' \in {"next", "close", "end"}
      BY <1>5 DEF Process, HandleConsole, HandleTesting, Main, RunWithTesting, vars
    <2>3. Process => pc = "output" /\ pc' = "output"
      BY DEF Process
    <2> QED BY <2>1, <2>2, <2>3 DEF Result, InProgress
  <1> QED BY <1>1, <1>2, <1>3, <1>4, <1>5, StepCases DEF Judges

\* Only the handlers settle what has become of a test.
LEMMA VerdictStill ==
    ASSUME Inv, [Next]_vars, ~HandleConsole, ~HandleTesting, NEW t \in Test
    PROVE  VerdictOf(t)' = VerdictOf(t)
  <1> USE ConstAssumption DEF Inv, inVars, runVars, outVars, endVars, hist
  <1>1. CASE TakeTest
    <2>1. /\ test \in Nat /\ test' = test + 1 /\ InProgress' /\ ~InProgress /\ bad' = bad
          /\ err # "failure" /\ (ran' = ran \/ ran' = ran \cup {test + 1})
      BY <1>1 DEF TakeTest, TypeOK, InProgress, Control
    <2> QED BY <2>1 DEF VerdictOf, Test
  <1>2. CASE Moves
    <2>1. UNCHANGED <<test, ran, bad>>
      BY <1>2, MovesFrame, Zenon
    <2>2. CASE Load
      BY <2>1, <2>2 DEF Load, VerdictOf, Control, Test
    <2>3. CASE Done \/ Close
      BY <2>1, <2>3 DEF Done, Close, VerdictOf, Control, InProgress
    <2>4. CASE InProgress /\ InProgress'
      BY <2>1, <2>4 DEF VerdictOf
    <2> QED BY <1>2, <2>2, <2>3, <2>4
            DEF Moves, Stage, StageError, Execute, CheckError, Checked, ProcessError,
                Processed, GetTransportExecutor, Advance, InProgress
  <1>3. CASE Judges
    <2>1. UNCHANGED <<test, err, ran>>
      BY <1>3, JudgesFrame, Zenon
    <2>2. InProgress /\ InProgress' /\ bad' \subseteq bad \cup {test} /\ bad \subseteq bad'
      BY <1>3 DEF Judges, EndMocks, Check, Advance, InProgress
    <2> QED BY <2>1, <2>2 DEF VerdictOf
  <1>4. CASE Process \/ Main \/ RunWithTesting \/ UNCHANGED vars
    <2>1. UNCHANGED <<test, err, ran, bad>>
      BY Zenon, <1>4 DEF Process, Main, RunWithTesting, vars
    <2>2. pc' = pc \/ (pc = "returned" /\ pc' = "end")
      BY <1>4 DEF Process, Main, RunWithTesting, vars
    <2> QED BY <2>1, <2>2 DEF VerdictOf, InProgress
  <1> QED BY <1>1, <1>2, <1>3, <1>4, StepCases

\* A handler settles the current test, by the error and the result it was given.
LEMMA VerdictHandled ==
    ASSUME Inv, HandleConsole \/ HandleTesting
    PROVE  /\ test \in Test /\ test' = test /\ VerdictOf(test) = "waiting"
           /\ VerdictOf(test)' = IF err = "failure" THEN "error"
                                 ELSE IF err \in {"skipped", "broken"} THEN "skipped"
                                 ELSE IF errs THEN "failed" ELSE "passed"
           /\ \A t \in Test \ {test} : VerdictOf(t)' = VerdictOf(t)
  <1> USE ConstAssumption DEF Inv, inVars, runVars, outVars, endVars, hist
  <1>1. UNCHANGED <<test, err, ran, bad>>
    BY Zenon DEF HandleConsole, HandleTesting
  <1>2. pc = "handle" /\ pc' \in {"next", "close"}
    BY DEF HandleConsole, HandleTesting
  <1>3. test \in Test /\ (test \notin ran <=> err \in {"skipped", "broken"})
        /\ (errs <=> test \in bad)
    BY <1>2 DEF Control, Result, InProgress
  <1>4. VerdictOf(test) = "waiting"
    BY <1>2, <1>3 DEF VerdictOf, InProgress
  <1>5. VerdictOf(test)' = IF err = "failure" THEN "error"
                           ELSE IF err \in {"skipped", "broken"} THEN "skipped"
                           ELSE IF errs THEN "failed" ELSE "passed"
    BY <1>1, <1>2, <1>3 DEF VerdictOf, InProgress, Test
  <1>6. \A t \in Test \ {test} : VerdictOf(t)' = VerdictOf(t)
    BY <1>1, <1>2, <1>3, Zenon DEF VerdictOf, InProgress, Test
  <1> QED BY <1>1, <1>3, <1>4, <1>5, <1>6

\* When Run has returned without an error, a test with errors in its result counts
\* as failed.
LEMMA BadIsFailed ==
    ASSUME Inv, pc = "returned", err # "failure", NEW t \in bad
    PROVE  VerdictOf(t) = "failed"
  BY ConstAssumption DEF Inv, TypeOK, Control, VerdictOf, InProgress, Test

LEMMA TallyStep ==
    ASSUME Inv, [Next]_vars
    PROVE  Tally'
  <1> USE ConstAssumption DEF Inv, inVars, runVars, outVars, endVars, hist
  <1>0. handler' = handler
    BY InputsFixed, Zenon
  <1>1. CASE HandleConsole
    <2>1. handler = "console" /\ UNCHANGED exit /\ exit = -1
      BY <1>1 DEF HandleConsole, Control
    <2>2. counters' = IF err = "failure" THEN counters ELSE Counted(counters)
      BY Zenon, <1>1 DEF HandleConsole
    <2>3. counters.failed \in Nat
      BY Zenon DEF TypeOK
    <2>4. counters'.failed = IF err = "nil" /\ errs THEN counters.failed + 1
                             ELSE counters.failed
      BY <2>2, Zenon DEF Counted
    <2>5. err = "nil" /\ errs <=> VerdictOf(test)' = "failed"
      BY <1>1, VerdictHandled DEF TypeOK
    <2>6. counters'.failed = 0 <=> \A t \in Test : VerdictOf(t)' # "failed"
      <3>1. CASE err = "nil" /\ errs
        <4>1. counters'.failed # 0
          BY <3>1, <2>3, <2>4
        <4>2. test' \in Test /\ VerdictOf(test)' = "failed"
          BY <1>1, <3>1, <2>5, VerdictHandled
        <4>3. \E t \in Test : VerdictOf(t)' = "failed"
          BY <4>2
        <4> QED BY <4>1, <4>3
      <3>2. CASE ~(err = "nil" /\ errs)
        <4>1. counters'.failed = counters.failed
          BY <3>2, <2>4
        <4>2. VerdictOf(test)' # "failed" /\ VerdictOf(test) # "failed" /\ test' = test
          BY <1>1, <3>2, <2>5, VerdictHandled
        <4>3. \A t \in Test : VerdictOf(t)' = "failed" <=> VerdictOf(t) = "failed"
          <5> SUFFICES ASSUME NEW t \in Test
                       PROVE  VerdictOf(t)' = "failed" <=> VerdictOf(t) = "failed"
            OBVIOUS
          <5>1. CASE t = test
            BY <5>1, <4>2
          <5>2. CASE t # test
            BY <1>1, <5>2, VerdictHandled
          <5> QED BY <5>1, <5>2
        <4> QED BY <2>1, <4>1, <4>3 DEF Tally
      <3> QED BY <3>1, <3>2
    <2> QED BY <1>0, <2>1, <2>6 DEF Tally
  <1>2. CASE HandleTesting
    <2>1. handler = "testing" /\ UNCHANGED exit /\ exit = -1
      BY <1>2 DEF HandleTesting, Control
    <2>2. sub' = [sub EXCEPT ![test] = Outcome]
      BY Zenon, <1>2 DEF HandleTesting
    <2>3. Outcome = "fail" <=> VerdictOf(test)' \in {"failed", "error"}
      BY <1>2, VerdictHandled, Zenon DEF Outcome, TypeOK
    <2>4. \A t \in Test : sub'[t] = "fail" <=> VerdictOf(t)' \in {"failed", "error"}
      BY <1>2, <2>1, <2>2, <2>3, VerdictHandled DEF Tally, TypeOK
    <2> QED BY <1>0, <2>1, <2>4 DEF Tally
  <1>3. CASE ~HandleConsole /\ ~HandleTesting
    <2>1. UNCHANGED <<counters, sub>>
      BY Zenon, <1>3, StepCases, MovesFrame, JudgesFrame
         DEF TakeTest, Process, Main, RunWithTesting, vars
    <2>2. \A t \in Test : VerdictOf(t)' = VerdictOf(t)
      BY <1>3, VerdictStill
    <2>3. exit' = 0 => err' = "nil" /\ bad' = {}
      <3>1. CASE Main
        <4>1. pc = "returned" /\ handler = "console" /\ UNCHANGED <<err, bad>>
          BY Zenon, <3>1 DEF Main
        <4>2. exit' = 0 => err # "failure" /\ counters.failed = 0
          BY <3>1 DEF Main
        <4> QED BY <4>1, <4>2, BadIsFailed DEF Tally, Control, TypeOK
      <3>2. CASE RunWithTesting
        <4>1. pc = "returned" /\ handler = "testing" /\ UNCHANGED <<err, bad>>
          BY Zenon, <3>2 DEF RunWithTesting
        <4>2. exit' = 0 => err # "failure" /\ \A t \in Test : sub[t] # "fail"
          BY <3>2 DEF RunWithTesting
        <4> QED BY <4>1, <4>2, BadIsFailed DEF Tally, Control, TypeOK
      <3>3. CASE ~Main /\ ~RunWithTesting
        <4>1. exit' = exit
          BY Zenon, <1>3, <3>3, StepCases, MovesFrame, JudgesFrame DEF TakeTest, Process, vars
        <4>2. CASE exit = 0
          <5>1. pc = "end"
            BY <4>2 DEF Control
          <5>2. UNCHANGED vars
            BY Zenon, <1>3, <3>3, <5>1, StepCases, EndIsFinal
          <5> QED BY <5>2, <4>2 DEF vars, Tally
        <4> QED BY <4>1, <4>2
      <3> QED BY <3>1, <3>2, <3>3, Zenon
    <2> QED BY <1>0, <2>1, <2>2, <2>3 DEF Tally
  <1> QED BY <1>1, <1>2, <1>3

LEMMA OutputNumbers == Output \subseteq 1..2
  BY DEF Output

\* A test leaves executeTest without an error only through all outputs.
LEMMA HandedOutStep ==
    ASSUME Inv, [Next]_vars
    PROVE  HandedOut'
  <1> USE ConstAssumption DEF Inv, inVars, runVars, outVars, endVars, hist
  <1>0. Output' = Output
    BY InputsFixed DEF Output
  <1> SUFFICES ASSUME NEW o \in Output, NEW t \in ran'
               PROVE  \/ Reached(o, t)'
                      \/ t = test' /\ \/ pc' \in {"stage", "check"}
                                      \/ pc' = "output" /\ at' <= o
                                      \/ err' = "failure"
    BY <1>0 DEF HandedOut
  <1>1. CASE TakeTest
    <2>1. UNCHANGED processed /\ pc = "next" /\ test' = test + 1 /\ test \in Nat
      BY <1>1 DEF TakeTest, TypeOK
    <2>2. CASE t \in ran
      <3>1. Reached(o, t)
        BY <2>1, <2>2 DEF HandedOut, Control
      <3> QED BY <2>1, <3>1 DEF Reached
    <2>3. CASE t \notin ran
      BY <1>1, <2>3 DEF TakeTest
    <2> QED BY <2>2, <2>3, Zenon
  <1>2. CASE Moves
    <2>1. UNCHANGED <<processed, test, ran>>
      BY <1>2, MovesFrame
    <2>2. Reached(o, t)' <=> Reached(o, t)
      BY <2>1 DEF Reached
    <2>3. t \in ran /\ at \in Nat /\ o \in Nat
      BY <2>1, OutputNumbers DEF TypeOK
    <2>4. CASE Load \/ Done
      BY <2>1, <2>2, <2>3, <2>4, Zenon DEF Load, Done, HandedOut, Control
    <2>5. CASE Stage \/ StageError \/ Execute \/ \E k \in Key : GetTransportExecutor(k)
      BY <2>1, <2>2, <2>3, <2>5, Zenon DEF Stage, StageError, Execute, GetTransportExecutor,
        Advance, HandedOut, Control
    <2>6. CASE CheckError \/ ProcessError \/ Close
      BY <2>1, <2>2, <2>3, <2>6, Zenon DEF CheckError, ProcessError, Close, HandedOut
    <2>7. CASE Checked
      <3>1. o >= 1
        BY OutputNumbers
      <3> QED BY <2>1, <2>2, <2>3, <2>7, <3>1 DEF Checked, HandedOut, Control
    <2>8. CASE Processed
      <3>1. pc = "output" /\ at > o
        BY <2>8 DEF Processed, Output, Control, TypeOK
      <3> QED BY <2>1, <2>2, <2>3, <2>8, <3>1 DEF Processed, HandedOut, Control
    <2> QED BY <1>2, <2>4, <2>5, <2>6, <2>7, <2>8 DEF Moves
  <1>3. CASE Judges
    <2>1. UNCHANGED <<processed, test, ran, err>>
      BY <1>3, JudgesFrame
    <2>2. pc \in {"stage", "check"} /\ pc' \in {"stage", "check"}
      BY <1>3 DEF Judges, EndMocks, Check, Advance
    <2> QED BY <2>1, <2>2 DEF HandedOut, Reached, Control
  <1>4. CASE Process
    <2>1. /\ pc = "output" /\ at \in Output /\ UNCHANGED <<pc, test, err, ran>>
          /\ at' = at + 1
      BY Zenon, <1>4 DEF Process
    <2>2. processed' = [processed EXCEPT ![at] = Append(@, test)]
      BY Zenon, <1>4 DEF Process
    <2>3. processed[o] \in Seq(Test) /\ test \in Test /\ o \in 1..2 /\ at \in 1..2
      BY <2>1, OutputNumbers, Zenon DEF TypeOK, Control, InProgress
    <2>4. CASE o = at
      <3>1. processed'[o] = Append(processed[o], test)
        BY <2>2, <2>3, <2>4, Zenon DEF TypeOK
      <3>2. Reached(o, test)' /\ (Reached(o, t) => Reached(o, t)')
        <4> DEFINE new == Append(processed[o], test)
        <4>1. /\ Len(processed[o]) + 1 \in DOMAIN new
              /\ new[Len(processed[o]) + 1] = test
              /\ \A k \in DOMAIN processed[o] : k \in DOMAIN new /\ new[k] = processed[o][k]
          BY <2>3
        <4> HIDE DEF new
        <4> QED BY <2>1, <3>1, <4>1, Zenon DEF Reached, new
      <3> QED BY <2>1, <2>4, <3>2 DEF HandedOut, Control
    <2>5. CASE o # at
      <3>1. processed'[o] = processed[o]
        BY <2>2, <2>3, <2>5 DEF TypeOK
      <3>2. Reached(o, t)' <=> Reached(o, t)
        BY <3>1 DEF Reached
      <3> QED BY <2>1, <2>3, <2>5, <3>2 DEF HandedOut, Control
    <2> QED BY <2>4, <2>5
  <1>5. CASE HandleConsole \/ HandleTesting \/ Main \/ RunWithTesting \/ UNCHANGED vars
    <2>1. UNCHANGED <<processed, test, ran, err, at>>
      BY Zenon, <1>5 DEF HandleConsole, HandleTesting, Main, RunWithTesting, vars
    <2>2. pc' = pc \/ pc \in {"handle", "returned"}
      BY <1>5 DEF HandleConsole, HandleTesting, Main, RunWithTesting, vars
    <2> QED BY <2>1, <2>2 DEF HandedOut, Reached
  <1> QED BY <1>1, <1>2, <1>3, <1>4, <1>5, StepCases

LEMMA OnDiskStep ==
    ASSUME Inv, [Next]_vars
    PROVE  OnDisk'
  <1> USE ConstAssumption DEF Inv, inVars, runVars, outVars, endVars, hist
  <1>0. allure' = allure /\ handler' = handler
    BY InputsFixed
  <1>1. CASE Process
    <2>1. /\ pc = "output" /\ at \in Output /\ UNCHANGED <<exit, test>>
          /\ report' = IF at = 2 /\ allure = "v2" THEN report \cup {test} ELSE report
      BY Zenon, <1>1 DEF Process
    <2>2. processed' = [processed EXCEPT ![at] = Append(@, test)]
      BY Zenon, <1>1 DEF Process
    <2>3. processed[2] \in Seq(Test) /\ test \in Test /\ at \in 1..2 /\ exit = -1
      BY <2>1, OutputNumbers DEF TypeOK, Control, InProgress
    <2>4. CASE at = 1
      <3>1. processed'[2] = processed[2] /\ report' = report
        BY <2>1, <2>2, <2>4 DEF TypeOK
      <3> QED BY <1>0, <2>1, <2>3, <3>1, Zenon DEF OnDisk, ReportComplete, Handed
    <2>5. CASE at = 2
      <3>1. processed'[2] = Append(processed[2], test) /\ allure # "none"
        BY <2>1, <2>2, <2>5 DEF TypeOK, Output
      <3>2. Handed' = Handed \cup {test}
        BY <3>1, <2>3 DEF Handed
      <3> QED BY <1>0, <2>1, <2>3, <2>5, <3>1, <3>2, Zenon DEF OnDisk, ReportComplete
    <2> QED BY <2>3, <2>4, <2>5
  <1>2. CASE Main \/ RunWithTesting
    <2>1. UNCHANGED <<processed, err>> /\ pc = "returned" /\ pc' = "end"
          /\ exit' # -1 /\ exit = -1
      BY <1>2 DEF Main, RunWithTesting, Control
    <2>2. \/ allure = "v1" /\ report' = Handed
          \/ allure = "v1" /\ report' = report /\ finalized' = "lost"
          \/ allure # "v1" /\ report' = report
          \/ report' = report /\ handler = "console" /\ err = "failure"
      BY Zenon, <1>2 DEF Main, RunWithTesting, Finalize
    <2>3. Handed' = Handed
      BY <2>1, Zenon DEF Handed
    <2>4. allure = "none" => Handed = {}
      BY DEF OnDisk, Handed
    <2> QED BY <1>0, <2>1, <2>2, <2>3, <2>4 DEF OnDisk, ReportComplete, TypeOK
  <1>3. CASE TakeTest \/ Moves \/ Judges \/ HandleConsole \/ HandleTesting
    <2>1. UNCHANGED <<processed, report, exit>> /\ Handed' = Handed
      BY Zenon, <1>3, MovesFrame, JudgesFrame DEF TakeTest, HandleConsole, HandleTesting, Handed
    <2>2. exit = -1
      BY <1>3, Zenon DEF Control, TakeTest, Moves, Load, Stage, StageError, Execute,
        CheckError, Checked, ProcessError, Processed, Done, Close, GetTransportExecutor,
        Judges, EndMocks, Check, HandleConsole, HandleTesting
    <2> QED BY <1>0, <2>1, <2>2 DEF OnDisk, ReportComplete
  <1>4. CASE UNCHANGED vars
    BY <1>4 DEF vars, OnDisk, ReportComplete, Handed
  <1> QED BY <1>1, <1>2, <1>3, <1>4, StepCases

-----------------------------------------------------------------------------
(* The theorems.                                                           *)

\* The invariant holds throughout every run.
THEOREM Invariance == Spec => []Inv
  <1>1. Inv /\ [Next]_vars => Inv'
    BY TypeStep, SelectedStep, ControlStep, ResultStep, TallyStep, HandedOutStep, OnDiskStep
       DEF Inv
  <1> QED BY InitInv, <1>1, PTL DEF Spec

\* Runner.Run executes exactly the tests the statuses in the YAML files ask for.
THEOREM OnlyFocusedRun == Spec => []FocusRespected
  <1>1. Inv => FocusRespected
    BY DEF Inv, TypeOK, Selected, FocusRespected, Rewritten, HasFocused, Status
  <1> QED BY Invariance, <1>1, PTL

\* Exit code 0 of main, or a passed test function of RunWithTesting, is earned.
THEOREM EarnedGreen == Spec => []GreenIsEarned
  <1>1. Inv => GreenIsEarned
    <2> SUFFICES ASSUME Inv, exit = 0
                 PROVE  /\ bad = {}
                        /\ \A t \in Test \ ran :
                              Rewritten(written[t]) \in {"broken", "skipped"}
                        /\ \A o \in Output : \A t \in ran : Reached(o, t)
      BY Zenon DEF GreenIsEarned, Reached
    <2> USE ConstAssumption DEF Inv
    <2>1. bad = {} /\ err = "nil" /\ pc = "end" /\ test = NTests
      BY DEF Tally, Control, TypeOK
    <2>2. \A t \in Test \ ran : Rewritten(written[t]) \in {"broken", "skipped"}
      BY <2>1 DEF Selected, Test
    <2>3. \A o \in Output : \A t \in ran : Reached(o, t)
      BY <2>1 DEF HandedOut
    <2> QED BY <2>1, <2>2, <2>3, Zenon
  <1> QED BY Invariance, <1>1, PTL

\* Every result handed to the Allure output is on disk at the end; a suite of version 1
\* may be missing, as a whole, after log.Fatal in main or when Finalize cannot write it.
THEOREM CompleteReport == Spec => []ReportComplete
  <1>1. Inv => ReportComplete
    BY DEF Inv, OnDisk
  <1> QED BY Invariance, <1>1, PTL

-----------------------------------------------------------------------------
(* Run implements TestRun.                                                 *)

verdictBar == [t \in Test |-> VerdictOf(t)]

LEMMA InitPromise == Init => Promise!Init
  <1> SUFFICES ASSUME Init PROVE Promise!Init  OBVIOUS
  <1>1. written \in [Test -> Status] /\ exit = -1 /\ test = 0
    BY Zenon DEF Init
  <1>2. \A t \in Test : VerdictOf(t) = "waiting"
    BY <1>1, ConstAssumption DEF VerdictOf, Test
  <1>3. [t \in Test |-> VerdictOf(t)] = [t \in Test |-> "waiting"]
    BY <1>2, Zenon
  <1> QED BY <1>1, <1>3 DEF Promise!Init, Promise!Test, Promise!Status, Test, Status

\* What a handler does to the current test is the judgement TestRun allows.
LEMMA HandlerJudges ==
    ASSUME Inv, HandleConsole \/ HandleTesting
    PROVE  Promise!Judge(test)
  <1> USE ConstAssumption DEF Inv
  <1>1. /\ test \in Test /\ VerdictOf(test) = "waiting" /\ test' = test
        /\ \A t \in Test \ {test} : VerdictOf(t)' = VerdictOf(t)
    BY VerdictHandled
  <1>2. exit = -1 /\ UNCHANGED <<written, exit>>
    BY Zenon DEF HandleConsole, HandleTesting, Control, inVars
  <1>3. \A u \in Test : u < test => VerdictOf(u) \notin {"waiting", "error"}
    BY <1>1 DEF VerdictOf, Test
  <1>4. VerdictOf(test)' \in IF Promise!Meant(test) THEN {"passed", "failed", "error"}
                             ELSE {"skipped"}
    <2>1. pc = "handle"
      BY Zenon DEF HandleConsole, HandleTesting
    <2>2. Promise!Meant(test) <=> test \in ran
      BY <1>1, MeantIsRewritten DEF Selected, Test
    <2>3. err \in {"skipped", "broken"} <=> test \notin ran
      BY <2>1 DEF Control
    <2>4. VerdictOf(test)' \in IF test \in ran THEN {"passed", "failed", "error"}
                               ELSE {"skipped"}
      BY <2>3, VerdictHandled
    <2> QED BY <2>2, <2>4
  <1>5. verdictBar' = [verdictBar EXCEPT ![test] = VerdictOf(test)']
    BY <1>1, Zenon DEF verdictBar
  <1>6. verdictBar[test] = "waiting"
        /\ \A u \in Test : u < test => verdictBar[u] \notin {"waiting", "error"}
    BY <1>1, <1>3 DEF verdictBar
  <1> QED BY <1>2, <1>4, <1>5, <1>6, Zenon DEF Promise!Judge, Promise!Test, Test, verdictBar

\* main and RunWithTesting end the run as TestRun allows.
LEMMA CallerFinishes ==
    ASSUME Inv, [Next]_vars, Main \/ RunWithTesting
    PROVE  Promise!Finish
  <1> USE ConstAssumption DEF Inv
  <1>1. /\ pc = "returned" /\ exit = -1 /\ exit' \in {0, 1}
        /\ UNCHANGED <<written, err, test>>
    BY Zenon DEF Main, RunWithTesting, Control, inVars
  <1>2. ~HandleConsole /\ ~HandleTesting
    BY <1>1 DEF HandleConsole, HandleTesting
  <1>3. verdictBar' = verdictBar
    BY <1>2, VerdictStill DEF verdictBar
  <1>4. CASE err = "failure"
    <2>1. exit' = 1
      BY <1>4 DEF Main, RunWithTesting
    <2>2. CASE test = 0
      <3>1. \A t \in Test : VerdictOf(t) = "waiting"
        BY <2>2 DEF VerdictOf, Test
      <3> QED BY <1>1, <1>3, <2>1, <3>1 DEF Promise!Finish, Promise!Test, Test, verdictBar
    <2>3. CASE test \in ran
      <3>1. test \in Test /\ VerdictOf(test) = "error"
        BY <1>1, <1>4, <2>3 DEF VerdictOf, InProgress, TypeOK, Test
      <3>2. \E t \in Test : VerdictOf(t) = "error"
        BY <3>1, Zenon
      <3> QED BY <1>1, <1>3, <2>1, <3>2 DEF Promise!Finish, Promise!Test, Test, verdictBar
    <2> QED BY <1>1, <1>4, <2>2, <2>3, Zenon DEF Control
  <1>5. CASE err # "failure"
    <2>1. test = NTests
      BY <1>1, <1>5 DEF Control
    <2>2. \A t \in Test : VerdictOf(t) \in {"skipped", "failed", "passed"}
      BY <1>1, <1>5, <2>1 DEF VerdictOf, InProgress, Test
    <2>3. exit' = 0 <=> \A t \in Test : VerdictOf(t) # "failed"
      <3>1. CASE Main
        BY <1>5, <3>1 DEF Main, Tally
      <3>2. CASE RunWithTesting
        BY <1>5, <2>2, <3>2 DEF RunWithTesting, Tally
      <3> QED BY <3>1, <3>2, Zenon
    <2> QED BY <1>1, <1>3, <2>2, <2>3 DEF Promise!Finish, Promise!Test, Test, verdictBar
  <1> QED BY <1>4, <1>5

\* Runner.Run, with its handlers and its callers, implements TestRun: for any number
\* of tests and checkers, and whatever stage, checker or output fails.
THEOREM RunImplementsTestRun == Spec => KeepsPromise
  <1>1. Inv /\ [Next]_vars => [Promise!Next]_<<written, verdictBar, exit>>
    <2> SUFFICES ASSUME Inv, [Next]_vars
                 PROVE  [Promise!Next]_<<written, verdictBar, exit>>
      OBVIOUS
    <2>1. CASE HandleConsole \/ HandleTesting
      <3>1. Promise!Judge(test) /\ test \in Test
        BY <2>1, HandlerJudges, VerdictHandled
      <3> QED BY <3>1 DEF Promise!Next, Promise!Test, Test
    <2>2. CASE Main \/ RunWithTesting
      BY <2>2, CallerFinishes DEF Promise!Next
    <2>3. CASE ~HandleConsole /\ ~HandleTesting /\ ~Main /\ ~RunWithTesting
      <3>1. UNCHANGED <<written, exit>>
        BY Zenon, <2>3, StepCases, MovesFrame, JudgesFrame, InputsFixed
           DEF TakeTest, Process, vars, inVars, endVars
      <3>2. verdictBar' = verdictBar
        BY <2>3, VerdictStill DEF verdictBar
      <3> QED BY <3>1, <3>2
    <2> QED BY <2>1, <2>2, <2>3
  <1>2. [Promise!Next]_<<written, verdictBar, exit>> <=> [Promise!Next]_(Promise!vars)
    BY Zenon DEF Promise!vars, verdictBar
  <1> QED BY InitPromise, Invariance, <1>1, <1>2, PTL DEF Spec, KeepsPromise, Promise!Spec

-----------------------------------------------------------------------------
(* The scripts that a test runs around its request: the verdict of CmdRun, *)
(* for scripts of any length and any pipe.                                 *)

CONSTANTS MaxLines, Capacity
VARIABLES script, proc, signalled, cmdStatus, wrote, closed, pipe, reader, done, timer, cmdPc,
          printed, ret

Cmd == INSTANCE CmdRunner WITH pc <- cmdPc, status <- cmdStatus

\* The state has the shape the Go types give it.
CmdTyped ==
    /\ proc \in {"none", "running", "zombie", "reaped"}
    /\ done \in {"empty", "ok", "error"}
    /\ cmdPc \in {"start", "select", "kill", "scan", "returned"}
    /\ ret \in {"none", "nil", "error"}
    /\ reader \in BOOLEAN /\ timer \in BOOLEAN /\ signalled \in BOOLEAN
    /\ closed \in BOOLEAN

\* What the goroutine in cmd.Wait has reported is how the process ended.
CmdWaited ==
    /\ proc \in {"none", "running"} => cmdStatus = 0
    /\ done # "empty" => proc = "reaped"
    /\ done = "ok" => cmdStatus = 0
    /\ done = "error" => cmdStatus # 0
    /\ ~reader => proc = "reaped"

\* Where CmdRun is: the output is read after a success, or after a timeout and the
\* signal.
CmdControl ==
    /\ cmdPc = "start" => proc = "none"
    /\ proc = "none" => cmdPc = "start" \/ ret = "error"
    /\ cmdPc = "kill" => timer
    /\ cmdPc = "scan" => (timer /\ signalled) \/ done = "ok"
    /\ ret # "none" <=> cmdPc = "returned"

CmdInv == CmdTyped /\ CmdWaited /\ CmdControl /\ Cmd!Verdict

-----------------------------------------------------------------------------

LEMMA CmdInit == Cmd!Init => CmdInv
  <1> SUFFICES ASSUME Cmd!Init PROVE CmdInv  OBVIOUS
  <1>1. /\ proc = "none" /\ cmdStatus = 0 /\ done = "empty" /\ cmdPc = "start"
        /\ ret = "none"
        /\ reader \in BOOLEAN /\ reader /\ timer \in BOOLEAN
        /\ signalled \in BOOLEAN /\ closed \in BOOLEAN
    BY Zenon DEF Cmd!Init
  <1> QED BY <1>1 DEF CmdInv, CmdTyped, CmdWaited, CmdControl, Cmd!Verdict

\* The script, the kernel and the timer.
LEMMA CmdOutsideStep ==
    ASSUME CmdInv,
           \/ Cmd!Write \/ Cmd!CloseOutput \/ Cmd!Exit \/ Cmd!Busy \/ Cmd!Terminate
           \/ Cmd!TimerFires
    PROVE  CmdInv'
  <1> USE DEF CmdInv
  <1>1. CASE Cmd!Write \/ Cmd!Busy
    <2>1. UNCHANGED <<proc, cmdStatus, done, cmdPc, ret, reader, timer, signalled, closed,
                      script, printed>>
      BY <1>1, Zenon DEF Cmd!Write, Cmd!Busy, Cmd!vars, Cmd!scriptVars, Cmd!pipeVars,
        Cmd!runVars
    <2> QED BY <2>1, Zenon DEF CmdTyped, CmdWaited, CmdControl, Cmd!Verdict, Cmd!TooLong
  <1>2. CASE Cmd!Exit \/ Cmd!Terminate
    <2>1. /\ proc = "running" /\ proc' = "zombie"
          /\ UNCHANGED <<done, cmdPc, ret, reader, timer, signalled, closed>>
      BY <1>2, Zenon DEF Cmd!Exit, Cmd!Terminate, Cmd!pipeVars, Cmd!runVars
    <2>2. ret = "none" \/ timer
      BY <2>1, Zenon DEF Cmd!Verdict
    <2>3. CmdTyped' /\ CmdControl'
      BY <2>1, Zenon DEF CmdTyped, CmdControl
    <2>4. CmdWaited'
      BY <2>1, Zenon DEF CmdWaited, CmdTyped
    <2> QED BY <2>1, <2>2, <2>3, <2>4, Zenon DEF Cmd!Verdict
  <1>3. CASE Cmd!TimerFires
    <2>1. /\ timer' \in BOOLEAN /\ timer'
      BY Zenon, <1>3 DEF Cmd!TimerFires
    <2>2. UNCHANGED <<proc, cmdStatus, done, cmdPc, ret, reader, signalled, closed, script,
                      printed>>
      BY <1>3, Zenon DEF Cmd!TimerFires, Cmd!scriptVars, Cmd!pipeVars, Cmd!runVars
    <2> QED BY <2>1, <2>2, Zenon DEF CmdTyped, CmdWaited, CmdControl, Cmd!Verdict, Cmd!TooLong
  <1>4. CASE Cmd!CloseOutput
    <2>1. closed' \in BOOLEAN /\ closed'
      BY Zenon, <1>4 DEF Cmd!CloseOutput
    <2>2. UNCHANGED <<proc, cmdStatus, done, cmdPc, ret, reader, timer, signalled>>
      BY <1>4, Zenon DEF Cmd!CloseOutput, Cmd!pipeVars, Cmd!runVars
    <2> QED BY <2>1, <2>2, Zenon DEF CmdTyped, CmdWaited, CmdControl, Cmd!Verdict
  <1> QED BY <1>1, <1>2, <1>3, <1>4, Zenon

\* The goroutine.
LEMMA CmdWaitStep ==
    ASSUME CmdInv, Cmd!Wait
    PROVE  CmdInv'
  <1> USE DEF CmdInv
  <1>1. reader' \in BOOLEAN
    BY Zenon DEF Cmd!Wait
  <1>2. /\ proc = "zombie" /\ proc' = "reaped"
        /\ done' = IF cmdStatus = 0 THEN "ok" ELSE "error"
        /\ UNCHANGED <<cmdStatus, cmdPc, ret, timer, signalled, closed>>
    BY Zenon DEF Cmd!Wait, Cmd!runVars
  <1>3. done = "empty"
    BY <1>2, Zenon DEF CmdWaited, CmdTyped
  <1> QED BY <1>1, <1>2, <1>3 DEF CmdTyped, CmdWaited, CmdControl, Cmd!Verdict

\* CmdRun returns while the script runs only from the scan of its output.
LEMMA CmdRunStep ==
    ASSUME CmdInv, Cmd!CmdRun
    PROVE  CmdInv'
  <1> USE DEF CmdInv
  <1>1. CASE Cmd!Start
    <2>1. UNCHANGED <<cmdStatus, done, reader, timer, signalled, closed>> /\ cmdPc = "start"
      BY <1>1, Zenon DEF Cmd!Start, Cmd!pipeVars
    <2>2. \/ proc' = "running" /\ cmdPc' = "select" /\ ret' = ret
          \/ proc' = proc /\ cmdPc' = "returned" /\ ret' = "error"
      BY <1>1, Zenon DEF Cmd!Start
    <2> QED BY <2>1, <2>2 DEF CmdTyped, CmdWaited, CmdControl, Cmd!Verdict
  <1>2. CASE Cmd!SelectDone
    <2>1. /\ UNCHANGED <<proc, cmdStatus, done, reader, timer, signalled, closed>>
          /\ cmdPc = "select" /\ done # "empty"
      BY <1>2, Zenon DEF Cmd!SelectDone, Cmd!scriptVars, Cmd!pipeVars
    <2>2. \/ done = "error" /\ cmdPc' = "returned" /\ ret' = "error"
          \/ done # "error" /\ cmdPc' = "scan" /\ ret' = ret
      BY <1>2, Zenon DEF Cmd!SelectDone
    <2> QED BY <2>1, <2>2 DEF CmdTyped, CmdWaited, CmdControl, Cmd!Verdict
  <1>3. CASE Cmd!SelectTimeout
    <2>1. /\ UNCHANGED <<proc, cmdStatus, done, reader, timer, signalled, closed>>
          /\ cmdPc = "select" /\ timer
      BY <1>3, Zenon DEF Cmd!SelectTimeout, Cmd!scriptVars, Cmd!pipeVars
    <2>2. \/ proc = "reaped" /\ cmdPc' = "returned" /\ ret' = "error"
          \/ cmdPc' = "kill" /\ ret' = ret
      BY <1>3, Zenon DEF Cmd!SelectTimeout
    <2> QED BY <2>1, <2>2 DEF CmdTyped, CmdWaited, CmdControl, Cmd!Verdict
  <1>4. CASE Cmd!Kill
    <2>1. UNCHANGED <<proc, cmdStatus, done, reader, timer, closed>> /\ cmdPc = "kill"
      BY <1>4, Zenon DEF Cmd!Kill, Cmd!pipeVars
    <2>2. \/ /\ proc = "reaped" /\ cmdPc' = "returned" /\ ret' = "error"
             /\ signalled' \in BOOLEAN
          \/ /\ cmdPc' = "scan" /\ ret' = ret
             /\ signalled' \in BOOLEAN /\ signalled'
      BY <1>4, Zenon DEF Cmd!Kill, CmdTyped
    <2> QED BY <2>1, <2>2 DEF CmdTyped, CmdWaited, CmdControl, Cmd!Verdict
  <1>5. CASE Cmd!ScanLine
    <2>1. /\ UNCHANGED <<proc, cmdStatus, done, cmdPc, ret, reader, timer, signalled, closed>>
          /\ cmdPc = "scan"
      BY <1>5, Zenon DEF Cmd!ScanLine, Cmd!scriptVars
    <2>2. ret' = "none"
      BY <2>1, Zenon DEF CmdControl
    <2> QED BY <2>1, <2>2, Zenon DEF CmdTyped, CmdWaited, CmdControl, Cmd!Verdict
  <1>6. CASE Cmd!ScanEnd
    <2>1. /\ UNCHANGED <<proc, cmdStatus, done, reader, timer, signalled, closed>>
          /\ UNCHANGED <<script, printed>>
          /\ cmdPc = "scan" /\ cmdPc' = "returned" /\ ret' = "nil"
      BY <1>6, Zenon DEF Cmd!ScanEnd, Cmd!scriptVars, Cmd!pipeVars
    <2>2. ~reader \/ proc # "running" \/ closed \/ Cmd!TooLong
      BY <1>6, Zenon DEF Cmd!ScanEnd
    <2>3. Cmd!TooLong' <=> Cmd!TooLong
      BY <2>1, Zenon DEF Cmd!TooLong
    <2>4. proc # "none"
      BY <2>1, Zenon DEF CmdControl
    <2>5. CmdTyped' /\ CmdWaited'
      BY <2>1, Zenon DEF CmdTyped, CmdWaited
    <2>6. CmdControl'
      BY <2>1, <2>4, Zenon DEF CmdControl
    <2>7. proc = "running" => timer /\ signalled /\ (closed \/ Cmd!TooLong)
      BY <2>1, <2>2, Zenon DEF CmdWaited, CmdControl
    <2>8. ~timer => cmdStatus = 0
      BY <2>1, Zenon DEF CmdWaited, CmdControl
    <2> QED BY <2>1, <2>3, <2>5, <2>6, <2>7, <2>8, Zenon DEF Cmd!Verdict
  <1> QED BY <1>1, <1>2, <1>3, <1>4, <1>5, <1>6, Zenon DEF Cmd!CmdRun

-----------------------------------------------------------------------------

\* Whatever the script does and however its end, the goroutine in Wait and the timer
\* interleave, CmdRun returns after the script, or after it has sent SIGTERM to a script
\* whose output cannot be read to the end, and with the script's verdict.
THEOREM VerdictOfTheScript == Cmd!Spec => []Cmd!Verdict
  <1>1. CmdInv /\ [Cmd!Next]_(Cmd!vars) => CmdInv'
    <2>1. ASSUME CmdInv, UNCHANGED Cmd!vars PROVE CmdInv'
      BY <2>1 DEF Cmd!vars, Cmd!scriptVars, Cmd!pipeVars, Cmd!runVars, CmdInv, CmdTyped,
                  CmdWaited, CmdControl, Cmd!Verdict, Cmd!TooLong
    <2> QED BY <2>1, CmdOutsideStep, CmdWaitStep, CmdRunStep, Zenon DEF Cmd!Next
  <1>2. CmdInv => Cmd!Verdict
    BY DEF CmdInv
  <1> QED BY CmdInit, <1>1, <1>2, PTL DEF Cmd!Spec

-----------------------------------------------------------------------------
(* The Allure outputs, for any cases: a suite of version 1 tells all tests *)
(* handed to it, and the attachments of a result of version 2 are on disk. *)

CONSTANTS Cases, Tests1, URIs, MaxCases
VARIABLES format, case, todo, returned, arrays, ptr, result, files, suite, current, onDisk,
          handed

\* Any cases whose database results are a list.
Cases1 == {c \in Tests1 : Len(c.queries) \in Nat}

A == INSTANCE AllureReport WITH ret <- returned

LEMMA Queries == \A c \in Cases1 : Len(c.queries) \in Nat
  BY Zenon DEF Cases1

-----------------------------------------------------------------------------
(* Version 1: the suite is what was handed in, plus the case in progress.  *)

AttachCall == A!Attach("")[1]
SuiteCase  == [status : {"none", "failed", "passed"}, atts : Nat]

\* The suite, the history and the calls left have the shape the Go types give them.
SuiteTyped ==
    /\ suite \in Seq(SuiteCase) /\ handed \in Seq(SuiteCase)
    /\ format = "v1" => todo \in Seq({AttachCall}) /\ returned \in {"idle", "running"}
    /\ format # "v1" => onDisk = "no"

\* Between two tests the suite tells all of them; during a test its last case is the
\* current one and lacks exactly the attachments that are still to be added.
SuiteInv ==
    format = "v1" =>
        /\ returned = "idle" => suite = handed
        /\ returned = "running" =>
             /\ onDisk = "no" /\ Len(case.queries) \in Nat
             /\ Len(suite) = Len(handed) + 1 /\ current = Len(suite)
             /\ \A i \in 1..Len(handed) : suite[i] = handed[i]
             /\ suite[current].atts + Len(todo) = 2 + 2 * Len(case.queries)

V1Inv == SuiteTyped /\ SuiteInv

LEMMA V1Init == A!Init => V1Inv
  BY DEF A!Init, V1Inv, SuiteTyped, SuiteInv

LEMMA StartCaseV1 ==
    ASSUME V1Inv, NEW c \in Cases1, A!StartCase(c)
    PROVE  V1Inv'
  <1> USE DEF V1Inv
  <1>1. /\ format = "v1" /\ returned = "idle" /\ onDisk = "no" /\ suite = handed
        /\ suite \in Seq(SuiteCase) /\ handed \in Seq(SuiteCase)
    BY Zenon DEF A!StartCase, SuiteTyped, SuiteInv
  <1>2. /\ format' = format /\ onDisk' = onDisk /\ handed' = handed /\ case' = c
        /\ returned' = "running" /\ suite' = Append(suite, [status |-> "none", atts |-> 0])
        /\ current' = Len(suite')
        /\ todo' = [i \in 1..(2 + 2 * Len(c.queries)) |-> AttachCall]
    BY Zenon DEF A!StartCase, AttachCall
  <1>3. Len(c.queries) \in Nat
    BY Queries, Zenon
  <1>4. [status |-> "none", atts |-> 0] \in SuiteCase
    BY Zenon DEF SuiteCase
  <1>5. /\ suite' \in Seq(SuiteCase) /\ Len(suite') = Len(suite) + 1
        /\ suite'[Len(suite')].atts = 0
        /\ \A i \in 1..Len(suite) : suite'[i] = suite[i]
    BY <1>1, <1>2, <1>4
  <1>6. todo' \in Seq({AttachCall}) /\ Len(todo') = 2 + 2 * Len(c.queries)
    BY <1>2, <1>3
  <1>7. SuiteTyped'
    BY <1>1, <1>2, <1>5, <1>6, Zenon DEF SuiteTyped
  <1>8. SuiteInv'
    BY <1>1, <1>2, <1>3, <1>5, <1>6 DEF SuiteInv
  <1> QED BY <1>7, <1>8

LEMMA AddAttachmentV1 ==
    ASSUME V1Inv, A!AllureAddAttachment
    PROVE  V1Inv'
  <1> USE DEF V1Inv
  <1>1. /\ format = "v1" /\ returned = "running" /\ todo # <<>> /\ onDisk = "no"
        /\ suite \in Seq(SuiteCase) /\ handed \in Seq(SuiteCase)
        /\ Len(case.queries) \in Nat /\ Len(suite) = Len(handed) + 1
        /\ current = Len(suite) /\ todo \in Seq({AttachCall})
        /\ \A i \in 1..Len(handed) : suite[i] = handed[i]
        /\ suite[current].atts + Len(todo) = 2 + 2 * Len(case.queries)
    BY DEF A!AllureAddAttachment, SuiteTyped, SuiteInv
  <1>2. /\ suite' = [suite EXCEPT ![current].atts = @ + 1] /\ todo' = Tail(todo)
        /\ UNCHANGED <<format, case, returned, current, onDisk, handed>>
    BY Zenon DEF A!AllureAddAttachment
  <1> DEFINE more == [suite[current] EXCEPT !.atts = @ + 1]
  <1>a. suite[current] \in SuiteCase
    BY <1>1
  <1>b. more \in SuiteCase /\ more.atts = suite[current].atts + 1
    BY <1>a DEF SuiteCase
  <1>c. suite' = [suite EXCEPT ![current] = more]
    BY <1>2, Zenon
  <1> HIDE DEF more
  <1>3. /\ suite' \in Seq(SuiteCase) /\ Len(suite') = Len(suite) /\ suite'[current] = more
        /\ \A i \in 1..Len(handed) : suite'[i] = suite[i]
    BY <1>1, <1>b, <1>c
  <1>4. todo' \in Seq({AttachCall}) /\ Len(todo') = Len(todo) - 1
    BY <1>1, <1>2
  <1>5. suite[current].atts \in Nat
    BY <1>a DEF SuiteCase
  <1>6. SuiteTyped'
    BY <1>1, <1>2, <1>3, <1>4 DEF SuiteTyped
  <1>7. SuiteInv'
    BY <1>1, <1>2, <1>3, <1>4, <1>5, <1>b DEF SuiteInv
  <1> QED BY <1>6, <1>7

LEMMA EndCaseV1 ==
    ASSUME V1Inv, A!EndCase
    PROVE  V1Inv'
  <1> USE DEF V1Inv
  <1> DEFINE told   == A!AllureStatus(case.errors)
             whole  == [status |-> told, atts |-> 2 + 2 * Len(case.queries)]
  <1>1. /\ format = "v1" /\ returned = "running" /\ todo = <<>> /\ onDisk = "no"
        /\ suite \in Seq(SuiteCase) /\ handed \in Seq(SuiteCase)
        /\ Len(case.queries) \in Nat /\ Len(suite) = Len(handed) + 1
        /\ current = Len(suite)
        /\ \A i \in 1..Len(handed) : suite[i] = handed[i]
        /\ suite[current].atts + Len(todo) = 2 + 2 * Len(case.queries)
    BY DEF A!EndCase, SuiteTyped, SuiteInv
  <1>2. /\ suite' = [suite EXCEPT ![current].status = told]
        /\ handed' = Append(handed, whole) /\ returned' = "idle"
        /\ UNCHANGED <<format, todo, onDisk>>
    BY DEF A!EndCase
  <1>3. told \in {"failed", "passed"}
    BY Zenon DEF A!AllureStatus, A!Verdict
  <1> HIDE DEF told
  <1>a. suite[current] \in SuiteCase /\ Len(todo) = 0
    BY <1>1
  <1>4. suite[current].atts = 2 + 2 * Len(case.queries)
    BY <1>1, <1>a DEF SuiteCase
  <1>5. whole \in SuiteCase
    BY <1>1, <1>3 DEF SuiteCase
  <1>b. [suite[current] EXCEPT !.status = told] = whole
    BY <1>a, <1>4 DEF SuiteCase
  <1>c. suite' = [suite EXCEPT ![current] = whole]
    BY <1>2, <1>b, Zenon
  <1> HIDE DEF whole
  <1>6. /\ suite' \in Seq(SuiteCase) /\ Len(suite') = Len(suite) /\ suite'[current] = whole
        /\ \A i \in 1..Len(handed) : suite'[i] = suite[i]
    BY <1>1, <1>c, <1>5
  <1>7. /\ handed' \in Seq(SuiteCase) /\ Len(handed') = Len(handed) + 1
        /\ handed'[Len(handed) + 1] = whole
        /\ \A i \in 1..Len(handed) : handed'[i] = handed[i]
    BY <1>1, <1>2, <1>5
  <1>8. suite' = handed'
    BY <1>1, <1>6, <1>7
  <1>9. SuiteTyped'
    BY <1>1, <1>2, <1>6, <1>7 DEF SuiteTyped
  <1> QED BY <1>1, <1>2, <1>8, <1>9, Zenon DEF SuiteInv

\* A suite that is on disk has, in order, one case for each test handed to the output,
\* with the verdict and the attachments of that test, whatever the tests and however
\* many.
THEOREM SuiteIsComplete == A!Spec => []A!SuiteTellsAll
  <1>1. ASSUME V1Inv, A!Next PROVE V1Inv'
    <2>1. CASE \E c \in Cases1 : A!StartCase(c)
      BY <1>1, <2>1, StartCaseV1
    <2>2. CASE A!AllureAddAttachment
      BY <1>1, <2>2, AddAttachmentV1
    <2>3. CASE A!EndCase
      BY <1>1, <2>3, EndCaseV1, Zenon
    <2>4. CASE \E ok \in BOOLEAN : A!Finalize(ok)
      <3>1. /\ format = "v1" /\ returned = "idle"
            /\ UNCHANGED <<format, case, todo, returned, suite, current, handed>>
        BY <2>4, Zenon DEF A!Finalize
      <3> QED BY <1>1, <3>1, Zenon DEF V1Inv, SuiteTyped, SuiteInv
    <2>5. CASE \/ \E c \in Cases : A!Process(c)
               \/ A!ResultStartStep \/ A!StepStartSubStep \/ A!StepFinish \/ A!Returned
               \/ \E ok \in BOOLEAN : A!StepAddAttachment(ok) \/ A!Save(ok)
      <3>1. format = "v2" /\ UNCHANGED <<format, suite, current, onDisk, handed>>
        BY <2>5, Zenon DEF A!Process, A!ResultStartStep, A!StepStartSubStep, A!StepFinish,
          A!Returned, A!StepAddAttachment, A!Save, A!Call, A!v1Vars
      <3> QED BY <1>1, <3>1 DEF V1Inv, SuiteTyped, SuiteInv
    <2>6. CASE UNCHANGED A!vars
      BY <1>1, <2>6, Zenon DEF A!vars, A!v1Vars, A!tree, V1Inv, SuiteTyped, SuiteInv
    <2> QED BY <1>1, <2>1, <2>2, <2>3, <2>4, <2>5, <2>6, Zenon DEF A!Next
  <1>2. ASSUME V1Inv, UNCHANGED A!vars PROVE V1Inv'
    BY <1>2, Zenon DEF A!vars, A!v1Vars, A!tree, V1Inv, SuiteTyped, SuiteInv
  <1>3. V1Inv => A!SuiteTellsAll
    BY Zenon DEF V1Inv, SuiteTyped, SuiteInv, A!SuiteTellsAll
  <1> QED BY V1Init, <1>1, <1>2, <1>3, PTL DEF A!Spec

-----------------------------------------------------------------------------
(* Version 2: the steps in memory refer to attachments on disk only.       *)

IsSeq(s)    == Len(s) \in Nat /\ s = [i \in 1..Len(s) |-> s[i]]
Ptr(h, p)   == p.a \in 1..Len(h) /\ p.n \in 1..Len(h[p.a])
Slice(h, s) == s = A!Nil \/ Ptr(h, s)

\* A step as StartStep makes it: its substeps are a slice of an array there is, its
\* attachments are on disk.
Cell(h, disk, x) ==
    {"steps", "atts"} \subseteq DOMAIN x /\ Slice(h, x.steps) /\ x.atts \subseteq disk

Heap(h, disk) ==
    /\ IsSeq(h)
    /\ \A a \in 1..Len(h) : IsSeq(h[a]) /\ \A n \in 1..Len(h[a]) : Cell(h, disk, h[a][n])

\* The arrays are only added to: what was a pointer or a slice stays one.
Grown(g, h) == Len(g) <= Len(h) /\ \A a \in 1..Len(g) : Len(h[a]) = Len(g[a])

TreeInv ==
    /\ Heap(arrays, files) /\ Slice(arrays, result.steps) /\ "steps" \in DOMAIN result
    /\ \A v \in DOMAIN ptr : Ptr(arrays, ptr[v])

LEMMA GrownPtr ==
    ASSUME NEW g, NEW h, Len(g) \in Nat, Len(h) \in Nat, Grown(g, h), NEW p, Ptr(g, p)
    PROVE  Ptr(h, p)
  BY DEF Ptr, Grown

LEMMA GrownSlice ==
    ASSUME NEW g, NEW h, Len(g) \in Nat, Len(h) \in Nat, Grown(g, h), NEW s, Slice(g, s)
    PROVE  Slice(h, s)
  BY GrownPtr, Zenon DEF Slice

LEMMA GrownCell ==
    ASSUME NEW g, NEW h, Len(g) \in Nat, Len(h) \in Nat, Grown(g, h),
           NEW disk, NEW x, Cell(g, disk, x)
    PROVE  Cell(h, disk, x)
  BY GrownSlice DEF Cell

LEMMA ListIsSeq ==
    ASSUME NEW n \in Nat, NEW s, s = [i \in 1..n |-> s[i]]
    PROVE  IsSeq(s) /\ Len(s) = n
  <1> DEFINE S == {s[i] : i \in 1..n}
  <1>1. s \in [1..n -> S]
    BY Zenon
  <1> HIDE DEF S
  <1>2. s \in Seq(S) /\ Len(s) = n
    BY <1>1
  <1> QED BY <1>2, Zenon DEF IsSeq

LEMMA AppendSeq ==
    ASSUME NEW s, IsSeq(s), NEW e
    PROVE  /\ IsSeq(Append(s, e)) /\ Len(Append(s, e)) = Len(s) + 1
           /\ Append(s, e)[Len(s) + 1] = e /\ \A i \in 1..Len(s) : Append(s, e)[i] = s[i]
  <1> DEFINE S == {s[i] : i \in 1..Len(s)} \union {e}
  <1>1. s \in Seq(S) /\ e \in S
    BY DEF IsSeq
  <1> HIDE DEF S
  <1>2. /\ Append(s, e) \in Seq(S) /\ Len(Append(s, e)) = Len(s) + 1
        /\ Append(s, e)[Len(s) + 1] = e /\ \A i \in 1..Len(s) : Append(s, e)[i] = s[i]
    BY <1>1
  <1>3. \A q \in Seq(S) : IsSeq(q)
    BY DEF IsSeq
  <1> QED BY <1>2, <1>3, Zenon

\* One cell of one array replaced.
LEMMA SetCell ==
    ASSUME NEW h, IsSeq(h), \A a \in 1..Len(h) : IsSeq(h[a]), NEW p, Ptr(h, p), NEW x
    PROVE  LET g == [h EXCEPT ![p.a][p.n] = x] IN
           /\ IsSeq(g) /\ Len(g) = Len(h) /\ Grown(h, g)
           /\ \A a \in 1..Len(g) : IsSeq(g[a]) /\ Len(g[a]) = Len(h[a])
           /\ \A a \in 1..Len(g) : \A n \in 1..Len(g[a]) :
                 g[a][n] = IF a = p.a /\ n = p.n THEN x ELSE h[a][n]
  <1> DEFINE row == [h[p.a] EXCEPT ![p.n] = x]
             g == [h EXCEPT ![p.a] = row]
  <1>1. /\ p.a \in 1..Len(h) /\ p.n \in 1..Len(h[p.a]) /\ IsSeq(h[p.a])
        /\ Len(h) \in Nat /\ Len(h[p.a]) \in Nat
    BY Zenon DEF Ptr, IsSeq
  <1>2. row = [i \in 1..Len(h[p.a]) |-> IF i = p.n THEN x ELSE h[p.a][i]]
    BY <1>1, Zenon DEF IsSeq
  <1>3. IsSeq(row) /\ Len(row) = Len(h[p.a])
    BY <1>1, <1>2, ListIsSeq, Zenon
  <1> HIDE DEF row
  <1>4. g = [a \in 1..Len(h) |-> IF a = p.a THEN row ELSE h[a]]
    BY <1>1, Zenon DEF IsSeq
  <1>5. IsSeq(g) /\ Len(g) = Len(h)
    BY <1>1, <1>4, ListIsSeq, Zenon
  <1>6. \A a \in 1..Len(h) : g[a] = IF a = p.a THEN row ELSE h[a]
    BY <1>4
  <1>7. [h EXCEPT ![p.a][p.n] = x] = g
    BY Zenon DEF row
  <1> HIDE DEF g
  <1>8. \A a \in 1..Len(g) : IsSeq(g[a]) /\ Len(g[a]) = Len(h[a])
    BY <1>3, <1>5, <1>6, Zenon
  <1>9. \A a \in 1..Len(g) : \A n \in 1..Len(g[a]) :
            g[a][n] = IF a = p.a /\ n = p.n THEN x ELSE h[a][n]
    <2> TAKE a \in 1..Len(g)
    <2> TAKE n \in 1..Len(g[a])
    <2>1. CASE a = p.a  BY <1>2, <1>5, <1>6, <1>8, <2>1, Zenon
    <2>2. CASE a # p.a  BY <1>5, <1>6, <2>2, Zenon
    <2> QED BY <2>1, <2>2, Zenon
  <1>10. Grown(h, g)
    BY <1>1, <1>5, <1>8 DEF Grown
  <1> QED BY <1>5, <1>7, <1>8, <1>9, <1>10, Zenon

LEMMA SetCellHeap ==
    ASSUME NEW h, NEW disk, Heap(h, disk), NEW p, Ptr(h, p), NEW x, Cell(h, disk, x)
    PROVE  LET g == [h EXCEPT ![p.a][p.n] = x] IN
           Heap(g, disk) /\ Grown(h, g) /\ Len(g) \in Nat
  <1> DEFINE g == [h EXCEPT ![p.a][p.n] = x]
  <1>1. IsSeq(h) /\ \A a \in 1..Len(h) : IsSeq(h[a])
    BY Zenon DEF Heap
  <1>2. /\ IsSeq(g) /\ Len(g) = Len(h) /\ Grown(h, g)
        /\ \A a \in 1..Len(g) : IsSeq(g[a]) /\ Len(g[a]) = Len(h[a])
        /\ \A a \in 1..Len(g) : \A n \in 1..Len(g[a]) :
              g[a][n] = IF a = p.a /\ n = p.n THEN x ELSE h[a][n]
    BY <1>1, SetCell
  <1> HIDE DEF g
  <1>3. Len(g) \in Nat /\ Len(h) \in Nat
    BY <1>1, <1>2, Zenon DEF IsSeq
  <1>4. \A a \in 1..Len(g) : \A n \in 1..Len(g[a]) : Cell(h, disk, g[a][n])
    BY <1>2, Zenon DEF Heap
  <1>5. \A a \in 1..Len(g) : \A n \in 1..Len(g[a]) : Cell(g, disk, g[a][n])
    BY <1>2, <1>3, <1>4, GrownCell
  <1>6. Heap(g, disk)
    BY <1>2, <1>5, Zenon DEF Heap
  <1> QED BY <1>2, <1>3, <1>6, Zenon DEF g

LEMMA PushHeap ==
    ASSUME NEW h, NEW disk, Heap(h, disk), NEW row, IsSeq(row),
           \A n \in 1..Len(row) : Cell(h, disk, row[n])
    PROVE  LET g == Append(h, row) IN
           /\ Heap(g, disk) /\ Grown(h, g)
           /\ Len(h) \in Nat /\ Len(g) = Len(h) + 1 /\ g[Len(h) + 1] = row
  <1> DEFINE g == Append(h, row)
  <1>1. IsSeq(h) /\ \A a \in 1..Len(h) : IsSeq(h[a])
    BY Zenon DEF Heap
  <1>2. /\ IsSeq(g) /\ Len(g) = Len(h) + 1 /\ g[Len(h) + 1] = row
        /\ \A a \in 1..Len(h) : g[a] = h[a]
    BY <1>1, AppendSeq
  <1> HIDE DEF g
  <1>3. Len(g) \in Nat /\ Len(h) \in Nat
    BY <1>1, <1>2, Zenon DEF IsSeq
  <1>4. Grown(h, g)
    BY <1>2, <1>3 DEF Grown
  <1>5. ASSUME NEW a \in 1..Len(g)
        PROVE  IsSeq(g[a]) /\ \A n \in 1..Len(g[a]) : Cell(h, disk, g[a][n])
    <2>1. CASE a = Len(h) + 1
      BY <1>2, <2>1, Zenon
    <2>2. CASE a # Len(h) + 1
      <3>1. a \in 1..Len(h) /\ g[a] = h[a]
        <4>1. Len(g) = Len(h) + 1  BY <1>2, Zenon
        <4>2. a \in 1..Len(h)  BY <1>3, <2>2, <4>1
        <4> QED BY <1>2, <4>2, Zenon
      <3> QED BY <3>1, Zenon DEF Heap
    <2> QED BY <2>1, <2>2, Zenon
  <1>6. \A a \in 1..Len(g) : \A n \in 1..Len(g[a]) : Cell(g, disk, g[a][n])
    BY <1>3, <1>4, <1>5, GrownCell
  <1>7. Heap(g, disk)
    BY <1>2, <1>5, <1>6, Zenon DEF Heap
  <1> QED BY <1>2, <1>3, <1>4, <1>7, Zenon DEF g

LEMMA NextInside == \A k \in Nat : k + 1 \in Nat /\ k + 1 \in 1..(k + 1)
  OBVIOUS

\* append: in the array of the slice, or in a copy of it.
LEMMA GoAppendHeap ==
    ASSUME Heap(arrays, files), NEW s, Slice(arrays, s), NEW x, Cell(arrays, files, x)
    PROVE  LET new == A!GoAppend(s, x) IN
           /\ Heap(new.heap, files) /\ Grown(arrays, new.heap)
           /\ Len(arrays) \in Nat /\ Len(new.heap) \in Nat /\ Ptr(new.heap, new.slice)
  <1> DEFINE old  == IF s.a = 0 THEN <<>> ELSE arrays[s.a]
             cap  == IF s.n = 0 THEN 1 ELSE 2 * s.n
             copy == [i \in 1..cap |-> IF i <= s.n THEN old[i] ELSE x]
             new  == A!GoAppend(s, x)
  <1>1. Len(arrays) \in Nat /\ \A a \in 1..Len(arrays) : Len(arrays[a]) \in Nat
    BY Zenon DEF Heap, IsSeq
  <1>2. CASE s.n < Len(old)
    <2>1. s.a # 0 /\ s.a \in 1..Len(arrays) /\ s.n + 1 \in 1..Len(arrays[s.a])
      BY <1>1, <1>2 DEF Slice, Ptr, A!Nil
    <2> DEFINE p == [a |-> s.a, n |-> s.n + 1]
    <2>2. Ptr(arrays, p)
      BY <2>1, Zenon DEF Ptr
    <2>3. new = [heap |-> [arrays EXCEPT ![p.a][p.n] = x], slice |-> p]
      BY <1>2, Zenon DEF A!GoAppend
    <2> HIDE DEF p, new
    <2>4. LET g == [arrays EXCEPT ![p.a][p.n] = x] IN
          Heap(g, files) /\ Grown(arrays, g) /\ Len(g) \in Nat
      BY <2>2, SetCellHeap, Zenon
    <2>5. /\ Heap(new.heap, files) /\ Grown(arrays, new.heap) /\ Len(new.heap) \in Nat
          /\ new.slice = p
      BY <2>3, <2>4
    <2> QED BY <1>1, <2>2, <2>5, GrownPtr, Zenon DEF new
  <1>3. CASE ~(s.n < Len(old))
    <2>1. s.n \in Nat /\ cap \in Nat /\ s.n + 1 \in 1..cap
      BY <1>1 DEF Slice, Ptr, A!Nil
    <2>2. \A i \in 1..s.n : Cell(arrays, files, old[i])
      BY <1>1 DEF Slice, Ptr, A!Nil, Heap
    <2>3. new = [heap  |-> Append(arrays, copy),
                 slice |-> [a |-> Len(arrays) + 1, n |-> s.n + 1]]
      BY <1>3, Zenon DEF A!GoAppend
    <2> HIDE DEF old, cap, new
    <2>4. IsSeq(copy) /\ Len(copy) = cap
      BY <2>1, ListIsSeq, Zenon
    <2>5. \A i \in 1..Len(copy) : Cell(arrays, files, copy[i])
      BY <2>1, <2>2, <2>4
    <2> HIDE DEF copy
    <2>6. LET g == Append(arrays, copy) IN
          /\ Heap(g, files) /\ Grown(arrays, g)
          /\ Len(arrays) \in Nat /\ Len(g) = Len(arrays) + 1 /\ g[Len(arrays) + 1] = copy
      BY <2>4, <2>5, PushHeap, Zenon
    <2>7. /\ Heap(new.heap, files) /\ Grown(arrays, new.heap)
          /\ Len(new.heap) = Len(arrays) + 1 /\ new.heap[Len(arrays) + 1] = copy
          /\ new.slice.a = Len(arrays) + 1 /\ new.slice.n = s.n + 1
      BY <2>3, <2>6, Zenon
    <2>8. Len(arrays) + 1 \in Nat /\ Len(arrays) + 1 \in 1..(Len(arrays) + 1)
      BY <1>1, NextInside, Zenon
    <2>9. Ptr(new.heap, new.slice)
      BY <2>1, <2>4, <2>7, <2>8, Zenon DEF Ptr
    <2> QED BY <1>1, <2>7, <2>8, <2>9, Zenon DEF new
  <1> QED BY <1>2, <1>3, Zenon

LEMMA NewStepCell == \A name : Cell(arrays, files, A!NewStep(name))
  BY Zenon DEF Cell, A!NewStep, Slice

\* What a grown heap and an assigned pointer leave of the invariant.
LEMMA TreeGrows ==
    ASSUME TreeInv, NEW h, Heap(h, files), Grown(arrays, h), Len(h) \in Nat,
           arrays' = h, files' = files, "steps" \in DOMAIN result', Slice(h, result'.steps),
           \/ UNCHANGED ptr
           \/ \E v, p : A!Assign(v, p) /\ Ptr(h, p)
    PROVE  TreeInv'
  <1>1. Len(arrays) \in Nat /\ \A v \in DOMAIN ptr : Ptr(arrays, ptr[v])
    BY Zenon DEF TreeInv, Heap, IsSeq
  <1>2. \A v \in DOMAIN ptr : Ptr(h, ptr[v])
    BY <1>1, GrownPtr, Zenon
  <1>3. \A v \in DOMAIN ptr' : Ptr(h, ptr'[v])
    <2>1. CASE UNCHANGED ptr
      BY <1>2, <2>1, Zenon
    <2>2. CASE \E v, p : A!Assign(v, p) /\ Ptr(h, p)
      BY <1>2, <2>2 DEF A!Assign
    <2> QED BY <2>1, <2>2, Zenon
  <1> QED BY <1>3, Zenon DEF TreeInv

LEMMA StartStepTree ==
    ASSUME TreeInv, A!ResultStartStep
    PROVE  TreeInv'
  <1> DEFINE x   == A!NewStep(Head(todo).name)
             new == A!GoAppend(result.steps, x)
  <1>1. /\ arrays' = new.heap /\ result' = [result EXCEPT !.steps = new.slice]
        /\ A!Assign(Head(todo).var, new.slice) /\ files' = files
    BY Zenon DEF A!ResultStartStep
  <1>2. Heap(arrays, files) /\ Slice(arrays, result.steps) /\ "steps" \in DOMAIN result
    BY Zenon DEF TreeInv
  <1>3. Cell(arrays, files, x)
    BY NewStepCell, Zenon
  <1> HIDE DEF x
  <1>4. /\ Heap(new.heap, files) /\ Grown(arrays, new.heap)
        /\ Len(new.heap) \in Nat /\ Ptr(new.heap, new.slice)
    BY <1>2, <1>3, GoAppendHeap
  <1> HIDE DEF new
  <1>5. "steps" \in DOMAIN result' /\ Slice(new.heap, result'.steps)
    BY <1>1, <1>2, <1>4, Zenon DEF Slice
  <1> QED BY <1>1, <1>4, <1>5, TreeGrows, Zenon

LEMMA StartSubStepTree ==
    ASSUME TreeInv, A!StepStartSubStep
    PROVE  TreeInv'
  <1> DEFINE up  == ptr[Head(todo).up]
             x   == A!NewStep(Head(todo).name)
             new == A!GoAppend(A!At(up).steps, x)
  <1>1. /\ Head(todo).up \in DOMAIN ptr
        /\ arrays' = [new.heap EXCEPT ![up.a][up.n].steps = new.slice]
        /\ A!Assign(Head(todo).var, new.slice) /\ files' = files /\ result' = result
    BY Zenon DEF A!StepStartSubStep, A!Assigned
  <1>2. /\ Heap(arrays, files) /\ Slice(arrays, result.steps) /\ "steps" \in DOMAIN result
        /\ Ptr(arrays, up)
    BY <1>1, Zenon DEF TreeInv
  <1>3. Slice(arrays, A!At(up).steps) /\ Cell(arrays, files, x)
    BY <1>2, NewStepCell, Zenon DEF A!At, Ptr, Heap, Cell
  <1> HIDE DEF up, x
  <1>4. /\ Heap(new.heap, files) /\ Grown(arrays, new.heap) /\ Len(arrays) \in Nat
        /\ Len(new.heap) \in Nat /\ Ptr(new.heap, new.slice)
    BY <1>2, <1>3, GoAppendHeap, Zenon
  <1> HIDE DEF new
  <1> DEFINE g == new.heap
             y == [g[up.a][up.n] EXCEPT !.steps = new.slice]
             h == [g EXCEPT ![up.a][up.n] = y]
  <1>5. arrays' = h
    BY <1>1, Zenon
  <1>6. Ptr(g, up)
    BY <1>2, <1>4, GrownPtr
  <1>7. Cell(g, files, g[up.a][up.n])
    BY <1>4, <1>6, Zenon DEF Heap, Ptr
  <1>8. Cell(g, files, y)
    BY <1>4, <1>7, Zenon DEF Cell, Slice
  <1> HIDE DEF y
  <1>9. Heap(h, files) /\ Grown(g, h) /\ Len(h) \in Nat
    BY <1>4, <1>6, <1>8, SetCellHeap, Zenon
  <1> HIDE DEF h
  <1>10. Grown(arrays, h)
    BY <1>4, <1>9 DEF Grown
  <1>11. Ptr(h, new.slice) /\ Slice(h, result.steps)
    BY <1>2, <1>4, <1>9, <1>10, GrownPtr, GrownSlice
  <1> QED BY <1>1, <1>2, <1>5, <1>9, <1>10, <1>11, TreeGrows

\* Finish and AddAttachment change a cell in place.
LEMMA FinishTree ==
    ASSUME TreeInv, A!StepFinish
    PROVE  TreeInv'
  <1> DEFINE p == ptr[Head(todo).var]
             y == [arrays[p.a][p.n] EXCEPT !.status = Head(todo).status]
             h == [arrays EXCEPT ![p.a][p.n] = y]
  <1>1. /\ Head(todo).var \in DOMAIN ptr /\ arrays' = h
        /\ files' = files /\ result' = result /\ ptr' = ptr
    BY Zenon DEF A!StepFinish, A!Assigned
  <1>2. /\ Heap(arrays, files) /\ Slice(arrays, result.steps) /\ "steps" \in DOMAIN result
        /\ Ptr(arrays, p) /\ Len(arrays) \in Nat
    BY <1>1, Zenon DEF TreeInv, Heap, IsSeq
  <1> HIDE DEF p
  <1>3. Cell(arrays, files, arrays[p.a][p.n])
    BY <1>2, Zenon DEF Heap, Ptr
  <1>4. Cell(arrays, files, y)
    BY <1>3, Zenon DEF Cell
  <1> HIDE DEF y
  <1>5. Heap(h, files) /\ Grown(arrays, h) /\ Len(h) \in Nat
    BY <1>2, <1>4, SetCellHeap, Zenon
  <1> HIDE DEF h
  <1>6. Slice(h, result.steps)
    BY <1>2, <1>5, GrownSlice, Zenon
  <1> QED BY <1>1, <1>2, <1>5, <1>6, TreeGrows, Zenon

LEMMA AddAttachmentTree ==
    ASSUME TreeInv, NEW ok \in BOOLEAN, A!StepAddAttachment(ok)
    PROVE  TreeInv'
  <1> DEFINE p == ptr[Head(todo).var]
             y == [arrays[p.a][p.n] EXCEPT !.atts = @ \cup {Len(todo)}]
             h == [arrays EXCEPT ![p.a][p.n] = y]
             disk == files \cup {Len(todo)}
  <1>1. CASE ok
    <2>1. /\ Head(todo).var \in DOMAIN ptr /\ arrays' = h
          /\ files' = disk /\ result' = result /\ ptr' = ptr
      BY <1>1, Zenon DEF A!StepAddAttachment, A!Assigned
    <2>2. /\ Heap(arrays, files) /\ Slice(arrays, result.steps) /\ "steps" \in DOMAIN result
          /\ Ptr(arrays, p) /\ Len(arrays) \in Nat
          /\ \A v \in DOMAIN ptr : Ptr(arrays, ptr[v])
      BY <2>1, Zenon DEF TreeInv, Heap, IsSeq
    <2> HIDE DEF p
    <2>3. Cell(arrays, files, arrays[p.a][p.n])
      BY <2>2, Zenon DEF Heap, Ptr
    <2>4. Cell(arrays, disk, y)
      BY <2>3, Zenon DEF Cell
    <2>5. Heap(arrays, disk)
      BY <2>2, Zenon DEF Heap, Cell
    <2> HIDE DEF y, disk
    <2>6. Heap(h, disk) /\ Grown(arrays, h) /\ Len(h) \in Nat
      BY <2>2, <2>4, <2>5, SetCellHeap, Zenon
    <2> HIDE DEF h
    <2>7. Slice(h, result.steps) /\ \A v \in DOMAIN ptr : Ptr(h, ptr[v])
      BY <2>2, <2>6, GrownSlice, GrownPtr, Zenon
    <2> QED BY <2>1, <2>2, <2>6, <2>7, Zenon DEF TreeInv
  <1>2. CASE ~ok
    <2>1. UNCHANGED <<arrays, files, result, ptr>>
      BY <1>2, Zenon DEF A!StepAddAttachment
    <2> QED BY <2>1, Zenon DEF TreeInv
  <1> QED BY <1>1, <1>2

LEMMA EmptyTree ==
    ASSUME NEW disk
    PROVE  Heap(<<>>, disk) /\ Slice(<<>>, A!Nil)
  BY DEF Heap, IsSeq, Slice

LEMMA TreeStep ==
    ASSUME TreeInv, A!Next
    PROVE  TreeInv'
  <1>1. CASE \/ \E c \in Cases1 : A!StartCase(c)
             \/ \E ok \in BOOLEAN : A!Save(ok) \/ A!Finalize(ok)
             \/ A!AllureAddAttachment \/ A!EndCase \/ UNCHANGED A!vars
    <2>1. UNCHANGED <<arrays, files, result, ptr>>
      BY <1>1, Zenon DEF A!StartCase, A!Save, A!Finalize, A!AllureAddAttachment, A!EndCase,
        A!vars, A!tree
    <2> QED BY <2>1 DEF TreeInv
  <1>2. CASE \E c \in Cases : A!Process(c)
    <2>1. /\ UNCHANGED <<arrays, files, ptr>> /\ "steps" \in DOMAIN result'
          /\ result'.steps = A!Nil
      <3>1. /\ UNCHANGED <<arrays, files, ptr>>
            /\ \E st : result' = [steps |-> A!Nil, status |-> st]
        BY <1>2, Zenon DEF A!Process
      <3> QED BY <3>1
    <2> QED BY <2>1, Zenon DEF TreeInv, Slice
  <1>3. CASE A!Returned
    <2>1. /\ arrays' = <<>> /\ ptr' = <<>> /\ "steps" \in DOMAIN result'
          /\ result'.steps = A!Nil
      BY <1>3, Zenon DEF A!Returned
    <2> QED BY <2>1, EmptyTree DEF TreeInv
  <1> QED BY <1>1, <1>2, <1>3, StartStepTree, StartSubStepTree, FinishTree,
            AddAttachmentTree, Zenon DEF A!Next

\* The steps reached from a slice are cells of the heap.
LEMMA StepsAreCells ==
    ASSUME TreeInv
    PROVE  \A x \in A!Steps(result.steps) : Cell(arrays, files, x)
  <1>1. ASSUME NEW s, Slice(arrays, s), NEW x \in A!Cells(s) PROVE Cell(arrays, files, x)
    <2>1. PICK i \in 1..s.n : x = arrays[s.a][i]
      BY <1>1, Zenon DEF A!Cells
    <2>2. s # A!Nil
      BY <2>1 DEF A!Nil
    <2>3. s.a \in 1..Len(arrays) /\ s.n \in 1..Len(arrays[s.a])
      BY <1>1, <2>2, Zenon DEF Slice, Ptr
    <2>4. /\ Len(arrays[s.a]) \in Nat
          /\ \A n \in 1..Len(arrays[s.a]) : Cell(arrays, files, arrays[s.a][n])
      BY <2>3, Zenon DEF TreeInv, Heap, IsSeq
    <2>5. i \in 1..Len(arrays[s.a])
      BY <2>1, <2>3, <2>4
    <2> QED BY <2>1, <2>4, <2>5, Zenon
  <1>2. ASSUME NEW X, \A x \in X : Cell(arrays, files, x), NEW y \in A!BelowAll(X)
        PROVE  Cell(arrays, files, y)
    BY <1>1, <1>2, Zenon DEF A!BelowAll, A!Below, Cell
  <1> DEFINE top       == A!Cells(result.steps)
             services  == A!BelowAll(top)
             groups    == A!BelowAll(services)
             endpoints == A!BelowAll(groups)
  <1>3. \A x \in top : Cell(arrays, files, x)
    BY <1>1, Zenon DEF TreeInv
  <1> HIDE DEF top
  <1>4. \A x \in services : Cell(arrays, files, x)
    BY <1>2, <1>3, Zenon
  <1> HIDE DEF services
  <1>5. \A x \in groups : Cell(arrays, files, x)
    BY <1>2, <1>4, Zenon
  <1> HIDE DEF groups
  <1>6. \A x \in endpoints : Cell(arrays, files, x)
    BY <1>2, <1>5
  <1> HIDE DEF endpoints
  <1>7. \A x \in A!BelowAll(endpoints) : Cell(arrays, files, x)
    BY <1>2, <1>6, Zenon
  <1>8. A!Steps(result.steps) =
            top \cup services \cup groups \cup endpoints \cup A!BelowAll(endpoints)
    BY DEF A!Steps, top, services, groups, endpoints
  <1> QED BY <1>3, <1>4, <1>5, <1>6, <1>7, <1>8

\* Every attachment a saved result refers to is on disk, whatever append does with the
\* arrays of the steps and whichever attachments cannot be written.
THEOREM AttachmentsAreOnDisk == A!Spec => []A!AttachmentsOnDisk
  <1>1. A!Init => TreeInv
    BY EmptyTree DEF A!Init, TreeInv
  <1>2. TreeInv /\ UNCHANGED A!vars => TreeInv'
    BY Zenon DEF A!vars, A!tree, TreeInv
  <1>3. TreeInv => A!AttachmentsOnDisk
    BY StepsAreCells DEF A!AttachmentsOnDisk, Cell
  <1> QED BY <1>1, <1>2, <1>3, TreeStep, PTL DEF A!Spec
=============================================================================
