------------------------------ MODULE TestRun -------------------------------
(***************************************************************************)
(* What a run of gonkey promises to whoever reads its exit code: the tests *)
(* are judged one after the other, each exactly as its status in the YAML  *)
(* file and the statuses of the others ask for, a test that could not be   *)
(* run ends the run, and only a run in which every test that was meant to  *)
(* run passed is green.  Runner is shown to implement this.                *)
(***************************************************************************)
EXTENDS Integers

CONSTANT NTests     \* tests of the run

Test    == 1..NTests
Status  == {"", "focus", "broken", "skipped"}
Verdict == {"waiting", "skipped", "passed", "failed", "error"}

VARIABLES
    written,   \* the statuses in the YAML files
    verdict,   \* verdict[t]: what has become of t
    exit       \* exit code; -1: the run is not over

vars == <<written, verdict, exit>>

\* With a focused test the focused ones, otherwise all but the broken and skipped.
Meant(t) ==
    IF \E u \in Test : written[u] = "focus" THEN written[t] = "focus"
    ELSE written[t] \notin {"broken", "skipped"}

Init ==
    /\ written \in [Test -> Status]
    /\ verdict = [t \in Test |-> "waiting"]
    /\ exit = -1

\* The next test is skipped, passes, fails, or could not be run.
Judge(t) ==
    /\ exit = -1
    /\ verdict[t] = "waiting"
    /\ \A u \in Test : u < t => verdict[u] \notin {"waiting", "error"}
    /\ \E v \in IF Meant(t) THEN {"passed", "failed", "error"} ELSE {"skipped"} :
          verdict' = [verdict EXCEPT ![t] = v]
    /\ UNCHANGED <<written, exit>>

\* All tests were judged, one could not be run, or none could be loaded.
Finish ==
    /\ exit = -1
    /\ \/ \A t \in Test : verdict[t] # "waiting"
       \/ \E t \in Test : verdict[t] = "error"
       \/ \A t \in Test : verdict[t] = "waiting"
    /\ exit' \in {0, 1}
    /\ exit' = 0 => \A t \in Test : verdict[t] \in {"passed", "skipped"}
    /\ exit' = 1 => \/ \E t \in Test : verdict[t] \in {"failed", "error"}
                    \/ \A t \in Test : verdict[t] = "waiting"
    /\ UNCHANGED <<written, verdict>>

Next == Finish \/ \E t \in Test : Judge(t)

Spec == Init /\ [][Next]_vars
=============================================================================
