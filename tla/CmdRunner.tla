------------------------------ MODULE CmdRunner ------------------------------
(***************************************************************************)
(* cmd_runner.CmdRun: a shell script, the goroutine in cmd.Wait, the timer *)
(* and the pipe of the script's standard output.  Nobody reads the pipe    *)
(* while the script runs; Wait reaps the process and closes the pipe.      *)
(***************************************************************************)
EXTENDS Integers

CONSTANTS
    MaxLines,  \* bound: lines a script writes
    Capacity   \* lines the pipe holds

ASSUME ConstAssumption == MaxLines \in Nat /\ Capacity \in Nat \ {0}

VARIABLES
    script,    \* what the script is like
    proc,      \* the process: none, running, zombie, reaped
    signalled, \* SIGTERM was sent to its process group
    status,    \* how it ended: an exit code, -1 by the signal
    wrote,     \* lines it has written
    closed,    \* it has closed its standard output
    pipe,      \* lines in the pipe
    reader,    \* our end of the pipe is open
    done,      \* the channel of the waiting goroutine: empty, ok or error
    timer,     \* the timeout has passed
    pc,        \* where CmdRun is
    printed,   \* lines CmdRun printed
    ret        \* what it returned: none (running), nil or error

scriptVars == <<script, proc, signalled, status, wrote, closed>>
pipeVars   == <<pipe, reader>>
runVars    == <<pc, printed, ret>>
vars       == <<scriptVars, pipeVars, done, timer, runVars>>

\* `long`: which of its lines (0: none) is longer than bufio.MaxScanTokenSize;
\* `closes`: it may close its standard output before it ends.
Script == [lines : 0..MaxLines, long : 0..MaxLines, code : {0, 1}, endless : BOOLEAN,
           ignoresTerm : BOOLEAN, closes : BOOLEAN]

Init ==
    /\ script \in Script
    /\ proc = "none" /\ signalled = FALSE /\ status = 0
    /\ wrote = 0 /\ closed = FALSE
    /\ pipe = 0 /\ reader = TRUE /\ done = "empty" /\ timer = FALSE
    /\ pc = "start" /\ printed = 0 /\ ret = "none"

-----------------------------------------------------------------------------
(* The script, the kernel and the timer.                                   *)

\* A write blocks while the pipe is full.
Write ==
    /\ proc = "running" /\ ~closed /\ wrote < script.lines /\ pipe < Capacity
    /\ wrote' = wrote + 1 /\ pipe' = pipe + 1
    /\ UNCHANGED <<script, proc, signalled, status, closed, reader, done, timer, runVars>>

CloseOutput ==
    /\ proc = "running" /\ script.closes /\ ~closed
    /\ closed' = TRUE
    /\ UNCHANGED <<script, proc, signalled, status, wrote, pipeVars, done, timer, runVars>>

\* The script comes to its end, unless it is an endless one.
Exit ==
    /\ proc = "running" /\ (closed \/ wrote = script.lines) /\ ~script.endless
    /\ proc' = "zombie" /\ status' = script.code
    /\ UNCHANGED <<script, signalled, wrote, closed, pipeVars, done, timer, runVars>>

\* An endless script goes on.
Busy == proc = "running" /\ script.endless /\ UNCHANGED vars

\* SIGTERM is delivered, to a script blocked on the pipe as well.
Terminate ==
    /\ proc = "running" /\ signalled /\ ~script.ignoresTerm
    /\ proc' = "zombie" /\ status' = -1
    /\ UNCHANGED <<script, signalled, wrote, closed, pipeVars, done, timer, runVars>>

TimerFires ==
    /\ pc = "select" /\ ~timer
    /\ timer' = TRUE
    /\ UNCHANGED <<scriptVars, pipeVars, done, runVars>>

-----------------------------------------------------------------------------
(* CmdRun                                                                  *)

Start ==
    /\ pc = "start"
    /\ \/ proc' = "running" /\ pc' = "select" /\ ret' = ret
       \/ proc' = proc /\ pc' = "returned" /\ ret' = "error"
    /\ UNCHANGED <<script, signalled, status, wrote, closed, pipeVars, done, timer, printed>>

\* The goroutine: cmd.Wait reaps the process and closes our end of the pipe.
Wait ==
    /\ proc = "zombie"
    /\ proc' = "reaped" /\ reader' = FALSE
    /\ done' = IF status = 0 THEN "ok" ELSE "error"
    /\ UNCHANGED <<script, signalled, status, wrote, closed, pipe, timer, runVars>>

\* Mutant of SelectDone: the error of Wait is logged and not returned.
SelectDoneIgnores ==
    /\ pc = "select" /\ done # "empty"
    /\ pc' = "scan" /\ ret' = ret
    /\ UNCHANGED <<scriptVars, pipeVars, done, timer, printed>>

SelectDone ==
    /\ pc = "select" /\ done # "empty"
    /\ IF done = "error" THEN pc' = "returned" /\ ret' = "error"
                         ELSE pc' = "scan" /\ ret' = ret
    /\ UNCHANGED <<scriptVars, pipeVars, done, timer, printed>>

\* Taken at random when the process has ended too.  Getpgid fails once the process
\* has been reaped.
SelectTimeout ==
    /\ pc = "select" /\ timer
    /\ IF proc = "reaped" THEN pc' = "returned" /\ ret' = "error"
                          ELSE pc' = "kill" /\ ret' = ret
    /\ UNCHANGED <<scriptVars, pipeVars, done, timer, printed>>

\* Mutant of Kill: the end of the script is polled for before the signal is sent.
KillAfterWait ==
    /\ pc = "kill"
    /\ IF done = "empty" THEN UNCHANGED <<pc, ret>> ELSE pc' = "returned" /\ ret' = "error"
    /\ UNCHANGED <<scriptVars, pipeVars, done, timer, printed>>

\* Mutant of Kill: CmdRun returns at once.
KillReturns ==
    /\ pc = "kill"
    /\ pc' = "returned" /\ ret' = "nil"
    /\ signalled' = (proc # "reaped")
    /\ UNCHANGED <<script, proc, status, wrote, closed, pipeVars, done, timer, printed>>

\* syscall.Kill on the group, which is gone when the goroutine came between.
Kill ==
    /\ pc = "kill"
    /\ IF proc = "reaped" THEN pc' = "returned" /\ ret' = "error" /\ UNCHANGED signalled
                          ELSE pc' = "scan" /\ ret' = ret /\ signalled' = TRUE
    /\ UNCHANGED <<script, proc, status, wrote, closed, pipeVars, done, timer, printed>>

\* The next line does not fit into the buffer of the scanner.
TooLong == printed + 1 = script.long

\* scanner.Scan finds a line, or waits for one.
ScanLine ==
    /\ pc = "scan" /\ reader /\ pipe > 0 /\ ~TooLong
    /\ pipe' = pipe - 1 /\ printed' = printed + 1
    /\ UNCHANGED <<scriptVars, reader, done, timer, pc, ret>>

\* The pipe is closed at our end, at the other one and empty, or the scanner gives up
\* at a line that is too long; nobody asks scanner.Err which it was.
ScanEnd ==
    /\ pc = "scan"
    /\ \/ ~reader
       \/ pipe > 0 /\ TooLong
       \/ pipe = 0 /\ (closed \/ proc # "running")
    /\ pc' = "returned" /\ ret' = "nil"
    /\ UNCHANGED <<scriptVars, pipeVars, done, timer, printed>>

CmdRun == Start \/ SelectDone \/ SelectTimeout \/ Kill \/ ScanLine \/ ScanEnd

Next ==
    \/ Write \/ CloseOutput \/ Exit \/ Busy \/ Terminate \/ TimerFires \/ Wait \/ CmdRun
    \/ pc = "returned" /\ UNCHANGED vars

\* The Go scheduler runs both goroutines, the timer fires and the kernel delivers
\* signals; nothing is assumed of the script.
Spec == Init /\ [][Next]_vars /\ WF_vars(CmdRun) /\ WF_vars(Wait)
             /\ WF_vars(TimerFires) /\ WF_vars(Terminate)

-----------------------------------------------------------------------------
(* Properties                                                              *)

\* When CmdRun returns, the script is over: the request of the test (or the checks)
\* never runs beside the script that prepares it.  The one exception is a script that
\* was sent SIGTERM after the timeout and whose output could not be read to its end,
\* because the script had closed it or had written a line that is too long.  The
\* verdict is the script's: without a timeout a failed script is an error, and a
\* script that succeeded becomes one only when its end raced with the timer.
Verdict ==
    /\ ret # "none" /\ proc = "running" => timer /\ signalled /\ (closed \/ TooLong)
    /\ ret = "nil" /\ ~timer => status = 0
    /\ ret = "error" /\ proc # "none" /\ status = 0 => timer

\* A script that leaves SIGTERM alone cannot hold CmdRun up, whether it never ends
\* or is blocked on a pipe that nobody reads.
Returns == ~script.ignoresTerm => <>(ret # "none")
=============================================================================
