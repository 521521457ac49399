---------------------------- MODULE GrpcTransport ----------------------------
(***************************************************************************)
(* How tests of one Runner share gRPC transports: getTransportExecutor,    *)
(* GrpcTransport.Execute with its persistent connection and its cache of   *)
(* parsed protosets, and the deferred Close of Run.  A Runner may be run   *)
(* again.  The handlers of the package execute one test at a time; here    *)
(* tests may overlap, to see what the mutexes and the sync.Map protect.    *)
(***************************************************************************)
EXTENDS Integers, FiniteSets

CONSTANTS
    Caller,     \* executions of a gRPC test
    File        \* protoset files

None       == "none"
Reflection == "reflection"
OK         == 0
NotFound   == 5
Down       == 14   \* Unavailable

ASSUME ConstAssumption ==
    None \notin Caller /\ {None, Reflection} \cap File = {}

\* An executor is named by the execution that created it; so is a parsed protoset.
Executor == Caller

VARIABLES
    transports,  \* Runner.transports["grpc"]: an executor, or None
    conn,        \* conn[x]: GrpcTransport.conn, 0 for nil
    cache,       \* cache[x][f]: GrpcTransport.descSourceCache
    opened,      \* opened[x]: connections x has opened
    closed,      \* connections closed
    call,        \* call[c]: the state of execution c
    running,     \* Run has not returned
    overlapped   \* history: a test was started while another was executing

vars == <<transports, conn, cache, opened, closed, call, running,
          overlapped>>

\* `status`: what the trailers or the error of the invocation said; `code`: the
\* GrpcStatusCode of the result, -1 when Execute returned an error.
Idle == [pc |-> "idle", source |-> Reflection, ex |-> None, conn |-> 0, src |-> None,
         trailers |-> -1, code |-> -1]

Init ==
    /\ transports = None
    /\ conn = [x \in Executor |-> 0]
    /\ cache = [x \in Executor |-> [f \in File |-> None]]
    /\ opened = [x \in Executor |-> {}] /\ closed = {}
    /\ call = [c \in Caller |-> Idle]
    /\ running = TRUE /\ overlapped = FALSE

Active == {c \in Caller : call[c].pc \notin {"idle", "done"}}

Start(c, source) ==
    /\ running /\ call[c].pc = "idle"
    /\ overlapped' = (overlapped \/ Active # {})
    /\ call' = [call EXCEPT ![c].pc = "lookup", ![c].source = source]
    /\ UNCHANGED <<transports, conn, cache, opened, closed, running>>

\* Mutant of LookupExecutor: the map is not asked.
LookupExecutorMisses(c) ==
    /\ call[c].pc = "lookup"
    /\ call' = [call EXCEPT ![c].pc = "create"]
    /\ UNCHANGED <<transports, conn, cache, opened, closed, running, overlapped>>

\* getTransportExecutor, under the read lock.
LookupExecutor(c) ==
    /\ call[c].pc = "lookup"
    /\ call' = [call EXCEPT ![c].ex = transports,
                            ![c].pc = IF transports = None THEN "create" ELSE "conn"]
    /\ UNCHANGED <<transports, conn, cache, opened, closed, running, overlapped>>

\* newTransportExecutor, then the store under the write lock, whatever is there by now.
StoreExecutor(c) ==
    /\ call[c].pc = "create"
    /\ transports' = c
    /\ call' = [call EXCEPT ![c].ex = c, ![c].pc = "conn"]
    /\ UNCHANGED <<conn, cache, opened, closed, running, overlapped>>

\* getConn, fast path under the read lock.
ReadConn(c) ==
    LET x == call[c].ex IN
    /\ call[c].pc = "conn"
    /\ call' = [call EXCEPT ![c].conn = conn[x],
                            ![c].pc = IF conn[x] = 0 THEN "dial" ELSE "source"]
    /\ UNCHANGED <<transports, conn, cache, opened, closed, running, overlapped>>

NewConn == Cardinality(UNION {opened[x] : x \in Executor}) + 1

Dial(c, x) ==
    /\ conn' = [conn EXCEPT ![x] = NewConn]
    /\ opened' = [opened EXCEPT ![x] = @ \cup {NewConn}]
    /\ call' = [call EXCEPT ![c].conn = NewConn, ![c].pc = "source"]

\* Mutant of OpenConn: the second check of t.conn is missing.
OpenConnUnchecked(c) ==
    LET x == call[c].ex IN
    /\ call[c].pc = "dial"
    /\ \/ Dial(c, x)
       \/ call' = [call EXCEPT ![c].pc = "done"] /\ UNCHANGED <<conn, opened>>
    /\ UNCHANGED <<transports, cache, closed, running, overlapped>>

\* getConn, slow path: a critical section under the write lock.  grpc.NewClient may fail.
OpenConn(c) ==
    LET x == call[c].ex IN
    /\ call[c].pc = "dial"
    /\ \/ /\ conn[x] # 0
          /\ call' = [call EXCEPT ![c].conn = conn[x], ![c].pc = "source"]
          /\ UNCHANGED <<conn, opened>>
       \/ conn[x] = 0 /\ Dial(c, x)
       \/ /\ conn[x] = 0
          /\ call' = [call EXCEPT ![c].pc = "done"] /\ UNCHANGED <<conn, opened>>
    /\ UNCHANGED <<transports, cache, closed, running, overlapped>>

\* buildDescriptorSource: a fresh reflection client, or descSourceCache.Load.  There is
\* no third type of source: the loader refuses it (parser.go:76).
LoadSource(c) ==
    LET f == call[c].source
        cached == IF f = Reflection THEN c ELSE cache[call[c].ex][f]
    IN  /\ call[c].pc = "source"
        /\ call' = [call EXCEPT ![c].src = cached,
                                ![c].pc = IF cached = None THEN "parse" ELSE "invoke"]
        /\ UNCHANGED <<transports, conn, cache, opened, closed, running, overlapped>>

\* Mutant of ParseSource: Store instead of LoadOrStore.
ParseSourceStores(c) ==
    LET x == call[c].ex
        f == call[c].source
    IN  /\ call[c].pc = "parse"
        /\ \/ /\ cache' = [cache EXCEPT ![x][f] = c]
              /\ call' = [call EXCEPT ![c].src = c, ![c].pc = "invoke"]
           \/ call' = [call EXCEPT ![c].pc = "done"] /\ cache' = cache
        /\ UNCHANGED <<transports, conn, opened, closed, running, overlapped>>

\* The file is parsed, which may fail, then LoadOrStore decides whose value stays.
ParseSource(c) ==
    LET x == call[c].ex
        f == call[c].source
        kept == IF cache[x][f] = None THEN c ELSE cache[x][f]
    IN  /\ call[c].pc = "parse"
        /\ \/ /\ cache' = [cache EXCEPT ![x][f] = kept]
              /\ call' = [call EXCEPT ![c].src = kept, ![c].pc = "invoke"]
           \/ call' = [call EXCEPT ![c].pc = "done"] /\ cache' = cache
        /\ UNCHANGED <<transports, conn, opened, closed, running, overlapped>>

\* grpcurl.InvokeRPC: the status of the trailers (-1: the call never reached the
\* server) and the error: -1 for one that carries no status, OK for none.  A call
\* that reached the server returns no error whatever the server's status was.
Invocations ==
    [trailers : {OK, NotFound}, err : {OK}] \cup
    [trailers : {-1}, err : {Down, -1}]

\* resolveGrpcStatus; -1: an error.
ResolveGrpcStatus(inv) ==
    IF inv.trailers # -1 THEN inv.trailers ELSE inv.err

\* The rest of Execute: the request may not parse, the response may not be formatted.
Invoke(c) ==
    /\ call[c].pc = "invoke"
    /\ \/ call' = [call EXCEPT ![c].pc = "done"]
       \/ \E inv \in Invocations :
             call' = [call EXCEPT ![c].pc = "done", ![c].trailers = inv.trailers,
                                  ![c].code = ResolveGrpcStatus(inv)]
    /\ UNCHANGED <<transports, conn, cache, opened, closed, running, overlapped>>

\* The deferred function of Run, with GrpcTransport.Close.
CloseAll ==
    /\ running /\ Active = {}
    /\ running' = FALSE
    /\ closed' = closed \cup ({conn[x] : x \in {transports} \ {None}} \ {0})
    /\ conn' = [x \in Executor |-> IF x = transports THEN 0 ELSE conn[x]]
    /\ UNCHANGED <<transports, cache, opened, call, overlapped>>

\* Run is called again on the same Runner.
RunAgain ==
    /\ ~running
    /\ running' = TRUE
    /\ UNCHANGED <<transports, conn, cache, opened, closed, call, overlapped>>

Execution(c) ==
    \/ LookupExecutor(c) \/ StoreExecutor(c) \/ ReadConn(c) \/ OpenConn(c)
    \/ LoadSource(c) \/ ParseSource(c) \/ Invoke(c)

Next ==
    \/ CloseAll \/ RunAgain
    \/ \E c \in Caller : Execution(c) \/ \E s \in File \cup {Reflection} : Start(c, s)

Spec == Init /\ [][Next]_vars

-----------------------------------------------------------------------------
(* Properties                                                              *)

\* A call is made on a connection that is open, also when the Runner is run again
\* after its transports were closed.
LiveConnection ==
    \A c \in Caller : call[c].pc = "invoke" => call[c].conn # 0 /\ call[c].conn \notin closed

\* A transport never loses track of a connection: what it has opened is its current
\* connection or closed, although two tests may find no connection at once (getConn).
NoConnectionLost ==
    \A x \in Executor : opened[x] \ closed = {conn[x]} \ {0}

\* grpc_transport.go:195 "LoadOrStore guarantees only one value is retained": all
\* calls through one transport use the same parse of a protoset file.
OneSource ==
    \A c, d \in Caller :
        /\ call[c].pc = "invoke" /\ call[d].pc \in {"invoke", "done"} /\ call[d].src # None
        /\ call[c].ex = call[d].ex /\ call[c].source = call[d].source
        /\ call[c].source # Reflection
        => call[c].src = call[d].src

\* When tests are executed one at a time, as the handlers of the package do, every
\* connection any transport opened is closed once Run has returned.
AllClosed ==
    ~running /\ ~overlapped => UNION {opened[x] : x \in Executor} \subseteq closed
=============================================================================
