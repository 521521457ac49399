------------------------------ MODULE GrpcMock ------------------------------
(***************************************************************************)
(* The gRPC mock servers (mocks/grpc) and the part of the runner that      *)
(* drives them.  Unlike the HTTP mocks, a call holds no lock while it is   *)
(* served: it looks its definition up in a sync.Map, receives the message, *)
(* records itself under the mutex and answers, and the runner's reset can  *)
(* come between any two of these steps.                                    *)
(***************************************************************************)
EXTENDS Integers, Sequences, FiniteSets

CONSTANTS
    Mock,       \* names registered with GrpcMocks.Add
    Method,     \* "/Service/Method" keys
    Payload,    \* request messages, as wire bytes
    NTests,     \* tests 1..NTests are run, in this order
    GrpcMocks,  \* GrpcMocks[t]: the "grpcMocks" section of t, a function name -> Raw
    MaxCalls    \* bound: calls the service under test makes

None == "none"
Bad  == "bad"

OK            == 0
Unimplemented == 12
Internal      == 13

\* A YAML entry: whether it is a map, its method, whether the descriptor source
\* knows that method, the response and the expected request (absent, convertible to
\* wire bytes or not), and the status.
Raw == [isMap : BOOLEAN, method : Method, known : BOOLEAN, body : {None, "json", Bad},
        expected : Payload \cup {None, Bad}, status : Nat]

ASSUME ConstAssumption ==
    /\ NTests \in Nat /\ MaxCalls \in Nat
    /\ DOMAIN GrpcMocks = 1..NTests
    /\ \A t \in 1..NTests : \A m \in DOMAIN GrpcMocks[t] : GrpcMocks[t][m] \in Raw
    /\ Mock # {} /\ Method # {} /\ Payload # {} /\ {None, Bad} \cap Payload = {}

Call == 1..MaxCalls

\* GrpcDefinition, with the test it was loaded for; NoDef: absent from the sync.Map.
Definition == [test : 1..NTests, expected : Payload \cup {None}, status : Nat]
NoDef      == [test |-> 0, expected |-> None, status |-> OK]

VARIABLES
    definitions,  \* definitions[m][k]: GrpcMock.definitions
    requests,     \* requests[m]: calls recorded by GrpcMock m, in order
    errors,       \* errors[m]: calls whose mismatch is in GrpcMock.errors
    call,         \* call[c]: where the goroutine serving call c is
    ncalls,       \* calls made so far
    pc,           \* where the runner is
    test,         \* the test being run
    todo,         \* mocks (entries, when loading) the current loop has still to visit
    at,           \* the mock whose ResetDefinitions is running
    keys,         \* keys its Range has still to delete
    reported,     \* calls whose mismatch is in the errors of the test's result
    known         \* history: mismatches recorded when that result was complete

mockVars   == <<definitions, requests, errors>>
callVars   == <<call, ncalls>>
runnerVars == <<pc, test, todo, at, keys, reported, known>>
vars       == <<mockVars, callVars, runnerVars>>

\* `during`: the test whose request was being executed when the definition was
\* looked up, 0 when the runner was elsewhere.
CallState == [st : {"none", "begun", "loaded", "recorded", "done"}, mock : Mock,
              method : Method, payload : Payload, def : Definition \cup {NoDef},
              during : 0..NTests, code : Nat]

NoCall == [st |-> "none", mock |-> CHOOSE m \in Mock : TRUE,
           method |-> CHOOSE k \in Method : TRUE, payload |-> CHOOSE p \in Payload : TRUE,
           def |-> NoDef, during |-> 0, code |-> OK]

Init ==
    /\ definitions = [m \in Mock |-> [k \in Method |-> NoDef]]
    /\ requests = [m \in Mock |-> <<>>]
    /\ errors = [m \in Mock |-> {}]
    /\ call = [c \in Call |-> NoCall] /\ ncalls = 0
    /\ pc = "idle" /\ test = 0 /\ todo = {}
    /\ reported = {} /\ known = {}
    /\ at = NoCall.mock /\ keys = {}

-----------------------------------------------------------------------------
(* unknownServiceHandler                                                   *)

\* MethodFromServerStream fails only for a stream gRPC did not make, and so never here.
Begin(m, k, p) ==
    /\ ncalls < MaxCalls
    /\ ncalls' = ncalls + 1
    /\ call' = [call EXCEPT ![ncalls + 1] =
                   [NoCall EXCEPT !.st = "begun", !.mock = m, !.method = k, !.payload = p]]
    /\ UNCHANGED <<mockVars, runnerVars>>

Finish(c, code) == [call EXCEPT ![c].st = "done", ![c].code = code]

\* m.definitions.Load; without a definition the call is refused, unrecorded.
Lookup(c) ==
    LET def    == definitions[call[c].mock][call[c].method]
        during == IF pc = "request" THEN test ELSE 0
    IN  /\ call[c].st = "begun"
        /\ call' = [call EXCEPT ![c].st = IF def = NoDef THEN "done" ELSE "loaded",
                                ![c].code = IF def = NoDef THEN Unimplemented ELSE OK,
                                ![c].def = def, ![c].during = during]
        /\ UNCHANGED <<mockVars, ncalls, runnerVars>>

\* stream.RecvMsg fails: the client has gone.
RecvError(c) ==
    /\ call[c].st = "loaded"
    /\ call' = Finish(c, Internal)
    /\ UNCHANGED <<mockVars, ncalls, runnerVars>>

Mismatch(c) == call[c].def.expected # None /\ call[c].payload # call[c].def.expected

\* The critical section: the call is recorded and compared with the definition that
\* was looked up, which may be gone by now.
Record(c) ==
    LET m == call[c].mock IN
    /\ call[c].st = "loaded"
    /\ call' = [call EXCEPT ![c].st = "recorded"]
    /\ requests' = [requests EXCEPT ![m] = Append(@, c)]
    /\ errors' = [errors EXCEPT ![m] = IF Mismatch(c) THEN @ \cup {c} ELSE @]
    /\ UNCHANGED <<definitions, ncalls, runnerVars>>

\* The definition's status or, for OK, the response message, which may fail to be sent.
Answer(c) ==
    /\ call[c].st = "recorded"
    /\ \/ call' = Finish(c, call[c].def.status)
       \/ call[c].def.status = OK /\ call' = Finish(c, Internal)
    /\ UNCHANGED <<mockVars, ncalls, runnerVars>>

Handle(c) == Lookup(c) \/ RecvError(c) \/ Record(c) \/ Answer(c)

-----------------------------------------------------------------------------
(* The runner: setupMocks, the request, the verdict.                       *)

KeysOf(m) == {k \in Method : definitions[m][k] # NoDef}

BeginTest ==
    /\ pc = "idle" /\ test < NTests
    /\ test' = test + 1 /\ pc' = "reset" /\ todo' = Mock
    /\ reported' = {} /\ known' = {}
    /\ UNCHANGED <<mockVars, callVars, at, keys>>

\* GrpcMock.ResetDefinitions of the next mock starts ranging over its definitions.
RangeDefinitions(m) ==
    /\ pc = "reset" /\ m \in todo
    /\ pc' = "range" /\ todo' = todo \ {m} /\ at' = m /\ keys' = KeysOf(m)
    /\ UNCHANGED <<mockVars, callVars, test, reported, known>>

\* Mutant of DeleteDefinition: Range visits the key and deletes nothing.
DeleteDefinitionKeeps(k) ==
    /\ pc = "range" /\ k \in keys
    /\ keys' = keys \ {k}
    /\ UNCHANGED <<mockVars, callVars, pc, test, todo, at, reported, known>>

DeleteDefinition(k) ==
    /\ pc = "range" /\ k \in keys
    /\ definitions' = [definitions EXCEPT ![at][k] = NoDef]
    /\ keys' = keys \ {k}
    /\ UNCHANGED <<requests, errors, callVars, pc, test, todo, at, reported, known>>

AfterReset == IF DOMAIN GrpcMocks[test] = {} THEN "request" ELSE "load"

\* Mutant of ClearRecords: the errors stay.
ClearRequestsOnly ==
    /\ pc = "range" /\ keys = {}
    /\ requests' = [requests EXCEPT ![at] = <<>>]
    /\ IF todo = {} THEN pc' = AfterReset /\ todo' = DOMAIN GrpcMocks[test]
                    ELSE pc' = "reset" /\ todo' = todo
    /\ UNCHANGED <<definitions, errors, callVars, test, at, keys, reported, known>>

\* The second half of ResetDefinitions, under the mutex.
ClearRecords ==
    /\ pc = "range" /\ keys = {}
    /\ requests' = [requests EXCEPT ![at] = <<>>]
    /\ errors' = [errors EXCEPT ![at] = {}]
    /\ IF todo = {} THEN pc' = AfterReset /\ todo' = DOMAIN GrpcMocks[test]
                    ELSE pc' = "reset" /\ todo' = todo
    /\ UNCHANGED <<definitions, callVars, test, at, keys, reported, known>>

\* jsonToProtoBytes and jsonToProtoInputBytes: an absent field is not converted.
Convertible(raw, field) == field = None \/ (raw.known /\ field # Bad)

LoadFails(m) ==
    LET raw == GrpcMocks[test][m] IN
    \/ ~raw.isMap
    \/ m \notin Mock
    \/ ~Convertible(raw, raw.body)
    \/ ~Convertible(raw, raw.expected)

\* GrpcLoader.Load, one entry of the map; SetDefinition.
LoadDefinition(m) ==
    LET raw == GrpcMocks[test][m] IN
    /\ pc = "load" /\ m \in todo /\ ~LoadFails(m)
    /\ definitions' = [definitions EXCEPT ![m][raw.method] =
                          [test |-> test, expected |-> raw.expected, status |-> raw.status]]
    /\ todo' = todo \ {m}
    /\ pc' = IF todo = {m} THEN "request" ELSE pc
    /\ UNCHANGED <<requests, errors, callVars, test, at, keys, reported, known>>

\* Entries loaded before the failing one stay; executeTest returns the error.
LoadError(m) ==
    /\ pc = "load" /\ m \in todo /\ LoadFails(m)
    /\ pc' = "idle" /\ todo' = {}
    /\ UNCHANGED <<mockVars, callVars, test, at, keys, reported, known>>

\* The transport, then the end of executeTest: the running context of the HTTP mocks
\* is ended, the one of the gRPC mocks is not.
Respond ==
    /\ pc = "request"
    /\ pc' = "verdict" /\ reported' = {} /\ known' = UNION {errors[m] : m \in Mock}
    /\ UNCHANGED <<mockVars, callVars, test, todo, at, keys>>

\* A script or the transport fails.
RequestError ==
    /\ pc = "request"
    /\ pc' = "idle"
    /\ UNCHANGED <<mockVars, callVars, test, todo, at, keys, reported, known>>

FinishTest ==
    /\ pc = "verdict"
    /\ pc' = "idle"
    /\ UNCHANGED <<mockVars, callVars, test, todo, at, keys, reported, known>>

RunnerStep ==
    \/ BeginTest \/ ClearRecords \/ Respond \/ RequestError \/ FinishTest
    \/ \E k \in keys : DeleteDefinition(k)
    \/ \E m \in todo : RangeDefinitions(m) \/ LoadDefinition(m) \/ LoadError(m)

RunOver == pc = "idle" /\ test = NTests

Next ==
    \/ RunnerStep
    \/ \E c \in Call : Handle(c)
    \/ \E m \in Mock, k \in Method, p \in Payload : Begin(m, k, p)
    \/ RunOver /\ UNCHANGED vars

Spec == Init /\ [][Next]_vars

-----------------------------------------------------------------------------
(* Properties                                                              *)

PC == {"idle", "reset", "range", "load", "request", "verdict"}

\* The state has the shape the Go types give it.
TypeOK ==
    /\ definitions \in [Mock -> [Method -> Definition \cup {NoDef}]]
    /\ requests \in [Mock -> Seq(Call)]
    /\ errors \in [Mock -> SUBSET Call]
    /\ call \in [Call -> CallState] /\ ncalls \in 0..MaxCalls
    /\ pc \in PC /\ test \in 0..NTests
    /\ pc # "idle" => test \in 1..NTests
    /\ pc \in {"reset", "range"} => todo \subseteq Mock
    /\ pc = "load" => todo \subseteq DOMAIN GrpcMocks[test]
    /\ at \in Mock /\ keys \subseteq Method
    /\ reported \subseteq Call /\ known \subseteq Call

Recorded(m) == {requests[m][i] : i \in DOMAIN requests[m]}

\* What EndRunningContext returns are exactly the mismatches among the requests
\* GetRecordedRequests returns, at every moment, calls in flight and resets included
\* (one critical section appends to both lists, one clears both).
ErrorsAreMismatches ==
    \A m \in Mock : errors[m] = {c \in Recorded(m) : Mismatch(c)}

\* A call that looks its definition up while the request of test t is executed is
\* served from the definition t loaded for the method, and refused only if t has none:
\* "Before each test the runner resets all registered mocks and reloads definitions".
OwnDefinition ==
    \A c \in Call : call[c].during # 0 =>
        LET entries == GrpcMocks[call[c].during]
            loaded  == call[c].mock \in DOMAIN entries
                           /\ entries[call[c].mock].method = call[c].method
        IN  IF loaded THEN call[c].def.test = call[c].during ELSE call[c].def = NoDef

\* README.md:1813, on expectedRequest: "verified against the incoming request".
MismatchFailsTest ==
    pc = "verdict" => {c \in known : call[c].during = test} \subseteq reported
=============================================================================
