----------------------------- MODULE Grpc_proofs -----------------------------
(***************************************************************************)
(* Proofs about both ends of a gRPC call: the mock servers, for any mocks, *)
(* methods, messages, tests and number of calls in flight, and the         *)
(* transport, for any number of overlapping executions.                    *)
(***************************************************************************)
EXTENDS GrpcMock, FiniteSetTheorems, TLAPS

-----------------------------------------------------------------------------
(* The inductive invariant.                                                *)

\* Calls are numbered in the order they begin; one that was recorded has passed the
\* critical section for good.
Numbered ==
    /\ \A c \in Call : c > ncalls => call[c].st = "none"
    /\ \A c \in Call : call[c].st \in {"none", "begun"} => call[c].during = 0
    /\ \A m \in Mock : \A i \in DOMAIN requests[m] :
          call[requests[m][i]].st \in {"recorded", "done"}

Empty(m) == \A k \in Method : definitions[m][k] = NoDef

\* Test t has an entry for method k of mock m.
Entry(t, m, k) == m \in DOMAIN GrpcMocks[t] /\ GrpcMocks[t][m].method = k

\* How far the definitions of earlier tests have been replaced by those of this one.
\* Range deletes one key at a time, the loader adds one entry at a time, and calls
\* may look definitions up between any two of these steps.
Replaced ==
    /\ pc = "reset" => \A m \in Mock \ todo : Empty(m)
    /\ pc = "range" => /\ \A m \in Mock \ (todo \cup {at}) : Empty(m)
                       /\ \A k \in Method \ keys : definitions[at][k] = NoDef
    /\ pc = "load" => \A m \in Mock, k \in Method :
          IF Entry(test, m, k) /\ m \notin todo THEN definitions[m][k].test = test
                                                ELSE definitions[m][k] = NoDef
    /\ pc = "request" => \A m \in Mock, k \in Method :
          IF Entry(test, m, k) THEN definitions[m][k].test = test
                               ELSE definitions[m][k] = NoDef

Inv == TypeOK /\ Numbered /\ Replaced /\ ErrorsAreMismatches /\ OwnDefinition

-----------------------------------------------------------------------------
(* Types.                                                                  *)

LEMMA NoCallType == NoCall \in CallState
  <1>1. /\ (CHOOSE m \in Mock : TRUE) \in Mock
        /\ (CHOOSE k \in Method : TRUE) \in Method
        /\ (CHOOSE p \in Payload : TRUE) \in Payload
    BY ConstAssumption
  <1> QED BY <1>1, ConstAssumption DEF NoCall, CallState, OK

\* A loaded entry makes a definition of the test.
LEMMA EntryType ==
    ASSUME TypeOK, pc = "load", NEW m \in todo, ~LoadFails(m)
    PROVE  /\ m \in Mock /\ m \in DOMAIN GrpcMocks[test] /\ test \in 1..NTests
           /\ GrpcMocks[test][m].method \in Method
           /\ [test |-> test, expected |-> GrpcMocks[test][m].expected,
               status |-> GrpcMocks[test][m].status] \in Definition
  <1>1. m \in Mock /\ m \in DOMAIN GrpcMocks[test] /\ test \in 1..NTests
    BY DEF TypeOK, LoadFails
  <1>2. GrpcMocks[test][m] \in Raw
    BY <1>1, ConstAssumption
  <1>3. GrpcMocks[test][m].expected # Bad
    BY DEF LoadFails, Convertible, None, Bad
  <1> QED BY <1>1, <1>2, <1>3 DEF Raw, Definition

LEMMA InitInv == Init => Inv
  <1> SUFFICES ASSUME Init PROVE Inv  OBVIOUS
  <1> USE ConstAssumption
  <1>1. /\ definitions = [m \in Mock |-> [k \in Method |-> NoDef]]
        /\ requests = [m \in Mock |-> <<>>] /\ errors = [m \in Mock |-> {}]
        /\ call = [c \in Call |-> NoCall] /\ ncalls = 0
        /\ pc = "idle" /\ test = 0 /\ todo = {} /\ reported = {} /\ known = {}
        /\ at = NoCall.mock /\ keys = {}
    BY Zenon DEF Init
  <1>2. NoCall.mock \in Mock
    BY NoCallType DEF CallState
  <1>3. NoCall.st = "none" /\ NoCall.during = 0
    BY DEF NoCall
  <1>4. TypeOK
    BY <1>1, <1>2, NoCallType DEF TypeOK, PC
  <1>5. Numbered
    BY <1>1, <1>3 DEF Numbered
  <1>6. Replaced
    BY <1>1 DEF Replaced
  <1>7. ErrorsAreMismatches
    BY <1>1 DEF ErrorsAreMismatches, Recorded
  <1>8. OwnDefinition
    BY <1>1, <1>3 DEF OwnDefinition
  <1> QED BY <1>4, <1>5, <1>6, <1>7, <1>8 DEF Inv

-----------------------------------------------------------------------------
(* Every step preserves the invariant.                                     *)

\* What a step of the runner leaves alone.
LEMMA RunnerFrame ==
    ASSUME RunnerStep
    PROVE  UNCHANGED callVars
  BY Zenon DEF RunnerStep, BeginTest, ClearRecords, Respond, RequestError, FinishTest,
               DeleteDefinition, RangeDefinitions, LoadDefinition, LoadError

\* What a step of a call leaves alone.
LEMMA HandleFrame ==
    ASSUME NEW c \in Call, Handle(c)
    PROVE  UNCHANGED <<definitions, ncalls, runnerVars>>
  BY Zenon DEF Handle, Lookup, RecvError, Record, Answer, mockVars

\* A step of call c changes nothing but the progress of c; its definition is chosen
\* once, before it is recorded.
LEMMA HandleShape ==
    ASSUME TypeOK, NEW c \in Call, Handle(c)
    PROVE  /\ call' \in [Call -> CallState]
           /\ \A d \in Call \ {c} : call'[d] = call[d]
           /\ call'[c].mock = call[c].mock /\ call'[c].method = call[c].method
           /\ call'[c].payload = call[c].payload
           /\ call[c].st # "none" /\ call'[c].st \notin {"none", "begun"}
           /\ call[c].st \in {"recorded", "done"} => call'[c].st \in {"recorded", "done"}
           /\ call[c].st # "begun" =>
                 call'[c].def = call[c].def /\ call'[c].during = call[c].during
  <1> USE DEF TypeOK
  <1>0. call[c] \in CallState
    OBVIOUS
  <1>1. CASE Lookup(c)
    <2>1. definitions[call[c].mock][call[c].method] \in Definition \cup {NoDef}
      BY <1>0 DEF CallState
    <2>2. (IF pc = "request" THEN test ELSE 0) \in 0..NTests
      BY ConstAssumption
    <2>3. OK \in Nat /\ Unimplemented \in Nat
      BY DEF OK, Unimplemented
    <2>4. PICK def \in Definition \cup {NoDef}, during \in 0..NTests, st \in {"loaded", "done"},
               code \in Nat :
            /\ call[c].st = "begun"
            /\ call' = [call EXCEPT ![c].st = st, ![c].code = code, ![c].def = def,
                                    ![c].during = during]
      BY <1>1, <2>1, <2>2, <2>3, Zenon DEF Lookup
    <2>5. call'[c] = [call[c] EXCEPT !.st = st, !.code = code, !.def = def, !.during = during]
      BY <2>4, Zenon
    <2>6. /\ call'[c] \in CallState /\ call'[c].st = st
          /\ call'[c].mock = call[c].mock /\ call'[c].method = call[c].method
          /\ call'[c].payload = call[c].payload
      BY <1>0, <2>5 DEF CallState
    <2>7. call' \in [Call -> CallState] /\ \A d \in Call \ {c} : call'[d] = call[d]
      BY <2>4, <2>6, Zenon
    <2> QED BY <2>4, <2>6, <2>7, Zenon
  <1>2. CASE RecvError(c)
    BY <1>0, <1>2, Zenon DEF RecvError, Finish, CallState, Internal
  <1>3. CASE Record(c)
    BY <1>0, <1>3, Zenon DEF Record, CallState
  <1>4. CASE Answer(c)
    <2>1. call[c].def.status \in Nat
      BY <1>0 DEF CallState, Definition, NoDef, OK
    <2>2. PICK code \in Nat : call' = Finish(c, code)
      BY <1>4, <2>1, Zenon DEF Answer, Internal
    <2> QED BY <1>0, <1>4, <2>2, Zenon DEF Answer, Finish, CallState
  <1> QED BY <1>1, <1>2, <1>3, <1>4 DEF Handle

LEMMA BeginShape ==
    ASSUME TypeOK, NEW m \in Mock, NEW k \in Method, NEW p \in Payload, Begin(m, k, p)
    PROVE  /\ ncalls' = ncalls + 1 /\ ncalls + 1 \in Call
           /\ call' \in [Call -> CallState]
           /\ \A d \in Call \ {ncalls + 1} : call'[d] = call[d]
           /\ call'[ncalls + 1].st = "begun" /\ call'[ncalls + 1].during = 0
           /\ UNCHANGED <<mockVars, runnerVars>>
  <1>1. ncalls' = ncalls + 1 /\ ncalls + 1 \in Call
    BY ConstAssumption DEF Begin, TypeOK, Call
  <1> DEFINE new == [NoCall EXCEPT !.st = "begun", !.mock = m, !.method = k, !.payload = p]
  <1>2. new \in CallState /\ new.st = "begun" /\ new.during = 0
    BY NoCallType, Zenon DEF CallState, NoCall
  <1>3. call' = [call EXCEPT ![ncalls + 1] = new]
    BY DEF Begin
  <1> QED BY <1>1, <1>2, <1>3 DEF TypeOK, Begin

LEMMA RequestsStep ==
    ASSUME TypeOK, NEW c \in Call, Handle(c)
    PROVE  /\ requests' \in [Mock -> Seq(Call)] /\ errors' \in [Mock -> SUBSET Call]
           /\ \/ UNCHANGED <<requests, errors>>
              \/ /\ call[c].st = "loaded" /\ call'[c].st = "recorded" /\ call[c].mock \in Mock
                 /\ requests' = [requests EXCEPT ![call[c].mock] = Append(@, c)]
                 /\ errors' = [errors EXCEPT ![call[c].mock] =
                                  IF Mismatch(c) THEN @ \cup {c} ELSE @]
  <1>1. CASE Record(c)
    <2>1. call[c].mock \in Mock
      BY Zenon DEF TypeOK, CallState
    <2>2. call[c].st = "loaded" /\ call'[c].st = "recorded"
      BY <1>1 DEF Record, TypeOK, CallState
    <2> QED BY <1>1, <2>1, <2>2 DEF Record, TypeOK
  <1>2. CASE ~Record(c)
    BY <1>2, Zenon DEF Handle, Lookup, RecvError, Answer, TypeOK, mockVars
  <1> QED BY <1>1, <1>2, Zenon

LEMMA StepCases ==
    ASSUME [Next]_vars
    PROVE  \/ RunnerStep
           \/ \E c \in Call : Handle(c)
           \/ \E m \in Mock, k \in Method, p \in Payload : Begin(m, k, p)
           \/ UNCHANGED vars
  BY Zenon DEF Next

LEMMA TypeStep ==
    ASSUME TypeOK, [Next]_vars
    PROVE  TypeOK'
  <1> USE ConstAssumption
  <1>1. CASE RunnerStep
    <2>0. UNCHANGED callVars
      BY <1>1, RunnerFrame
    <2>1. CASE BeginTest
      BY <2>0, <2>1 DEF BeginTest, TypeOK, PC, mockVars, callVars
    <2>2. CASE ClearRecords
      <3>1. requests' \in [Mock -> Seq(Call)] /\ errors' \in [Mock -> SUBSET Call]
        BY <2>2 DEF ClearRecords, TypeOK
      <3>2. pc' \in PC /\ pc' # "idle" /\ test \in 1..NTests
        BY <2>2 DEF ClearRecords, TypeOK, PC, AfterReset
      <3>3. /\ pc' \in {"reset", "range"} => todo' \subseteq Mock
            /\ pc' = "load" => todo' \subseteq DOMAIN GrpcMocks[test]
        BY <2>2 DEF ClearRecords, TypeOK, AfterReset
      <3> QED BY <2>0, <2>2, <3>1, <3>2, <3>3 DEF ClearRecords, TypeOK, callVars
    <2>3. CASE Respond
      BY <2>0, <2>3 DEF Respond, TypeOK, PC, mockVars, callVars
    <2>4. CASE RequestError \/ FinishTest
      BY <2>0, <2>4 DEF RequestError, FinishTest, TypeOK, PC, mockVars, callVars
    <2>5. ASSUME NEW k \in keys, DeleteDefinition(k) PROVE TypeOK'
      BY <2>0, <2>5, Zenon DEF DeleteDefinition, TypeOK, callVars
    <2>6. ASSUME NEW m \in todo, RangeDefinitions(m) PROVE TypeOK'
      BY <2>0, <2>6, Zenon DEF RangeDefinitions, KeysOf, TypeOK, PC, mockVars, callVars
    <2>7. ASSUME NEW m \in todo, LoadDefinition(m) PROVE TypeOK'
      <3>1. pc = "load" /\ ~LoadFails(m) /\ test' = test
        BY <2>7, Zenon DEF LoadDefinition
      <3>2. definitions' \in [Mock -> [Method -> Definition \cup {NoDef}]]
        BY <2>7, <3>1, EntryType, Zenon DEF LoadDefinition, TypeOK
      <3>3. pc' \in {"load", "request"} /\ todo' \subseteq todo
        BY <2>7, <3>1, Zenon DEF LoadDefinition
      <3> QED BY <2>0, <2>7, <3>1, <3>2, <3>3, Zenon DEF LoadDefinition, TypeOK, PC,
                callVars
    <2>8. ASSUME NEW m \in todo, LoadError(m) PROVE TypeOK'
      BY <2>0, <2>8 DEF LoadError, TypeOK, PC, mockVars, callVars
    <2> QED BY <1>1, <2>1, <2>2, <2>3, <2>4, <2>5, <2>6, <2>7, <2>8 DEF RunnerStep
  <1>2. ASSUME NEW c \in Call, Handle(c) PROVE TypeOK'
    <2>1. UNCHANGED <<definitions, ncalls, runnerVars>>
      BY <1>2, HandleFrame
    <2>2. call' \in [Call -> CallState]
      BY <1>2, HandleShape, Zenon
    <2>3. requests' \in [Mock -> Seq(Call)] /\ errors' \in [Mock -> SUBSET Call]
      BY <1>2, RequestsStep, Zenon
    <2> QED BY <2>1, <2>2, <2>3 DEF TypeOK, runnerVars
  <1>3. ASSUME NEW m \in Mock, NEW k \in Method, NEW p \in Payload, Begin(m, k, p)
        PROVE  TypeOK'
    <2>1. /\ ncalls' = ncalls + 1 /\ ncalls + 1 \in Call /\ call' \in [Call -> CallState]
          /\ UNCHANGED <<mockVars, runnerVars>>
      BY <1>3, BeginShape, Zenon
    <2>2. ncalls' \in 0..MaxCalls
      BY <2>1 DEF Call
    <2> QED BY <2>1, <2>2, Zenon DEF TypeOK, mockVars, runnerVars
  <1>4. CASE UNCHANGED vars
    BY <1>4 DEF vars, TypeOK, mockVars, callVars, runnerVars
  <1> QED BY <1>1, <1>2, <1>3, <1>4, StepCases

LEMMA NumberedStep ==
    ASSUME Inv, [Next]_vars
    PROVE  Numbered'
  <1> USE ConstAssumption DEF Inv
  <1>1. CASE RunnerStep
    <2>1. UNCHANGED <<call, ncalls>>
      BY <1>1, RunnerFrame, Zenon DEF callVars
    <2>2. \A m \in Mock : requests'[m] = requests[m] \/ requests'[m] = <<>>
      BY <1>1, Zenon DEF RunnerStep, BeginTest, ClearRecords, Respond, RequestError,
        FinishTest, DeleteDefinition, RangeDefinitions, LoadDefinition, LoadError, mockVars,
        TypeOK
    <2> QED BY <2>1, <2>2 DEF Numbered
  <1>2. ASSUME NEW c \in Call, Handle(c) PROVE Numbered'
    <2>1. ncalls' = ncalls
      BY <1>2, HandleFrame
    <2>2. \A d \in Call : d > ncalls => call'[d].st = "none"
      BY <1>2, HandleShape DEF Numbered
    <2>3. \A d \in Call : call'[d].st \in {"none", "begun"} => call'[d].during = 0
      BY <1>2, HandleShape DEF Numbered
    <2>4. ASSUME NEW m \in Mock, NEW i \in DOMAIN requests'[m]
          PROVE  call'[requests'[m][i]].st \in {"recorded", "done"}
      <3>1. \A j \in DOMAIN requests[m] :
               /\ requests[m][j] \in Call
               /\ call'[requests[m][j]].st \in {"recorded", "done"}
        <4> TAKE j \in DOMAIN requests[m]
        <4>1. requests[m][j] \in Call /\ call[requests[m][j]].st \in {"recorded", "done"}
          BY DEF TypeOK, Numbered
        <4>2. CASE requests[m][j] = c
          BY <1>2, <4>1, <4>2, HandleShape
        <4>3. CASE requests[m][j] # c
          BY <1>2, <4>1, <4>3, HandleShape, Zenon
        <4> QED BY <4>1, <4>2, <4>3, Zenon
      <3>2. CASE UNCHANGED requests
        BY <3>1, <3>2, Zenon
      <3>3. CASE /\ call'[c].st = "recorded" /\ call[c].mock \in Mock
                 /\ requests' = [requests EXCEPT ![call[c].mock] = Append(@, c)]
        <4>1. requests[m] \in Seq(Call)
          BY Zenon DEF TypeOK
        <4>2. requests'[m] = requests[m] \/ requests'[m] = Append(requests[m], c)
          BY <3>3, Zenon DEF TypeOK
        <4>3. requests'[m][i] = c \/ \E j \in DOMAIN requests[m] : requests'[m][i] = requests[m][j]
          BY <2>4, <4>1, <4>2
        <4> QED BY <3>1, <3>3, <4>3, Zenon
      <3> QED BY <1>2, <3>2, <3>3, RequestsStep, Zenon
    <2> QED BY <2>1, <2>2, <2>3, <2>4, Zenon DEF Numbered
  <1>3. ASSUME NEW m \in Mock, NEW k \in Method, NEW p \in Payload, Begin(m, k, p)
        PROVE  Numbered'
    <2>1. /\ ncalls' = ncalls + 1 /\ ncalls + 1 \in Call
          /\ \A d \in Call \ {ncalls + 1} : call'[d] = call[d]
          /\ call'[ncalls + 1].st = "begun" /\ call'[ncalls + 1].during = 0
          /\ requests' = requests
      BY <1>3, BeginShape, Zenon DEF mockVars
    <2>2. call[ncalls + 1].st = "none"
      BY <2>1 DEF Numbered, TypeOK
    <2>3. \A d \in Call : d > ncalls + 1 => call'[d].st = "none"
      BY <2>1 DEF Numbered, TypeOK, Call
    <2>4. \A n \in Mock : \A i \in DOMAIN requests[n] : requests[n][i] \in Call \ {ncalls + 1}
      <3> TAKE n \in Mock
      <3> TAKE i \in DOMAIN requests[n]
      <3>1. requests[n][i] \in Call
        BY DEF TypeOK
      <3>2. call[requests[n][i]].st \in {"recorded", "done"}
        BY Zenon DEF Numbered
      <3> QED BY <2>2, <3>1, <3>2
    <2> QED BY <2>1, <2>3, <2>4 DEF Numbered
  <1>4. CASE UNCHANGED vars
    BY <1>4 DEF vars, Numbered, mockVars, callVars
  <1> QED BY <1>1, <1>2, <1>3, <1>4, StepCases, Zenon

\* What a mismatch is depends on the call's message and definition only.
LEMMA MismatchFixed ==
    ASSUME NEW c \in Call, call'[c].payload = call[c].payload, call'[c].def = call[c].def
    PROVE  Mismatch(c)' <=> Mismatch(c)
  BY Zenon DEF Mismatch

LEMMA ErrorsStep ==
    ASSUME Inv, [Next]_vars
    PROVE  ErrorsAreMismatches'
  <1> USE ConstAssumption DEF Inv
  <1> SUFFICES ASSUME NEW m \in Mock
               PROVE  errors'[m] = {c \in Recorded(m)' : Mismatch(c)'}
    BY Zenon DEF ErrorsAreMismatches
  <1>0. errors[m] = {c \in Recorded(m) : Mismatch(c)}
    BY Zenon DEF ErrorsAreMismatches
  <1>a. Recorded(m) \subseteq Call
    BY DEF Recorded, TypeOK
  <1>b. \A c \in Recorded(m) : call[c].st \in {"recorded", "done"}
    BY DEF Recorded, Numbered
  <1>1. CASE RunnerStep
    <2>1. call' = call
      BY <1>1, RunnerFrame DEF callVars
    <2>2. \A c \in Call : Mismatch(c)' <=> Mismatch(c)
      BY <2>1, Zenon DEF Mismatch
    <2>3. \/ requests'[m] = requests[m] /\ errors'[m] = errors[m]
          \/ requests'[m] = <<>> /\ errors'[m] = {}
      BY <1>1, Zenon DEF RunnerStep, BeginTest, ClearRecords, Respond, RequestError,
        FinishTest, DeleteDefinition, RangeDefinitions, LoadDefinition, LoadError, mockVars,
        TypeOK
    <2>4. CASE requests'[m] = requests[m] /\ errors'[m] = errors[m]
      <3>1. Recorded(m)' = Recorded(m)
        BY <2>4 DEF Recorded
      <3> QED BY <1>0, <1>a, <2>2, <2>4, <3>1, Zenon
    <2>5. CASE requests'[m] = <<>> /\ errors'[m] = {}
      <3>1. Recorded(m)' = {}
        BY <2>5 DEF Recorded
      <3> QED BY <2>5, <3>1
    <2> QED BY <2>3, <2>4, <2>5
  <1>2. ASSUME NEW c \in Call, Handle(c)
        PROVE  errors'[m] = {d \in Recorded(m)' : Mismatch(d)'}
    <2>1. \A d \in Recorded(m) : Mismatch(d)' <=> Mismatch(d)
      <3> TAKE d \in Recorded(m)
      <3>1. d \in Call /\ call[d].st \in {"recorded", "done"}
        BY <1>a, <1>b
      <3>2. call'[d].payload = call[d].payload /\ call'[d].def = call[d].def
        BY <1>2, <3>1, HandleShape, Zenon
      <3> QED BY <3>1, <3>2, MismatchFixed, Zenon
    <2>2. CASE UNCHANGED <<requests, errors>>
      <3>1. Recorded(m)' = Recorded(m)
        BY <2>2, Zenon DEF Recorded
      <3> QED BY <1>0, <2>1, <2>2, <3>1, Zenon
    <2>3. CASE /\ call[c].st = "loaded" /\ call[c].mock \in Mock
               /\ requests' = [requests EXCEPT ![call[c].mock] = Append(@, c)]
               /\ errors' = [errors EXCEPT ![call[c].mock] =
                                IF Mismatch(c) THEN @ \cup {c} ELSE @]
      <3>1. Mismatch(c)' <=> Mismatch(c)
        BY <1>2, <2>3, HandleShape, MismatchFixed, Zenon
      <3>2. CASE m = call[c].mock
        <4>1. requests[m] \in Seq(Call) /\ requests'[m] = Append(requests[m], c)
          BY <2>3, <3>2, Zenon DEF TypeOK
        <4>2. Recorded(m)' = Recorded(m) \cup {c}
          BY <4>1 DEF Recorded
        <4>3. errors'[m] = IF Mismatch(c) THEN errors[m] \cup {c} ELSE errors[m]
          BY <2>3, <3>2, Zenon DEF TypeOK
        <4> QED BY <1>0, <2>1, <3>1, <4>2, <4>3, Zenon
      <3>3. CASE m # call[c].mock
        <4>1. requests'[m] = requests[m] /\ errors'[m] = errors[m]
          BY <2>3, <3>3 DEF TypeOK
        <4>2. Recorded(m)' = Recorded(m)
          BY <4>1, Zenon DEF Recorded
        <4> QED BY <1>0, <2>1, <4>1, <4>2, Zenon
      <3> QED BY <3>2, <3>3, Zenon
    <2> QED BY <1>2, <2>2, <2>3, RequestsStep, Zenon
  <1>3. ASSUME NEW n \in Mock, NEW k \in Method, NEW p \in Payload, Begin(n, k, p)
        PROVE  errors'[m] = {d \in Recorded(m)' : Mismatch(d)'}
    <2>1. /\ ncalls + 1 \in Call /\ UNCHANGED <<requests, errors>>
          /\ \A d \in Call \ {ncalls + 1} : call'[d] = call[d]
      BY <1>3, BeginShape, Zenon DEF mockVars
    <2>2. call[ncalls + 1].st = "none"
      BY <2>1 DEF Numbered, TypeOK
    <2>3. \A d \in Recorded(m) : Mismatch(d)' <=> Mismatch(d)
      <3> TAKE d \in Recorded(m)
      <3>1. d \in Call \ {ncalls + 1}
        BY <1>a, <1>b, <2>2, Zenon
      <3> QED BY <2>1, <3>1, MismatchFixed
    <2>4. Recorded(m)' = Recorded(m)
      BY <2>1, Zenon DEF Recorded
    <2> QED BY <1>0, <2>1, <2>3, <2>4
  <1>4. CASE UNCHANGED vars
    BY <1>0, <1>4, Zenon DEF vars, mockVars, callVars, Recorded, Mismatch
  <1> QED BY <1>1, <1>2, <1>3, <1>4, StepCases, Zenon

LEMMA ReplacedStep ==
    ASSUME Inv, [Next]_vars
    PROVE  Replaced'
  <1> USE ConstAssumption DEF Inv
  <1>1. CASE RunnerStep
    <2>1. CASE BeginTest
      BY <2>1, Zenon DEF BeginTest, Replaced
    <2>2. CASE ClearRecords
      <3>1. /\ pc = "range" /\ keys = {} /\ UNCHANGED <<definitions, test>>
            /\ \A m \in Mock \ todo : Empty(m)
        BY <2>2 DEF ClearRecords, Replaced, Empty
      <3>2. \A m \in Mock : Empty(m)' <=> Empty(m)
        BY <3>1, Zenon DEF Empty
      <3>3. CASE todo = {} /\ pc' = AfterReset /\ todo' = DOMAIN GrpcMocks[test]
        <4>1. \A m \in Mock, k \in Method : definitions'[m][k] = NoDef
          BY <3>1, <3>3 DEF Empty
        <4>2. pc' \in {"load", "request"}
              /\ (pc' = "request" => DOMAIN GrpcMocks[test] = {})
          BY <3>3, Zenon DEF AfterReset
        <4> QED BY <3>1, <3>3, <4>1, <4>2 DEF Replaced, Entry
      <3>4. CASE pc' = "reset" /\ todo' = todo
        BY <3>1, <3>2, <3>4, Zenon DEF Replaced
      <3> QED BY <2>2, <3>3, <3>4, Zenon DEF ClearRecords
    <2>3. CASE Respond \/ RequestError \/ FinishTest
      BY <2>3, Zenon DEF Respond, RequestError, FinishTest, Replaced
    <2>4. ASSUME NEW k \in keys, DeleteDefinition(k) PROVE Replaced'
      <3>1. /\ pc = "range" /\ UNCHANGED <<pc, todo, at>> /\ keys' = keys \ {k}
            /\ definitions' = [definitions EXCEPT ![at][k] = NoDef]
        BY <2>4, Zenon DEF DeleteDefinition
      <3>2. at \in Mock /\ k \in Method
        BY Zenon DEF TypeOK
      <3>3. \A m \in Mock \ (todo \cup {at}) : Empty(m)'
        BY <3>1, <3>2, Zenon DEF Replaced, Empty, TypeOK
      <3>4. \A j \in Method \ keys' : definitions'[at][j] = NoDef
        BY <3>1, <3>2, Zenon DEF Replaced, TypeOK
      <3> QED BY <3>1, <3>3, <3>4, Zenon DEF Replaced
    <2>5. ASSUME NEW m \in todo, RangeDefinitions(m) PROVE Replaced'
      <3>1. /\ pc = "reset" /\ pc' = "range" /\ todo' = todo \ {m} /\ at' = m
            /\ keys' = KeysOf(m) /\ UNCHANGED definitions
        BY <2>5, Zenon DEF RangeDefinitions, mockVars
      <3>2. \A n \in Mock \ (todo' \cup {m}) : Empty(n)'
        BY <3>1 DEF Replaced, Empty
      <3> QED BY <3>1, <3>2, Zenon DEF Replaced, KeysOf
    <2>6. ASSUME NEW m \in todo, LoadDefinition(m) PROVE Replaced'
      <3> DEFINE raw == GrpcMocks[test][m]
                 new == [test |-> test, expected |-> raw.expected, status |-> raw.status]
      <3>1. /\ pc = "load" /\ ~LoadFails(m) /\ test' = test /\ todo' = todo \ {m}
            /\ pc' = IF todo = {m} THEN "request" ELSE "load"
            /\ definitions' = [definitions EXCEPT ![m][raw.method] = new]
        BY <2>6, Zenon DEF LoadDefinition
      <3>2. m \in Mock /\ m \in DOMAIN GrpcMocks[test] /\ raw.method \in Method
        BY <3>1, EntryType, Zenon
      <3>3. \A n \in Mock, k \in Method :
                IF Entry(test, n, k) /\ n \notin todo' THEN definitions'[n][k].test = test
                                                       ELSE definitions'[n][k] = NoDef
        <4> TAKE n \in Mock, k \in Method
        <4>1. IF Entry(test, n, k) /\ n \notin todo THEN definitions[n][k].test = test
                                                    ELSE definitions[n][k] = NoDef
          BY <3>1, Zenon DEF Replaced
        <4>2. CASE n = m /\ k = raw.method
          <5>1. definitions'[n][k] = new
            BY <3>1, <3>2, <4>2, Zenon DEF TypeOK
          <5> QED BY <3>1, <3>2, <4>2, <5>1 DEF Entry
        <4>3. CASE ~(n = m /\ k = raw.method)
          <5>1. definitions'[n][k] = definitions[n][k]
            BY <3>1, <3>2, <4>3, Zenon DEF TypeOK
          <5> QED BY <3>1, <4>1, <4>3, <5>1, Zenon DEF Entry
        <4> QED BY <4>2, <4>3
      <3>4. CASE todo = {m}
        <4>1. todo' = {}
          BY <3>1, <3>4, Zenon
        <4> QED BY <3>1, <3>3, <3>4, <4>1, Zenon DEF Replaced, Entry
      <3>5. CASE todo # {m}
        BY <3>1, <3>3, <3>5, Zenon DEF Replaced, Entry
      <3> QED BY <3>4, <3>5, Zenon
    <2>7. ASSUME NEW m \in todo, LoadError(m) PROVE Replaced'
      BY <2>7, Zenon DEF LoadError, Replaced
    <2> QED BY <1>1, <2>1, <2>2, <2>3, <2>4, <2>5, <2>6, <2>7, Zenon DEF RunnerStep
  <1>2. CASE UNCHANGED <<definitions, runnerVars>>
    BY <1>2 DEF Replaced, Empty, Entry, runnerVars
  <1>3. CASE UNCHANGED vars
    BY <1>2, <1>3, Zenon DEF vars, mockVars
  <1> QED BY <1>1, <1>2, <1>3, StepCases, HandleFrame, BeginShape, Zenon DEF mockVars

\* What OwnDefinition says of a call whose fields are given.
Owns(t, m, k, def) == IF Entry(t, m, k) THEN def.test = t ELSE def = NoDef

LEMMA OwnStep ==
    ASSUME Inv, [Next]_vars
    PROVE  OwnDefinition'
  <1> USE ConstAssumption DEF Inv
  <1>0. OwnDefinition <=>
            \A c \in Call : call[c].during # 0 =>
                Owns(call[c].during, call[c].mock, call[c].method, call[c].def)
    BY Zenon DEF OwnDefinition, Owns, Entry
  <1> SUFFICES ASSUME NEW d \in Call, call'[d].during # 0
               PROVE  Owns(call'[d].during, call'[d].mock, call'[d].method, call'[d].def)
    BY Zenon DEF OwnDefinition, Owns, Entry
  <1>1. CASE call'[d] = call[d]
    BY <1>0, <1>1, Zenon
  <1>2. ASSUME NEW c \in Call, Handle(c), c = d, call'[d] # call[d]
        PROVE  Owns(call'[d].during, call'[d].mock, call'[d].method, call'[d].def)
    <2>1. CASE Lookup(d)
      <3>1. call[d] \in CallState
        BY Zenon DEF TypeOK
      <3>2. pc = "request" /\ call'[d].during = test
        BY <2>1, <3>1, Zenon DEF Lookup, TypeOK, CallState
      <3>3. /\ call'[d].def = definitions[call[d].mock][call[d].method]
            /\ call'[d].mock = call[d].mock /\ call'[d].method = call[d].method
        BY <2>1, <3>1, Zenon DEF Lookup, TypeOK, CallState
      <3>4. call[d].mock \in Mock /\ call[d].method \in Method
        BY <3>1, Zenon DEF CallState
      <3> QED BY <3>2, <3>3, <3>4, Zenon DEF Replaced, Owns
    <2>2. CASE ~Lookup(d)
      <3>1. call[d].st # "begun"
        BY <1>2, <2>2, Zenon DEF Handle, RecvError, Record, Answer
      <3>2. /\ call'[d].def = call[d].def /\ call'[d].during = call[d].during
            /\ call'[d].mock = call[d].mock /\ call'[d].method = call[d].method
        BY <1>2, <3>1, HandleShape, Zenon
      <3> QED BY <1>0, <3>2, Zenon
    <2> QED BY <2>1, <2>2, Zenon
  <1>3. ASSUME NEW m \in Mock, NEW k \in Method, NEW p \in Payload, Begin(m, k, p)
        PROVE  call'[d] = call[d]
    BY <1>3, BeginShape, Zenon
  <1>4. RunnerStep \/ UNCHANGED vars => call'[d] = call[d]
    BY RunnerFrame, Zenon DEF vars, callVars
  <1>5. ASSUME NEW c \in Call, Handle(c), c # d PROVE call'[d] = call[d]
    BY <1>5, HandleShape
  <1> QED BY <1>1, <1>2, <1>3, <1>4, <1>5, StepCases, Zenon

-----------------------------------------------------------------------------
(* The theorems.                                                           *)

\* The invariant holds throughout every run of the tests.
THEOREM Invariance == Spec => []Inv
  <1>1. Inv /\ [Next]_vars => Inv'
    BY TypeStep, NumberedStep, ReplacedStep, ErrorsStep, OwnStep DEF Inv
  <1> QED BY InitInv, <1>1, PTL DEF Spec

\* GrpcMock.errors holds exactly the mismatches among the recorded requests, however
\* calls and resets interleave.
THEOREM OnlyMismatches == Spec => []ErrorsAreMismatches
  <1>1. Inv => ErrorsAreMismatches
    BY DEF Inv
  <1> QED BY Invariance, <1>1, PTL

\* A call made during the request of a test gets the definition of that test, although
\* neither the reset nor the loader stops the calls.
THEOREM ServedFromOwnDefinition == Spec => []OwnDefinition
  <1>1. Inv => OwnDefinition
    BY DEF Inv
  <1> QED BY Invariance, <1>1, PTL

-----------------------------------------------------------------------------
(* The gRPC transport.                                                     *)

CONSTANTS Executions, Protosets
VARIABLES transports, conn, cache, opened, closed, run, running, overlapped

\* Any executions and files that are told apart from the two names with a meaning.
Caller == Executions \ {"none"}
File   == Protosets \ {"none", "reflection"}

T == INSTANCE GrpcTransport WITH call <- run

LEMMA Names == T!None \notin Caller /\ {T!None, T!Reflection} \cap File = {}
  BY DEF T!None, T!Reflection, Caller, File

-----------------------------------------------------------------------------
(* The inductive invariant.                                                *)

RunState == [pc : {"idle", "lookup", "create", "conn", "dial", "source", "parse",
                   "invoke", "done"},
             source : File \cup {T!Reflection}, ex : T!Executor \cup {T!None}, conn : Nat,
             src : Caller \cup {T!None}, trailers : Int, code : Int]

\* The state has the shape the Go types give it.
Shape ==
    /\ transports \in T!Executor \cup {T!None}
    /\ conn \in [T!Executor -> Nat]
    /\ cache \in [T!Executor -> [File -> Caller \cup {T!None}]]
    /\ opened \in [T!Executor -> SUBSET Nat] /\ closed \subseteq Nat
    /\ run \in [Caller -> RunState]
    /\ running \in BOOLEAN /\ overlapped \in BOOLEAN

\* An execution beyond getTransportExecutor has an executor; beyond getConn it uses
\* the executor's connection, which nobody closes under it; its protoset is the one
\* the executor's cache holds.
UsesWell(r, conns, caches) ==
    /\ r.pc \in {"conn", "dial", "source", "parse", "invoke"} => r.ex # T!None
    /\ r.pc \in {"source", "parse", "invoke"} => r.conn # 0 /\ r.conn = conns[r.ex]
    /\ r.pc \in {"idle", "lookup", "create", "conn", "dial", "source"} => r.src = T!None
    /\ r.pc = "parse" => r.source # T!Reflection
    /\ r.pc = "invoke" => r.src # T!None
    /\ r.src # T!None /\ r.source # T!Reflection =>
          r.ex # T!None /\ r.src = caches[r.ex][r.source]

Using == \A c \in Caller : UsesWell(run[c], conn, cache)

AllOpened == UNION {opened[x] : x \in T!Executor}

\* Connections are numbered as they are opened, and belong to one executor.
Owned ==
    /\ \E n \in Nat : AllOpened = 1..n
    /\ closed \subseteq AllOpened
    /\ \A x, y \in T!Executor : x # y => opened[x] \cap opened[y] = {}
    /\ T!NoConnectionLost

\* While executions do not overlap there is one executor, known to the Runner.
OneAtATime ==
    /\ \A c, d \in T!Active : c = d
    /\ \A c \in Caller :
          /\ run[c].pc = "create" => transports = T!None
          /\ run[c].pc \in {"conn", "dial"} => run[c].ex = transports
    /\ \A x \in T!Executor : opened[x] # {} => x = transports

\* After Run nothing is executing and the Runner's transport is closed.
OneByOne ==
    /\ ~running => T!Active = {}
    /\ ~running /\ transports # T!None => conn[transports] = 0
    /\ ~overlapped => OneAtATime

TransportInv == Shape /\ Using /\ Owned /\ OneByOne

LEMMA TransportInit == T!Init => TransportInv
  <1> SUFFICES ASSUME T!Init PROVE TransportInv  OBVIOUS
  <1> USE Names
  <1>1. /\ transports = T!None /\ conn = [x \in T!Executor |-> 0] /\ closed = {}
        /\ cache = [x \in T!Executor |-> [f \in File |-> T!None]]
        /\ opened = [x \in T!Executor |-> {}] /\ run = [c \in Caller |-> T!Idle]
    BY Zenon DEF T!Init
  <1>2. running \in BOOLEAN /\ running /\ overlapped \in BOOLEAN
    BY Zenon DEF T!Init
  <1>3. T!Idle \in RunState /\ T!Idle.pc = "idle" /\ T!Idle.src = T!None
    BY DEF T!Idle, RunState
  <1>4. Shape
    BY <1>1, <1>2, <1>3, Zenon DEF Shape
  <1>5. Using
    BY <1>1, <1>3, Zenon DEF Using, UsesWell
  <1>6. AllOpened = {}
    BY <1>1, Zenon DEF AllOpened
  <1>7. Owned
    <2>1. AllOpened = 1..0
      BY <1>6
    <2> QED BY <1>1, <1>6, <2>1 DEF Owned, T!NoConnectionLost
  <1>8. OneByOne
    <2>1. T!Active = {}
      BY <1>1, <1>3 DEF T!Active
    <2> QED BY <1>1, <1>2, <1>3, <2>1, Zenon DEF OneByOne, OneAtATime
  <1> QED BY <1>4, <1>5, <1>7, <1>8 DEF TransportInv

-----------------------------------------------------------------------------
(* Every step preserves the invariant.                                     *)

\* The number of a new connection is fresh.
LEMMA FreshConn ==
    ASSUME NEW n \in Nat, AllOpened = 1..n
    PROVE  T!NewConn = n + 1
  <1>1. Cardinality(1..n) = n
    BY FS_Interval
  <1>2. T!NewConn = Cardinality(AllOpened) + 1
    BY Zenon DEF T!NewConn, AllOpened, Cardinality, T!Cardinality
  <1> QED BY <1>1, <1>2

LEMMA NewConnType ==
    ASSUME Owned
    PROVE  T!NewConn \in Nat \ {0} /\ T!NewConn \notin AllOpened
  <1>1. PICK n \in Nat : AllOpened = 1..n
    BY DEF Owned
  <1> QED BY <1>1, FreshConn

LEMMA TransportCases ==
    ASSUME [T!Next]_(T!vars)
    PROVE  \/ T!CloseAll \/ T!RunAgain
           \/ \E c \in Caller : T!Execution(c)
           \/ \E c \in Caller, s \in File \cup {T!Reflection} : T!Start(c, s)
           \/ UNCHANGED T!vars
  BY Zenon DEF T!Next

LEMMA InvokeForm ==
    ASSUME NEW c \in Caller, T!Invoke(c)
    PROVE  \/ run' = [run EXCEPT ![c].pc = "done"]
           \/ \E t, k \in Int :
                 run' = [run EXCEPT ![c].pc = "done", ![c].trailers = t, ![c].code = k]
  <1>1. ASSUME NEW inv \in T!Invocations,
               run' = [run EXCEPT ![c].pc = "done", ![c].trailers = inv.trailers,
                                    ![c].code = T!ResolveGrpcStatus(inv)]
        PROVE  \E t, k \in Int :
                  run' = [run EXCEPT ![c].pc = "done", ![c].trailers = t, ![c].code = k]
    <2>1. inv.trailers \in Int /\ T!ResolveGrpcStatus(inv) \in Int
      BY DEF T!Invocations, T!ResolveGrpcStatus, T!OK, T!NotFound, T!Down
    <2> QED BY Zenon, <1>1, <2>1
  <1> QED BY Zenon, <1>1 DEF T!Invoke

\* Past the invocation an execution keeps everything but its status.
LEMMA InvokeShape ==
    ASSUME Shape, NEW c \in Caller, T!Invoke(c)
    PROVE  /\ run'[c].pc = "done" /\ run'[c].source = run[c].source
           /\ run'[c].ex = run[c].ex /\ run'[c].conn = run[c].conn
           /\ run'[c].src = run[c].src
  <1>0. run[c] \in RunState
    BY DEF Shape
  <1>1. CASE run' = [run EXCEPT ![c].pc = "done"]
    BY <1>0, <1>1 DEF Shape, RunState
  <1>2. CASE \E t, k \in Int :
                run' = [run EXCEPT ![c].pc = "done", ![c].trailers = t, ![c].code = k]
    <2>1. PICK t \in Int, k \in Int :
                run' = [run EXCEPT ![c].pc = "done", ![c].trailers = t, ![c].code = k]
      BY Zenon, <1>2
    <2> QED BY <1>0, <2>1 DEF Shape, RunState
  <1>3. \/ run' = [run EXCEPT ![c].pc = "done"]
        \/ \E t, k \in Int :
                run' = [run EXCEPT ![c].pc = "done", ![c].trailers = t, ![c].code = k]
    BY InvokeForm, Zenon
  <1> QED BY Zenon, <1>1, <1>2, <1>3

\* A step of execution c changes no other execution, and none of the flags of Run.
LEMMA ExecutionFrame ==
    ASSUME Shape, NEW c \in Caller, T!Execution(c)
    PROVE  /\ \A d \in Caller \ {c} : run'[d] = run[d]
           /\ run'[c].source = run[c].source
           /\ c \in T!Active
           /\ UNCHANGED <<closed, running, overlapped>>
  <1>1. \A d \in Caller \ {c} : run'[d] = run[d]
    BY Zenon DEF Shape, T!Execution, T!LookupExecutor, T!StoreExecutor, T!ReadConn,
      T!OpenConn, T!Dial, T!LoadSource, T!ParseSource, T!Invoke
  <1>2. run'[c].source = run[c].source
    <2>1. run[c] \in RunState
      BY DEF Shape
    <2>2. CASE T!LookupExecutor(c) \/ T!StoreExecutor(c) \/ T!ReadConn(c)
      BY <2>1, <2>2 DEF Shape, RunState, T!LookupExecutor, T!StoreExecutor, T!ReadConn
    <2>3. CASE T!OpenConn(c)
      <3>1. \/ run' = [run EXCEPT ![c].pc = "done"]
            \/ \E n : run' = [run EXCEPT ![c].conn = n, ![c].pc = "source"]
        BY <2>3, Zenon DEF T!OpenConn, T!Dial
      <3> QED BY <2>1, <3>1, Zenon DEF Shape, RunState
    <2>4. CASE T!LoadSource(c) \/ T!ParseSource(c)
      BY <2>1, <2>4 DEF Shape, RunState, T!LoadSource, T!ParseSource
    <2>5. CASE T!Invoke(c)
      BY <2>5, InvokeShape
    <2> QED BY <2>2, <2>3, <2>4, <2>5, Zenon DEF T!Execution
  <1>3. c \in T!Active
    BY Zenon DEF T!Active, T!Execution, T!LookupExecutor, T!StoreExecutor, T!ReadConn,
      T!OpenConn, T!LoadSource, T!ParseSource, T!Invoke
  <1>4. UNCHANGED <<closed, running, overlapped>>
    BY Zenon DEF T!Execution, T!LookupExecutor, T!StoreExecutor, T!ReadConn, T!OpenConn,
           T!LoadSource, T!ParseSource, T!Invoke
  <1> QED BY <1>1, <1>2, <1>3, <1>4

LEMMA ShapeStep ==
    ASSUME TransportInv, [T!Next]_(T!vars)
    PROVE  Shape'
  <1> USE Names DEF TransportInv
  <1>1. CASE T!CloseAll
    <2>1. running' \in BOOLEAN /\ overlapped' \in BOOLEAN
      BY Zenon, <1>1 DEF T!CloseAll, Shape
    <2>2. conn' \in [T!Executor -> Nat]
      BY <1>1, Zenon DEF T!CloseAll, Shape
    <2>2a. closed' \subseteq Nat
      <3>1. closed' = closed \cup ({conn[x] : x \in {transports} \ {T!None}} \ {0})
        BY <1>1, Zenon DEF T!CloseAll
      <3>2. \A x \in {transports} \ {T!None} : conn[x] \in Nat
        BY Zenon DEF Shape
      <3> QED BY <3>1, <3>2 DEF Shape
    <2>3. UNCHANGED <<transports, cache, opened, run>>
      BY <1>1 DEF T!CloseAll
    <2> QED BY <2>1, <2>2, <2>2a, <2>3 DEF Shape
  <1>2. CASE T!RunAgain
    <2>1. running' \in BOOLEAN /\ overlapped' \in BOOLEAN
      BY Zenon, <1>2 DEF T!RunAgain, Shape
    <2> QED BY <1>2, <2>1, Zenon DEF T!RunAgain, Shape
  <1>3. ASSUME NEW c \in Caller, T!Execution(c) PROVE Shape'
    <2>0. UNCHANGED <<closed, running, overlapped>> /\ run[c] \in RunState
          /\ T!NewConn \in Nat
      BY <1>3, ExecutionFrame, NewConnType DEF Shape
    <2>1. CASE T!LookupExecutor(c)
      BY <2>0, <2>1, Zenon DEF T!LookupExecutor, Shape, RunState
    <2>2. CASE T!StoreExecutor(c)
      BY <2>0, <2>2, Zenon DEF T!StoreExecutor, Shape, RunState, T!Executor
    <2>3. CASE T!ReadConn(c)
      <3>1. run[c].ex \in T!Executor
        BY <2>0, <2>3, Zenon DEF T!ReadConn, Using, UsesWell, RunState
      <3> QED BY <2>0, <2>3, <3>1, Zenon DEF T!ReadConn, Shape, RunState
    <2>4. CASE T!OpenConn(c)
      <3>1. run[c].ex \in T!Executor
        BY <2>0, <2>4 DEF T!OpenConn, Using, UsesWell, RunState
      <3>2. UNCHANGED <<transports, cache>>
        BY <2>4, Zenon DEF T!OpenConn
      <3>3. conn' \in [T!Executor -> Nat] /\ opened' \in [T!Executor -> SUBSET Nat]
        <4> DEFINE x == run[c].ex
        <4>1. \/ UNCHANGED <<conn, opened>>
              \/ /\ conn' = [conn EXCEPT ![x] = T!NewConn]
                 /\ opened' = [opened EXCEPT ![x] = opened[x] \cup {T!NewConn}]
          BY Zenon, <2>4 DEF T!OpenConn, T!Dial
        <4>2. opened[x] \cup {T!NewConn} \in SUBSET Nat
          BY <2>0, <3>1 DEF Shape
        <4> HIDE DEF x
        <4> QED BY <2>0, <4>1, <4>2 DEF Shape
      <3>4. run' \in [Caller -> RunState]
        <4>1. \/ run' = [run EXCEPT ![c].pc = "done"]
              \/ \E n \in Nat : run' = [run EXCEPT ![c].conn = n, ![c].pc = "source"]
          BY <2>0, <2>4, <3>1, Zenon DEF T!OpenConn, T!Dial, Shape
        <4>2. CASE run' = [run EXCEPT ![c].pc = "done"]
          BY <2>0, <4>2, Zenon DEF Shape, RunState
        <4>3. ASSUME NEW n \in Nat, run' = [run EXCEPT ![c].conn = n, ![c].pc = "source"]
              PROVE  run' \in [Caller -> RunState]
          BY <2>0, <4>3, Zenon DEF Shape, RunState
        <4> QED BY Zenon, <4>1, <4>2, <4>3
      <3> QED BY <2>0, <3>2, <3>3, <3>4, Zenon DEF Shape
    <2>5. CASE T!LoadSource(c)
      <3>1. run[c].ex \in T!Executor
        BY <2>0, <2>5, Zenon DEF T!LoadSource, Using, UsesWell, RunState
      <3>2. (IF run[c].source = T!Reflection THEN c ELSE cache[run[c].ex][run[c].source])
               \in Caller \cup {T!None}
        BY <2>0, <3>1 DEF Shape, RunState
      <3> QED BY <2>0, <2>5, <3>2 DEF T!LoadSource, Shape, RunState
    <2>6. CASE T!ParseSource(c)
      <3> DEFINE x == run[c].ex
                 f == run[c].source
                 kept == IF cache[x][f] = T!None THEN c ELSE cache[x][f]
      <3>1. x \in T!Executor
        BY <2>0, <2>6, Zenon DEF T!ParseSource, Using, UsesWell, RunState
      <3>2. f \in File
        BY <2>0, <2>6, Zenon DEF T!ParseSource, Using, UsesWell, RunState
      <3>3. kept \in Caller
        BY <3>1, <3>2 DEF Shape
      <3>4. \/ cache' = [cache EXCEPT ![x][f] = kept]
               /\ run' = [run EXCEPT ![c].src = kept, ![c].pc = "invoke"]
            \/ run' = [run EXCEPT ![c].pc = "done"] /\ cache' = cache
        BY <2>6, Zenon DEF T!ParseSource
      <3> HIDE DEF kept
      <3>5. cache' \in [T!Executor -> [File -> Caller \cup {T!None}]]
        <4>1. cache' = cache \/ cache' = [cache EXCEPT ![x] = [cache[x] EXCEPT ![f] = kept]]
          BY <3>4, Zenon
        <4>2. [cache[x] EXCEPT ![f] = kept] \in [File -> Caller \cup {T!None}]
          BY <3>1, <3>2, <3>3, Zenon DEF Shape
        <4> QED BY <3>1, <4>1, <4>2, Zenon DEF Shape
      <3>6. run' \in [Caller -> RunState]
        BY <2>0, <3>3, <3>4 DEF Shape, RunState
      <3>7. UNCHANGED <<transports, conn, opened>>
        BY <2>6, Zenon DEF T!ParseSource
      <3> QED BY <2>0, <3>5, <3>6, <3>7, Zenon DEF Shape
    <2>7. CASE T!Invoke(c)
      <3>1. UNCHANGED <<transports, conn, cache, opened>>
        BY <2>7, Zenon DEF T!Invoke
      <3>2. \/ run' = [run EXCEPT ![c].pc = "done"]
            \/ \E t, k \in Int :
                  run' = [run EXCEPT ![c].pc = "done", ![c].trailers = t, ![c].code = k]
        BY <2>7, InvokeForm, Zenon
      <3>3. run' \in [Caller -> RunState]
        <4>1. CASE run' = [run EXCEPT ![c].pc = "done"]
          BY <2>0, <4>1 DEF Shape, RunState
        <4>2. ASSUME NEW t \in Int, NEW k \in Int,
                     run' = [run EXCEPT ![c].pc = "done", ![c].trailers = t, ![c].code = k]
              PROVE  run' \in [Caller -> RunState]
          BY <2>0, <4>2, Zenon DEF Shape, RunState
        <4> QED BY Zenon, <3>2, <4>1, <4>2
      <3> QED BY <2>0, <3>1, <3>3 DEF Shape
    <2> QED BY <1>3, <2>1, <2>2, <2>3, <2>4, <2>5, <2>6, <2>7, Zenon DEF T!Execution
  <1>4. ASSUME NEW c \in Caller, NEW s \in File \cup {T!Reflection}, T!Start(c, s) PROVE Shape'
    <2>1. running' \in BOOLEAN /\ overlapped' \in BOOLEAN
      BY Zenon, <1>4 DEF T!Start, Shape
    <2>2. UNCHANGED <<transports, conn, cache, opened, closed>>
      BY <1>4 DEF T!Start
    <2>3. run' = [run EXCEPT ![c].pc = "lookup", ![c].source = s]
      BY <1>4 DEF T!Start
    <2>4. run' \in [Caller -> RunState]
      <3>1. run[c] \in RunState
        BY DEF Shape
      <3> QED BY <2>3, <3>1, Zenon DEF Shape, RunState
    <2> QED BY <2>1, <2>2, <2>4, Zenon DEF Shape
  <1>5. CASE UNCHANGED T!vars
    BY <1>5, Zenon DEF T!vars, Shape
  <1> QED BY <1>1, <1>2, <1>3, <1>4, <1>5, TransportCases, Zenon

\* An execution is not disturbed by a step that leaves its record alone, does not
\* touch a connection in use, and changes no protoset that is already cached.
LEMMA Undisturbed ==
    ASSUME Shape, NEW d \in Caller, UsesWell(run[d], conn, cache), run'[d] = run[d],
           run[d].pc \in {"source", "parse", "invoke"} =>
               conn'[run[d].ex] = conn[run[d].ex],
           \A x \in T!Executor, f \in File : cache[x][f] # T!None => cache'[x][f] = cache[x][f]
    PROVE  UsesWell(run'[d], conn', cache')
  <1>1. run[d] \in RunState
    BY Zenon DEF Shape
  <1>2. ASSUME run[d].src # T!None, run[d].source # T!Reflection
        PROVE  cache'[run[d].ex][run[d].source] = cache[run[d].ex][run[d].source]
    <2>1. run[d].ex \in T!Executor /\ run[d].source \in File
      BY <1>1, <1>2, Zenon DEF UsesWell, RunState
    <2>2. cache[run[d].ex][run[d].source] # T!None
      BY <1>2, Zenon DEF UsesWell
    <2> QED BY <2>1, <2>2, Zenon
  <1> QED BY <1>2 DEF UsesWell

LEMMA UsingStep ==
    ASSUME TransportInv, [T!Next]_(T!vars)
    PROVE  Using'
  <1> USE Names DEF TransportInv
  <1> SUFFICES ASSUME NEW d \in Caller PROVE UsesWell(run'[d], conn', cache')
    BY Zenon DEF Using
  <1>0. UsesWell(run[d], conn, cache) /\ run[d] \in RunState
    BY Zenon DEF Using, Shape
  <1>1. CASE T!CloseAll
    <2>1. run' = run /\ cache' = cache /\ run[d].pc \in {"idle", "done"}
      BY <1>1, Zenon DEF T!CloseAll, T!Active
    <2> QED BY <1>0, <2>1, Undisturbed, Zenon
  <1>2. CASE T!RunAgain \/ UNCHANGED T!vars
    <2>1. UNCHANGED <<run, conn, cache>>
      BY <1>2, Zenon DEF T!RunAgain, T!vars
    <2> QED BY <1>0, <2>1, Zenon
  <1>3. ASSUME NEW c \in Caller, NEW s \in File \cup {T!Reflection}, T!Start(c, s)
        PROVE  UsesWell(run'[d], conn', cache')
    <2>1. /\ run' = [run EXCEPT ![c].pc = "lookup", ![c].source = s]
          /\ UNCHANGED <<conn, cache>> /\ run[c].pc = "idle"
      BY <1>3, Zenon DEF T!Start
    <2>2. CASE d = c
      <3>1. run'[d].pc = "lookup" /\ run'[d].src = run[d].src
        BY <1>0, <2>1, <2>2 DEF Shape, RunState
      <3> QED BY <1>0, <2>1, <2>2, <3>1 DEF UsesWell
    <2>3. CASE d # c
      BY <1>0, <2>1, <2>3, Zenon DEF Shape
    <2> QED BY <2>2, <2>3
  <1>4. ASSUME NEW c \in Caller, T!Execution(c), c # d
        PROVE  UsesWell(run'[d], conn', cache')
    <2>0. run'[d] = run[d]
      BY <1>4, ExecutionFrame, Zenon
    <2>1. run[d].pc \in {"source", "parse", "invoke"} => conn'[run[d].ex] = conn[run[d].ex]
      <3> SUFFICES ASSUME run[d].pc \in {"source", "parse", "invoke"}
                   PROVE  conn'[run[d].ex] = conn[run[d].ex]
        BY Zenon
      <3>1. run[d].ex \in T!Executor /\ conn[run[d].ex] # 0
        BY <1>0 DEF UsesWell, RunState
      <3>2. conn' = conn \/ \E n, x : conn[x] = 0 /\ conn' = [conn EXCEPT ![x] = n]
        BY <1>4, Zenon DEF T!Execution, T!LookupExecutor, T!StoreExecutor, T!ReadConn,
          T!OpenConn, T!Dial, T!LoadSource, T!ParseSource, T!Invoke
      <3> QED BY <3>1, <3>2, Zenon DEF Shape
    <2>2. \A x \in T!Executor, f \in File : cache[x][f] # T!None => cache'[x][f] = cache[x][f]
      <3>1. CASE T!ParseSource(c)
        BY <3>1 DEF T!ParseSource, Shape
      <3>2. CASE ~T!ParseSource(c)
        BY <1>4, <3>2, Zenon DEF T!Execution, T!LookupExecutor, T!StoreExecutor, T!ReadConn,
          T!OpenConn, T!LoadSource, T!Invoke
      <3> QED BY <3>1, <3>2, Zenon
    <2> QED BY <1>0, <2>0, <2>1, <2>2, Undisturbed, Zenon
  <1>5. ASSUME T!Execution(d) PROVE UsesWell(run'[d], conn', cache')
    <2>1. CASE T!LookupExecutor(d)
      <3>1. /\ run'[d].ex = transports /\ run'[d].src = run[d].src /\ run[d].pc = "lookup"
            /\ run'[d].pc = IF transports = T!None THEN "create" ELSE "conn"
        BY <1>0, <2>1, Zenon DEF T!LookupExecutor, Shape, RunState
      <3> QED BY <1>0, <3>1 DEF UsesWell
    <2>2. CASE T!StoreExecutor(d)
      <3>1. /\ run'[d].ex = d /\ run'[d].src = run[d].src /\ run[d].pc = "create"
            /\ run'[d].pc = "conn" /\ d # T!None
        BY <1>0, <2>2, Zenon DEF T!StoreExecutor, Shape, RunState
      <3> QED BY <1>0, <3>1 DEF UsesWell
    <2>3. CASE T!ReadConn(d)
      <3>1. /\ run'[d].ex = run[d].ex /\ run'[d].src = run[d].src /\ run[d].pc = "conn"
            /\ run'[d].conn = conn[run[d].ex] /\ conn' = conn
            /\ run'[d].pc = IF conn[run[d].ex] = 0 THEN "dial" ELSE "source"
        BY <1>0, <2>3, Zenon DEF T!ReadConn, Shape, RunState
      <3> QED BY <1>0, <3>1, Zenon DEF UsesWell
    <2>4. CASE T!OpenConn(d)
      <3>1. run[d].pc = "dial" /\ run[d].ex \in T!Executor
        BY <1>0, <2>4, Zenon DEF T!OpenConn, UsesWell, RunState
      <3>2. CASE run' = [run EXCEPT ![d].pc = "done"]
        <4>1. run'[d].pc = "done" /\ run'[d].src = run[d].src
          BY <1>0, <3>2, Zenon DEF Shape, RunState
        <4> QED BY <1>0, <3>1, <4>1 DEF UsesWell
      <3>3. ASSUME NEW n, n # 0, conn'[run[d].ex] = n,
                   run' = [run EXCEPT ![d].conn = n, ![d].pc = "source"]
            PROVE  UsesWell(run'[d], conn', cache')
        <4>1. /\ run'[d].pc = "source" /\ run'[d].src = run[d].src /\ run'[d].conn = n
              /\ run'[d].ex = run[d].ex
          BY <1>0, <3>3, Zenon DEF Shape, RunState
        <4> QED BY <1>0, <3>1, <3>3, <4>1 DEF UsesWell
      <3>4. CASE conn[run[d].ex] # 0 /\ conn' = conn
                 /\ run' = [run EXCEPT ![d].conn = conn[run[d].ex], ![d].pc = "source"]
        BY <3>3, <3>4, Zenon
      <3>5. CASE T!Dial(d, run[d].ex)
        <4>1. T!NewConn # 0 /\ conn'[run[d].ex] = T!NewConn
          BY <3>1, <3>5, NewConnType DEF T!Dial, Shape
        <4> QED BY <3>3, <3>5, <4>1, Zenon DEF T!Dial
      <3> QED BY <2>4, <3>2, <3>4, <3>5, Zenon DEF T!OpenConn
    <2>5. CASE T!LoadSource(d)
      <3> DEFINE cached == IF run[d].source = T!Reflection THEN d
                           ELSE cache[run[d].ex][run[d].source]
      <3>1. /\ run'[d].ex = run[d].ex /\ run'[d].source = run[d].source
            /\ run'[d].conn = run[d].conn /\ run'[d].src = cached
            /\ run'[d].pc = IF cached = T!None THEN "parse" ELSE "invoke"
            /\ UNCHANGED <<conn, cache>> /\ run[d].pc = "source" /\ d # T!None
        BY <1>0, <2>5, Zenon DEF T!LoadSource, Shape, RunState
      <3> QED BY <1>0, <3>1, Zenon DEF UsesWell
    <2>6. CASE T!ParseSource(d)
      <3> DEFINE x == run[d].ex
                 f == run[d].source
                 kept == IF cache[x][f] = T!None THEN d ELSE cache[x][f]
      <3>1. run[d].pc = "parse" /\ x \in T!Executor /\ f \in File /\ conn' = conn
            /\ kept # T!None
        BY <1>0, <2>6 DEF T!ParseSource, UsesWell, RunState
      <3>2. CASE /\ cache' = [cache EXCEPT ![x][f] = kept]
                 /\ run' = [run EXCEPT ![d].src = kept, ![d].pc = "invoke"]
        <4>1. /\ run'[d].ex = x /\ run'[d].source = f /\ run'[d].conn = run[d].conn
              /\ run'[d].src = kept /\ run'[d].pc = "invoke"
          BY <1>0, <3>2, Zenon DEF Shape, RunState
        <4>2. cache'[x][f] = kept
          BY <3>1, <3>2, Zenon DEF Shape
        <4> QED BY <1>0, <3>1, <4>1, <4>2, Zenon DEF UsesWell
      <3>3. CASE run' = [run EXCEPT ![d].pc = "done"] /\ cache' = cache
        <4>1. /\ run'[d].ex = x /\ run'[d].source = f /\ run'[d].src = run[d].src
              /\ run'[d].pc = "done"
          BY <1>0, <3>3, Zenon DEF Shape, RunState
        <4> QED BY <1>0, <3>3, <4>1 DEF UsesWell
      <3> QED BY <2>6, <3>2, <3>3, Zenon DEF T!ParseSource
    <2>7. CASE T!Invoke(d)
      <3>1. UNCHANGED cache
        BY <2>7, Zenon DEF T!Invoke
      <3> QED BY <1>0, <2>7, <3>1, InvokeShape DEF UsesWell
    <2> QED BY <1>5, <2>1, <2>2, <2>3, <2>4, <2>5, <2>6, <2>7, Zenon DEF T!Execution
  <1> QED BY <1>1, <1>2, <1>3, <1>4, <1>5, TransportCases, Zenon

\* A connection is opened only where there is none, under a fresh number, and closed
\* by the executor that opened it.
LEMMA OwnedStep ==
    ASSUME TransportInv, [T!Next]_(T!vars)
    PROVE  Owned'
  <1> USE Names DEF TransportInv
  <1>1. CASE T!CloseAll
    <2>0. opened' = opened /\ AllOpened' = AllOpened
      BY <1>1, Zenon DEF T!CloseAll, AllOpened
    <2>1. CASE transports = T!None
      <3>1. closed' = closed /\ \A x \in T!Executor : conn'[x] = conn[x]
        BY <1>1, <2>1, Zenon DEF T!CloseAll, T!Executor
      <3> QED BY <2>0, <3>1, Zenon DEF Owned, T!NoConnectionLost
    <2>2. CASE transports # T!None
      <3>0. transports \in T!Executor
        BY <2>2, Zenon DEF Shape
      <3>1. closed' = closed \cup ({conn[transports]} \ {0})
        <4>1. {conn[x] : x \in {transports} \ {T!None}} = {conn[transports]}
          BY <2>2, Zenon
        <4> QED BY <1>1, <4>1, Zenon DEF T!CloseAll
      <3>2. conn'[transports] = 0 /\ \A x \in T!Executor \ {transports} : conn'[x] = conn[x]
        BY <1>1, <3>0, Zenon DEF T!CloseAll
      <3>3. \A x \in T!Executor : {conn[x]} \ {0} \subseteq opened[x]
        BY Zenon DEF Owned, T!NoConnectionLost
      <3>4. closed' \subseteq AllOpened
        BY <3>0, <3>1, <3>3 DEF Owned, AllOpened
      <3>5. T!NoConnectionLost'
        <4> SUFFICES ASSUME NEW x \in T!Executor
                     PROVE  opened[x] \ closed' = {conn'[x]} \ {0}
          BY <2>0, Zenon DEF T!NoConnectionLost
        <4>1. opened[x] \ closed = {conn[x]} \ {0}
          BY Zenon DEF Owned, T!NoConnectionLost
        <4>2. CASE x = transports
          BY <3>1, <3>2, <4>1, <4>2, Zenon
        <4>3. CASE x # transports
          <5>1. opened[x] \cap ({conn[transports]} \ {0}) = {}
            BY <3>0, <3>3, <4>3 DEF Owned
          <5> QED BY <3>1, <3>2, <4>1, <4>3, <5>1, Zenon
        <4> QED BY <4>2, <4>3, Zenon
      <3> QED BY <2>0, <3>4, <3>5, Zenon DEF Owned
    <2> QED BY <2>1, <2>2, Zenon
  <1>2. ASSUME NEW c \in Caller, T!Execution(c) PROVE Owned'
    <2>0. closed' = closed
      BY <1>2, ExecutionFrame, Zenon
    <2>1. CASE UNCHANGED <<conn, opened>>
      BY <2>0, <2>1 DEF Owned, T!NoConnectionLost, AllOpened
    <2>2. CASE run[c].pc = "dial" /\ conn[run[c].ex] = 0 /\ T!Dial(c, run[c].ex)
      <3> DEFINE z == run[c].ex
      <3>0. z \in T!Executor
        BY <2>2, Zenon DEF Using, UsesWell, Shape, RunState
      <3>1. PICK n \in Nat : AllOpened = 1..n
        BY Zenon DEF Owned
      <3>2. T!NewConn = n + 1 /\ T!NewConn # 0 /\ T!NewConn \notin AllOpened
        BY <3>1, FreshConn
      <3>3. /\ conn'[z] = T!NewConn /\ opened'[z] = opened[z] \cup {T!NewConn}
            /\ \A x \in T!Executor \ {z} : conn'[x] = conn[x] /\ opened'[x] = opened[x]
        BY <2>2, <3>0, Zenon DEF T!Dial, Shape
      <3>4. AllOpened' = AllOpened \cup {T!NewConn}
        BY <3>0, <3>3 DEF AllOpened
      <3>5. AllOpened' = 1..(n + 1)
        BY <3>1, <3>2, <3>4
      <3>6. \A x \in T!Executor : T!NewConn \notin opened[x]
        BY <3>2, Zenon DEF AllOpened
      <3>7. \A x, y \in T!Executor : x # y => opened'[x] \cap opened'[y] = {}
        BY <3>0, <3>3, <3>6 DEF Owned
      <3>8. T!NoConnectionLost'
        <4> SUFFICES ASSUME NEW x \in T!Executor
                     PROVE  opened'[x] \ closed = {conn'[x]} \ {0}
          BY <2>0, Zenon DEF T!NoConnectionLost
        <4>1. opened[x] \ closed = {conn[x]} \ {0}
          BY Zenon DEF Owned, T!NoConnectionLost
        <4>2. T!NewConn \notin closed
          BY <3>2, Zenon DEF Owned
        <4>3. CASE x = z
          BY <2>2, <3>2, <3>3, <4>1, <4>2, <4>3
        <4>4. CASE x # z
          BY <3>3, <4>1, <4>4, Zenon
        <4> QED BY <4>3, <4>4, Zenon
      <3> QED BY <2>0, <3>4, <3>5, <3>7, <3>8 DEF Owned
    <2> QED BY <1>2, <2>1, <2>2, Zenon DEF T!Execution, T!LookupExecutor, T!StoreExecutor,
              T!ReadConn, T!OpenConn, T!LoadSource, T!ParseSource, T!Invoke
  <1>3. CASE UNCHANGED <<conn, opened, closed>>
    BY <1>3 DEF Owned, T!NoConnectionLost, AllOpened
  <1>4. (\E c \in Caller, s \in File \cup {T!Reflection} : T!Start(c, s)) \/ T!RunAgain
            \/ UNCHANGED T!vars => UNCHANGED <<conn, opened, closed>>
    BY Zenon DEF T!Start, T!RunAgain, T!vars
  <1> QED BY <1>1, <1>2, <1>3, <1>4, TransportCases, Zenon

\* The only execution under way works with the Runner's transport, or creates it when
\* the Runner has none.
LEMMA OneAtATimeStep ==
    ASSUME TransportInv, OneAtATime, NEW c \in Caller, T!Execution(c)
    PROVE  OneAtATime'
  <1> USE Names DEF TransportInv
  <1>0. /\ \A d \in Caller \ {c} : run'[d] = run[d]
        /\ c \in T!Active
        /\ run[c] \in RunState
    BY ExecutionFrame, Zenon DEF Shape
  <1>1. \A d \in Caller \ {c} : run[d].pc \in {"idle", "done"}
    BY <1>0, Zenon DEF OneAtATime, T!Active
  <1>2. \A d, e \in T!Active' : d = e
    BY <1>0, <1>1, Zenon DEF T!Active
  <1>3. \A d \in Caller \ {c} : run'[d].pc \in {"idle", "done"}
    BY <1>0, <1>1, Zenon
  <1>4. CASE T!LookupExecutor(c)
    <2>1. /\ run'[c].pc = "create" => transports = T!None
          /\ run'[c].pc \in {"conn", "dial"} => run'[c].ex = transports
      BY <1>0, <1>4, Zenon DEF T!LookupExecutor, Shape, RunState
    <2> QED BY <1>2, <1>3, <1>4, <2>1, Zenon DEF T!LookupExecutor, OneAtATime
  <1>5. CASE T!StoreExecutor(c)
    <2>1. run'[c].pc = "conn" /\ run'[c].ex = c /\ transports' = c
      BY <1>0, <1>5 DEF T!StoreExecutor, Shape, RunState
    <2>2. transports = T!None
      BY <1>5 DEF T!StoreExecutor, OneAtATime
    <2>3. \A x \in T!Executor : opened'[x] = {}
      BY <1>5, <2>2, Zenon DEF T!StoreExecutor, OneAtATime, T!Executor
    <2> QED BY <1>2, <1>3, <2>1, <2>3 DEF OneAtATime
  <1>6. CASE T!ReadConn(c)
    <2>1. run'[c].pc \in {"dial", "source"} /\ run'[c].ex = run[c].ex
      BY <1>0, <1>6, Zenon DEF T!ReadConn, Shape, RunState
    <2> QED BY <1>2, <1>3, <1>6, <2>1, Zenon DEF T!ReadConn, OneAtATime
  <1>7. CASE T!OpenConn(c)
    <2>1. run'[c].pc \in {"source", "done"}
      BY <1>0, <1>7 DEF T!OpenConn, T!Dial, Shape, RunState
    <2>2. run[c].ex = transports /\ transports' = transports
      BY <1>7, Zenon DEF T!OpenConn, OneAtATime
    <2>3. \A x \in T!Executor : x # run[c].ex => opened'[x] = opened[x]
      BY <1>7, Zenon DEF T!OpenConn, T!Dial, Shape
    <2> QED BY <1>2, <1>3, <2>1, <2>2, <2>3 DEF OneAtATime
  <1>8. CASE T!LoadSource(c) \/ T!ParseSource(c) \/ T!Invoke(c)
    <2>1. UNCHANGED <<transports, opened>>
      BY <1>8, Zenon DEF T!LoadSource, T!ParseSource, T!Invoke
    <2>2. run'[c].pc \in {"parse", "invoke", "done"}
      <3>1. CASE T!LoadSource(c) \/ T!ParseSource(c)
        BY <1>0, <3>1 DEF T!LoadSource, T!ParseSource, Shape, RunState
      <3>2. CASE T!Invoke(c)
        BY <3>2, InvokeShape, Zenon
      <3> QED BY <1>8, <3>1, <3>2, Zenon
    <2> QED BY <1>2, <1>3, <2>1, <2>2 DEF OneAtATime
  <1> QED BY <1>4, <1>5, <1>6, <1>7, <1>8, Zenon DEF T!Execution

LEMMA OneByOneStep ==
    ASSUME TransportInv, [T!Next]_(T!vars)
    PROVE  OneByOne'
  <1> USE Names DEF TransportInv
  <1>0. (~overlapped => OneAtATime) /\ (OneByOne' <=>
          /\ ~running' => T!Active' = {}
          /\ ~running' /\ transports' # T!None => conn'[transports'] = 0
          /\ ~overlapped' => OneAtATime')
    BY Zenon DEF OneByOne
  <1>1. CASE T!CloseAll
    <2>1. T!Active' = {} /\ (~overlapped' => ~overlapped) /\ UNCHANGED <<run, transports, opened>>
      BY <1>1, Zenon DEF T!CloseAll, T!Active
    <2>2. transports' # T!None => conn'[transports'] = 0
      BY <1>1, <2>1, Zenon DEF T!CloseAll, Shape
    <2>3. OneAtATime => OneAtATime'
      BY <2>1 DEF OneAtATime, T!Active
    <2> QED BY Zenon, <1>0, <2>1, <2>2, <2>3
  <1>2. CASE T!RunAgain
    <2>1. running' /\ (~overlapped' => ~overlapped)
      BY Zenon, <1>2 DEF T!RunAgain
    <2>2. OneAtATime => OneAtATime'
      BY <1>2 DEF T!RunAgain, OneAtATime, T!Active
    <2> QED BY Zenon, <1>0, <2>1, <2>2
  <1>3. ASSUME NEW c \in Caller, T!Execution(c) PROVE OneByOne'
    <2>1. c \in T!Active /\ UNCHANGED <<closed, running, overlapped>>
      BY <1>3, ExecutionFrame
    <2>2. running
      BY Zenon, <2>1 DEF OneByOne
    <2>3. ~overlapped => OneAtATime'
      BY Zenon, <1>0, <1>3, OneAtATimeStep DEF TransportInv
    <2>4. running' /\ (~overlapped' => ~overlapped)
      BY Zenon, <2>1, <2>2
    <2> QED BY Zenon, <1>0, <2>3, <2>4
  <1>4. ASSUME NEW c \in Caller, NEW s \in File \cup {T!Reflection}, T!Start(c, s)
        PROVE  OneByOne'
    <2>1. running' /\ (~overlapped' => ~overlapped /\ T!Active = {})
      BY Zenon, <1>4 DEF T!Start
    <2>2. ASSUME OneAtATime, T!Active = {} PROVE OneAtATime'
      <3>1. run'[c].pc = "lookup" /\ \A d \in Caller \ {c} : run'[d] = run[d]
        BY <1>4 DEF T!Start, Shape, RunState
      <3>2. UNCHANGED <<transports, opened>>
        BY <1>4, Zenon DEF T!Start
      <3>3. \A d, e \in T!Active' : d = e
        BY <2>2, <3>1, Zenon DEF T!Active
      <3> QED BY <2>2, <3>1, <3>2, <3>3 DEF OneAtATime
    <2> QED BY Zenon, <1>0, <2>1, <2>2
  <1>5. CASE UNCHANGED T!vars
    <2>1. OneByOne' <=> OneByOne
      BY <1>5, Zenon DEF T!vars, OneByOne, OneAtATime, T!Active
    <2> QED BY <2>1, Zenon
  <1> QED BY <1>1, <1>2, <1>3, <1>4, <1>5, TransportCases

-----------------------------------------------------------------------------
(* The theorems.                                                           *)

\* The inductive invariant holds, for any number of executions and of protosets.
THEOREM TransportInvariance == T!Spec => []TransportInv
  <1>1. TransportInv /\ [T!Next]_(T!vars) => TransportInv'
    BY ShapeStep, UsingStep, OwnedStep, OneByOneStep, Zenon DEF TransportInv
  <1> QED BY TransportInit, <1>1, PTL DEF T!Spec

\* No transport loses track of a connection it has opened, however many tests find no
\* connection at once in getConn.
THEOREM NothingLost == T!Spec => []T!NoConnectionLost
  <1>1. TransportInv => T!NoConnectionLost
    BY Zenon DEF TransportInv, Owned
  <1> QED BY TransportInvariance, <1>1, PTL

\* Every call is made on an open connection, also when the Runner is run again after
\* Close.
THEOREM CallsOnLiveConnection == T!Spec => []T!LiveConnection
  <1>1. TransportInv => T!LiveConnection
    <2> SUFFICES ASSUME TransportInv, NEW c \in Caller, run[c].pc = "invoke"
                 PROVE  run[c].conn # 0 /\ run[c].conn \notin closed
      BY Zenon DEF T!LiveConnection
    <2>1. run[c].ex \in T!Executor /\ run[c].conn # 0 /\ run[c].conn = conn[run[c].ex]
      BY Zenon DEF TransportInv, Using, UsesWell, Shape, RunState
    <2>2. opened[run[c].ex] \ closed = {conn[run[c].ex]} \ {0}
      BY <2>1, Zenon DEF TransportInv, Owned, T!NoConnectionLost
    <2> QED BY <2>1, <2>2, Zenon
  <1> QED BY TransportInvariance, <1>1, PTL

\* All calls through one transport use the same parse of a protoset file, whoever
\* wins the race of LoadOrStore.
THEOREM SharedParse == T!Spec => []T!OneSource
  <1>1. TransportInv => T!OneSource
    BY DEF TransportInv, Using, UsesWell, T!OneSource
  <1> QED BY TransportInvariance, <1>1, PTL

\* Executed one at a time, tests leave no connection open once Run has returned.
THEOREM RunClosesAll == T!Spec => []T!AllClosed
  <1>1. TransportInv => T!AllClosed
    <2> SUFFICES ASSUME TransportInv, ~running, ~overlapped, NEW x \in T!Executor
                 PROVE  opened[x] \subseteq closed
      BY DEF T!AllClosed
    <2>1. transports # T!None => conn[transports] = 0
      BY Zenon DEF TransportInv, OneByOne
    <2>2. opened[x] # {} => x = transports
      BY Zenon DEF TransportInv, OneByOne, OneAtATime
    <2>3. opened[x] \ closed = {conn[x]} \ {0} /\ x # T!None
      BY Names DEF TransportInv, Owned, T!NoConnectionLost, T!Executor
    <2> QED BY <2>1, <2>2, <2>3, Zenon
  <1> QED BY TransportInvariance, <1>1, PTL
=============================================================================
