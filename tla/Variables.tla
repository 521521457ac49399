----------------------------- MODULE Variables ------------------------------
(***************************************************************************)
(* Variables: how the YAML loader gives each case its variables            *)
(* (testloader/yaml_file), how the runner loads, substitutes and sets them *)
(* around each request (runner.executeTest, package variables), and how    *)
(* long the substitutions last.                                            *)
(*                                                                         *)
(* A field of a test is one placeholder for a variable: it is a template   *)
(* until a variable with a value is found, and keeps that value from then  *)
(* on.  Fields are told apart by where Clone and Apply keep them: request  *)
(* and response live in the clone of the test; the bodies of the mocks     *)
(* live in maps that all cases of a definition share.                      *)
(***************************************************************************)
EXTENDS Integers, Sequences, FiniteSets

CONSTANTS
    Var,          \* names of variables
    Value,        \* their values
    Definitions,  \* test definitions a YAML file may hold
    NDefs         \* bound: definitions in the file

Undef    == "undefined"  \* a name without a value
Template == "template"   \* a field still holding its placeholder

Binding == [Var -> Value \cup {Undef}]

\* A definition: its variables, the variables of its cases, the variable its fields
\* use, and the variable that variables_to_set names for status 200 (None: no
\* variables_to_set section).
None == "none"
Def  == [variables : Binding, cases : Seq(Binding), uses : Var, toSet : Var \cup {None}]

ASSUME ConstAssumption ==
    /\ Definitions \subseteq Def /\ NDefs \in Nat \ {0} /\ Var # {}
    /\ {Undef, Template} \cap Value = {} /\ None \notin Var

VARIABLES
    file,      \* the definitions of the YAML file
    env,       \* environment variables
    combined,  \* combined[d]: the map CombinedVariables of all tests of d refer to
    parsed,    \* definitions of the file turned into tests
    tests,     \* the tests to be run
    pc,        \* where loader and runner are
    vs,        \* Variables.variables
    i,         \* index of the test being run
    before,    \* history: vs when that test began
    request,   \* field of the clone, used by transport.Execute
    response,  \* field of the clone, used by the checkers
    mock,      \* mock[d]: field in the mocks section of definition d
    got        \* history: value the response of the test gave to its variable

loaderVars == <<file, env, combined, parsed, tests>>
vars       == <<loaderVars, pc, vs, i, before, request, response, mock, got>>

Empty == [v \in Var |-> Undef]

Init ==
    /\ file \in [1..NDefs -> Definitions]
    /\ env \in Binding
    /\ combined = [d \in 1..NDefs |-> file[d].variables]
    /\ parsed = 0 /\ tests = <<>> /\ pc = "load"
    /\ vs = Empty /\ i = 0 /\ before = Empty
    /\ request = Template /\ response = Template /\ got = Undef
    /\ mock = [d \in 1..NDefs |-> Template]

-----------------------------------------------------------------------------
(* The loader.                                                             *)

\* m1 with the values of m2 written over it.
Overlay(m1, m2) == [v \in Var |-> IF m2[v] = Undef THEN m1[v] ELSE m2[v]]

\* The map after all cases have written their variables into it.
WrittenByCases(def) ==
    [v \in Var |->
        LET writers == {c \in DOMAIN def.cases : def.cases[c][v] # Undef} IN
        IF writers = {} THEN def.variables[v]
        ELSE def.cases[CHOOSE c \in writers : \A e \in writers : e <= c][v]]

\* makeTestFromDefinition: without cases one test with the variables of the
\* definition; the cases write theirs into one map, which all their tests refer to.
MakeTests ==
    LET d   == parsed + 1
        def == file[d]
    IN  /\ pc = "load" /\ d <= NDefs
        /\ tests' = tests \o IF def.cases = <<>> THEN <<[def |-> d, case |-> 0]>>
                             ELSE [c \in DOMAIN def.cases |-> [def |-> d, case |-> c]]
        /\ combined' = [combined EXCEPT ![d] = WrittenByCases(def)]
        /\ parsed' = d
        /\ pc' = IF d = NDefs THEN "next" ELSE pc
        /\ UNCHANGED <<file, env, vs, i, before, request, response, mock, got>>

\* The arguments of a case do not fit a template (substituteArgs), or a variable of a
\* case is not a string (value.(string) panics): nothing is run.  How arguments are
\* substituted is abstracted: they are gone before any variable is looked up.
MakeTestsError ==
    /\ pc = "load" /\ parsed < NDefs /\ file[parsed + 1].cases # <<>>
    /\ pc' = "stopped"
    /\ UNCHANGED <<loaderVars, vs, i, before, request, response, mock, got>>

-----------------------------------------------------------------------------
(* The runner.                                                             *)

\* Mutant of Get: the environment is asked first.
GetEnvFirst(bound, v) == IF env[v] # Undef THEN env[v] ELSE bound[v]

\* Variables.get: the variable itself, else the environment.
Get(bound, v) == IF bound[v] # Undef THEN bound[v] ELSE env[v]

\* Variables.perform on a field: a placeholder without a value stays.
Perform(bound, v, field) ==
    IF field = Template /\ Get(bound, v) # Undef THEN Get(bound, v) ELSE field

\* executeTest up to the request: Variables.Load, then Apply on a fresh clone.
Prepare ==
    LET t     == tests[i + 1]
        x     == file[t.def].uses
        bound == Overlay(vs, combined[t.def])
    IN  /\ pc = "next" /\ i < Len(tests)
        /\ i' = i + 1 /\ pc' = "request"
        /\ before' = vs /\ vs' = bound /\ got' = Undef
        /\ request' = Perform(bound, x, Template)
        /\ response' = Perform(bound, x, Template)
        /\ mock' = [mock EXCEPT ![t.def] = Perform(bound, x, @)]
        /\ UNCHANGED loaderVars

\* Variables.FromResponse: a status without variables sets nothing if the body is
\* JSON, but is an error if it is plain text.
NothingToSet(d, status, json) == file[d].toSet = None \/ (status # 200 /\ json)

\* Mutant of SetVariables: what the response gave is not merged.
SetVariablesUnmerged(set) ==
    LET t == tests[i]
        bound == Overlay(vs, combined[t.def])
    IN  /\ vs' = bound /\ pc' = "checked"
        /\ response' = Perform(bound, file[t.def].uses, response)
        /\ UNCHANGED <<loaderVars, i, before, request, mock>>

\* setVariablesFromResponse, then Load and Apply again, then the checkers.
SetVariables(set) ==
    LET t == tests[i]
        x == file[t.def].uses
        bound == Overlay(Overlay(vs, set), combined[t.def])
    IN  /\ vs' = bound /\ pc' = "checked"
        /\ response' = Perform(bound, x, response)
        /\ request' = Perform(bound, x, request)
        /\ mock' = [mock EXCEPT ![t.def] = Perform(bound, x, @)]
        /\ UNCHANGED <<loaderVars, i, before>>

\* The service under test answers with a status, JSON or plain text, and a value.
Respond(status, json, value) ==
    LET d == tests[i].def IN
    /\ pc = "request"
    /\ \/ /\ NothingToSet(d, status, json)
          /\ SetVariables(Empty) /\ got' = Undef
       \/ /\ ~NothingToSet(d, status, json) /\ status = 200
          /\ SetVariables([Empty EXCEPT ![file[d].toSet] = value])
          /\ got' = IF file[d].toSet = file[d].uses THEN value ELSE Undef

\* An unlisted status with a plain body, or a path the JSON body does not have:
\* executeTest fails and the run stops.
RespondError(status, json) ==
    /\ pc = "request" /\ file[tests[i].def].toSet # None
    /\ IF status = 200 THEN json ELSE ~json
    /\ pc' = "stopped"
    /\ UNCHANGED <<loaderVars, vs, i, before, request, response, mock, got>>

\* Mutant of FinishTest: the variables are forgotten between tests.
FinishTestForgets ==
    /\ pc = "checked"
    /\ pc' = "next" /\ vs' = Empty
    /\ UNCHANGED <<loaderVars, i, before, request, response, mock, got>>

FinishTest ==
    /\ pc = "checked"
    /\ pc' = "next"
    /\ UNCHANGED <<loaderVars, vs, i, before, request, response, mock, got>>

Over == pc = "stopped" \/ (pc = "next" /\ i = Len(tests))

Next ==
    \/ MakeTests \/ MakeTestsError \/ Prepare \/ FinishTest
    \/ \E status \in {200, 500}, json \in BOOLEAN :
          \/ \E value \in Value : Respond(status, json, value)
          \/ RespondError(status, json)
    \/ Over /\ UNCHANGED vars

Spec == Init /\ [][Next]_vars

-----------------------------------------------------------------------------
(* Properties                                                              *)

Test    == tests[i]
Current == file[Test.def]
Earlier == before[Current.uses]  \* the value earlier tests left
OfEnv   == env[Current.uses]

\* The cases of the definition that define the variable.
Definers == {c \in DOMAIN Current.cases : Current.cases[c][Current.uses] # Undef}

\* The value in the description of the test: the case's own, else that of the last
\* case before it which has one ("available through another cases if not redefined",
\* README.md:680), else that of the definition.
Described ==
    LET upToHere == {c \in Definers : c <= Test.case} IN
    IF upToHere = {} THEN Current.variables[Current.uses]
    ELSE Current.cases[CHOOSE c \in upToHere : \A e \in upToHere : e <= c][Current.uses]

\* No later case writes another value into the map the cases share (parser.go:251).
Settled == \A c \in Definers : c <= Test.case

FirstOf(values) ==
    LET defined == {k \in DOMAIN values : values[k] # Undef} IN
    IF defined = {} THEN Template
    ELSE values[CHOOSE k \in defined : \A l \in defined : k <= l]

\* A variable never reaches a request from a lower place of the list in README.md:571
\* while a higher one has it: the description of the test, then what earlier tests
\* left, then the environment.  The mocks of a definition get the same value for its
\* first test.  Left out are cases whose variable a later case redefines, which get
\* the later value, and the mocks of later cases, which keep the first one.
RequestPriority ==
    pc = "request" /\ Settled =>
        LET value == FirstOf(<<Described, Earlier, OfEnv>>) IN
        /\ request = value
        /\ Test.case \in {0, 1} => mock[Test.def] = value

\* README.md:571 puts the response of the running test before the environment; the
\* code fills a placeholder from the environment before there is a response.
Disputed == Described = Undef /\ Earlier = Undef /\ got # Undef /\ OfEnv # Undef

\* What the checkers compare with follows the list of README.md:571, and the response
\* of the test fills in only what the places above it left open, except where the
\* environment has the variable too.
ResponsePriority ==
    pc = "checked" /\ Settled /\ ~Disputed =>
        response = FirstOf(<<Described, Earlier, got, OfEnv>>)

\* A value that a response set stays available to later tests: only the variables
\* of the next test, or a response to a test that sets that variable, replace it.
SetVariableLasts ==
    [][\A v \in Var : vs'[v] # vs[v] =>
          \/ pc = "next" /\ combined[tests[i'].def][v] = vs'[v]
          \/ pc = "request" /\ file[tests[i].def].toSet = v]_vs
=============================================================================
