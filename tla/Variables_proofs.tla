------------------------- MODULE Variables_proofs --------------------------
(***************************************************************************)
(* Proofs about Variables, for any file, environment and answers: which    *)
(* value reaches the request, the first mocks and the checks, and how long *)
(* a variable lasts.                                                       *)
(***************************************************************************)
EXTENDS Variables, WellFoundedInduction, TLAPS

-----------------------------------------------------------------------------
(* The inductive invariant.                                                *)

Filled == Value \cup {Template}

TypeOK ==
    /\ file \in [1..NDefs -> Def] /\ env \in Binding
    /\ combined \in [1..NDefs -> Binding]
    /\ parsed \in 0..NDefs
    /\ tests \in Seq([def : 1..NDefs, case : Nat])
    /\ pc \in {"load", "next", "request", "checked", "stopped"}
    /\ vs \in Binding /\ before \in Binding
    /\ i \in 0..Len(tests)
    /\ request \in Filled /\ response \in Filled
    /\ mock \in [1..NDefs -> Filled]
    /\ got \in Value \cup {Undef}

\* The value the test finds in the map of its definition.
Own == combined[Test.def][Current.uses]

First(k) == tests[k].case \in {0, 1}

\* What the loader leaves: the maps as the cases wrote them, and the tests in the order
\* of their definitions, so that a first test comes after all tests of others.
Loaded ==
    /\ \A d \in 1..parsed : combined[d] = WrittenByCases(file[d])
    /\ \A k \in 1..Len(tests) : tests[k].def <= parsed
    /\ \A j, k \in 1..Len(tests) : j < k /\ First(k) => tests[j].def # tests[k].def

\* While a test waits for its answer, its own variables lie over those of the run, and
\* both its fields hold the same.
Bound ==
    /\ pc = "load" => i = 0
    /\ pc \in {"request", "checked"} => i \in 1..Len(tests)
    /\ pc = "request" => /\ vs = Overlay(before, combined[tests[i].def])
                         /\ response = request

\* Mocks hold their placeholders until the first test of their definition.
MocksFresh ==
    /\ pc = "load" => \A d \in 1..NDefs : mock[d] = Template
    /\ \A k \in 1..Len(tests) : i < k /\ First(k) => mock[tests[k].def] = Template
    /\ pc = "request" /\ First(i) => mock[tests[i].def] = request

\* The places a field was filled from, by the code's own order.
RequestFilled  == pc = "request" => request = FirstOf(<<Own, Earlier, OfEnv>>)
ResponseFilled == pc = "checked" => response = FirstOf(<<Own, Earlier, OfEnv, got>>)

Inv == TypeOK /\ Loaded /\ Bound /\ MocksFresh /\ RequestFilled /\ ResponseFilled

-----------------------------------------------------------------------------
(* The operators of the model.                                             *)

LEMMA ElementType ==
    ASSUME NEW S, NEW s \in Seq(S), NEW k \in 1..Len(s)
    PROVE  s[k] \in S
  OBVIOUS

LEMMA TestsType ==
    ASSUME NEW s \in Seq([def : 1..NDefs, case : Nat])
    PROVE  \A k \in 1..Len(s) : s[k].def \in 1..NDefs /\ s[k].case \in Nat
  <1> TAKE k \in 1..Len(s)
  <1>1. s[k] \in [def : 1..NDefs, case : Nat]
    BY ElementType, Zenon
  <1> QED BY <1>1

LEMMA OverlayType == \A m1, m2 \in Binding : Overlay(m1, m2) \in Binding
  BY DEF Overlay, Binding

LEMMA EmptyType == Empty \in Binding
  BY DEF Empty, Binding

\* FirstOf asks the places in order.
LEMMA FirstOfAt ==
    ASSUME NEW values, DOMAIN values \subseteq Nat,
           NEW k \in DOMAIN values, values[k] # Undef,
           \A l \in DOMAIN values : l < k => values[l] = Undef
    PROVE  FirstOf(values) = values[k]
  <1> DEFINE defined == {l \in DOMAIN values : values[l] # Undef}
             first   == CHOOSE l \in defined : \A m \in defined : l <= m
  <1>1. k \in defined /\ \A m \in defined : k <= m
    OBVIOUS
  <1>2. first \in defined /\ \A m \in defined : first <= m
    BY <1>1
  <1>3. first = k
    BY <1>1, <1>2
  <1> HIDE DEF first
  <1>4. FirstOf(values) = IF defined = {} THEN Template ELSE values[first]
    BY Zenon DEF FirstOf, first
  <1> QED BY <1>1, <1>3, <1>4

LEMMA FirstOfNone ==
    ASSUME NEW values, \A l \in DOMAIN values : values[l] = Undef
    PROVE  FirstOf(values) = Template
  BY Zenon DEF FirstOf

LEMMA FirstOfThree ==
    ASSUME NEW a, NEW b, NEW c
    PROVE  FirstOf(<<a, b, c>>) = IF a # Undef THEN a ELSE IF b # Undef THEN b
                                  ELSE IF c # Undef THEN c ELSE Template
  <1> DEFINE values == <<a, b, c>>
  <1>1. /\ DOMAIN values = 1..3
        /\ values[1] = a /\ values[2] = b /\ values[3] = c
    OBVIOUS
  <1> SUFFICES FirstOf(values) = IF a # Undef THEN a ELSE IF b # Undef THEN b
                                 ELSE IF c # Undef THEN c ELSE Template
    OBVIOUS
  <1> HIDE DEF values
  <1>2. CASE a # Undef
    BY <1>1, <1>2, FirstOfAt
  <1>3. CASE a = Undef /\ b # Undef
    BY <1>1, <1>3, FirstOfAt
  <1>4. CASE a = Undef /\ b = Undef /\ c # Undef
    BY <1>1, <1>4, FirstOfAt
  <1>5. CASE a = Undef /\ b = Undef /\ c = Undef
    BY <1>1, <1>5, FirstOfNone
  <1> QED BY <1>2, <1>3, <1>4, <1>5

LEMMA FirstOfFour ==
    ASSUME NEW a, NEW b, NEW c, NEW d
    PROVE  FirstOf(<<a, b, c, d>>) = IF a # Undef THEN a ELSE IF b # Undef THEN b
                                     ELSE IF c # Undef THEN c
                                     ELSE IF d # Undef THEN d ELSE Template
  <1> DEFINE values == <<a, b, c, d>>
  <1>1. /\ DOMAIN values = 1..4
        /\ values[1] = a /\ values[2] = b /\ values[3] = c /\ values[4] = d
    OBVIOUS
  <1> SUFFICES FirstOf(values) = IF a # Undef THEN a ELSE IF b # Undef THEN b
                                 ELSE IF c # Undef THEN c
                                 ELSE IF d # Undef THEN d ELSE Template
    OBVIOUS
  <1> HIDE DEF values
  <1>2. CASE a # Undef
    BY <1>1, <1>2, FirstOfAt
  <1>3. CASE a = Undef /\ b # Undef
    BY <1>1, <1>3, FirstOfAt
  <1>4. CASE a = Undef /\ b = Undef /\ c # Undef
    BY <1>1, <1>4, FirstOfAt
  <1>5. CASE a = Undef /\ b = Undef /\ c = Undef /\ d # Undef
    BY <1>1, <1>5, FirstOfAt
  <1>6. CASE a = Undef /\ b = Undef /\ c = Undef /\ d = Undef
    BY <1>1, <1>6, FirstOfNone
  <1> QED BY <1>2, <1>3, <1>4, <1>5, <1>6

\* A set of natural numbers has a least element, and one of positions a greatest.
LEMMA LeastNat ==
    ASSUME NEW T \in SUBSET Nat, T # {}
    PROVE  \E x \in T : \A y \in T : x <= y
  <1> DEFINE R == {p \in Nat \X Nat : p[1] < p[2]}
  <1>1. IsWellFoundedOn(R, Nat)
    BY NatLessThanWellFounded DEF OpToRel
  <1> HIDE DEF R
  <1>2. PICK x \in T : \A y \in T : ~ (<<y, x>> \in R)
    BY <1>1, WFMin, Zenon
  <1>3. ASSUME NEW y \in T
        PROVE  x <= y
    <2>1. x \in Nat /\ y \in Nat /\ ~ (<<y, x>> \in R)
      BY <1>2
    <2>2. y < x => <<y, x>> \in R
      BY <2>1 DEF R
    <2> QED BY <2>1, <2>2
  <1> QED BY <1>3

LEMMA LastPosition ==
    ASSUME NEW n \in Nat, NEW T \in SUBSET (1..n), T # {}
    PROVE  \E x \in T : \A y \in T : y <= x
  <1> DEFINE U == {m \in 0..n : n - m \in T}
  <1>1. PICK t \in T : TRUE
    OBVIOUS
  <1>2. n - t \in U /\ U \subseteq Nat
    OBVIOUS
  <1>3. PICK m \in U : \A l \in U : m <= l
    <2> HIDE DEF U
    <2> QED BY <1>2, LeastNat
  <1>4. ASSUME NEW y \in T
        PROVE  y <= n - m
    <2>1. n - y \in U /\ m \in 0..n /\ y \in 1..n
      OBVIOUS
    <2>2. m <= n - y
      BY <1>3, <2>1, Zenon
    <2> QED BY <2>1, <2>2
  <1> QED BY <1>3, <1>4

\* What the cases write into the map of their definition are values.
LEMMA WrittenType == \A def \in Def : WrittenByCases(def) \in Binding
  <1> TAKE def \in Def
  <1>1. /\ def.variables \in Binding
        /\ \A c \in DOMAIN def.cases : def.cases[c] \in Binding
        /\ Len(def.cases) \in Nat /\ DOMAIN def.cases = 1..Len(def.cases)
    BY DEF Def
  <1>2. ASSUME NEW v \in Var
        PROVE  WrittenByCases(def)[v] \in Value \cup {Undef}
    <2> DEFINE writers == {c \in DOMAIN def.cases : def.cases[c][v] # Undef}
               last    == CHOOSE c \in writers : \A e \in writers : e <= c
    <2>1. WrittenByCases(def)[v] = IF writers = {} THEN def.variables[v]
                                   ELSE def.cases[last][v]
      BY Zenon DEF WrittenByCases
    <2>2. CASE writers = {}
      BY <1>1, <2>1, <2>2 DEF Binding
    <2>3. CASE writers # {}
      <3>1. writers \subseteq 1..Len(def.cases)
        BY <1>1
      <3>2. \E c \in writers : \A e \in writers : e <= c
        <4> HIDE DEF writers
        <4> QED BY <1>1, <2>3, <3>1, LastPosition
      <3>3. last \in writers
        <4> HIDE DEF writers
        <4> QED BY <3>2
      <3>4. last \in DOMAIN def.cases
        BY <3>3
      <3> QED BY <1>1, <2>1, <2>3, <3>4, Zenon DEF Binding
    <2> QED BY <2>2, <2>3
  <1> QED BY <1>2, Zenon DEF WrittenByCases, Binding

LEMMA PerformType ==
    ASSUME env \in Binding, NEW bound \in Binding, NEW v \in Var, NEW field \in Filled
    PROVE  Perform(bound, v, field) \in Filled
  BY DEF Perform, Get, Binding, Filled

LEMMA Distinct == Undef # Template /\ Undef \notin Value /\ Template \notin Value
  BY ConstAssumption DEF Undef, Template

\* A fresh placeholder gets the variable, else that of the environment.
LEMMA PerformFresh ==
    ASSUME NEW bound, NEW v
    PROVE  Perform(bound, v, Template) = IF bound[v] # Undef THEN bound[v]
                                         ELSE IF env[v] # Undef THEN env[v] ELSE Template
  BY DEF Perform, Get

\* A field with a value keeps it.
LEMMA PerformKeeps ==
    ASSUME NEW bound, NEW v, NEW field, field # Template
    PROVE  Perform(bound, v, field) = field
  BY DEF Perform

-----------------------------------------------------------------------------
(* The steps.                                                              *)

LEMMA InitInv == Init => Inv
  <1> SUFFICES ASSUME Init PROVE Inv
    OBVIOUS
  <1>1. file \in [1..NDefs -> Def]
    BY ConstAssumption DEF Init
  <1>2. combined \in [1..NDefs -> Binding]
    BY <1>1 DEF Init, Def
  <1>3. TypeOK
    BY <1>1, <1>2, EmptyType, ConstAssumption DEF Init, TypeOK, Filled
  <1>4. Loaded /\ Bound /\ MocksFresh /\ RequestFilled /\ ResponseFilled
    BY DEF Init, Loaded, Bound, MocksFresh, RequestFilled, ResponseFilled
  <1> QED BY <1>3, <1>4 DEF Inv

LEMMA MakeTestsInv == Inv /\ MakeTests => Inv'
  <1> SUFFICES ASSUME Inv, MakeTests PROVE Inv'
    OBVIOUS
  <1> DEFINE d    == parsed + 1
             def  == file[d]
             made == IF def.cases = <<>> THEN <<[def |-> d, case |-> 0]>>
                     ELSE [c \in DOMAIN def.cases |-> [def |-> d, case |-> c]]
  <1>1. /\ pc = "load" /\ d <= NDefs /\ tests' = tests \o made
        /\ combined' = [combined EXCEPT ![d] = WrittenByCases(def)]
        /\ parsed' = d /\ pc' \in {"load", "next"}
        /\ UNCHANGED <<file, env, vs, i, before, request, response, mock, got>>
    BY Zenon DEF MakeTests
  <1>2. /\ TypeOK /\ i = 0 /\ Loaded
        /\ \A e \in 1..NDefs : mock[e] = Template
    BY <1>1, Zenon DEF Inv, Bound, MocksFresh
  <1>3. d \in 1..NDefs /\ def \in Def
    BY <1>1, <1>2, ConstAssumption DEF TypeOK
  <1>4. /\ made \in Seq([def : 1..NDefs, case : Nat])
        /\ \A n \in 1..Len(made) : made[n].def = d /\ (made[n].case \in {0, 1} => n = 1)
    <2> HIDE DEF d
    <2>1. CASE def.cases = <<>>
      BY <1>3, <2>1
    <2>2. CASE def.cases # <<>>
      <3>1. def.cases \in Seq(Binding)
        BY <1>3 DEF Def
      <3>2. /\ Len(def.cases) \in Nat /\ DOMAIN def.cases = 1..Len(def.cases)
        BY <3>1
      <3>3. made = [c \in 1..Len(def.cases) |-> [def |-> d, case |-> c]]
        BY <2>2, <3>2
      <3> HIDE DEF made, def
      <3> QED BY <1>3, <3>2, <3>3
    <2> QED BY <2>1, <2>2
  <1> HIDE DEF made
  <1>5. tests' \in Seq([def : 1..NDefs, case : Nat]) /\ i' \in 0..Len(tests')
    BY <1>1, <1>2, <1>4 DEF TypeOK
  <1>6. combined' \in [1..NDefs -> Binding]
    BY <1>1, <1>2, <1>3, WrittenType DEF TypeOK
  <1>7. TypeOK'
    BY <1>1, <1>2, <1>3, <1>5, <1>6 DEF TypeOK
  <1>8. (Bound /\ RequestFilled /\ ResponseFilled)'
    BY <1>1, <1>2 DEF Bound, RequestFilled, ResponseFilled
  <1>9. \A k \in 1..Len(tests') :
           \/ k \in 1..Len(tests) /\ tests'[k] = tests[k]
           \/ /\ k > Len(tests) /\ tests'[k].def = d
              /\ tests'[k].case \in {0, 1} => k = Len(tests) + 1
    <2> TAKE k \in 1..Len(tests')
    <2>1. tests \in Seq([def : 1..NDefs, case : Nat])
      BY <1>2 DEF TypeOK
    <2>2. /\ Len(tests') = Len(tests) + Len(made) /\ Len(tests) \in Nat /\ Len(made) \in Nat
          /\ k <= Len(tests) => tests'[k] = tests[k]
          /\ k > Len(tests) => tests'[k] = made[k - Len(tests)]
      BY <1>1, <1>4, <2>1
    <2>3. k > Len(tests) => k - Len(tests) \in 1..Len(made)
      BY <2>2
    <2> HIDE DEF d
    <2>4. CASE k <= Len(tests)
      BY <2>2, <2>4
    <2>5. CASE k > Len(tests)
      <3>1. /\ tests'[k].def = d
            /\ tests'[k].case \in {0, 1} => k - Len(tests) = 1
        BY <1>4, <2>2, <2>3, <2>5, Zenon
      <3> QED BY <2>2, <2>5, <3>1
    <2> QED BY <2>2, <2>4, <2>5
  <1>10. Loaded'
    <2>1. \A e \in 1..parsed' : combined'[e] = WrittenByCases(file'[e])
      <3> TAKE e \in 1..parsed'
      <3>1. file' = file /\ combined \in [1..NDefs -> Binding] /\ parsed \in 0..NDefs
        BY <1>1, <1>2 DEF TypeOK
      <3>2. CASE e = d
        BY <1>1, <1>3, <3>1, <3>2
      <3>3. CASE e # d
        <4>1. e \in 1..parsed /\ e \in 1..NDefs
          BY <1>1, <3>1, <3>3, ConstAssumption
        <4>2. combined'[e] = combined[e]
          BY <1>1, <3>1, <3>3, <4>1
        <4> QED BY <1>2, <3>1, <4>1, <4>2, Zenon DEF Loaded
      <3> QED BY <3>2, <3>3
    <2>2. \A k \in 1..Len(tests) : tests[k].def <= parsed /\ tests[k].def \in Int
      <3>1. \A k \in 1..Len(tests) : tests[k].def \in 1..NDefs
        BY <1>2, TestsType, Zenon DEF TypeOK
      <3>2. \A k \in 1..Len(tests) : tests[k].def <= parsed
        BY <1>2, Zenon DEF Loaded
      <3> QED BY <3>1, <3>2, ConstAssumption
    <2>3. \A k \in 1..Len(tests') : tests'[k].def <= parsed'
      BY <1>1, <1>2, <1>9, <2>2 DEF TypeOK
    <2>4. ASSUME NEW j \in 1..Len(tests'), NEW k \in 1..Len(tests'), j < k,
                 tests'[k].case \in {0, 1}
          PROVE  tests'[j].def # tests'[k].def
      <3>1. CASE k \in 1..Len(tests) /\ tests'[k] = tests[k]
        <4>1. j \in 1..Len(tests) /\ tests'[j] = tests[j]
          BY <1>9, <2>4, <3>1
        <4> QED BY <1>2, <2>4, <3>1, <4>1, Zenon DEF Loaded, First
      <3>2. CASE k = Len(tests) + 1 /\ tests'[k].def = d
        <4>1. j \in 1..Len(tests) /\ tests'[j] = tests[j]
          BY <1>9, <2>4, <3>2
        <4>2. parsed \in Int
          BY <1>2 DEF TypeOK
        <4> QED BY <2>2, <3>2, <4>1, <4>2
      <3> QED BY <1>9, <2>4, <3>1, <3>2
    <2> QED BY <2>1, <2>3, <2>4, Zenon DEF Loaded, First
  <1>11. MocksFresh'
    <2>1. \A k \in 1..Len(tests') : tests'[k].def \in 1..NDefs
      BY <1>5, TestsType, Zenon
    <2> QED BY <1>1, <1>2, <2>1, Zenon DEF MocksFresh
  <1> QED BY <1>7, <1>8, <1>10, <1>11 DEF Inv

LEMMA PrepareInv == Inv /\ Prepare => Inv'
  <1> SUFFICES ASSUME Inv, Prepare PROVE Inv'
    OBVIOUS
  <1> DEFINE t     == tests[i + 1]
             x     == file[t.def].uses
             own   == combined[t.def]
             bound == Overlay(vs, own)
  <1>1. /\ pc = "next" /\ i < Len(tests) /\ i' = i + 1 /\ pc' = "request"
        /\ before' = vs /\ vs' = bound /\ got' = Undef
        /\ request' = Perform(bound, x, Template)
        /\ response' = Perform(bound, x, Template)
        /\ mock' = [mock EXCEPT ![t.def] = Perform(bound, x, @)]
        /\ UNCHANGED <<file, env, combined, parsed, tests>>
    BY DEF Prepare, loaderVars
  <1>2. TypeOK
    BY Zenon DEF Inv
  <1>3. i' \in 1..Len(tests) /\ tests[i'] = t /\ t.def \in 1..NDefs
    <2>1. i + 1 \in 1..Len(tests) /\ tests \in Seq([def : 1..NDefs, case : Nat])
      BY <1>1, <1>2 DEF TypeOK
    <2>2. tests[i + 1] \in [def : 1..NDefs, case : Nat]
      BY <2>1, ElementType, Zenon
    <2> QED BY <1>1, <2>1, <2>2, Zenon
  <1>4. x \in Var /\ own \in Binding /\ env \in Binding
    BY <1>2, <1>3, Zenon DEF TypeOK, Def
  <1>5. bound \in Binding
    BY <1>2, <1>4, OverlayType, Zenon DEF TypeOK
  <1>6. Template \in Filled /\ mock[t.def] \in Filled
    BY <1>2, <1>3, Zenon DEF Filled, TypeOK
  <1> HIDE DEF t, own
  <1>7. bound[x] = IF own[x] = Undef THEN vs[x] ELSE own[x]
    BY <1>4, Zenon DEF Overlay
  <1>8. TypeOK'
    <2> HIDE DEF x, bound
    <2>1. request' \in Filled /\ response' \in Filled
      BY <1>1, <1>4, <1>5, <1>6, PerformType
    <2>2. mock' \in [1..NDefs -> Filled]
      BY <1>1, <1>2, <1>3, <1>4, <1>5, <1>6, PerformType DEF TypeOK
    <2> QED BY <1>1, <1>2, <1>3, <1>5, <2>1, <2>2 DEF TypeOK
  <1>9. Bound' /\ ResponseFilled'
    <2> HIDE DEF x
    <2>1. combined'[tests'[i'].def] = own
      BY <1>1, <1>3 DEF own
    <2> QED BY <1>1, <1>3, <2>1 DEF Bound, ResponseFilled
  <1>10. RequestFilled'
    <2>1. Own' = own[x] /\ Earlier' = vs[x] /\ OfEnv' = env[x]
      BY <1>1, <1>3 DEF Own, Earlier, OfEnv, Current, Test, own
    <2>2. FirstOf(<<own[x], vs[x], env[x]>>)
             = IF own[x] # Undef THEN own[x] ELSE IF vs[x] # Undef THEN vs[x]
               ELSE IF env[x] # Undef THEN env[x] ELSE Template
      <3> HIDE DEF x
      <3> QED BY FirstOfThree, Zenon
    <2>3. request' = IF bound[x] # Undef THEN bound[x]
                     ELSE IF env[x] # Undef THEN env[x] ELSE Template
      <3> HIDE DEF x, bound
      <3> QED BY <1>1, PerformFresh
    <2>4. request' = FirstOf(<<own[x], vs[x], env[x]>>)
      <3> HIDE DEF x, bound
      <3> QED BY <1>7, <2>2, <2>3
    <2>5. FirstOf(<<Own, Earlier, OfEnv>>)' = FirstOf(<<own[x], vs[x], env[x]>>)
      BY <2>1 DEF FirstOf
    <2> QED BY <2>4, <2>5, Zenon DEF RequestFilled
  <1>11. Loaded'
    BY <1>1, Zenon DEF Inv, Loaded, First
  <1>12. MocksFresh'
    <2> HIDE DEF x, bound
    <2>1. \A k \in 1..Len(tests) : i < k /\ First(k) => mock[tests[k].def] = Template
      BY Zenon DEF Inv, MocksFresh
    <2>2. \A k \in 1..Len(tests) : i + 1 < k /\ First(k) => t.def # tests[k].def
      BY <1>1, <1>3 DEF Inv, Loaded
    <2>3. \A k \in 1..Len(tests) : tests[k].def \in 1..NDefs
      BY <1>2, TestsType, Zenon DEF TypeOK
    <2>4. mock \in [1..NDefs -> Filled] /\ i \in Int
      BY <1>2 DEF TypeOK
    <2>5. ASSUME NEW k \in 1..Len(tests), i + 1 < k, First(k)
          PROVE  mock'[tests[k].def] = Template
      <3>1. mock'[tests[k].def] = mock[tests[k].def]
        BY <1>1, <2>2, <2>3, <2>4, <2>5
      <3>2. i < k
        BY <2>4, <2>5
      <3> QED BY <2>1, <2>5, <3>1, <3>2
    <2>6. First(i + 1) => mock'[t.def] = request'
      <3> SUFFICES ASSUME First(i + 1) PROVE mock'[t.def] = request'
        OBVIOUS
      <3>1. mock[t.def] = Template
        BY <1>1, <1>3, <2>1, <2>4
      <3> QED BY <1>1, <1>3, <2>4, <3>1
    <2>7. \A k : First(k)' <=> tests[k].case \in {0, 1}
      BY <1>1 DEF First
    <2> QED BY <1>1, <1>3, <2>5, <2>6, <2>7 DEF MocksFresh, First
  <1> QED BY <1>8, <1>9, <1>10, <1>11, <1>12, Zenon DEF Inv

LEMMA SetVariablesInv ==
    ASSUME Inv, pc = "request", NEW set \in Binding, SetVariables(set),
           got' \in Value \cup {Undef},
           got' = set[file[tests[i].def].uses]
    PROVE  Inv'
  <1> DEFINE t     == tests[i]
             x     == file[t.def].uses
             own   == combined[t.def]
             inner == Overlay(vs, set)
             bound == Overlay(inner, own)
  <1>1. /\ vs' = bound /\ pc' = "checked"
        /\ response' = Perform(bound, x, response)
        /\ request' = Perform(bound, x, request)
        /\ mock' = [mock EXCEPT ![t.def] = Perform(bound, x, @)]
        /\ UNCHANGED <<file, env, combined, parsed, tests, i, before>>
    BY Zenon DEF SetVariables, loaderVars
  <1>2. /\ TypeOK /\ i \in 1..Len(tests) /\ vs = Overlay(before, own)
        /\ response = request
        /\ request = FirstOf(<<Own, Earlier, OfEnv>>)
    BY Zenon DEF Inv, Bound, RequestFilled
  <1>3. t.def \in 1..NDefs
    <2>1. tests[i] \in [def : 1..NDefs, case : Nat]
      BY <1>2, ElementType, Zenon DEF TypeOK
    <2> QED BY <2>1, Zenon
  <1>4. x \in Var /\ own \in Binding /\ env \in Binding /\ vs \in Binding /\ before \in Binding
    BY <1>2, <1>3, Zenon DEF TypeOK, Def
  <1>5. inner \in Binding /\ bound \in Binding
    <2> HIDE DEF own
    <2> QED BY <1>4, OverlayType
  <1>6. mock[t.def] \in Filled /\ request \in Filled /\ response \in Filled
    BY <1>2, <1>3, Zenon DEF TypeOK
  <1>7. /\ Own = own[x] /\ Earlier = before[x] /\ OfEnv = env[x]
        /\ Own' = own[x] /\ Earlier' = before[x] /\ OfEnv' = env[x]
    BY <1>1, Zenon DEF Own, Earlier, OfEnv, Current, Test
  <1>8. got' = set[x]
    BY Zenon
  <1> HIDE DEF t, own, x
  <1>9. /\ vs[x] = IF own[x] = Undef THEN before[x] ELSE own[x]
        /\ inner[x] = IF set[x] = Undef THEN vs[x] ELSE set[x]
        /\ bound[x] = IF own[x] = Undef THEN inner[x] ELSE own[x]
    BY <1>2, <1>4, Zenon DEF Overlay
  <1> HIDE DEF inner, bound
  <1>10. TypeOK'
    <2>1. request' \in Filled /\ response' \in Filled
      BY <1>1, <1>4, <1>5, <1>6, PerformType, Zenon
    <2>2. mock' \in [1..NDefs -> Filled]
      BY <1>1, <1>2, <1>3, <1>4, <1>5, <1>6, PerformType, Zenon DEF TypeOK
    <2> QED BY <1>1, <1>2, <1>5, <2>1, <2>2, Zenon DEF TypeOK
  <1>11. Bound' /\ RequestFilled' /\ Loaded'
    BY <1>1, <1>2, Zenon DEF Inv, Bound, RequestFilled, Loaded, First
  <1>12. response = IF own[x] # Undef THEN own[x] ELSE IF before[x] # Undef THEN before[x]
                    ELSE IF env[x] # Undef THEN env[x] ELSE Template
    <2>1. request = FirstOf(<<own[x], before[x], env[x]>>)
      BY <1>2, <1>7, Zenon
    <2> QED BY <1>2, <2>1, FirstOfThree
  <1>13. response' = IF own[x] # Undef THEN own[x] ELSE IF before[x] # Undef THEN before[x]
                     ELSE IF env[x] # Undef THEN env[x]
                     ELSE IF set[x] # Undef THEN set[x] ELSE Template
    <2>1. CASE response # Template
      <3>1. response' = response
        BY <1>1, <2>1, PerformKeeps
      <3> QED BY <1>12, <2>1, <3>1, Zenon
    <2>2. CASE response = Template
      <3>1. own[x] = Undef /\ before[x] = Undef /\ env[x] = Undef
        <4>1. /\ own[x] \in Value \cup {Undef} /\ before[x] \in Value \cup {Undef}
              /\ env[x] \in Value \cup {Undef}
          BY <1>4, Zenon DEF Binding
        <4> QED BY <1>12, <2>2, <4>1, Distinct, Zenon
      <3>2. bound[x] = set[x]
        BY <1>9, <3>1, Zenon
      <3>3. response' = IF bound[x] # Undef THEN bound[x]
                        ELSE IF env[x] # Undef THEN env[x] ELSE Template
        BY <1>1, <2>2, PerformFresh, Zenon
      <3> QED BY <3>1, <3>2, <3>3, Zenon
    <2> QED BY <2>1, <2>2, Zenon
  <1>14. ResponseFilled'
    <2>1. response' = FirstOf(<<own[x], before[x], env[x], set[x]>>)
      BY <1>13, FirstOfFour
    <2>2. FirstOf(<<Own, Earlier, OfEnv, got>>)'
             = FirstOf(<<own[x], before[x], env[x], set[x]>>)
      BY <1>7, <1>8 DEF FirstOf
    <2> QED BY <2>1, <2>2, Zenon DEF ResponseFilled
  <1>15. MocksFresh'
    <2>1. \A k \in 1..Len(tests) : i < k /\ First(k) =>
             mock[tests[k].def] = Template /\ t.def # tests[k].def
      BY <1>2, Zenon DEF Inv, MocksFresh, Loaded, t
    <2>2. \A k \in 1..Len(tests) : tests[k].def \in 1..NDefs
      BY <1>2, TestsType, Zenon DEF TypeOK
    <2>3. mock \in [1..NDefs -> Filled]
      BY <1>2 DEF TypeOK
    <2>4. \A k \in 1..Len(tests) : i < k /\ First(k) => mock'[tests[k].def] = Template
      BY <1>1, <2>1, <2>2, <2>3
    <2> QED BY <1>1, <2>4, Zenon DEF MocksFresh, First
  <1> QED BY <1>10, <1>11, <1>14, <1>15, Zenon DEF Inv

\* What an answer sets: nothing, or the variable of the definition.
LEMMA RespondShape ==
    ASSUME Inv, NEW status, NEW json, NEW value \in Value, Respond(status, json, value)
    PROVE  /\ pc = "request" /\ tests[i].def \in 1..NDefs
           /\ \E set \in Binding :
                 /\ SetVariables(set)
                 /\ got' \in Value \cup {Undef} /\ got' = set[file[tests[i].def].uses]
                 /\ \A v \in Var : set[v] # Undef => file[tests[i].def].toSet = v
  <1> DEFINE d == tests[i].def
  <1>1. pc = "request" /\ TypeOK /\ i \in 1..Len(tests)
    BY DEF Respond, Inv, Bound
  <1>2. d \in 1..NDefs
    <2>1. tests[i] \in [def : 1..NDefs, case : Nat]
      BY <1>1, ElementType, Zenon DEF TypeOK
    <2> QED BY <2>1
  <1>3. file[d].uses \in Var /\ file[d].toSet \in Var \cup {None}
    BY <1>1, <1>2, Zenon DEF TypeOK, Def
  <1> HIDE DEF d
  <1>4. CASE SetVariables(Empty) /\ got' = Undef
    <2>1. \A v \in Var : Empty[v] = Undef
      BY DEF Empty
    <2> QED BY <1>1, <1>2, <1>3, <1>4, <2>1, EmptyType DEF d
  <1>5. CASE /\ file[d].toSet # None
             /\ SetVariables([Empty EXCEPT ![file[d].toSet] = value])
             /\ got' = IF file[d].toSet = file[d].uses THEN value ELSE Undef
    <2> DEFINE set == [Empty EXCEPT ![file[d].toSet] = value]
    <2>1. file[d].toSet \in Var
      BY <1>3, <1>5
    <2>2. /\ set \in Binding
          /\ \A v \in Var : set[v] = IF v = file[d].toSet THEN value ELSE Undef
      BY <2>1 DEF Empty, Binding
    <2>3. SetVariables(set)
      BY <1>5, Zenon
    <2> HIDE DEF set
    <2>4. /\ got' \in Value \cup {Undef} /\ got' = set[file[d].uses]
          /\ \A v \in Var : set[v] # Undef => file[d].toSet = v
      BY <1>3, <1>5, <2>2
    <2> QED BY <1>1, <1>2, <2>2, <2>3, <2>4 DEF d
  <1>6. \/ SetVariables(Empty) /\ got' = Undef
        \/ /\ file[d].toSet # None
           /\ SetVariables([Empty EXCEPT ![file[d].toSet] = value])
           /\ got' = IF file[d].toSet = file[d].uses THEN value ELSE Undef
    BY Zenon DEF Respond, NothingToSet, d
  <1> QED BY <1>4, <1>5, <1>6, Zenon

LEMMA NextInv == Inv /\ [Next]_vars => Inv'
  <1> SUFFICES ASSUME Inv, [Next]_vars PROVE Inv'
    OBVIOUS
  <1>1. CASE MakeTests
    BY <1>1, MakeTestsInv
  <1>7. CASE MakeTestsError
    <2>1. /\ pc' = "stopped"
          /\ UNCHANGED <<file, env, combined, parsed, tests,
                         vs, i, before, request, response, mock, got>>
      BY <1>7 DEF MakeTestsError, loaderVars
    <2>2. (TypeOK /\ Loaded)'
      BY <2>1, Zenon DEF Inv, TypeOK, Loaded, First
    <2> QED BY <2>1, <2>2, Zenon DEF Inv, Bound, MocksFresh, First, RequestFilled, ResponseFilled
  <1>2. CASE Prepare
    BY <1>2, PrepareInv
  <1>3. CASE FinishTest
    <2>1. /\ pc' = "next"
          /\ UNCHANGED <<file, env, combined, parsed, tests,
                         vs, i, before, request, response, mock, got>>
      BY <1>3 DEF FinishTest, loaderVars
    <2>2. (TypeOK /\ Loaded)'
      BY <2>1, Zenon DEF Inv, TypeOK, Loaded, First
    <2> QED BY <2>1, <2>2, Zenon DEF Inv, Bound, MocksFresh, First, RequestFilled, ResponseFilled
  <1>4. ASSUME NEW status, NEW json, NEW value \in Value, Respond(status, json, value)
        PROVE  Inv'
    <2>1. pc = "request" /\ \E set \in Binding :
              /\ SetVariables(set)
              /\ got' \in Value \cup {Undef} /\ got' = set[file[tests[i].def].uses]
      BY Zenon, <1>4, RespondShape
    <2> QED BY Zenon, <2>1, SetVariablesInv
  <1>5. ASSUME NEW status, NEW json, RespondError(status, json)
        PROVE  Inv'
    <2>1. /\ pc = "request" /\ pc' = "stopped"
          /\ UNCHANGED <<file, env, combined, parsed, tests,
                         vs, i, before, request, response, mock, got>>
      BY <1>5 DEF RespondError, loaderVars
    <2>2. (TypeOK /\ Loaded)'
      BY <2>1, Zenon DEF Inv, TypeOK, Loaded, First
    <2> QED BY <2>1, <2>2, Zenon DEF Inv, Bound, MocksFresh, First, RequestFilled, ResponseFilled
  <1>6. CASE UNCHANGED vars
    <2>1. UNCHANGED <<file, env, combined, parsed, tests, pc,
                      vs, i, before, request, response, mock, got>>
      BY <1>6, Zenon DEF vars, loaderVars
    <2>2. (TypeOK /\ Loaded /\ Bound /\ MocksFresh)'
      BY <2>1, Zenon DEF Inv, TypeOK, Loaded, Bound, MocksFresh, First
    <2>3. UNCHANGED <<Own, Earlier, OfEnv>>
      BY <2>1, Zenon DEF Own, Earlier, OfEnv, Current, Test
    <2>4. (RequestFilled /\ ResponseFilled)'
      BY <2>1, <2>3 DEF Inv, RequestFilled, ResponseFilled, FirstOf
    <2> QED BY <2>2, <2>4 DEF Inv
  <1> QED BY Zenon, <1>1, <1>2, <1>3, <1>4, <1>5, <1>6, <1>7 DEF Next

LEMMA InvAlways == Spec => []Inv
  BY InitInv, NextInv, PTL DEF Spec

-----------------------------------------------------------------------------
(* The results.                                                            *)

\* Where no later case redefines the variable, the map the cases share holds what the
\* description of the test says.
LEMMA OwnIsDescribed ==
    ASSUME Inv, pc \in {"request", "checked"}, Settled
    PROVE  Own = Described
  <1>1. TypeOK /\ Loaded /\ i \in 1..Len(tests)
    BY Zenon DEF Inv, Bound
  <1>2. Test \in [def : 1..NDefs, case : Nat] /\ Test.def <= parsed
    BY <1>1, ElementType DEF TypeOK, Loaded, Test
  <1>3. Test.def \in 1..parsed /\ Test.def \in 1..NDefs
    BY <1>1, <1>2 DEF TypeOK
  <1>4. combined[Test.def] = WrittenByCases(Current) /\ Current.uses \in Var
    BY <1>1, <1>3, Zenon DEF Loaded, Current, TypeOK, Def
  <1>5. Own = IF Definers = {} THEN Current.variables[Current.uses]
              ELSE Current.cases[CHOOSE c \in Definers : \A e \in Definers : e <= c]
                                [Current.uses]
    BY <1>4, Zenon DEF Own, WrittenByCases, Definers
  <1>6. {c \in Definers : c <= Test.case} = Definers
    BY DEF Settled
  <1> DEFINE upToHere == {c \in Definers : c <= Test.case}
  <1>7. Described = IF upToHere = {} THEN Current.variables[Current.uses]
                    ELSE Current.cases[CHOOSE c \in upToHere : \A e \in upToHere : e <= c]
                                      [Current.uses]
    BY Zenon DEF Described
  <1>8. upToHere = Definers
    BY <1>6
  <1> HIDE DEF upToHere
  <1> QED BY <1>5, <1>7, <1>8

\* Whatever the file, the environment and the answers are: where no later case of the
\* definition redefines the variable, a request, and the mocks of the first test of a
\* definition, get the value in the description of the test, else the one earlier tests
\* left, else that of the environment (Variables.Load, Variables.Apply, Variables.get).
THEOREM RequestUsesHighestPlace == Spec => []RequestPriority
  <1>1. Inv => RequestPriority
    <2> SUFFICES ASSUME Inv, pc = "request", Settled
                 PROVE  /\ request = FirstOf(<<Described, Earlier, OfEnv>>)
                        /\ Test.case \in {0, 1} =>
                              mock[Test.def] = FirstOf(<<Described, Earlier, OfEnv>>)
      BY Zenon DEF RequestPriority
    <2>1. Own = Described
      BY OwnIsDescribed
    <2>2. request = FirstOf(<<Own, Earlier, OfEnv>>)
      BY Zenon DEF Inv, RequestFilled
    <2>3. Test.case \in {0, 1} => mock[Test.def] = request
      BY Zenon DEF Inv, MocksFresh, First, Test
    <2> QED BY <2>1, <2>2, <2>3, Zenon
  <1> QED BY <1>1, InvAlways, PTL

\* The checkers compare with the same value, and one from the test's own response
\* reaches them only where neither the description nor an earlier test has one; where
\* the environment has one too, nothing is claimed (setVariablesFromResponse).
THEOREM ChecksUseHighestPlace == Spec => []ResponsePriority
  <1>1. Inv => ResponsePriority
    <2> SUFFICES ASSUME Inv, pc = "checked", Settled, ~Disputed
                 PROVE  response = FirstOf(<<Described, Earlier, got, OfEnv>>)
      BY Zenon DEF ResponsePriority
    <2>1. Own = Described
      BY OwnIsDescribed
    <2>2. response = FirstOf(<<Described, Earlier, OfEnv, got>>)
      BY <2>1, Zenon DEF Inv, ResponseFilled
    <2> QED BY <2>2, FirstOfFour DEF Disputed
  <1> QED BY <1>1, InvAlways, PTL

\* A variable of the run changes only to what the next test itself defines, or at the
\* response of a test that sets it: finishing a test, or a response that sets another
\* variable, leaves it alone (Variables.Load, Variables.Merge).
THEOREM VariablesLast == Spec => SetVariableLasts
  <1> DEFINE A == \A v \in Var : vs'[v] # vs[v] =>
                     \/ pc = "next" /\ combined[tests[i'].def][v] = vs'[v]
                     \/ pc = "request" /\ file[tests[i].def].toSet = v
  <1>1. Inv /\ [Next]_vars => [A]_vs
    <2> SUFFICES ASSUME Inv, [Next]_vars, vs' # vs PROVE A
      BY Zenon
    <2>1. CASE Prepare
      <3>1. /\ pc = "next" /\ i' = i + 1
            /\ vs' = Overlay(vs, combined[tests[i + 1].def])
        BY <2>1 DEF Prepare
      <3> QED BY <3>1, Zenon DEF Overlay
    <2>2. ASSUME NEW status, NEW json, NEW value \in Value, Respond(status, json, value)
          PROVE  A
      <3>1. PICK set \in Binding :
               /\ SetVariables(set)
               /\ \A v \in Var : set[v] # Undef => file[tests[i].def].toSet = v
        BY Zenon, <2>2, RespondShape
      <3>2. pc = "request"
        BY Zenon, <2>2, RespondShape
      <3> DEFINE own == combined[tests[i].def]
      <3>3. vs = Overlay(before, own)
        BY <3>2, Zenon DEF Inv, Bound
      <3>4. vs' = Overlay(Overlay(vs, set), own)
        BY <3>1 DEF SetVariables
      <3> HIDE DEF own
      <3>5. ASSUME NEW v \in Var, set[v] = Undef
            PROVE  vs'[v] = vs[v]
        <4>1. vs[v] = IF own[v] = Undef THEN before[v] ELSE own[v]
          BY <3>3 DEF Overlay
        <4>2. vs'[v] = IF own[v] = Undef THEN vs[v] ELSE own[v]
          BY <3>4, <3>5 DEF Overlay
        <4> QED BY <4>1, <4>2
      <3> QED BY <3>1, <3>2, <3>5
    <2>3. CASE \/ MakeTests \/ MakeTestsError \/ FinishTest \/ UNCHANGED vars
               \/ \E status, json : RespondError(status, json)
      BY Zenon, <2>3 DEF MakeTests, MakeTestsError, FinishTest, RespondError, vars
    <2> HIDE DEF A
    <2> QED BY Zenon, <2>1, <2>2, <2>3 DEF Next
  <1> QED BY <1>1, InvAlways, PTL DEF Spec, SetVariableLasts
=============================================================================
