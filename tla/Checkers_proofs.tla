-------------------------- MODULE Checkers_proofs ---------------------------
(***************************************************************************)
(* Proofs about Checkers, for any inputs and any answers of the database:  *)
(* a result without errors meets the test, a result that meets it has no   *)
(* errors, and the identifiers of database errors point at the queries     *)
(* that failed.                                                            *)
(***************************************************************************)
EXTENDS Checkers, FiniteSetTheorems, TLAPS

-----------------------------------------------------------------------------
(* Rows in any order: a permutation of the rows exists exactly when each   *)
(* document occurs as often among the expected rows as among the actual    *)
(* ones.                                                                   *)

LEMMA DocumentsOfRows ==
    ASSUME NEW t \in Text, Parses(t)
    PROVE  Document(t) \in {"x", "y"}
  BY DEF Text, Parses, Document

\* The positions of a document.
At(rows, d) == {i \in DOMAIN rows : Document(rows[i]) = d}

\* What a sequence of n rows is to these lemmas.
IsRows(rows, n) ==
    DOMAIN rows = 1..n /\ \A i \in 1..n : Document(rows[i]) \in {"x", "y"}

Reordered(es, as, n) ==
    \E f \in Permutations(n) : \A i \in 1..n : Document(es[i]) = Document(as[f[i]])

LEMMA Counts ==
    ASSUME NEW n \in Nat, NEW rows, IsRows(rows, n)
    PROVE  /\ IsFiniteSet(At(rows, "x")) /\ IsFiniteSet(At(rows, "y"))
           /\ Cardinality(At(rows, "x")) \in Nat /\ Cardinality(At(rows, "y")) \in Nat
           /\ Cardinality(At(rows, "x")) + Cardinality(At(rows, "y")) = n
  <1> DEFINE A == At(rows, "x")
             B == At(rows, "y")
  <1>1. A \in SUBSET (1..n) /\ B \in SUBSET (1..n) /\ A \cup B = 1..n /\ A \cap B = {}
    BY DEF IsRows, At
  <1> HIDE DEF A, B
  <1>2. IsFiniteSet(1..n) /\ Cardinality(1..n) = n
    BY FS_Interval
  <1>3. IsFiniteSet(A) /\ IsFiniteSet(B)
    BY <1>1, <1>2, FS_Subset
  <1>4. Cardinality(A) \in Nat /\ Cardinality(B) \in Nat
    BY <1>3, FS_CardinalityType
  <1>5. Cardinality(A \cup B) = Cardinality(A) + Cardinality(B) - Cardinality(A \cap B)
    BY <1>3, FS_Union
  <1>6. Cardinality(A) + Cardinality(B) = n
    <2>1. Cardinality(A \cap B) = 0
      BY <1>1, FS_EmptySet
    <2>2. Cardinality(A \cup B) = n
      BY <1>1, <1>2, Zenon
    <2> QED BY <1>4, <1>5, <2>1, <2>2
  <1> QED BY <1>3, <1>4, <1>6 DEF A, B

LEMMA PermutedCounts ==
    ASSUME NEW n \in Nat, NEW es, NEW as, IsRows(es, n), IsRows(as, n),
           NEW f \in Permutations(n), \A i \in 1..n : Document(es[i]) = Document(as[f[i]]),
           NEW d \in {"x", "y"}
    PROVE  Cardinality(At(es, d)) <= Cardinality(At(as, d))
  <1> DEFINE g == [i \in At(es, d) |-> f[i]]
  <1>1. f \in [1..n -> 1..n] /\ \A i, j \in 1..n : f[i] = f[j] => i = j
    BY DEF Permutations
  <1>2. g \in [At(es, d) -> At(as, d)]
    BY <1>1, Zenon DEF At, IsRows
  <1>3. \A i, j \in At(es, d) : g[i] = g[j] => i = j
    BY <1>1 DEF At, IsRows
  <1>4. g \in Injection(At(es, d), At(as, d))
    BY <1>2, <1>3, Zenon DEF Injection, IsInjective
  <1>5. IsFiniteSet(At(as, d))
    BY Counts, Zenon
  <1> HIDE DEF g
  <1> QED BY <1>4, <1>5, FS_Injection

LEMMA SameCounts ==
    ASSUME NEW es, NEW as
    PROVE  Occurrences(es) = Occurrences(as)
              <=> \A d \in {"x", "y"} : Cardinality(At(es, d)) = Cardinality(At(as, d))
  <1>1. \A rows : Occurrences(rows) = [d \in {"x", "y"} |-> Cardinality(At(rows, d))]
    BY DEF Occurrences, At
  <1> QED BY <1>1, Zenon

LEMMA SameCountsPermute ==
    ASSUME NEW n \in Nat, NEW es, NEW as, IsRows(es, n), IsRows(as, n),
           Occurrences(es) = Occurrences(as)
    PROVE  Reordered(es, as, n)
  <1>0. \A d \in {"x", "y"} : Cardinality(At(es, d)) = Cardinality(At(as, d))
    BY SameCounts, Zenon
  <1>1. ASSUME NEW d \in {"x", "y"}
        PROVE  \E g \in [At(es, d) -> At(as, d)] : \A i, j \in At(es, d) : g[i] = g[j] => i = j
    <2>1. IsFiniteSet(At(es, d)) /\ IsFiniteSet(At(as, d))
      BY Counts, Zenon
    <2>2. ExistsBijection(At(es, d), At(as, d))
      BY <1>0, <2>1, FS_SameCardinalityBij, Zenon
    <2> QED BY <2>2, Zenon DEF ExistsBijection, Bijection, Injection, IsInjective
  <1>2. PICK g \in [At(es, "x") -> At(as, "x")] :
             \A i, j \in At(es, "x") : g[i] = g[j] => i = j
    BY <1>1, Zenon
  <1>3. PICK h \in [At(es, "y") -> At(as, "y")] :
             \A i, j \in At(es, "y") : h[i] = h[j] => i = j
    BY <1>1, Zenon
  <1> DEFINE f == [i \in 1..n |-> IF Document(es[i]) = "x" THEN g[i] ELSE h[i]]
  <1>4. ASSUME NEW i \in 1..n
        PROVE  f[i] \in 1..n /\ Document(es[i]) = Document(as[f[i]])
    <2>1. CASE Document(es[i]) = "x"  BY <2>1, Zenon DEF At, IsRows
    <2>2. CASE Document(es[i]) # "x"  BY <2>2, Zenon DEF At, IsRows
    <2> QED BY <2>1, <2>2, Zenon
  <1>5. ASSUME NEW i \in 1..n, NEW j \in 1..n, f[i] = f[j]
        PROVE  i = j
    <2>1. Document(es[i]) = Document(es[j])
      <3> HIDE DEF f
      <3>1. Document(es[i]) = Document(as[f[i]]) /\ Document(es[j]) = Document(as[f[j]])
        BY <1>4, Zenon
      <3> QED BY <1>5, <3>1
    <2>2. CASE Document(es[i]) = "x"  BY <1>2, <1>5, <2>1, <2>2, Zenon DEF At, IsRows
    <2>3. CASE Document(es[i]) # "x"  BY <1>3, <1>5, <2>1, <2>3 DEF At, IsRows
    <2> QED BY <2>2, <2>3
  <1>6. f \in Permutations(n)  BY <1>4, <1>5, Zenon DEF Permutations
  <1> HIDE DEF f
  <1> QED BY <1>4, <1>6, Zenon DEF Reordered

LEMMA AnyOrder ==
    ASSUME NEW n \in Nat, NEW es, NEW as, IsRows(es, n), IsRows(as, n)
    PROVE  Reordered(es, as, n) <=> Occurrences(es) = Occurrences(as)
  <1>1. ASSUME NEW f \in Permutations(n), \A i \in 1..n : Document(es[i]) = Document(as[f[i]])
        PROVE  Occurrences(es) = Occurrences(as)
    <2>1. \A d \in {"x", "y"} : Cardinality(At(es, d)) <= Cardinality(At(as, d))
      BY <1>1, PermutedCounts, Zenon
    <2>2. /\ Cardinality(At(es, "x")) \in Nat /\ Cardinality(At(es, "y")) \in Nat
          /\ Cardinality(At(es, "x")) + Cardinality(At(es, "y")) = n
      BY Counts
    <2>3. /\ Cardinality(At(as, "x")) \in Nat /\ Cardinality(At(as, "y")) \in Nat
          /\ Cardinality(At(as, "x")) + Cardinality(At(as, "y")) = n
      BY Counts, Zenon
    <2>4. /\ Cardinality(At(es, "x")) <= Cardinality(At(as, "x"))
          /\ Cardinality(At(es, "y")) <= Cardinality(At(as, "y"))
      BY <2>1, Zenon
    <2>5. /\ Cardinality(At(es, "x")) = Cardinality(At(as, "x"))
          /\ Cardinality(At(es, "y")) = Cardinality(At(as, "y"))
      <3> DEFINE ex == Cardinality(At(es, "x"))
                 ey == Cardinality(At(es, "y"))
                 ax == Cardinality(At(as, "x"))
                 ay == Cardinality(At(as, "y"))
      <3>1. /\ ex \in Nat /\ ey \in Nat /\ ax \in Nat /\ ay \in Nat
            /\ ex + ey = n /\ ax + ay = n /\ ex <= ax /\ ey <= ay
        BY <2>2, <2>3, <2>4, Zenon
      <3> HIDE DEF ex, ey, ax, ay
      <3>2. ex = ax /\ ey = ay
        BY <3>1
      <3> QED BY <3>2, Zenon DEF ex, ey, ax, ay
    <2> QED BY <2>5, SameCounts, Zenon
  <1>2. Reordered(es, as, n) => Occurrences(es) = Occurrences(as)
    BY Zenon, <1>1 DEF Reordered
  <1> QED BY <1>2, SameCountsPermute, Zenon

-----------------------------------------------------------------------------
(* The places of the complete checks.                                      *)

\* The checks a test states are a list of checks.
StatedTyped == Stated \in Seq(DbCheck)

LEMMA PositionOf ==
    ASSUME StatedTyped
    PROVE  /\ Position(0) = 0
           /\ Position(Len(Stated)) = Cardinality(Asked)
           /\ \A n \in Nat : Position(n) \in Nat
           /\ \A n \in Nat : Position(n + 1) = IF n + 1 \in Asked THEN Position(n) + 1
                                               ELSE Position(n)
           /\ \A n \in Nat, k \in Asked : k <= n => Position(k) \in 1..Position(n)
  <1> DEFINE Below(n) == {j \in Asked : j <= n}
  <1>1. Len(Stated) \in Nat /\ Asked \subseteq 1..Len(Stated)
    BY DEF Asked, StatedTyped
  <1>2. \A n : Position(n) = Cardinality(Below(n))
    BY DEF Position
  <1>3. IsFiniteSet(Asked)
    <2>1. IsFiniteSet(1..Len(Stated))
      BY <1>1, FS_Interval
    <2>2. Asked \in SUBSET (1..Len(Stated))
      BY <1>1
    <2> HIDE DEF Below
    <2> QED BY <2>1, <2>2, FS_Subset, Zenon
  <1>4. \A n : IsFiniteSet(Below(n))
    BY <1>3, FS_Subset
  <1>5. \A n : Cardinality(Below(n)) \in Nat
    BY <1>4, FS_CardinalityType
  <1>6. \A j \in Asked : j \in Nat /\ 1 <= j /\ j <= Len(Stated)
    BY <1>1
  <1>7. Below(0) = {} /\ Below(Len(Stated)) = Asked  BY <1>6
  <1>8. ASSUME NEW n \in Nat
        PROVE  Cardinality(Below(n + 1)) = IF n + 1 \in Asked THEN Cardinality(Below(n)) + 1
                                           ELSE Cardinality(Below(n))
    <2>1. CASE n + 1 \in Asked
      <3>1. Below(n + 1) = Below(n) \cup {n + 1} /\ n + 1 \notin Below(n)
        BY <1>6, <2>1
      <3> HIDE DEF Below
      <3>2. Cardinality(Below(n) \cup {n + 1}) = Cardinality(Below(n)) + 1
        BY <1>4, <3>1, FS_AddElement
      <3> QED BY <2>1, <3>1, <3>2
    <2>2. CASE n + 1 \notin Asked
      <3>1. Below(n + 1) = Below(n)  BY <1>6, <2>2
      <3> HIDE DEF Below
      <3> QED BY <2>2, <3>1
    <2> QED BY <2>1, <2>2
  <1>9. ASSUME NEW n \in Nat, NEW k \in Asked, k <= n
        PROVE  Cardinality(Below(k)) \in 1..Cardinality(Below(n))
    <2>1. Below(k) \in SUBSET Below(n) /\ k \in Below(k)  BY <1>6, <1>9
    <2> HIDE DEF Below
    <2>2. Cardinality(Below(k)) <= Cardinality(Below(n))
      BY <1>4, <2>1, FS_Subset
    <2>3. Cardinality(Below(k)) # 0  BY <1>4, <2>1, FS_EmptySet
    <2>4. Cardinality(Below(k)) \in Nat /\ Cardinality(Below(n)) \in Nat
      BY <1>5
    <2> QED BY <2>2, <2>3, <2>4
  <1> HIDE DEF Below
  <1>10. Position(0) = 0 /\ Position(Len(Stated)) = Cardinality(Asked)
    BY <1>2, <1>7, FS_EmptySet
  <1> QED BY <1>2, <1>5, <1>8, <1>9, <1>10, Zenon

-----------------------------------------------------------------------------
(* The inductive invariant.                                                *)

Name       == {"body", "grpc", "header", "db", "multidb", "queries"}
Left       == {checkers[k] : k \in DOMAIN checkers}   \* checkers still to run
DbStage    == {"db", "multidb", "queries"}
HasQueries == in.entry = "RunWithMultiDb" \/ in.hasDb
DbErrors   == {e \in errors : e.kind = "database"}

TypeOK ==
    /\ in.entry \in {"main", "RunWithTesting", "RunWithMultiDb"} /\ in.hasDb \in BOOLEAN
    /\ test.transport \in {"http", "grpc"}
    /\ test.checks \in Seq(DbCheck) /\ OwnCheck \in DbCheck
    /\ checkers \in Seq(Name)

\* The database is asked by one checker at most, the one of the entry point.
Order ==
    /\ \A i, j \in DOMAIN checkers :
          checkers[i] \in DbStage /\ checkers[j] \in DbStage => i = j
    /\ "db" \in Left => in.entry # "RunWithMultiDb" /\ in.hasDb
    /\ "multidb" \in Left => in.entry = "RunWithMultiDb"
    /\ "queries" \in Left => HasQueries
    /\ outcome = "done" => checkers = <<>>

\* What the errors so far, and their absence, say about status, body and headers.
Verdicts ==
    /\ \A e \in errors : e.kind \in {"status", "body", "header", "database"}
    /\ \A e \in errors : e.kind \in {"status", "body"} => ~(StatusMet /\ BodyMet)
    /\ \A e \in errors : e.kind = "header" => ~HeadersMet
    /\ "body" \notin Left /\ test.transport = "http" /\ errors = {} => StatusMet /\ BodyMet
    /\ in.entry = "RunWithTesting" =>
          /\ "grpc" \notin Left /\ test.transport = "grpc" /\ errors = {} =>
                StatusMet /\ BodyMet
          /\ "header" \notin Left /\ errors = {} => HeadersMet

\* The first n checks that the test states have been dealt with.
Answered(n) ==
    /\ Len(dbResult) = Position(n)
    /\ \A k \in Asked : k <= n => dbResult[Position(k)].query = Stated[k].query

Failed(n) == {Position(k) - 1 : k \in {k \in Asked : k <= n /\ ~RowsMet(k)}}

During(n) ==
    /\ queries \in Seq(DbCheck) /\ Len(queries) = Len(Stated) - n
    /\ \A k \in 1..Len(queries) : queries[k] = Stated[n + k]
    /\ Answered(n) /\ {e.at : e \in found} = Failed(n)

Progress ==
    /\ dbResult \in Seq([query : Words, rows : Seq(Text)])
    /\ \A e \in found : e.kind = "database"
    /\ "queries" \notin Left => found = {}
    /\ ~HasQueries \/ "db" \in Left \/ "multidb" \in Left => dbResult = <<>> /\ DbErrors = {}
    /\ "queries" \in Left => DbErrors = {} /\ \E n \in 0..Len(Stated) : During(n)
    /\ HasQueries /\ Left \cap DbStage = {} =>
          Answered(Len(Stated)) /\ {e.at : e \in DbErrors} = Failed(Len(Stated))

Inv == TypeOK /\ Order /\ Verdicts /\ (outcome \in {"running", "done"} => Progress)

-----------------------------------------------------------------------------
(* What a step leaves alone.                                               *)

LEMMA Frame ==
    ASSUME UNCHANGED <<in, test>>
    PROVE  /\ StatusMet' <=> StatusMet
           /\ BodyMet' <=> BodyMet
           /\ HeadersMet' <=> HeadersMet
           /\ OwnCheck' = OwnCheck /\ Stated' = Stated /\ Asked' = Asked
           /\ \A k : Position(k)' = Position(k)
           /\ HasQueries' <=> HasQueries
  <1>1. StatusMet' <=> StatusMet
    BY DEF StatusMet
  <1>2. BodyMet' <=> BodyMet
    BY <1>1, Zenon DEF BodyMet
  <1>3. HeadersMet' <=> HeadersMet
    BY DEF HeadersMet
  <1>4. OwnCheck' = OwnCheck /\ Stated' = Stated /\ Asked' = Asked
    BY DEF OwnCheck, Stated, Asked
  <1>5. \A k : Position(k)' = Position(k)
    BY <1>4 DEF Position
  <1>6. HasQueries' <=> HasQueries
    BY DEF HasQueries
  <1> QED BY <1>1, <1>2, <1>3, <1>4, <1>5, <1>6

LEMMA StatedType == TypeOK => StatedTyped
  <1> SUFFICES ASSUME TypeOK PROVE StatedTyped
    OBVIOUS
  <1>1. <<OwnCheck>> \o test.checks \in Seq(DbCheck)
    BY DEF TypeOK
  <1> QED BY <1>1 DEF TypeOK, StatedTyped, Stated

\* Taking the first checker off the list.
LEMMA TailLeft ==
    ASSUME checkers \in Seq(Name), checkers # <<>>, checkers' = Tail(checkers)
    PROVE  /\ checkers' \in Seq(Name)
           /\ \A x : x \in Left <=> x = Head(checkers) \/ x \in Left'
           /\ Order => \A i, j \in DOMAIN checkers' :
                 checkers'[i] \in DbStage /\ checkers'[j] \in DbStage => i = j
           /\ Order /\ Head(checkers) \in DbStage => Left' \cap DbStage = {}
  <1>1. /\ checkers' \in Seq(Name) /\ Len(checkers) \in Nat
        /\ Len(checkers') = Len(checkers) - 1 /\ Len(checkers) > 0
        /\ \A k \in 1..Len(checkers') : checkers'[k] = checkers[k + 1]
        /\ Head(checkers) = checkers[1]
        /\ DOMAIN checkers = 1..Len(checkers) /\ DOMAIN checkers' = 1..Len(checkers')
    OBVIOUS
  <1>2. ASSUME NEW x, x \in Left
        PROVE  x = Head(checkers) \/ x \in Left'
    <2>1. PICK k \in 1..Len(checkers) : x = checkers[k]
      BY <1>1, <1>2 DEF Left
    <2>2. CASE k = 1
      BY <1>1, <2>1, <2>2
    <2>3. CASE k # 1
      <3>1. k - 1 \in DOMAIN checkers' /\ checkers'[k - 1] = x
        BY <1>1, <2>1, <2>3
      <3> QED BY <3>1 DEF Left
    <2> QED BY <2>2, <2>3
  <1>3. ASSUME NEW x, x = Head(checkers) \/ x \in Left'
        PROVE  x \in Left
    BY <1>1, <1>3 DEF Left
  <1>4. ASSUME Order, NEW i \in DOMAIN checkers', NEW j \in DOMAIN checkers',
               checkers'[i] \in DbStage, checkers'[j] \in DbStage
        PROVE  i = j
    BY <1>1, <1>4 DEF Order
  <1>5. ASSUME Order, Head(checkers) \in DbStage, NEW x \in Left' \cap DbStage
        PROVE  FALSE
    BY <1>1, <1>5 DEF Left, Order
  <1> QED BY <1>1, <1>2, <1>3, <1>4, <1>5

LEMMA ResultFrame ==
    ASSUME UNCHANGED <<in, test, dbResult>>
    PROVE  \A n : (Answered(n)' <=> Answered(n)) /\ Failed(n)' = Failed(n)
  <1>1. Stated' = Stated /\ Asked' = Asked /\ \A k : Position(k)' = Position(k)
    BY Frame
  <1>2. \A k : RowsMet(k)' <=> RowsMet(k)
    BY <1>1, Zenon DEF RowsMet
  <1>3. \A n : Answered(n)' <=> Answered(n)
    BY <1>1 DEF Answered
  <1>4. \A n : Failed(n)' = Failed(n)
    BY <1>1, <1>2 DEF Failed
  <1> QED BY <1>3, <1>4

LEMMA ProgressFrame ==
    ASSUME UNCHANGED <<in, test, queries, found, dbResult>>, DbErrors' = DbErrors,
           \A x \in DbStage : x \in Left' <=> x \in Left, Progress
    PROVE  Progress'
  <1>1. /\ Stated' = Stated /\ (HasQueries' <=> HasQueries)
        /\ \A n : (Answered(n)' <=> Answered(n)) /\ Failed(n)' = Failed(n)
    BY Frame, ResultFrame
  <1>2. \A n : During(n)' <=> During(n)
    BY <1>1 DEF During
  <1>3. /\ "queries" \in Left' <=> "queries" \in Left
        /\ "db" \in Left' <=> "db" \in Left
        /\ "multidb" \in Left' <=> "multidb" \in Left
        /\ Left' \cap DbStage = {} <=> Left \cap DbStage = {}
    BY DEF DbStage
  <1>4. /\ dbResult' = dbResult /\ found' = found
    OBVIOUS
  <1>5. /\ dbResult' \in Seq([query : Words, rows : Seq(Text)])
        /\ \A e \in found' : e.kind = "database"
        /\ "queries" \notin Left' => found' = {}
        /\ ~HasQueries' \/ "db" \in Left' \/ "multidb" \in Left' =>
              dbResult' = <<>> /\ DbErrors' = {}
    BY <1>1, <1>3, <1>4 DEF Progress
  <1>6. "queries" \in Left' => DbErrors' = {} /\ \E n \in 0..Len(Stated') : During(n)'
    BY <1>1, <1>2, <1>3 DEF Progress
  <1>7. HasQueries' /\ Left' \cap DbStage = {} =>
          Answered(Len(Stated))' /\ {e.at : e \in DbErrors'} = Failed(Len(Stated))'
    BY <1>1, <1>3 DEF Progress
  <1> QED BY <1>5, <1>6, <1>7 DEF Progress

\* A checker other than those of the database reports its errors.
LEMMA ReportInv ==
    ASSUME Inv, NEW c \in {"body", "grpc", "header"}, Turn(c), NEW errs, Report(errs),
           \A e \in errs : e.kind \in {"status", "body", "header"},
           \A e \in errs : e.kind \in {"status", "body"} => ~(StatusMet /\ BodyMet),
           \A e \in errs : e.kind = "header" => ~HeadersMet,
           c = "body" /\ test.transport = "http" /\ errs = {} => StatusMet /\ BodyMet,
           c = "grpc" /\ test.transport = "grpc" /\ errs = {} => StatusMet /\ BodyMet,
           c = "header" /\ errs = {} => HeadersMet
    PROVE  Inv'
  <1>1. /\ errors' = errors \cup errs /\ checkers' = Tail(checkers)
        /\ UNCHANGED <<in, test, queries, found, dbResult, outcome>>
    BY DEF Report
  <1>2. /\ checkers \in Seq(Name) /\ checkers # <<>> /\ Head(checkers) = c
        /\ outcome = "running"
    BY DEF Turn, Inv, TypeOK
  <1>3. /\ checkers' \in Seq(Name)
        /\ \A x : x \in Left <=> x = c \/ x \in Left'
        /\ \A i, j \in DOMAIN checkers' :
              checkers'[i] \in DbStage /\ checkers'[j] \in DbStage => i = j
    BY <1>1, <1>2, TailLeft DEF Inv
  <1>4. /\ StatusMet' <=> StatusMet
        /\ BodyMet' <=> BodyMet
        /\ HeadersMet' <=> HeadersMet
        /\ OwnCheck' = OwnCheck
        /\ HasQueries' <=> HasQueries
    BY <1>1, Frame
  <1>5. TypeOK'
    BY <1>1, <1>3, <1>4, Zenon DEF Inv, TypeOK
  <1>6. Order'
    BY <1>1, <1>2, <1>3, <1>4, Zenon DEF Inv, Order
  <1>7. Verdicts'  BY <1>1, <1>3, <1>4 DEF Inv, Verdicts
  <1>8. Progress'  BY <1>1, <1>2, <1>3, ProgressFrame DEF DbErrors, DbStage, Inv
  <1> QED BY <1>5, <1>6, <1>7, <1>8 DEF Inv

\* What holds of the errors does not depend on the rest of the state.
LEMMA VerdictsFrame ==
    ASSUME UNCHANGED <<in, test, checkers, errors>>, TypeOK, Verdicts
    PROVE  TypeOK' /\ Verdicts' /\ Left' = Left
  <1>1. /\ StatusMet' <=> StatusMet
        /\ BodyMet' <=> BodyMet
        /\ HeadersMet' <=> HeadersMet
        /\ OwnCheck' = OwnCheck
    BY Frame
  <1>2. Left' = Left
    BY DEF Left
  <1>3. TypeOK'
    BY <1>1 DEF TypeOK
  <1>4. Verdicts'
    BY <1>1, <1>2 DEF Verdicts
  <1> QED BY <1>2, <1>3, <1>4

LEMMA AbortInv ==
    ASSUME Inv, NEW how \in {"error", "panic"}, Abort(how)
    PROVE  Inv'
  <1>1. outcome' = how /\ UNCHANGED <<in, test, checkers, errors>>
    BY DEF Abort
  <1>2. TypeOK' /\ Verdicts' /\ Left' = Left
    BY <1>1, VerdictsFrame DEF Inv
  <1>3. Order'
    BY <1>1, <1>2, Frame DEF Inv, Order
  <1> QED BY <1>1, <1>2, <1>3 DEF Inv

-----------------------------------------------------------------------------
(* Bodies and headers.                                                     *)

StatusError == Err("status", "", 0)
BodyError   == Err("body", "", 0)

LEMMA ErrorKinds ==
    /\ StatusError.kind = "status" /\ BodyError.kind = "body"
    /\ \A e, a : TextErrors(e, a) = IF e = a THEN {} ELSE {BodyError}
    /\ \A e, a : DocumentErrors(e, a) = IF Parses(a) /\ Agree(e, a) THEN {} ELSE {BodyError}
  <1>1. StatusError.kind = "status" /\ BodyError.kind = "body"
    BY DEF StatusError, BodyError, Err
  <1>2. \A e, a : TextErrors(e, a) = IF e = a THEN {} ELSE {BodyError}
    BY Zenon DEF TextErrors, BodyError
  <1>3. \A e, a : DocumentErrors(e, a) = IF Parses(a) /\ Agree(e, a) THEN {} ELSE {BodyError}
    BY Zenon DEF DocumentErrors, BodyError
  <1> QED BY <1>1, <1>2, <1>3

LEMMA CheckBodyInv == Inv /\ CheckBody => Inv'
  <1> SUFFICES ASSUME Inv, CheckBody PROVE Inv'
    OBVIOUS
  <1> DEFINE status == in.result.status
             a == in.result.body
             e == test.responses[status]
  <1>1. Turn("body") /\ test.transport \in {"http", "grpc"}
    BY Zenon DEF CheckBody, Inv, TypeOK
  <1>2. CASE test.transport = "grpc" /\ Report({})
    BY <1>1, <1>2, ReportInv
  <1>3. ASSUME test.transport # "grpc", status \in DOMAIN test.responses,
               ~AsDocument(e), Report(TextErrors(e, a))
        PROVE  Inv'
    <2>1. BodyMet <=> e = a
      BY <1>3, Zenon DEF BodyMet, StatusMet, AsDocument, Parses
    <2>2. StatusMet
      BY <1>3, Zenon DEF StatusMet
    <2>3. \A r \in TextErrors(e, a) : r.kind = "body" /\ ~BodyMet
      BY <2>1, ErrorKinds
    <2>4. TextErrors(e, a) = {} => BodyMet
      BY <2>1, ErrorKinds
    <2> HIDE DEF a, e, status
    <2> QED BY <1>1, <1>3, <2>2, <2>3, <2>4, ReportInv
  <1>4. CASE Abort("error") \/ Abort("panic")
    BY <1>4, AbortInv
  <1>5. ASSUME test.transport # "grpc", status \in DOMAIN test.responses,
               AsDocument(e), Parses(e), Report(DocumentErrors(e, a))
        PROVE  Inv'
    <2>1. BodyMet <=> Parses(a) /\ Agree(e, a)
      BY <1>5, Zenon DEF BodyMet, StatusMet, AsDocument, Agree
    <2>2. StatusMet
      BY <1>5, Zenon DEF StatusMet
    <2>3. \A r \in DocumentErrors(e, a) : r.kind = "body" /\ ~BodyMet
      BY <2>1, ErrorKinds, Zenon
    <2>4. DocumentErrors(e, a) = {} => BodyMet
      BY <2>1, ErrorKinds, Zenon
    <2> HIDE DEF a, e, status
    <2> QED BY <1>1, <1>5, <2>2, <2>3, <2>4, ReportInv
  <1>6. ASSUME status \notin DOMAIN test.responses, Report({StatusError})
        PROVE  Inv'
    BY <1>1, <1>6, ErrorKinds, ReportInv DEF StatusMet
  <1> HIDE DEF a, e, status
  <1>7. \/ test.transport = "grpc" /\ Report({})
        \/ /\ test.transport # "grpc" /\ status \in DOMAIN test.responses
           /\ \/ ~AsDocument(e) /\ Report(TextErrors(e, a))
              \/ Abort("error")
              \/ AsDocument(e) /\ Parses(e) /\ Report(DocumentErrors(e, a))
        \/ /\ status \notin DOMAIN test.responses
           /\ Abort("panic") \/ Report({StatusError})
    BY Zenon DEF CheckBody, StatusError, a, e, status
  <1> QED BY Zenon, <1>2, <1>3, <1>4, <1>5, <1>6, <1>7

LEMMA CheckGrpcInv == Inv /\ CheckGrpc => Inv'
  <1> SUFFICES ASSUME Inv, CheckGrpc PROVE Inv'
    OBVIOUS
  <1> DEFINE status == in.result.status
             a == in.result.body
             e == test.responses[status]
  <1>1. Turn("grpc")
    BY Zenon DEF CheckGrpc
  <1>2. CASE test.transport # "grpc" /\ Report({})
    BY <1>1, <1>2, ReportInv, Zenon
  <1>3. ASSUME status \notin DOMAIN test.responses, Report({StatusError})
        PROVE  Inv'
    BY <1>1, <1>3, ErrorKinds, ReportInv DEF StatusMet
  <1>4. ASSUME test.transport = "grpc", status \in DOMAIN test.responses,
               e = "", Report({})
        PROVE  Inv'
    BY <1>1, <1>4, ReportInv, Zenon DEF StatusMet, BodyMet
  <1>5. CASE Abort("error")
    BY <1>5, AbortInv
  <1>6. ASSUME test.transport = "grpc", status \in DOMAIN test.responses,
               Parses(e), Report(DocumentErrors(e, a))
        PROVE  Inv'
    <2>1. BodyMet <=> Parses(a) /\ Agree(e, a)
      BY <1>6, Zenon DEF BodyMet, StatusMet, Agree, Parses
    <2>2. StatusMet
      BY <1>6 DEF StatusMet
    <2>3. \A r \in DocumentErrors(e, a) : r.kind = "body" /\ ~BodyMet
      BY <2>1, ErrorKinds
    <2>4. DocumentErrors(e, a) = {} => BodyMet
      BY <2>1, ErrorKinds
    <2> HIDE DEF a, e, status
    <2> QED BY <1>1, <1>6, <2>2, <2>3, <2>4, ReportInv
  <1> HIDE DEF a, e, status
  <1>7. \/ test.transport # "grpc" /\ Report({})
        \/ status \notin DOMAIN test.responses /\ Report({StatusError})
        \/ /\ test.transport = "grpc" /\ status \in DOMAIN test.responses
           /\ \/ e = "" /\ Report({})
              \/ Abort("error")
              \/ Parses(e) /\ Report(DocumentErrors(e, a))
    BY Zenon DEF CheckGrpc, StatusError, a, e, status
  <1> QED BY Zenon, <1>2, <1>3, <1>4, <1>5, <1>6, <1>7

LEMMA CheckHeaderInv == Inv /\ CheckHeader => Inv'
  <1> SUFFICES ASSUME Inv, CheckHeader PROVE Inv'
    OBVIOUS
  <1> DEFINE status == in.result.status
             expected == test.headers[status]
             missing == {k \in DOMAIN expected : ~HeaderFound(k, expected[k])}
             errs == {Err("header", CanonicalMIMEHeaderKey(k), 0) : k \in missing}
  <1>1. Turn("header") /\ test.transport \in {"http", "grpc"}
    BY Zenon DEF CheckHeader, Inv, TypeOK
  <1>2. ASSUME test.transport = "grpc" \/ status \notin DOMAIN test.headers, Report({})
        PROVE  Inv'
    BY <1>1, <1>2, ReportInv DEF HeadersMet
  <1>3. ASSUME test.transport # "grpc", status \in DOMAIN test.headers, Report(errs)
        PROVE  Inv'
    <2>1. \A k \in DOMAIN expected :
             HeaderFound(k, expected[k]) <=>
                \E name \in DOMAIN in.result.headers :
                   /\ name = CanonicalMIMEHeaderKey(k)
                   /\ \E i \in DOMAIN in.result.headers[name] :
                         in.result.headers[name][i] = expected[k]
      BY Zenon DEF HeaderFound
    <2>2. HeadersMet <=> missing = {}
      BY <1>1, <1>3, <2>1, Zenon DEF HeadersMet
    <2> HIDE DEF missing
    <2>3. \A r \in errs : r.kind = "header" /\ ~HeadersMet
      BY <2>2 DEF Err
    <2>4. errs = {} => HeadersMet
      BY <2>2
    <2> HIDE DEF errs
    <2> QED BY <1>1, <1>3, <2>3, <2>4, ReportInv
  <1>4. \/ (test.transport = "grpc" \/ status \notin DOMAIN test.headers) /\ Report({})
        \/ test.transport # "grpc" /\ status \in DOMAIN test.headers /\ Report(errs)
    BY Zenon DEF CheckHeader
  <1> QED BY Zenon, <1>2, <1>3, <1>4

-----------------------------------------------------------------------------
(* Queries.                                                                *)

Entry == [query : Words, rows : Seq(Text)]

LEMMA AskedBelow ==
    ASSUME StatedTyped
    PROVE  /\ Len(Stated) \in Nat /\ \A k \in Asked : k \in 1..Len(Stated)
           /\ \A k \in 1..Len(Stated) : k \in Asked <=> Complete(Stated[k])
  BY DEF StatedTyped, Asked

\* A check that is left out changes nothing.
LEMMA SkipStep ==
    ASSUME StatedTyped, NEW n \in Nat, n + 1 \notin Asked,
           Answered(n), UNCHANGED <<in, test, dbResult>>
    PROVE  Answered(n + 1)' /\ Failed(n + 1)' = Failed(n)
  <1>1. \A k \in Asked : k <= n + 1 <=> k <= n
    BY AskedBelow
  <1>2. Position(n + 1) = Position(n)
    BY PositionOf
  <1>3. Answered(n + 1)
    BY <1>1, <1>2, Zenon DEF Answered
  <1>4. Failed(n + 1) = Failed(n)
    BY <1>1, Zenon DEF Failed
  <1> QED BY <1>3, <1>4, ResultFrame

\* A check that is run appends its result, and fails with the index it had before.
LEMMA AnswerStep ==
    ASSUME StatedTyped, NEW n \in Nat, n + 1 \in Asked,
           Answered(n), UNCHANGED <<in, test>>, dbResult \in Seq(Entry),
           NEW entry \in Entry, entry.query = Stated[n + 1].query,
           dbResult' = Append(dbResult, entry)
    PROVE  /\ Answered(n + 1)'
           /\ dbResult'[Position(n + 1)'] = entry
           /\ ~RowsMet(n + 1)' => Failed(n + 1)' = Failed(n) \cup {Len(dbResult)}
           /\ RowsMet(n + 1)' => Failed(n + 1)' = Failed(n)
  <1>1. /\ Stated' = Stated /\ Asked' = Asked /\ \A k : Position(k)' = Position(k)
    BY Frame, Zenon
  <1>2. /\ Position(n) \in Nat /\ Position(n + 1) = Position(n) + 1
        /\ \A k \in Asked : k <= n => Position(k) \in 1..Position(n)
    BY PositionOf, Zenon
  <1>3. /\ Len(dbResult) = Position(n) /\ Len(dbResult') = Position(n) + 1
        /\ \A m \in 1..Position(n) : dbResult'[m] = dbResult[m]
        /\ dbResult'[Position(n) + 1] = entry
    BY DEF Answered
  <1>4. \A k \in Asked : k <= n + 1 <=> k <= n \/ k = n + 1
    BY AskedBelow
  <1>5. \A k \in Asked : k <= n => dbResult'[Position(k)] = dbResult[Position(k)]
    BY <1>2, <1>3
  <1>6. \A k \in Asked : k <= n => (RowsMet(k)' <=> RowsMet(k))
    BY <1>1, <1>5, Zenon DEF RowsMet
  <1>7. Answered(n + 1)'  BY <1>1, <1>2, <1>3, <1>4, <1>5, Zenon DEF Answered
  <1>8. dbResult'[Position(n + 1)'] = entry
    BY <1>1, <1>2, <1>3
  <1>9. Failed(n + 1)' = {Position(k) - 1 : k \in {k \in Asked : k <= n + 1 /\ ~RowsMet(k)'}}
    BY <1>1 DEF Failed
  <1>10. CASE RowsMet(n + 1)'
    BY <1>4, <1>6, <1>7, <1>8, <1>9, <1>10, Zenon DEF Failed
  <1>11. CASE ~RowsMet(n + 1)'
    <2> DEFINE bad  == {k \in Asked : k <= n /\ ~RowsMet(k)}
               bad2 == {k \in Asked : k <= n + 1 /\ ~RowsMet(k)'}
    <2>1. bad2 = bad \cup {n + 1}
      BY <1>4, <1>6, <1>11, Zenon
    <2>2. Failed(n) = {Position(k) - 1 : k \in bad} /\ Failed(n + 1)' = {Position(k) - 1 : k \in bad2}
      BY <1>9, Zenon DEF Failed
    <2> HIDE DEF bad, bad2
    <2>3. Position(n + 1) - 1 = Len(dbResult)
      BY <1>2, <1>3
    <2>4. Failed(n + 1)' = Failed(n) \cup {Len(dbResult)}
      BY <2>1, <2>2, <2>3, Zenon
    <2> QED BY <1>7, <1>8, <1>11, <2>4
  <1> QED BY <1>10, <1>11, Zenon

LEMMA SeqFacts ==
    ASSUME NEW S, NEW s \in Seq(S)
    PROVE  Len(s) \in Nat /\ DOMAIN s = 1..Len(s) /\ \A i \in 1..Len(s) : s[i] \in S
  OBVIOUS

\* The comparison of rows says what the author of the test means.
LEMMA RowsVerdict ==
    ASSUME NEW es \in Seq(Text), \A i \in DOMAIN es : Parses(es[i]),
           NEW as \in Seq(Json), Len(es) = Len(as)
    PROVE  RowsAgree(es, as) <=>
              IF test.ignoreOrder THEN Occurrences(es) = Occurrences(as)
              ELSE \A j \in DOMAIN es : Document(es[j]) = Document(as[j])
  <1> DEFINE n == Len(es)
  <1>1. /\ n \in Nat /\ DOMAIN es = 1..n /\ DOMAIN as = 1..n
        /\ \A i \in 1..n : es[i] \in Text /\ as[i] \in Json
    BY SeqFacts, Zenon
  <1>2. \A t \in Json : Document(t) \in {"x", "y"}
    BY DocumentsOfRows DEF Json
  <1>3. (\A i \in 1..n : es[i] \in Json) /\ (\A i \in 1..n : as[i] \in Json)
    BY <1>1, Zenon DEF Json
  <1>4. IsRows(es, n) /\ IsRows(as, n)
    BY <1>1, <1>2, <1>3, Zenon DEF IsRows
  <1> HIDE DEF n
  <1>5. RowsAgree(es, as) <=>
           IF test.ignoreOrder THEN Reordered(es, as, n)
           ELSE \A j \in DOMAIN es : Document(es[j]) = Document(as[j])
    BY Zenon, <1>1 DEF RowsAgree, Agree, Reordered, n
  <1> QED BY <1>1, <1>4, <1>5, AnyOrder, Zenon

LEMMA Prepend ==
    ASSUME NEW S, NEW x \in S, NEW t \in Seq(S), NEW s, s = <<x>> \o t
    PROVE  /\ s \in Seq(S) /\ Len(s) = 1 + Len(t) /\ s[1] = x
           /\ \A k \in 2..Len(s) : s[k] = t[k - 1]
  <1>1. <<x>> \in Seq(S) /\ Len(<<x>>) = 1 /\ <<x>>[1] = x
    OBVIOUS
  <1> DEFINE u == <<x>>
  <1>2. u \in Seq(S) /\ Len(u) = 1 /\ u[1] = x /\ s = u \o t
    BY <1>1
  <1> HIDE DEF u
  <1>3. s \in Seq(S) /\ Len(s) = 1 + Len(t)
    BY <1>2
  <1>4. \A k \in 1..Len(s) : s[k] = IF k <= Len(u) THEN u[k] ELSE t[k - Len(u)]
    BY <1>2
  <1> QED BY <1>2, <1>3, <1>4

LEMMA StartQueriesInv == Inv /\ StartQueries => Inv'
  <1> SUFFICES ASSUME Inv, StartQueries PROVE Inv'
    OBVIOUS
  <1>1. /\ checkers' = <<"queries">> \o Tail(checkers)
        /\ UNCHANGED <<in, test, found, errors, dbResult, outcome>>
        /\ outcome = "running" /\ checkers # <<>> /\ Head(checkers) \in {"db", "multidb"}
        /\ \/ Head(checkers) = "db" /\ queries' = <<OwnCheck>> \o test.checks
           \/ Head(checkers) = "multidb" /\ queries' = test.checks
    BY DEF StartQueries, Turn
  <1>2. TypeOK /\ Order /\ Verdicts /\ Progress /\ StatedTyped
    BY <1>1, StatedType, Zenon DEF Inv
  <1>3. /\ checkers' \in Seq(Name) /\ DOMAIN checkers' = DOMAIN checkers
        /\ 1 \in DOMAIN checkers /\ checkers[1] = Head(checkers) /\ checkers'[1] = "queries"
        /\ \A k \in DOMAIN checkers : k # 1 => checkers'[k] = checkers[k]
    BY <1>1, <1>2, Prepend DEF TypeOK, Name
  <1>4. \A k \in DOMAIN checkers : checkers[k] \in DbStage => k = 1
    BY <1>1, <1>2, <1>3 DEF Order, DbStage
  <1>5. \A x : x \in Left' <=> x = "queries" \/ (x \in Left /\ x \notin DbStage)
    <2>1. \A k \in DOMAIN checkers' : checkers'[k] \in DbStage => k = 1
      BY <1>3, <1>4
    <2>2. ASSUME NEW x \in Left'
          PROVE  x = "queries" \/ (x \in Left /\ x \notin DbStage)
      BY <1>3, <2>1, <2>2 DEF Left
    <2>3. ASSUME NEW x, x = "queries" \/ (x \in Left /\ x \notin DbStage)
          PROVE  x \in Left'
      <3>1. CASE x = "queries"
        BY <1>3, <3>1 DEF Left
      <3>2. CASE x \in Left /\ x \notin DbStage
        <4>1. PICK k \in DOMAIN checkers : x = checkers[k]
          BY <3>2, Zenon DEF Left
        <4>2. k # 1
          BY <1>1, <1>3, <3>2, <4>1 DEF DbStage
        <4> QED BY <1>3, <4>1, <4>2 DEF Left
      <3> QED BY <2>3, <3>1, <3>2
    <2> QED BY <2>2, <2>3
  <1>6. Head(checkers) \in Left /\ "queries" \notin Left
    BY <1>1, <1>3, <1>4, Zenon DEF Left, DbStage
  <1>7. queries' = Stated /\ HasQueries
    BY <1>1, <1>2, <1>6, Zenon DEF Order, Stated, HasQueries
  <1>8. /\ StatusMet' <=> StatusMet
        /\ BodyMet' <=> BodyMet
        /\ HeadersMet' <=> HeadersMet
        /\ OwnCheck' = OwnCheck /\ Stated' = Stated
        /\ HasQueries' <=> HasQueries
        /\ \A n : (Answered(n)' <=> Answered(n)) /\ Failed(n)' = Failed(n)
    BY <1>1, Frame, ResultFrame, Zenon
  <1>9. TypeOK'
    BY <1>1, <1>2, <1>3, <1>8, Zenon DEF TypeOK
  <1>10. Order'  BY <1>1, <1>3, <1>4, <1>5, <1>7, <1>8, Zenon DEF DbStage, Order
  <1>11. Verdicts'  BY <1>1, <1>2, <1>5, <1>8, Zenon DEF DbStage, Verdicts
  <1>12. dbResult = <<>> /\ DbErrors = {} /\ found = {}
    BY <1>1, <1>2, <1>6 DEF Progress
  <1>13. During(0)'
    <2>1. \A k \in Asked : ~(k <= 0)
      BY <1>2, AskedBelow
    <2>2. Answered(0)
      BY <1>2, <1>12, <2>1, PositionOf, Zenon DEF Answered
    <2>3. Failed(0) = {}
      BY <2>1 DEF Failed
    <2>4. {e.at : e \in found'} = {}
      BY <1>1, <1>12, Zenon
    <2>5. /\ queries' \in Seq(DbCheck) /\ Len(queries') = Len(Stated') - 0
          /\ \A k \in 1..Len(queries') : queries'[k] = Stated'[0 + k]
      BY <1>2, <1>7, <1>8 DEF StatedTyped
    <2> QED BY <1>8, <2>2, <2>3, <2>4, <2>5, Zenon DEF During
  <1>14. Progress'
    BY <1>1, <1>2, <1>5, <1>7, <1>8, <1>12, <1>13, AskedBelow DEF DbStage, DbErrors,
      Progress
  <1> QED BY <1>9, <1>10, <1>11, <1>14, Zenon DEF Inv

LEMMA QueriesTurn ==
    ASSUME Inv, Turn("queries")
    PROVE  /\ TypeOK /\ Order /\ Verdicts /\ Progress /\ StatedTyped /\ outcome = "running"
           /\ "queries" \in Left /\ "db" \notin Left /\ "multidb" \notin Left
           /\ HasQueries /\ DbErrors = {} /\ \E n \in 0..Len(Stated) : During(n)
  <1>1. /\ TypeOK /\ Order /\ Verdicts /\ Progress /\ StatedTyped /\ outcome = "running"
        /\ checkers # <<>> /\ Head(checkers) = "queries"
    BY StatedType DEF Inv, Turn
  <1>2. 1 \in DOMAIN checkers /\ checkers[1] = "queries"
    BY <1>1 DEF TypeOK
  <1>3. "queries" \in Left
    BY <1>2, Zenon DEF Left
  <1>4. \A k \in DOMAIN checkers : checkers[k] \in DbStage => k = 1
    BY <1>1, <1>2, Zenon DEF Order, DbStage
  <1>5. "db" \notin Left /\ "multidb" \notin Left
    BY <1>2, <1>4 DEF Left, DbStage
  <1> QED BY <1>1, <1>3, <1>5 DEF Order, Progress

\* A step of the loop over the queries that leaves it at check n.
LEMMA LoopStep ==
    ASSUME Inv, Turn("queries"), UNCHANGED <<in, test, checkers, errors, outcome>>,
           dbResult' \in Seq(Entry), \A e \in found' : e.kind = "database",
           NEW n \in 0..Len(Stated), During(n)'
    PROVE  Inv'
  <1>1. /\ TypeOK /\ Order /\ Verdicts /\ outcome = "running"
        /\ "queries" \in Left /\ "db" \notin Left /\ "multidb" \notin Left
        /\ HasQueries /\ DbErrors = {}
    BY QueriesTurn
  <1>2. /\ Stated' = Stated /\ OwnCheck' = OwnCheck /\ (HasQueries' <=> HasQueries)
    BY Frame
  <1>3. TypeOK' /\ Verdicts' /\ Left' = Left
    BY <1>1, VerdictsFrame, Zenon
  <1>4. Order'
    BY <1>1, <1>2, <1>3 DEF Order
  <1>5. DbErrors' = {}
    BY <1>1 DEF DbErrors
  <1>6. Left' \cap DbStage # {}
    BY <1>1, <1>3 DEF DbStage
  <1>7. \E m \in 0..Len(Stated') : During(m)'
    BY <1>2, Zenon
  <1>8. Progress'
    BY <1>1, <1>2, <1>3, <1>5, <1>6, <1>7, Zenon DEF Progress, Entry
  <1> QED BY <1>3, <1>4, <1>8 DEF Inv

\* The check whose turn it is.
LEMMA NextCheck ==
    ASSUME StatedTyped, NEW n \in 0..Len(Stated), During(n), queries # <<>>
    PROVE  /\ n \in Nat /\ n + 1 \in 1..Len(Stated) /\ Head(queries) = Stated[n + 1]
           /\ Head(queries) \in DbCheck
           /\ Tail(queries) \in Seq(DbCheck)
           /\ Len(Tail(queries)) = Len(Stated) - (n + 1)
           /\ \A k \in 1..Len(Tail(queries)) : Tail(queries)[k] = Stated[(n + 1) + k]
  <1>1. /\ queries \in Seq(DbCheck) /\ Len(queries) = Len(Stated) - n
        /\ \A k \in 1..Len(queries) : queries[k] = Stated[n + k]
        /\ Len(Stated) \in Nat
    BY AskedBelow DEF During
  <1>2. /\ Len(queries) \in Nat /\ Len(queries) > 0 /\ Head(queries) = queries[1]
        /\ Head(queries) \in DbCheck
        /\ Tail(queries) \in Seq(DbCheck) /\ Len(Tail(queries)) = Len(queries) - 1
        /\ \A k \in 1..Len(Tail(queries)) : Tail(queries)[k] = queries[k + 1]
    BY <1>1
  <1>3. n \in Nat /\ n + 1 \in 1..Len(Stated)
    BY <1>1, <1>2
  <1>4. Head(queries) = Stated[n + 1]
    BY <1>1, <1>2
  <1>5. Len(Tail(queries)) = Len(Stated) - (n + 1)
    BY <1>1, <1>2
  <1>6. ASSUME NEW k \in 1..Len(Tail(queries))
        PROVE  Tail(queries)[k] = Stated[(n + 1) + k]
    BY <1>1, <1>2
  <1> QED BY <1>2, <1>3, <1>4, <1>5, <1>6, Zenon

LEMMA SkipQueryInv == Inv /\ SkipQuery => Inv'
  <1> SUFFICES ASSUME Inv, SkipQuery PROVE Inv'
    OBVIOUS
  <1>1. /\ Turn("queries") /\ queries # <<>> /\ Skipped(Head(queries))
        /\ queries' = Tail(queries)
        /\ UNCHANGED <<in, test, checkers, found, errors, dbResult, outcome>>
    BY DEF SkipQuery
  <1>2. StatedTyped /\ Progress
    BY <1>1, QueriesTurn
  <1>3. PICK n \in 0..Len(Stated) : During(n)
    BY <1>1, QueriesTurn, Zenon
  <1>4. /\ n \in Nat /\ n + 1 \in 1..Len(Stated) /\ Head(queries) = Stated[n + 1]
        /\ queries' \in Seq(DbCheck)
        /\ Len(queries') = Len(Stated) - (n + 1)
        /\ \A k \in 1..Len(queries') : queries'[k] = Stated[(n + 1) + k]
    BY <1>1, <1>2, <1>3, NextCheck
  <1>5. n + 1 \notin Asked
    BY <1>1, <1>2, <1>4, AskedBelow, Zenon DEF Skipped, Complete
  <1>6. Answered(n + 1)' /\ Failed(n + 1)' = Failed(n)
    BY <1>1, <1>2, <1>3, <1>4, <1>5, SkipStep, Zenon DEF During
  <1>7. Stated' = Stated
    BY <1>1, Frame, Zenon
  <1>8. {e.at : e \in found'} = Failed(n + 1)'
    BY <1>1, <1>3, <1>6, Zenon DEF During
  <1>9. During(n + 1)'
    BY <1>4, <1>6, <1>7, <1>8, Zenon DEF During
  <1>10. dbResult' \in Seq(Entry) /\ \A e \in found' : e.kind = "database"
    BY <1>1, <1>2 DEF Progress, Entry
  <1>11. n + 1 \in 0..Len(Stated)
    BY <1>4
  <1> QED BY <1>1, <1>9, <1>10, <1>11, LoopStep

LEMMA EndQueriesInv == Inv /\ EndQueries => Inv'
  <1> SUFFICES ASSUME Inv, EndQueries PROVE Inv'
    OBVIOUS
  <1>1. /\ Turn("queries") /\ queries = <<>>
        /\ errors' = errors \cup found /\ found' = {} /\ checkers' = Tail(checkers)
        /\ UNCHANGED <<in, test, queries, dbResult, outcome>>
    BY DEF EndQueries
  <1>2. /\ TypeOK /\ Order /\ Verdicts /\ Progress /\ StatedTyped /\ outcome = "running"
        /\ HasQueries /\ DbErrors = {}
    BY <1>1, QueriesTurn
  <1>3. /\ checkers \in Seq(Name) /\ checkers # <<>> /\ Head(checkers) = "queries"
        /\ Head(checkers) \in DbStage
    BY <1>1, <1>2, Zenon DEF TypeOK, Turn, DbStage
  <1>4. /\ checkers' \in Seq(Name)
        /\ \A x : x \in Left <=> x = "queries" \/ x \in Left'
        /\ \A i, j \in DOMAIN checkers' :
              checkers'[i] \in DbStage /\ checkers'[j] \in DbStage => i = j
        /\ Left' \cap DbStage = {}
    BY <1>1, <1>2, <1>3, TailLeft, Zenon
  <1>5. /\ StatusMet' <=> StatusMet
        /\ BodyMet' <=> BodyMet
        /\ HeadersMet' <=> HeadersMet
        /\ OwnCheck' = OwnCheck /\ Stated' = Stated
        /\ HasQueries' <=> HasQueries
        /\ \A n : (Answered(n)' <=> Answered(n)) /\ Failed(n)' = Failed(n)
    BY <1>1, Frame, ResultFrame
  <1>6. PICK n \in 0..Len(Stated) : During(n)
    BY <1>1, QueriesTurn, Zenon
  <1>7. n = Len(Stated)  BY <1>1, <1>2, <1>6, AskedBelow DEF During
  <1>8. Answered(Len(Stated)) /\ {e.at : e \in found} = Failed(Len(Stated))
    BY <1>6, <1>7, Zenon DEF During
  <1>9. DbErrors' = found
    BY <1>1, <1>2, Zenon DEF DbErrors, Progress
  <1>10. TypeOK'
    BY <1>1, <1>2, <1>4, <1>5, Zenon DEF TypeOK
  <1>11. Order'  BY <1>1, <1>2, <1>4, Zenon DEF DbStage, Order
  <1>12. Verdicts'  BY <1>1, <1>2, <1>4, <1>5, Zenon DEF Progress, Verdicts
  <1>13. Progress'  BY <1>1, <1>2, <1>4, <1>5, <1>8, <1>9, Zenon DEF DbStage, Progress
  <1> QED BY <1>10, <1>11, <1>12, <1>13 DEF Inv

DbError(at) == Err("database", "", at)

LEMMA DbErrorFields ==
    ASSUME NEW at
    PROVE  DbError(at).kind = "database" /\ DbError(at).at = at
  BY DEF DbError, Err

LEMMA SeqSubset ==
    ASSUME NEW S, NEW T, S \subseteq T, NEW s \in Seq(S)
    PROVE  s \in Seq(T)
  OBVIOUS

LEMMA RunQueryInv == \A rows \in Answers : Inv /\ RunQuery(rows) => Inv'
  <1> SUFFICES ASSUME NEW rows \in Answers, Inv, RunQuery(rows) PROVE Inv'
    OBVIOUS
  <1> DEFINE q == Head(queries)
             entry == [query |-> q.query, rows |-> rows]
             m == Len(dbResult)
             expectedParse == \A i \in DOMAIN q.response : Parses(q.response[i])
  <1>1. /\ Turn("queries") /\ queries # <<>> /\ Complete(q)
        /\ dbResult' = Append(dbResult, entry)
        /\ UNCHANGED <<in, test, checkers, errors>>
    BY Zenon DEF RunQuery
  <1>2. StatedTyped /\ Progress /\ TypeOK /\ Order /\ Verdicts
    BY <1>1, QueriesTurn, Zenon
  <1>3. PICK n \in 0..Len(Stated) : During(n)
    BY <1>1, QueriesTurn, Zenon
  <1>4. /\ n \in Nat /\ n + 1 \in 1..Len(Stated) /\ q = Stated[n + 1] /\ q \in DbCheck
        /\ Tail(queries) \in Seq(DbCheck)
        /\ Len(Tail(queries)) = Len(Stated) - (n + 1)
        /\ \A k \in 1..Len(Tail(queries)) : Tail(queries)[k] = Stated[(n + 1) + k]
    BY <1>1, <1>2, <1>3, NextCheck, Zenon
  <1> HIDE DEF q
  <1>5. n + 1 \in Asked
    BY <1>1, <1>2, <1>4, AskedBelow
  <1>6. rows \in Seq(Json) /\ rows \in Seq(Text)
    BY CheckersAssumption, SeqSubset, Zenon DEF Json
  <1>7. q.query \in Words /\ q.response \in Seq(Text)
    BY <1>1, <1>4, Zenon DEF DbCheck, Complete
  <1>8. entry \in Entry /\ entry.query = Stated[n + 1].query
    BY <1>4, <1>6, <1>7, Zenon DEF Entry
  <1>9. dbResult \in Seq(Entry)
    BY <1>2, Zenon DEF Progress, Entry
  <1> HIDE DEF entry
  <1>10. /\ Answered(n + 1)'
         /\ dbResult'[Position(n + 1)'] = entry
         /\ ~RowsMet(n + 1)' => Failed(n + 1)' = Failed(n) \cup {m}
         /\ RowsMet(n + 1)' => Failed(n + 1)' = Failed(n)
    BY <1>1, <1>2, <1>3, <1>4, <1>5, <1>8, <1>9, AnswerStep, Zenon DEF During
  <1>11. Stated' = Stated /\ dbResult' \in Seq(Entry)
    BY <1>1, <1>8, <1>9, Frame
  <1>12. RowsMet(n + 1)' <=>
            /\ Len(q.response) = Len(rows)
            /\ IF test.ignoreOrder THEN Occurrences(q.response) = Occurrences(rows)
               ELSE \A j \in DOMAIN q.response : Document(q.response[j]) = Document(rows[j])
    <2>1. dbResult'[Position(n + 1)'].rows = rows /\ Stated'[n + 1] = q /\ test' = test
      <3>1. entry.rows = rows
        BY Zenon DEF entry
      <3>2. dbResult'[Position(n + 1)'] = entry
        BY <1>10, Zenon
      <3>3. Stated'[n + 1] = q /\ test' = test
        BY <1>1, <1>4, <1>11, Zenon
      <3> QED BY <3>1, <3>2, <3>3, Zenon
    <2> QED BY <2>1, Zenon DEF RowsMet
  <1>13. /\ {e.at : e \in found} = Failed(n)
         /\ \A e \in found : e.kind = "database"
    BY <1>2, <1>3, Zenon DEF During, Progress
  \* The loop goes on with the next check.
  <1>14. ASSUME queries' = Tail(queries), outcome' = outcome,
                NEW errs, found' = found \cup errs,
                errs = IF RowsMet(n + 1)' THEN {} ELSE {DbError(m)}
         PROVE  Inv'
    <2>1. /\ DbError(m).kind = "database" /\ DbError(m).at = m
      BY DbErrorFields, Zenon
    <2>2. {e.at : e \in found'} = Failed(n + 1)'  BY <1>10, <1>13, <1>14, <2>1, Zenon
    <2>3. \A e \in found' : e.kind = "database"
      BY <1>13, <1>14, <2>1, Zenon
    <2>4. During(n + 1)'
      BY <1>4, <1>10, <1>11, <1>14, <2>2, Zenon DEF During
    <2>5. n + 1 \in 0..Len(Stated)
      BY <1>4
    <2>6. UNCHANGED <<in, test, checkers, errors, outcome>>
      BY <1>1, <1>14, Zenon
    <2> QED BY <1>1, <1>11, <2>3, <2>4, <2>5, <2>6, LoopStep
  <1>15. ASSUME Len(rows) # Len(q.response), found' = found \cup {DbError(m)},
                queries' = Tail(queries), outcome' = outcome
         PROVE  Inv'
    BY <1>12, <1>14, <1>15, Zenon
  <1>16. ASSUME outcome' = "error"
         PROVE  Inv'
    BY <1>1, <1>2, <1>16, VerdictsFrame, Frame DEF Order, Inv
  <1>17. ASSUME Len(rows) = Len(q.response), expectedParse,
                found' = found \cup RowErrors(q.response, rows),
                queries' = Tail(queries), outcome' = outcome
         PROVE  Inv'
    BY <1>6, <1>7, <1>12, <1>14, <1>17, RowsVerdict, Zenon DEF RowErrors, DbError
  <1>18. \/ /\ Len(rows) # Len(q.response) /\ found' = found \cup {DbError(m)}
            /\ queries' = Tail(queries) /\ outcome' = outcome
         \/ outcome' = "error"
         \/ /\ Len(rows) = Len(q.response) /\ expectedParse
            /\ found' = found \cup RowErrors(q.response, rows)
            /\ queries' = Tail(queries) /\ outcome' = outcome
    BY Zenon DEF RunQuery, q, DbError
  <1> QED BY Zenon, <1>15, <1>16, <1>17, <1>18

-----------------------------------------------------------------------------
(* The invariant holds.                                                    *)

LEMMA InitInv == Init => Inv
  <1> SUFFICES ASSUME Init PROVE Inv
    OBVIOUS
  <1> DEFINE def == in.def
  <1>1. /\ in \in Inputs /\ test = [def EXCEPT !.checks = MakeChecks(def)]
        /\ found = {} /\ errors = {} /\ dbResult = <<>> /\ outcome = "running"
    BY DEF Init
  <1>2. /\ in.entry \in {"main", "RunWithTesting", "RunWithMultiDb"} /\ in.hasDb \in BOOLEAN
        /\ DOMAIN def = {"transport", "responses", "headers", "query", "dbResponse",
                         "checks", "cases", "ignoreOrder"}
        /\ def.transport \in {"http", "grpc"}
        /\ def.checks \in Seq(DbCheck)
        /\ def.query \in Words /\ def.dbResponse \in Seq(Text) \cup {Nil}
    BY <1>1, CheckersAssumption
  <1> HIDE DEF def
  <1>3. MakeChecks(def) \in Seq(DbCheck)
    <2>1. CASE ~def.cases
      BY <1>2, <2>1, Zenon DEF MakeChecks
    <2>2. CASE def.cases
      <3> DEFINE n == Len(def.checks)
                 made(i) == [db |-> "", query |-> def.checks[i].query,
                             response |-> IF def.checks[i].response = <<>> THEN Nil
                                          ELSE def.checks[i].response]
      <3>1. n \in Nat /\ DOMAIN def.checks = 1..n /\ \A i \in 1..n : def.checks[i] \in DbCheck
        BY <1>2, SeqFacts, Zenon
      <3>2. MakeChecks(def) = [i \in 1..n |-> made(i)]
        BY <2>2, <3>1 DEF MakeChecks
      <3>3. \A i \in 1..n : made(i) \in DbCheck
        BY <3>1, CheckersAssumption, Zenon DEF DbCheck
      <3> HIDE DEF made, n
      <3> QED BY <3>1, <3>2, <3>3
    <2> QED BY <2>1, <2>2, Zenon
  <1>4. /\ test.transport = def.transport /\ test.checks = MakeChecks(def)
        /\ test.query = def.query /\ test.dbResponse = def.dbResponse
    BY <1>1, <1>2
  <1>5. OwnCheck \in DbCheck
    BY <1>2, <1>4, CheckersAssumption, Zenon DEF OwnCheck, DbCheck
  <1>6. checkers = CASE in.entry = "main" -> addCheckersMain
                     [] in.entry = "RunWithTesting" -> addCheckersTesting
                     [] in.entry = "RunWithMultiDb" -> addCheckersMultiDb
    BY Zenon DEF Init
  <1>7. /\ checkers \in Seq(Name)
        /\ \A i, j \in DOMAIN checkers :
              checkers[i] \in DbStage /\ checkers[j] \in DbStage => i = j
        /\ "body" \in Left /\ "queries" \notin Left
        /\ in.entry = "RunWithTesting" => "grpc" \in Left /\ "header" \in Left
        /\ "db" \in Left => in.entry # "RunWithMultiDb" /\ in.hasDb
        /\ "multidb" \in Left => in.entry = "RunWithMultiDb"
        /\ HasQueries => "db" \in Left \/ "multidb" \in Left
    <2>1. CASE in.entry = "main" /\ in.hasDb
      BY <1>6, <2>1 DEF addCheckersMain, Name, Left, DbStage, HasQueries
    <2>2. CASE in.entry = "main" /\ ~in.hasDb
      BY <1>6, <2>2 DEF addCheckersMain, Name, Left, DbStage, HasQueries
    <2>3. CASE in.entry = "RunWithTesting" /\ in.hasDb
      BY <1>6, <2>3 DEF addCheckersTesting, Name, Left, DbStage, HasQueries
    <2>4. CASE in.entry = "RunWithTesting" /\ ~in.hasDb
      BY <1>6, <2>4 DEF addCheckersTesting, Name, Left, DbStage, HasQueries
    <2>5. CASE in.entry = "RunWithMultiDb"
      BY <1>6, <2>5 DEF addCheckersMultiDb, Name, Left, DbStage, HasQueries
    <2> QED BY <1>2, <2>1, <2>2, <2>3, <2>4, <2>5
  <1>8. TypeOK
    BY <1>2, <1>3, <1>4, <1>5, <1>7 DEF TypeOK
  <1>9. Order
    BY <1>1, <1>7 DEF Order
  <1>10. Verdicts
    BY <1>1, <1>7 DEF Verdicts
  <1>11. Progress  BY <1>1, <1>7 DEF DbStage, DbErrors, Progress
  <1> QED BY <1>8, <1>9, <1>10, <1>11 DEF Inv

LEMMA NextInv == Inv /\ [Next]_vars => Inv'
  <1> SUFFICES ASSUME Inv, [Next]_vars PROVE Inv'
    BY Zenon
  <1>1. CASE Finish
    BY <1>1, VerdictsFrame, Frame, ProgressFrame, Zenon DEF Finish, Inv, Order, DbErrors
  <1>2. CASE UNCHANGED vars
    BY <1>2, VerdictsFrame, Frame, ProgressFrame DEF vars, Inv, Order, DbErrors
  <1>3. CASE RefuseQuery
    BY <1>3, AbortInv DEF RefuseQuery
  <1> QED BY Zenon, <1>1, <1>2, <1>3, CheckBodyInv, CheckGrpcInv, CheckHeaderInv,
             StartQueriesInv, SkipQueryInv, RunQueryInv, EndQueriesInv DEF Next

LEMMA InvAlways == Spec => []Inv
  BY InitInv, NextInv, PTL DEF Spec

-----------------------------------------------------------------------------
(* The results.                                                            *)

\* When the result is returned all checkers have run.
LEMMA AtEnd ==
    ASSUME Inv, outcome = "done"
    PROVE  /\ Left = {} /\ TypeOK /\ Verdicts /\ Progress /\ StatedTyped
           /\ ~HasQueries => dbResult = <<>> /\ DbErrors = {}
           /\ HasQueries => /\ Len(dbResult) = Cardinality(Asked)
                            /\ \A k \in Asked : dbResult[Position(k)].query = Stated[k].query
                            /\ {e.at : e \in DbErrors}
                                  = {Position(k) - 1 : k \in {k \in Asked : ~RowsMet(k)}}
  <1>1. TypeOK /\ Order /\ Verdicts /\ Progress /\ StatedTyped
    BY StatedType DEF Inv
  <1>2. checkers = <<>>
    BY <1>1, Zenon DEF Order
  <1>3. Left = {}
    BY <1>2 DEF Left
  <1>4. ~HasQueries => dbResult = <<>> /\ DbErrors = {}
    BY <1>1 DEF Progress
  <1>5. ASSUME HasQueries
        PROVE  /\ Len(dbResult) = Cardinality(Asked)
               /\ \A k \in Asked : dbResult[Position(k)].query = Stated[k].query
               /\ {e.at : e \in DbErrors}
                     = {Position(k) - 1 : k \in {k \in Asked : ~RowsMet(k)}}
    <2>1. Answered(Len(Stated)) /\ {e.at : e \in DbErrors} = Failed(Len(Stated))
      BY <1>1, <1>3, <1>5, Zenon DEF Progress
    <2>2. \A k \in Asked : k <= Len(Stated)
      BY <1>1, AskedBelow
    <2>3. Position(Len(Stated)) = Cardinality(Asked)
      BY <1>1, PositionOf, Zenon
    <2>4. {k \in Asked : k <= Len(Stated) /\ ~RowsMet(k)} = {k \in Asked : ~RowsMet(k)}
      BY <2>2
    <2> QED BY <2>1, <2>2, <2>3, <2>4 DEF Answered, Failed
  <1> QED BY <1>1, <1>3, <1>4, <1>5, Zenon

\* A query fails exactly when there is an error of the database.
LEMMA DbVerdict ==
    ASSUME Inv, outcome = "done", HasQueries
    PROVE  DbErrors = {} <=> \A k \in Asked : RowsMet(k)
  <1> DEFINE bad == {k \in Asked : ~RowsMet(k)}
  <1>1. {e.at : e \in DbErrors} = {Position(k) - 1 : k \in bad}
    BY AtEnd, Zenon
  <1>2. bad = {} <=> \A k \in Asked : RowsMet(k)
    OBVIOUS
  <1> HIDE DEF bad
  <1>3. DbErrors = {} <=> bad = {}
    BY <1>1, Zenon
  <1> QED BY <1>2, <1>3, Zenon

\* Whatever a test states and whatever the service and the database answer: a result
\* that executeTest returns without errors has the status and the body the test expects
\* and, at the entry point with all checkers, its headers and the rows of its queries.
THEOREM PassesAreMet == Spec => []PassMeansMet
  <1>1. Inv => PassMeansMet
    BY AtEnd, DbVerdict, Zenon DEF PassMeansMet, TypeOK, Verdicts, HasQueries, DbErrors,
      QueriesMet
  <1> QED BY <1>1, InvAlways, PTL

\* No checker, at any entry point, reports an error about a result that meets all the
\* test expects.
THEOREM MetPasses == Spec => []NoFalseAlarm
  <1>1. Inv => NoFalseAlarm
    BY AtEnd, DbVerdict DEF NoFalseAlarm, QueriesMet, Verdicts, DbErrors
  <1> QED BY <1>1, InvAlways, PTL

\* The identifiers of database errors are the indices in DatabaseResult of exactly the
\* queries that failed, whatever checks are skipped on the way.
THEOREM IdentifiersPointAtQueries == Spec => []ErrorsPointAtQuery
  <1>1. Inv => ErrorsPointAtQuery
    <2> SUFFICES ASSUME Inv, outcome = "done", dbResult # <<>>
                 PROVE  /\ Len(dbResult) = Cardinality(Asked)
                        /\ \A k \in Asked : dbResult[Position(k)].query = Stated[k].query
                        /\ {e.at : e \in {e \in errors : e.kind = "database"}}
                              = {Position(k) - 1 : k \in {k \in Asked : ~RowsMet(k)}}
      BY Zenon DEF ErrorsPointAtQuery
    <2>1. HasQueries
      BY AtEnd, Zenon
    <2> QED BY Zenon, <2>1, AtEnd DEF DbErrors
  <1> QED BY <1>1, InvAlways, PTL
=============================================================================
