------------------------------ MODULE Compare ------------------------------
(***************************************************************************)
(* compare/compare.go and compare/compare_query.go: the comparison of an   *)
(* expected value with an actual one, used by the checkers and by the      *)
(* constraints of the mocks, against a definition of what matches.         *)
(*                                                                         *)
(* A value is a scalar [t, v] of type t, an array [t, items] or a map      *)
(* [t, fields].  An expected value may also be a pattern: a $matchRegexp   *)
(* with the set of scalars it accepts (none when it does not compile), or  *)
(* a $matchArrayLen with the parts of its text, a part being a key and a   *)
(* number; a part without a key has the key "", and a number that is       *)
(* negative or no number is -1.  An error is its kind.                     *)
(***************************************************************************)
EXTENDS Integers, Sequences, FiniteSets, SequencesExt

CONSTANTS Inputs,      \* the calls: [op, exp, act, par]
          MaxInt

VARIABLES call, out
vars == <<call, out>>

Pending == <<"pending">>

Scalar(a) == a.t \notin {"array", "map"}

(* One key=value part of a $matchArrayLen. *)
Part(r, x) ==
    IF ~r.ok \/ x.key \notin {"min", "max"} \/ x.n < 0 \/ x.key \in r.seen
    THEN [r EXCEPT !.ok = FALSE]
    ELSE [ok |-> TRUE, seen |-> r.seen \union {x.key},
          min |-> IF x.key = "min" THEN x.n ELSE r.min,
          max |-> IF x.key = "max" THEN x.n ELSE r.max]

Invalid == [ok |-> FALSE, seen |-> {}, min |-> 0, max |-> 0]
Unbounded == [ok |-> TRUE, seen |-> {}, min |-> 0, max |-> MaxInt]

\* Mutant of parseArrayLenSpec: equal bounds are rejected.
parseArrayLenSpecStrict(parts) ==
    LET r == FoldLeft(Part, Unbounded, parts) IN
    IF parts # <<>> /\ r.ok /\ r.min < r.max THEN r ELSE Invalid

parseArrayLenSpec(parts) ==
    IF parts = <<>> THEN Invalid
    ELSE IF Len(parts) = 1 /\ parts[1].key = ""
    THEN IF parts[1].n < 0 THEN Invalid
         ELSE [Unbounded EXCEPT !.min = parts[1].n, !.max = parts[1].n]
    ELSE LET r == FoldLeft(Part, Unbounded, parts) IN
         IF r.ok /\ r.min <= r.max THEN r ELSE Invalid

compareArrayLen(parts, a) ==
    LET r == parseArrayLenSpec(parts) IN
    IF ~r.ok THEN <<"invalid spec">>
    ELSE IF a.t # "array" THEN <<"no array">>
    ELSE IF Len(a.items) \in r.min..r.max THEN <<>> ELSE <<"length">>

Accepts(e, a) == IF e.t = "regex" THEN a \in e.accepts ELSE e = a

compareLeafs(e, a) == IF Accepts(e, a) THEN <<>> ELSE <<"value">>

(* The last element takes the place of the one removed. *)
Removed(s, i) ==
    [k \in 1..(Len(s) - 1) |-> IF k = i THEN s[Len(s)] ELSE s[k]]

Least(S) == CHOOSE i \in S : \A j \in S : i <= j

RECURSIVE compareBranch(_, _, _), Children(_, _, _), Keys(_, _, _, _),
          Unmatched(_, _, _, _)

(* The loop over the elements; an index out of range panics. *)
Children(es, as, p) ==
    IF es = <<>> THEN <<>>
    ELSE IF as = <<>> THEN <<"panic">>
    ELSE LET r == compareBranch(Head(es), Head(as), p) IN
         IF p.failFast /\ r # <<>> THEN r
         ELSE r \o Children(Tail(es), Tail(as), p)

(* The loop over the keys, which Go visits in any order. *)
Keys(ks, e, a, p) ==
    IF ks = {} THEN <<>>
    ELSE LET k == CHOOSE k \in ks : TRUE
             r == IF k \in DOMAIN a.fields
                  THEN compareBranch(e.fields[k], a.fields[k], p)
                  ELSE <<"key">> IN
         IF p.failFast /\ r # <<>> THEN r ELSE r \o Keys(ks \ {k}, e, a, p)

\* Mutant of Unmatched: a matched element stays available.
UnmatchedKeeps(es, as, p, un) ==
    IF es = <<>> THEN <<un, as>>
    ELSE IF \E i \in DOMAIN as : compareBranch(Head(es), as[i], p) = <<>>
    THEN Unmatched(Tail(es), as, p, un)
    ELSE Unmatched(Tail(es), as, p, Append(un, Head(es)))

(* getUnmatchedArrays: each expected element takes the first actual element *)
(* that matches.  When a comparison panics no actual element is left.       *)
Unmatched(es, as, p, un) ==
    IF es = <<>> THEN <<un, as>>
    ELSE LET r == [i \in DOMAIN as |->
                      compareBranch(Head(es), as[i], [p EXCEPT !.failFast = TRUE])]
             ends == {i \in DOMAIN as : r[i] = <<>> \/ "panic" \in Range(r[i])} IN
         IF ends # {}
         THEN IF r[Least(ends)] = <<>>
              THEN Unmatched(Tail(es), Removed(as, Least(ends)), p, un)
              ELSE <<es, <<>>>>
         ELSE IF p.failFast THEN <<Append(un, Head(es)), SubSeq(as, 1, 1)>>
         ELSE Unmatched(Tail(es), as, p, Append(un, Head(es)))

(* The text of a regular expression has a length, but as an array it has    *)
(* other elements than any JSON array, and it has no keys.                  *)
compareArrays(e, a, p) ==
    IF e.t = "regex" \/ Len(e.items) # Len(a.items) THEN <<"length">>
    ELSE LET u == IF p.ignoreOrder THEN Unmatched(e.items, a.items, p, <<>>)
                  ELSE <<e.items, a.items>> IN
         Children(u[1], u[2], p)

compareMaps(e, a, p) ==
    IF e.t = "regex" THEN IF p.disallowExtra THEN <<"length">> ELSE <<"panic">>
    ELSE IF /\ p.disallowExtra
            /\ Cardinality(DOMAIN e.fields) # Cardinality(DOMAIN a.fields)
    THEN <<"length">>
    ELSE Keys(DOMAIN e.fields, e, a, p)

compareBranch(e, a, p) ==
    IF e.t = "len" THEN compareArrayLen(e.parts, a)
    ELSE IF e.t # "regex" /\ e.t # a.t THEN <<"types">>
    ELSE IF Scalar(a) THEN IF p.ignoreValues THEN <<>> ELSE compareLeafs(e, a)
    ELSE IF a.t = "array" THEN compareArrays(e, a, p)
    ELSE compareMaps(e, a, p)

RECURSIVE QueryLoop(_, _)

(* The first expected value, and for it the first actual value, that match. *)
QueryLoop(es, as) ==
    IF es = <<>> THEN <<>>
    ELSE LET is == {i \in DOMAIN es : \E j \in DOMAIN as : Accepts(es[i], as[j])}
             i == Least(is)
             j == Least({k \in DOMAIN as : Accepts(es[i], as[k])}) IN
         IF is = {} THEN <<"query">>
         ELSE QueryLoop(Removed(es, i), Removed(as, j))

\* Mutant of Query: the lengths are not compared.
QueryUnchecked(es, as) == QueryLoop(es, as)

Query(es, as) ==
    IF Len(es) # Len(as) THEN <<"length">> ELSE QueryLoop(es, as)

Init == call \in Inputs /\ out = Pending

DoCompare ==
    /\ call.op = "Compare" /\ out = Pending
    /\ out' = compareBranch(call.exp, call.act, call.par)
    /\ UNCHANGED call

DoQuery ==
    /\ call.op = "Query" /\ out = Pending
    /\ out' = Query(call.exp.items, call.act.items)
    /\ UNCHANGED call

Next == DoCompare \/ DoQuery

Spec == Init /\ [][Next]_vars

-----------------------------------------------------------------------------
(* What matches. *)

(* A length satisfies a well-formed and satisfiable specification. *)
Satisfies(n, parts) ==
    \A i \in DOMAIN parts :
        CASE parts[i].key = "min" -> n >= parts[i].n
          [] parts[i].key = "max" -> n <= parts[i].n
          [] OTHER -> n = parts[i].n
WellFormed(parts) ==
    /\ parts # <<>>
    /\ \A i \in DOMAIN parts : parts[i].n >= 0
    /\ \/ Len(parts) = 1 /\ parts[1].key = ""
       \/ \A i, j \in DOMAIN parts : /\ parts[i].key \in {"min", "max"}
                                     /\ parts[i].key = parts[j].key => i = j
    /\ \E n \in 0..MaxInt : Satisfies(n, parts)

Bijections(n) ==
    {f \in [1..n -> 1..n] : \A i, j \in 1..n : f[i] = f[j] => i = j}

RECURSIVE Matches(_, _, _)
Matches(e, a, p) ==
    CASE e.t = "len" ->
            a.t = "array" /\ WellFormed(e.parts) /\ Satisfies(Len(a.items), e.parts)
      [] e.t = "regex" -> Scalar(a) /\ (p.ignoreValues \/ a \in e.accepts)
      [] e.t = "array" ->
            /\ a.t = "array" /\ Len(e.items) = Len(a.items)
            /\ \E f \in IF p.ignoreOrder THEN Bijections(Len(e.items))
                        ELSE {[i \in 1..Len(e.items) |-> i]} :
                  \A i \in DOMAIN e.items : Matches(e.items[i], a.items[f[i]], p)
      [] e.t = "map" ->
            /\ a.t = "map" /\ DOMAIN e.fields \subseteq DOMAIN a.fields
            /\ p.disallowExtra => DOMAIN e.fields = DOMAIN a.fields
            /\ \A k \in DOMAIN e.fields : Matches(e.fields[k], a.fields[k], p)
      [] OTHER -> e.t = a.t /\ (p.ignoreValues \/ e = a)

(* A value without patterns, and without maps that may match larger ones. *)
RECURSIVE Rigid(_, _)
Rigid(e, p) ==
    CASE e.t \in {"len", "regex"} -> FALSE
      [] e.t = "array" -> \A i \in DOMAIN e.items : Rigid(e.items[i], p)
      [] e.t = "map" -> /\ p.disallowExtra
                        /\ \A k \in DOMAIN e.fields : Rigid(e.fields[k], p)
      [] OTHER -> TRUE

(* The query values can be paired one to one. *)
Paired(es, as) ==
    /\ Len(es) = Len(as)
    /\ \E f \in Bijections(Len(es)) : \A i \in DOMAIN es : Accepts(es[i], as[f[i]])

(* Compare finds no error only when the values match: the elements of      *)
(* unordered arrays are paired one to one, at every depth, although the    *)
(* search for pairs uses fail-fast comparisons and removes by swapping.    *)
(* Query accepts only values that can be paired.                           *)
NoErrorMeansMatch ==
    out = <<>> =>
        IF call.op = "Compare" THEN Matches(call.exp, call.act, call.par)
                               ELSE Paired(call.exp.items, call.act.items)

(* Compare finds no error when the values match, provided that order       *)
(* counts or the expected value is rigid.  Otherwise the greedy search of  *)
(* getUnmatchedArrays may give a general element the partner a special one *)
(* needs.  So it is with Query, when no expected value is a pattern.       *)
MatchIsFound ==
    out # Pending =>
        IF call.op = "Compare"
        THEN /\ ~call.par.ignoreOrder \/ Rigid(call.exp, call.par)
             /\ Matches(call.exp, call.act, call.par)
             => out = <<>>
        ELSE /\ \A i \in DOMAIN call.exp.items : call.exp.items[i].t # "regex"
             /\ Paired(call.exp.items, call.act.items)
             => out = <<>>
=============================================================================
