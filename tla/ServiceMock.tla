---------------------------- MODULE ServiceMock ----------------------------
(***************************************************************************)
(* The HTTP mock servers (mocks/) and the part of the runner that drives   *)
(* them (runner.setupMocks, runner.executeTest).                           *)
(*                                                                         *)
(* Every service has a ServiceMock: a mounted definition tree, a list of   *)
(* errors and one lock.  The service under test calls the mocks whenever   *)
(* it likes: while it answers the runner's request, after it has answered, *)
(* or in the middle of the set-up of the next test.  ServeHTTP holds the   *)
(* service's lock while it walks down the definition tree; the walk is one *)
(* action per visited definition (the Go code recurses in tail position,   *)
(* so a cursor into the tree is enough).  Error lists are sets: the code   *)
(* never relies on their order, and one "constraint" error stands for all  *)
(* that the constraints of one definition find in one request.             *)
(***************************************************************************)
EXTENDS Integers, Sequences, FiniteSets

CONSTANTS
    Service,      \* names of the registered mock services
    Def,          \* all definitions: the nodes of all definition trees
    Request,      \* the requests the properties tell apart
    Tree,         \* Tree[d]: the static part of definition d
    Default,      \* Default[s]: the root given to NewServiceMock
    NTests,       \* tests 1..NTests are run, in this order
    Mocks,        \* Mocks[t]: the "mocks" section of t, a function service -> root
    Malformed,    \* roots that loader.loadDefinition rejects
    MaxRequests   \* bound: requests the service under test sends to the mocks

Leaf   == {"constant", "template", "dropRequest", "fail", "nop", "nil"}
Branch == {"uriVary", "methodVary", "sequence", "basedOnRequest"}

\* A definition: kind of reply strategy, nested definitions in source order,
\* requests selecting it among its siblings (by URI or method), requests
\* violating one of its constraints, requests its template cannot render,
\* `calls` (-1 is CallsNoConstraint), and the root of its tree.
Node == [kind : Leaf \cup Branch, kids : Seq(Def), picks : SUBSET Request,
         violates : SUBSET Request, unrenderable : SUBSET Request,
         calls : Nat \cup {-1}, root : Def]

Roots(s) == {Default[s]} \cup {Mocks[t][s] : t \in {u \in 1..NTests : s \in DOMAIN Mocks[u]}}

ASSUME ConstAssumption ==
    /\ Tree \in [Def -> Node]
    /\ Default \in [Service -> Def]
    /\ NTests \in Nat /\ MaxRequests \in Nat
    /\ IsFiniteSet(Def) /\ IsFiniteSet(Service) /\ Malformed \subseteq Def
    /\ DOMAIN Mocks = 1..NTests
    /\ Service # {} /\ Request # {}

\* Definitions form trees: a nested definition has one parent, one position in
\* it and the same root; a root is nobody's child; services share no definition.
ASSUME TreeAssumption ==
    /\ \A d \in Def : \A i \in DOMAIN Tree[d].kids :
          /\ Tree[Tree[d].kids[i]].root = Tree[d].root
          /\ Tree[d].kids[i] \notin {d, Tree[d].root}
    /\ \A d, e \in Def : \A i \in DOMAIN Tree[d].kids : \A j \in DOMAIN Tree[e].kids :
          Tree[d].kids[i] = Tree[e].kids[j] => d = e /\ i = j
    /\ \A t \in 1..NTests : \A s \in DOMAIN Mocks[t] \cap Service : Mocks[t][s] \in Def
    /\ \A s \in Service : \A r \in Roots(s) : Tree[r].root = r
    /\ \A s, u \in Service : s # u => Roots(s) \cap Roots(u) = {}
    /\ \A s \in Service : \A t \in 1..NTests :
          s \in DOMAIN Mocks[t] => Mocks[t][s] # Default[s]

VARIABLES
    mock,     \* mock[s]: root of the mounted definition tree (ServiceMock.mock)
    calls,    \* calls[d]: Definition.calls
    count,    \* count[d]: sequentialReply.count
    errors,   \* errors[s]: ServiceMock.errors
    cur,      \* cur[s]: the request that holds the lock of s; id 0: lock free
    nreq,     \* requests accepted so far
    reply,    \* reply[i]: how request i was answered
    pc,       \* where the runner is
    test,     \* the test being run
    todo,     \* services the runner's current loop has still to visit
    taken,    \* the slice ServiceMock.EndRunningContext returned, not yet copied
    result,   \* mock errors in the result of the current test
    log       \* history: the visits since the running context of s was reset

mockVars   == <<mock, calls, count, errors>>
serveVars  == <<cur, nreq, reply>>
runnerVars == <<pc, test, todo, taken, result>>
vars       == <<mockVars, serveVars, runnerVars, log>>

\* `stamp` is the test that was current when the request was accepted.
Error == [kind : {"constraint", "unhandled", "template", "undefined", "calls"},
          svc : Service, def : Def, id : 0..MaxRequests, stamp : 0..NTests]

\* `late`: the visit came after the running context of svc was ended.
Visit == [id : 1..MaxRequests, svc : Service, def : Def, req : Request,
          verify : BOOLEAN, late : BOOLEAN]

NoSlice == [svc |-> CHOOSE s \in Service : TRUE, served |-> {}, mismatch |-> {}]
Free(s) == [id |-> 0, req |-> CHOOSE r \in Request : TRUE, at |-> Default[s],
            verify |-> TRUE, errs |-> {}, stamp |-> 0]

SubTree(root) == {d \in Def : Tree[d].root = root}

Init ==
    /\ mock = Default
    /\ calls = [d \in Def |-> 0]
    /\ count = [d \in Def |-> 0]
    /\ errors = [s \in Service |-> {}]
    /\ cur = [s \in Service |-> Free(s)]
    /\ nreq = 0
    /\ reply = [i \in 1..MaxRequests |-> "none"]
    /\ pc = "idle" /\ test = 0 /\ todo = {} /\ taken = NoSlice /\ result = {}
    /\ log = {}

-----------------------------------------------------------------------------
(* Serving a request: ServiceMock.ServeHTTP and what it calls.             *)

LockFree(s) == cur[s].id = 0

\* ServeHTTP takes the lock and calls mock.Execute.
Accept(s, r) ==
    /\ LockFree(s) /\ nreq < MaxRequests
    /\ nreq' = nreq + 1
    /\ cur' = [cur EXCEPT ![s] = [id |-> nreq + 1, req |-> r, at |-> mock[s],
                                  verify |-> TRUE, errs |-> {}, stamp |-> test]]
    /\ UNCHANGED <<mockVars, reply, runnerVars, log>>

ErrorAt(s, kind, d) ==
    [kind |-> kind, svc |-> s, def |-> d, id |-> cur[s].id, stamp |-> cur[s].stamp]

\* Verify of one of the constraints of d (method, path, query, header, body) finds
\* the request at fault.
Violates(s, d) == cur[s].req \in Tree[d].violates

\* Errors known once the definition under the cursor has checked its constraints;
\* ExecuteWithoutVerifying checks none.
Verified(s) ==
    LET d == cur[s].at IN
    cur[s].errs \cup
        IF cur[s].verify /\ Violates(s, d)
        THEN {ErrorAt(s, "constraint", d)} ELSE {}

Ended(s) == pc \in {"end", "collect", "verdict", "idle"} /\ s \notin todo

\* Mutant of CountCall: ExecuteWithoutVerifying does not count.
CountCallVerifiedOnly(s) ==
    /\ ~LockFree(s)
    /\ calls' = [calls EXCEPT ![cur[s].at] = IF cur[s].verify THEN @ + 1 ELSE @]
    /\ log' = log \cup {[id |-> cur[s].id, svc |-> s, def |-> cur[s].at,
                         req |-> cur[s].req, verify |-> cur[s].verify,
                         late |-> Ended(s)]}

\* The common start of Execute and ExecuteWithoutVerifying.
CountCall(s) ==
    /\ ~LockFree(s)
    /\ calls' = [calls EXCEPT ![cur[s].at] = @ + 1]
    /\ log' = log \cup {[id |-> cur[s].id, svc |-> s, def |-> cur[s].at,
                         req |-> cur[s].req, verify |-> cur[s].verify,
                         late |-> Ended(s)]}

\* An element that may stand for several errors.
Repeats(errs) == \E e \in errs : e.kind = "constraint"

\* EndRunningContext appends the call mismatches to the slice m.errors.  When that
\* slice has spare capacity (never below three errors) the returned slice shares
\* it, and a request that ends before Mocks.EndRunningContext has copied the
\* returned slice overwrites mismatches with its own errors, one by one until either
\* are used up.
Overwrite(s, errs) ==
    \/ taken' = taken
    \/ /\ pc = "collect" /\ taken.svc = s
       /\ Cardinality(taken.served) >= 3 \/ Repeats(taken.served)
       /\ \E lost \in SUBSET taken.mismatch, got \in SUBSET errs :
             /\ lost # {} /\ got # {}
             /\ \/ Cardinality(lost) = Cardinality(got)
                \/ Cardinality(lost) > Cardinality(got) /\ Repeats(got)
             /\ lost = taken.mismatch \/ got = errs
             /\ taken' = [taken EXCEPT !.mismatch = (@ \ lost) \cup got]

\* The strategy answers; ServeHTTP appends the errors and releases the lock.
Return(s, errs, why) ==
    /\ errors' = [errors EXCEPT ![s] = @ \cup errs]
    /\ cur' = [cur EXCEPT ![s] = Free(s)]
    /\ reply' = [reply EXCEPT ![cur[s].id] = why]
    /\ Overwrite(s, errs)
    /\ UNCHANGED <<mock, nreq, pc, test, todo, result>>

\* The strategy hands the request to nested definition d.
Descend(s, d, verify, errs) ==
    /\ cur' = [cur EXCEPT ![s] = [@ EXCEPT !.at = d, !.verify = verify, !.errs = errs]]
    /\ UNCHANGED <<mock, errors, nreq, reply, runnerVars>>

Unhandled(s, more, why) ==
    Return(s, Verified(s) \cup more \cup {ErrorAt(s, "unhandled", cur[s].at)}, why)

\* The body template can be executed on the request: query and JSON fields exist.
Renders(s, d) == cur[s].req \notin Tree[d].unrenderable

\* constantReply (and file replies), nopReply, dropRequestReply, failReply,
\* templateReply, and a definition without strategy.
ReplyLeaf(s) ==
    LET d == cur[s].at
        n == Tree[d]
    IN  /\ CountCall(s)
        /\ UNCHANGED count
        /\ \/ /\ n.kind \in {"constant", "nop"}
              /\ Return(s, Verified(s), "answered")
           \/ /\ n.kind = "dropRequest"
              /\ Return(s, Verified(s), "dropped")
           \/ /\ n.kind = "fail"
              /\ Unhandled(s, {}, "unhandled")
           \/ /\ n.kind = "template" /\ Renders(s, d)
              /\ Return(s, Verified(s), "answered")
           \/ /\ n.kind = "template" /\ ~Renders(s, d)
              /\ Return(s, Verified(s) \cup {ErrorAt(s, "template", d)}, "unrendered")
           \/ /\ n.kind = "nil"
              /\ Return(s, Verified(s) \cup IF cur[s].verify THEN {}
                                            ELSE {ErrorAt(s, "undefined", d)},
                        IF cur[s].verify THEN "answered" ELSE "undefined")

\* uriVaryReply and methodVaryReply range over a map: when two keys match (URIs
\* equal up to leading slashes, methods equal up to case) either may be taken.
ReplyVary(s) ==
    LET n     == Tree[cur[s].at]
        match == {i \in DOMAIN n.kids : cur[s].req \in Tree[n.kids[i]].picks}
    IN  /\ CountCall(s)
        /\ UNCHANGED count
        /\ n.kind \in {"uriVary", "methodVary"}
        /\ \/ match = {} /\ Unhandled(s, {}, "unhandled")
           \/ \E i \in match : Descend(s, n.kids[i], TRUE, Verified(s))

\* Mutant of ReplySequence: the counter does not advance.
ReplySequenceFromStart(s) ==
    LET d == cur[s].at
        n == Tree[d]
    IN  /\ CountCall(s)
        /\ n.kind = "sequence"
        /\ \/ /\ count[d] >= Len(n.kids)
              /\ UNCHANGED count
              /\ Unhandled(s, {}, "exhausted")
           \/ /\ count[d] < Len(n.kids)
              /\ UNCHANGED count
              /\ Descend(s, n.kids[count[d] + 1], TRUE, Verified(s))

\* sequentialReply: the next nested definition, an error past the last one.
ReplySequence(s) ==
    LET d == cur[s].at
        n == Tree[d]
    IN  /\ CountCall(s)
        /\ n.kind = "sequence"
        /\ \/ /\ count[d] >= Len(n.kids)
              /\ UNCHANGED count
              /\ Unhandled(s, {}, "exhausted")
           \/ /\ count[d] < Len(n.kids)
              /\ count' = [count EXCEPT ![d] = @ + 1]
              /\ Descend(s, n.kids[count[d] + 1], TRUE, Verified(s))

\* basedOnRequestReply: the first variant whose constraints all hold.
ReplyBasedOnRequest(s) ==
    LET n    == Tree[cur[s].at]
        fits == {i \in DOMAIN n.kids : ~Violates(s, n.kids[i])}
    IN  /\ CountCall(s)
        /\ UNCHANGED count
        /\ n.kind = "basedOnRequest"
        /\ \/ /\ fits = {}
              /\ Unhandled(s, {ErrorAt(s, "constraint", n.kids[i]) : i \in DOMAIN n.kids},
                           "unhandled")
           \/ \E i \in fits : /\ \A j \in fits : i <= j
                              /\ Descend(s, n.kids[i], FALSE, Verified(s))

Serve(s) == ReplyLeaf(s) \/ ReplyVary(s) \/ ReplySequence(s) \/ ReplyBasedOnRequest(s)

-----------------------------------------------------------------------------
(* The runner: executeTest, from setupMocks to the end of the test.        *)

\* One iteration, for service s, of a loop over a map of services.
Iterate(s, here, next, nextTodo) ==
    /\ pc = here /\ s \in todo
    /\ IF todo = {s} THEN pc' = next /\ todo' = nextTodo
                     ELSE pc' = pc /\ todo' = todo \ {s}

BeginTest ==
    /\ pc = "idle" /\ test < NTests
    /\ test' = test + 1 /\ pc' = "resetDefs" /\ todo' = Service /\ result' = {}
    /\ UNCHANGED <<mockVars, serveVars, taken, log>>

\* Mutant of ResetDefinition: the mounted definition stays.
ResetDefinitionKeepsLast(s) ==
    /\ Iterate(s, "resetDefs", "resetCtx", Service)
    /\ LockFree(s)
    /\ UNCHANGED <<mockVars, serveVars, test, taken, result, log>>

\* Mocks.ResetDefinitions
ResetDefinition(s) ==
    /\ Iterate(s, "resetDefs", "resetCtx", Service)
    /\ LockFree(s)
    /\ mock' = [mock EXCEPT ![s] = Default[s]]
    /\ UNCHANGED <<calls, count, errors, serveVars, test, taken, result, log>>

Zeroed(f, ds) == [d \in Def |-> IF d \in ds THEN 0 ELSE f[d]]

\* Mutant of ResetRunningContext: the errors stay.
ResetRunningContextKeepsErrors(s) ==
    /\ Iterate(s, "resetCtx", IF DOMAIN Mocks[test] = {} THEN "request" ELSE "load",
               DOMAIN Mocks[test])
    /\ LockFree(s)
    /\ calls' = Zeroed(calls, SubTree(mock[s]))
    /\ count' = Zeroed(count, SubTree(mock[s]))
    /\ log' = {v \in log : v.svc # s}
    /\ UNCHANGED <<mock, errors, serveVars, test, taken, result>>

\* Mocks.ResetRunningContext: the errors, and the whole mounted tree.
ResetRunningContext(s) ==
    /\ Iterate(s, "resetCtx", IF DOMAIN Mocks[test] = {} THEN "request" ELSE "load",
               DOMAIN Mocks[test])
    /\ LockFree(s)
    /\ errors' = [errors EXCEPT ![s] = {}]
    /\ calls' = Zeroed(calls, SubTree(mock[s]))
    /\ count' = Zeroed(count, SubTree(mock[s]))
    /\ log' = {v \in log : v.svc # s}
    /\ UNCHANGED <<mock, serveVars, test, taken, result>>

\* A wrong type, a missing or unknown key, an unknown strategy or constraint, or a
\* constraint that cannot be built, anywhere in the definition.
Rejected(s) == Mocks[test][s] \in Malformed

\* Loader.Load mounts a freshly built definition tree.
LoadDefinition(s) ==
    /\ pc = "load" /\ s \in todo \cap Service /\ ~Rejected(s)
    /\ LockFree(s)
    /\ Iterate(s, "load", "request", {})
    /\ mock' = [mock EXCEPT ![s] = Mocks[test][s]]
    /\ calls' = Zeroed(calls, SubTree(Mocks[test][s]))
    /\ count' = Zeroed(count, SubTree(Mocks[test][s]))
    /\ UNCHANGED <<errors, serveVars, test, taken, result, log>>

\* Mutant of LoadError: the set-up of the mocks is tried again.
LoadErrorRetries(s) ==
    /\ pc = "load" /\ s \in todo
    /\ s \notin Service \/ Rejected(s)
    /\ pc' = "resetDefs" /\ todo' = Service
    /\ UNCHANGED <<mockVars, serveVars, test, taken, result, log>>

\* An unknown service or a bad definition: services loaded before keep theirs,
\* executeTest returns the error and the run stops.  A later run (RunWithTesting
\* may be called again with the same Mocks) goes on with the next test.
LoadError(s) ==
    /\ pc = "load" /\ s \in todo
    /\ s \notin Service \/ Rejected(s)
    /\ pc' = "idle" /\ todo' = {}
    /\ UNCHANGED <<mockVars, serveVars, test, taken, result, log>>

\* Scripts, pause and transport.Execute; the service under test has answered.
Respond ==
    /\ pc = "request"
    /\ pc' = "end" /\ todo' = Service
    /\ UNCHANGED <<mockVars, serveVars, test, taken, result, log>>

\* A script or the transport fails: the mocks keep the state they are in.
RequestError ==
    /\ pc = "request"
    /\ pc' = "idle"
    /\ UNCHANGED <<mockVars, serveVars, test, todo, taken, result, log>>

\* Mutant of Mismatches: nested definitions are not asked.
MismatchesOfRoot(s) ==
    {[kind |-> "calls", svc |-> s, def |-> d, id |-> 0, stamp |-> 0] :
        d \in {e \in {mock[s]} : Tree[e].calls # -1 /\ calls[e] # Tree[e].calls}}

\* Definition.EndRunningContext over the mounted tree.
Mismatches(s) ==
    {[kind |-> "calls", svc |-> s, def |-> d, id |-> 0, stamp |-> 0] :
        d \in {e \in SubTree(mock[s]) : Tree[e].calls # -1 /\ calls[e] # Tree[e].calls}}

\* ServiceMock.EndRunningContext, under the read lock.
EndRunningContext(s) ==
    /\ pc = "end" /\ s \in todo
    /\ LockFree(s)
    /\ pc' = "collect" /\ todo' = todo \ {s}
    /\ taken' = [svc |-> s, served |-> errors[s], mismatch |-> Mismatches(s)]
    /\ UNCHANGED <<mockVars, serveVars, test, result, log>>

\* Mutant of Collect: the errors of served requests are dropped.
CollectMismatchesOnly ==
    /\ pc = "collect"
    /\ result' = result \cup taken.mismatch
    /\ taken' = NoSlice
    /\ pc' = IF todo = {} THEN "verdict" ELSE "end"
    /\ UNCHANGED <<mockVars, serveVars, test, todo, log>>

\* Mocks.EndRunningContext copies the returned slice, the lock being released.
Collect ==
    /\ pc = "collect"
    /\ result' = result \cup taken.served \cup taken.mismatch
    /\ taken' = NoSlice
    /\ pc' = IF todo = {} THEN "verdict" ELSE "end"
    /\ UNCHANGED <<mockVars, serveVars, test, todo, log>>

\* Variables, checkers and outputs, none of which touches the mocks.
FinishTest ==
    /\ pc = "verdict"
    /\ pc' = "idle"
    /\ UNCHANGED <<mockVars, serveVars, test, todo, taken, result, log>>

RunnerStep ==
    \/ BeginTest \/ Respond \/ RequestError \/ Collect \/ FinishTest
    \/ \E s \in todo : \/ ResetDefinition(s) \/ ResetRunningContext(s)
                       \/ LoadDefinition(s) \/ LoadError(s) \/ EndRunningContext(s)

RunOver == pc = "idle" /\ test = NTests

Next ==
    \/ RunnerStep
    \/ \E s \in Service : Serve(s)
    \/ \E s \in Service, r \in Request : Accept(s, r)
    \/ RunOver /\ UNCHANGED vars

Spec == Init /\ [][Next]_vars

\* Go schedules every runnable goroutine and RWMutex starves nobody; that the
\* service under test answers is the environment's part of the bargain.
FairSpec == Spec /\ WF_vars(RunnerStep) /\ \A s \in Service : WF_vars(Serve(s))

-----------------------------------------------------------------------------
(* Properties                                                              *)

Slice  == [svc : Service, served : SUBSET Error, mismatch : SUBSET Error]
Cursor == [id : 0..MaxRequests, req : Request, at : Def, verify : BOOLEAN,
           errs : SUBSET Error, stamp : 0..NTests]
Reply  == {"none", "answered", "dropped", "unhandled", "exhausted", "unrendered",
           "undefined"}
PC     == {"idle", "resetDefs", "resetCtx", "load", "request", "end", "collect", "verdict"}

\* The state of the mock servers and of the runner has the shape the Go types give it.
TypeOK ==
    /\ mock \in [Service -> Def]
    /\ calls \in [Def -> Nat]
    /\ count \in [Def -> Nat]
    /\ errors \in [Service -> SUBSET Error]
    /\ cur \in [Service -> Cursor]
    /\ nreq \in 0..MaxRequests
    /\ reply \in [1..MaxRequests -> Reply]
    /\ pc \in PC /\ test \in 0..NTests
    /\ pc # "idle" => test \in 1..NTests
    /\ pc \in {"resetDefs", "resetCtx", "end", "collect"} => todo \subseteq Service
    /\ pc = "load" => todo \subseteq DOMAIN Mocks[test]
    /\ taken \in Slice
    /\ result \subseteq Error
    /\ log \subseteq Visit

Reaching(d) == \E s \in Service : ~LockFree(s) /\ cur[s].at = d

\* A sequence strategy hands out its nested definitions in order and each at most
\* once per running context, whatever the interleaving with resets (sequentialReply):
\* element i has been executed, or is about to be, exactly when i <= count.
SequenceInOrder ==
    \A d \in Def : Tree[d].kind = "sequence" =>
        /\ count[d] <= Len(Tree[d].kids)
        /\ \A i \in DOMAIN Tree[d].kids :
              LET e == Tree[d].kids[i] IN
              calls[e] = IF i <= count[d] /\ ~Reaching(e) THEN 1 ELSE 0

Visits(d) == {v \in log : v.def = d}

\* The counter a `calls` constraint is compared with counts exactly the requests
\* that reached the mounted definition since its running context was reset: nothing
\* survives from an earlier test, nothing is counted twice (Definition.calls).
CallsCountWindow ==
    \A s \in Service : \A d \in SubTree(mock[s]) : calls[d] = Cardinality(Visits(d))

\* From the end of setupMocks to the verdict a service runs the definition its test
\* gives it, or its default one: "prevent deriving the definition from previous test".
DefinitionsOfTheTest ==
    pc \in {"request", "end", "collect", "verdict"} =>
        \A s \in Service :
            mock[s] = IF s \in DOMAIN Mocks[test] THEN Mocks[test][s] ELSE Default[s]

\* A request that violated a constraint of a definition it was checked against,
\* before the running context of the service ended, is named in the test's result;
\* so is every such request that got no answer of a definition: nobody handled it, the
\* sequence was exhausted, the template failed, the definition has no strategy.
OffendersReported ==
    pc = "verdict" => \A v \in log : ~v.late =>
        /\ v.verify /\ v.req \in Tree[v.def].violates =>
              \E e \in result : e.id = v.id /\ e.def = v.def /\ e.kind = "constraint"
        /\ reply[v.id] \notin {"none", "answered", "dropped"} =>
              \E e \in result : e.id = v.id /\ e.kind # "constraint"

\* When the number of requests that reached a mounted definition by the end of the
\* running context differs from its `calls`, the test's result holds an error of
\* that service, even if a late request overwrites the entry of the mismatch.
MismatchFailsTest ==
    pc = "verdict" => \A s \in Service : \A d \in SubTree(mock[s]) :
        /\ Tree[d].calls # -1
        /\ Tree[d].calls # Cardinality({v \in Visits(d) : ~v.late})
        => \E e \in result : e.svc = s

\* A request error in a test's result comes from a request accepted during that
\* test: errors of earlier tests, or left by an aborted one, never carry over.
NoCarryOver ==
    \A e \in result : e.kind # "calls" => e.stamp = test

\* Each run of the tests comes to its end although requests keep arriving while
\* the runner needs the locks.
RunEnds == <>RunOver
=============================================================================
