------------------------ MODULE ServiceMock_proofs -------------------------
(***************************************************************************)
(* Proofs about the HTTP mock servers, for any set of services, any        *)
(* definition trees, any number of tests and of requests: types, the order *)
(* of sequences, what one test leaves to the next, and what the servers    *)
(* count and report.                                                       *)
(***************************************************************************)
EXTENDS ServiceMock, FiniteSetTheorems, TLAPS

\* The types of the constants that the provers need over and over.
LEMMA Constants ==
    /\ Default \in [Service -> Def] /\ NTests \in Nat /\ MaxRequests \in Nat
    /\ Service # {} /\ Request # {} /\ DOMAIN Mocks = 1..NTests
  BY ConstAssumption

\* Numbers of requests, and the number of the next one.
LEMMA Bounds ==
    /\ \A n \in 0..MaxRequests : n \in Nat /\ 0 <= n
    /\ \A n \in 1..MaxRequests : n \in Nat /\ n # 0
  BY Constants

LEMMA Later ==
    \A n \in Nat : n + 1 <= n + 1 /\ \A m \in Nat : m <= n => m <= n + 1 /\ m # n + 1
  OBVIOUS

LEMMA KidsType == \A d \in Def : Tree[d].kids \in Seq(Def)
  BY ConstAssumption DEF Node

-----------------------------------------------------------------------------
(* The shape of a serving step.                                            *)

\* The errors a request can end with at the definition it has reached.
ErrorsOf(s) ==
    cur[s].errs \cup [kind : {"constraint", "unhandled", "template", "undefined"},
                      svc : {s}, def : Def, id : {cur[s].id}, stamp : {cur[s].stamp}]

\* Some error of the request says why it got no answer.
Explained(s, errs) == \E e \in errs : e.id = cur[s].id /\ e.kind # "constraint"

\* The request leaves the tree.
Leaves(s) ==
    /\ UNCHANGED count
    /\ \E errs \in SUBSET ErrorsOf(s), why \in Reply :
          /\ Return(s, errs, why)
          /\ Verified(s) \subseteq errs
          /\ why \in {"answered", "dropped"} \/ Explained(s, errs)

\* The request goes on to nested definition i.
GoesDown(s) ==
    \E i \in DOMAIN Tree[cur[s].at].kids, verify \in BOOLEAN, errs \in SUBSET ErrorsOf(s) :
        /\ Verified(s) \subseteq errs
        /\ Descend(s, Tree[cur[s].at].kids[i], verify, errs)
        /\ \/ Tree[cur[s].at].kind # "sequence" /\ UNCHANGED count
           \/ /\ Tree[cur[s].at].kind = "sequence"
              /\ i = count[cur[s].at] + 1
              /\ count' = [count EXCEPT ![cur[s].at] = i]

\* Constraint verification adds errors of the request at hand only.
LEMMA VerifiedErrors ==
    ASSUME TypeOK, NEW s \in Service
    PROVE  Verified(s) \subseteq ErrorsOf(s)
  <1>1. cur[s].at \in Def  BY DEF TypeOK, Cursor
  <1>2. ErrorAt(s, "constraint", cur[s].at) \in ErrorsOf(s)
    BY <1>1 DEF ErrorAt, ErrorsOf
  <1>3. cur[s].errs \subseteq ErrorsOf(s)  BY DEF ErrorsOf
  <1> QED BY <1>2, <1>3 DEF Verified

\* Every step of ServeHTTP counts the call at the definition reached, and then
\* either answers or goes on to one nested definition.
LEMMA ServeShape ==
    ASSUME TypeOK, NEW s \in Service, Serve(s)
    PROVE  CountCall(s) /\ (Leaves(s) \/ GoesDown(s))
  <1> DEFINE d == cur[s].at
             n == Tree[cur[s].at]
  <1>0. d \in Def /\ n \in Node /\ cur[s].id \in 0..MaxRequests
    BY Zenon, ConstAssumption DEF TypeOK, Cursor
  <1>1. CountCall(s)
    BY Zenon DEF Serve, ReplyLeaf, ReplyVary, ReplySequence, ReplyBasedOnRequest
  <1>2. Verified(s) \subseteq ErrorsOf(s)
    BY VerifiedErrors
  <1>3. \A k \in {"constraint", "unhandled", "template", "undefined"}, e \in Def :
            ErrorAt(s, k, e) \in ErrorsOf(s)
    BY DEF ErrorAt, ErrorsOf
  <1>9. ASSUME NEW errs, NEW k \in {"unhandled", "template", "undefined"}, NEW e,
               ErrorAt(s, k, e) \in errs
        PROVE  Explained(s, errs)
    BY <1>9 DEF Explained, ErrorAt
  <1>4. ASSUME NEW more \in SUBSET ErrorsOf(s), NEW why \in Reply,
               Unhandled(s, more, why), UNCHANGED count
        PROVE  Leaves(s)
    BY <1>0, <1>2, <1>3, <1>4, <1>9 DEF Unhandled, Leaves
  <1>5. ASSUME ReplyLeaf(s) PROVE Leaves(s)
    <2>1. UNCHANGED count  BY <1>5 DEF ReplyLeaf
    <2>2. ASSUME NEW errs \in SUBSET ErrorsOf(s), NEW why \in Reply,
                 Return(s, errs, why), Verified(s) \subseteq errs,
                 why \in {"answered", "dropped"} \/ Explained(s, errs)
          PROVE  Leaves(s)
      BY Zenon, <2>1, <2>2 DEF Leaves
    <2>3. CASE Unhandled(s, {}, "unhandled")
      BY <2>1, <2>3, <1>4 DEF Reply
    <2>4. Verified(s) \cup {ErrorAt(s, "template", d)} \in SUBSET ErrorsOf(s)
      BY <1>0, <1>2, <1>3
    <2>5. Verified(s) \cup {ErrorAt(s, "undefined", d)} \in SUBSET ErrorsOf(s)
      BY <1>0, <1>2, <1>3, Zenon
    <2>6. \/ Return(s, Verified(s), "answered")
          \/ Return(s, Verified(s), "dropped")
          \/ Unhandled(s, {}, "unhandled")
          \/ Return(s, Verified(s) \cup {ErrorAt(s, "template", d)}, "unrendered")
          \/ Return(s, Verified(s) \cup {ErrorAt(s, "undefined", d)}, "undefined")
      BY <1>5, Zenon DEF ReplyLeaf
    <2>7. CASE Return(s, Verified(s) \cup {ErrorAt(s, "template", d)}, "unrendered")
      BY <1>9, <2>2, <2>4, <2>7 DEF Reply
    <2>8. CASE Return(s, Verified(s) \cup {ErrorAt(s, "undefined", d)}, "undefined")
      BY <1>9, <2>2, <2>5, <2>8 DEF Reply
    <2>9. CASE Return(s, Verified(s), "answered") \/ Return(s, Verified(s), "dropped")
      BY <1>2, <2>2, <2>9 DEF Reply
    <2> QED BY <2>3, <2>6, <2>7, <2>8, <2>9, Zenon
  <1>6. ASSUME ReplyVary(s) PROVE Leaves(s) \/ GoesDown(s)
    <2>1. UNCHANGED count /\ n.kind # "sequence"  BY Zenon, <1>6 DEF ReplyVary
    <2>2. \/ Unhandled(s, {}, "unhandled")
          \/ \E i \in DOMAIN n.kids : Descend(s, n.kids[i], TRUE, Verified(s))
      BY Zenon, <1>6 DEF ReplyVary
    <2> QED BY Zenon, <2>1, <2>2, <1>2, <1>4 DEF GoesDown, Reply
  <1>7. ASSUME ReplySequence(s) PROVE Leaves(s) \/ GoesDown(s)
    <2>1. n.kind = "sequence"  BY <1>7 DEF ReplySequence
    <2>2. CASE UNCHANGED count /\ Unhandled(s, {}, "exhausted")
      BY <2>2, <1>4 DEF Reply
    <2>3. CASE /\ count[d] < Len(n.kids)
               /\ count' = [count EXCEPT ![d] = @ + 1]
               /\ Descend(s, n.kids[count[d] + 1], TRUE, Verified(s))
      <3>1. count[d] \in Nat /\ n.kids \in Seq(Def)  BY <1>0, Zenon DEF TypeOK, Node
      <3>2. count[d] + 1 \in DOMAIN n.kids  BY <2>3, <3>1
      <3>3. count' = [count EXCEPT ![d] = count[d] + 1]  BY <2>3, <3>1
      <3> QED BY Zenon, <2>1, <2>3, <3>2, <3>3, <1>2 DEF GoesDown
    <2> QED BY Zenon, <1>7, <2>2, <2>3 DEF ReplySequence
  <1>8. ASSUME ReplyBasedOnRequest(s) PROVE Leaves(s) \/ GoesDown(s)
    <2> DEFINE all == {ErrorAt(s, "constraint", n.kids[i]) : i \in DOMAIN n.kids}
    <2>1. UNCHANGED count /\ n.kind # "sequence"  BY Zenon, <1>8 DEF ReplyBasedOnRequest
    <2>2. all \in SUBSET ErrorsOf(s)  BY <1>0, <1>3 DEF Node
    <2>3. \/ Unhandled(s, all, "unhandled")
          \/ \E i \in DOMAIN n.kids : Descend(s, n.kids[i], FALSE, Verified(s))
      BY Zenon, <1>8 DEF ReplyBasedOnRequest
    <2> QED BY Zenon, <2>1, <2>2, <2>3, <1>2, <1>4 DEF GoesDown, Reply
  <1> QED BY <1>1, <1>5, <1>6, <1>7, <1>8 DEF Serve

-----------------------------------------------------------------------------
(* Type correctness.                                                       *)

LEMMA ErrorsOfType ==
    ASSUME TypeOK, NEW s \in Service
    PROVE  ErrorsOf(s) \subseteq Error
  BY DEF TypeOK, Cursor, ErrorsOf, Error

LEMMA NoSliceType == NoSlice \in Slice
  BY ConstAssumption DEF NoSlice, Slice

LEMMA FreeType ==
    ASSUME NEW s \in Service
    PROVE  Free(s) \in Cursor /\ Free(s).id = 0
  BY Constants DEF Free, Cursor

LEMMA ZeroedType ==
    ASSUME NEW f \in [Def -> Nat], NEW ds
    PROVE  /\ Zeroed(f, ds) \in [Def -> Nat]
           /\ \A d \in Def : Zeroed(f, ds)[d] = IF d \in ds THEN 0 ELSE f[d]
  BY DEF Zeroed

LEMMA TypeInit == Init => TypeOK
  <1> SUFFICES ASSUME Init PROVE TypeOK
    OBVIOUS
  <1>1. cur \in [Service -> Cursor]  BY FreeType, Zenon DEF Init
  <1>2. reply \in [1..MaxRequests -> Reply]  BY Zenon DEF Init, Reply
  <1> QED BY <1>1, <1>2, NoSliceType, Constants DEF Init, TypeOK, PC

LEMMA TypeServe ==
    ASSUME TypeOK, NEW s \in Service, Serve(s)
    PROVE  TypeOK'
  <1>1. CountCall(s) /\ (Leaves(s) \/ GoesDown(s))  BY ServeShape, Zenon
  <1>2. cur[s] \in Cursor /\ cur[s].id # 0 /\ ErrorsOf(s) \subseteq Error
    BY <1>1, ErrorsOfType, Zenon DEF TypeOK, CountCall, LockFree
  <1>3. calls' \in [Def -> Nat]  BY <1>1, <1>2 DEF Cursor, CountCall, TypeOK
  <1>4. log' \subseteq Visit
    <2>1. [id |-> cur[s].id, svc |-> s, def |-> cur[s].at, req |-> cur[s].req,
           verify |-> cur[s].verify, late |-> Ended(s)] \in Visit
      BY <1>2 DEF Visit, Cursor, Ended
    <2> QED BY <1>1, <2>1, Zenon DEF CountCall, TypeOK
  <1>5. CASE Leaves(s)
    <2>1. PICK errs \in SUBSET ErrorsOf(s), why \in Reply :
             Return(s, errs, why)
      BY <1>5, Zenon DEF Leaves
    <2>2. errors' \in [Service -> SUBSET Error]  BY <1>2, <2>1 DEF Return, TypeOK
    <2>3. cur' \in [Service -> Cursor]  BY <2>1, FreeType, Zenon DEF Return, TypeOK
    <2>4. reply' \in [1..MaxRequests -> Reply]
      BY <2>1, Zenon DEF Return, TypeOK
    <2>5. taken' \in Slice  BY <1>2, <2>1 DEF TypeOK, Slice, Return, Overwrite
    <2> QED BY <1>3, <1>4, <1>5, <2>1, <2>2, <2>3, <2>4, <2>5
            DEF TypeOK, Return, Leaves
  <1>6. CASE GoesDown(s)
    <2>1. PICK i \in DOMAIN Tree[cur[s].at].kids, verify \in BOOLEAN,
               errs \in SUBSET ErrorsOf(s) :
            /\ Descend(s, Tree[cur[s].at].kids[i], verify, errs)
            /\ \/ UNCHANGED count
               \/ /\ i = count[cur[s].at] + 1
                  /\ count' = [count EXCEPT ![cur[s].at] = i]
      BY <1>6, Zenon DEF GoesDown
    <2>2. Tree[cur[s].at].kids \in Seq(Def)  BY <1>2, KidsType DEF Cursor
    <2>3. cur' \in [Service -> Cursor]
      <3>1. [cur[s] EXCEPT !.at = Tree[cur[s].at].kids[i], !.verify = verify,
                           !.errs = errs] \in Cursor
        <4>1. Tree[cur[s].at].kids[i] \in Def  BY <2>2
        <4>2. errs \in SUBSET Error  BY <1>2
        <4> QED BY <1>2, <4>1, <4>2, Zenon DEF Cursor
      <3> QED BY <2>1, <3>1, Zenon DEF Descend, TypeOK
    <2>4. count' \in [Def -> Nat]
      <3>1. cur[s].at \in Def /\ count \in [Def -> Nat]  BY <1>2, Zenon DEF Cursor, TypeOK
      <3>2. i \in Nat  BY <2>2
      <3> QED BY <2>1, <3>1, <3>2, Zenon
    <2> QED BY <1>3, <1>4, <2>1, <2>3, <2>4, Zenon DEF TypeOK, Descend, runnerVars
  <1> QED BY <1>1, <1>5, <1>6

LEMMA TypeAccept ==
    ASSUME TypeOK, NEW s \in Service, NEW r \in Request, Accept(s, r)
    PROVE  TypeOK'
  <1>1. nreq' \in 0..MaxRequests /\ nreq + 1 \in 0..MaxRequests
    BY Constants DEF TypeOK, Accept
  <1>2. [id |-> nreq + 1, req |-> r, at |-> mock[s], verify |-> TRUE, errs |-> {},
         stamp |-> test] \in Cursor
    BY <1>1, Zenon DEF TypeOK, Cursor
  <1>3. cur' \in [Service -> Cursor]  BY <1>2, Zenon DEF TypeOK, Accept
  <1> QED BY <1>1, <1>3 DEF TypeOK, Accept, mockVars, runnerVars

LEMMA MocksType ==
    ASSUME NEW t \in 1..NTests, NEW s \in Service \cap DOMAIN Mocks[t]
    PROVE  Mocks[t][s] \in Def
  BY TreeAssumption

LEMMA TypeRunner ==
    ASSUME TypeOK, RunnerStep
    PROVE  TypeOK'
  <1> USE DEF mockVars, serveVars
  <1>1. CASE BeginTest
    BY <1>1, Constants DEF BeginTest, TypeOK, PC
  <1>2. CASE Respond \/ RequestError \/ FinishTest
    BY <1>2, Zenon DEF Respond, RequestError, FinishTest, TypeOK, PC
  <1>3. CASE Collect
    BY <1>3, NoSliceType DEF Collect, TypeOK, PC, Slice
  <1>4. ASSUME NEW s \in todo, ResetDefinition(s) PROVE TypeOK'
    BY Zenon, <1>4, Constants DEF ResetDefinition, Iterate, TypeOK, PC
  <1>5. ASSUME NEW s \in todo, ResetRunningContext(s) PROVE TypeOK'
    <2>0. /\ errors' = [errors EXCEPT ![s] = {}] /\ log' = {v \in log : v.svc # s}
          /\ calls' = Zeroed(calls, SubTree(mock[s]))
          /\ count' = Zeroed(count, SubTree(mock[s]))
      BY <1>5, Zenon DEF ResetRunningContext
    <2>1. errors' \in [Service -> SUBSET Error]
      <3>1. errors \in [Service -> SUBSET Error]  BY Zenon DEF TypeOK
      <3>2. {} \in SUBSET Error  BY Zenon
      <3> QED BY <2>0, <3>1, <3>2, Zenon
    <2>3. log' \subseteq Visit  BY <2>0, Zenon DEF TypeOK
    <2>2. calls' \in [Def -> Nat] /\ count' \in [Def -> Nat]
      BY <2>0, ZeroedType DEF TypeOK
    <2> QED BY <1>5, <2>1, <2>2, <2>3, Zenon DEF TypeOK, ResetRunningContext, Iterate, PC
  <1>6. ASSUME NEW s \in todo, LoadDefinition(s) PROVE TypeOK'
    BY <1>6, MocksType, Zenon DEF TypeOK, LoadDefinition, Zeroed, Iterate, PC
  <1>7. ASSUME NEW s \in todo, LoadError(s) PROVE TypeOK'
    BY <1>7, Zenon DEF LoadError, TypeOK, PC
  <1>8. ASSUME NEW s \in todo, EndRunningContext(s) PROVE TypeOK'
    <2>1. s \in Service  BY <1>8, Zenon DEF EndRunningContext, TypeOK
    <2>2. Mismatches(s) \subseteq Error
      BY <2>1, Constants DEF Mismatches, SubTree, Error
    <2>3. taken' \in Slice  BY <1>8, <2>1, <2>2 DEF EndRunningContext, TypeOK, Slice
    <2> QED BY <1>8, <2>3 DEF EndRunningContext, TypeOK, PC
  <1> QED BY <1>1, <1>2, <1>3, <1>4, <1>5, <1>6, <1>7, <1>8, Zenon DEF RunnerStep

LEMMA TypeStep == TypeOK /\ [Next]_vars => TypeOK'
  <1> SUFFICES ASSUME TypeOK, [Next]_vars PROVE TypeOK'
    OBVIOUS
  <1>1. CASE RunnerStep  BY <1>1, TypeRunner
  <1>2. CASE \E s \in Service : Serve(s)  BY <1>2, TypeServe
  <1>3. CASE \E s \in Service, r \in Request : Accept(s, r)  BY <1>3, TypeAccept, Zenon
  <1>4. CASE UNCHANGED vars
    BY <1>4 DEF vars, mockVars, serveVars, runnerVars, TypeOK
  <1> QED BY <1>1, <1>2, <1>3, <1>4 DEF Next

\* The state of the mock servers and of the runner always has its type, whatever
\* the definition trees and however requests and tests interleave.
THEOREM TypeCorrect == Spec => []TypeOK
  BY TypeInit, TypeStep, PTL DEF Spec

-----------------------------------------------------------------------------
(* Sequences are handed out in order.  SequenceInOrder alone is not         *)
(* inductive: it needs that a request being served stays inside the tree    *)
(* mounted on its service, that services mount trees of their own, and that *)
(* an element is only reached once the sequence has counted it.             *)

Mounted == \A s \in Service : mock[s] \in Roots(s)
InTree  == \A s \in Service : ~LockFree(s) => Tree[cur[s].at].root = mock[s]
Handed  == \A d \in Def : Tree[d].kind = "sequence" =>
               \A i \in DOMAIN Tree[d].kids : Reaching(Tree[d].kids[i]) => i <= count[d]

SeqInv == TypeOK /\ Mounted /\ InTree /\ SequenceInOrder /\ Handed

\* Two services never serve requests at the same definition.
LEMMA Apart ==
    ASSUME SeqInv, NEW s \in Service, NEW u \in Service, s # u, ~LockFree(s), ~LockFree(u)
    PROVE  Tree[cur[s].at].root # Tree[cur[u].at].root
  BY TreeAssumption DEF SeqInv, Mounted, InTree

\* Facts about a nested definition and its place in the tree.
LEMMA RootsApart ==
    ASSUME NEW s \in Service, NEW u \in Service, s # u, NEW r \in Roots(s)
    PROVE  r \notin Roots(u)
  BY TreeAssumption, Zenon

LEMMA Kids ==
    ASSUME NEW d \in Def, NEW i \in DOMAIN Tree[d].kids
    PROVE  /\ Tree[d].kids[i] \in Def
           /\ i \in Nat /\ i >= 1 /\ i <= Len(Tree[d].kids)
           /\ Tree[Tree[d].kids[i]].root = Tree[d].root
           /\ Tree[d].kids[i] \notin {d, Tree[d].root}
  <1>1. Tree[d].kids \in Seq(Def)  BY KidsType
  <1>2. i \in 1..Len(Tree[d].kids)  BY <1>1
  <1> QED BY <1>1, <1>2, TreeAssumption

LEMMA OnlyParent ==
    ASSUME NEW d \in Def, NEW i \in DOMAIN Tree[d].kids,
           NEW e \in Def, NEW j \in DOMAIN Tree[e].kids,
           Tree[d].kids[i] = Tree[e].kids[j]
    PROVE  d = e /\ i = j
  BY TreeAssumption

LEMMA SeqInit == Init => SeqInv
  <1> SUFFICES ASSUME Init PROVE SeqInv
    OBVIOUS
  <1>1. TypeOK  BY TypeInit
  <1>2. \A s \in Service : LockFree(s)  BY FreeType, Zenon DEF Init, LockFree
  <1>3. Mounted  BY DEF Init, Mounted, Roots
  <1>4. \A d \in Def : ~Reaching(d)  BY <1>2, Zenon DEF Reaching
  <1>5. SequenceInOrder  BY KidsType, Kids DEF SequenceInOrder, Init
  <1>6. InTree  BY <1>2, Zenon DEF InTree
  <1>7. Handed  BY <1>4, Kids, Zenon DEF Handed
  <1> QED BY <1>1, <1>3, <1>5, <1>6, <1>7 DEF SeqInv

\* A request that leaves the tree settles the call of the definition it was at.
LEMMA SeqLeaves ==
    ASSUME SeqInv, NEW s \in Service, CountCall(s), Leaves(s), TypeOK'
    PROVE  SeqInv'
  <1> DEFINE a == cur[s].at
  <1>1. PICK errs, why : Return(s, errs, why)  BY Zenon DEF Leaves
  <1>2. /\ cur' = [cur EXCEPT ![s] = Free(s)]
        /\ mock' = mock /\ count' = count
        /\ calls' = [calls EXCEPT ![a] = @ + 1]
        /\ ~LockFree(s)
    BY <1>1, Zenon DEF Return, Leaves, CountCall
  <1>3. /\ cur \in [Service -> Cursor] /\ calls \in [Def -> Nat] /\ count \in [Def -> Nat]
        /\ a \in Def
    BY DEF SeqInv, TypeOK, Cursor
  <1>4. LockFree(s)' /\ \A u \in Service \ {s} : cur'[u] = cur[u]
    BY <1>2, <1>3, FreeType, Zenon DEF LockFree
  <1>5. InTree'  BY <1>2, <1>4, Zenon DEF SeqInv, InTree, LockFree
  <1>6. ASSUME NEW e \in Def PROVE Reaching(e)' <=> Reaching(e) /\ e # a
    BY <1>2, <1>4, Apart DEF Reaching, LockFree
  <1>7. SequenceInOrder' /\ Handed'
    <2> SUFFICES ASSUME NEW d \in Def, Tree[d].kind = "sequence"
                 PROVE  /\ count'[d] <= Len(Tree[d].kids)
                        /\ \A i \in DOMAIN Tree[d].kids :
                              /\ calls'[Tree[d].kids[i]] =
                                   IF i <= count'[d] /\ ~Reaching(Tree[d].kids[i])' THEN 1 ELSE 0
                              /\ Reaching(Tree[d].kids[i])' => i <= count'[d]
      BY Zenon DEF SequenceInOrder, Handed
    <2>1. count'[d] <= Len(Tree[d].kids)  BY <1>2, Zenon DEF SeqInv, SequenceInOrder
    <2>2. ASSUME NEW i \in DOMAIN Tree[d].kids
          PROVE  /\ calls'[Tree[d].kids[i]] =
                      IF i <= count'[d] /\ ~Reaching(Tree[d].kids[i])' THEN 1 ELSE 0
                 /\ Reaching(Tree[d].kids[i])' => i <= count'[d]
      <3> DEFINE e == Tree[d].kids[i]
      <3>1. e \in Def  BY Kids, Zenon
      <3>2. /\ calls[e] = IF i <= count[d] /\ ~Reaching(e) THEN 1 ELSE 0
            /\ Reaching(e) => i <= count[d]
        BY Zenon DEF SeqInv, SequenceInOrder, Handed
      <3>3. CASE e = a  BY <1>2, <1>3, <1>6, <3>1, <3>2, <3>3 DEF Reaching
      <3>4. CASE e # a  BY <1>2, <1>3, <1>6, <3>1, <3>2, <3>4, Zenon
      <3> QED BY <3>3, <3>4, Zenon
    <2> QED BY <2>1, <2>2, Zenon
  <1> QED BY <1>2, <1>5, <1>7 DEF SeqInv, Mounted

\* A request that goes down settles the call of the definition it was at and
\* reaches exactly one nested definition, of a sequence the next one.
LEMMA SeqGoesDown ==
    ASSUME SeqInv, NEW s \in Service, CountCall(s), GoesDown(s), TypeOK'
    PROVE  SeqInv'
  <1> DEFINE a == cur[s].at
  <1>0. /\ cur \in [Service -> Cursor] /\ calls \in [Def -> Nat] /\ count \in [Def -> Nat]
        /\ a \in Def /\ cur[s] \in Cursor
    BY Zenon DEF SeqInv, TypeOK, Cursor
  <1>1. PICK j \in DOMAIN Tree[a].kids, verify \in BOOLEAN, errs \in SUBSET ErrorsOf(s) :
            /\ Descend(s, Tree[a].kids[j], verify, errs)
            /\ \/ Tree[a].kind # "sequence" /\ UNCHANGED count
               \/ /\ Tree[a].kind = "sequence"
                  /\ j = count[a] + 1
                  /\ count' = [count EXCEPT ![a] = j]
    BY Zenon DEF GoesDown
  <1> DEFINE f == Tree[a].kids[j]
  <1>2. /\ f \in Def /\ f # a /\ Tree[f].root = Tree[a].root
        /\ j \in Nat /\ j <= Len(Tree[a].kids)
    BY <1>0, Kids, Zenon
  <1>3. /\ mock' = mock
        /\ calls' = [calls EXCEPT ![a] = @ + 1]
        /\ ~LockFree(s)
    BY <1>1, Zenon DEF Descend, CountCall
  <1>4. /\ cur'[s].at = f /\ cur'[s].id = cur[s].id
        /\ \A u \in Service \ {s} : cur'[u] = cur[u]
    BY <1>0, <1>1 DEF Descend, Cursor
  <1>5. InTree'
    BY Zenon, <1>2, <1>3, <1>4 DEF SeqInv, InTree, LockFree
  <1>6. ASSUME NEW e \in Def PROVE Reaching(e)' <=> (Reaching(e) /\ e # a) \/ e = f
    BY <1>3, <1>4, Apart DEF Reaching, LockFree
  <1>7. \A d \in Def \ {a} : count'[d] = count[d]
    BY <1>0, <1>1, Zenon
  <1>8. SequenceInOrder' /\ Handed'
    <2> SUFFICES ASSUME NEW d \in Def, Tree[d].kind = "sequence"
                 PROVE  /\ count'[d] <= Len(Tree[d].kids)
                        /\ \A i \in DOMAIN Tree[d].kids :
                              /\ calls'[Tree[d].kids[i]] =
                                   IF i <= count'[d] /\ ~Reaching(Tree[d].kids[i])' THEN 1 ELSE 0
                              /\ Reaching(Tree[d].kids[i])' => i <= count'[d]
      BY Zenon DEF SequenceInOrder, Handed
    <2>0. d = a => j = count[a] + 1 /\ count'[a] = j
      BY <1>0, <1>1, Zenon
    <2>1. count'[d] <= Len(Tree[d].kids)
      <3>1. CASE d = a  BY <1>2, <2>0, <3>1, Zenon
      <3>2. CASE d # a  BY <1>7, <3>2, Zenon DEF SeqInv, SequenceInOrder
      <3> QED BY <3>1, <3>2, Zenon
    <2>2. ASSUME NEW i \in DOMAIN Tree[d].kids
          PROVE  /\ calls'[Tree[d].kids[i]] =
                      IF i <= count'[d] /\ ~Reaching(Tree[d].kids[i])' THEN 1 ELSE 0
                 /\ Reaching(Tree[d].kids[i])' => i <= count'[d]
      <3> DEFINE e == Tree[d].kids[i]
      <3>1. e \in Def /\ e # d /\ i \in Nat /\ count[d] \in Nat  BY <1>0, Kids, Zenon
      <3>2. /\ calls[e] = IF i <= count[d] /\ ~Reaching(e) THEN 1 ELSE 0
            /\ Reaching(e) => i <= count[d]
        BY Zenon DEF SeqInv, SequenceInOrder, Handed
      <3>3. CASE e = f
        <4>1. d = a /\ i = j  BY <1>0, <3>3, OnlyParent
        <4>2. calls[e] = 0  BY <2>0, <3>1, <3>2, <4>1
        <4>3. calls'[e] = 0  BY <1>0, <1>2, <1>3, <3>3, <4>2, Zenon
        <4>4. Reaching(e)' /\ i <= count'[d]  BY <1>6, <2>0, <3>1, <3>3, <4>1
        <4> QED BY <4>3, <4>4, Zenon
      <3>4. CASE e = a
        <4>1. Reaching(e) /\ ~Reaching(e)'
          BY Zenon, <1>2, <1>3, <1>6, <3>1, <3>4 DEF Reaching
        <4>2. calls[e] = 0 /\ i <= count[d]  BY <3>2, <4>1, Zenon
        <4>3. calls'[e] = 1  BY <1>0, <1>3, <3>4, <4>2
        <4>4. count'[d] = count[d]  BY <1>7, <3>1, <3>4, Zenon
        <4> QED BY <4>1, <4>2, <4>3, <4>4
      <3>5. CASE e \notin {a, f}
        <4>1. calls'[e] = calls[e]
          <5>1. calls \in [Def -> Nat] /\ e # a  BY <1>0, <3>5, Zenon
          <5> QED BY <1>3, <3>1, <5>1, Zenon
        <4>2. Reaching(e)' <=> Reaching(e)  BY <1>6, <3>1, <3>5, Zenon
        <4>3. i <= count'[d] <=> i <= count[d]
          <5>1. CASE d = a  BY <2>0, <3>1, <3>5, <5>1
          <5> QED BY <1>7, <5>1, Zenon
        <4> QED BY <3>2, <4>1, <4>2, <4>3, Zenon
      <3> QED BY <3>3, <3>4, <3>5, Zenon
    <2> QED BY <2>1, <2>2, Zenon
  <1> QED BY <1>3, <1>5, <1>8, Zenon DEF SeqInv, Mounted

LEMMA SeqAccept ==
    ASSUME SeqInv, NEW s \in Service, NEW r \in Request, Accept(s, r), TypeOK'
    PROVE  SeqInv'
  <1>1. /\ mock' = mock /\ calls' = calls /\ count' = count
        /\ LockFree(s) /\ cur'[s].at = mock[s]
        /\ \A u \in Service \ {s} : cur'[u] = cur[u]
    BY Zenon DEF SeqInv, TypeOK, Accept, mockVars
  <1>2. Tree[mock[s]].root = mock[s]  BY TreeAssumption, Zenon DEF SeqInv, Mounted
  <1>3. InTree'  BY <1>1, <1>2, Zenon DEF SeqInv, InTree, LockFree
  <1>4. ASSUME NEW d \in Def, NEW i \in DOMAIN Tree[d].kids
        PROVE  Reaching(Tree[d].kids[i])' <=> Reaching(Tree[d].kids[i])
    BY <1>1, <1>2, Kids DEF Reaching, LockFree
  <1>5. SequenceInOrder' /\ Handed'
    BY <1>1, <1>4 DEF SeqInv, SequenceInOrder, Handed
  <1> QED BY <1>1, <1>3, <1>5, Zenon DEF SeqInv, Mounted

\* Zeroing the counters of a whole tree nobody is in (ResetRunningContext of the
\* mounted tree, or mounting a fresh one).
LEMMA SeqZero ==
    ASSUME SeqInv, NEW s \in Service, LockFree(s), NEW root \in Roots(s), TypeOK',
           mock' = mock \/ mock' = [mock EXCEPT ![s] = root], cur' = cur,
           calls' = Zeroed(calls, SubTree(root)), count' = Zeroed(count, SubTree(root))
    PROVE  SeqInv'
  <1>1. /\ mock \in [Service -> Def] /\ calls \in [Def -> Nat] /\ count \in [Def -> Nat]
        /\ cur \in [Service -> Cursor]
    BY DEF SeqInv, TypeOK
  <1>2. Mounted'  BY <1>1, Zenon DEF SeqInv, Mounted
  <1>3. InTree'  BY <1>1, Zenon DEF SeqInv, InTree, LockFree
  <1>4. ASSUME NEW e \in SubTree(root) PROVE ~Reaching(e)
    BY <1>4, TreeAssumption DEF Reaching, SubTree, SeqInv, InTree, Mounted
  <1>5. \A e \in Def : Reaching(e)' <=> Reaching(e)  BY DEF Reaching, LockFree
  <1>6. \A e \in Def : /\ calls'[e] = IF e \in SubTree(root) THEN 0 ELSE calls[e]
                       /\ count'[e] = IF e \in SubTree(root) THEN 0 ELSE count[e]
    BY <1>1, Zenon DEF Zeroed
  <1>7. SequenceInOrder' /\ Handed'
    BY <1>4, <1>5, <1>6, Kids DEF SequenceInOrder, Handed, Node, SubTree, SeqInv
  <1> QED BY <1>2, <1>3, <1>7, Zenon DEF SeqInv

LEMMA SeqRunner ==
    ASSUME SeqInv, RunnerStep, TypeOK'
    PROVE  SeqInv'
  <1> USE DEF mockVars, serveVars
  <1>1. CASE UNCHANGED <<mock, calls, count, cur>>
    BY <1>1, Zenon DEF SeqInv, Mounted, InTree, SequenceInOrder, Handed, Reaching, LockFree
  <1>2. CASE BeginTest \/ Respond \/ RequestError \/ Collect \/ FinishTest
    BY <1>1, <1>2, Zenon DEF BeginTest, Respond, RequestError, Collect, FinishTest
  <1>3. ASSUME NEW s \in todo, ResetDefinition(s) PROVE SeqInv'
    <2>1. /\ s \in Service /\ LockFree(s) /\ mock \in [Service -> Def]
          /\ mock' = [mock EXCEPT ![s] = Default[s]] /\ UNCHANGED <<calls, count, cur>>
      BY <1>3, Zenon DEF ResetDefinition, Iterate, SeqInv, TypeOK
    <2>2. Mounted'  BY <2>1, Zenon DEF SeqInv, Mounted, Roots
    <2>3. InTree'  BY <2>1, Zenon DEF SeqInv, InTree, LockFree
    <2>4. SequenceInOrder' /\ Handed'
      BY <2>1 DEF SeqInv, SequenceInOrder, Handed, Reaching, LockFree
    <2> QED BY <2>2, <2>3, <2>4, Zenon DEF SeqInv
  <1>4. ASSUME NEW s \in todo, ResetRunningContext(s) PROVE SeqInv'
    <2>1. s \in Service  BY <1>4 DEF ResetRunningContext, Iterate, SeqInv, TypeOK
    <2>2. mock[s] \in Roots(s)  BY <2>1 DEF SeqInv, Mounted
    <2> QED BY <1>4, <2>1, <2>2, SeqZero, Zenon DEF ResetRunningContext
  <1>5. ASSUME NEW s \in todo, LoadDefinition(s) PROVE SeqInv'
    <2>1. s \in Service /\ test \in 1..NTests /\ s \in DOMAIN Mocks[test]
      BY Zenon, <1>5 DEF LoadDefinition, SeqInv, TypeOK
    <2>2. Mocks[test][s] \in Roots(s)  BY <2>1 DEF Roots
    <2> QED BY Zenon, <1>5, <2>1, <2>2, SeqZero DEF LoadDefinition
  <1>6. ASSUME NEW s \in todo, LoadError(s) PROVE SeqInv'
    BY <1>1, <1>6, Zenon DEF LoadError
  <1>7. ASSUME NEW s \in todo, EndRunningContext(s) PROVE SeqInv'
    BY <1>1, <1>7 DEF EndRunningContext
  <1> QED BY <1>2, <1>3, <1>4, <1>5, <1>6, <1>7 DEF RunnerStep

LEMMA SeqStep == SeqInv /\ [Next]_vars => SeqInv'
  <1> SUFFICES ASSUME SeqInv, [Next]_vars PROVE SeqInv'
    OBVIOUS
  <1>0. TypeOK /\ TypeOK'  BY TypeStep DEF SeqInv
  <1>1. CASE RunnerStep  BY <1>0, <1>1, SeqRunner
  <1>2. ASSUME NEW s \in Service, Serve(s) PROVE SeqInv'
    BY <1>0, <1>2, ServeShape, SeqLeaves, SeqGoesDown
  <1>3. CASE \E s \in Service, r \in Request : Accept(s, r)  BY <1>0, <1>3, SeqAccept, Zenon
  <1>4. CASE UNCHANGED vars
    BY <1>0, <1>4 DEF vars, mockVars, serveVars, SeqInv, Mounted, InTree, SequenceInOrder,
                Handed, Reaching, LockFree
  <1> QED BY <1>1, <1>2, <1>3, <1>4 DEF Next

\* For any definition trees, services, tests and requests: a sequence strategy hands
\* out its definitions in order, each at most once per running context.
THEOREM SequencesInOrder == Spec => []SequenceInOrder
  <1>1. SeqInv => SequenceInOrder  BY DEF SeqInv
  <1> QED BY <1>1, SeqInit, SeqStep, PTL DEF Spec

-----------------------------------------------------------------------------
(* A test runs with its own definitions.  The strengthening follows the     *)
(* loops of setupMocks: which services have been visited so far.            *)

Defined ==
    /\ pc = "resetDefs" => \A s \in Service \ todo : mock[s] = Default[s]
    /\ pc = "resetCtx" => \A s \in Service : mock[s] = Default[s]
    /\ pc = "load" => \A s \in Service :
          mock[s] = IF s \in DOMAIN Mocks[test] /\ s \notin todo
                    THEN Mocks[test][s] ELSE Default[s]
    /\ DefinitionsOfTheTest

LEMMA DefinedRunner ==
    ASSUME TypeOK, Defined, RunnerStep
    PROVE  Defined'
  <1> USE DEF mockVars, Defined, DefinitionsOfTheTest
  <1>1. CASE BeginTest  BY Zenon, <1>1 DEF BeginTest, TypeOK
  <1>2. CASE Respond \/ RequestError \/ FinishTest \/ Collect
    BY <1>2, Zenon DEF Respond, RequestError, FinishTest, Collect
  <1>3. ASSUME NEW s \in todo, ResetDefinition(s) PROVE Defined'
    BY <1>3, Zenon DEF ResetDefinition, Iterate, TypeOK
  <1>4. ASSUME NEW s \in todo, ResetRunningContext(s) PROVE Defined'
    BY <1>4, Zenon DEF ResetRunningContext, Iterate
  <1>5. ASSUME NEW s \in todo, LoadDefinition(s) PROVE Defined'
    BY <1>5 DEF LoadDefinition, Iterate, TypeOK
  <1>6. ASSUME NEW s \in todo, LoadError(s) PROVE Defined'
    BY Zenon, <1>6 DEF LoadError
  <1>7. ASSUME NEW s \in todo, EndRunningContext(s) PROVE Defined'
    BY <1>7, Zenon DEF EndRunningContext
  <1> QED BY Zenon, <1>1, <1>2, <1>3, <1>4, <1>5, <1>6, <1>7 DEF RunnerStep

LEMMA DefinedStep == TypeOK /\ Defined /\ [Next]_vars => Defined'
  <1> SUFFICES ASSUME TypeOK, Defined, [Next]_vars PROVE Defined'
    BY Zenon
  <1>1. CASE UNCHANGED <<mock, pc, todo, test>>
    BY <1>1 DEF Defined, DefinitionsOfTheTest
  <1>2. CASE RunnerStep  BY <1>2, DefinedRunner
  <1>3. ASSUME NEW s \in Service, Serve(s) PROVE UNCHANGED <<mock, pc, todo, test>>
    BY Zenon, <1>3, ServeShape DEF Leaves, GoesDown, Return, Descend, runnerVars
  <1>4. ASSUME NEW s \in Service, NEW r \in Request, Accept(s, r)
        PROVE UNCHANGED <<mock, pc, todo, test>>
    BY <1>4, Zenon DEF Accept, mockVars, runnerVars
  <1>5. CASE UNCHANGED vars
    BY <1>1, <1>5 DEF vars, mockVars, runnerVars
  <1> QED BY <1>1, <1>2, <1>3, <1>4, <1>5 DEF Next

\* Between setupMocks and the verdict every service runs the definition its test
\* gives it, or its default one, never one of an earlier test.
THEOREM DefinitionsNotDerived == Spec => []DefinitionsOfTheTest
  <1>1. Init => Defined  BY DEF Init, Defined, DefinitionsOfTheTest
  <1>2. Defined => DefinitionsOfTheTest  BY Zenon DEF Defined
  <1> QED BY <1>1, <1>2, TypeInit, TypeStep, DefinedStep, PTL DEF Spec

-----------------------------------------------------------------------------
(* Errors do not carry over.  Once the running context of a service is      *)
(* reset, its errors and the request it serves belong to the current test:  *)
(* the reset waits for the lock, so that a late request ends before it.     *)

IsReset(s) == pc \notin {"idle", "resetDefs"} /\ (pc = "resetCtx" => s \notin todo)

Stamped(errs) == \A e \in errs : e.kind # "calls" => e.stamp = test

Current ==
    /\ \A s \in Service : IsReset(s) =>
          /\ Stamped(errors[s])
          /\ ~LockFree(s) => cur[s].stamp = test /\ Stamped(cur[s].errs)
    /\ Stamped(taken.mismatch) \/ pc # "collect"
    /\ Stamped(taken.served) \/ pc # "collect"
    /\ NoCarryOver

LEMMA MismatchKind == \A s : \A e \in Mismatches(s) : e.kind = "calls"
  BY DEF Mismatches

LEMMA CurrentServe ==
    ASSUME TypeOK, Current, NEW s \in Service, Serve(s)
    PROVE  Current'
  <1>1. CountCall(s) /\ (Leaves(s) \/ GoesDown(s))  BY ServeShape, Zenon
  <1>2. ~LockFree(s) /\ cur[s] \in Cursor  BY <1>1, Zenon DEF CountCall, TypeOK
  <1>3. IsReset(s) => Stamped(ErrorsOf(s))
    BY <1>2, Zenon DEF Current, Stamped, ErrorsOf
  <1>4. CASE Leaves(s)
    <2>1. PICK errs \in SUBSET ErrorsOf(s), why \in Reply : Return(s, errs, why)
      BY <1>4, Zenon DEF Leaves
    <2>2. /\ UNCHANGED <<pc, test, todo, result>>
          /\ \A u \in Service \ {s} : cur'[u] = cur[u] /\ errors'[u] = errors[u]
          /\ errors'[s] = errors[s] \cup errs /\ cur'[s] = Free(s)
      BY <2>1, Zenon DEF Return, TypeOK
    <2>3. IsReset(s) => Stamped(errs)  BY <1>3, <2>1, Zenon DEF Stamped
    <2>4. Free(s).id = 0  BY Zenon DEF Free
    <2>5. ASSUME NEW u \in Service, IsReset(u)'
          PROVE  /\ Stamped(errors[u])'
                 /\ ~LockFree(u)' => cur'[u].stamp = test' /\ Stamped(cur[u].errs)'
      BY <2>2, <2>3, <2>4, <2>5, Zenon DEF Current, IsReset, Stamped, LockFree
    <2>6. pc = "collect" => Stamped(taken'.served) /\ Stamped(taken'.mismatch)
      <3>1. CASE taken' = taken  BY <3>1, Zenon DEF Current
      <3>2. CASE taken' # taken
        <4>1. /\ pc = "collect" /\ taken.svc = s
              /\ \E lost \in SUBSET taken.mismatch, got \in SUBSET errs :
                    taken' = [taken EXCEPT !.mismatch = (@ \ lost) \cup got]
          BY <2>1, <3>2, Zenon DEF Return, Overwrite
        <4>2. taken'.served = taken.served /\ taken'.mismatch \subseteq taken.mismatch \cup errs
          BY <4>1, Zenon DEF TypeOK, Slice
        <4>3. IsReset(s)  BY <4>1, Zenon DEF IsReset
        <4> QED BY <2>3, <4>1, <4>2, <4>3, Zenon DEF Current, Stamped
      <3> QED BY <3>1, <3>2, Zenon
    <2> QED BY <2>2, <2>5, <2>6, Zenon DEF Current, Stamped, NoCarryOver
  <1>5. CASE GoesDown(s)
    BY <1>2, <1>3, <1>5 DEF GoesDown, Descend, runnerVars, Cursor, TypeOK, IsReset, Current,
      Stamped, LockFree, NoCarryOver
  <1> QED BY <1>1, <1>4, <1>5

LEMMA CurrentAccept ==
    ASSUME TypeOK, Current, NEW s \in Service, NEW r \in Request, Accept(s, r)
    PROVE  Current'
  <1>1. /\ UNCHANGED <<errors, pc, test, todo, taken, result>>
        /\ cur'[s].stamp = test /\ cur'[s].errs = {}
        /\ \A u \in Service \ {s} : cur'[u] = cur[u]
    BY Zenon DEF Accept, mockVars, runnerVars, TypeOK
  <1> QED BY Zenon, <1>1 DEF Current, IsReset, Stamped, LockFree, NoCarryOver

LEMMA CurrentRunner ==
    ASSUME TypeOK, Current, RunnerStep
    PROVE  Current'
  <1> USE DEF mockVars, serveVars, Stamped, NoCarryOver, LockFree
  <1>1. CASE BeginTest  BY Zenon, <1>1 DEF BeginTest, Current, IsReset
  <1>2. CASE Respond \/ RequestError \/ FinishTest
    BY <1>2, Zenon DEF Respond, RequestError, FinishTest, Current, IsReset
  <1>3. CASE Collect
    BY <1>3, Zenon DEF Collect, Current, IsReset
  <1>4. ASSUME NEW s \in todo, ResetDefinition(s) PROVE Current'
    BY <1>4, Zenon DEF ResetDefinition, Iterate, Current, IsReset
  <1>5. ASSUME NEW s \in todo, ResetRunningContext(s) PROVE Current'
    BY <1>5, Zenon DEF ResetRunningContext, Iterate, TypeOK, IsReset, Current
  <1>6. ASSUME NEW s \in todo, LoadDefinition(s) PROVE Current'
    BY <1>6 DEF LoadDefinition, Iterate, Current, IsReset
  <1>7. ASSUME NEW s \in todo, LoadError(s) PROVE Current'
    BY Zenon, <1>7 DEF LoadError, Current, IsReset
  <1>8. ASSUME NEW s \in todo, EndRunningContext(s) PROVE Current'
    BY <1>8, MismatchKind, Zenon DEF EndRunningContext, IsReset, TypeOK, Current
  <1> QED BY <1>1, <1>2, <1>3, <1>4, <1>5, <1>6, <1>7, <1>8 DEF RunnerStep

LEMMA CurrentStep == TypeOK /\ Current /\ [Next]_vars => Current'
  <1> SUFFICES ASSUME TypeOK, Current, [Next]_vars PROVE Current'
    OBVIOUS
  <1>1. CASE RunnerStep  BY <1>1, CurrentRunner
  <1>2. CASE \E s \in Service : Serve(s)  BY <1>2, CurrentServe
  <1>3. CASE \E s \in Service, r \in Request : Accept(s, r)  BY <1>3, CurrentAccept, Zenon
  <1>4. CASE UNCHANGED vars
    BY Zenon, <1>4 DEF vars, mockVars, serveVars, runnerVars, Current, IsReset, Stamped,
                LockFree, NoCarryOver
  <1> QED BY <1>1, <1>2, <1>3, <1>4 DEF Next

\* No request error of an earlier or aborted test is ever reported in a later one,
\* although requests may arrive, and be served, at any moment.
THEOREM ErrorsNotCarriedOver == Spec => []NoCarryOver
  <1>1. Init => Current  BY Zenon DEF Init, Current, IsReset, NoCarryOver
  <1>2. Current => NoCarryOver  BY Zenon DEF Current
  <1> QED BY <1>1, <1>2, TypeInit, TypeStep, CurrentStep, PTL DEF Spec

-----------------------------------------------------------------------------
(* The counters of calls.  calls[d] is a number and log a set, so that the  *)
(* two agree only if no request reaches a definition twice: the definitions *)
(* a request has visited form a path from the root, which the definition it *)
(* has reached continues.  The counters of the default tree keep counting   *)
(* from one reset to the next, also while another tree is mounted.          *)

\* Definition d is the root of the mounted tree or nested in a definition that the
\* request being served has visited.
Linked(s, d) ==
    \/ d = mock[s]
    \/ \E w \in log : /\ w.id = cur[s].id
                      /\ \E i \in DOMAIN Tree[w.def].kids : d = Tree[w.def].kids[i]

Path(s) ==
    /\ Linked(s, cur[s].at)
    /\ \A v \in log : v.id = cur[s].id =>
          v.svc = s /\ v.def # cur[s].at /\ Linked(s, v.def)

Counted(s) ==
    \A d \in SubTree(mock[s]) \cup SubTree(Default[s]) : calls[d] = Cardinality(Visits(d))

Numbered ==
    /\ \A v \in log : v.id <= nreq /\ Tree[v.def].root \in Roots(v.svc)
    /\ \A s \in Service : cur[s].id <= nreq
    /\ \A s, u \in Service : ~LockFree(s) /\ cur[s].id = cur[u].id => s = u

\* The running context of s has been reset and the definition of the test is still
\* to be loaded.
Unloaded(s) == (pc = "resetCtx" /\ s \notin todo) \/ (pc = "load" /\ s \in todo)

InDefault(s) == \A v \in log : v.svc = s => Tree[v.def].root = Default[s]

Window ==
    /\ IsFiniteSet(log)
    /\ Numbered
    /\ \A s \in Service : ~LockFree(s) => Path(s)
    /\ \A s \in Service : Unloaded(s) => InDefault(s)
    /\ \A s \in Service : Counted(s)

WindowInv == SeqInv /\ Defined /\ Window

\* The visit that CountCall records.
Visiting(s) ==
    [id |-> cur[s].id, svc |-> s, def |-> cur[s].at, req |-> cur[s].req,
     verify |-> cur[s].verify, late |-> Ended(s)]

LEMMA VisitType ==
    ASSUME TypeOK, NEW v \in log
    PROVE  /\ v.id \in 1..MaxRequests /\ v.svc \in Service /\ v.def \in Def
           /\ v.verify \in BOOLEAN /\ v.late \in BOOLEAN
  BY Zenon DEF TypeOK, Visit

\* Visits below a root of a service are visits of that service.
LEMMA Own ==
    ASSUME TypeOK, Numbered, NEW v \in log, NEW s \in Service,
           Tree[v.def].root \in Roots(s)
    PROVE  v.svc = s
  <1>1. v.svc \in Service  BY VisitType
  <1>2. Tree[v.def].root \in Roots(v.svc)  BY Zenon DEF Numbered
  <1> QED BY <1>1, <1>2, TreeAssumption, Zenon

\* What a serving step does to the state the counters depend on.
LEMMA ServeFrame ==
    ASSUME TypeOK, NEW s \in Service, Serve(s)
    PROVE  /\ ~LockFree(s) /\ cur[s].id \in 1..MaxRequests /\ cur[s].at \in Def
           /\ log' = log \cup {Visiting(s)}
           /\ calls' = [calls EXCEPT ![cur[s].at] = @ + 1]
           /\ UNCHANGED <<mock, nreq, pc, test, todo, result>>
           /\ \A u \in Service \ {s} : cur'[u] = cur[u] /\ errors'[u] = errors[u]
           /\ \A i \in 1..MaxRequests \ {cur[s].id} : reply'[i] = reply[i]
           /\ \/ cur'[s].id = 0
              \/ /\ cur'[s].id = cur[s].id
                 /\ \E i \in DOMAIN Tree[cur[s].at].kids :
                       cur'[s].at = Tree[cur[s].at].kids[i]
  <1>1. CountCall(s) /\ (Leaves(s) \/ GoesDown(s))  BY ServeShape
  <1>2. /\ ~LockFree(s) /\ log' = log \cup {Visiting(s)}
        /\ calls' = [calls EXCEPT ![cur[s].at] = @ + 1]
    BY Zenon, <1>1 DEF CountCall, Visiting
  <1>3. cur[s] \in Cursor /\ cur \in [Service -> Cursor]  BY Zenon DEF TypeOK
  <1>4. cur[s].id \in 1..MaxRequests /\ cur[s].at \in Def
    BY <1>2, <1>3, Constants DEF LockFree, Cursor
  <1>5. CASE Leaves(s)  BY <1>2, <1>3, <1>4, <1>5, FreeType, Zenon DEF Leaves, Return,
                          TypeOK
  <1>6. CASE GoesDown(s)
    BY <1>2, <1>3, <1>4, <1>6 DEF GoesDown, Descend, runnerVars, Cursor
  <1> QED BY <1>1, <1>5, <1>6

\* The request has visited neither the definition it is at nor one nested in that.
LEMMA NotYet ==
    ASSUME SeqInv, Window, NEW s \in Service, ~LockFree(s),
           NEW v \in log, v.id = cur[s].id
    PROVE  /\ v.def # cur[s].at
           /\ \A i \in DOMAIN Tree[cur[s].at].kids : v.def # Tree[cur[s].at].kids[i]
  <1>1. Path(s) /\ cur[s].at \in Def  BY DEF Window, SeqInv, TypeOK, Cursor
  <1>2. Linked(s, v.def) /\ v.def # cur[s].at  BY <1>1, Zenon DEF Path
  <1>3. ASSUME NEW i \in DOMAIN Tree[cur[s].at].kids, v.def = Tree[cur[s].at].kids[i]
        PROVE  FALSE
    <2>1. v.def # mock[s]
      <3>1. v.def # Tree[cur[s].at].root  BY <1>1, <1>3, Kids
      <3> QED BY <3>1, Zenon DEF SeqInv, InTree
    <2>2. PICK w \in log : /\ w.id = cur[s].id
                           /\ \E j \in DOMAIN Tree[w.def].kids : v.def = Tree[w.def].kids[j]
      BY <1>2, <2>1 DEF Linked
    <2>3. w.def \in Def  BY VisitType, Zenon DEF SeqInv
    <2>4. PICK j \in DOMAIN Tree[w.def].kids : v.def = Tree[w.def].kids[j]  BY <2>2
    <2>5. w.def = cur[s].at  BY Zenon, <1>1, <1>3, <2>3, <2>4, OnlyParent
    <2> QED BY <1>1, <2>2, <2>5, Zenon DEF Path
  <1> QED BY <1>2, <1>3, Zenon

\* A visit can only add links.
LEMMA LinkedStays ==
    ASSUME NEW s, NEW d, Linked(s, d), log \subseteq log', mock'[s] = mock[s],
           cur'[s].id = cur[s].id
    PROVE  Linked(s, d)'
  BY Zenon DEF Linked

LEMMA WindowServe ==
    ASSUME WindowInv, NEW s \in Service, Serve(s)
    PROVE  Window'
  <1> DEFINE a == cur[s].at
             n == Visiting(s)
  <1>0. TypeOK /\ SeqInv /\ Window /\ Numbered /\ Defined
    BY DEF WindowInv, SeqInv, Window
  <1>1. /\ ~LockFree(s) /\ cur[s].id \in 1..MaxRequests /\ a \in Def
        /\ log' = log \cup {n}
        /\ calls' = [calls EXCEPT ![a] = @ + 1]
        /\ UNCHANGED <<mock, nreq, pc, test, todo>>
        /\ \A u \in Service \ {s} : cur'[u] = cur[u]
        /\ \/ cur'[s].id = 0
           \/ /\ cur'[s].id = cur[s].id
              /\ \E i \in DOMAIN Tree[a].kids : cur'[s].at = Tree[a].kids[i]
    BY Zenon, <1>0, ServeFrame
  <1>2. n.id = cur[s].id /\ n.svc = s /\ n.def = a  BY Zenon DEF Visiting
  <1> HIDE DEF n
  <1>3. n \notin log  BY <1>0, <1>1, <1>2, NotYet, Zenon
  <1>4. Tree[a].root = mock[s] /\ mock[s] \in Roots(s)
    BY <1>0, <1>1, Zenon DEF SeqInv, InTree, Mounted
  <1>5. IsFiniteSet(log')  BY <1>0, <1>1, FS_AddElement, Zenon DEF Window
  <1>6. Numbered'
    <2>1. ASSUME NEW v \in log'
          PROVE  v.id <= nreq' /\ Tree[v.def].root \in Roots(v.svc)
      BY <1>0, <1>1, <1>2, <1>4, Zenon DEF Numbered
    <2>2. \A u \in Service : cur'[u].id <= nreq'
      <3>1. 0 <= nreq  BY <1>0, Bounds, Zenon DEF TypeOK
      <3>2. \A u \in Service : cur[u].id <= nreq  BY <1>0, Zenon DEF Numbered
      <3>3. \A u \in Service : cur'[u].id = cur[u].id \/ cur'[u].id = 0  BY <1>1, Zenon
      <3>4. nreq' = nreq  BY <1>1, Zenon
      <3> QED BY <3>1, <3>2, <3>3, <3>4, Zenon
    <2>3. ASSUME NEW t \in Service, NEW u \in Service, ~LockFree(t)', cur'[t].id = cur'[u].id
          PROVE  t = u
      BY <1>0, <1>1, <2>3 DEF LockFree, Numbered
    <2> QED BY Zenon, <2>1, <2>2, <2>3 DEF Numbered
  <1>7. ASSUME NEW u \in Service, ~LockFree(u)'
        PROVE  Path(u)'
    <2>1. ~LockFree(u) /\ cur'[u].id = cur[u].id /\ mock'[u] = mock[u]
      BY <1>1, <1>7 DEF LockFree
    <2>2. Path(u)  BY <1>0, <2>1, Zenon DEF Window
    <2>3. \A d : Linked(u, d) => Linked(u, d)'  BY <1>1, <2>1, LinkedStays, Zenon
    <2>4. CASE u # s  BY <1>0, <1>1, <1>2, <2>1, <2>2, <2>3, <2>4 DEF Numbered, Path
    <2>5. CASE u = s
      <3>1. PICK i \in DOMAIN Tree[a].kids : cur'[s].at = Tree[a].kids[i]
        BY <1>1, <1>7, <2>5 DEF LockFree
      <3>2. Linked(s, cur[s].at)'
        <4>1. n \in log' /\ n.id = cur'[s].id /\ n.def = a  BY <1>1, <1>2, <2>1, <2>5
        <4> QED BY Zenon, <3>1, <4>1 DEF Linked
      <3>3. \A d : d = a => Linked(s, d)'  BY Zenon, <2>2, <2>3, <2>5 DEF Path
      <3>4. a # cur'[s].at
        <4>1. a \in Def  BY <1>1, Zenon
        <4> HIDE DEF a
        <4>2. Tree[a].kids[i] # a  BY <4>1, Kids, Zenon
        <4> QED BY Zenon, <3>1, <4>2
      <3>5. ASSUME NEW v \in log, v.id = cur[s].id
            PROVE  v.svc = s /\ v.def # cur'[s].at /\ Linked(s, v.def)'
        <4>1. v.def # Tree[a].kids[i]  BY <1>0, <1>1, <3>1, <3>5, NotYet, Zenon
        <4>2. v.svc = s /\ Linked(s, v.def)  BY <2>2, <2>5, <3>5, Zenon DEF Path
        <4> QED BY <2>3, <2>5, <3>1, <4>1, <4>2, Zenon
      <3>6. ASSUME NEW v \in log', v.id = cur'[s].id
            PROVE  v.svc = s /\ v.def # cur'[s].at /\ Linked(s, v.def)'
        BY <1>1, <1>2, <2>1, <2>5, <3>3, <3>4, <3>5, <3>6, Zenon
      <3> QED BY <2>5, <3>2, <3>6, Zenon DEF Path
    <2> QED BY <2>4, <2>5, Zenon
  <1>8. ASSUME NEW u \in Service, Unloaded(u)'
        PROVE  InDefault(u)'
    BY <1>0, <1>1, <1>2, <1>4, <1>8 DEF Unloaded, Window, Defined, InDefault
  <1>9. ASSUME NEW u \in Service, NEW d \in SubTree(mock[u]) \cup SubTree(Default[u])
        PROVE  calls'[d] = Cardinality(Visits(d)')
    <2>0. d \in Def /\ calls \in [Def -> Nat] /\ calls[d] = Cardinality(Visits(d))
      BY <1>0, Zenon DEF SubTree, TypeOK, Window, Counted
    <2>1. CASE d = a
      <3>1. Visits(d)' = Visits(d) \cup {n} /\ n \notin Visits(d)
        BY <1>1, <1>2, <1>3, <2>1, Zenon DEF Visits
      <3>2. IsFiniteSet(Visits(d))  BY <1>0, FS_Subset DEF Visits, Window
      <3>3. Cardinality(Visits(d) \cup {n}) = Cardinality(Visits(d)) + 1
        BY <3>1, <3>2, FS_AddElement, Zenon
      <3> QED BY <1>1, <2>0, <2>1, <3>1, <3>3, Zenon
    <2>2. CASE d # a
      <3>1. Visits(d)' = Visits(d)  BY <1>1, <1>2, <2>2, Zenon DEF Visits
      <3>2. calls'[d] = calls[d]  BY <1>1, <2>0, <2>2, Zenon
      <3> QED BY <2>0, <3>1, <3>2
    <2> QED BY <2>1, <2>2, Zenon
  <1>10. \A u \in Service : Counted(u)'
    BY <1>1, <1>9, Zenon DEF Counted
  <1> QED BY <1>5, <1>6, <1>7, <1>8, <1>10, Zenon DEF Window

LEMMA WindowAccept ==
    ASSUME WindowInv, NEW s \in Service, NEW r \in Request, Accept(s, r)
    PROVE  Window'
  <1>0. TypeOK /\ Window /\ Numbered /\ nreq \in Nat
    BY Bounds, Zenon DEF WindowInv, SeqInv, Window, TypeOK
  <1>1. /\ UNCHANGED <<mock, calls, pc, todo, log>> /\ nreq' = nreq + 1 /\ LockFree(s)
        /\ cur'[s].id = nreq + 1 /\ cur'[s].at = mock[s]
        /\ \A u \in Service \ {s} : cur'[u] = cur[u]
    BY <1>0, Zenon DEF Accept, TypeOK, mockVars, runnerVars
  <1>2. \A v \in log : v.id \in Nat /\ v.id <= nreq
    BY <1>0, VisitType, Bounds, Zenon DEF Numbered
  <1>3. \A u \in Service : cur[u].id \in Nat /\ cur[u].id <= nreq
    BY <1>0, Bounds, Zenon DEF TypeOK, Cursor, Numbered
  <1>4. Numbered'
    <2>1. \A v \in log' : v.id <= nreq' /\ Tree[v.def].root \in Roots(v.svc)
      BY <1>0, <1>1, <1>2, Later, Zenon DEF Numbered
    <2>2. \A u \in Service : cur'[u].id <= nreq'
      BY <1>0, <1>1, <1>3, Later, Zenon
    <2>3. ASSUME NEW t \in Service, NEW u \in Service, ~LockFree(t)', cur'[t].id = cur'[u].id
          PROVE  t = u
      BY <1>0, <1>1, <1>3, <2>3, Later, Zenon DEF LockFree, Numbered
    <2> QED BY <2>1, <2>2, <2>3, Zenon DEF Numbered
  <1>5. ASSUME NEW u \in Service, ~LockFree(u)'
        PROVE  Path(u)'
    <2>1. CASE u = s  BY <1>0, <1>1, <1>2, <2>1 DEF Linked, Path
    <2>2. CASE u # s
      <3>1. Path(u)  BY <1>0, <1>1, <1>5, <2>2, Zenon DEF Window, LockFree
      <3>2. cur'[u] = cur[u] /\ mock' = mock /\ log' = log  BY <1>1, <2>2
      <3>3. \A d : Linked(u, d) => Linked(u, d)'  BY Zenon, <3>2 DEF Linked
      <3>4. \A d : d = cur[u].at => Linked(u, d)'  BY <3>1, <3>3, Zenon DEF Path
      <3> QED BY Zenon, <3>1, <3>2, <3>3, <3>4 DEF Path
    <2> QED BY <2>1, <2>2, Zenon
  <1>6. \A u \in Service : /\ Unloaded(u)' => InDefault(u)'
                           /\ Counted(u)'
    BY <1>0, <1>1 DEF Window, Unloaded, InDefault, Counted, Visits
  <1> QED BY <1>0, <1>1, <1>4, <1>5, <1>6, Zenon DEF Window

\* A step that leaves cursors, numbers and the visits of busy services alone keeps
\* their paths and numbers.
LEMMA PathsStay ==
    ASSUME TypeOK, Window, NEW s \in Service, LockFree(s), UNCHANGED <<cur, nreq>>,
           log' \subseteq log, \A v \in log : v.svc # s => v \in log',
           \A u \in Service \ {s} : mock'[u] = mock[u]
    PROVE  IsFiniteSet(log') /\ Numbered' /\ \A u \in Service : ~LockFree(u)' => Path(u)'
  <1>1. IsFiniteSet(log')  BY FS_Subset, Zenon DEF Window
  <1>2. Numbered'  BY DEF Window, Numbered, LockFree
  <1>3. ASSUME NEW u \in Service, ~LockFree(u)'
        PROVE  Path(u)'
    <2>1. u # s /\ Path(u) /\ cur' = cur /\ mock'[u] = mock[u]
      BY <1>3, Zenon DEF LockFree, Window
    <2>2. \A v \in log : v.id = cur[u].id => v \in log'
      BY <2>1 DEF Path
    <2>3. ASSUME NEW d, Linked(u, d) PROVE Linked(u, d)'
      BY Zenon, <2>1, <2>2, <2>3 DEF Linked
    <2>4. \A d : d = cur[u].at => Linked(u, d)'  BY <2>1, <2>3, Zenon DEF Path
    <2> QED BY Zenon, <2>1, <2>3, <2>4 DEF Path
  <1> QED BY <1>1, <1>2, <1>3, Zenon

\* Zeroing the counters below a root of s without visits, whose log is cut down to
\* what other services recorded or not at all.
LEMMA CountedZero ==
    ASSUME TypeOK, Window, NEW s \in Service, NEW root \in Roots(s),
           \A v \in log' : Tree[v.def].root # root,
           log' \subseteq log, \A v \in log : v.svc # s => v \in log',
           calls' = Zeroed(calls, SubTree(root))
    PROVE  /\ \A d \in SubTree(root) : calls'[d] = Cardinality(Visits(d)')
           /\ \A u \in Service \ {s} : \A d \in SubTree(mock[u]) \cup SubTree(Default[u]) :
                 mock[u] \in Roots(u) => calls'[d] = Cardinality(Visits(d)')
  <1>1. calls \in [Def -> Nat]  BY Zenon DEF TypeOK
  <1>2. \A d \in Def : calls'[d] = IF d \in SubTree(root) THEN 0 ELSE calls[d]
    BY <1>1, ZeroedType
  <1>3. ASSUME NEW d \in SubTree(root)
        PROVE  calls'[d] = Cardinality(Visits(d)')
    <2>1. Visits(d)' = {}  BY <1>3, Zenon DEF Visits, SubTree
    <2> QED BY <1>2, <2>1, FS_EmptySet, Zenon DEF SubTree
  <1>4. ASSUME NEW u \in Service \ {s}, mock[u] \in Roots(u),
               NEW d \in SubTree(mock[u]) \cup SubTree(Default[u])
        PROVE  calls'[d] = Cardinality(Visits(d)')
    <2>1. d \in Def /\ Tree[d].root \in Roots(u)  BY <1>4, Zenon DEF SubTree, Roots
    <2>2. Tree[d].root # root  BY <2>1, RootsApart, Zenon
    <2>3. calls'[d] = calls[d]  BY <1>2, <2>1, <2>2, Zenon DEF SubTree
    <2>4. Visits(d)' = Visits(d)
      <3>1. \A v \in log : v.def = d => v \in log'  BY <2>1, Own, Zenon DEF Window
      <3> QED BY <3>1, Zenon DEF Visits
    <2> QED BY <1>4, <2>3, <2>4, Zenon DEF Window, Counted
  <1> QED BY <1>3, <1>4, Zenon

LEMMA WindowFrame ==
    ASSUME Window, UNCHANGED <<mock, calls, cur, nreq, log>>,
           \A s \in Service : Unloaded(s)' => Unloaded(s)
    PROVE  Window'
  <1>1. Numbered'  BY Zenon DEF Window, Numbered, LockFree
  <1>2. ASSUME NEW s \in Service, ~LockFree(s)' PROVE Path(s)'
    <2>1. Path(s)  BY <1>2 DEF Window, LockFree
    <2>2. \A d : Linked(s, d) => Linked(s, d)'  BY Zenon DEF Linked
    <2>3. \A d : d = cur[s].at => Linked(s, d)'  BY <2>1, <2>2, Zenon DEF Path
    <2> QED BY Zenon, <2>1, <2>2, <2>3 DEF Path
  <1>3. \A s \in Service : (Unloaded(s)' => InDefault(s)') /\ Counted(s)'
    BY DEF Window, InDefault, Counted, Visits
  <1> QED BY <1>1, <1>2, <1>3 DEF Window

LEMMA WindowRunner ==
    ASSUME WindowInv, RunnerStep
    PROVE  Window'
  <1> USE DEF mockVars, serveVars
  <1>0. TypeOK /\ SeqInv /\ Window /\ Numbered /\ Defined /\ mock \in [Service -> Def]
        /\ Mounted
    BY DEF WindowInv, SeqInv, Window, TypeOK
  <1>1. ASSUME UNCHANGED <<mock, calls, cur, nreq, log>>,
               \A s \in Service : Unloaded(s)' => Unloaded(s)
        PROVE  Window'
    BY <1>0, <1>1, WindowFrame, Zenon
  <1>2. CASE BeginTest \/ Respond \/ RequestError \/ Collect \/ FinishTest
    BY <1>1, <1>2, Zenon DEF BeginTest, Respond, RequestError, Collect, FinishTest, Unloaded
  <1>3. ASSUME NEW s \in todo, ResetDefinition(s) PROVE Window'
    BY <1>0, <1>3, PathsStay, Zenon DEF ResetDefinition, Iterate, TypeOK, Unloaded, Window,
      Counted, Visits
  <1>4. ASSUME NEW s \in todo, ResetRunningContext(s) PROVE Window'
    <2>1. /\ s \in Service /\ LockFree(s) /\ UNCHANGED <<mock, cur, nreq>>
          /\ calls' = Zeroed(calls, SubTree(mock[s]))
          /\ log' = {v \in log : v.svc # s}
          /\ pc = "resetCtx"
          /\ \/ todo = {s} /\ pc' \in {"load", "request"}
             \/ todo # {s} /\ pc' = pc /\ todo' = todo \ {s}
      BY <1>4, <1>0, Zenon DEF ResetRunningContext, Iterate, TypeOK
    <2>2. mock[s] = Default[s] /\ mock[s] \in Roots(s)
      BY <1>0, <2>1, Zenon DEF Defined, Mounted
    <2>3. IsFiniteSet(log') /\ Numbered' /\ \A u \in Service : ~LockFree(u)' => Path(u)'
      BY <1>0, <2>1, PathsStay, Zenon
    <2>4. \A v \in log' : Tree[v.def].root # mock[s]
      BY <1>0, <2>1, <2>2, Own, Zenon
    <2>5. \A u \in Service : Unloaded(u)' => InDefault(u)'
      BY <1>0, <2>1, Zenon DEF Unloaded, InDefault, Window
    <2>6. /\ \A d \in SubTree(mock[s]) : calls'[d] = Cardinality(Visits(d)')
          /\ \A u \in Service \ {s} : \A d \in SubTree(mock[u]) \cup SubTree(Default[u]) :
                 mock[u] \in Roots(u) => calls'[d] = Cardinality(Visits(d)')
      BY <1>0, <2>1, <2>2, <2>4, CountedZero, Zenon
    <2>7. \A u \in Service : Counted(u)'
      BY <1>0, <2>1, <2>2, <2>6, Zenon DEF Mounted, Counted
    <2> QED BY <2>3, <2>5, <2>7, Zenon DEF Window
  <1>5. ASSUME NEW s \in todo, LoadDefinition(s) PROVE Window'
    <2> DEFINE root == Mocks[test][s]
    <2>1. /\ s \in Service /\ LockFree(s) /\ UNCHANGED <<cur, nreq, log>>
          /\ mock' = [mock EXCEPT ![s] = root]
          /\ calls' = Zeroed(calls, SubTree(root))
          /\ pc = "load" /\ s \in DOMAIN Mocks[test] /\ test \in 1..NTests
          /\ \/ pc' = "request"
             \/ pc' = pc /\ todo' = todo \ {s}
      BY Zenon, <1>5, <1>0 DEF LoadDefinition, Iterate, TypeOK
    <2>2. root \in Roots(s) /\ root # Default[s] /\ Unloaded(s)
      BY <2>1, TreeAssumption DEF Roots, Unloaded
    <2> HIDE DEF root
    <2>3. \A u \in Service : mock'[u] = IF u = s THEN root ELSE mock[u]
      BY <1>0, <2>1, Zenon
    <2>4. IsFiniteSet(log') /\ Numbered' /\ \A u \in Service : ~LockFree(u)' => Path(u)'
      BY <1>0, <2>1, <2>3, PathsStay, Zenon
    <2>5. ASSUME NEW v \in log' PROVE Tree[v.def].root # root
      BY <1>0, <2>1, <2>2, Own, Zenon DEF Window, InDefault
    <2>6. \A u \in Service : Unloaded(u)' => InDefault(u)'
      BY <1>0, <2>1, Zenon DEF Unloaded, InDefault, Window
    <2>7. /\ \A d \in SubTree(root) : calls'[d] = Cardinality(Visits(d)')
          /\ \A u \in Service \ {s} : \A d \in SubTree(mock[u]) \cup SubTree(Default[u]) :
                 mock[u] \in Roots(u) => calls'[d] = Cardinality(Visits(d)')
      BY <1>0, <2>1, <2>2, <2>5, CountedZero, Zenon
    <2>8. ASSUME NEW d \in SubTree(Default[s]) PROVE calls'[d] = Cardinality(Visits(d)')
      <3>1. d \in Def /\ d \notin SubTree(root)  BY <2>2, <2>8, Zenon DEF SubTree
      <3>2. calls'[d] = calls[d]
        <4>1. calls \in [Def -> Nat]  BY <1>0, Zenon DEF TypeOK
        <4> QED BY <2>1, <3>1, <4>1, ZeroedType
      <3>3. Visits(d)' = Visits(d)  BY <2>1, Zenon DEF Visits
      <3> QED BY <1>0, <2>1, <2>8, <3>2, <3>3, Zenon DEF Window, Counted
    <2>9. \A u \in Service : Counted(u)'
      BY <1>0, <2>1, <2>3, <2>7, <2>8, Zenon DEF Mounted, Counted
    <2> QED BY <2>4, <2>6, <2>9, Zenon DEF Window
  <1>6. ASSUME NEW s \in todo, LoadError(s) \/ EndRunningContext(s) PROVE Window'
    BY <1>1, <1>6, Zenon DEF LoadError, EndRunningContext, Unloaded
  <1> QED BY Zenon, <1>2, <1>3, <1>4, <1>5, <1>6 DEF RunnerStep

LEMMA WindowStep == WindowInv /\ [Next]_vars => WindowInv'
  <1> SUFFICES ASSUME WindowInv, [Next]_vars PROVE WindowInv'
    OBVIOUS
  <1>0. SeqInv' /\ Defined'  BY SeqStep, DefinedStep, Zenon DEF WindowInv, SeqInv
  <1>1. CASE RunnerStep  BY <1>0, <1>1, WindowRunner, Zenon DEF WindowInv
  <1>2. CASE \E s \in Service : Serve(s)  BY <1>0, <1>2, WindowServe DEF WindowInv
  <1>3. CASE \E s \in Service, r \in Request : Accept(s, r)
    BY <1>0, <1>3, WindowAccept, Zenon DEF WindowInv
  <1>4. CASE UNCHANGED vars
    BY <1>0, <1>4, WindowFrame, Zenon DEF vars, mockVars, serveVars, runnerVars, Unloaded,
      WindowInv
  <1> QED BY <1>1, <1>2, <1>3, <1>4 DEF Next

LEMMA WindowInit == Init => WindowInv
  <1> SUFFICES ASSUME Init PROVE WindowInv
    BY Zenon
  <1>1. SeqInv /\ Defined  BY SeqInit DEF Init, Defined, DefinitionsOfTheTest
  <1>2. log = {} /\ nreq = 0 /\ pc = "idle" /\ calls = [d \in Def |-> 0]  BY Zenon DEF Init
  <1>3. \A s \in Service : LockFree(s) /\ cur[s].id = 0
    BY FreeType, Zenon DEF Init, LockFree
  <1>4. IsFiniteSet(log) /\ Cardinality({}) = 0  BY <1>2, FS_EmptySet
  <1>5. \A d \in Def : Visits(d) = {} /\ calls[d] = 0  BY <1>2, Zenon DEF Visits
  <1>6. \A s \in Service : Counted(s)  BY <1>4, <1>5 DEF Counted, SubTree
  <1> QED BY <1>1, <1>2, <1>3, <1>4, <1>6 DEF WindowInv, Window, Numbered, Unloaded

\* For any definition trees, tests and interleaving of requests with resets and
\* loads: Definition.calls of a mounted definition is the number of requests that
\* reached it since the running context of its service was reset.
THEOREM CallsAreCounted == Spec => []CallsCountWindow
  <1>1. WindowInv => CallsCountWindow
    BY DEF WindowInv, Window, Counted, CallsCountWindow
  <1> QED BY <1>1, WindowInit, WindowStep, PTL DEF Spec

-----------------------------------------------------------------------------
(* A mismatch of calls fails the test.  The counters are compared when the  *)
(* running context of a service ends; from its reset to that moment no      *)
(* visit is late, from that moment on every visit is, so that the number of *)
(* visits in time is the number compared.  A request that ends afterwards   *)
(* may overwrite mismatches, but only with as many errors of its own.       *)

\* The running context of s has been reset and not yet ended.
Open(s) ==
    \/ pc = "resetCtx" /\ s \notin todo
    \/ pc \in {"load", "request"}
    \/ pc \in {"end", "collect"} /\ s \in todo

\* The running context of s has been ended in this test.
Closed(s) == pc \in {"end", "collect", "verdict"} /\ s \notin todo

Punctual ==
    /\ pc = "verdict" => todo = {}
    /\ \A s \in Service : Open(s) => \A v \in log : v.svc = s => ~v.late
    /\ \A s \in Service : Closed(s) /\ ~LockFree(s) =>
          \A v \in log : v.id = cur[s].id => v.late

InTime(d) == {v \in Visits(d) : ~v.late}

Missed(s) ==
    \E d \in SubTree(mock[s]) : Tree[d].calls # -1 /\ Tree[d].calls # Cardinality(InTime(d))

Failed ==
    /\ \A s \in Service : \A e \in cur[s].errs : e.svc = s
    /\ \A s \in Service : Closed(s) /\ Missed(s) =>
          \/ \E e \in result : e.svc = s
          \/ pc = "collect" /\ taken.svc = s /\ \E e \in taken.mismatch : e.svc = s

\* What the runner's steps do to open and ended running contexts.
LEMMA Phases ==
    ASSUME TypeOK, Punctual, RunnerStep
    PROVE  /\ UNCHANGED <<cur, nreq, reply>> /\ log' \subseteq log
           /\ pc' = "verdict" => todo' = {}
           /\ \A u \in Service :
                 /\ Open(u)' => Open(u) \/ \A v \in log' : v.svc # u
                 /\ Closed(u)' => Closed(u) \/ EndRunningContext(u)
                 /\ Closed(u)' => UNCHANGED <<mock, log, errors>>
  <1> USE DEF mockVars, serveVars, Open, Closed
  <1>1. CASE BeginTest  BY Zenon, <1>1 DEF BeginTest
  <1>2. CASE Respond  BY <1>2 DEF Respond
  <1>3. CASE RequestError \/ FinishTest
    BY Zenon, <1>3 DEF RequestError, FinishTest
  <1>4. CASE Collect  BY <1>4, Zenon DEF Collect
  <1>5. ASSUME NEW s \in todo, ResetDefinition(s)
        PROVE  /\ UNCHANGED <<cur, nreq, reply>> /\ log' \subseteq log
               /\ pc' = "resetDefs" \/ (pc' = "resetCtx" /\ todo' = Service)
    BY <1>5, Zenon DEF ResetDefinition, Iterate
  <1>6. ASSUME NEW s \in todo, ResetRunningContext(s)
        PROVE  /\ UNCHANGED <<cur, nreq, reply>> /\ log' \subseteq log
               /\ pc' \in {"resetCtx", "load", "request"}
               /\ \A u \in Service : Open(u)' => Open(u) \/ \A v \in log' : v.svc # u
    BY <1>6, Zenon DEF ResetRunningContext, Iterate
  <1>7. ASSUME NEW s \in todo, LoadDefinition(s)
        PROVE  /\ UNCHANGED <<cur, nreq, reply, log>>
               /\ pc = "load" /\ pc' \in {"load", "request"}
    BY <1>7 DEF LoadDefinition, Iterate
  <1>8. ASSUME NEW s \in todo, LoadError(s)
        PROVE  UNCHANGED <<cur, nreq, reply, log>> /\ pc' = "idle"
    BY <1>8, Zenon DEF LoadError
  <1>9. ASSUME NEW s \in todo, EndRunningContext(s)
        PROVE  /\ UNCHANGED <<mock, errors, cur, nreq, reply, log>>
               /\ pc = "end" /\ pc' = "collect" /\ todo' = todo \ {s}
    BY <1>9, Zenon DEF EndRunningContext
  <1>10. ASSUME NEW s \in todo, EndRunningContext(s), NEW u \in Service, Closed(u)'
         PROVE  Closed(u) \/ EndRunningContext(u)
    BY <1>9, <1>10, Zenon
  <1>11. CASE \E s \in todo : EndRunningContext(s)  BY <1>9, <1>10, <1>11, Zenon
  <1>12. CASE \E s \in todo : ResetDefinition(s) \/ ResetRunningContext(s)
                                 \/ LoadDefinition(s) \/ LoadError(s)
    BY <1>5, <1>6, <1>7, <1>8, <1>12, Zenon
  <1> QED BY Zenon, <1>1, <1>2, <1>3, <1>4, <1>11, <1>12 DEF RunnerStep

FailedInv == WindowInv /\ Punctual /\ Failed

\* What a serving step does to the errors of its service.
LEMMA ServeErrors ==
    ASSUME TypeOK, NEW s \in Service, Serve(s)
    PROVE  \E errs \in SUBSET ErrorsOf(s) :
              /\ Verified(s) \subseteq errs
              /\ \/ /\ cur'[s].id = 0 /\ cur'[s].errs = {}
                    /\ errors'[s] = errors[s] \cup errs
                    /\ reply'[cur[s].id] \in {"answered", "dropped"} \/ Explained(s, errs)
                    /\ Overwrite(s, errs)
                 \/ /\ cur'[s].id = cur[s].id /\ cur'[s].errs = errs
                    /\ errors'[s] = errors[s] /\ reply' = reply /\ taken' = taken
  <1>1. Leaves(s) \/ GoesDown(s)  BY ServeShape, Zenon
  <1>2. /\ cur[s] \in Cursor /\ cur \in [Service -> Cursor]
        /\ errors \in [Service -> SUBSET Error] /\ reply \in [1..MaxRequests -> Reply]
        /\ cur[s].id \in 1..MaxRequests
    BY ServeFrame, Zenon DEF TypeOK
  <1>3. CASE Leaves(s)
    <2>1. PICK errs \in SUBSET ErrorsOf(s), why \in Reply :
            /\ Return(s, errs, why) /\ Verified(s) \subseteq errs
            /\ why \in {"answered", "dropped"} \/ Explained(s, errs)
      BY <1>3, Zenon DEF Leaves
    <2>2. cur'[s].id = 0 /\ cur'[s].errs = {}  BY <1>2, <2>1, Zenon DEF Return, Free
    <2>3. /\ errors'[s] = errors[s] \cup errs
          /\ reply'[cur[s].id] = why
      BY <1>2, <2>1, Zenon DEF Return
    <2> QED BY <2>1, <2>2, <2>3, Zenon DEF Return
  <1>4. CASE GoesDown(s)
    <2>1. PICK i \in DOMAIN Tree[cur[s].at].kids, verify \in BOOLEAN,
               errs \in SUBSET ErrorsOf(s) :
            /\ Verified(s) \subseteq errs
            /\ Descend(s, Tree[cur[s].at].kids[i], verify, errs)
      BY Zenon, <1>4 DEF GoesDown
    <2>2. cur'[s].id = cur[s].id /\ cur'[s].errs = errs
      BY <1>2, <2>1, Zenon DEF Descend, Cursor
    <2>3. errors' = errors /\ reply' = reply /\ taken' = taken
      BY <2>1, Zenon DEF Descend, runnerVars
    <2> QED BY Zenon, <2>1, <2>2, <2>3
  <1> QED BY <1>1, <1>3, <1>4

\* A visit is in time exactly while the running context is open.
LEMMA VisitingInTime ==
    ASSUME NEW s
    PROVE  (Open(s) => ~Ended(s)) /\ (Closed(s) => Ended(s))
  BY Zenon DEF Open, Closed, Ended

LEMMA PunctualServe ==
    ASSUME WindowInv, Punctual, NEW s \in Service, Serve(s)
    PROVE  Punctual'
  <1>0. TypeOK /\ Numbered  BY Zenon DEF WindowInv, SeqInv, Window
  <1> DEFINE n == Visiting(s)
  <1>1. /\ ~LockFree(s) /\ log' = log \cup {n}
        /\ UNCHANGED <<pc, todo>>
        /\ \A u \in Service \ {s} : cur'[u] = cur[u]
        /\ cur'[s].id \in {0, cur[s].id}
    BY Zenon, <1>0, ServeFrame
  <1>2. n.id = cur[s].id /\ n.svc = s /\ n.late = Ended(s)  BY Zenon DEF Visiting
  <1> HIDE DEF n
  <1>3. \A u \in Service : (Open(u)' <=> Open(u)) /\ (Closed(u)' <=> Closed(u))
    BY <1>1, Zenon DEF Open, Closed
  <1>4. ASSUME NEW u \in Service, Open(u), NEW v \in log', v.svc = u
        PROVE  ~v.late
    BY <1>1, <1>2, <1>4, VisitingInTime, Zenon DEF Punctual
  <1>5. ASSUME NEW u \in Service, Closed(u), ~LockFree(u)', NEW v \in log',
               v.id = cur'[u].id
        PROVE  v.late
    <2>1. ~LockFree(u) /\ cur'[u].id = cur[u].id  BY <1>1, <1>5, Zenon DEF LockFree
    <2>2. CASE v \in log  BY <1>5, <2>1, <2>2, Zenon DEF Punctual
    <2>3. CASE v = n
      <3>1. u = s  BY <1>0, <1>2, <1>5, <2>1, <2>3, Zenon DEF Numbered
      <3> QED BY <1>2, <1>5, <2>3, <3>1, VisitingInTime, Zenon
    <2> QED BY <1>1, <2>2, <2>3, Zenon
  <1> QED BY <1>1, <1>3, <1>4, <1>5, Zenon DEF Punctual

LEMMA PunctualAccept ==
    ASSUME WindowInv, Punctual, NEW s \in Service, NEW r \in Request, Accept(s, r)
    PROVE  Punctual'
  <1>0. TypeOK /\ Numbered /\ nreq \in Nat
    BY Bounds, Zenon DEF WindowInv, SeqInv, Window, TypeOK
  <1>1. /\ UNCHANGED <<pc, todo, log>> /\ cur'[s].id = nreq + 1
        /\ \A u \in Service \ {s} : cur'[u] = cur[u]
    BY <1>0, Zenon DEF Accept, runnerVars, TypeOK
  <1>2. \A v \in log : v.id \in Nat /\ v.id <= nreq
    BY <1>0, VisitType, Bounds, Zenon DEF Numbered
  <1>3. \A v \in log : v.id # cur'[s].id  BY <1>0, <1>1, <1>2, Later, Zenon
  <1> QED BY <1>1, <1>3, Zenon DEF Punctual, Open, Closed, LockFree

LEMMA PunctualRunner ==
    ASSUME TypeOK, Punctual, RunnerStep
    PROVE  Punctual'
  <1>1. /\ UNCHANGED cur /\ log' \subseteq log
        /\ pc' = "verdict" => todo' = {}
        /\ \A u \in Service :
              /\ Open(u)' => Open(u) \/ \A v \in log' : v.svc # u
              /\ Closed(u)' => Closed(u) \/ EndRunningContext(u)
    BY Phases, Zenon
  <1>2. \A u \in Service : EndRunningContext(u) => LockFree(u)
    BY Zenon DEF EndRunningContext
  <1>3. \A u \in Service : Open(u)' => \A v \in log' : v.svc = u => ~v.late
    BY <1>1, Zenon DEF Punctual
  <1>4. \A u \in Service : Closed(u)' /\ ~LockFree(u)' =>
            \A v \in log' : v.id = cur'[u].id => v.late
    BY <1>1, <1>2, Zenon DEF Punctual, LockFree
  <1> QED BY <1>1, <1>3, <1>4, Zenon DEF Punctual

\* A late visit, or one of another service, does not change who came in time.
LEMMA MissedStays ==
    ASSUME WindowInv, NEW s \in Service, Serve(s), NEW u \in Service, Closed(u), Missed(u)'
    PROVE  Missed(u)
  <1> DEFINE n == Visiting(s)
  <1>0. TypeOK /\ SeqInv  BY DEF WindowInv, SeqInv
  <1>1. ~LockFree(s) /\ log' = log \cup {n} /\ mock' = mock
    BY Zenon, <1>0, ServeFrame
  <1>2. n.def = cur[s].at /\ n.late = Ended(s)  BY Zenon DEF Visiting
  <1> HIDE DEF n
  <1>3. PICK d \in SubTree(mock[u]) :
           Tree[d].calls # -1 /\ Tree[d].calls # Cardinality(InTime(d)')
    BY <1>1, Zenon DEF Missed
  <1>4. n.late \/ n.def # d
    BY <1>0, <1>1, <1>2, <1>3, VisitingInTime, RootsApart, Zenon DEF SeqInv, InTree,
      Mounted, SubTree
  <1>5. InTime(d)' = InTime(d)  BY <1>1, <1>4, Zenon DEF InTime, Visits
  <1> QED BY <1>3, <1>5 DEF Missed

LEMMA FailedServe ==
    ASSUME FailedInv, NEW s \in Service, Serve(s)
    PROVE  Failed'
  <1>0. TypeOK /\ WindowInv /\ Failed  BY DEF FailedInv, WindowInv, SeqInv
  <1>1. /\ UNCHANGED <<pc, todo, result>>
        /\ \A u \in Service \ {s} : cur'[u] = cur[u]
    BY Zenon, <1>0, ServeFrame
  <1>2. PICK errs \in SUBSET ErrorsOf(s) :
           /\ cur'[s].errs = {} \/ cur'[s].errs = errs
           /\ Overwrite(s, errs)
    BY <1>0, ServeErrors, Zenon DEF Overwrite
  <1>3. \A e \in errs : e.svc = s  BY <1>0, <1>2, Zenon DEF Failed, ErrorsOf
  <1>4. \A u \in Service : \A e \in cur'[u].errs : e.svc = u
    BY <1>0, <1>1, <1>2, <1>3, Zenon DEF Failed
  <1>5. ASSUME NEW u \in Service, Closed(u)', Missed(u)'
        PROVE  \/ \E e \in result' : e.svc = u
               \/ pc' = "collect" /\ taken'.svc = u /\ \E e \in taken'.mismatch : e.svc = u
    <2>1. Closed(u) /\ Missed(u)  BY <1>0, <1>1, <1>5, MissedStays, Zenon DEF Closed
    <2>2. \/ \E e \in result : e.svc = u
          \/ pc = "collect" /\ taken.svc = u /\ \E e \in taken.mismatch : e.svc = u
      BY <1>0, <2>1, Zenon DEF Failed
    <2>3. CASE taken' = taken  BY <1>1, <2>2, <2>3, Zenon
    <2>4. CASE taken' # taken
      <3>1. pc = "collect" /\ taken.svc = s  BY <1>2, <2>4, Zenon DEF Overwrite
      <3>2. PICK lost \in SUBSET taken.mismatch, got \in SUBSET errs :
              /\ got # {}
              /\ taken' = [taken EXCEPT !.mismatch = (@ \ lost) \cup got]
        BY <1>2, <2>4, Zenon DEF Overwrite
      <3>5. taken'.svc = taken.svc /\ got \subseteq taken'.mismatch
        BY <1>0, <3>2, Zenon DEF TypeOK, Slice
      <3>6. \E e \in taken'.mismatch : e.svc = s  BY <1>3, <3>2, <3>5, Zenon
      <3> QED BY <1>1, <2>2, <3>1, <3>5, <3>6, Zenon
    <2> QED BY <2>3, <2>4, Zenon
  <1> QED BY <1>4, <1>5 DEF Failed

LEMMA FailedAccept ==
    ASSUME TypeOK, Failed, NEW s \in Service, NEW r \in Request, Accept(s, r)
    PROVE  Failed'
  <1>1. /\ UNCHANGED <<mock, pc, todo, taken, result, log>> /\ cur'[s].errs = {}
        /\ \A u \in Service \ {s} : cur'[u] = cur[u]
    BY Zenon DEF Accept, mockVars, runnerVars, TypeOK
  <1>2. \A u \in Service : (Closed(u)' <=> Closed(u)) /\ (Missed(u)' <=> Missed(u))
    BY <1>1, Zenon DEF Closed, Missed, InTime, Visits
  <1> QED BY <1>1, <1>2, Zenon DEF Failed

\* The counter that Definition.EndRunningContext compares is the number of visits in
\* time, so that a missed number of calls is a mismatch.
LEMMA MissedIsMismatch ==
    ASSUME WindowInv, Punctual, NEW s \in Service, EndRunningContext(s), Missed(s)
    PROVE  \E e \in Mismatches(s) : e.svc = s
  <1>0. TypeOK /\ Numbered /\ mock[s] \in Roots(s)
    BY Zenon DEF WindowInv, SeqInv, Window, Mounted
  <1>1. PICK d \in SubTree(mock[s]) :
           Tree[d].calls # -1 /\ Tree[d].calls # Cardinality(InTime(d))
    BY Zenon DEF Missed
  <1>2. Open(s)  BY Zenon DEF EndRunningContext, Open
  <1>3. InTime(d) = Visits(d)
    BY <1>0, <1>1, <1>2, Own, Zenon DEF InTime, Visits, SubTree, Punctual
  <1>4. calls[d] = Cardinality(Visits(d))
    BY <1>1, Zenon DEF WindowInv, Window, Counted
  <1>5. d \in {e \in SubTree(mock[s]) : Tree[e].calls # -1 /\ calls[e] # Tree[e].calls}
    BY <1>1, <1>3, <1>4, Zenon
  <1>6. [kind |-> "calls", svc |-> s, def |-> d, id |-> 0, stamp |-> 0] \in Mismatches(s)
    BY <1>5 DEF Mismatches
  <1> QED BY <1>6, Zenon

\* While running contexts end, the result only grows and loses no slice.
LEMMA ResultGrows ==
    ASSUME RunnerStep, NEW u, Closed(u)'
    PROVE  \/ UNCHANGED result /\ pc # "collect"
           \/ result' = result \cup taken.served \cup taken.mismatch
  <1>1. CASE BeginTest \/ Respond \/ RequestError \/ FinishTest \/ Collect
    BY <1>1, Zenon DEF BeginTest, Respond, RequestError, FinishTest, Collect, Closed
  <1>2. ASSUME NEW s \in todo, \/ ResetDefinition(s) \/ ResetRunningContext(s)
                               \/ LoadDefinition(s) \/ LoadError(s)
                               \/ EndRunningContext(s)
        PROVE  UNCHANGED result /\ pc # "collect"
    BY Zenon, <1>2 DEF ResetDefinition, ResetRunningContext, LoadDefinition, LoadError,
                  EndRunningContext, Iterate
  <1> QED BY Zenon, <1>1, <1>2 DEF RunnerStep

LEMMA FailedRunner ==
    ASSUME FailedInv, RunnerStep
    PROVE  Failed'
  <1>0. TypeOK /\ WindowInv /\ Punctual /\ Failed  BY Zenon DEF FailedInv, WindowInv, SeqInv
  <1>1. /\ UNCHANGED cur
        /\ \A u \in Service :
              /\ Closed(u)' => Closed(u) \/ EndRunningContext(u)
              /\ Closed(u)' => UNCHANGED <<mock, log>>
    BY <1>0, Phases, Zenon
  <1>2. ASSUME NEW u \in Service, Closed(u)', Missed(u)'
        PROVE  \/ \E e \in result' : e.svc = u
               \/ pc' = "collect" /\ taken'.svc = u /\ \E e \in taken'.mismatch : e.svc = u
    <2>1. Missed(u)  BY Zenon, <1>1, <1>2 DEF Missed, InTime, Visits
    <2>2. CASE EndRunningContext(u)
      BY <1>0, <2>1, <2>2, MissedIsMismatch, Zenon DEF EndRunningContext
    <2>3. CASE Closed(u) /\ ~EndRunningContext(u)
      BY <1>0, <1>2, <2>1, <2>3, ResultGrows, Zenon DEF Failed
    <2> QED BY <1>1, <1>2, <2>2, <2>3
  <1> QED BY <1>0, <1>1, <1>2 DEF Failed

LEMMA FailedStep == FailedInv /\ [Next]_vars => FailedInv'
  <1> SUFFICES ASSUME FailedInv, [Next]_vars PROVE FailedInv'
    OBVIOUS
  <1>0. TypeOK /\ WindowInv /\ Punctual /\ Failed /\ WindowInv'
    BY WindowStep, Zenon DEF FailedInv, WindowInv, SeqInv
  <1>1. CASE RunnerStep
    BY <1>0, <1>1, PunctualRunner, FailedRunner, Zenon DEF FailedInv
  <1>2. CASE \E s \in Service : Serve(s)
    BY <1>0, <1>2, PunctualServe, FailedServe, Zenon DEF FailedInv
  <1>3. CASE \E s \in Service, r \in Request : Accept(s, r)
    BY <1>0, <1>3, PunctualAccept, FailedAccept, Zenon DEF FailedInv
  <1>4. CASE UNCHANGED vars
    BY <1>0, <1>4 DEF vars, mockVars, serveVars, runnerVars, Punctual, Open, Closed,
      LockFree, Failed, Missed, InTime, Visits, FailedInv
  <1> QED BY <1>1, <1>2, <1>3, <1>4 DEF Next

LEMMA FailedInit == Init => FailedInv
  <1> SUFFICES ASSUME Init PROVE FailedInv
    BY Zenon
  <1>1. pc = "idle" /\ \A s \in Service : cur[s].errs = {}  BY DEF Init, Free
  <1> QED BY <1>1, WindowInit, Zenon DEF FailedInv, Punctual, Failed, Open, Closed

\* For any trees and interleavings: a test whose mounted definitions were not reached
\* as often as their `calls` say before the running context ended has an error of that
\* service in its result, also when the slice of EndRunningContext is overwritten.
THEOREM MismatchesFail == Spec => []MismatchFailsTest
  <1>1. FailedInv => MismatchFailsTest
    <2> SUFFICES ASSUME FailedInv, pc = "verdict", NEW s \in Service, Missed(s)
                 PROVE  \E e \in result : e.svc = s
      BY Zenon DEF MismatchFailsTest, Missed, InTime
    <2>1. Closed(s)  BY Zenon DEF FailedInv, Punctual, Closed
    <2> QED BY <2>1, Zenon DEF FailedInv, Failed
  <1> QED BY <1>1, FailedInit, FailedStep, PTL DEF Spec

-----------------------------------------------------------------------------
(* Offenders are reported.  An error of a request is first in the error     *)
(* list that travels with the request, then in the list of the service,     *)
(* then in the slice EndRunningContext took, then in the result.  The       *)
(* running context ends with the lock of the service held, so that a        *)
(* request with a visit in time has delivered its errors by then.           *)

Offends(v) == v.verify /\ v.req \in Tree[v.def].violates
Unanswered(v) == reply[v.id] \notin {"none", "answered", "dropped"}

Names(errs, v) == \E e \in errs : e.id = v.id /\ e.def = v.def /\ e.kind = "constraint"
Explains(errs, v) == \E e \in errs : e.id = v.id /\ e.kind # "constraint"

\* The errors of s that are, or are bound to be, in the result.
Told(s) == result \cup IF pc = "collect" /\ taken.svc = s THEN taken.served ELSE {}

Reported ==
    /\ \A i \in 1..MaxRequests : i > nreq => reply[i] = "none"
    /\ \A s \in Service : ~LockFree(s) => reply[cur[s].id] = "none"
    /\ \A v \in log : Offends(v) =>
          \/ Names(errors[v.svc], v)
          \/ cur[v.svc].id = v.id /\ Names(cur[v.svc].errs, v)
    /\ \A v \in log : Unanswered(v) => Explains(errors[v.svc], v)
    /\ \A v \in log : ~v.late /\ Closed(v.svc) =>
          /\ Offends(v) => Names(Told(v.svc), v)
          /\ Unanswered(v) => Explains(Told(v.svc), v)

ReportInv == WindowInv /\ Punctual /\ Reported

LEMMA MoreNames ==
    ASSUME NEW es, NEW fs, es \subseteq fs, NEW v
    PROVE  (Names(es, v) => Names(fs, v)) /\ (Explains(es, v) => Explains(fs, v))
  BY Zenon DEF Names, Explains

LEMMA ReportedServe ==
    ASSUME ReportInv, NEW s \in Service, Serve(s)
    PROVE  Reported'
  <1> DEFINE n == Visiting(s)
  <1>0. TypeOK /\ WindowInv /\ Numbered /\ Punctual /\ Reported
    BY DEF ReportInv, WindowInv, SeqInv, Window
  <1>1. /\ ~LockFree(s) /\ cur[s].id \in 1..MaxRequests /\ log' = log \cup {n}
        /\ UNCHANGED <<nreq, pc, todo, result>>
        /\ \A u \in Service \ {s} : cur'[u] = cur[u] /\ errors'[u] = errors[u]
        /\ \A i \in 1..MaxRequests \ {cur[s].id} : reply'[i] = reply[i]
    BY Zenon, <1>0, ServeFrame
  <1>2. PICK errs \in SUBSET ErrorsOf(s) :
              /\ Verified(s) \subseteq errs
              /\ \/ /\ cur'[s].id = 0 /\ cur'[s].errs = {}
                    /\ errors'[s] = errors[s] \cup errs
                    /\ reply'[cur[s].id] \in {"answered", "dropped"} \/ Explained(s, errs)
                    /\ Overwrite(s, errs)
                 \/ /\ cur'[s].id = cur[s].id /\ cur'[s].errs = errs
                    /\ errors'[s] = errors[s] /\ reply' = reply /\ taken' = taken
    BY Zenon, <1>0, ServeErrors
  <1>3. /\ n.id = cur[s].id /\ n.svc = s /\ n.def = cur[s].at /\ n.late = Ended(s)
        /\ n.req = cur[s].req /\ n.verify = cur[s].verify
    BY Zenon DEF Visiting
  <1> HIDE DEF n
  <1>4. cur[s].errs \subseteq errs  BY <1>2, Zenon DEF Verified
  <1>5. Offends(n) => Names(errs, n)
    BY <1>2, <1>3, Zenon DEF Offends, Verified, Violates, Names, ErrorAt
  <1>6. \A v \in log' : v.svc \in Service /\ (v # n => v \in log)
    BY <1>0, <1>1, <1>3, VisitType, Zenon
  <1>7. /\ \A i \in 1..MaxRequests : i > nreq' => reply'[i] = "none"
        /\ \A u \in Service : ~LockFree(u)' => reply'[cur'[u].id] = "none"
    <2>1. cur[s].id <= nreq /\ nreq \in Nat  BY <1>0, Bounds, Zenon DEF Numbered, TypeOK
    <2>2. \A i \in 1..MaxRequests : i > nreq => i # cur[s].id  BY <1>1, <2>1
    <2>3. ASSUME NEW u \in Service, ~LockFree(u)' PROVE reply'[cur'[u].id] = "none"
      <3>1. CASE u = s  BY <1>0, <1>1, <1>2, <2>3, <3>1, Zenon DEF Reported, LockFree
      <3>2. CASE u # s
        <4>1. ~LockFree(u) /\ cur'[u] = cur[u]  BY <1>1, <2>3, <3>2, Zenon DEF LockFree
        <4>2. cur[u].id # cur[s].id  BY <1>0, <3>2, <4>1, Zenon DEF Numbered
        <4>3. cur[u].id \in 1..MaxRequests
          <5>1. cur[u].id \in 0..MaxRequests /\ cur[u].id # 0
            BY <1>0, <4>1, Zenon DEF LockFree, TypeOK, Cursor
          <5> QED BY <5>1, Constants
        <4> QED BY <1>0, <1>1, <4>1, <4>2, <4>3, Zenon DEF Reported
      <3> QED BY <3>1, <3>2, Zenon
    <2> QED BY <1>0, <1>1, <2>2, <2>3, Zenon DEF Reported
  <1>8. ASSUME NEW v \in log', Offends(v)
        PROVE  \/ Names(errors'[v.svc], v)
               \/ cur'[v.svc].id = v.id /\ Names(cur'[v.svc].errs, v)
    <2>1. CASE v.svc # s  BY <1>0, <1>1, <1>3, <1>6, <1>8, <2>1, Zenon DEF Reported
    <2>2. CASE v.svc = s
      <3>1. Names(errors[s], v) \/ (cur[s].id = v.id /\ Names(errs, v))
        BY <1>0, <1>3, <1>4, <1>5, <1>6, <1>8, <2>2, MoreNames, Zenon DEF Reported
      <3>2. CASE errors'[s] = errors[s] \cup errs  BY <2>2, <3>1, <3>2, MoreNames, Zenon
      <3>3. CASE cur'[s].id = cur[s].id /\ cur'[s].errs = errs /\ errors'[s] = errors[s]
        BY <2>2, <3>1, <3>3, Zenon
      <3> QED BY <1>2, <3>2, <3>3, Zenon
    <2> QED BY <2>1, <2>2
  <1>14. \A v \in log' : v.id \in 1..MaxRequests /\ (v.id = cur[s].id => v.svc = s)
    BY <1>0, <1>1, <1>3, <1>6, VisitType, Zenon DEF WindowInv, Window, Path
  <1>9. ASSUME NEW v \in log', Unanswered(v)'
        PROVE  Explains(errors'[v.svc], v)
    <2>1. v.svc \in Service /\ v.id \in 1..MaxRequests  BY <1>6, <1>14
    <2>2. CASE reply'[v.id] = reply[v.id]
      <3>1. Unanswered(v)  BY <1>9, <2>2, Zenon DEF Unanswered
      <3>2. v \in log => Explains(errors[v.svc], v)  BY <1>0, <3>1, Zenon DEF Reported
      <3>3. errors[v.svc] \subseteq errors'[v.svc]  BY <1>1, <1>2, <2>1, Zenon
      <3>4. v \in log
        <4>1. reply[cur[s].id] = "none"  BY <1>0, <1>1, Zenon DEF Reported
        <4>2. v # n  BY <1>3, <3>1, <4>1, Zenon DEF Unanswered
        <4> QED BY <1>6, <4>2, Zenon
      <3> QED BY <3>2, <3>3, <3>4, MoreNames, Zenon
    <2>3. CASE v.id = cur[s].id /\ errors'[s] = errors[s] \cup errs
               /\ (reply'[cur[s].id] \in {"answered", "dropped"} \/ Explained(s, errs))
      <3>1. Explained(s, errs) /\ v.svc = s  BY <1>9, <1>14, <2>3, Zenon DEF Unanswered
      <3>2. Explains(errs, v)  BY <2>3, <3>1, Zenon DEF Explained, Explains
      <3> QED BY <2>3, <3>1, <3>2, MoreNames
    <2> QED BY <1>1, <1>2, <2>1, <2>2, <2>3, Zenon
  <1>10. \A u \in Service : Closed(u)' <=> Closed(u)  BY <1>1, Zenon DEF Closed
  <1>11. taken'.svc = taken.svc /\ taken'.served = taken.served
    BY <1>0, <1>2, Zenon DEF TypeOK, Overwrite, Slice
  <1>12. \A u \in Service : Told(u)' = Told(u)  BY <1>1, <1>11, Zenon DEF Told
  <1>13. ASSUME NEW v \in log', ~v.late, Closed(v.svc)'
         PROVE  /\ Offends(v) => Names(Told(v.svc)', v)
                /\ Unanswered(v)' => Explains(Told(v.svc)', v)
    <2>1. v.svc \in Service /\ Closed(v.svc)  BY <1>6, <1>10, <1>13, Zenon
    <2>2. v # n /\ v \in log  BY <1>3, <1>6, <1>13, <2>1, VisitingInTime, Zenon
    <2>3. Told(v.svc)' = Told(v.svc)  BY <1>12, <2>1, Zenon
    <2>4. v.id # cur[s].id
      BY <1>0, <1>1, <1>13, <1>14, <2>1, <2>2, Zenon DEF Punctual
    <2>5. reply'[v.id] = reply[v.id]  BY <1>1, <1>14, <2>4, Zenon
    <2>6. Unanswered(v)' => Unanswered(v)  BY <2>5, Zenon DEF Unanswered
    <2> QED BY <1>0, <1>13, <2>1, <2>2, <2>3, <2>6, Zenon DEF Reported
  <1> QED BY Zenon, <1>7, <1>8, <1>9, <1>13 DEF Reported, Offends

LEMMA ReportedAccept ==
    ASSUME ReportInv, NEW s \in Service, NEW r \in Request, Accept(s, r)
    PROVE  Reported'
  <1>0. TypeOK /\ Reported /\ nreq \in Nat
    BY Bounds, Zenon DEF ReportInv, WindowInv, SeqInv, TypeOK
  <1>1. /\ UNCHANGED <<errors, pc, todo, taken, result, log, reply>> /\ nreq' = nreq + 1
        /\ LockFree(s) /\ cur'[s].id = nreq + 1
        /\ \A u \in Service \ {s} : cur'[u] = cur[u]
    BY <1>0, Zenon DEF Accept, mockVars, runnerVars, TypeOK
  <1>2. \A v \in log : v.id # 0 /\ v.svc \in Service  BY <1>0, VisitType, Bounds, Zenon
  <1>3. \A i \in 1..MaxRequests : i > nreq + 1 => i > nreq
    BY <1>0
  <1>4. /\ \A i \in 1..MaxRequests : i > nreq' => reply'[i] = "none"
        /\ \A u \in Service : ~LockFree(u)' => reply'[cur'[u].id] = "none"
    <2>1. nreq + 1 \in 1..MaxRequests /\ nreq + 1 > nreq
      BY <1>0, Constants DEF Accept
    <2> QED BY <1>0, <1>1, <1>3, <2>1, Zenon DEF Reported, LockFree
  <1>5. ASSUME NEW v \in log, Offends(v)
        PROVE  \/ Names(errors[v.svc], v)
               \/ cur'[v.svc].id = v.id /\ Names(cur'[v.svc].errs, v)
    BY <1>0, <1>1, <1>2, <1>5, Zenon DEF LockFree, Reported
  <1>6. \A v \in log : /\ Unanswered(v)' <=> Unanswered(v)
                       /\ Closed(v.svc)' <=> Closed(v.svc)
                       /\ Told(v.svc)' = Told(v.svc)
    BY <1>1, Zenon DEF Unanswered, Closed, Told
  <1> QED BY Zenon, <1>0, <1>1, <1>4, <1>5, <1>6 DEF Reported, Offends

LEMMA ReportedRunner ==
    ASSUME ReportInv, RunnerStep
    PROVE  Reported'
  <1>0. TypeOK /\ Punctual /\ Reported  BY Zenon DEF ReportInv, WindowInv, SeqInv
  <1>1. /\ UNCHANGED <<cur, nreq, reply>> /\ log' \subseteq log
        /\ \A u \in Service :
              /\ Closed(u)' => Closed(u) \/ EndRunningContext(u)
              /\ Closed(u)' => UNCHANGED <<log, errors>>
    BY <1>0, Phases, Zenon
  <1>2. \A v \in log : v.svc \in Service /\ v.id # 0  BY <1>0, VisitType, Bounds, Zenon
  <1>3. ASSUME NEW v \in log' PROVE errors'[v.svc] = errors[v.svc]
    BY <1>0, <1>1, <1>2, Zenon DEF BeginTest, Respond, RequestError, FinishTest, Collect,
      mockVars, ResetDefinition, LoadDefinition, LoadError, EndRunningContext,
      ResetRunningContext, TypeOK, RunnerStep
  <1>4. \A v \in log' : Unanswered(v)' <=> Unanswered(v)  BY <1>1, Zenon DEF Unanswered
  <1>5. ASSUME NEW v \in log', ~v.late, Closed(v.svc)'
        PROVE  /\ Offends(v) => Names(Told(v.svc)', v)
               /\ Unanswered(v) => Explains(Told(v.svc)', v)
    <2>0. v \in log /\ v.svc \in Service  BY <1>1, <1>2, Zenon
    <2>1. CASE EndRunningContext(v.svc)
      <3>1. /\ LockFree(v.svc) /\ pc' = "collect" /\ taken'.svc = v.svc
            /\ taken'.served = errors[v.svc]
        BY <2>1, Zenon DEF EndRunningContext
      <3>2. errors[v.svc] \subseteq Told(v.svc)'  BY <3>1, Zenon DEF Told
      <3>3. cur[v.svc].id # v.id  BY <1>2, <2>0, <3>1, Zenon DEF LockFree
      <3>4. /\ Offends(v) => Names(errors[v.svc], v)
            /\ Unanswered(v) => Explains(errors[v.svc], v)
        BY <1>0, <2>0, <3>3, Zenon DEF Reported
      <3> QED BY <3>2, <3>4, MoreNames, Zenon
    <2>2. CASE Closed(v.svc)
      <3>1. Told(v.svc) \subseteq Told(v.svc)'  BY <1>5, ResultGrows, Zenon DEF Told
      <3>2. /\ Offends(v) => Names(Told(v.svc), v)
            /\ Unanswered(v) => Explains(Told(v.svc), v)
        BY <1>0, <1>5, <2>0, <2>2, Zenon DEF Reported
      <3> QED BY <3>1, <3>2, MoreNames, Zenon
    <2> QED BY <1>1, <1>5, <2>0, <2>1, <2>2, Zenon
  <1>6. /\ \A i \in 1..MaxRequests : i > nreq' => reply'[i] = "none"
        /\ \A u \in Service : ~LockFree(u)' => reply'[cur'[u].id] = "none"
    BY <1>0, <1>1, Zenon DEF Reported, LockFree
  <1>7. \A v \in log' : Offends(v) => \/ Names(errors'[v.svc], v)
                                      \/ cur'[v.svc].id = v.id /\ Names(cur'[v.svc].errs, v)
    BY <1>0, <1>1, <1>3, Zenon DEF Reported
  <1>8. \A v \in log' : Unanswered(v)' => Explains(errors'[v.svc], v)
    BY <1>0, <1>1, <1>3, <1>4, Zenon DEF Reported
  <1> QED BY Zenon, <1>4, <1>5, <1>6, <1>7, <1>8 DEF Reported, Offends

LEMMA ReportStep == ReportInv /\ [Next]_vars => ReportInv'
  <1> SUFFICES ASSUME ReportInv, [Next]_vars PROVE ReportInv'
    OBVIOUS
  <1>0. TypeOK /\ WindowInv /\ Punctual /\ Reported /\ WindowInv'
    BY WindowStep DEF ReportInv, WindowInv, SeqInv
  <1>1. CASE RunnerStep
    BY <1>0, <1>1, PunctualRunner, ReportedRunner, Zenon DEF ReportInv
  <1>2. CASE \E s \in Service : Serve(s)
    BY <1>0, <1>2, PunctualServe, ReportedServe, Zenon DEF ReportInv
  <1>3. CASE \E s \in Service, r \in Request : Accept(s, r)
    BY <1>0, <1>3, PunctualAccept, ReportedAccept DEF ReportInv
  <1>4. CASE UNCHANGED vars
    BY <1>0, <1>4, Zenon DEF vars, mockVars, serveVars, runnerVars, Punctual, Open, Closed,
      LockFree, Unanswered, Told, Reported, Offends, ReportInv
  <1> QED BY <1>1, <1>2, <1>3, <1>4 DEF Next

LEMMA ReportInit == Init => ReportInv
  <1> SUFFICES ASSUME Init PROVE ReportInv
    BY Zenon
  <1>1. /\ pc = "idle" /\ log = {} /\ nreq = 0
        /\ reply = [i \in 1..MaxRequests |-> "none"]
        /\ \A s \in Service : LockFree(s)
    BY FreeType DEF Init, LockFree
  <1>2. Punctual  BY <1>1, Zenon DEF Punctual
  <1>3. Reported  BY <1>1, Zenon DEF Reported
  <1> QED BY <1>2, <1>3, WindowInit, Zenon DEF ReportInv

\* For any trees and interleavings: a request that, in time, violated a constraint it
\* was checked against, or got no answer of a definition, is named by an error in the
\* test's result: no error is lost on its way from ServeHTTP to the result.
THEOREM OffendersAreNamed == Spec => []OffendersReported
  <1>1. ReportInv => OffendersReported
    BY DEF OffendersReported, Offends, Names, Unanswered, Explains, ReportInv, Punctual,
      Closed, Told, Reported
  <1> QED BY <1>1, ReportInit, ReportStep, PTL DEF Spec
=============================================================================
