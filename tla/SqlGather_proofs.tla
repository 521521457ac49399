-------------------------- MODULE SqlGather_proofs --------------------------
(***************************************************************************)
(* Proofs about what a call of Load reads and adds, for any files, names   *)
(* and requests: the tables it leaves alone, the sections it gathers, what *)
(* one step of inserting adds, and what the tables being filled hold.      *)
(***************************************************************************)
EXTENDS SqlFixtures_proofs

-----------------------------------------------------------------------------
(* No table is changed that the files that are due do not name and that no *)
(* chain of foreign keys leads from to one they name.                      *)

Others == Table \ Reaching(Filled)

Apart ==
    /\ pc = "gather" => db = before
    /\ dialect = "postgres" /\ pc \in {"truncate", "insert", "commit"} =>
          db = before /\ \A t \in Others : tx[t] = before[t]
    /\ pc # "idle" => \A t \in Others : db[t] = before[t]

ApartInv == GatherInv /\ Apart

LEMMA SectionType ==
    ASSUME Typed, NEW p \in Sections
    PROVE  Section(p) \in [table : Table, rows : Seq(Entry)] /\ p = <<p[1], p[2]>>
  <1>1. PICK f \in due : p \in {<<f, k>> : k \in DOMAIN Content[f].tables}
    BY Zenon DEF Sections
  <1>2. PICK k \in DOMAIN Content[f].tables : p = <<f, k>>  BY <1>1, Zenon
  <1>3. f \in File \ Unreadable  BY DEF Typed
  <1>4. Content[f].tables[k] \in [table : Table, rows : Seq(Entry)]
    BY Zenon, <1>3, Constants, SeqFacts
  <1> QED BY <1>2, <1>4, Zenon DEF Section

LEMMA ReachingFacts ==
    ASSUME NEW S \in SUBSET Table
    PROVE  /\ S \subseteq Reaching(S) /\ Reaching(S) \subseteq Table
           /\ \A R \in SUBSET S : Reaching(R) \subseteq Reaching(S)
  <1> DEFINE Closed(C) == \A u \in C : Dependents[u] \subseteq C
  <1>1. \A R : Reaching(R) = {t \in Table : \A C \in SUBSET Table :
                                  R \subseteq C /\ Closed(C) => t \in C}
    BY Zenon DEF Reaching
  <1> HIDE DEF Closed
  <1>2. S \subseteq Reaching(S)  BY <1>1, Zenon
  <1>3. ASSUME NEW R \in SUBSET S, NEW t \in Reaching(R) PROVE t \in Reaching(S)
    <2>1. t \in Table /\ \A C \in SUBSET Table : R \subseteq C /\ Closed(C) => t \in C
      BY <1>1, Zenon
    <2>2. \A C : S \subseteq C => R \subseteq C  BY Zenon
    <2> QED BY <1>1, <2>1, <2>2, Zenon
  <1> QED BY <1>1, <1>2, <1>3, Zenon

LEMMA NamedFilled ==
    ASSUME GatherInv
    PROVE  /\ Named \subseteq Filled
           /\ at <= Len(tables) => Current.table \in Filled
           /\ \A t \in Others : t \notin Cascade /\ t \notin Filled
  <1>1. \A k \in DOMAIN tables : tables[k].table \in Filled
    BY DEF GatherInv, Within, Filled
  <1>2. Named \subseteq Filled  BY <1>1, Zenon DEF Named
  <1>3. at <= Len(tables) => Current.table \in Filled
    BY <1>1, CurrentType DEF GatherInv, TypeInv, Current
  <1>4. Filled \in SUBSET Table
    BY SectionType, Zenon DEF GatherInv, TypeInv, Filled
  <1>5. \A t \in Others : t \notin Cascade /\ t \notin Filled
    BY <1>2, <1>4, ReachingFacts, Zenon DEF Others, Cascade
  <1> QED BY <1>2, <1>3, <1>5, Zenon

LEMMA ApartStep ==
    ASSUME Finiteness PROVE ApartInv /\ [Next]_vars => ApartInv'
  <1> SUFFICES ASSUME ApartInv, [Next]_vars PROVE ApartInv'  OBVIOUS
  <1>0. GatherInv /\ TypeInv /\ Typed /\ Apart /\ GatherInv'
    BY GatherStep DEF ApartInv, GatherInv, TypeInv
  <1> SUFFICES Apart'  BY <1>0, Zenon DEF ApartInv
  <1>1. UNCHANGED due => Others' = Others  BY Zenon DEF Others, Filled, Sections
  <1>2. Others \subseteq Table  BY Zenon DEF Others
  <1>3. CASE UNCHANGED vars  BY <1>0, <1>1, <1>3, Zenon DEF vars, Apart
  <1>4. CASE Gathers  BY <1>0, <1>1, <1>4, GathersFrame DEF Apart
  <1>5. CASE Return  BY <1>5, ReturnFrame, Zenon DEF Apart
  <1>6. CASE \E names \in Requests : Load(names)  BY <1>6, LoadFrame, Zenon DEF Apart
  <1>7. CASE \E t \in HasId : AppInsert(t)  BY <1>7, AppFrame DEF Apart
  <1>8. CASE Writes
    <2>0. /\ UNCHANGED <<dialect, due, before>>
          /\ pc \notin {"idle", "returned"} /\ pc' \notin {"idle", "gather"}
      BY <1>8, WritesFrame
    <2>1. Others' = Others  BY <1>1, <2>0, Zenon
    <2>2. \A t \in Others : db[t] = before[t]  BY <1>0, <2>0, Zenon DEF Apart
    <2>3. CASE Begin  BY <1>0, <2>0, <2>1, <2>3, Zenon DEF Begin, Fail, Apart
    <2>4. CASE TruncateTables
      BY <1>0, <1>2, <2>0, <2>1, <2>4, NamedFilled, Zenon DEF TruncateTables, Fail, Apart
    <2>5. CASE SkipEmpty \/ fixSequences
      <3>1. /\ pc = "insert" /\ UNCHANGED <<db, tx>>
        BY <2>5, Zenon DEF SkipEmpty, Loading, fixSequences, gathered
      <3> QED BY <1>0, <2>0, <2>1, <3>1, Zenon DEF Apart
    <2>6. CASE InsertTable
      <3>1. /\ dialect = "postgres" /\ pc = "insert" /\ at <= Len(tables) /\ db' = db
            /\ \/ pc' = "returned"
               \/ tx' = [tx EXCEPT ![Current.table] = @ \o NewRows]
        BY <2>6, Zenon DEF InsertTable, Loading, gathered, Fail
      <3>2. Current.table \in Filled  BY <1>0, <3>1, NamedFilled, Zenon
      <3>3. pc' # "returned" => \A t \in Others : tx'[t] = tx[t]
        BY <1>0, <1>2, <3>1, <3>2, NamedFilled, Zenon DEF Typed
      <3> QED BY <1>0, <2>0, <2>1, <3>1, <3>3, Zenon DEF Apart
    <2>7. CASE Commit  BY <1>0, <2>0, <2>1, <2>7, Zenon DEF Commit, Fail, Apart
    <2>8. CASE TruncateTable
      <3>1. /\ dialect = "mysql" /\ at <= Len(tables)
            /\ db' = db \/ db' = [db EXCEPT ![Current.table] = <<>>]
        BY <2>8 DEF TruncateTable
      <3>2. Current.table \in Filled  BY <1>0, <3>1, NamedFilled
      <3>3. \A t \in Others : db'[t] = db[t]
        BY Zenon, <1>0, <1>2, <3>1, <3>2, NamedFilled DEF Typed
      <3> QED BY <2>0, <2>1, <2>2, <3>1, <3>3, Zenon DEF Apart
    <2>9. CASE Truncated \/ CommitMysql
      BY <2>0, <2>1, <2>2, <2>9, Zenon DEF Truncated, CommitMysql, Apart
    <2>10. CASE loadRow
      <3>1. /\ dialect = "mysql" /\ at <= Len(tables)
            /\ db' = db \/ db' = [db EXCEPT ![Current.table] = Append(@, Fresh)]
        BY <1>0, <2>10, LoadRowShape DEF RowStored
      <3>2. Current.table \in Filled  BY <1>0, <3>1, NamedFilled, Zenon
      <3>3. \A t \in Others : db'[t] = db[t]
        BY <1>0, <1>2, <3>1, <3>2, NamedFilled, Zenon DEF Typed
      <3> QED BY <2>0, <2>1, <2>2, <3>1, <3>3, Zenon DEF Apart
    <2>11. CASE SlicePanics  BY <2>0, <2>1, <2>2, <2>11, PanicFrame, Zenon DEF Apart
    <2> QED BY <1>8, <2>3, <2>4, <2>5, <2>6, <2>7, <2>8, <2>9, <2>10, <2>11 DEF Writes
  <1> QED BY <1>3, <1>4, <1>5, <1>6, <1>7, <1>8, Actions

-----------------------------------------------------------------------------
(* The walk over the files.  It ends with every section of every file that *)
(* is due in the list of tables, exactly once, however the files inherit   *)
(* one another.                                                            *)

ClosedSet(S) ==
    \A g \in S \ Unreadable : \A k \in DOMAIN Content[g].inherits : Content[g].inherits[k] \in S

Pending(f) == \E i \in DOMAIN stack : stack[i].file = f

Owes == \A S \in SUBSET File :
           files \subseteq S /\ (\A k \in DOMAIN queue : queue[k] \in S) /\ ClosedSet(S)
              => due \subseteq S

Walk ==
    /\ \A i, j \in DOMAIN stack : stack[i].file = stack[j].file => i = j
    /\ \A f \in files : \A k \in DOMAIN Content[f].inherits :
          \/ Content[f].inherits[k] \in files
          \/ \E i \in DOMAIN stack : stack[i].file = f /\ stack[i].step <= k
    /\ \A f \in files : \A k \in DOMAIN Content[f].tables :
          Pending(f) \/ \E i \in DOMAIN tables : tables[i].from = <<f, k>>
    /\ \A i \in DOMAIN tables : tables[i].from[1] \in files /\ ~Pending(tables[i].from[1])

Once == \A i, j \in DOMAIN tables : tables[i].from = tables[j].from => i = j

AllTabled == \A p \in Sections : \E i \in DOMAIN tables : tables[i].from = p

WalkInv ==
    /\ GatherInv /\ Once
    /\ pc = "gather" => Owes /\ Walk
    /\ pc \in {"truncate", "insert", "commit"} => AllTabled

\* The innermost call has come to the file's own entries: its frame moves on or
\* the frame is left, and no file it inherits is still to be loaded.
LEMMA PastInherits ==
    ASSUME GatherInv, Walk, stack # <<>>, Top.step > Len(Inherits)
    PROVE  \A k \in DOMAIN Content[Top.file].inherits :
              ~(Top.step <= k) /\ Content[Top.file].inherits[k] \in files
  <1>0. Typed /\ Within  BY DEF GatherInv, TypeInv
  <1>1. /\ Len(stack) \in DOMAIN stack /\ Top.step \in Nat \ {0}
        /\ Inherits \in Seq(File)
    BY <1>0, TopType, Zenon
  <1> SUFFICES ASSUME NEW k \in DOMAIN Content[Top.file].inherits
               PROVE  ~(Top.step <= k) /\ Content[Top.file].inherits[k] \in files
    BY Zenon
  <1>2. ~(Top.step <= k)  BY <1>1, SeqFacts DEF Inherits
  <1>3. Top.file \in files  BY <1>0, <1>1, Zenon DEF Within, Top
  <1>4. \A i \in DOMAIN stack : stack[i].file = Top.file => stack[i] = Top
    BY <1>1, Zenon DEF Walk, Top
  <1>5. \/ Content[Top.file].inherits[k] \in files
        \/ \E i \in DOMAIN stack : stack[i].file = Top.file /\ stack[i].step <= k
    BY <1>3 DEF Walk
  <1> QED BY <1>2, <1>4, <1>5, Zenon

LEMMA AddWalk ==
    ASSUME WalkInv, AddTables
    PROVE  Walk' /\ Once'
  <1>0. GatherInv /\ TypeInv /\ Typed /\ Within /\ Once
    BY DEF WalkInv, GatherInv, TypeInv
  <1>1. /\ pc = "gather" /\ stack # <<>> /\ tables' = tables \o Own(Top.file)
        /\ stack' = Popped /\ files' = files
        /\ Top.step > Len(Inherits) + Len(Content[Top.file].templates)
    BY Zenon DEF AddTables, InFile, Own
  <1>2. Walk  BY <1>1, Zenon DEF WalkInv
  <1>3. /\ Len(stack) \in DOMAIN stack /\ Top.step \in Nat \ {0}
        /\ Top.file \in File \ Unreadable
        /\ DOMAIN Popped = DOMAIN stack \ {Len(stack)}
        /\ \A i \in DOMAIN Popped : Popped[i] = stack[i]
        /\ Inherits \in Seq(File)
    BY <1>0, <1>1, TopType, Zenon
  <1>4. Top.step > Len(Inherits)  BY <1>1, <1>3, SeqFacts, Constants
  <1> DEFINE g == Top.file
             own == Own(g)
  <1>5. g \in files  BY <1>0, <1>3, Zenon DEF Within, Top
  <1>6. \A i \in DOMAIN stack : stack[i].file = g <=> i = Len(stack)
    BY <1>2, <1>3, Zenon DEF Walk, Top
  <1>7. \A k \in DOMAIN Content[g].inherits : Content[g].inherits[k] \in files
    BY <1>0, <1>1, <1>2, <1>4, PastInherits, Zenon
  <1>8. /\ own \in Seq(Sect) /\ DOMAIN own = DOMAIN Content[g].tables
        /\ \A k \in DOMAIN own : own[k].from = <<g, k>>
    BY <1>0, <1>5, OwnWithin, Zenon DEF Within
  <1>9. tables \in Seq(Sect) /\ tables' = tables \o own  BY <1>0, <1>1, Zenon DEF Typed
  <1>10. \A f : Pending(f)' <=> Pending(f) /\ f # g
    BY <1>1, <1>3, <1>6, Zenon DEF Pending
  <1>11. Pending(g)  BY <1>3, <1>6, Zenon DEF Pending
  <1> HIDE DEF own, g
  <1>12. \A i \in DOMAIN tables : i \in DOMAIN tables' /\ tables'[i] = tables[i]
    BY <1>8, <1>9, ConcatFacts, SeqFacts
  <1>13. \A k \in DOMAIN own : \E i \in DOMAIN tables' : tables'[i] = own[k]
    <2> TAKE k \in DOMAIN own
    <2>1. DOMAIN (tables \o own) = 1..(Len(tables) + Len(own))
          /\ DOMAIN own = 1..Len(own) /\ Len(tables) \in Nat /\ Len(own) \in Nat
      BY <1>8, <1>9, ConcatFacts, SeqFacts
    <2>2. Len(tables) + k \in DOMAIN tables'  BY <1>9, <2>1
    <2>3. tables'[Len(tables) + k] = own[k]  BY <1>8, <1>9, ConcatFacts
    <2> QED BY <2>2, <2>3
  <1>14. \A i \in DOMAIN tables' :
            \/ i \in DOMAIN tables /\ tables'[i] = tables[i]
            \/ \E k \in DOMAIN own : i = Len(tables) + k /\ tables'[i] = own[k]
    BY <1>8, <1>9, ConcatIndex
  <1>15. \A i \in DOMAIN tables : tables[i].from[1] \in files /\ tables[i].from[1] # g
                                  /\ ~Pending(tables[i].from[1])
    BY <1>2, <1>11 DEF Walk
  <1>16. \A k \in DOMAIN own : own[k].from[1] = g  BY <1>8
  <1>17. Once'  BY <1>0, <1>8, <1>14, <1>15, <1>16 DEF Once
  <1>18. Walk'
    <2>1. \A i, j \in DOMAIN stack' : stack'[i].file = stack'[j].file => i = j
      BY <1>1, <1>2, <1>3, Zenon DEF Walk
    <2>2. ASSUME NEW f \in files', NEW k \in DOMAIN Content[f].inherits
          PROVE  \/ Content[f].inherits[k] \in files'
                 \/ \E i \in DOMAIN stack' : stack'[i].file = f /\ stack'[i].step <= k
      <3>1. CASE f = g  BY <1>1, <1>7, <3>1, Zenon
      <3>2. CASE f # g
        <4>1. \/ Content[f].inherits[k] \in files
              \/ \E i \in DOMAIN stack : stack[i].file = f /\ stack[i].step <= k
          BY <1>1, <1>2, Zenon DEF Walk
        <4>2. \A i \in DOMAIN stack : stack[i].file = f => i \in DOMAIN Popped
          BY <1>3, <1>6, <3>2, Zenon
        <4> QED BY <1>1, <1>3, <4>1, <4>2, Zenon
      <3> QED BY <3>1, <3>2, Zenon
    <2>3. ASSUME NEW f \in files', NEW k \in DOMAIN Content[f].tables
          PROVE  Pending(f)' \/ \E i \in DOMAIN tables' : tables'[i].from = <<f, k>>
      <3>1. CASE f = g  BY <1>8, <1>13, <3>1
      <3>2. CASE f # g
        <4>1. Pending(f) \/ \E i \in DOMAIN tables : tables[i].from = <<f, k>>
          BY <1>1, <1>2, Zenon DEF Walk
        <4> QED BY Zenon, <1>10, <1>12, <3>2, <4>1
      <3> QED BY <3>1, <3>2, Zenon
    <2>4. ASSUME NEW i \in DOMAIN tables'
          PROVE  tables'[i].from[1] \in files' /\ ~Pending(tables[i].from[1])'
      BY <1>1, <1>5, <1>10, <1>14, <1>15, <1>16, Zenon
    <2> QED BY Zenon, <2>1, <2>2, <2>3, <2>4 DEF Walk
  <1> QED BY <1>17, <1>18, Zenon

LEMMA WalkStep ==
    ASSUME Finiteness PROVE WalkInv /\ [Next]_vars => WalkInv'
  \* A call of loadFile: the pending calls go on from where they were, except
  \* that the innermost may have dealt with the file f.
  <1>open. ASSUME GatherInv, Walk, NEW f \in File, NEW frames \in Seq(Frame), Open(f, frames),
                  pc' = "gather", pc = "gather", UNCHANGED tables,
                  DOMAIN frames = DOMAIN stack,
                  \A i \in DOMAIN stack : frames[i].file = stack[i].file,
                  \A i \in DOMAIN stack : \A k \in DOMAIN Content[stack[i].file].inherits :
                     stack[i].step <= k =>
                        frames[i].step <= k \/ Content[stack[i].file].inherits[k] = f
           PROVE  Walk' /\ files' = files \union {f}
    <2> USE <1>open
    <2>0. TypeInv /\ Typed /\ Within  BY Zenon DEF GatherInv, TypeInv
    <2>1. \A i, j \in DOMAIN frames : frames[i].file = frames[j].file => i = j
      BY Zenon DEF Walk
    <2>2. ASSUME NEW g \in files, NEW k \in DOMAIN Content[g].inherits
          PROVE  \/ Content[g].inherits[k] \in files \union {f}
                 \/ \E i \in DOMAIN frames : frames[i].file = g /\ frames[i].step <= k
      BY DEF Walk
    <2>3. CASE f \in files /\ stack' = frames /\ files' = files
      <3>1. \A g : Pending(g)' <=> Pending(g)  BY <2>3, Zenon DEF Pending
      <3>2. /\ \A i, j \in DOMAIN stack' : stack'[i].file = stack'[j].file => i = j
            /\ \A g \in files' : \A k \in DOMAIN Content[g].inherits :
                  \/ Content[g].inherits[k] \in files'
                  \/ \E i \in DOMAIN stack' : stack'[i].file = g /\ stack'[i].step <= k
        BY <2>1, <2>2, <2>3
      <3>3. ASSUME NEW g \in files', NEW k \in DOMAIN Content[g].tables
            PROVE  Pending(g)' \/ \E i \in DOMAIN tables' : tables'[i].from = <<g, k>>
        <4>1. Pending(g) \/ \E i \in DOMAIN tables : tables[i].from = <<g, k>>
          BY Zenon, <2>3 DEF Walk
        <4>2. tables' = tables  BY Zenon
        <4> QED BY Zenon, <3>1, <4>1, <4>2
      <3>4. ASSUME NEW i \in DOMAIN tables'
            PROVE  tables'[i].from[1] \in files' /\ ~Pending(tables[i].from[1])'
        BY <2>3, <3>1 DEF Walk
      <3>5. Walk'  BY Zenon, <3>2, <3>3, <3>4 DEF Walk
      <3> QED BY <2>3, <3>5, Zenon
    <2>4. CASE /\ f \notin Unreadable \union files /\ files' = files \union {f}
               /\ stack' = Append(frames, [file |-> f, step |-> 1])
      <3> DEFINE new == [file |-> f, step |-> 1]
                 n == Len(frames) + 1
      <3>1. new \in Frame /\ new.file = f /\ new.step = 1  BY <2>4 DEF Frame
      <3> HIDE DEF new
      <3>2. /\ DOMAIN stack' = DOMAIN stack \union {n} /\ n \notin DOMAIN stack
            /\ \A i \in DOMAIN stack : stack'[i] = frames[i]
            /\ stack'[n] = new
        BY <2>4, <3>1, AppendFacts, SeqFacts DEF new
      <3> HIDE DEF n
      <3>3. \A i \in DOMAIN stack : stack[i].file \in files  BY <2>0, Zenon DEF Within
      <3>4. \A g : Pending(g)' <=> Pending(g) \/ g = f  BY <3>1, <3>2, Zenon DEF Pending
      <3>5. \A i, j \in DOMAIN stack' : stack'[i].file = stack'[j].file => i = j
        <4>1. \A i \in DOMAIN stack : stack'[i].file = frames[i].file /\ frames[i].file # f
          BY <2>4, <3>2, <3>3, Zenon
        <4>2. stack'[n].file = f  BY <3>1, <3>2, Zenon
        <4> TAKE i, j \in DOMAIN stack'
        <4>3. CASE i = n /\ j = n  BY <4>3, Zenon
        <4>4. CASE i \in DOMAIN stack /\ j \in DOMAIN stack  BY <2>1, <4>1, <4>4, Zenon
        <4>5. CASE \/ i = n /\ j \in DOMAIN stack
                   \/ i \in DOMAIN stack /\ j = n
          BY <4>1, <4>2, <4>5, Zenon
        <4> QED BY <3>2, <4>3, <4>4, <4>5, Zenon
      <3>6. ASSUME NEW g \in files', NEW k \in DOMAIN Content[g].inherits
            PROVE  \/ Content[g].inherits[k] \in files'
                   \/ \E i \in DOMAIN stack' : stack'[i].file = g /\ stack'[i].step <= k
        BY <2>2, <2>4, <3>1, <3>2, Constants, SeqFacts
      <3>7. ASSUME NEW g \in files', NEW k \in DOMAIN Content[g].tables
            PROVE  Pending(g)' \/ \E i \in DOMAIN tables' : tables'[i].from = <<g, k>>
        <4>1. CASE g = f  BY <3>4, <4>1
        <4>2. CASE g \in files
          <5>1. Pending(g) \/ \E i \in DOMAIN tables : tables[i].from = <<g, k>>
            BY Zenon, <4>2 DEF Walk
          <5>2. tables' = tables  OBVIOUS
          <5> QED BY Zenon, <3>4, <5>1, <5>2
        <4> QED BY <2>4, <4>1, <4>2, Zenon
      <3>8. ASSUME NEW i \in DOMAIN tables
            PROVE  tables[i].from[1] \in files' /\ ~Pending(tables[i].from[1])'
        <4>1. tables[i].from[1] \in files /\ ~Pending(tables[i].from[1])  BY Zenon DEF Walk
        <4> QED BY <2>4, <3>4, <4>1, Zenon
      <3>9. Walk'  BY Zenon, <3>5, <3>6, <3>7, <3>8 DEF Walk
      <3> QED BY <2>4, <3>9, Zenon
    <2>5. pc' = "gather" => f \notin Unreadable \/ f \in files  BY Zenon DEF Open, Fail
    <2>6. f \in files => files \union {f} = files  BY Zenon
    <2> QED BY <2>3, <2>4, <2>5, <2>6, Zenon DEF Open, Fail
  <1> SUFFICES ASSUME WalkInv, [Next]_vars PROVE WalkInv'  OBVIOUS
  <1>0. /\ GatherInv /\ TypeInv /\ Typed /\ Within /\ Blank /\ Once /\ GatherInv'
        /\ pc = "gather" => Owes /\ Walk
        /\ pc \in {"truncate", "insert", "commit"} => AllTabled
    BY GatherStep DEF WalkInv, GatherInv, TypeInv
  <1>1. UNCHANGED tables => Once'  BY <1>0, Zenon DEF Once
  <1>2. UNCHANGED <<tables, due>> /\ AllTabled => AllTabled'
    BY Zenon DEF AllTabled, Sections
  <1>3. CASE UNCHANGED vars
    <2>1. UNCHANGED <<queue, stack, files, tables, due, pc>>  BY <1>3, Zenon DEF vars, ctx
    <2>2. Owes => Owes'  BY <2>1 DEF Owes
    <2>3. Walk => Walk'
      <3>1. \A f : Pending(f)' <=> Pending(f)  BY <2>1, Zenon DEF Pending
      <3> QED BY Zenon, <2>1, <3>1 DEF Walk
    <2> QED BY <1>0, <1>1, <1>2, <2>1, <2>2, <2>3, Zenon DEF WalkInv
  <1>4. CASE Gathers
    <2>1. pc = "gather" /\ pc' \in {"gather", "returned"} /\ due' = due
      BY <1>4, GathersFrame
    <2>2. Owes /\ Walk  BY <1>0, <2>1, Zenon
    <2>3. ASSUME NEW f, files' = files \union {f}, \A k \in DOMAIN queue :
                    queue[k] = f \/ \E i \in DOMAIN queue' : queue'[i] = queue[k]
          PROVE  Owes'
      BY <2>1, <2>2, <2>3, Zenon DEF Owes
    <2>4. UNCHANGED <<files, queue>> => Owes'  BY <2>1, <2>2, Zenon DEF Owes
    <2>5. CASE LoadName
      <3>1. /\ stack = <<>> /\ queue # <<>> /\ queue' = Tail(queue)
            /\ Open(Head(queue), <<>>) /\ UNCHANGED tables
        BY <2>5, Zenon DEF LoadName
      <3>2. /\ Head(queue) = queue[1] /\ 1 \in DOMAIN queue /\ queue[1] \in File
            /\ \A k \in DOMAIN queue : k # 1 =>
                  k - 1 \in DOMAIN queue' /\ queue'[k - 1] = queue[k]
        BY <1>0, <3>1, TailFacts, SeqFacts DEF Typed
      <3>3. <<>> \in Seq(Frame) /\ DOMAIN stack = {}  BY <3>1
      <3>4. ASSUME pc' = "gather" PROVE Walk' /\ files' = files \union {queue[1]}
        BY <1>0, <2>1, <2>2, <3>1, <3>2, <3>3, <3>4, <1>open, Zenon
      <3>5. pc' = "gather" => Owes'  BY <2>3, <3>2, <3>4, Zenon
      <3> QED BY <1>0, <1>1, <2>1, <3>1, <3>4, <3>5 DEF WalkInv
    <2>6. CASE LoadInherited
      <3>1. /\ stack # <<>> /\ Top.step <= Len(Inherits) /\ UNCHANGED <<queue, tables>>
            /\ Open(Inherits[Top.step], Advanced)
        BY <2>6, Zenon DEF LoadInherited, InFile
      <3>2. /\ Len(stack) \in DOMAIN stack /\ Inherits \in Seq(File)
            /\ Top.step \in Nat \ {0}
            /\ Advanced \in Seq(Frame) /\ DOMAIN Advanced = DOMAIN stack
            /\ \A i \in DOMAIN stack : Advanced[i].file = stack[i].file
            /\ \A i \in DOMAIN stack : i # Len(stack) => Advanced[i] = stack[i]
            /\ Advanced[Len(stack)].step = Top.step + 1
        BY <1>0, <3>1, TopType, Zenon
      <3>3. Top.step \in DOMAIN Inherits /\ Inherits[Top.step] \in File
        BY <3>1, <3>2, SeqFacts
      <3>4. ASSUME NEW i \in DOMAIN stack, NEW k \in DOMAIN Content[stack[i].file].inherits,
                   stack[i].step <= k
            PROVE  \/ Advanced[i].step <= k
                   \/ Content[stack[i].file].inherits[k] = Inherits[Top.step]
        <4>1. CASE i # Len(stack)  BY <3>2, <3>4, <4>1, Zenon
        <4>2. CASE i = Len(stack)
          <5>1. stack[i] = Top /\ Content[stack[i].file].inherits = Inherits
            BY <4>2, Zenon DEF Top, Inherits
          <5>2. k \in 1..Len(Inherits) /\ Len(Inherits) \in Nat  BY <3>2, <5>1, SeqFacts
          <5>3. CASE k = Top.step  BY <5>1, <5>3, Zenon
          <5>4. CASE k # Top.step  BY <3>2, <3>4, <4>2, <5>1, <5>2, <5>4
          <5> QED BY <5>3, <5>4, Zenon
        <4> QED BY <4>1, <4>2, Zenon
      <3>5. ASSUME pc' = "gather" PROVE Walk' /\ files' = files \union {Inherits[Top.step]}
        BY <1>0, <2>1, <2>2, <3>1, <3>2, <3>3, <3>4, <3>5, <1>open, Zenon
      <3>6. pc' = "gather" => Owes'  BY <2>3, <3>1, <3>5, Zenon
      <3> QED BY <1>0, <1>1, <2>1, <3>1, <3>5, <3>6 DEF WalkInv
    <2>7. CASE LoadTemplate
      <3>1. /\ stack # <<>> /\ UNCHANGED <<queue, files, tables>>
            /\ Top.step - Len(Inherits) \in DOMAIN Content[Top.file].templates
            /\ stack' = Advanced \/ pc' = "returned"
        BY <2>7, Zenon DEF LoadTemplate, InFile, Fail
      <3>2. /\ Len(stack) \in DOMAIN stack /\ Inherits \in Seq(File)
            /\ Top.step \in Nat \ {0} /\ Top.file \in File \ Unreadable
            /\ DOMAIN Advanced = DOMAIN stack
            /\ \A i \in DOMAIN stack : Advanced[i].file = stack[i].file
            /\ \A i \in DOMAIN stack : i # Len(stack) => Advanced[i] = stack[i]
        BY <1>0, <3>1, TopType, Zenon
      <3>3. Top.step > Len(Inherits)  BY <3>1, <3>2, SeqFacts, Constants
      <3>4. \A k \in DOMAIN Content[Top.file].inherits : Content[Top.file].inherits[k] \in files
        BY <1>0, <2>2, <3>1, <3>3, PastInherits
      <3>5. ASSUME stack' = Advanced PROVE Walk'
        <4>1. \A f : Pending(f)' <=> Pending(f)  BY <3>2, <3>5, Zenon DEF Pending
        <4>2. \A i, j \in DOMAIN stack' : stack'[i].file = stack'[j].file => i = j
          BY <2>2, <3>2, <3>5, Zenon DEF Walk
        <4>3. ASSUME NEW f \in files', NEW k \in DOMAIN Content[f].inherits
              PROVE  \/ Content[f].inherits[k] \in files'
                     \/ \E i \in DOMAIN stack' : stack'[i].file = f /\ stack'[i].step <= k
          BY <2>2, <3>1, <3>2, <3>4, <3>5 DEF Walk, Top
        <4>4. ASSUME NEW f \in files', NEW k \in DOMAIN Content[f].tables
              PROVE  Pending(f)' \/ \E i \in DOMAIN tables' : tables'[i].from = <<f, k>>
          BY <2>2, <3>1, <4>1, Zenon DEF Walk
        <4>5. ASSUME NEW i \in DOMAIN tables'
              PROVE  tables'[i].from[1] \in files' /\ ~Pending(tables[i].from[1])'
          BY <2>2, <3>1, <4>1, Zenon DEF Walk
        <4> QED BY Zenon, <4>2, <4>3, <4>4, <4>5 DEF Walk
      <3> QED BY <1>0, <1>1, <2>1, <2>4, <3>1, <3>5, Zenon DEF WalkInv
    <2>8. CASE AddTables
      <3>1. Walk' /\ Once'  BY <2>8, AddWalk
      <3>2. UNCHANGED <<files, queue>>  BY <2>8, Zenon DEF AddTables
      <3> QED BY <1>0, <2>1, <2>4, <3>1, <3>2 DEF WalkInv
    <2> QED BY <1>4, <2>5, <2>6, <2>7, <2>8 DEF Gathers
  <1>5. CASE Begin
    <2>1. /\ pc = "gather" /\ stack = <<>> /\ queue = <<>> /\ UNCHANGED <<tables, due>>
          /\ pc' \in {"truncate", "returned"}
      BY <1>5 DEF Begin, ctx, Fail, Goto
    <2>2. Owes /\ Walk  BY <1>0, <2>1
    <2>3. \A f : ~Pending(f)  BY <2>1 DEF Pending
    <2>4. ClosedSet(files)  BY <2>1, <2>2 DEF ClosedSet, Walk
    <2>5. due \subseteq files  BY <1>0, <2>1, <2>2, <2>4 DEF Typed, Owes
    <2>6. AllTabled
      <3> SUFFICES ASSUME NEW p \in Sections
                   PROVE  \E i \in DOMAIN tables : tables[i].from = p
        BY Zenon DEF AllTabled
      <3>1. PICK f \in due : p \in {<<f, k>> : k \in DOMAIN Content[f].tables}
        BY Zenon DEF Sections
      <3>2. PICK k \in DOMAIN Content[f].tables : p = <<f, k>>  BY <3>1
      <3>3. f \in files  BY <2>5
      <3>4. Pending(f) \/ \E i \in DOMAIN tables : tables[i].from = <<f, k>>
        BY <2>2, <3>3, Zenon DEF Walk
      <3> QED BY Zenon, <2>3, <3>2, <3>4
    <2> QED BY <1>0, <1>1, <1>2, <2>1, <2>6, Zenon DEF WalkInv
  <1>6. CASE Writes /\ ~Begin
    <2>1. /\ UNCHANGED <<tables, due>> /\ pc' \notin {"idle", "gather"}
      BY <1>6, WritesFrame
    <2>2. pc \in {"truncate", "insert", "commit"}
      BY <1>6, PanicFrame, Zenon
      DEF Writes, TruncateTables, SkipEmpty, InsertTable, fixSequences, Commit,
         TruncateTable, Truncated, loadRow, CommitMysql, Loading
    <2> QED BY <1>0, <1>1, <1>2, <2>1, <2>2 DEF WalkInv
  <1>7. CASE Return
    <2>1. \A i \in DOMAIN <<>> : FALSE  OBVIOUS
    <2>2. Once'  BY <1>7, <2>1, ReturnFrame, Zenon DEF Once
    <2> QED BY <1>0, <1>7, <2>2, ReturnFrame, Zenon DEF WalkInv
  <1>8. CASE \E names \in Requests : Load(names)
    BY <1>0, <1>1, <1>8, LoadFrame DEF Blank, Walk, Owes, Reached, ClosedSet, WalkInv
  <1>9. CASE \E t \in HasId : AppInsert(t)  BY <1>0, <1>1, <1>9, AppFrame, Zenon DEF WalkInv
  <1> QED BY <1>3, <1>4, <1>5, <1>6, <1>7, <1>8, <1>9, Actions, Zenon

-----------------------------------------------------------------------------
(* Inserting.  One step of either loader inserts the rows from row to hi   *)
(* of the current section: all of them in PostgreSQL, one in MySQL, none   *)
(* of an empty section.                                                    *)

Work == IF dialect = "postgres" THEN tx ELSE db
Seen == dialect = "postgres" \/ Current.table \in HasId

Done(k, i) == k < at \/ (k = at /\ i < row)

Position(i) == Len(Work[Current.table]) + 1 + i - row
Added(i) == Work'[Current.table][Position(i)]

Grown(hi) ==
    /\ \A u \in Table : u # Current.table => Work'[u] = Work[u]
    /\ \A j \in DOMAIN Work[Current.table] :
          j \in DOMAIN Work'[Current.table] /\ Work'[Current.table][j] = Work[Current.table][j]
    /\ \A j \in DOMAIN Work'[Current.table] :
          j \in DOMAIN Work[Current.table] \/ \E i \in row..hi : j = Position(i)
    /\ \A i \in row..hi :
          /\ i \in DOMAIN Rows /\ Position(i) \in DOMAIN Work'[Current.table]
          /\ Position(i) \notin DOMAIN Work[Current.table]
          /\ Added(i).from = <<Current.from, i>>
    /\ \A k \in DOMAIN tables : \A i \in DOMAIN tables[k].rows :
          Done(k, i)' <=> Done(k, i) \/ (k = at /\ i \in row..hi)

Entered(hi) ==
    /\ \A i \in row..hi :
          /\ BaseDefined(Rows[i]) /\ Resolvable(Rows[i])
          /\ \E id \in Int :
                /\ \/ Current.table \notin HasId \/ Unnumbered(Rows[i])
                   \/ id = Resolve(Extended(Rows[i])["id"])
                /\ Added(i).cols = Stored(Rows[i], Current.table, id)
          /\ Seen /\ Rows[i].name # None =>
                /\ refs[Rows[i].name] = NoRow /\ refs'[Rows[i].name] = Extended(Rows[i])
                /\ inserted'[Rows[i].name] = Fetched(Added(i).cols)
    /\ \A n \in Name :
          \/ refs'[n] = refs[n] /\ inserted'[n] = inserted[n]
          \/ Seen /\ \E i \in row..hi : Rows[i].name = n

LEMMA SectRows ==
    ASSUME Typed, NEW k \in DOMAIN tables, NEW i \in DOMAIN tables[k].rows
    PROVE  /\ k \in Nat \ {0} /\ k <= Len(tables) /\ tables[k].table \in Table
           /\ i \in Nat \ {0} /\ i <= Len(tables[k].rows) /\ tables[k].rows[i] \in Entry
  <1>1. k \in Nat \ {0} /\ k <= Len(tables) /\ tables[k] \in Sect
    BY SeqFacts DEF Typed
  <1>2. tables[k].rows \in Seq(Entry) /\ tables[k].table \in Table  BY <1>1, Zenon DEF Sect
  <1> QED BY <1>1, <1>2, SeqFacts

LEMMA SkipShape ==
    ASSUME TypeInv, SkipEmpty
    PROVE  at <= Len(tables) /\ \E hi \in Nat : Grown(hi) /\ Entered(hi)
  <1>0. Typed /\ Rowed  BY Zenon DEF TypeInv
  <1>1. /\ pc = "insert" /\ at <= Len(tables) /\ Rows = <<>> /\ at' = at + 1
        /\ UNCHANGED <<gathered, pc, ret, refs, inserted, row, tx, db, last>>
    BY Zenon DEF SkipEmpty, Loading
  <1>2. row = 1  BY <1>0, <1>1 DEF Typed, Rowed
  <1>3. Work' = Work  BY <1>1 DEF Work, gathered
  <1>4. row..0 = {}  BY <1>2
  <1>5. Grown(0)
    <2>1. ASSUME NEW k \in DOMAIN tables, NEW i \in DOMAIN tables[k].rows
          PROVE  Done(k, i)' <=> Done(k, i)
      <3>1. \A j \in DOMAIN <<>> : FALSE  OBVIOUS
      <3>2. k # at  BY <1>1, <2>1, <3>1, Zenon DEF Rows, Current
      <3>3. k \in Nat /\ at \in Nat  BY <1>0, SectRows, Zenon DEF Typed
      <3>4. k < at + 1 <=> k < at  BY <3>2, <3>3
      <3>5. i \in Nat \ {0}  BY <1>0, SectRows, Zenon
      <3>6. ~(i < row)  BY <1>2, <3>5
      <3> QED BY <1>1, <3>2, <3>4, <3>6, Zenon DEF Done
    <2> QED BY <1>3, <1>4, <2>1, Zenon DEF Grown
  <1>6. Entered(0)  BY <1>1, <1>4, Zenon DEF Entered
  <1> QED BY <1>1, <1>5, <1>6

LEMMA InsertTableShape ==
    ASSUME Finiteness, TypeInv, InsertTable, pc' = "insert"
    PROVE  at <= Len(tables) /\ \E hi \in Nat : Grown(hi) /\ Entered(hi)
  <1>0. Typed /\ Rowed  BY Zenon DEF TypeInv
  <1>1. /\ dialect = "postgres" /\ pc = "insert" /\ at <= Len(tables) /\ row = 1
        /\ UNCHANGED <<gathered, row, db>> /\ Insertable /\ NamesFree
        /\ tx' = [tx EXCEPT ![Current.table] = @ \o NewRows]
        /\ refs' = [n \in Name |-> IF n \in RowNames
                        THEN Extended(Rows[RowNamed(n)]) ELSE refs[n]]
        /\ inserted' = [n \in Name |-> IF n \in RowNames
                        THEN Returned(RowNamed(n)) ELSE inserted[n]]
        /\ at' = at + 1
    BY <1>0, Zenon DEF Rowed, InsertTable, Loading, Fail
  <1> DEFINE t == Current.table
             m == Len(Rows)
  <1>2. /\ t \in Table /\ DOMAIN Rows = 1..m /\ m \in Nat
        /\ \A i \in DOMAIN Rows : Rows[i] \in Entry
    BY <1>0, <1>1, CurrentType, Zenon
  <1>3. /\ NewRows \in Seq(Rec) /\ Len(NewRows) = m /\ DOMAIN NewRows = DOMAIN Rows
        /\ \A i \in DOMAIN Rows :
              /\ NewId(i) \in Int /\ NewRows[i].from = <<Current.from, i>>
              /\ NewRows[i].cols = Stored(Rows[i], t, NewId(i))
    BY <1>0, <1>1, NewRowsType, Zenon
  <1>4. tx[t] \in Seq(Rec) /\ tx \in [Table -> Seq(Rec)]  BY <1>0, <1>2, Zenon DEF Typed
  <1>5. Work = tx /\ Work' = tx'
    BY <1>1, Zenon DEF Work, gathered
  <1> HIDE DEF t, m
  <1>6. /\ Work'[t] = Work[t] \o NewRows /\ \A u \in Table : u # t => Work'[u] = Work[u]
        /\ Len(Work[t]) \in Nat /\ DOMAIN Work[t] = 1..Len(Work[t])
        /\ DOMAIN Work'[t] = 1..(Len(Work[t]) + m)
    <2>1. Work'[t] = Work[t] \o NewRows /\ \A u \in Table : u # t => Work'[u] = Work[u]
      BY <1>1, <1>2, <1>4, <1>5, Zenon DEF t
    <2>2. Work[t] \in Seq(Rec) /\ NewRows \in Seq(Rec) /\ m = Len(NewRows)
      BY <1>3, <1>4, <1>5, Zenon
    <2> QED BY <2>1, <2>2, ConcatFacts, SeqFacts
  <1>7. \A i \in 1..m : Position(i) = Len(Work[t]) + i /\ Added(i) = NewRows[i]
    <2> TAKE i \in 1..m
    <2>1. Position(i) = Len(Work[t]) + i  BY <1>1, <1>6 DEF Position, t
    <2>2. (Work[t] \o NewRows)[Len(Work[t]) + i] = NewRows[i]
      BY <1>2, <1>3, <1>4, <1>5, ConcatFacts
    <2> QED BY <1>6, <2>1, <2>2, Zenon DEF Added, t
  <1>8. Grown(m)
    <2>1. \A j \in DOMAIN Work[t] : j \in DOMAIN Work'[t] /\ Work'[t][j] = Work[t][j]
      BY <1>2, <1>3, <1>4, <1>5, <1>6, ConcatFacts
    <2>2. ASSUME NEW j \in DOMAIN Work'[t], j \notin DOMAIN Work[t]
          PROVE  \E i \in row..m : j = Position(i)
      <3>1. j - Len(Work[t]) \in 1..m /\ j = Len(Work[t]) + (j - Len(Work[t]))
        BY <1>2, <1>6, <2>2
      <3> QED BY <1>1, <1>7, <3>1, Zenon
    <2>3. ASSUME NEW i \in row..m
          PROVE  /\ i \in DOMAIN Rows /\ Position(i) \in DOMAIN Work'[t]
                 /\ Position(i) \notin DOMAIN Work[t]
                 /\ Added(i).from = <<Current.from, i>>
      <3>1. i \in 1..m  BY <1>1
      <3>2. Position(i) = Len(Work[t]) + i  BY <1>7, <3>1, Zenon
      <3>3. Position(i) \in DOMAIN Work'[t] /\ Position(i) \notin DOMAIN Work[t]
        BY <1>2, <1>6, <3>1, <3>2
      <3> QED BY <1>2, <1>3, <1>7, <3>1, <3>3, Zenon
    <2>4. ASSUME NEW k \in DOMAIN tables, NEW i \in DOMAIN tables[k].rows
          PROVE  Done(k, i)' <=> Done(k, i) \/ (k = at /\ i \in row..m)
      <3>1. k \in Nat /\ i \in Nat \ {0} /\ at \in Nat  BY <1>0, SectRows, Zenon DEF Typed
      <3>2. k = at => i \in 1..m  BY <1>2, Zenon DEF Rows, Current
      <3>3. Done(k, i) <=> k < at  BY <1>1, <3>1 DEF Done
      <3>4. Done(k, i)' <=> k < at + 1  BY <1>1, <3>1 DEF Done
      <3> QED BY <1>1, <3>1, <3>2, <3>3, <3>4
    <2> QED BY <1>6, <2>1, <2>2, <2>3, <2>4, Zenon DEF Grown, t
  <1>9. Entered(m)
    <2>1. \A i \in DOMAIN Rows : Rows[i].name # None =>
             /\ Rows[i].name \in RowNames /\ RowNamed(Rows[i].name) = i
             /\ Rows[i].name \in Name /\ refs[Rows[i].name] = NoRow
      BY <1>1, <1>2, EntryType, Zenon DEF RowNames, NamesFree, RowNamed
    <2>2. ASSUME NEW i \in row..m
          PROVE  /\ BaseDefined(Rows[i]) /\ Resolvable(Rows[i])
                 /\ \E id \in Int :
                       /\ \/ Current.table \notin HasId \/ Unnumbered(Rows[i])
                          \/ id = Resolve(Extended(Rows[i])["id"])
                       /\ Added(i).cols = Stored(Rows[i], Current.table, id)
                 /\ Seen /\ Rows[i].name # None =>
                       /\ refs[Rows[i].name] = NoRow
                       /\ refs'[Rows[i].name] = Extended(Rows[i])
                       /\ inserted'[Rows[i].name] = Fetched(Added(i).cols)
      <3>1. i \in 1..m /\ i \in DOMAIN Rows  BY <1>1, <1>2, Zenon
      <3>2. BaseDefined(Rows[i]) /\ Resolvable(Rows[i])  BY <1>1, <3>1, Zenon DEF Insertable
      <3>3. Unnumbered(Rows[i]) \/ NewId(i) = Resolve(Extended(Rows[i])["id"])
        BY DEF NewId
      <3>4. NewId(i) \in Int /\ Added(i).cols = Stored(Rows[i], Current.table, NewId(i))
        BY Zenon, <1>3, <1>7, <3>1 DEF t
      <3>5. Rows[i].name # None =>
                       /\ refs[Rows[i].name] = NoRow
                       /\ refs'[Rows[i].name] = Extended(Rows[i])
                       /\ inserted'[Rows[i].name] = Fetched(Added(i).cols)
        BY <1>1, <1>5, <1>7, <2>1, <3>1, Zenon DEF Returned
      <3> QED BY <3>2, <3>3, <3>4, <3>5, Zenon
    <2>3. ASSUME NEW n \in Name
          PROVE  \/ refs'[n] = refs[n] /\ inserted'[n] = inserted[n]
                 \/ Seen /\ \E i \in row..m : Rows[i].name = n
      BY <1>1, <1>2, Zenon DEF RowNames, Seen
    <2> QED BY <2>2, <2>3, Zenon DEF Entered
  <1> QED BY <1>1, <1>2, <1>8, <1>9, Zenon

LEMMA LoadRowGrows ==
    ASSUME TypeInv, loadRow, pc' = "insert"
    PROVE  at <= Len(tables) /\ \E hi \in Nat : Grown(hi) /\ Entered(hi)
  <1>0. Typed /\ Rowed  BY Zenon DEF TypeInv
  <1>1. /\ dialect = "mysql" /\ pc = "insert" /\ at <= Len(tables)
        /\ row \in DOMAIN Rows /\ Rows[row] \in Entry /\ UNCHANGED <<gathered, tx>>
        /\ RowFits /\ RowStored /\ RowRegistered
    BY LoadRowShape, Zenon DEF Fail
  <1> DEFINE t == Current.table
             e == Rows[row]
             m == Len(Rows)
  <1>2. t \in Table /\ DOMAIN Rows = 1..m /\ m \in Nat /\ row \in Nat \ {0} /\ at \in Nat
    BY <1>0, <1>1, CurrentType, Zenon DEF Typed
  <1>3. /\ RowId \in Int /\ Fresh \in Rec /\ Fresh.from = <<Current.from, row>>
        /\ Fresh.cols = Stored(e, t, RowId)
    BY <1>0, <1>1, FreshType, Zenon
  <1>4. db[t] \in Seq(Rec) /\ db \in [Table -> Seq(Rec)]  BY <1>0, <1>2, Zenon DEF Typed
  <1>5. Work = db /\ Work' = db'
    BY <1>1, Zenon DEF Work, gathered
  <1> HIDE DEF t, e, m
  <1>6. /\ Work'[t] = Append(Work[t], Fresh) /\ \A u \in Table : u # t => Work'[u] = Work[u]
        /\ Len(Work[t]) \in Nat /\ DOMAIN Work[t] = 1..Len(Work[t])
        /\ DOMAIN Work'[t] = 1..(Len(Work[t]) + 1)
        /\ \A j \in DOMAIN Work[t] : Work'[t][j] = Work[t][j]
        /\ Work'[t][Len(Work[t]) + 1] = Fresh
    <2>1. Work'[t] = Append(Work[t], Fresh) /\ \A u \in Table : u # t => Work'[u] = Work[u]
      BY <1>1, <1>2, <1>4, <1>5, Zenon DEF t, RowStored
    <2>2. Work[t] \in Seq(Rec) /\ Fresh \in Rec  BY <1>3, <1>4, <1>5, Zenon
    <2> QED BY <2>1, <2>2, AppendFacts, SeqFacts
  <1>7. row..row = {row}  BY <1>2
  <1>8. Position(row) = Len(Work[t]) + 1 /\ Added(row) = Fresh
    <2>1. Position(row) = Len(Work[t]) + 1  BY <1>2, <1>6 DEF Position, t
    <2> QED BY <1>6, <2>1, Zenon DEF Added, t
  <1>9. Grown(row)
    <2>1. \A j \in DOMAIN Work[t] : j \in DOMAIN Work'[t] /\ Work'[t][j] = Work[t][j]
      BY <1>6
    <2>2. \A j \in DOMAIN Work'[t] :
             j \in DOMAIN Work[t] \/ \E i \in row..row : j = Position(i)
      BY <1>6, <1>7, <1>8
    <2>3. \A i \in row..row : /\ i \in DOMAIN Rows /\ Position(i) \in DOMAIN Work'[t]
                              /\ Position(i) \notin DOMAIN Work[t]
                              /\ Added(i).from = <<Current.from, i>>
      <3>1. \A n \in Nat : n + 1 \in 1..(n + 1) /\ n + 1 \notin 1..n  OBVIOUS
      <3>2. /\ Len(Work[t]) + 1 \in 1..(Len(Work[t]) + 1)
            /\ Len(Work[t]) + 1 \notin 1..Len(Work[t])
        BY <1>6, <3>1, Zenon
      <3>3. Position(row) \in DOMAIN Work'[t] /\ Position(row) \notin DOMAIN Work[t]
        BY <1>6, <1>8, <3>2, Zenon
      <3> QED BY <1>1, <1>3, <1>7, <1>8, <3>3, Zenon
    <2>4. ASSUME NEW k \in DOMAIN tables, NEW i \in DOMAIN tables[k].rows
          PROVE  Done(k, i)' <=> Done(k, i) \/ (k = at /\ i \in row..row)
      BY <1>0, <1>1, <1>2, <1>7, SectRows DEF Rows, Current, Done, RowRegistered, NextRow, m
    <2> QED BY <1>6, <2>1, <2>2, <2>3, <2>4, Zenon DEF Grown, t
  <1>10. Entered(row)
    <2>1. e.name \in Name \union {None} /\ e \in Entry  BY <1>1, EntryType, Zenon DEF e
    <2>2. BaseDefined(e) /\ Resolvable(e)  BY <1>1, Zenon DEF RowFits, e
    <2>3. t \notin HasId \/ Unnumbered(e) \/ RowId = Resolve(Extended(e)["id"])
      BY Zenon DEF RowId, t, e
    <2>4. Seen <=> t \in HasId  BY <1>1, Zenon DEF Seen, t
    <2>5. Kept1 <=> Seen /\ e.name # None  BY <2>4, Zenon DEF Kept1, t, e
    <2>6. refs \in [Name -> [Field -> Expr] \union {NoRow}]
          /\ inserted \in [Name -> Cols \union {NoRow}]
      BY <1>0, Zenon DEF Typed
    <2>7. Seen /\ e.name # None => /\ refs[e.name] = NoRow /\ refs'[e.name] = Extended(e)
                                   /\ inserted'[e.name] = Fetched(Fresh.cols)
      BY <1>1, <1>5, <2>1, <2>5, <2>6, Zenon DEF RowRegistered, e
    <2>8. \A n \in Name : \/ refs'[n] = refs[n] /\ inserted'[n] = inserted[n]
                          \/ Seen /\ e.name = n
      BY <1>1, <2>1, <2>5, <2>6, Zenon DEF RowRegistered, e
    <2> QED BY <1>3, <1>7, <1>8, <2>2, <2>3, <2>7, <2>8, Zenon DEF Entered, t, e
  <1> QED BY <1>1, <1>2, <1>9, <1>10

LEMMA InsertShape ==
    ASSUME Finiteness, TypeInv, Next, pc = "insert", pc' = "insert"
    PROVE  /\ at <= Len(tables) /\ \E hi \in Nat : Grown(hi) /\ Entered(hi)
           /\ UNCHANGED <<dialect, tables, due>>
  <1>1. Writes  BY GathersFrame, ReturnFrame, LoadFrame, AppFrame, Actions, Zenon
  <1>2. SkipEmpty \/ InsertTable \/ loadRow
    BY <1>1, PanicFrame, Zenon DEF Begin, TruncateTables, Commit, TruncateTable, Truncated,
      fixSequences, CommitMysql, Fail, Goto, Writes
  <1>3. UNCHANGED <<dialect, tables, due>>  BY <1>1, WritesFrame, Zenon
  <1> QED BY <1>2, <1>3, SkipShape, InsertTableShape, LoadRowGrows, Zenon
-----------------------------------------------------------------------------
(* The tables being filled hold each row processed so far, once.           *)

Backed(t, j, k, i) ==
    /\ tables[k].table = t /\ Done(k, i)
    /\ Work[t][j].from = <<tables[k].from, i>>

Filling ==
    \A t \in Filled :
        /\ \A j \in DOMAIN Work[t] : \E k \in DOMAIN tables : \E i \in DOMAIN tables[k].rows :
              Backed(t, j, k, i)
        /\ \A k \in DOMAIN tables : \A i \in DOMAIN tables[k].rows :
              tables[k].table = t /\ Done(k, i) => \E j \in DOMAIN Work[t] : Backed(t, j, k, i)
        /\ \A i, j \in DOMAIN Work[t] : Work[t][i].from = Work[t][j].from => i = j

Stage ==
    /\ pc = "truncate" /\ dialect = "postgres" => at = 1
    /\ pc = "truncate" /\ dialect = "mysql" =>
          \A k \in DOMAIN tables : k < at => db[tables[k].table] = <<>>
    /\ pc = "commit" => at > Len(tables) /\ dialect = "postgres"

FillInv ==
    /\ WalkInv /\ Stage
    /\ pc \in {"insert", "commit"} => Filling

\* Nothing has been inserted yet.
LEMMA FillingEmpty ==
    ASSUME Typed', at' = 1, row' = 1, \A t \in Filled' : Work'[t] = <<>>
    PROVE  Filling'
  <1>1. \A k \in DOMAIN tables' : \A i \in DOMAIN tables'[k].rows : ~Done(k, i)'
    <2> TAKE k \in DOMAIN tables'
    <2> TAKE i \in DOMAIN tables'[k].rows
    <2>1. tables'[k] \in Sect /\ k \in Nat \ {0}  BY IndexFacts, Zenon DEF Typed
    <2>2. tables'[k].rows \in Seq(Entry)  BY <2>1, Zenon DEF Sect
    <2>3. i \in Nat \ {0}  BY <2>2, IndexFacts, Zenon
    <2>4. \A n \in Nat \ {0} : ~(n < 1)  OBVIOUS
    <2> QED BY <2>1, <2>3, <2>4, Zenon DEF Done
  <1> QED BY <1>1 DEF Filling

LEMMA FillingGrows ==
    ASSUME WalkInv, Filling, at <= Len(tables), NEW hi \in Nat, Grown(hi),
           UNCHANGED <<dialect, tables, due>>
    PROVE  Filling'
  <1>0. Typed /\ Within /\ Once  BY Zenon DEF WalkInv, GatherInv, TypeInv
  <1> DEFINE c == Current.table
  <1>1. /\ at \in DOMAIN tables /\ c = tables[at].table /\ c \in Table
        /\ Rows = tables[at].rows /\ Current.from = tables[at].from
    BY <1>0, CurrentType, Zenon DEF Current, Rows
  <1>2. Filled' = Filled /\ Filled \subseteq Table
    BY <1>0, SectionType, Zenon DEF Filled, Sections
  <1> HIDE DEF c
  <1>3. /\ \A u \in Table : u # c => Work'[u] = Work[u]
        /\ \A j \in DOMAIN Work[c] : j \in DOMAIN Work'[c] /\ Work'[c][j] = Work[c][j]
        /\ \A j \in DOMAIN Work'[c] : j \in DOMAIN Work[c] \/ \E i \in row..hi : j = Position(i)
        /\ \A i \in row..hi : /\ i \in DOMAIN tables[at].rows
                              /\ Position(i) \in DOMAIN Work'[c]
                              /\ Position(i) \notin DOMAIN Work[c]
                              /\ Work'[c][Position(i)].from = <<tables[at].from, i>>
    BY <1>1, Zenon DEF Grown, Added, c
  <1>4. \A k \in DOMAIN tables : \A i \in DOMAIN tables[k].rows :
           Done(k, i)' <=> Done(k, i) \/ (k = at /\ i \in row..hi)
    BY Zenon DEF Grown
  <1>5. \A i \in row..hi : ~Done(at, i)  BY <1>0 DEF Typed, Done
  <1> SUFFICES ASSUME NEW t \in Filled
               PROVE  /\ \A j \in DOMAIN Work'[t] : \E k \in DOMAIN tables :
                            \E i \in DOMAIN tables[k].rows : Backed(t, j, k, i)'
                      /\ \A k \in DOMAIN tables : \A i \in DOMAIN tables[k].rows :
                            tables[k].table = t /\ Done(k, i)' =>
                               \E j \in DOMAIN Work'[t] : Backed(t, j, k, i)'
                      /\ \A i, j \in DOMAIN Work'[t] :
                            Work'[t][i].from = Work'[t][j].from => i = j
    BY <1>2, Zenon DEF Filling
  <1>6. \A j, k, i : Backed(t, j, k, i)' <=>
           tables[k].table = t /\ Done(k, i)' /\ Work'[t][j].from = <<tables[k].from, i>>
    BY Zenon DEF Backed
  <1>7. t \in Table  BY <1>2
  \* The rows that were there.
  <1>8. ASSUME NEW j \in DOMAIN Work[t], Work'[t][j] = Work[t][j]
        PROVE  \E k \in DOMAIN tables : \E i \in DOMAIN tables[k].rows :
                  /\ Backed(t, j, k, i)' /\ Done(k, i)
                  /\ Work[t][j].from = <<tables[k].from, i>>
    <2>1. PICK k \in DOMAIN tables : \E i \in DOMAIN tables[k].rows : Backed(t, j, k, i)
      BY Zenon DEF Filling
    <2>2. PICK i \in DOMAIN tables[k].rows : Backed(t, j, k, i)  BY <2>1, Zenon
    <2>3. Done(k, i)'  BY <1>4, <2>2, Zenon DEF Backed
    <2>4. Backed(t, j, k, i)'  BY <1>6, <1>8, <2>2, <2>3, Zenon DEF Backed
    <2> QED BY <2>2, <2>4, Zenon DEF Backed
  <1>9. CASE t # c
    <2>1. Work'[t] = Work[t]  BY <1>3, <1>7, <1>9
    <2>2. \A j \in DOMAIN Work'[t] : \E k \in DOMAIN tables :
             \E i \in DOMAIN tables[k].rows : Backed(t, j, k, i)'
      BY <1>8, <2>1, Zenon
    <2>3. ASSUME NEW k \in DOMAIN tables, NEW i \in DOMAIN tables[k].rows,
                 tables[k].table = t, Done(k, i)'
          PROVE  \E j \in DOMAIN Work'[t] : Backed(t, j, k, i)'
      <3>1. k # at  BY <1>1, <1>9, <2>3
      <3>2. Done(k, i)  BY <1>4, <2>3, <3>1, Zenon
      <3>3. PICK j \in DOMAIN Work[t] : Backed(t, j, k, i)
        BY <2>3, <3>2, Zenon DEF Filling
      <3>4. Work[t][j].from = <<tables[k].from, i>>  BY <3>3, Zenon DEF Backed
      <3> QED BY <1>6, <2>1, <2>3, <3>4, Zenon
    <2>4. \A i, j \in DOMAIN Work'[t] : Work'[t][i].from = Work'[t][j].from => i = j
      BY <2>1, Zenon DEF Filling
    <2> QED BY <2>2, <2>3, <2>4, Zenon
  <1>10. CASE t = c
    <2>1. PICK a \in DOMAIN tables : a = at  BY <1>1
    <2>2. \A j \in DOMAIN Work[t] : j \in DOMAIN Work'[t] /\ Work'[t][j] = Work[t][j]
      BY <1>3, <1>10, Zenon
    <2>3. ASSUME NEW j \in DOMAIN Work'[t], j \notin DOMAIN Work[t]
          PROVE  \E i \in DOMAIN tables[a].rows :
                    /\ i \in row..hi /\ j = Position(i)
                    /\ Work'[t][j].from = <<tables[a].from, i>> /\ Backed(t, j, a, i)'
      <3>1. PICK i \in row..hi : j = Position(i)  BY <1>3, <1>10, <2>3, Zenon
      <3>2. i \in DOMAIN tables[a].rows /\ Work'[t][j].from = <<tables[a].from, i>>
        BY <1>3, <1>10, <2>1, <3>1, Zenon
      <3>3. Done(a, i)'  BY <1>4, <2>1, <3>2, Zenon
      <3>4. Backed(t, j, a, i)'  BY <1>1, <1>6, <1>10, <2>1, <3>2, <3>3
      <3> QED BY <3>1, <3>2, <3>4, Zenon
    <2>4. \A j \in DOMAIN Work'[t] : \E k \in DOMAIN tables :
             \E i \in DOMAIN tables[k].rows : Backed(t, j, k, i)'
      BY <1>8, <2>2, <2>3, Zenon
    <2>5. ASSUME NEW k \in DOMAIN tables, NEW i \in DOMAIN tables[k].rows,
                 tables[k].table = t, Done(k, i)'
          PROVE  \E j \in DOMAIN Work'[t] : Backed(t, j, k, i)'
      <3>1. CASE Done(k, i)
        <4>1. PICK j \in DOMAIN Work[t] : Backed(t, j, k, i)
          BY <2>5, <3>1, Zenon DEF Filling
        <4> QED BY <1>6, <2>2, <2>5, <4>1, Zenon DEF Backed
      <3>2. CASE k = at /\ i \in row..hi
        <4>1. /\ Position(i) \in DOMAIN Work'[t]
              /\ Work'[t][Position(i)].from = <<tables[k].from, i>>
          BY <1>3, <1>10, <3>2, Zenon
        <4> QED BY <1>6, <2>5, <4>1, Zenon
      <3> QED BY <1>4, <2>5, <3>1, <3>2, Zenon
    <2>6. ASSUME NEW i \in DOMAIN Work[t], NEW j \in DOMAIN Work'[t], j \notin DOMAIN Work[t],
                 Work[t][i].from = Work'[t][j].from
          PROVE  FALSE
      <3>1. PICK q \in DOMAIN tables[a].rows :
               q \in row..hi /\ Work'[t][j].from = <<tables[a].from, q>>
        BY <2>3, <2>6, Zenon
      <3>2. PICK k \in DOMAIN tables : \E l \in DOMAIN tables[k].rows :
               Done(k, l) /\ Work[t][i].from = <<tables[k].from, l>>
        BY <1>8, <2>2, Zenon
      <3>3. PICK l \in DOMAIN tables[k].rows :
               Done(k, l) /\ Work[t][i].from = <<tables[k].from, l>>
        BY <3>2, Zenon
      <3>4. tables[k].from = tables[a].from /\ l = q
        <4>1. <<tables[k].from, l>> = <<tables[a].from, q>>  BY <2>6, <3>1, <3>3, Zenon
        <4> QED BY <4>1
      <3>5. k = a  BY <1>0, <3>4, Zenon DEF Once
      <3> QED BY <1>5, <2>1, <3>1, <3>3, <3>4, <3>5, Zenon
    <2>7. ASSUME NEW i \in DOMAIN Work'[t], NEW j \in DOMAIN Work'[t],
                 Work'[t][i].from = Work'[t][j].from
          PROVE  i = j
      <3>1. CASE i \in DOMAIN Work[t] /\ j \in DOMAIN Work[t]
        BY <2>2, <2>7, <3>1, Zenon DEF Filling
      <3>2. CASE i \notin DOMAIN Work[t] /\ j \notin DOMAIN Work[t]
        <4>1. PICK q \in DOMAIN tables[a].rows :
                 i = Position(q) /\ Work'[t][i].from = <<tables[a].from, q>>
          BY <2>3, <3>2, Zenon
        <4>2. PICK l \in DOMAIN tables[a].rows :
                 j = Position(l) /\ Work'[t][j].from = <<tables[a].from, l>>
          BY <2>3, <3>2, Zenon
        <4>3. <<tables[a].from, q>> = <<tables[a].from, l>>  BY <2>7, <4>1, <4>2, Zenon
        <4>4. q = l  BY <4>3
        <4> QED BY <4>1, <4>2, <4>4, Zenon
      <3> QED BY <2>2, <2>6, <2>7, <3>1, <3>2, Zenon
    <2> QED BY <2>4, <2>5, <2>7, Zenon
  <1> QED BY <1>9, <1>10, Zenon

LEMMA FillingStays ==
    ASSUME UNCHANGED <<tables, due, at, row>>, Work' = Work, Filling
    PROVE  Filling'
  <1>1. Filled' = Filled  BY Zenon DEF Filled, Sections
  <1>2. \A k, i : Done(k, i)' <=> Done(k, i)  BY Zenon DEF Done
  <1>3. \A t, j, k, i : Backed(t, j, k, i)' <=> Backed(t, j, k, i)
    BY <1>2 DEF Backed
  <1>4. tables' = tables  BY Zenon
  <1> QED BY Zenon, <1>1, <1>2, <1>3, <1>4 DEF Filling

\* When the first row is inserted the tables to be filled are empty.
LEMMA StartEmpty ==
    ASSUME FillInv, TruncateTables \/ Truncated, pc' # "returned"
    PROVE  /\ pc = "truncate" /\ pc' = "insert" /\ at' = 1 /\ row' = 1
           /\ UNCHANGED inserted /\ \A t \in Filled' : Work'[t] = <<>>
  <1>0. /\ WalkInv /\ Typed /\ Rowed /\ Within /\ Stage
    BY Zenon DEF FillInv, WalkInv, GatherInv, TypeInv
  <1>1. CASE TruncateTables
    <2>1. /\ dialect = "postgres" /\ pc = "truncate" /\ pc' = "insert"
          /\ UNCHANGED <<dialect, tables, due, at, row, inserted>>
          /\ tx' = [t \in Table |-> IF t \in Cascade THEN <<>> ELSE tx[t]]
      BY <1>1, Zenon DEF TruncateTables, Fail, Goto, gathered
    <2>2. at' = 1 /\ row' = 1  BY <1>0, <2>1 DEF Rowed, Stage
    <2>3. Named \in SUBSET Table
      <3>1. \A k \in DOMAIN tables : tables[k].table \in Table
        BY <1>0, SectionType, Zenon DEF Within
      <3> QED BY <3>1, Zenon DEF Named
    <2>4. ASSUME NEW t \in Filled' PROVE Work'[t] = <<>>
      <3>1. t \in Filled /\ AllTabled  BY <1>0, <2>1, Zenon DEF Filled, Sections, WalkInv
      <3>2. PICK p \in Sections : t = Section(p).table  BY <3>1 DEF Filled
      <3>3. PICK k \in DOMAIN tables : tables[k].from = p  BY <3>1, Zenon DEF AllTabled
      <3>4. tables[k].table = t  BY <1>0, <3>2, <3>3, Zenon DEF Within
      <3>5. t \in Named  BY <3>4, Zenon DEF Named
      <3>6. t \in Cascade /\ t \in Table  BY <2>3, <3>5, ReachingFacts, Zenon DEF Cascade
      <3> QED BY <2>1, <3>6, Zenon DEF Work
    <2> QED BY <2>1, <2>2, <2>4, Zenon
  <1>2. CASE Truncated
    <2>1. /\ dialect = "mysql" /\ pc = "truncate" /\ pc' = "insert" /\ at' = 1
          /\ at > Len(tables) /\ UNCHANGED <<dialect, tables, due, row, db, inserted>>
      BY <1>2, Zenon DEF Truncated, Goto, gathered
    <2>2. at' = 1 /\ row' = 1  BY <1>0, <2>1 DEF Rowed
    <2>3. ASSUME NEW t \in Filled' PROVE Work'[t] = <<>>
      <3>1. t \in Filled /\ AllTabled  BY <1>0, <2>1, Zenon DEF Filled, Sections, WalkInv
      <3>2. PICK p \in Sections : t = Section(p).table  BY <3>1 DEF Filled
      <3>3. PICK k \in DOMAIN tables : tables[k].from = p  BY <3>1, Zenon DEF AllTabled
      <3>4. tables[k].table = t  BY <1>0, <3>2, <3>3, Zenon DEF Within
      <3>5. k < at  BY <1>0, <2>1, SeqFacts DEF Typed
      <3> QED BY <1>0, <2>1, <3>4, <3>5, Zenon DEF Work, Stage
    <2> QED BY <2>1, <2>2, <2>3, Zenon
  <1> QED BY <1>1, <1>2

LEMMA InsertingFrame ==
    ASSUME SkipEmpty \/ InsertTable \/ loadRow
    PROVE  pc = "insert" /\ pc' \in {"insert", "returned"} /\ Next
  <1>1. Next  BY Zenon DEF Next, Step
  <1>2. CASE loadRow
    <2>1. pc = "insert" /\ (Fail \/ Goto(pc))  BY <1>2, Zenon DEF loadRow, Loading
    <2> QED BY <1>1, <2>1 DEF Fail, Goto
  <1>3. CASE SkipEmpty \/ InsertTable
    BY <1>1, <1>3, Zenon DEF SkipEmpty, InsertTable, Loading, Fail, Goto
  <1> QED BY <1>2, <1>3

LEMMA FillStep ==
    ASSUME Finiteness PROVE FillInv /\ [Next]_vars => FillInv'
  <1> SUFFICES ASSUME FillInv, [Next]_vars PROVE FillInv'  OBVIOUS
  <1>0. /\ WalkInv /\ GatherInv /\ TypeInv /\ Typed /\ Rowed /\ Blank /\ Within /\ Stage
        /\ WalkInv' /\ Typed' /\ Rowed'
    BY WalkStep, Zenon DEF FillInv, WalkInv, GatherInv, TypeInv
  <1>1. pc \in {"insert", "commit"} => Filling  BY Zenon DEF FillInv
  <1>2. ASSUME UNCHANGED <<dialect, tables, due, at, row, tx, db>>, Filling PROVE Filling'
    BY <1>2, FillingStays DEF Work
  <1>3. CASE UNCHANGED vars  BY <1>0, <1>1, <1>2, <1>3, Zenon DEF vars, ctx, Stage, FillInv
  <1>4. CASE pc' \in {"idle", "gather", "returned"}
    BY <1>0, <1>4, Zenon DEF FillInv, Stage
  <1>5. CASE Begin
    BY <1>0, <1>5, SeqFacts DEF Begin, Fail, Goto, Blank, Typed, FillInv, Stage
  <1>6. CASE (TruncateTables \/ Truncated) /\ pc' # "returned"
    BY <1>0, <1>6, StartEmpty, FillingEmpty, Zenon DEF FillInv, Stage
  <1>7. CASE TruncateTable /\ pc' # "returned"
    <2> DEFINE t == Current.table
    <2>1. /\ dialect = "mysql" /\ pc = "truncate" /\ at <= Len(tables)
          /\ pc' = "truncate" /\ at' = at + 1 /\ UNCHANGED <<dialect, tables>>
          /\ \/ db' = db /\ \E k \in 1..(at - 1) : tables[k].table = t
             \/ db' = [db EXCEPT ![t] = <<>>]
      BY <1>7, Zenon DEF TruncateTable, Fail, Goto, gathered
    <2>2. t \in Table /\ t = tables[at].table /\ at \in Nat /\ db \in [Table -> Seq(Rec)]
      BY <1>0, <2>1, CurrentType, Zenon DEF Typed, Current
    <2>3. \A k \in DOMAIN tables : k < at => db[tables[k].table] = <<>>
      BY <1>0, <2>1, Zenon DEF Stage
    <2>4. \A k \in DOMAIN tables : k \in 1..Len(tables) /\ tables[k].table \in Table
      <3>1. \A k \in DOMAIN tables : tables[k] \in Sect /\ k \in 1..Len(tables)
        BY <1>0, SeqFacts DEF Typed
      <3> QED BY <3>1, Zenon DEF Sect
    <2> HIDE DEF t
    <2>5. db'[t] = <<>> /\ \A u \in Table : db[u] = <<>> => db'[u] = <<>>
      <3>1. CASE db' = db /\ \E k \in 1..(at - 1) : tables[k].table = t
        <4>1. PICK k \in 1..(at - 1) : tables[k].table = t  BY <3>1, Zenon
        <4>2. k \in DOMAIN tables /\ k < at  BY <1>0, <2>1, <2>2, SeqFacts DEF Typed
        <4> QED BY <2>3, <3>1, <4>1, <4>2
      <3>2. CASE db' = [db EXCEPT ![t] = <<>>]  BY <2>2, <3>2, Zenon
      <3> QED BY <2>1, <3>1, <3>2, Zenon
    <2>6. ASSUME NEW k \in DOMAIN tables, k < at' PROVE db'[tables[k].table] = <<>>
      BY <2>1, <2>2, <2>3, <2>4, <2>5, <2>6
    <2> QED BY <1>0, <2>1, <2>6, Zenon DEF FillInv, Stage
  <1>8. CASE pc = "insert" /\ pc' = "insert" /\ Next
    BY <1>0, <1>1, <1>8, InsertShape, FillingGrows, Zenon DEF FillInv, Stage
  <1>9. CASE fixSequences
    BY <1>0, <1>1, <1>2, <1>9, Zenon DEF fixSequences, Fail, Goto, gathered, FillInv, Stage
  <1>10. CASE Gathers \/ Return \/ (\E names \in Requests : Load(names))
                \/ (\E t \in HasId : AppInsert(t))
    BY <1>4, <1>10, GathersFrame, ReturnFrame, LoadFrame, AppFrame, Zenon
  <1>11. CASE Commit \/ CommitMysql \/ SlicePanics
    BY <1>4, <1>11, PanicFrame DEF Commit, CommitMysql, Fail
  <1>12. CASE SkipEmpty \/ InsertTable \/ loadRow
    BY <1>4, <1>8, <1>12, InsertingFrame, Zenon
  <1> QED BY <1>3, <1>4, <1>5, <1>6, <1>7, <1>9, <1>10, <1>11, <1>12, Actions, Zenon DEF
            Writes

LEMMA InitFill == Init => FillInv
  <1> SUFFICES ASSUME Init PROVE FillInv  BY Zenon
  <1>1. pc = "idle" /\ tables = <<>>  BY Zenon DEF Init
  <1>2. Once  BY <1>1 DEF Once
  <1> QED BY <1>1, <1>2, InitGather DEF FillInv, WalkInv, Stage

=============================================================================
