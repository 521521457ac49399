-------------------------- MODULE SqlLoads_proofs --------------------------
(***************************************************************************)
(* Proofs about what the SQL fixture loaders leave in the tables they      *)
(* load, for any files, names and requests: everything, with the values    *)
(* the fixtures give it, or nothing.                                       *)
(***************************************************************************)
EXTENDS SqlGather_proofs, FiniteSetTheorems

-----------------------------------------------------------------------------
(* The two facts about sets of numbers that the earlier proofs rest on.    *)

LEMMA LeastNumber ==
    ASSUME NEW T \in SUBSET Nat, T # {}
    PROVE  \E x \in T : \A y \in T : x <= y
  <1> DEFINE R == {p \in Nat \X Nat : p[1] < p[2]}
  <1>1. IsWellFoundedOn(R, Nat)
    BY NatLessThanWellFounded DEF OpToRel
  <1> HIDE DEF R
  <1>2. PICK x \in T : \A y \in T : ~ (<<y, x>> \in R)
    BY Zenon, <1>1, WFMin
  <1>3. ASSUME NEW y \in T PROVE x <= y
    <2>1. x \in Nat /\ y \in Nat /\ ~ (<<y, x>> \in R)  BY <1>2
    <2>2. y < x => <<y, x>> \in R  BY <2>1 DEF R
    <2> QED BY <2>1, <2>2
  <1> QED BY <1>3

LEMMA FinitenessHolds == Finiteness
  <1>1. ASSUME NEW n \in Nat, NEW S \in SUBSET (1..n) PROVE Cardinality(S) \in Nat
    <2>1. IsFiniteSet(1..n)  BY FS_Interval
    <2>2. IsFiniteSet(S)  BY Zenon, <2>1, FS_Subset
    <2> QED BY <2>2, FS_CardinalityType
  <1> QED BY <1>1, LeastNumber, Zenon DEF Finiteness

-----------------------------------------------------------------------------
(* Numbering.  MySQL's counter is never behind the ids in use.             *)
(* PostgreSQL's sequences fall behind while rows with given ids are        *)
(* inserted; fixSequences catches up for what is about to be committed.    *)

Below(stored) ==
    \A t \in HasId : \A i \in DOMAIN stored[t] : stored[t][i].cols["id"] <= last[t]

Sequenced ==
    /\ dialect = "mysql" \/ (pc \in {"idle", "returned"} /\ ret = "ok") => Below(db)
    /\ pc = "commit" => dialect = "postgres" /\ Below(tx)

NumberInv == TypeInv /\ Sequenced

LEMMA NumberStep ==
    ASSUME Finiteness PROVE NumberInv /\ [Next]_vars => NumberInv'
  <1> SUFFICES ASSUME NumberInv, [Next]_vars PROVE NumberInv'  OBVIOUS
  <1>0. TypeInv /\ Typed /\ Numbers /\ Rowed /\ TypeInv'
    BY TypeStep, Zenon DEF NumberInv, TypeInv
  <1>1. /\ dialect \in {"postgres", "mysql"}
        /\ dialect = "mysql" \/ (pc \in {"idle", "returned"} /\ ret = "ok") => Below(db)
        /\ pc = "commit" => dialect = "postgres" /\ Below(tx)
    BY <1>0 DEF NumberInv, Sequenced, Typed
  <1> SUFFICES Sequenced'  BY <1>0, Zenon DEF NumberInv
  <1>2. ASSUME UNCHANGED <<dialect, db, last>>, pc' # "commit",
               pc' \in {"idle", "returned"} /\ ret' = "ok" =>
                  dialect = "mysql" \/ (pc \in {"idle", "returned"} /\ ret = "ok")
        PROVE  Sequenced'
    BY <1>1, <1>2, Zenon DEF Below, Sequenced
  <1>3. CASE UNCHANGED vars  BY <1>1, <1>3, Zenon DEF vars, Sequenced, Below
  <1>4. CASE LoadName \/ LoadInherited
    BY <1>2, <1>4, Zenon DEF LoadName, LoadInherited, InFile, unloaded, Open, Fail, Goto
  <1>5. CASE LoadTemplate \/ AddTables
    <2>1. UNCHANGED <<dialect, db, last>> /\ pc = "gather"
          /\ (pc' = "gather" \/ (pc' = "returned" /\ ret' = "error"))
      BY Zenon, <1>5 DEF LoadTemplate, AddTables, InFile, unloaded, Fail, Goto
    <2> QED BY <1>2, <2>1
  <1>6. CASE Begin  BY <1>2, <1>6, Zenon DEF Begin, Fail, Goto
  <1>7. CASE TruncateTables \/ SkipEmpty \/ Truncated
    BY <1>2, <1>7, Zenon DEF TruncateTables, SkipEmpty, Truncated, Loading, gathered, Fail,
      Goto
  <1>8. CASE InsertTable
    BY <1>8 DEF InsertTable, Loading, gathered, Fail, Goto, Sequenced
  <1>9. CASE fixSequences
    BY <1>0, <1>9, Constants, MaxOrFacts, Zenon DEF fixSequences, gathered, Fail, Goto,
      FixedSequences, Ids, Sequenced, Below
  <1>10. CASE Commit  BY <1>1, <1>10, Zenon DEF Commit, gathered, Fail, Below, Sequenced
  <1>11. CASE TruncateTable
    <2> DEFINE t == Current.table
    <2>1. /\ dialect = "mysql" /\ pc = "truncate" /\ at <= Len(tables)
          /\ UNCHANGED dialect /\ pc' \in {"truncate", "returned"}
          /\ \/ UNCHANGED <<db, last>>
             \/ db' = [db EXCEPT ![t] = <<>>] /\ last' = [last EXCEPT ![t] = 0]
      BY <1>11, Zenon DEF TruncateTable, gathered, Fail, Goto
    <2>2. t \in Table  BY <1>0, <2>1, CurrentType, Zenon
    <2> HIDE DEF t
    <2>3. \A u \in HasId : db'[u] = <<>> \/ (db'[u] = db[u] /\ last'[u] = last[u])
      BY <1>0, <2>1, <2>2, Constants, Zenon DEF Typed
    <2>4. Below(db)  BY <1>1, <2>1, Zenon
    <2>5. Below(db)'  BY <2>3, <2>4 DEF Below
    <2> QED BY <2>1, <2>5, Zenon DEF Sequenced
  <1>12. CASE loadRow
    <2>1. /\ dialect = "mysql" /\ pc = "insert" /\ at <= Len(tables)
          /\ row \in DOMAIN Rows /\ dialect' = dialect
      BY <1>0, <1>12, LoadRowShape, Zenon DEF gathered
    <2>2. pc' # "commit"
      BY <1>0, <1>12, <2>1, LoadRowShape, Zenon DEF RowRegistered, Fail, Goto
    <2>3. Below(db)  BY <1>1, <2>1, Zenon
    <2>4. UNCHANGED <<db, last>> \/ (RowFits /\ RowStored)
      BY <1>0, <1>12, LoadRowShape, Zenon
    <2>5. CASE UNCHANGED <<db, last>>  BY <2>2, <2>3, <2>5 DEF Below, Sequenced
    <2>6. CASE RowFits /\ RowStored
      <3> DEFINE t == Current.table
      <3>1. /\ RowId \in Int /\ Fresh \in Rec
            /\ t \in HasId => Fresh.cols["id"] = RowId
        BY <1>0, <2>1, <2>6, FreshType
      <3>2. /\ t \in Table /\ db \in [Table -> Seq(Rec)] /\ last \in [Table -> Nat]
        BY <1>0, <2>1, CurrentType, Zenon DEF Typed
      <3>3. /\ db'[t] = Append(db[t], Fresh) /\ last'[t] >= last[t] /\ last'[t] >= RowId
            /\ \A u \in Table : u # t => db'[u] = db[u] /\ last'[u] = last[u]
            /\ last'[t] \in Int
        BY <2>6, <3>1, <3>2 DEF RowStored
      <3>4. /\ DOMAIN Append(db[t], Fresh) = 1..(Len(db[t]) + 1)
            /\ DOMAIN db[t] = 1..Len(db[t]) /\ Len(db[t]) \in Nat
            /\ \A i \in DOMAIN db[t] : Append(db[t], Fresh)[i] = db[t][i]
            /\ Append(db[t], Fresh)[Len(db[t]) + 1] = Fresh
        BY <3>1, <3>2, AppendFacts, SeqFacts
      <3> HIDE DEF t
      <3>5. ASSUME NEW u \in HasId, NEW i \in DOMAIN db'[u]
            PROVE  db'[u][i].cols["id"] <= last'[u]
        <4>1. u \in Table  BY Constants, Zenon
        <4>2. CASE u # t  BY <2>3, <3>3, <4>1, <4>2, Zenon DEF Below
        <4>3. CASE u = t /\ i \in DOMAIN db[t]
          BY <1>0, <2>3, <3>2, <3>3, <3>4, <4>3 DEF Below, Numbers
        <4>4. CASE u = t /\ i = Len(db[t]) + 1
          BY <3>1, <3>3, <3>4, <4>4, Zenon
        <4> QED BY <3>3, <3>4, <4>2, <4>3, <4>4
      <3>6. Below(db)'  BY <3>5, Zenon DEF Below
      <3> QED BY <2>2, <3>6, Zenon DEF Sequenced
    <2> QED BY <2>4, <2>5, <2>6, Zenon
  <1>13. CASE CommitMysql  BY <1>2, <1>13, Zenon DEF CommitMysql, gathered, Fail
  <1>14. CASE Return  BY <1>2, <1>14, Zenon DEF Return, Goto
  <1>17. CASE SlicePanics  BY <1>2, <1>17, PanicFrame
  <1>15. CASE \E names \in Requests : Load(names)  BY <1>2, <1>15, Zenon DEF Load
  <1>16. CASE \E t \in HasId : AppInsert(t)
    <2>1. PICK t \in HasId : AppInsert(t)  BY <1>16, Zenon
    <2>2. pc = "idle" /\ UNCHANGED <<dialect, pc, ret>>  BY <2>1 DEF AppInsert
    <2>3. /\ last' = [last EXCEPT ![t] = last[t] + 1]
          /\ \A u \in Table : u # t => db'[u] = db[u]
          /\ \A u \in HasId : \A i \in DOMAIN db'[u] :
                \/ i \in DOMAIN db[u] /\ db'[u][i] = db[u][i]
                \/ db'[u][i].cols["id"] = last[t] + 1
      BY <1>0, <2>1, AppInsertShape, Zenon
    <2>4. t \in Table /\ last \in [Table -> Nat]  BY <1>0, Constants, Zenon DEF Typed
    <2>5. ASSUME Below(db) PROVE Below(db)'
      BY <1>0, <2>3, <2>4, <2>5, Constants DEF Below, Numbers
    <2> QED BY <1>1, <2>2, <2>5 DEF Sequenced
  <1> QED BY <1>3, <1>4, <1>5, <1>6, <1>7, <1>8, <1>9, <1>10, <1>11, <1>12, <1>13,
             <1>14, <1>15, <1>16, <1>17, Zenon DEF Next, Step

(* After a successful Load, and while the application adds rows, no id in  *)
(* use is greater than the last number its sequence gave: fixSequences     *)
(* reads the ids of all tables it is about to commit, and MySQL's counter  *)
(* follows every insert.  For any fixtures, any ids in them (given, drawn  *)
(* or mixed) and any number of loads.                                      *)
THEOREM NumbersAreFresh == Spec => []FreshIds
  <1>1. Init => NumberInv
    BY InitTypes, Constants DEF NumberInv, Init, EmptyDb, Below, Sequenced
  <1>2. NumberInv => FreshIds
    BY DEF NumberInv, Sequenced, FreshIds, Below, Ids
  <1> QED BY <1>1, <1>2, FinitenessHolds, NumberStep, PTL DEF Spec

(* A failed or successful Load leaves the tables alone that no reached     *)
(* file names and that no chain of foreign keys, however long, leads from  *)
(* to one it names.  The sections that TRUNCATE ... CASCADE and INSERT     *)
(* work through all come from files that are due, however the files        *)
(* inherit one another and wherever the call fails.                        *)
THEOREM OthersAreUntouched == Spec => []OthersUntouched
  <1>1. Init => ApartInv
    BY InitGather DEF ApartInv, Apart, Init
  <1>2. ApartInv => OthersUntouched
    BY Zenon DEF ApartInv, Apart, Others, OthersUntouched
  <1> QED BY <1>1, <1>2, FinitenessHolds, ApartStep, PTL DEF Spec
-----------------------------------------------------------------------------
(* What a reference reads, and what the inserted rows hold.                *)

Stock(t) == {Work[t][j] : j \in DOMAIN Work[t]}

Registered ==
    /\ \A t \in Readable : \A r \in Stock(t) :
          EntryOf(r).name # None =>
              refs[EntryOf(r).name] # NoRow /\ inserted[EntryOf(r).name] = Fetched(r.cols)
    /\ \A n \in Name : inserted[n] # NoRow =>
          \E t \in Readable : \E r \in Stock(t) : EntryOf(r).name = n

Keeps(r, f) ==
    LET x == Extended(EntryOf(r))[f] IN
    \/ x.kind = "absent" /\ r.cols[f] = Default
    \/ x.kind = "value" /\ r.cols[f] = x.val
    \/ f = "id" /\ Unnumbered(EntryOf(r))
    \/ /\ x.kind = "ref" /\ inserted[x.name] # NoRow
       /\ x.field \in DOMAIN inserted[x.name] /\ r.cols[f] = inserted[x.name][x.field]

Kept(r, t) ==
    /\ EntryOf(r) \in Entry /\ BaseDefined(EntryOf(r))
    /\ \A f \in Columns(t) : Keeps(r, f)

RowsInv ==
    /\ FillInv
    /\ pc \in {"idle", "gather", "truncate"} => inserted = NoRefs
    /\ pc \in {"insert", "commit"} =>
          Registered /\ \A t \in Filled : \A r \in Stock(t) : Kept(r, t)

\* A row holds what the fixture says as long as the names defined stay.
LEMMA KeptLasts ==
    ASSUME Typed, NEW r, NEW t, Kept(r, t), UNCHANGED dialect,
           \A n \in Name : /\ refs[n] # NoRow => refs'[n] = refs[n]
                           /\ inserted[n] # NoRow => inserted'[n] = inserted[n]
    PROVE  Kept(r, t)'
  <1> DEFINE e == EntryOf(r)
  <1>1. e \in Entry /\ BaseDefined(e)  BY Zenon DEF Kept
  <1>2. e.extend \in Name \union {None}  BY <1>1, EntryType, Zenon
  <1>3. e.extend # None => refs'[e.extend] = refs[e.extend]
    BY <1>1, <1>2, Zenon DEF BaseDefined
  <1>4. BaseDefined(e)' /\ Extended(e)' = Extended(e)
    BY <1>1, <1>3, Zenon DEF BaseDefined, Extended
  <1>5. Unnumbered(e)' <=> Unnumbered(e)  BY <1>4, Zenon DEF Unnumbered
  <1>6. Columns(t) \subseteq Field  BY Zenon DEF Columns
  <1>7. ASSUME NEW f \in Columns(t) PROVE Keeps(r, f)'
    BY <1>1, <1>4, <1>5, <1>6, ExtendedType, ExprType DEF Kept, Keeps
  <1> QED BY <1>1, <1>4, <1>7 DEF Kept

\* The rows one step adds are those of the current section.
LEMMA StockGrows ==
    ASSUME WalkInv, at <= Len(tables), NEW hi \in Nat, Grown(hi),
           UNCHANGED <<dialect, tables, due>>
    PROVE  /\ \A t \in Table : Stock(t) \subseteq Stock(t)'
           /\ \A t \in Table : \A r \in Stock(t)' :
                 \/ r \in Stock(t)
                 \/ t = Current.table /\ \E i \in row..hi : r = Added(i)
           /\ \A t : t = Current.table => \A i \in row..hi : Added(i) \in Stock(t)'
           /\ \A i \in row..hi : /\ EntryOf(Added(i)) = Rows[i] /\ Rows[i] \in Entry
                                 /\ i \in DOMAIN Rows
  <1>0. Typed /\ Within  BY Zenon DEF WalkInv, GatherInv, TypeInv
  <1>1. /\ Current.table \in Table /\ at \in DOMAIN tables
        /\ \A i \in DOMAIN Rows : Rows[i] \in Entry
    BY <1>0, CurrentType, Zenon
  <1>2. ASSUME NEW t \in Table PROVE Stock(t) \subseteq Stock(t)'  BY DEF Stock, Grown
  <1>3. ASSUME NEW t \in Table, NEW r \in Stock(t)'
        PROVE  \/ r \in Stock(t)
               \/ t = Current.table /\ \E i \in row..hi : r = Added(i)
    BY DEF Stock, Grown, Added
  <1>4. ASSUME NEW t, t = Current.table, NEW i \in row..hi PROVE Added(i) \in Stock(t)'
    BY <1>4, Zenon DEF Grown, Added, Stock
  <1>5. ASSUME NEW i \in row..hi
        PROVE  EntryOf(Added(i)) = Rows[i] /\ Rows[i] \in Entry /\ i \in DOMAIN Rows
    BY <1>0, <1>1 DEF Grown, Within, Rows, Current, EntryOf
  <1> QED BY <1>2, <1>3, <1>4, <1>5

\* A new row holds what the fixture says, by the names defined before it.
LEMMA KeptNew ==
    ASSUME Typed, NEW r, NEW t, NEW id \in Int, EntryOf(r) \in Entry,
           BaseDefined(EntryOf(r)), Resolvable(EntryOf(r)),
           r.cols = Stored(EntryOf(r), t, id),
           t \notin HasId \/ Unnumbered(EntryOf(r)) \/ id = Resolve(Extended(EntryOf(r))["id"])
    PROVE  Kept(r, t)
  <1> DEFINE e == EntryOf(r)
  <1>1. /\ \A f \in Columns(t) :
              Stored(e, t, id)[f] = IF f = "id" THEN id ELSE Resolve(Extended(e)[f])
        /\ Columns(t) \subseteq Field
    BY StoredType
  <1>2. ASSUME NEW f \in Columns(t) PROVE Keeps(r, f)
    <2> DEFINE x == Extended(e)[f]
    <2>1. x \in Expr  BY <1>1, ExtendedType, Zenon
    <2>2. x.kind \in {"absent", "value", "ref"}  BY <2>1, ExprType, Zenon
    <2>3. x.kind = "ref" => /\ inserted[x.name] # NoRow
                            /\ x.field \in DOMAIN inserted[x.name]
      BY <1>1, Zenon DEF Resolvable
    <2>4. CASE f = "id" /\ Unnumbered(e)  BY <2>4, Zenon DEF Keeps
    <2>5. CASE ~(f = "id" /\ Unnumbered(e))
      <3>1. f = "id" => t \in HasId  BY Zenon DEF Columns
      <3>2. r.cols[f] = Resolve(x)  BY <1>1, <2>5, <3>1, Zenon
      <3> HIDE DEF x
      <3>3. CASE x.kind = "absent"  BY <3>2, <3>3, Zenon DEF Resolve, Keeps, x
      <3>4. CASE x.kind = "value"
        <4>1. Resolve(x) = x.val  BY <3>4, Zenon DEF Resolve
        <4> QED BY <3>2, <3>4, <4>1, Zenon DEF Keeps, x
      <3>5. CASE x.kind = "ref"  BY <2>3, <3>2, <3>5, Zenon DEF Resolve, Keeps, x
      <3> QED BY <2>2, <3>3, <3>4, <3>5, Zenon
    <2> QED BY <2>4, <2>5, Zenon
  <1> QED BY <1>2, Zenon DEF Kept

LEMMA FetchedStays ==
    ASSUME UNCHANGED dialect
    PROVE  (\A v : ReadBack(v)' = ReadBack(v)) /\ \A c : Fetched(c)' = Fetched(c)
  <1>1. \A v : ReadBack(v)' = ReadBack(v)  BY Zenon DEF ReadBack, Float
  <1> QED BY <1>1, Zenon DEF Fetched

LEMMA RowsGrow ==
    ASSUME WalkInv, at <= Len(tables), NEW hi \in Nat, Grown(hi), Entered(hi),
           UNCHANGED <<dialect, tables, due>>, Registered,
           \A t \in Filled : \A r \in Stock(t) : Kept(r, t)
    PROVE  Registered' /\ \A t \in Filled' : \A r \in Stock(t)' : Kept(r, t)'
  <1>0. Typed /\ GatherInv  BY Zenon DEF WalkInv, GatherInv, TypeInv
  <1>1. /\ Filled' = Filled /\ Filled \subseteq Table /\ Readable' = Readable
        /\ Readable \subseteq Filled /\ Current.table \in Filled
        /\ (Current.table \in Readable <=> Seen)
        /\ \A c : Fetched(c)' = Fetched(c)
    BY <1>0, SectionType, NamedFilled, FetchedStays, Zenon
      DEF Filled, Sections, Readable, Seen
  <1>2. ASSUME NEW t \in Filled, NEW r \in Stock(t)
        PROVE  EntryOf(r) \in Entry /\ EntryOf(r).name \in Name \union {None}
    BY EntryType, Zenon DEF Kept
  <1>3. ASSUME NEW n \in Name, inserted[n] # NoRow PROVE refs[n] # NoRow
    BY <1>3, Constants, Zenon DEF Registered
  <1>4. ASSUME NEW n \in Name, refs[n] # NoRow
        PROVE  refs'[n] = refs[n] /\ inserted'[n] = inserted[n]
    BY <1>4, Constants DEF Entered
  <1>5. /\ \A t \in Table : Stock(t) \subseteq Stock(t)'
        /\ \A t \in Table : \A r \in Stock(t)' :
              \/ r \in Stock(t)
              \/ t = Current.table /\ \E i \in row..hi : r = Added(i)
        /\ \A t : t = Current.table => \A i \in row..hi : Added(i) \in Stock(t)'
        /\ \A i \in row..hi : /\ EntryOf(Added(i)) = Rows[i] /\ Rows[i] \in Entry
                              /\ i \in DOMAIN Rows
    BY StockGrows, Zenon
  <1>6. ASSUME NEW t \in Readable', NEW r \in Stock(t)', EntryOf(r).name # None
        PROVE  /\ refs'[EntryOf(r).name] # NoRow
               /\ inserted'[EntryOf(r).name] = Fetched(r.cols)'
    <2>1. t \in Readable /\ t \in Filled /\ t \in Table  BY <1>1, Zenon
    <2>2. CASE r \in Stock(t)  BY <1>1, <1>2, <1>4, <1>6, <2>1, <2>2, Zenon DEF Registered
    <2>3. CASE t = Current.table /\ \E i \in row..hi : r = Added(i)
      <3>1. PICK i \in row..hi : r = Added(i)  BY <2>3, Zenon
      <3>2. Seen  BY <1>1, <2>1, <2>3, Zenon
      <3>3. EntryOf(r) = Rows[i] /\ Rows[i] \in Entry  BY <1>5, <3>1, Zenon
      <3>4. /\ BaseDefined(Rows[i]) /\ refs'[Rows[i].name] = Extended(Rows[i])
            /\ inserted'[Rows[i].name] = Fetched(Added(i).cols)
        BY <1>6, <3>2, <3>3 DEF Entered
      <3>5. Extended(Rows[i]) # NoRow  BY Zenon, <1>0, <3>3, <3>4, ExtendedType, NotNoRow
      <3>6. Fetched(r.cols)' = Fetched(r.cols)  BY <1>1, Zenon
      <3> QED BY <3>1, <3>3, <3>4, <3>5, <3>6
    <2> QED BY <1>5, <2>1, <2>2, <2>3
  <1>7. ASSUME NEW n \in Name, inserted'[n] # NoRow
        PROVE  \E t \in Readable' : \E r \in Stock(t)' : EntryOf(r).name = n
    BY <1>1, <1>5, <1>7 DEF Registered, Entered
  <1>8. ASSUME NEW t \in Filled', NEW r \in Stock(t)' PROVE Kept(r, t)'
    BY <1>0, <1>1, <1>3, <1>4, <1>5, KeptNew, KeptLasts DEF Entered
  <1> QED BY <1>6, <1>7, <1>8, Zenon DEF Registered

\* Steps that insert no row and define no name.
LEMMA RowsStay ==
    ASSUME UNCHANGED <<dialect, due, refs, inserted>>, Work' = Work, Registered,
           \A t \in Filled : \A r \in Stock(t) : Kept(r, t)
    PROVE  Registered' /\ \A t \in Filled' : \A r \in Stock(t)' : Kept(r, t)'
  <1>1. Filled' = Filled /\ Readable' = Readable  BY Zenon DEF Filled, Sections, Readable
  <1>3. \A t : Stock(t)' = Stock(t)  BY DEF Stock
  <1>4. \A c : Fetched(c)' = Fetched(c)  BY FetchedStays, Zenon
  <1>5. refs' = refs /\ inserted' = inserted  OBVIOUS
  <1>6. Registered'  BY Zenon, <1>1, <1>3, <1>4, <1>5 DEF Registered
  <1>7. ASSUME NEW r, NEW t, Kept(r, t) PROVE Kept(r, t)'
    <2>1. \A e : /\ BaseDefined(e)' <=> BaseDefined(e)
                 /\ Extended(e)' = Extended(e) /\ (Unnumbered(e)' <=> Unnumbered(e))
      BY Zenon DEF BaseDefined, Extended, Unnumbered
    <2>2. \A f : Keeps(r, f)' <=> Keeps(r, f)  BY <1>5, <2>1, Zenon DEF Keeps
    <2> QED BY <1>7, <2>1, <2>2, Zenon DEF Kept
  <1> QED BY <1>1, <1>3, <1>6, <1>7, Zenon

LEMMA RowsStep == RowsInv /\ [Next]_vars => RowsInv'
  <1> SUFFICES ASSUME RowsInv, [Next]_vars PROVE RowsInv'  BY Zenon
  <1>0. /\ FillInv /\ WalkInv /\ TypeInv /\ FillInv'
        /\ Blank'
    BY FinitenessHolds, FillStep, Zenon DEF RowsInv, FillInv, WalkInv, GatherInv
  <1>1. /\ pc \in {"idle", "gather", "truncate"} => inserted = NoRefs
        /\ pc \in {"insert", "commit"} =>
              Registered /\ \A t \in Filled : \A r \in Stock(t) : Kept(r, t)
    BY Zenon DEF RowsInv
  <1>2. CASE UNCHANGED vars
    BY <1>0, <1>1, <1>2, RowsStay, Zenon DEF vars, ctx, RowsInv, Work
  <1>3. CASE pc' \in {"idle", "gather", "returned"}  BY <1>0, <1>3, Zenon DEF Blank, RowsInv
  <1>4. CASE Begin  BY <1>0, <1>1, <1>4, Zenon DEF Begin, Fail, Goto, ctx, RowsInv
  <1>5. CASE (TruncateTables \/ Truncated) /\ pc' # "returned"
    BY <1>0, <1>1, <1>5, StartEmpty, NoRefsType DEF Stock, Readable, Registered, RowsInv
  <1>6. CASE TruncateTable  BY <1>0, <1>1, <1>6, Zenon DEF TruncateTable, Fail, Goto,
                              RowsInv
  <1>7. CASE pc = "insert" /\ pc' = "insert" /\ Next
    BY <1>0, <1>1, <1>7, FinitenessHolds, InsertShape, RowsGrow, Zenon DEF RowsInv
  <1>8. CASE fixSequences
    BY <1>0, <1>1, <1>8, RowsStay, Zenon DEF fixSequences, Fail, Goto, gathered, RowsInv,
      Work
  <1>9. CASE Gathers \/ Return \/ (\E names \in Requests : Load(names))
               \/ (\E t \in HasId : AppInsert(t))
    BY <1>3, <1>9, GathersFrame, ReturnFrame, LoadFrame, AppFrame, Zenon
  <1>10. CASE Commit \/ CommitMysql \/ SlicePanics
    BY <1>3, <1>10, PanicFrame, Zenon DEF Commit, CommitMysql, Fail
  <1>11. CASE SkipEmpty \/ InsertTable \/ loadRow
    BY <1>3, <1>7, <1>11, InsertingFrame, Zenon
  <1> QED BY <1>2, <1>3, <1>4, <1>5, <1>6, <1>8, <1>9, <1>10, <1>11, Actions DEF Writes

LEMMA InitRows == Init => RowsInv
  <1> SUFFICES ASSUME Init PROVE RowsInv  BY Zenon
  <1>1. pc = "idle" /\ inserted = NoRefs  BY Zenon DEF Init
  <1> QED BY <1>1, InitFill, Zenon DEF RowsInv

-----------------------------------------------------------------------------
(* When every section has been dealt with, the tables are loaded.          *)

LoadEnd ==
    /\ Typed /\ Within /\ AllTabled /\ Filling /\ Registered
    /\ \A t \in Filled : \A r \in Stock(t) : Kept(r, t)
    /\ at > Len(tables) /\ Work = db

LEMMA SourcesLoaded ==
    ASSUME LoadEnd, NEW t \in Filled
    PROVE  /\ {db[t][j].from : j \in DOMAIN db[t]} = Sources(t)
           /\ Len(db[t]) = Cardinality(Sources(t))
  <1>0. /\ Typed /\ Within /\ AllTabled /\ Filling /\ Work = db /\ at > Len(tables)
        /\ at \in Nat
    BY Zenon DEF LoadEnd, Typed
  <1>1. \A k \in DOMAIN tables : \A i \in DOMAIN tables[k].rows : Done(k, i)
    BY <1>0, SectRows DEF Typed, Done
  <1>2. t \in Table  BY <1>0, SectionType, Zenon DEF Filled
  <1>3. db[t] \in Seq(Rec)  BY <1>0, <1>2, Zenon DEF Typed
  <1>4. ASSUME NEW j \in DOMAIN db[t] PROVE db[t][j].from \in Sources(t)
    <2>1. PICK k \in DOMAIN tables : \E i \in DOMAIN tables[k].rows : Backed(t, j, k, i)
      BY <1>0, Zenon DEF Filling
    <2>2. PICK i \in DOMAIN tables[k].rows : Backed(t, j, k, i)  BY <2>1, Zenon
    <2>3. db[t][j].from = <<tables[k].from, i>> /\ tables[k].table = t
      BY <1>0, <2>2, Zenon DEF Backed
    <2>4. /\ tables[k].from \in Sections /\ Section(tables[k].from).table = t
          /\ i \in DOMAIN Section(tables[k].from).rows
      BY <1>0, <2>2, <2>3, Zenon DEF Within
    <2> QED BY <2>3, <2>4 DEF Sources
  <1>5. ASSUME NEW s \in Sources(t) PROVE \E j \in DOMAIN db[t] : s = db[t][j].from
    BY <1>0, <1>1 DEF Sources, AllTabled, Within, Filling, Backed
  <1>6. \A i, j \in DOMAIN db[t] : db[t][i].from = db[t][j].from => i = j
    BY <1>0, Zenon DEF Filling
  <1>7. Len(db[t]) = Cardinality(Sources(t))
    <2> DEFINE n == Len(db[t])
               b == [j \in 1..n |-> db[t][j].from]
    <2>1. n \in Nat /\ DOMAIN db[t] = 1..n  BY <1>3, SeqFacts, Zenon
    <2> HIDE DEF n
    <2>2. b \in [1..n -> Sources(t)]  BY <1>4, <2>1, Zenon
    <2>3. \A i, j \in 1..n : b[i] = b[j] => i = j  BY <1>6, <2>1, Zenon
    <2>4. \A s \in Sources(t) : \E j \in 1..n : b[j] = s  BY <1>5, <2>1, Zenon
    <2> HIDE DEF b
    <2>5. b \in Bijection(1..n, Sources(t))
      BY <2>2, <2>3, <2>4, Zenon DEF Bijection, Injection, Surjection, IsInjective
    <2>6. ExistsBijection(1..n, Sources(t))  BY <2>5, Zenon DEF ExistsBijection
    <2>7. Cardinality(Sources(t)) = n  BY <2>1, <2>6, FS_CountingElements, Zenon
    <2> QED BY <2>7, Zenon DEF n
  <1> QED BY <1>4, <1>5, <1>7, Zenon

LEMMA ColumnsHold ==
    ASSUME LoadEnd, NEW t \in Filled, NEW r \in Stock(t), NEW f \in Columns(t)
    PROVE  Holds(r, f)
  <1>0. Typed /\ Registered /\ Kept(r, t) /\ Work = db  BY Zenon DEF LoadEnd
  <1> DEFINE e == EntryOf(r)
             x == Extended(e)[f]
  <1>1. e \in Entry /\ BaseDefined(e) /\ Keeps(r, f)  BY <1>0, Zenon DEF Kept
  <1>2. x \in Expr  BY <1>0, <1>1, ExtendedType, Zenon DEF Columns
  <1>3. x.kind = "ref" => x.name \in Name  BY <1>2, ExprType, Zenon
  <1> HIDE DEF x
  <1>4. CASE /\ x.kind = "ref" /\ inserted[x.name] # NoRow
             /\ x.field \in DOMAIN inserted[x.name]
             /\ r.cols[f] = inserted[x.name][x.field]
    <2> DEFINE All == UNION {{db[u][i] : i \in DOMAIN db[u]} : u \in Readable}
               o == RowOf(x.name)
    <2>1. x.name \in Name /\ x.name # None  BY <1>3, <1>4, Constants, Zenon
    <2>2. \E q \in All : EntryOf(q).name = x.name
      BY <1>0, <1>4, <2>1 DEF Registered, Stock
    <2>3. o \in All /\ EntryOf(o).name = x.name  BY <2>2, Zenon DEF RowOf
    <2> HIDE DEF o
    <2>4. PICK u \in Readable : o \in {db[u][i] : i \in DOMAIN db[u]}  BY <2>3, Zenon
    <2>5. o \in Stock(u)  BY <1>0, <2>4, Zenon DEF Stock
    <2>6. inserted[x.name] = Fetched(o.cols)  BY <1>0, <2>1, <2>3, <2>5, Zenon DEF Registered
    <2>7. u \in Filled  BY Zenon DEF Readable
    <2>8. o \in Rec
      <3>1. u \in Table  BY <1>0, <2>7, SectionType, Zenon DEF Filled
      <3>2. db[u] \in Seq(Rec)  BY <1>0, <3>1, Zenon DEF Typed
      <3> QED BY <2>4, <3>2, SeqFacts
    <2>9. o.cols \in Cols  BY <2>8, Zenon DEF Rec
    <2> DEFINE v == o.cols[x.field]
    <2>10. Fetched(o.cols)[x.field] = ReadBack(v)
      BY <1>4, <2>6, <2>9, FetchedType, Zenon
    <2>11. r.cols[f] = ReadBack(v)  BY <1>4, <2>6, <2>10, Zenon
    <2> QED BY <1>4, <2>11, Zenon DEF Holds, x, o
  <1>5. CASE ~(/\ x.kind = "ref" /\ inserted[x.name] # NoRow
               /\ x.field \in DOMAIN inserted[x.name]
               /\ r.cols[f] = inserted[x.name][x.field])
    BY <1>1, <1>5, Zenon DEF Keeps, Holds, x
  <1> QED BY <1>4, <1>5, Zenon

LEMMA CompleteAtEnd == LoadEnd => Complete
  <1> SUFFICES ASSUME LoadEnd, NEW t \in Filled
               PROVE  /\ {db[t][i].from : i \in DOMAIN db[t]} = Sources(t)
                      /\ Len(db[t]) = Cardinality(Sources(t))
                      /\ \A i \in DOMAIN db[t], f \in Columns(t) : Holds(db[t][i], f)
    BY Zenon DEF Complete
  <1>1. \A i \in DOMAIN db[t] : db[t][i] \in Stock(t)  BY DEF LoadEnd, Stock
  <1> QED BY <1>1, SourcesLoaded, ColumnsHold, Zenon

LEMMA CompleteThen == LoadEnd' => Complete'
  BY CompleteAtEnd, PTL

Outcome ==
    /\ pc = "returned" /\ ret = "ok" => Complete
    /\ AllOrNothing

OutcomeInv == RowsInv /\ Apart /\ Outcome

\* The last row has been inserted, and the tables are as committed.
LEMMA EndReached ==
    ASSUME RowsInv, RowsInv', pc \in {"insert", "commit"}, at > Len(tables),
           UNCHANGED <<dialect, tables, due, at, row, refs, inserted>>,
           Work' = Work, Work' = db'
    PROVE  Complete'
  <1>0. /\ AllTabled /\ Filling /\ Registered
        /\ \A t \in Filled : \A r \in Stock(t) : Kept(r, t)
    BY Zenon DEF RowsInv, FillInv, WalkInv
  <1>1. Typed' /\ Within'  BY Zenon DEF RowsInv, FillInv, WalkInv, GatherInv, TypeInv
  <1>2. AllTabled'  BY <1>0, Zenon DEF AllTabled, Sections
  <1>3. Filling'  BY <1>0, FillingStays, Zenon
  <1>4. Registered' /\ \A t \in Filled' : \A r \in Stock(t)' : Kept(r, t)'
    BY <1>0, RowsStay, Zenon
  <1>5. at' > Len(tables')  BY Zenon
  <1>6. LoadEnd'  BY <1>1, <1>2, <1>3, <1>4, <1>5 DEF LoadEnd
  <1> QED BY <1>6, CompleteThen, Zenon

\* What the call's last step does, when it commits.
LEMMA CommitsComplete ==
    ASSUME RowsInv, RowsInv', (Commit /\ db' = tx) \/ CommitMysql
    PROVE  Complete'
  <1>0. Stage  BY Zenon DEF RowsInv, FillInv
  <1>1. CASE Commit /\ db' = tx
    BY <1>0, <1>1, EndReached, Zenon DEF Commit, gathered, Stage, Work
  <1>2. CASE CommitMysql
    <2>1. /\ dialect = "mysql" /\ pc = "insert" /\ at > Len(tables)
          /\ UNCHANGED <<dialect, tables, due, at, row, refs, inserted, db>>
      BY <1>2, Zenon DEF CommitMysql, gathered
    <2>2. Work' = Work /\ Work' = db'  BY <2>1, Zenon DEF Work
    <2> QED BY <1>0, <2>1, <2>2, EndReached, Zenon
  <1> QED BY <1>1, <1>2, Zenon

LEMMA CompleteStays ==
    ASSUME UNCHANGED <<dialect, due, refs, db>>, Complete
    PROVE  Complete'
  <1>1. /\ Filled' = Filled /\ Readable' = Readable /\ Sections' = Sections
        /\ \A t : Sources(t)' = Sources(t)
    BY Zenon DEF Filled, Readable, Sections, Sources
  <1>2. \A n : RowOf(n)' = RowOf(n)  BY <1>1 DEF RowOf
  <1>3. \A e : Extended(e)' = Extended(e) /\ (Unnumbered(e)' <=> Unnumbered(e))
    BY Zenon DEF Extended, Unnumbered
  <1>6. \A v : ReadBack(v)' = ReadBack(v)  BY FetchedStays, Zenon
  <1>4. \A r, f : Holds(r, f)' <=> Holds(r, f)  BY <1>2, <1>3, <1>6 DEF Holds
  <1>5. db' = db  BY Zenon
  <1> QED BY Zenon, <1>1, <1>4, <1>5 DEF Complete

LEMMA OutcomeStep == OutcomeInv /\ [Next]_vars => OutcomeInv'
  <1> SUFFICES ASSUME OutcomeInv, [Next]_vars PROVE OutcomeInv'  BY Zenon
  <1>0. /\ RowsInv /\ RowsInv' /\ Apart /\ Apart' /\ Outcome
    BY FinitenessHolds, ApartStep, RowsStep, Zenon DEF OutcomeInv, ApartInv, RowsInv,
      FillInv, WalkInv
  <1> SUFFICES Outcome'  BY <1>0, Zenon DEF OutcomeInv
  <1>1. CASE UNCHANGED vars
    BY <1>0, <1>1, CompleteStays, Zenon DEF vars, ctx, Outcome, AllOrNothing
  <1>2. CASE pc' # "returned"  BY <1>2, Zenon DEF Outcome, AllOrNothing
  <1>3. CASE Gathers  BY <1>0, <1>3, GathersFrame, Zenon DEF Apart, Outcome, AllOrNothing
  <1>4. CASE Return \/ (\E names \in Requests : Load(names)) \/ (\E t \in HasId : AppInsert(t))
    BY <1>2, <1>4, ReturnFrame, LoadFrame, AppFrame, Zenon
  <1>5. CASE Commit
    BY <1>0, <1>5, CommitsComplete, Zenon DEF Commit, gathered, Fail, Outcome, AllOrNothing,
      Apart
  <1>6. CASE CommitMysql
    <2>1. Complete'  BY <1>0, <1>6, CommitsComplete, Zenon
    <2> QED BY <2>1, Zenon DEF Outcome, AllOrNothing
  <1>7. CASE Begin \/ TruncateTables \/ SkipEmpty \/ InsertTable \/ fixSequences
    <2>1. /\ pc \in {"gather", "truncate", "insert"} /\ UNCHANGED <<dialect, db, before>>
          /\ pc = "gather" \/ dialect = "postgres" \/ pc' # "returned"
          /\ pc' = "returned" => ret' = "error"
      BY <1>7, Zenon DEF Begin, Fail, Goto, TruncateTables, gathered, SkipEmpty, Loading,
        InsertTable, fixSequences
    <2> QED BY <1>0, <2>1, Zenon DEF Apart, Outcome, AllOrNothing
  <1>8. CASE TruncateTable \/ Truncated \/ loadRow
    <2>1. dialect = "mysql" /\ dialect' = dialect /\ (pc' = "returned" => ret' = "error")
      <3>1. CASE TruncateTable  BY <3>1, Zenon DEF TruncateTable, gathered, Fail, Goto
      <3>2. CASE Truncated  BY <3>2, Zenon DEF Truncated, gathered, Goto
      <3>3. CASE loadRow  BY <3>3 DEF loadRow, Loading, gathered, Fail, Goto
      <3> QED BY <1>8, <3>1, <3>2, <3>3, Zenon
    <2> QED BY <2>1, Zenon DEF Outcome, AllOrNothing
  <1>9. CASE SlicePanics
    BY <1>0, <1>9, PanicFrame, Zenon DEF Apart, Outcome, AllOrNothing
  <1> QED BY <1>1, <1>3, <1>4, <1>5, <1>6, <1>7, <1>8, <1>9, Actions DEF Writes

LEMMA OutcomesHold == Spec => []OutcomeInv
  <1>1. Init => OutcomeInv
    BY InitRows DEF Init, Apart, Outcome, AllOrNothing, OutcomeInv
  <1> QED BY <1>1, OutcomeStep, PTL DEF Spec

\* For any files, tables, foreign keys and requests: PostgreSQL's Load that returns an
\* error or panics leaves the database as it was when it was called, or, when the answer to Commit
\* was lost, with each row of each reached file stored once and every column as the
\* fixture says.
THEOREM FailedLoadsUndone == Spec => []AllOrNothing
  <1>1. OutcomeInv => AllOrNothing  BY DEF OutcomeInv, Outcome
  <1> QED BY <1>1, OutcomesHold, PTL

-----------------------------------------------------------------------------
(* A name stands for what its entry declares, laid over its base.          *)

Laid(n, e) ==
    \A f \in Field : refs[n][f] = IF e.fields[f].kind # "absent" \/ e.extend = None
                                  THEN e.fields[f] ELSE refs[e.extend][f]

LEMMA DeclaredIs ==
    ASSUME NEW n, NEW e
    PROVE  e \in Declared(n) <=>
              /\ e.name = n
              /\ \/ \E f \in due : \E k \in DOMAIN Content[f].templates :
                       e = Content[f].templates[k]
                 \/ \E p \in Sections : \E i \in DOMAIN Section(p).rows :
                       e = Section(p).rows[i]
  <1> DEFINE T == UNION {{Content[f].templates[k] : k \in DOMAIN Content[f].templates}
                            : f \in due}
             R == UNION {{Section(p).rows[i] : i \in DOMAIN Section(p).rows}
                            : p \in Sections}
  <1>1. e \in T <=> \E f \in due : \E k \in DOMAIN Content[f].templates :
                       e = Content[f].templates[k]
    OBVIOUS
  <1>2. e \in R <=> \E p \in Sections : \E i \in DOMAIN Section(p).rows :
                       e = Section(p).rows[i]
    OBVIOUS
  <1>3. e \in Declared(n) <=> (e \in T \/ e \in R) /\ e.name = n  BY Zenon DEF Declared
  <1> HIDE DEF T, R
  <1> QED BY <1>1, <1>2, <1>3, Zenon

\* A step that defines names by declared entries, and leaves the defined ones alone.
LEMMA BaseGrows ==
    ASSUME Typed, BaseUnspoiled, UNCHANGED due,
           \A n \in Name : refs[n] # NoRow => refs'[n] = refs[n],
           \A n \in Name : \/ refs'[n] = refs[n]
                           \/ \E e \in Declared(n) : BaseDefined(e) /\ refs'[n] = Extended(e)
    PROVE  BaseUnspoiled'
  <1>type. ASSUME Typed, NEW n, NEW e \in Declared(n)
           PROVE  e \in Entry
    <2> USE <1>type
    <2>1. CASE \E f \in due : \E k \in DOMAIN Content[f].templates : e = Content[f].templates[k]
      BY <2>1, Constants, SeqFacts DEF Typed
    <2>2. CASE \E p \in Sections : \E i \in DOMAIN Section(p).rows : e = Section(p).rows[i]
      BY <2>2, SectionType, SeqFacts
    <2> QED BY <2>1, <2>2, DeclaredIs
  <1>1. \A n : Declared(n)' = Declared(n)  BY Zenon DEF Declared, Sections
  <1>2. ASSUME NEW n \in Name, NEW e \in Declared(n), BaseDefined(e)
        PROVE  BaseDefined(e)' /\ (e.extend # None => refs'[e.extend] = refs[e.extend])
    BY <1>2, <1>type, EntryType, Zenon DEF BaseDefined
  <1>3. ASSUME NEW n \in Name, refs'[n] # NoRow
        PROVE  \E e \in Declared(n)' : BaseDefined(e)' /\ Laid(n, e)'
    <2>1. CASE refs[n] # NoRow  BY <1>1, <1>2, <2>1 DEF BaseUnspoiled, Laid
    <2>2. CASE refs[n] = NoRow
      <3>1. PICK e \in Declared(n) : BaseDefined(e) /\ refs'[n] = Extended(e)
        BY <1>3, <2>2, Zenon
      <3>2. BaseDefined(e)' /\ (e.extend # None => refs'[e.extend] = refs[e.extend])
        BY <1>2, <3>1, Zenon
      <3>3. Laid(n, e)'  BY <3>1, <3>2 DEF Laid, Extended
      <3> QED BY <1>1, <3>2, <3>3, Zenon
    <2> QED BY <2>1, <2>2, Zenon
  <1> QED BY <1>3, Zenon DEF BaseUnspoiled, Laid

BaseInv == GatherInv /\ BaseUnspoiled

LEMMA BaseStep == BaseInv /\ [Next]_vars => BaseInv'
  <1> SUFFICES ASSUME BaseInv, [Next]_vars PROVE BaseInv'  OBVIOUS
  <1>0. /\ GatherInv /\ TypeInv /\ Typed /\ Within /\ Blank /\ BaseUnspoiled /\ GatherInv'
    BY FinitenessHolds, GatherStep, Zenon DEF BaseInv, GatherInv, TypeInv
  <1> SUFFICES BaseUnspoiled'  BY <1>0, Zenon DEF BaseInv
  <1>1. CASE UNCHANGED <<refs, due>>  BY <1>0, <1>1, BaseGrows, Zenon
  <1>2. CASE UNCHANGED vars  BY <1>1, <1>2, Zenon DEF vars, ctx
  <1>3. CASE refs' = NoRefs
    BY <1>3, NoRefsType, Zenon DEF BaseUnspoiled
  <1>4. CASE Return  BY <1>3, <1>4, ReturnFrame, Zenon
  <1>5. CASE \E names \in Requests : Load(names)
    BY <1>0, <1>3, <1>5, LoadFrame, Zenon DEF Blank
  <1>6. CASE \E t \in HasId : AppInsert(t)  BY <1>1, <1>6, AppFrame, Zenon
  <1>7. CASE LoadTemplate
    <2>0. Gathers  BY <1>7, Zenon DEF Gathers
    <2>1. /\ stack # <<>> /\ Top.step - Len(Inherits) \in DOMAIN Content[Top.file].templates
          /\ \/ UNCHANGED refs
             \/ /\ BaseDefined(Template) /\ refs[Template.name] = NoRow
                /\ refs' = [refs EXCEPT ![Template.name] = Extended(Template)]
      BY <1>7, Zenon DEF LoadTemplate, InFile
    <2>2. UNCHANGED due  BY <2>0, GathersFrame, Zenon
    <2>3. CASE UNCHANGED refs  BY <1>1, <2>2, <2>3, Zenon
    <2>4. CASE /\ BaseDefined(Template) /\ refs[Template.name] = NoRow
               /\ refs' = [refs EXCEPT ![Template.name] = Extended(Template)]
      <3>1. Template \in Declared(Template.name)
        <4>1. Len(stack) \in DOMAIN stack  BY <1>0, <2>1, TopType, Zenon
        <4>2. Top.file \in due  BY <1>0, <4>1, Zenon DEF Within, Top
        <4> DEFINE f == Top.file
                   k == Top.step - Len(Inherits)
        <4>3. f \in due /\ k \in DOMAIN Content[f].templates
              /\ Template = Content[f].templates[k]
          BY Zenon, <2>1, <4>2 DEF Template
        <4> HIDE DEF f, k
        <4> QED BY <4>3, DeclaredIs, Zenon
      <3>2. refs \in [Name -> [Field -> Expr] \union {NoRow}]  BY <1>0, Zenon DEF Typed
      <3>3. \A n \in Name : refs'[n] = IF n = Template.name THEN Extended(Template) ELSE refs[n]
        BY <2>4, <3>2, Zenon
      <3> QED BY <1>0, <2>2, <2>4, <3>1, <3>3, BaseGrows, Zenon
    <2> QED BY <2>1, <2>3, <2>4, Zenon
  <1>8. CASE LoadName \/ LoadInherited \/ AddTables
    <2>1. Gathers  BY <1>8 DEF Gathers
    <2>2. UNCHANGED refs  BY <1>8, Zenon DEF LoadName, LoadInherited, AddTables
    <2> QED BY <1>1, <2>1, <2>2, GathersFrame
  <1>9. CASE pc = "insert" /\ pc' = "insert" /\ Next
    <2>1. /\ at <= Len(tables) /\ \E hi \in Nat : Grown(hi) /\ Entered(hi) /\ UNCHANGED due
      BY <1>0, <1>9, FinitenessHolds, InsertShape, Zenon
    <2>2. PICK hi \in Nat : Grown(hi) /\ Entered(hi)  BY <2>1, Zenon
    <2>3. ASSUME NEW i \in row..hi PROVE Rows[i] \in Declared(Rows[i].name)
      <3>1. i \in DOMAIN Rows  BY <2>2, Zenon DEF Grown
      <3>2. at \in DOMAIN tables  BY <1>0, <2>1, CurrentType, Zenon
      <3>3. Current.from \in Sections /\ Rows = Section(Current.from).rows
        BY <1>0, <3>2 DEF Within, Current, Rows
      <3> QED BY <3>1, <3>3, DeclaredIs, Zenon
    <2>4. ASSUME NEW n \in Name
          PROVE  /\ refs[n] # NoRow => refs'[n] = refs[n]
                 /\ \/ refs'[n] = refs[n]
                    \/ \E e \in Declared(n) : BaseDefined(e) /\ refs'[n] = Extended(e)
      <3>1. CASE refs'[n] = refs[n]  BY <3>1, Zenon
      <3>2. CASE Seen /\ \E i \in row..hi : Rows[i].name = n
        BY <2>2, <2>3, <3>2, Constants DEF Entered
      <3> QED BY <2>2, <3>1, <3>2, Zenon DEF Entered
    <2> QED BY <1>0, <2>1, <2>4, BaseGrows, Zenon
  <1>10. CASE Writes
    <2>1. UNCHANGED due  BY <1>10, WritesFrame, Zenon
    <2>2. CASE Begin \/ TruncateTables \/ fixSequences \/ Commit \/ TruncateTable
                  \/ Truncated \/ CommitMysql \/ SlicePanics
      BY <1>1, <2>1, <2>2, PanicFrame, Zenon DEF Begin, TruncateTables, fixSequences, Commit,
        TruncateTable, Truncated, CommitMysql, ctx
    <2>3. CASE SkipEmpty \/ InsertTable \/ loadRow
      <3>1. pc = "insert" /\ pc' \in {"insert", "returned"} /\ Next
        BY <2>3, InsertingFrame, Zenon
      <3>2. CASE pc' = "returned"
        BY <1>0, <1>1, <2>1, <2>3, <3>1, <3>2, LoadRowShape, Zenon DEF SkipEmpty,
          InsertTable, Goto, RowRegistered
      <3> QED BY <1>9, <3>1, <3>2, Zenon
    <2> QED BY <1>10, <2>2, <2>3, Zenon DEF Writes
  <1> QED BY <1>2, <1>4, <1>5, <1>6, <1>7, <1>8, <1>10, Actions, Zenon DEF Gathers

\* For any files, tables, foreign keys and requests, however the files inherit one
\* another: when Load of either loader returns nil each table the reached files name
\* holds each of their rows once and nothing else, and each column what the fixture
\* says, a reference the value it refers to where that survives being read back; and
\* whatever it returns, no row or template has changed the one it extends.
THEOREM LoadsAreExact == Spec => []LoadedExactly
  <1>1. Init => BaseInv  BY NoRefsType, InitGather, Zenon DEF Init, BaseInv, BaseUnspoiled
  <1>2. Spec => []BaseInv  BY <1>1, BaseStep, PTL DEF Spec
  <1>3. OutcomeInv /\ BaseInv => LoadedExactly
    BY DEF OutcomeInv, Outcome, BaseInv, LoadedExactly
  <1> QED BY <1>2, <1>3, OutcomesHold, PTL
=============================================================================
