------------------------- MODULE SqlFixtures_proofs -------------------------
(***************************************************************************)
(* Proofs about the SQL fixture loaders, for any files, tables, names and  *)
(* requests, any foreign keys and any number of calls of Load: the types   *)
(* and what the calls gather.                                              *)
(***************************************************************************)
EXTENDS SqlFixtures, TLAPS

-----------------------------------------------------------------------------
(* Types.                                                                  *)

Frame == [file : File \ Unreadable, step : Nat \ {0}]
Sect  == [table : Table, rows : Seq(Entry), from : File \X Nat]
Cols  == [Field -> Int] \union [Field \ {"id"} -> Int]
Place == ((File \union {None}) \X Nat) \X Nat
Rec   == [from : Place, cols : Cols]

Typed ==
    /\ dialect \in {"postgres", "mysql"}
    /\ pc \in {"idle", "gather", "truncate", "insert", "commit", "returned"}
    /\ ret \in {"none", "ok", "error", "panic"}
    /\ queue \in Seq(File) /\ stack \in Seq(Frame) /\ tables \in Seq(Sect)
    /\ files \subseteq File \ Unreadable /\ due \subseteq File \ Unreadable
    /\ refs \in [Name -> [Field -> Expr] \union {NoRow}]
    /\ inserted \in [Name -> Cols \union {NoRow}]
    /\ at \in Nat \ {0} /\ row \in Nat \ {0} /\ app \in Nat
    /\ db \in [Table -> Seq(Rec)] /\ tx \in [Table -> Seq(Rec)]
    /\ before \in [Table -> Seq(Rec)]
    /\ last \in [Table -> Nat]

LEMMA SeqFacts ==
    ASSUME NEW S, NEW s \in Seq(S)
    PROVE  /\ Len(s) \in Nat /\ DOMAIN s = 1..Len(s)
           /\ \A i \in DOMAIN s : s[i] \in S
           /\ s # <<>> => Len(s) \in DOMAIN s /\ Len(s) > 0
           /\ s = <<>> => Len(s) = 0
  OBVIOUS

LEMMA IndexFacts ==
    ASSUME NEW S, NEW s \in Seq(S), NEW i \in DOMAIN s
    PROVE  i \in Nat \ {0} /\ s[i] \in S
  OBVIOUS

LEMMA AppendFacts ==
    ASSUME NEW S, NEW s \in Seq(S), NEW x \in S
    PROVE  /\ Append(s, x) \in Seq(S)
           /\ Len(Append(s, x)) = Len(s) + 1 /\ DOMAIN Append(s, x) = 1..(Len(s) + 1)
           /\ \A i \in DOMAIN s : Append(s, x)[i] = s[i]
           /\ Append(s, x)[Len(s) + 1] = x
  OBVIOUS

LEMMA ConcatFacts ==
    ASSUME NEW S, NEW s \in Seq(S), NEW r \in Seq(S)
    PROVE  /\ s \o r \in Seq(S)
           /\ Len(s \o r) = Len(s) + Len(r) /\ DOMAIN (s \o r) = 1..(Len(s) + Len(r))
           /\ \A i \in DOMAIN s : (s \o r)[i] = s[i]
           /\ \A i \in DOMAIN r : (s \o r)[Len(s) + i] = r[i]
  OBVIOUS

LEMMA ConcatIndex ==
    ASSUME NEW S, NEW s \in Seq(S), NEW r \in Seq(S), NEW k \in DOMAIN (s \o r)
    PROVE  \/ k \in DOMAIN s /\ (s \o r)[k] = s[k]
           \/ \E i \in DOMAIN r : k = Len(s) + i /\ (s \o r)[k] = r[i]
  <1>1. /\ k \in 1..(Len(s) + Len(r)) /\ Len(s) \in Nat /\ Len(r) \in Nat
        /\ DOMAIN s = 1..Len(s) /\ DOMAIN r = 1..Len(r)
    BY SeqFacts, ConcatFacts
  <1>2. CASE k \in DOMAIN s  BY <1>2, ConcatFacts
  <1>3. CASE k \notin DOMAIN s
    <2>1. k - Len(s) \in DOMAIN r /\ k = Len(s) + (k - Len(s))  BY <1>1, <1>3
    <2> QED BY <2>1, ConcatFacts
  <1> QED BY <1>2, <1>3

LEMMA TailFacts ==
    ASSUME NEW S, NEW s \in Seq(S), s # <<>>
    PROVE  /\ Head(s) = s[1] /\ 1 \in DOMAIN s /\ Tail(s) \in Seq(S)
           /\ \A i \in DOMAIN Tail(s) : i + 1 \in DOMAIN s /\ Tail(s)[i] = s[i + 1]
           /\ \A i \in DOMAIN s : i # 1 => i - 1 \in DOMAIN Tail(s) /\ Tail(s)[i - 1] = s[i]
  OBVIOUS

LEMMA Constants ==
    /\ "id" \in Field /\ None \notin Name /\ HasId \subseteq Table
    /\ Dependents \in [Table -> SUBSET Table] /\ MaxExact \in Nat
    /\ Unreadable \subseteq File
    /\ \A q \in Requests : q \in Seq(File)
    /\ \A f \in File \ Unreadable :
          /\ Content[f].inherits \in Seq(File)
          /\ Content[f].templates \in Seq(Entry)
          /\ \A k \in DOMAIN Content[f].templates : Content[f].templates[k].name # None
          /\ Content[f].tables \in Seq([table : Table, rows : Seq(Entry)])
  BY FixtureAssumption, Zenon

LEMMA EntryType ==
    ASSUME NEW e \in Entry
    PROVE  /\ e.name \in Name \union {None} /\ e.extend \in Name \union {None}
           /\ e.fields \in [Field -> Expr]
  BY DEF Entry

LEMMA ExprType ==
    ASSUME NEW x \in Expr
    PROVE  /\ x.kind \in {"absent", "value", "ref"} /\ x.val \in Int /\ x.field \in Field
           /\ x.kind = "ref" => x.name \in Name
  BY DEF Expr

LEMMA NotNoRow == \A S : NoRow \notin [Field -> S]
  <1> SUFFICES ASSUME NEW S, NoRow \in [Field -> S] PROVE FALSE
    OBVIOUS
  <1>1. DOMAIN NoRow = Field  OBVIOUS
  <1>2. DOMAIN NoRow = {}  BY DEF NoRow
  <1> QED BY <1>1, <1>2, Constants

\* Rows numbered stay numbered when they stay or go.
LEMMA StillNumbered ==
    ASSUME NEW rows, NEW new, \A i \in DOMAIN rows : rows[i].cols["id"] \in Nat,
           new = rows \/ new = <<>>
    PROVE  \A i \in DOMAIN new : new[i].cols["id"] \in Nat
  OBVIOUS

LEMMA EmptyDbType == EmptyDb \in [Table -> Seq(Rec)]
  BY DEF EmptyDb

LEMMA NoRefsType ==
    /\ NoRefs \in [Name -> [Field -> Expr] \union {NoRow}]
    /\ NoRefs \in [Name -> Cols \union {NoRow}]
    /\ \A n \in Name : NoRefs[n] = NoRow
  BY DEF NoRefs

\* What an entry stands for, once its base is defined.
LEMMA ExtendedType ==
    ASSUME Typed, NEW e \in Entry, BaseDefined(e)
    PROVE  Extended(e) \in [Field -> Expr]
  <1>1. e.extend \in Name \union {None} /\ e.fields \in [Field -> Expr]  BY EntryType
  <1>2. CASE e.extend = None  BY <1>1, <1>2 DEF Extended
  <1>3. CASE e.extend # None  BY <1>1, <1>3 DEF Typed, BaseDefined, Extended
  <1> QED BY <1>2, <1>3

LEMMA StoredType ==
    ASSUME Typed, NEW e \in Entry, BaseDefined(e), Resolvable(e), NEW t, NEW id \in Int
    PROVE  /\ \A f \in Field : Resolve(Extended(e)[f]) \in Int
           /\ Stored(e, t, id) \in Cols
           /\ DOMAIN Stored(e, t, id) = Columns(t)
           /\ \A f \in Columns(t) :
                 Stored(e, t, id)[f] = IF f = "id" THEN id ELSE Resolve(Extended(e)[f])
           /\ t \in HasId => "id" \in Columns(t)
           /\ Columns(t) \subseteq Field
  <1>int. ASSUME Typed, NEW x \in Expr,
                 x.kind = "ref" => inserted[x.name] # NoRow /\ x.field \in DOMAIN inserted[x.name]
          PROVE  Resolve(x) \in Int
    <2> USE <1>int
    <2>1. /\ x.kind \in {"absent", "value", "ref"} /\ x.val \in Int
          /\ x.kind = "ref" => x.name \in Name
      BY ExprType
    <2>2. CASE x.kind = "ref"  BY <2>1, <2>2, Zenon DEF Typed, Cols, Resolve
    <2>3. CASE x.kind # "ref"  BY <2>1, <2>3 DEF Resolve, Default
    <2> QED BY <2>2, <2>3
  <1>1. ASSUME NEW f \in Field PROVE Resolve(Extended(e)[f]) \in Int
    BY ExtendedType, <1>int DEF Resolvable
  <1>2. Columns(t) \in {Field, Field \ {"id"}} /\ (t \in HasId => "id" \in Columns(t))
    BY Constants DEF Columns
  <1> DEFINE v(f) == IF f = "id" THEN id ELSE Resolve(Extended(e)[f])
  <1>3. \A f \in Field : v(f) \in Int  BY <1>1
  <1>4. Stored(e, t, id) = [f \in Columns(t) |-> v(f)]  BY DEF Stored
  <1> HIDE DEF v
  <1>5. Stored(e, t, id) \in Cols  BY <1>2, <1>3, <1>4 DEF Cols
  <1>6. /\ DOMAIN Stored(e, t, id) = Columns(t)
        /\ \A f \in Columns(t) : Stored(e, t, id)[f] = v(f)
    BY <1>4
  <1> QED BY <1>1, <1>2, <1>5, <1>6 DEF v

-----------------------------------------------------------------------------
(* Sets of numbers.  Two facts from the library of theorems are hypotheses *)
(* here, to keep its statements out of scope; SqlLoads_proofs proves them. *)

Finiteness ==
    /\ \A T \in SUBSET Nat : T # {} => \E x \in T : \A y \in T : x <= y
    /\ \A n \in Nat : \A S \in SUBSET (1..n) : Cardinality(S) \in Nat

-----------------------------------------------------------------------------
(* The types, with what keeps them: ids are positive, and in MySQL the     *)
(* bases of the rows of a table were looked up before its second row.      *)

Numbers ==
    \A t \in HasId : /\ \A i \in DOMAIN db[t] : db[t][i].cols["id"] \in Nat
                     /\ \A i \in DOMAIN tx[t] : tx[t][i].cols["id"] \in Nat

Rowed ==
    /\ row = 1 \/ (dialect = "mysql" /\ pc \in {"insert", "returned"})
    /\ pc = "insert" /\ row > 1 =>
          /\ at <= Len(tables) /\ row <= Len(Rows)
          /\ \A i \in DOMAIN Rows : BaseDefined(Rows[i])

TypeInv == Typed /\ Numbers /\ Rowed

LEMMA CurrentType ==
    ASSUME Typed, at <= Len(tables)
    PROVE  /\ at \in DOMAIN tables /\ Current \in Sect
           /\ Current.table \in Table /\ Rows \in Seq(Entry)
           /\ Current.from \in File \X Nat
           /\ \A i \in DOMAIN Rows : Rows[i] \in Entry /\ <<Current.from, i>> \in Place
           /\ DOMAIN Rows = 1..Len(Rows) /\ Len(Rows) \in Nat
           /\ Rows # <<>> => Len(Rows) > 0
  <1>1. at \in DOMAIN tables /\ Current \in Sect  BY SeqFacts DEF Typed, Current
  <1>2. Current.table \in Table /\ Rows \in Seq(Entry) /\ Current.from \in File \X Nat
    BY <1>1 DEF Sect, Rows
  <1>3. /\ DOMAIN Rows = 1..Len(Rows) /\ Len(Rows) \in Nat
        /\ Rows # <<>> => Len(Rows) > 0
        /\ \A i \in DOMAIN Rows : Rows[i] \in Entry
    BY <1>2, SeqFacts
  <1>4. ASSUME NEW i \in DOMAIN Rows PROVE <<Current.from, i>> \in Place
    BY <1>2, <1>3 DEF Place
  <1> QED BY <1>1, <1>2, <1>3, <1>4

LEMMA TopType ==
    ASSUME Typed, stack # <<>>
    PROVE  /\ Len(stack) \in DOMAIN stack /\ Top \in Frame
           /\ Top.file \in File \ Unreadable /\ Top.step \in Nat \ {0}
           /\ Inherits \in Seq(File)
           /\ Advanced \in Seq(Frame) /\ DOMAIN Advanced = DOMAIN stack
           /\ \A i \in DOMAIN stack : Advanced[i].file = stack[i].file
           /\ \A i \in DOMAIN stack : i # Len(stack) => Advanced[i] = stack[i]
           /\ Advanced[Len(stack)].step = Top.step + 1
           /\ Popped \in Seq(Frame) /\ DOMAIN Popped = DOMAIN stack \ {Len(stack)}
           /\ \A i \in DOMAIN Popped : Popped[i] = stack[i]
  <1>pop. ASSUME NEW S, NEW s \in Seq(S), s # <<>>
          PROVE  LET p == SubSeq(s, 1, Len(s) - 1) IN
                 /\ p \in Seq(S) /\ DOMAIN p = DOMAIN s \ {Len(s)}
                 /\ \A i \in DOMAIN p : p[i] = s[i]
    BY <1>pop
  <1>1. stack \in Seq(Frame)  BY DEF Typed
  <1>2. Len(stack) \in DOMAIN stack /\ Top \in Frame  BY <1>1, SeqFacts DEF Top
  <1>3. Top.file \in File \ Unreadable /\ Top.step \in Nat \ {0}  BY <1>2 DEF Frame
  <1>4. Inherits \in Seq(File)  BY <1>3, Constants DEF Inherits
  <1> DEFINE n == Len(stack)
             up == [stack[n] EXCEPT !.step = @ + 1]
  <1>5. up \in Frame /\ up.file = stack[n].file /\ up.step = Top.step + 1
    BY <1>2, <1>3 DEF Frame, Top
  <1>6. Advanced = [stack EXCEPT ![n] = up]  BY DEF Advanced
  <1> HIDE DEF up
  <1>7. /\ Advanced \in Seq(Frame) /\ DOMAIN Advanced = DOMAIN stack
        /\ Advanced[n] = up /\ \A i \in DOMAIN stack : i # n => Advanced[i] = stack[i]
    BY <1>1, <1>2, <1>5, <1>6
  <1>8. /\ Popped \in Seq(Frame) /\ DOMAIN Popped = DOMAIN stack \ {Len(stack)}
        /\ \A i \in DOMAIN Popped : Popped[i] = stack[i]
    BY <1>1, <1>pop DEF Popped
  <1> QED BY <1>2, <1>3, <1>4, <1>5, <1>7, <1>8

\* The sections AddTables appends.
Own(f) == [k \in DOMAIN Content[f].tables |->
              [table |-> Content[f].tables[k].table,
               rows |-> Content[f].tables[k].rows, from |-> <<f, k>>]]

LEMMA OwnType ==
    ASSUME NEW f \in File \ Unreadable
    PROVE  /\ Own(f) \in Seq(Sect) /\ DOMAIN Own(f) = DOMAIN Content[f].tables
           /\ \A k \in DOMAIN Own(f) : /\ Own(f)[k].from = <<f, k>>
                                       /\ Own(f)[k].table = Content[f].tables[k].table
                                       /\ Own(f)[k].rows = Content[f].tables[k].rows
  <1> DEFINE s == Content[f].tables
             T == [table : Table, rows : Seq(Entry)]
  <1>1. s \in Seq(T)  BY Zenon, Constants
  <1>2. /\ DOMAIN s = 1..Len(s) /\ Len(s) \in Nat
        /\ \A k \in DOMAIN s : s[k] \in T
    BY <1>1, SeqFacts, Zenon
  <1>3. \A k \in DOMAIN s : Own(f)[k] \in Sect /\ Own(f)[k].from = <<f, k>>
                            /\ Own(f)[k].table = s[k].table /\ Own(f)[k].rows = s[k].rows
    <2> TAKE k \in DOMAIN s
    <2>1. Own(f)[k] = [table |-> s[k].table, rows |-> s[k].rows, from |-> <<f, k>>]
      BY DEF Own
    <2>2. s[k].table \in Table /\ s[k].rows \in Seq(Entry) /\ k \in Nat  BY <1>2
    <2> QED BY <2>1, <2>2 DEF Sect
  <1>4. DOMAIN Own(f) = DOMAIN s /\ Own(f) = [k \in DOMAIN s |-> Own(f)[k]]  BY DEF Own
  <1>5. Own(f) \in Seq(Sect)
    <2> HIDE DEF s
    <2> QED BY <1>2, <1>3, <1>4
  <1> QED BY Zenon, <1>3, <1>4, <1>5

LEMMA TakenType ==
    ASSUME Finiteness, Typed, at <= Len(tables)
    PROVE  /\ Taken \in Nat
           /\ \A i \in DOMAIN Rows :
                 Cardinality({j \in 1..i : Unnumbered(Rows[j])}) \in Nat
  <1>1. DOMAIN Rows = 1..Len(Rows) /\ Len(Rows) \in Nat  BY CurrentType
  <1>2. ASSUME NEW n \in Nat, NEW S \in SUBSET (1..n) PROVE Cardinality(S) \in Nat
    BY Zenon DEF Finiteness
  <1>3. Cardinality({i \in DOMAIN Rows : Unnumbered(Rows[i])}) \in Nat
    BY <1>1, <1>2, Zenon
  <1>4. ASSUME NEW i \in DOMAIN Rows
        PROVE  Cardinality({j \in 1..i : Unnumbered(Rows[j])}) \in Nat
    <2> DEFINE S == {j \in 1..i : Unnumbered(Rows[j])}
    <2>1. S \in SUBSET (1..i) /\ i \in Nat  BY <1>1
    <2> HIDE DEF S
    <2> QED BY Zenon, <1>2, <2>1
  <1> QED BY <1>3, <1>4 DEF Taken

LEMMA NewRowsType ==
    ASSUME Finiteness, Typed, at <= Len(tables), Insertable
    PROVE  /\ NewRows \in Seq(Rec) /\ Len(NewRows) = Len(Rows)
           /\ DOMAIN NewRows = DOMAIN Rows
           /\ \A i \in DOMAIN Rows :
                 /\ NewId(i) \in Int
                 /\ NewRows[i].from = <<Current.from, i>>
                 /\ NewRows[i].cols = Stored(Rows[i], Current.table, NewId(i))
                 /\ NewRows[i].cols \in Cols
                 /\ Current.table \in HasId =>
                       NewRows[i].cols["id"] = NewId(i) /\ NewId(i) > 0
  <1>1. /\ Current.table \in Table /\ DOMAIN Rows = 1..Len(Rows) /\ Len(Rows) \in Nat
        /\ \A i \in DOMAIN Rows : Rows[i] \in Entry /\ <<Current.from, i>> \in Place
    BY CurrentType
  <1>2. ASSUME NEW i \in DOMAIN Rows
        PROVE  /\ NewId(i) \in Int
               /\ Stored(Rows[i], Current.table, NewId(i)) \in Cols
               /\ Current.table \in HasId =>
                    Stored(Rows[i], Current.table, NewId(i))["id"] = NewId(i)
    <2>1. Rows[i] \in Entry /\ BaseDefined(Rows[i]) /\ Resolvable(Rows[i])
      BY <1>1, Zenon DEF Insertable
    <2>2. Resolve(Extended(Rows[i])["id"]) \in Int  BY <2>1, StoredType, Constants
    <2>3. last[Current.table] \in Nat  BY <1>1 DEF Typed
    <2>4. Cardinality({j \in 1..i : Unnumbered(Rows[j])}) \in Nat  BY TakenType
    <2>5. NewId(i) \in Int  BY <2>2, <2>3, <2>4 DEF NewId
    <2> QED BY <2>1, <2>5, StoredType
  <1>3. \A i \in DOMAIN Rows :
           NewRows[i] = [from |-> <<Current.from, i>>,
                         cols |-> Stored(Rows[i], Current.table, NewId(i))]
    BY DEF NewRows
  <1>4. ASSUME NEW i \in DOMAIN Rows PROVE NewRows[i] \in Rec
    <2>1. /\ <<Current.from, i>> \in Place
          /\ Stored(Rows[i], Current.table, NewId(i)) \in Cols
      BY <1>1, <1>2
    <2>2. ASSUME NEW p \in Place, NEW c \in Cols PROVE [from |-> p, cols |-> c] \in Rec
      BY DEF Rec
    <2> QED BY <1>3, <2>1, <2>2, Zenon
  <1>5. DOMAIN NewRows = 1..Len(Rows) /\ NewRows = [i \in 1..Len(Rows) |-> NewRows[i]]
    BY <1>1 DEF NewRows
  <1>6. NewRows \in Seq(Rec) /\ Len(NewRows) = Len(Rows)
    BY <1>1, <1>4, <1>5
  <1>7. Current.table \in HasId => \A i \in DOMAIN Rows : NewId(i) > 0
    BY DEF Insertable
  <1> QED BY <1>1, <1>2, <1>3, <1>5, <1>6, <1>7

(* What loadRow does, with its local names spelt out. *)
RowId ==
    IF Current.table \notin HasId THEN NoId
    ELSE IF Unnumbered(Rows[row]) THEN last[Current.table] + 1
    ELSE Resolve(Extended(Rows[row])["id"])
Fresh == [from |-> <<Current.from, row>>,
          cols |-> Stored(Rows[row], Current.table, RowId)]
Kept1 == Current.table \in HasId /\ Rows[row].name # None

RowFits ==
    /\ \A i \in DOMAIN Rows : BaseDefined(Rows[i])
    /\ Resolvable(Rows[row]) /\ Fits(Rows[row], Current.table)
    /\ Current.table \in HasId => RowId > 0 /\ RowId \notin Ids(Current.table, db)
RowStored ==
    /\ db' = [db EXCEPT ![Current.table] = Append(@, Fresh)]
    /\ last' = [last EXCEPT ![Current.table] = IF RowId > @ THEN RowId ELSE @]
RowRegistered ==
    /\ Kept1 => refs[Rows[row].name] = NoRow
    /\ refs' = IF Kept1 THEN [refs EXCEPT ![Rows[row].name] = Extended(Rows[row])]
               ELSE refs
    /\ inserted' = IF Kept1
                   THEN [inserted EXCEPT ![Rows[row].name] = Fetched(Fresh.cols)]
                   ELSE inserted
    /\ NextRow /\ Goto(pc)

LEMMA LoadRowShape ==
    ASSUME TypeInv, loadRow
    PROVE  /\ dialect = "mysql" /\ pc = "insert" /\ at <= Len(tables)
           /\ row \in DOMAIN Rows /\ Rows[row] \in Entry /\ Rows # <<>>
           /\ UNCHANGED <<gathered, tx>>
           /\ \/ Fail /\ UNCHANGED <<refs, inserted, at, row, db, last>>
              \/ /\ RowFits /\ RowStored
                 /\ (Fail /\ UNCHANGED <<refs, inserted, at, row>>) \/ RowRegistered
  <1>1. /\ dialect = "mysql" /\ pc = "insert" /\ at <= Len(tables) /\ Rows # <<>>
        /\ UNCHANGED <<gathered, tx>>
    BY Zenon DEF loadRow, Loading
  <1>2. row \in DOMAIN Rows /\ Rows[row] \in Entry
    <2>1. /\ DOMAIN Rows = 1..Len(Rows) /\ Len(Rows) \in Nat /\ Len(Rows) > 0
          /\ \A i \in DOMAIN Rows : Rows[i] \in Entry
      BY <1>1, CurrentType, Zenon DEF TypeInv
    <2>2. row \in Nat \ {0}  BY Zenon DEF TypeInv, Typed
    <2>3. row > 1 => row <= Len(Rows)  BY <1>1, Zenon DEF TypeInv, Rowed
    <2>4. row \in DOMAIN Rows  BY <2>1, <2>2, <2>3
    <2> QED BY <2>1, <2>4, Zenon
  <1>3. row # 1 => \A i \in DOMAIN Rows : BaseDefined(Rows[i])
    BY <1>1 DEF TypeInv, Typed, Rowed
  <1>4. \/ Fail /\ UNCHANGED <<refs, inserted, at, row, db, last>>
        \/ /\ row = 1 => \A i \in DOMAIN Rows : BaseDefined(Rows[i])
           /\ Resolvable(Rows[row]) /\ Fits(Rows[row], Current.table)
           /\ Current.table \in HasId => RowId > 0 /\ RowId \notin Ids(Current.table, db)
           /\ RowStored
           /\ (Fail /\ UNCHANGED <<refs, inserted, at, row>>) \/ RowRegistered
    <2>1. Fresh.cols = Stored(Rows[row], Current.table, RowId)  BY DEF Fresh
    <2> QED BY <2>1 DEF loadRow, RowStored, RowRegistered, RowId, Fresh, Kept1
  <1> QED BY <1>1, <1>2, <1>3, <1>4, Zenon DEF RowFits

LEMMA ReadBackType == \A v \in Int : ReadBack(v) \in Int
  BY Constants DEF ReadBack, Float, NullText

LEMMA FetchedType ==
    ASSUME NEW c \in Cols
    PROVE  /\ Fetched(c) \in Cols /\ DOMAIN Fetched(c) = DOMAIN c
           /\ \A f \in DOMAIN c : Fetched(c)[f] = ReadBack(c[f])
  <1>1. \A f \in DOMAIN c : c[f] \in Int  BY DEF Cols
  <1>2. \A f \in DOMAIN c : ReadBack(c[f]) \in Int
    BY <1>1, ReadBackType, Zenon
  <1>3. DOMAIN c = Field \/ DOMAIN c = Field \ {"id"}  BY Zenon DEF Cols
  <1> QED BY <1>2, <1>3 DEF Fetched, Cols

LEMMA FreshType ==
    ASSUME Typed, at <= Len(tables), row \in DOMAIN Rows, RowFits
    PROVE  /\ RowId \in Int /\ Fresh \in Rec
           /\ Fresh.from = <<Current.from, row>>
           /\ Fresh.cols = Stored(Rows[row], Current.table, RowId) /\ Fresh.cols \in Cols
           /\ Current.table \in HasId => Fresh.cols["id"] = RowId /\ RowId > 0
  <1>1. /\ Current.table \in Table /\ Rows[row] \in Entry
        /\ <<Current.from, row>> \in Place
    BY CurrentType
  <1>2. BaseDefined(Rows[row]) /\ Resolvable(Rows[row])  BY Zenon DEF RowFits
  <1>3. Resolve(Extended(Rows[row])["id"]) \in Int
    BY <1>1, <1>2, StoredType, Constants
  <1>4. RowId \in Int  BY <1>1, <1>3 DEF Typed, NoId, RowId
  <1>5. /\ Stored(Rows[row], Current.table, RowId) \in Cols
        /\ Current.table \in HasId =>
              Stored(Rows[row], Current.table, RowId)["id"] = RowId
    BY <1>1, <1>2, <1>4, StoredType
  <1>6. ASSUME NEW p \in Place, NEW c \in Cols PROVE [from |-> p, cols |-> c] \in Rec
    BY DEF Rec
  <1>7. Fresh \in Rec  BY <1>1, <1>5, <1>6 DEF Fresh
  <1>8. Current.table \in HasId => RowId > 0  BY Zenon DEF RowFits
  <1> QED BY <1>4, <1>5, <1>7, <1>8 DEF Fresh

\* COALESCE(MAX(id), 1) is at least every id of the table.
LEMMA MaxOrFacts ==
    ASSUME Finiteness, Typed, Numbers, NEW t \in HasId
    PROVE  /\ MaxOr(Ids(t, tx), 1) \in Nat
           /\ \A id \in Ids(t, tx) : id <= MaxOr(Ids(t, tx), 1)
  \* The values of a finite list have an upper bound, hence a greatest one.
  <1>max. ASSUME Finiteness, NEW n \in Nat, NEW v \in [1..n -> Nat], n > 0
          PROVE  \E i \in 1..n : \A j \in 1..n : v[j] <= v[i]
    <2> USE <1>max
    <2> DEFINE Bounded(k) == \E b \in Nat : \A i \in 1..k : v[i] <= b
               Wild == {k \in 0..n : ~Bounded(k)}
               Above == {b \in Nat : \A i \in 1..n : v[i] <= b}
    <2>1. Wild = {}
      <3> SUFFICES ASSUME Wild # {} PROVE FALSE  BY Zenon
      <3>1. Wild \in SUBSET Nat  OBVIOUS
      <3>2. PICK k \in Wild : \A y \in Wild : k <= y  BY <3>1, Zenon DEF Finiteness
      <3>3. k \in 0..n /\ ~Bounded(k)  OBVIOUS
      <3>4. k # 0  BY <3>3
      <3>5. Bounded(k - 1)
        <4>1. k - 1 \in 0..n /\ k - 1 \notin Wild
          <5> HIDE DEF Wild
          <5> QED BY <3>2, <3>3, <3>4
        <4> QED BY <4>1
      <3>6. PICK b \in Nat : \A i \in 1..(k - 1) : v[i] <= b  BY Zenon, <3>5
      <3> HIDE DEF Wild, Bounded
      <3> DEFINE c == IF v[k] > b THEN v[k] ELSE b
      <3>7. k \in 1..n /\ v[k] \in Nat  BY <3>3, <3>4
      <3>8. c \in Nat /\ v[k] <= c /\ b <= c  BY <3>6, <3>7
      <3>9. \A i \in 1..k : v[i] <= c  BY <3>3, <3>6, <3>8
      <3> HIDE DEF c
      <3>10. Bounded(k)  BY Zenon, <3>8, <3>9 DEF Bounded
      <3> QED BY <3>3, <3>10
    <2>2. Bounded(n)
      <3>1. n \in 0..n  OBVIOUS
      <3> QED BY Zenon, <2>1, <3>1
    <2>3. Above \in SUBSET Nat /\ Above # {}  BY <2>2, Zenon
    <2>4. PICK b \in Above : \A y \in Above : b <= y  BY <2>3, Zenon DEF Finiteness
    <2>5. \E i \in 1..n : v[i] = b
      <3> SUFFICES ASSUME \A i \in 1..n : v[i] # b PROVE FALSE  OBVIOUS
      <3>1. b \in Nat /\ \A i \in 1..n : v[i] <= b  OBVIOUS
      <3>2. 1 \in 1..n /\ v[1] \in Nat /\ v[1] < b  BY <3>1
      <3>3. b - 1 \in Nat  BY <3>1, <3>2
      <3>4. \A i \in 1..n : v[i] <= b - 1  BY <3>1
      <3>5. b - 1 \in Above  BY <3>3, <3>4
      <3>6. b <= b - 1  BY <2>4, <3>5
      <3> QED BY <3>1, <3>6
    <2>6. \A i \in 1..n : v[i] <= b  BY Zenon
    <2> QED BY <2>5, <2>6
  <1> DEFINE n == Len(tx[t])
             v == [i \in 1..n |-> tx[t][i].cols["id"]]
  <1>1. t \in Table /\ tx[t] \in Seq(Rec)  BY Constants, Zenon DEF Typed
  <1>2. n \in Nat /\ DOMAIN tx[t] = 1..n  BY <1>1, SeqFacts, Zenon
  <1>3. v \in [1..n -> Nat]  BY <1>2 DEF Numbers
  <1>4. Ids(t, tx) = {v[i] : i \in 1..n}  BY Zenon, <1>2 DEF Ids
  <1>5. CASE n = 0  BY <1>4, <1>5 DEF MaxOr
  <1>6. CASE n > 0
    <2> HIDE DEF n, v
    <2>1. PICK i \in 1..n : \A j \in 1..n : v[j] <= v[i]
      BY <1>2, <1>3, <1>6, <1>max, Zenon
    <2>2. v[i] \in Ids(t, tx) /\ \A y \in Ids(t, tx) : y <= v[i]  BY <1>4, <2>1
    <2>3. /\ MaxOr(Ids(t, tx), 1) \in Ids(t, tx)
          /\ \A y \in Ids(t, tx) : y <= MaxOr(Ids(t, tx), 1)
      BY <2>2 DEF MaxOr
    <2>4. Ids(t, tx) \subseteq Nat  BY <1>3, <1>4
    <2> QED BY <2>3, <2>4
  <1> QED BY <1>2, <1>5, <1>6

LEMMA InitTypes == Init => TypeInv
  <1> SUFFICES ASSUME Init PROVE TypeInv  BY Zenon
  <1>1. Typed  BY EmptyDbType, NoRefsType DEF Init, Typed
  <1>2. Numbers  BY Constants DEF Init, EmptyDb, Numbers
  <1> QED BY <1>1, <1>2 DEF Init, TypeInv, Rowed

\* Gathering changes neither tables of the database nor what is inserted.
LEMMA GatherTypes ==
    ASSUME TypeInv, LoadName \/ LoadInherited \/ LoadTemplate \/ AddTables \/ Begin
    PROVE  TypeInv'
  <1>open. ASSUME Typed, NEW f \in File, NEW frames \in Seq(Frame), Open(f, frames)
           PROVE  /\ files' \subseteq File \ Unreadable /\ stack' \in Seq(Frame)
                  /\ pc' \in {pc, "returned"} /\ ret' \in {ret, "error"}
    <2> USE <1>open
    <2>1. CASE f \in Unreadable \/ f \in files
      BY <2>1 DEF Open, Fail, Goto, Typed
    <2>2. CASE f \notin Unreadable \union files
      <3>1. [file |-> f, step |-> 1] \in Frame  BY <2>2 DEF Frame
      <3>2. Append(frames, [file |-> f, step |-> 1]) \in Seq(Frame)
        BY <3>1, AppendFacts
      <3> QED BY <2>2, <3>2, Zenon DEF Open, Fail, Goto, Typed
    <2> QED BY <2>1, <2>2, Zenon
  <1>own. ASSUME Typed, stack # <<>>,
                 Top.step - Len(Inherits) \in DOMAIN Content[Top.file].templates
          PROVE  Template \in Entry /\ Template.name \in Name
    <2> USE <1>own
    <2>1. Top.file \in File \ Unreadable  BY TopType, Zenon
    <2>2. /\ Content[Top.file].templates \in Seq(Entry)
          /\ \A k \in DOMAIN Content[Top.file].templates :
                Content[Top.file].templates[k].name # None
      BY <2>1, Constants, Zenon
    <2>3. Template \in Entry /\ Template.name # None
      BY <2>2, SeqFacts DEF Template
    <2> QED BY <2>3, EntryType, Zenon
  <1>0. Typed /\ Numbers /\ Rowed  BY DEF TypeInv
  <1>1. pc = "gather" /\ row = 1
    BY Zenon DEF TypeInv, Rowed, LoadName, LoadInherited, LoadTemplate, AddTables, Begin, InFile
  <1>2. CASE LoadName
    <2>1. queue \in Seq(File) /\ queue # <<>>  BY <1>0, <1>2 DEF Typed, LoadName
    <2>2. Head(queue) \in File /\ Tail(queue) \in Seq(File)  BY <2>1, TailFacts, SeqFacts
    <2>3. <<>> \in Seq(Frame)  OBVIOUS
    <2>4. /\ files' \subseteq File \ Unreadable /\ stack' \in Seq(Frame)
          /\ pc' \in {pc, "returned"} /\ ret' \in {ret, "error"}
      BY Zenon, <1>0, <1>2, <2>2, <2>3, <1>open DEF LoadName
    <2>5. queue' = Tail(queue) /\ UNCHANGED <<tables, refs, inserted, unloaded>>
      BY <1>2, Zenon DEF LoadName
    <2>6. Typed'  BY <1>0, <1>1, <2>2, <2>4, <2>5, Zenon DEF Typed, unloaded
    <2>7. Numbers'  BY <1>0, <2>5 DEF Numbers, unloaded
    <2> QED BY <1>1, <2>4, <2>5, <2>6, <2>7, Zenon DEF TypeInv, Rowed, unloaded
  <1>3. CASE LoadInherited
    <2>1. stack # <<>> /\ Top.step <= Len(Inherits)
      BY <1>3, Zenon DEF LoadInherited, InFile
    <2>2. Inherits \in Seq(File) /\ Top.step \in Nat \ {0} /\ Advanced \in Seq(Frame)
      BY <1>0, <2>1, TopType
    <2>3. Inherits[Top.step] \in File  BY <2>1, <2>2, SeqFacts
    <2>4. /\ files' \subseteq File \ Unreadable /\ stack' \in Seq(Frame)
          /\ pc' \in {pc, "returned"} /\ ret' \in {ret, "error"}
      BY <1>0, <1>3, <2>2, <2>3, <1>open DEF LoadInherited
    <2>5. UNCHANGED <<queue, tables, refs, inserted, unloaded>>
      BY <1>3, Zenon DEF LoadInherited
    <2>6. Typed'  BY <1>0, <1>1, <2>4, <2>5, Zenon DEF Typed, unloaded
    <2>7. Numbers'  BY <1>0, <2>5, Zenon DEF Numbers, unloaded
    <2> QED BY <1>1, <2>4, <2>5, <2>6, <2>7 DEF TypeInv, Rowed, unloaded
  <1>4. CASE LoadTemplate
    <2>1. /\ stack # <<>>
          /\ Top.step - Len(Inherits) \in DOMAIN Content[Top.file].templates
          /\ UNCHANGED <<queue, files, tables, inserted, unloaded>>
      BY <1>4, Zenon DEF LoadTemplate, InFile
    <2>2. /\ Template \in Entry /\ Template.name \in Name /\ Advanced \in Seq(Frame)
      BY <1>0, <2>1, <1>own, TopType
    <2>3. /\ refs' \in [Name -> [Field -> Expr] \union {NoRow}] /\ stack' \in Seq(Frame)
          /\ pc' \in {pc, "returned"} /\ ret' \in {ret, "error"}
      <3>1. CASE BaseDefined(Template) /\ stack' = Advanced /\ Goto(pc)
                 /\ refs' = [refs EXCEPT ![Template.name] = Extended(Template)]
        BY <1>0, <2>2, <3>1, ExtendedType, Zenon DEF Typed, Goto
      <3>2. CASE Fail /\ UNCHANGED <<refs, stack>>
        BY <1>0, <3>2, Zenon DEF Typed, Fail
      <3> QED BY <1>4, <3>1, <3>2, Zenon DEF LoadTemplate
    <2>6. Typed'  BY <1>0, <1>1, <2>1, <2>3, Zenon DEF Typed, unloaded
    <2>7. Numbers'  BY <1>0, <2>1, Zenon DEF Numbers, unloaded
    <2> QED BY <1>1, <2>1, <2>3, <2>6, <2>7, Zenon DEF TypeInv, Rowed, unloaded
  <1>5. CASE AddTables
    <2>1. /\ stack # <<>> /\ tables' = tables \o Own(Top.file) /\ stack' = Popped
          /\ pc' = pc /\ ret' = ret
          /\ UNCHANGED <<queue, files, refs, inserted, unloaded>>
      BY <1>5, Zenon DEF AddTables, InFile, Own, Goto
    <2>2. Top.file \in File \ Unreadable /\ Popped \in Seq(Frame)
      BY <1>0, <2>1, TopType, Zenon
    <2>3. tables' \in Seq(Sect)
      <3>1. tables \in Seq(Sect) /\ Own(Top.file) \in Seq(Sect)
        BY <1>0, <2>2, OwnType, Zenon DEF Typed
      <3> QED BY <2>1, <3>1, ConcatFacts, Zenon
    <2>6. Typed'  BY <1>0, <2>1, <2>2, <2>3, Zenon DEF Typed, unloaded
    <2>7. Numbers'  BY <1>0, <2>1, Zenon DEF Numbers, unloaded
    <2> QED BY <1>1, <2>1, <2>6, <2>7 DEF TypeInv, Rowed, unloaded
  <1>6. CASE Begin
    BY <1>0, <1>1, <1>6, Zenon DEF Begin, Fail, Goto, Typed, ctx, Numbers, TypeInv, Rowed
  <1> QED BY <1>2, <1>3, <1>4, <1>5, <1>6

LEMMA InsertTableTypes ==
    ASSUME Finiteness, TypeInv, InsertTable
    PROVE  TypeInv'
  <1>0. Typed /\ Numbers /\ Rowed  BY Zenon DEF TypeInv
  <1>1. /\ dialect = "postgres" /\ pc = "insert" /\ at <= Len(tables) /\ row = 1
        /\ UNCHANGED <<gathered, row, db>>
    BY <1>0, Zenon DEF Rowed, InsertTable, Loading
  <1> DEFINE t == Current.table
  <1>2. /\ t \in Table /\ \A i \in DOMAIN Rows : Rows[i] \in Entry
    BY <1>0, <1>1, CurrentType
  <1>3. Taken \in Nat  BY <1>0, <1>1, TakenType, Zenon
  <1>4. \A d \in Nat : Numbered(d) \in [Table -> Nat]
    <2>1. last \in [Table -> Nat]  BY <1>0, Zenon DEF Typed
    <2>2. \A m, n \in Nat : m + n \in Nat  OBVIOUS
    <2> QED BY <1>2, <2>1, <2>2, Zenon DEF Numbered
  <1> HIDE DEF t
  <1>5. CASE /\ Fail /\ UNCHANGED <<refs, inserted, at, tx>>
             /\ \E d \in 0..Taken : last' = Numbered(d)
    <2>1. PICK d \in 0..Taken : last' = Numbered(d)  BY <1>5, Zenon
    <2>2. d \in Nat  BY <1>3
    <2>3. Typed'  BY <1>0, <1>1, <1>4, <1>5, <2>1, <2>2, Zenon DEF Typed, gathered, Fail
    <2> QED BY <1>0, <1>1, <1>5, <2>3, Zenon DEF Fail, Numbers, TypeInv, Rowed
  <1>6. CASE /\ Insertable /\ NamesFree
             /\ tx' = [tx EXCEPT ![Current.table] = @ \o NewRows]
             /\ last' = Numbered(Taken)
             /\ refs' = [n \in Name |-> IF n \in RowNames
                             THEN Extended(Rows[RowNamed(n)]) ELSE refs[n]]
             /\ inserted' = [n \in Name |-> IF n \in RowNames
                             THEN Returned(RowNamed(n)) ELSE inserted[n]]
             /\ at' = at + 1 /\ Goto(pc)
    <2>1. /\ NewRows \in Seq(Rec) /\ DOMAIN NewRows = DOMAIN Rows
          /\ \A i \in DOMAIN Rows : NewRows[i].cols \in Cols
          /\ t \in HasId => \A i \in DOMAIN Rows :
                NewRows[i].cols["id"] \in Int /\ NewRows[i].cols["id"] > 0
      BY <1>0, <1>1, <1>6, NewRowsType, Zenon DEF t
    <2>2. \A n \in RowNames : RowNamed(n) \in DOMAIN Rows
      BY DEF RowNames, RowNamed
    <2>3. refs' \in [Name -> [Field -> Expr] \union {NoRow}]
      BY <1>0, <1>2, <1>6, <2>2, ExtendedType, Zenon DEF Insertable, Typed
    <2>4. inserted' \in [Name -> Cols \union {NoRow}]
      <3>1. \A n \in RowNames : Returned(RowNamed(n)) \in Cols
        BY <2>1, <2>2, FetchedType, Zenon DEF Returned
      <3> QED BY <1>0, <1>6, <3>1, Zenon DEF Typed
    <2>5. tx[t] \in Seq(Rec) /\ tx \in [Table -> Seq(Rec)]
      BY <1>0, <1>2, Zenon DEF Typed
    <2>6. tx[t] \o NewRows \in Seq(Rec)  BY <2>1, <2>5, ConcatFacts, Zenon
    <2>7. /\ tx' \in [Table -> Seq(Rec)] /\ tx'[t] = tx[t] \o NewRows
          /\ \A u \in Table : u # t => tx'[u] = tx[u]
      BY <1>2, <1>6, <2>5, <2>6, Zenon DEF t
    <2>8. last' \in [Table -> Nat]  BY <1>3, <1>4, <1>6, Zenon
    <2>9. Typed'
      <3>1. UNCHANGED <<dialect, pc, ret, queue, stack, tables, files, due, row, app,
                        db, before>>
        BY <1>1, <1>6, Zenon DEF gathered, Goto
      <3>2. at' \in Nat \ {0}  BY <1>0, <1>6 DEF Typed
      <3> QED BY <1>0, <2>3, <2>4, <2>7, <2>8, <3>1, <3>2, Zenon DEF Typed
    <2>10. Numbers'
      <3>1. ASSUME NEW u \in HasId, NEW i \in DOMAIN tx'[u] PROVE tx'[u][i].cols["id"] \in Nat
        <4>1. u \in Table  BY Constants, Zenon
        <4>2. CASE u # t  BY <1>0, <2>7, <4>1, <4>2, Zenon DEF Numbers
        <4>3. CASE u = t
          <5>1. i \in 1..(Len(tx[t]) + Len(NewRows)) /\ Len(tx[t]) \in Nat
                /\ DOMAIN tx[t] = 1..Len(tx[t]) /\ DOMAIN NewRows = 1..Len(NewRows)
                /\ Len(NewRows) \in Nat
            BY <2>1, <2>5, <2>7, <4>3, ConcatFacts, SeqFacts
          <5>2. CASE i \in DOMAIN tx[t]
            <6>1. tx'[t][i] = tx[t][i]  BY <2>1, <2>5, <2>7, <5>2, ConcatFacts
            <6> QED BY <1>0, <4>3, <5>2, <6>1, Zenon DEF Numbers
          <5>3. CASE i \notin DOMAIN tx[t]
            <6>1. PICK j \in DOMAIN NewRows : i = Len(tx[t]) + j
              <7>1. i - Len(tx[t]) \in DOMAIN NewRows  BY <5>1, <5>3
              <7>2. i = Len(tx[t]) + (i - Len(tx[t]))  BY <5>1
              <7> QED BY <7>1, <7>2, Zenon
            <6>2. tx'[t][i] = NewRows[j]  BY <2>1, <2>5, <2>7, <6>1, ConcatFacts
            <6>3. NewRows[j].cols["id"] \in Int /\ NewRows[j].cols["id"] > 0
              BY <2>1, <4>3, <6>1, Zenon
            <6> QED BY <4>3, <6>2, <6>3
          <5> QED BY <5>2, <5>3, Zenon
        <4> QED BY <4>2, <4>3, Zenon
      <3>2. db' = db  BY <1>1
      <3> QED BY <1>0, <3>1, <3>2, Zenon DEF Numbers
    <2> QED BY <1>1, <1>6, <2>9, <2>10 DEF TypeInv, Rowed, Goto
  <1> QED BY <1>5, <1>6, Zenon DEF InsertTable

LEMMA LoadRowTypes ==
    ASSUME TypeInv, loadRow
    PROVE  TypeInv'
  \* A step other than Return forgets no name that is defined.
  <1>refs. ASSUME TypeInv, Next, pc # "returned"
           PROVE  \A n \in Name : refs[n] # NoRow => refs'[n] = refs[n]
    <2> USE <1>refs
    <2> SUFFICES ASSUME NEW n \in Name, refs[n] # NoRow PROVE refs'[n] = refs[n]
      BY Zenon
    <2>0. refs \in [Name -> [Field -> Expr] \union {NoRow}]  BY Zenon DEF TypeInv, Typed
    <2>1. CASE LoadTemplate
      BY <2>0, <2>1, Zenon DEF LoadTemplate
    <2>2. CASE InsertTable  BY <2>2 DEF NamesFree, RowNames, InsertTable
    <2>3. CASE loadRow  BY <2>0, <2>3, LoadRowShape, Zenon DEF RowRegistered
    <2>4. CASE \E names \in Requests : Load(names)
      BY <2>4, Zenon DEF Load, ctx
    <2>5. CASE \E t \in HasId : AppInsert(t)
      BY <2>5 DEF AppInsert, ctx
    <2>6. CASE LoadName \/ LoadInherited \/ AddTables
      BY <2>6, Zenon DEF LoadName, LoadInherited, AddTables
    <2>7. CASE Begin  BY <2>7 DEF Begin, ctx
    <2>8. CASE TruncateTables \/ SkipEmpty \/ fixSequences \/ Commit
      BY <2>8, Zenon DEF TruncateTables, SkipEmpty, fixSequences, Commit
    <2>9. CASE TruncateTable \/ Truncated \/ CommitMysql \/ SlicePanics
      BY <2>9, Zenon DEF TruncateTable, Truncated, CommitMysql, SlicePanics
    <2> QED BY <2>1, <2>2, <2>3, <2>4, <2>5, <2>6, <2>7, <2>8, <2>9, Zenon
            DEF Next, Step, Return
  <1>0. Typed /\ Numbers /\ Rowed  BY Zenon DEF TypeInv
  <1>1. /\ dialect = "mysql" /\ pc = "insert" /\ at <= Len(tables)
        /\ row \in DOMAIN Rows /\ Rows[row] \in Entry /\ UNCHANGED <<gathered, tx>>
    BY LoadRowShape, Zenon
  <1> DEFINE t == Current.table
             e == Rows[row]
  <1>2. t \in Table /\ DOMAIN Rows = 1..Len(Rows) /\ Len(Rows) \in Nat
    BY <1>0, <1>1, CurrentType, Zenon
  <1> HIDE DEF t, e
  <1>3. CASE Fail /\ UNCHANGED <<refs, inserted, at, row, db, last>>
    BY <1>0, <1>1, <1>3, Zenon DEF Typed, gathered, Fail, Numbers, TypeInv, Rowed
  <1>4. CASE /\ RowFits /\ RowStored
             /\ (Fail /\ UNCHANGED <<refs, inserted, at, row>>) \/ RowRegistered
    <2>1. /\ RowId \in Int /\ Fresh \in Rec /\ Fresh.cols \in Cols
          /\ t \in HasId => Fresh.cols["id"] = RowId /\ RowId > 0
      BY <1>0, <1>1, <1>4, FreshType, Zenon DEF t
    <2>2. db[t] \in Seq(Rec) /\ db \in [Table -> Seq(Rec)] /\ last \in [Table -> Nat]
      BY <1>0, <1>2, Zenon DEF Typed
    <2>3. Append(db[t], Fresh) \in Seq(Rec)  BY <2>1, <2>2, AppendFacts, Zenon
    <2>4. /\ db' \in [Table -> Seq(Rec)] /\ db'[t] = Append(db[t], Fresh)
          /\ \A u \in Table : u # t => db'[u] = db[u]
      BY <1>2, <1>4, <2>2, <2>3, Zenon DEF RowStored, t
    <2>5. last' \in [Table -> Nat]  BY <1>2, <1>4, <2>1, <2>2 DEF RowStored, t
    <2>6. Numbers'
      <3>1. ASSUME NEW u \in HasId, NEW i \in DOMAIN db'[u] PROVE db'[u][i].cols["id"] \in Nat
        <4>1. u \in Table  BY Constants, Zenon
        <4>2. CASE u # t  BY <1>0, <2>4, <4>1, <4>2, Zenon DEF Numbers
        <4>3. CASE u = t
          <5>1. /\ i \in 1..(Len(db[t]) + 1) /\ Len(db[t]) \in Nat
                /\ DOMAIN db[t] = 1..Len(db[t])
            BY <2>1, <2>2, <2>4, <4>3, AppendFacts, SeqFacts
          <5>2. CASE i \in DOMAIN db[t]
            <6>1. db'[t][i] = db[t][i]  BY <2>1, <2>2, <2>4, <5>2, AppendFacts
            <6> QED BY <1>0, <4>3, <5>2, <6>1, Zenon DEF Numbers
          <5>3. CASE i = Len(db[t]) + 1  BY <2>1, <2>2, <2>4, <4>3, <5>3, AppendFacts
          <5> QED BY <5>1, <5>2, <5>3
        <4> QED BY <4>2, <4>3, Zenon
      <3>2. tx' = tx  BY <1>1
      <3> QED BY <1>0, <3>1, <3>2, Zenon DEF Numbers
    <2>7. CASE Fail /\ UNCHANGED <<refs, inserted, at, row>>
      BY <1>0, <1>1, <2>4, <2>5, <2>6, <2>7, Zenon DEF Typed, gathered, Fail, TypeInv, Rowed
    <2>8. CASE RowRegistered
      <3>1. e.name \in Name \union {None} /\ (Kept1 => e.name \in Name)
        BY <1>1, EntryType, Zenon DEF Kept1, e
      <3>2. Extended(e) \in [Field -> Expr]
        BY <1>0, <1>1, <1>4, ExtendedType, Zenon DEF RowFits, e
      <3>3. refs' \in [Name -> [Field -> Expr] \union {NoRow}]
        BY <1>0, <2>8, <3>1, <3>2, Zenon DEF Typed, RowRegistered, e
      <3>4. Fetched(Fresh.cols) \in Cols  BY <2>1, FetchedType, Zenon
      <3>5. inserted' \in [Name -> Cols \union {NoRow}]
        BY <1>0, <2>8, <3>1, <3>4, Zenon DEF Typed, RowRegistered, e
      <3>6. at \in Nat \ {0} /\ row \in Nat \ {0}  BY <1>0, Zenon DEF Typed
      <3>7. /\ at' \in Nat \ {0} /\ row' \in Nat \ {0} /\ pc' = pc /\ ret' = ret
            /\ \/ row' = 1
               \/ row < Len(Rows) /\ row' = row + 1 /\ at' = at
        BY <2>8, <3>6 DEF RowRegistered, NextRow, Goto
      <3>8. Typed'  BY <1>0, <1>1, <2>4, <2>5, <3>3, <3>5, <3>7 DEF Typed, gathered
      <3>9. Rowed'
        <4>1. CASE row' = 1  BY <3>7, <4>1 DEF Rowed
        <4>2. CASE row < Len(Rows) /\ row' = row + 1 /\ at' = at
          <5>1. tables' = tables /\ dialect' = dialect  BY <1>1 DEF gathered
          <5>2. Rows' = Rows  BY <4>2, <5>1 DEF Rows, Current
          <5>3. \A i \in DOMAIN Rows : BaseDefined(Rows[i])'
            BY <1>0, <1>1, <1>4, <5>2, CurrentType, <1>refs, EntryType, Zenon DEF RowFits,
              Next, Step, BaseDefined
          <5>4. row + 1 <= Len(Rows)  BY <1>2, <3>6, <4>2
          <5> QED BY <1>1, <3>7, <4>2, <5>1, <5>2, <5>3, <5>4, Zenon DEF Rowed
        <4> QED BY <3>7, <4>1, <4>2
      <3> QED BY <2>6, <3>8, <3>9, Zenon DEF TypeInv
    <2> QED BY <1>4, <2>7, <2>8, Zenon
  <1> QED BY <1>3, <1>4, LoadRowShape

\* The row the application inserts.
AppRow(t) == [from |-> <<<<None, 0>>, app + 1>>,
              cols |-> [f \in Field |-> IF f = "id" THEN last[t] + 1 ELSE Default]]

LEMMA AppInsertShape ==
    ASSUME Typed, NEW t \in HasId, AppInsert(t)
    PROVE  /\ last' = [last EXCEPT ![t] = last[t] + 1] /\ last' \in [Table -> Nat]
           /\ db' \in [Table -> Seq(Rec)]
           /\ \A u \in Table : u # t => db'[u] = db[u]
           /\ \/ last[t] + 1 \in Ids(t, db) /\ db' = db
              \/ db'[t] = Append(db[t], AppRow(t))
           /\ \A u \in HasId : \A i \in DOMAIN db'[u] :
                 \/ i \in DOMAIN db[u] /\ db'[u][i] = db[u][i]
                 \/ db'[u][i].cols["id"] = last[t] + 1
  <1>1. /\ t \in Table /\ last \in [Table -> Nat] /\ db \in [Table -> Seq(Rec)]
        /\ app \in Nat /\ last[t] + 1 \in Nat
    BY Constants DEF Typed
  <1>2. last' = [last EXCEPT ![t] = last[t] + 1] /\ last' \in [Table -> Nat]
    BY <1>1, Zenon DEF AppInsert
  <1>3. AppRow(t) \in Rec /\ AppRow(t).cols["id"] = last[t] + 1
    BY <1>1, Constants DEF Place, Default, AppRow, Rec, Cols
  <1>4. \/ db' = db /\ last[t] + 1 \in Ids(t, db)
        \/ db' = [db EXCEPT ![t] = Append(db[t], AppRow(t))]
    BY <1>1, Zenon DEF AppInsert, AppRow
  <1>5. CASE db' = db /\ last[t] + 1 \in Ids(t, db)
    BY <1>1, <1>2, <1>5, Zenon
  <1>6. CASE db' = [db EXCEPT ![t] = Append(db[t], AppRow(t))]
    BY <1>1, <1>2, <1>3, <1>6, AppendFacts, SeqFacts, Constants
  <1> QED BY <1>4, <1>5, <1>6, Zenon

LEMMA PanicFrame ==
    ASSUME SlicePanics
    PROVE  /\ pc = "insert" /\ pc' = "returned" /\ ret' = "panic"
           /\ UNCHANGED <<dialect, loads, queue, stack, files, tables, due, before, app,
                          refs, inserted, at, row, tx, db, last>>
  BY Zenon DEF SlicePanics, Loading, gathered

LEMMA OtherTypes ==
    ASSUME Finiteness, TypeInv,
           \/ SlicePanics
           \/ TruncateTables \/ SkipEmpty \/ fixSequences \/ Commit
           \/ TruncateTable \/ Truncated \/ CommitMysql \/ Return
           \/ (\E names \in Requests : Load(names))
           \/ (\E t \in HasId : AppInsert(t))
    PROVE  TypeInv'
  <1>0. Typed /\ Numbers /\ Rowed  BY Zenon DEF TypeInv
  <1>1. CASE TruncateTables
    <2>1. /\ pc' \in {"returned", "insert"} /\ ret' \in {ret, "error"} /\ row = 1
          /\ tx' \in {tx, [t \in Table |-> IF t \in Cascade THEN <<>> ELSE tx[t]]}
          /\ UNCHANGED <<gathered, refs, inserted, at, row, db, last>>
      BY <1>0, <1>1, Zenon DEF Rowed, TruncateTables, Fail, Goto
    <2>2. \A t \in Table : tx'[t] = tx[t] \/ tx'[t] = <<>>  BY <2>1
    <2>3. tx' \in [Table -> Seq(Rec)]
      <3>1. <<>> \in Seq(Rec)  OBVIOUS
      <3> QED BY Zenon, <1>0, <2>1, <3>1 DEF Typed
    <2>4. Typed'  BY <1>0, <2>1, <2>3, Zenon DEF Typed, gathered
    <2>5. Numbers'  BY <1>0, <2>1, <2>2, StillNumbered, Constants, Zenon DEF Numbers
    <2> QED BY <2>1, <2>4, <2>5 DEF TypeInv, Rowed
  <1>2. CASE SkipEmpty
    <2>1. /\ at' = at + 1 /\ row = 1
          /\ UNCHANGED <<gathered, pc, ret, refs, inserted, row, tx, db, last>>
      <3>1. row \in Nat \ {0} /\ Len(<<>>) = 0  BY <1>0 DEF Typed
      <3> QED BY <1>0, <1>2, <3>1 DEF SkipEmpty, Loading, Rowed
    <2>2. Typed'
      <3>1. at' \in Nat \ {0}  BY <1>0, <2>1 DEF Typed
      <3> QED BY <1>0, <2>1, <3>1, Zenon DEF Typed, gathered
    <2>3. Numbers'  BY <1>0, <2>1, Zenon DEF Numbers
    <2>4. Rowed'  BY <2>1 DEF Rowed
    <2> QED BY <2>2, <2>3, <2>4, Zenon DEF TypeInv
  <1>3. CASE fixSequences
    <2>1. /\ pc' \in {"returned", "commit"} /\ ret' \in {ret, "error"} /\ row = 1
          /\ last' \in {last, FixedSequences}
          /\ UNCHANGED <<gathered, refs, inserted, at, row, tx, db>>
      BY <1>0, <1>3, Zenon DEF Rowed, fixSequences, Fail, Goto
    <2>2. FixedSequences \in [Table -> Nat]  BY <1>0, MaxOrFacts, Zenon DEF FixedSequences
    <2>3. Typed'  BY <1>0, <2>1, <2>2, Zenon DEF Typed, gathered
    <2>4. Numbers'  BY <1>0, <2>1, Zenon DEF Numbers
    <2> QED BY <2>1, <2>3, <2>4, Zenon DEF TypeInv, Rowed
  <1>4. CASE Commit
    <2>1. /\ pc' = "returned" /\ ret' \in {"ok", "error"} /\ db' \in {db, tx} /\ row = 1
          /\ UNCHANGED <<gathered, refs, inserted, at, row, tx, last>>
      BY <1>0, <1>4, Zenon DEF Rowed, Commit, Fail
    <2>3. Typed'  BY <1>0, <2>1 DEF Typed, gathered
    <2>4. Numbers'  BY <1>0, <2>1, Zenon DEF Numbers
    <2> QED BY <2>1, <2>3, <2>4, Zenon DEF TypeInv, Rowed
  <1>5. CASE TruncateTable
    <2> DEFINE t == Current.table
    <2>1. /\ dialect = "mysql" /\ pc = "truncate" /\ at <= Len(tables) /\ row = 1
          /\ pc' \in {"truncate", "returned"} /\ ret' \in {ret, "error"}
          /\ at' \in {at, at + 1}
          /\ \/ UNCHANGED <<db, last>>
             \/ db' = [db EXCEPT ![t] = <<>>] /\ last' = [last EXCEPT ![t] = 0]
          /\ UNCHANGED <<gathered, refs, inserted, row, tx>>
      BY <1>0, <1>5, Zenon DEF Rowed, TruncateTable, Fail, Goto
    <2>2. t \in Table  BY <1>0, <2>1, CurrentType, Zenon
    <2> HIDE DEF t
    <2>3. /\ db' \in [Table -> Seq(Rec)] /\ last' \in [Table -> Nat]
          /\ \A u \in Table : db'[u] = db[u] \/ db'[u] = <<>>
      <3>1. <<>> \in Seq(Rec) /\ 0 \in Nat  OBVIOUS
      <3>2. db \in [Table -> Seq(Rec)] /\ last \in [Table -> Nat]  BY <1>0, Zenon DEF Typed
      <3>3. CASE UNCHANGED <<db, last>>  BY <3>2, <3>3
      <3>4. CASE db' = [db EXCEPT ![t] = <<>>] /\ last' = [last EXCEPT ![t] = 0]
        BY <2>2, <3>1, <3>2, <3>4, Zenon
      <3> QED BY <2>1, <3>3, <3>4
    <2>4. Typed'  BY <1>0, <2>1, <2>3 DEF Typed, gathered
    <2>5. Numbers'  BY <1>0, <2>1, <2>3, StillNumbered, Constants, Zenon DEF Numbers
    <2> QED BY <2>1, <2>4, <2>5, Zenon DEF TypeInv, Rowed
  <1>6. CASE Truncated
    <2>1. /\ pc' = "insert" /\ at' = 1 /\ row = 1 /\ ret' = ret
          /\ UNCHANGED <<gathered, refs, inserted, row, tx, db, last>>
      BY <1>0, <1>6, Zenon DEF Rowed, Truncated, Goto
    <2>2. Typed'  BY <1>0, <2>1 DEF Typed, gathered
    <2>3. Numbers'  BY <1>0, <2>1, Zenon DEF Numbers
    <2>4. Rowed'  BY <2>1 DEF Rowed
    <2> QED BY <2>2, <2>3, <2>4, Zenon DEF TypeInv
  <1>7. CASE CommitMysql
    BY <1>0, <1>7, Zenon DEF CommitMysql, Fail, Typed, gathered, Numbers, TypeInv, Rowed
  <1>11. CASE SlicePanics
    BY <1>0, <1>11, PanicFrame, Zenon DEF Typed, Numbers, TypeInv, Rowed
  <1>8. CASE Return
    <2>1. /\ pc' = "idle" /\ ret' = ret
          /\ queue' = <<>> /\ stack' = <<>> /\ files' = {} /\ tables' = <<>>
          /\ refs' = NoRefs /\ inserted' = NoRefs /\ at' = 1 /\ row' = 1
          /\ tx' = EmptyDb /\ due' = {} /\ before' = EmptyDb
          /\ UNCHANGED <<dialect, loads, db, last, app>>
      BY <1>8, Zenon DEF Return, Goto
    <2>2. /\ <<>> \in Seq(File) /\ <<>> \in Seq(Frame) /\ <<>> \in Seq(Sect)  OBVIOUS
    <2>3. Typed'  BY <1>0, <2>1, <2>2, EmptyDbType, NoRefsType DEF Typed
    <2>4. Numbers'  BY <1>0, <2>1, StillNumbered, Constants, Zenon DEF EmptyDb, Numbers
    <2> QED BY <2>1, <2>3, <2>4, Zenon DEF TypeInv, Rowed
  <1>9. CASE \E names \in Requests : Load(names)
    <2>1. PICK names \in Requests : Load(names)  BY <1>9, Zenon
    <2>2. /\ pc' = "gather" /\ ret' = "none" /\ queue' = names /\ row = 1
          /\ due' = Reached(names) /\ before' = db
          /\ UNCHANGED <<dialect, stack, ctx, at, row, tx, db, last, app>>
      BY <1>0, <2>1 DEF Rowed, Load
    <2>3. names \in Seq(File) /\ Reached(names) \subseteq File \ Unreadable
      BY Constants, Zenon DEF Reached
    <2>4. Typed'  BY <1>0, <2>2, <2>3, Zenon DEF Typed, ctx
    <2>5. Numbers'  BY <1>0, <2>2, Zenon DEF Numbers
    <2> QED BY <2>2, <2>4, <2>5, Zenon DEF TypeInv, Rowed
  <1>10. CASE \E t \in HasId : AppInsert(t)
    <2>1. PICK t \in HasId : AppInsert(t)  BY <1>10, Zenon
    <2>2. /\ pc = "idle" /\ app' = app + 1 /\ row = 1
          /\ UNCHANGED <<dialect, loads, pc, ret, queue, stack, ctx, at, row, tx,
                         due, before>>
      BY <1>0, <2>1 DEF Rowed, AppInsert
    <2>3. /\ db' \in [Table -> Seq(Rec)] /\ last' \in [Table -> Nat]
          /\ \A u \in HasId : \A i \in DOMAIN db'[u] :
                \/ i \in DOMAIN db[u] /\ db'[u][i] = db[u][i]
                \/ db'[u][i].cols["id"] = last[t] + 1
      BY <1>0, <2>1, AppInsertShape, Zenon
    <2>4. Typed'  BY <1>0, <2>2, <2>3 DEF Typed, ctx
    <2>5. Numbers'
      <3>1. last[t] + 1 \in Nat
        <4>1. last[t] \in Nat  BY <1>0, Constants, Zenon DEF Typed
        <4> QED BY <4>1
      <3>2. \A u \in HasId : \A i \in DOMAIN db'[u] : db'[u][i].cols["id"] \in Nat
        BY Zenon, <1>0, <2>3, <3>1 DEF Numbers
      <3> QED BY <1>0, <2>2, <3>2, Zenon DEF Numbers
    <2> QED BY <2>2, <2>4, <2>5, Zenon DEF TypeInv, Rowed
  <1> QED BY <1>1, <1>2, <1>3, <1>4, <1>5, <1>6, <1>7, <1>8, <1>9, <1>10,
         <1>11

LEMMA TypeStep ==
    ASSUME Finiteness PROVE TypeInv /\ [Next]_vars => TypeInv'
  <1> SUFFICES ASSUME TypeInv, [Next]_vars PROVE TypeInv'  OBVIOUS
  <1>1. CASE UNCHANGED vars
    <2>1. UNCHANGED <<dialect, pc, ret, queue, stack, at, row, tx, db, last, due,
                      before, app>>
          /\ UNCHANGED <<files, tables, refs, inserted>>
      BY <1>1, Zenon DEF vars, ctx
    <2>2. Typed'  BY <2>1, Zenon DEF TypeInv, Typed
    <2>3. Numbers'  BY <2>1, Zenon DEF TypeInv, Numbers
    <2>4. Rowed'  BY <2>1, Zenon DEF TypeInv, Rowed, Rows, Current, BaseDefined
    <2> QED BY <2>2, <2>3, <2>4, Zenon DEF TypeInv
  <1>2. CASE Next
    BY <1>2, GatherTypes, InsertTableTypes, LoadRowTypes, OtherTypes, Zenon DEF Next, Step
  <1> QED BY <1>1, <1>2

-----------------------------------------------------------------------------
(* What the calls gather belongs to the files that are due.                *)

Blank ==
    /\ pc = "idle" => /\ queue = <<>> /\ stack = <<>> /\ files = {} /\ tables = <<>>
                      /\ refs = NoRefs
    /\ pc \in {"idle", "gather"} => at = 1 /\ row = 1 /\ inserted = NoRefs

Within ==
    /\ \A f \in due : \A k \in DOMAIN Content[f].inherits :
          Content[f].inherits[k] \in due \union Unreadable
    /\ files \subseteq due
    /\ \A k \in DOMAIN queue : queue[k] \in due \union Unreadable
    /\ \A k \in DOMAIN stack : stack[k].file \in files
    /\ \A k \in DOMAIN tables :
          /\ tables[k].from \in Sections
          /\ tables[k].table = Section(tables[k].from).table
          /\ tables[k].rows = Section(tables[k].from).rows

GatherInv == TypeInv /\ Blank /\ Within

Gathers == LoadName \/ LoadInherited \/ LoadTemplate \/ AddTables
Writes == \/ Begin \/ TruncateTables \/ SkipEmpty \/ InsertTable \/ fixSequences \/ Commit
          \/ TruncateTable \/ Truncated \/ loadRow \/ CommitMysql \/ SlicePanics

LEMMA Actions ==
    Next => \/ Gathers \/ Writes \/ Return
            \/ (\E names \in Requests : Load(names)) \/ (\E t \in HasId : AppInsert(t))
  BY Zenon DEF Next, Step, Gathers, Writes

LEMMA GathersFrame ==
    ASSUME Gathers
    PROVE  /\ pc = "gather"
           /\ (pc' = "gather" /\ ret' = ret) \/ (pc' = "returned" /\ ret' = "error")
           /\ UNCHANGED <<dialect, at, row, tx, db, last, due, before, app, inserted>>
  <1>1. CASE LoadName  BY <1>1, Zenon DEF LoadName, Open, Fail, Goto, unloaded
  <1>2. CASE LoadInherited
    BY <1>2, Zenon DEF LoadInherited, InFile, Open, Fail, Goto, unloaded
  <1>3. CASE LoadTemplate  BY <1>3 DEF LoadTemplate, InFile, Fail, Goto, unloaded
  <1>4. CASE AddTables
    <2>1. pc = "gather" /\ UNCHANGED <<inserted, unloaded>> /\ Goto(pc)
      BY <1>4, Zenon DEF AddTables, InFile
    <2> QED BY <2>1 DEF Fail, Goto, unloaded
  <1> QED BY <1>1, <1>2, <1>3, <1>4, Zenon DEF Gathers

LEMMA WritesFrame ==
    ASSUME Writes
    PROVE  /\ UNCHANGED <<dialect, queue, stack, files, tables, due, before, app>>
           /\ pc \notin {"idle", "returned"} /\ pc' \notin {"idle", "gather"}
  <1>1. CASE Begin
    BY <1>1 DEF Begin, ctx, Fail, Goto
  <1>2. CASE TruncateTables \/ SkipEmpty
    BY <1>2, Zenon DEF TruncateTables, SkipEmpty, Loading, gathered, Fail, Goto
  <1>3. CASE InsertTable \/ fixSequences \/ Commit
    BY <1>3 DEF InsertTable, Loading, fixSequences, Commit, gathered, Fail, Goto
  <1>4. CASE TruncateTable \/ Truncated \/ CommitMysql
    BY <1>4, Zenon DEF TruncateTable, Truncated, CommitMysql, gathered, Fail, Goto
  <1>5. CASE loadRow  BY <1>5 DEF loadRow, Loading, gathered, Fail, Goto
  <1>6. CASE SlicePanics  BY <1>6, PanicFrame
  <1> QED BY <1>1, <1>2, <1>3, <1>4, <1>5, <1>6, Zenon DEF Writes

LEMMA ReturnFrame ==
    ASSUME Return
    PROVE  /\ pc = "returned" /\ pc' = "idle" /\ ret' = ret
           /\ queue' = <<>> /\ stack' = <<>> /\ files' = {} /\ tables' = <<>>
           /\ refs' = NoRefs /\ inserted' = NoRefs /\ at' = 1 /\ row' = 1
           /\ tx' = EmptyDb /\ due' = {} /\ before' = EmptyDb
           /\ UNCHANGED <<dialect, db, last, app>>
  BY Zenon DEF Return, Goto

LEMMA LoadFrame ==
    ASSUME NEW names \in Requests, Load(names)
    PROVE  /\ pc = "idle" /\ pc' = "gather" /\ ret' = "none"
           /\ queue' = names /\ due' = Reached(names) /\ before' = db
           /\ UNCHANGED <<dialect, stack, files, tables, refs, inserted, at, row, tx,
                          db, last, app>>
  BY Zenon DEF Load, ctx

LEMMA AppFrame ==
    ASSUME NEW t \in HasId, AppInsert(t)
    PROVE  /\ pc = "idle"
           /\ UNCHANGED <<dialect, pc, ret, queue, stack, files, tables, refs, inserted,
                          at, row, tx, due, before>>
  BY DEF AppInsert, ctx

LEMMA OwnWithin ==
    ASSUME TypeInv, Within, NEW f \in due
    PROVE  /\ Own(f) \in Seq(Sect) /\ DOMAIN Own(f) = DOMAIN Content[f].tables
           /\ \A k \in DOMAIN Own(f) :
                 /\ Own(f)[k].from = <<f, k>> /\ Own(f)[k].from \in Sections
                 /\ Own(f)[k].table = Section(Own(f)[k].from).table
                 /\ Own(f)[k].rows = Section(Own(f)[k].from).rows
  <1>1. f \in File \ Unreadable  BY Zenon DEF TypeInv, Typed
  <1>2. /\ Own(f) \in Seq(Sect) /\ DOMAIN Own(f) = DOMAIN Content[f].tables
        /\ \A k \in DOMAIN Own(f) : /\ Own(f)[k].from = <<f, k>>
                                    /\ Own(f)[k].table = Content[f].tables[k].table
                                    /\ Own(f)[k].rows = Content[f].tables[k].rows
    BY <1>1, OwnType
  <1>3. \A k \in DOMAIN Content[f].tables : <<f, k>> \in Sections  BY DEF Sections
  <1>4. \A k : Section(<<f, k>>) = Content[f].tables[k]  BY DEF Section
  <1> QED BY <1>2, <1>3, <1>4, Zenon

\* The files reached are closed under inheritance, up to unreadable names.
LEMMA ReachedClosed ==
    ASSUME NEW names \in Seq(File)
    PROVE  /\ \A k \in DOMAIN names : names[k] \in Reached(names) \union Unreadable
           /\ \A f \in Reached(names) : \A k \in DOMAIN Content[f].inherits :
                 Content[f].inherits[k] \in Reached(names) \union Unreadable
           /\ Reached(names) \subseteq File \ Unreadable
  <1> DEFINE Closed(S) ==
                /\ \A k \in DOMAIN names : names[k] \in S
                /\ \A g \in S \ Unreadable : \A k \in DOMAIN Content[g].inherits :
                      Content[g].inherits[k] \in S
  <1>1. Reached(names) = {f \in File \ Unreadable : \A S \in SUBSET File : Closed(S) => f \in S}
    BY DEF Reached
  <1>2. \A k \in DOMAIN names : names[k] \in File  BY SeqFacts, Zenon
  <1>3. ASSUME NEW k \in DOMAIN names PROVE names[k] \in Reached(names) \union Unreadable
    BY <1>1, <1>2, Zenon
  <1>4. ASSUME NEW f \in Reached(names), NEW k \in DOMAIN Content[f].inherits
        PROVE  Content[f].inherits[k] \in Reached(names) \union Unreadable
    <2>1. f \in File \ Unreadable /\ \A S \in SUBSET File : Closed(S) => f \in S
      BY <1>1, Zenon
    <2>2. Content[f].inherits[k] \in File  BY <2>1, Constants, SeqFacts, Zenon
    <2>3. \A S \in SUBSET File : Closed(S) => Content[f].inherits[k] \in S
      BY <2>1
    <2> HIDE DEF Closed
    <2> QED BY <1>1, <2>2, <2>3, Zenon
  <1>5. Reached(names) \subseteq File \ Unreadable  BY Zenon DEF Reached
  <1> QED BY <1>3, <1>4, <1>5, Zenon

LEMMA OpenWithin ==
    ASSUME TypeInv, Within, NEW f \in due \union Unreadable, NEW frames \in Seq(Frame),
           \A k \in DOMAIN frames : frames[k].file \in files, Open(f, frames)
    PROVE  /\ files \subseteq files' /\ files' \subseteq due
           /\ \A k \in DOMAIN stack' : stack'[k].file \in files'
  <1>1. files \subseteq due  BY DEF Within
  <1>2. CASE stack' = frames /\ files' = files  BY <1>1, <1>2
  <1>3. CASE /\ f \notin Unreadable \union files /\ files' = files \union {f}
             /\ stack' = Append(frames, [file |-> f, step |-> 1])
    <2> DEFINE new == [file |-> f, step |-> 1]
    <2>1. f \in File /\ new \in Frame /\ new.file = f
      <3>1. f \in File \ Unreadable  BY <1>3, Zenon DEF TypeInv, Typed
      <3> QED BY <3>1 DEF Frame
    <2> HIDE DEF new
    <2>2. /\ DOMAIN Append(frames, new) = 1..(Len(frames) + 1)
          /\ DOMAIN frames = 1..Len(frames) /\ Len(frames) \in Nat
          /\ \A i \in DOMAIN frames : Append(frames, new)[i] = frames[i]
          /\ Append(frames, new)[Len(frames) + 1] = new
      BY <2>1, AppendFacts, SeqFacts
    <2>3. ASSUME NEW k \in DOMAIN Append(frames, new)
          PROVE  Append(frames, new)[k].file \in files'
      BY <1>3, <2>1, <2>2
    <2> QED BY <1>1, <1>3, <2>3, Zenon DEF new
  <1> QED BY <1>2, <1>3, Zenon DEF Open

LEMMA GathersStep == ASSUME GatherInv, TypeInv', Gathers PROVE GatherInv'
  <1>0. TypeInv /\ Typed /\ Within /\ Blank /\ TypeInv'
    BY Zenon DEF GatherInv, TypeInv
  <1>1. /\ pc = "gather" /\ pc' # "idle"
        /\ UNCHANGED <<at, row, due, inserted>>
    BY GathersFrame
  <1>2. Blank'  BY <1>0, <1>1, Zenon DEF Blank
  <1>3. /\ \A f \in due' : \A k \in DOMAIN Content[f].inherits :
              Content[f].inherits[k] \in due' \union Unreadable
        /\ Sections' = Sections
    BY <1>0, <1>1, Zenon DEF Within, Sections
  <1>4. ASSUME UNCHANGED tables
        PROVE  \A k \in DOMAIN tables' :
                  /\ tables'[k].from \in Sections'
                  /\ tables'[k].table = Section(tables'[k].from).table
                  /\ tables'[k].rows = Section(tables'[k].from).rows
    BY <1>0, <1>3, <1>4 DEF Within
  <1>5. CASE LoadName
    <2>1. queue # <<>> /\ queue' = Tail(queue) /\ Open(Head(queue), <<>>) /\ UNCHANGED tables
      BY <1>5, Zenon DEF LoadName
    <2>2. queue \in Seq(File)  BY <1>0, Zenon DEF Typed
    <2>3. Head(queue) \in due \union Unreadable
      <3>1. Head(queue) = queue[1] /\ 1 \in DOMAIN queue  BY <2>1, <2>2, TailFacts
      <3> QED BY <1>0, <3>1, Zenon DEF Within
    <2>4. \A k \in DOMAIN queue' : queue'[k] \in due' \union Unreadable
      BY <1>0, <1>1, <2>1, <2>2, TailFacts DEF Within
    <2>5. <<>> \in Seq(Frame) /\ \A k \in DOMAIN <<>> : <<>>[k].file \in files  OBVIOUS
    <2>6. files' \subseteq due /\ \A k \in DOMAIN stack' : stack'[k].file \in files'
      BY Zenon, <1>0, <2>1, <2>3, <2>5, OpenWithin
    <2>7. Within'  BY <1>1, <1>3, <1>4, <2>1, <2>4, <2>6 DEF Within
    <2> QED BY <1>0, <1>2, <2>7 DEF GatherInv
  <1>6. CASE LoadInherited
    <2>1. /\ stack # <<>> /\ Top.step <= Len(Inherits)
          /\ Open(Inherits[Top.step], Advanced) /\ UNCHANGED <<queue, tables>>
      BY <1>6, Zenon DEF LoadInherited, InFile
    <2>2. /\ Len(stack) \in DOMAIN stack /\ Inherits \in Seq(File)
          /\ Top.step \in Nat \ {0}
          /\ Advanced \in Seq(Frame) /\ DOMAIN Advanced = DOMAIN stack
          /\ \A i \in DOMAIN stack : Advanced[i].file = stack[i].file
      BY <1>0, <2>1, TopType, Zenon
    <2>3. Top.step \in DOMAIN Inherits  BY <2>1, <2>2, SeqFacts
    <2>4. Top.file \in due  BY <1>0, <2>2, Zenon DEF Within, Top
    <2>5. Inherits[Top.step] \in due \union Unreadable
      BY <1>0, <2>3, <2>4, Zenon DEF Within, Inherits
    <2>6. \A k \in DOMAIN Advanced : Advanced[k].file \in files
      BY <1>0, <2>2 DEF Within
    <2>7. files' \subseteq due /\ \A k \in DOMAIN stack' : stack'[k].file \in files'
      BY <1>0, <2>1, <2>2, <2>5, <2>6, OpenWithin, Zenon
    <2>8. \A k \in DOMAIN queue' : queue'[k] \in due' \union Unreadable
      BY <1>0, <1>1, <2>1, Zenon DEF Within
    <2>9. Within'  BY <1>1, <1>3, <1>4, <2>1, <2>7, <2>8, Zenon DEF Within
    <2> QED BY <1>0, <1>2, <2>9 DEF GatherInv
  <1>7. CASE LoadTemplate
    <2>1. stack # <<>> /\ UNCHANGED <<queue, files, tables>> /\ stack' \in {stack, Advanced}
      BY <1>7, Zenon DEF LoadTemplate, InFile
    <2>2. /\ DOMAIN Advanced = DOMAIN stack
          /\ \A i \in DOMAIN stack : Advanced[i].file = stack[i].file
      BY <1>0, <2>1, TopType, Zenon
    <2>3. \A k \in DOMAIN stack' : stack'[k].file \in files'
      BY <1>0, <2>1, <2>2, Zenon DEF Within
    <2>4. /\ files' \subseteq due'
          /\ \A k \in DOMAIN queue' : queue'[k] \in due' \union Unreadable
      BY <1>0, <1>1, <2>1, Zenon DEF Within
    <2>5. Within'  BY <1>3, <1>4, <2>1, <2>3, <2>4, Zenon DEF Within
    <2> QED BY <1>0, <1>2, <2>5, Zenon DEF GatherInv
  <1>8. CASE AddTables
    <2>1. /\ stack # <<>> /\ tables' = tables \o Own(Top.file) /\ stack' = Popped
          /\ UNCHANGED <<queue, files>>
      BY <1>8, Zenon DEF AddTables, InFile, Own
    <2>2. /\ Len(stack) \in DOMAIN stack /\ DOMAIN Popped = DOMAIN stack \ {Len(stack)}
          /\ \A i \in DOMAIN Popped : Popped[i] = stack[i]
      BY <1>0, <2>1, TopType, Zenon
    <2>3. \A k \in DOMAIN stack' : stack'[k].file \in files'
      BY <1>0, <2>1, <2>2, Zenon DEF Within
    <2>4. Top.file \in due  BY <1>0, <2>2, Zenon DEF Within, Top
    <2> DEFINE own == Own(Top.file)
    <2>5. /\ own \in Seq(Sect)
          /\ \A k \in DOMAIN own : /\ own[k].from \in Sections
                                   /\ own[k].table = Section(own[k].from).table
                                   /\ own[k].rows = Section(own[k].from).rows
      BY <1>0, <2>4, OwnWithin, Zenon
    <2> HIDE DEF own
    <2>6. ASSUME NEW k \in DOMAIN tables'
          PROVE  /\ tables'[k].from \in Sections
                 /\ tables'[k].table = Section(tables'[k].from).table
                 /\ tables'[k].rows = Section(tables'[k].from).rows
      <3>1. tables \in Seq(Sect) /\ tables' = tables \o own
        BY <1>0, <2>1, Zenon DEF Typed, own
      <3>2. \/ k \in DOMAIN tables /\ tables'[k] = tables[k]
            \/ \E i \in DOMAIN own : tables'[k] = own[i]
        <4>1. k \in DOMAIN (tables \o own)  BY <2>6, <3>1, Zenon
        <4>2. \/ k \in DOMAIN tables /\ (tables \o own)[k] = tables[k]
              \/ \E i \in DOMAIN own : k = Len(tables) + i /\ (tables \o own)[k] = own[i]
          BY <2>5, <3>1, <4>1, ConcatIndex
        <4> QED BY <3>1, <4>2, Zenon
      <3> QED BY <1>0, <2>5, <3>2, Zenon DEF Within
    <2>7. /\ files' \subseteq due'
          /\ \A k \in DOMAIN queue' : queue'[k] \in due' \union Unreadable
      BY <1>0, <1>1, <2>1, Zenon DEF Within
    <2>8. Within'  BY <1>3, <2>1, <2>3, <2>6, <2>7 DEF Within
    <2> QED BY <1>0, <1>2, <2>8 DEF GatherInv
  <1> QED BY <1>5, <1>6, <1>7, <1>8 DEF Gathers

LEMMA GatherStep ==
    ASSUME Finiteness PROVE GatherInv /\ [Next]_vars => GatherInv'
  <1> SUFFICES ASSUME GatherInv, [Next]_vars PROVE GatherInv'  OBVIOUS
  <1>0. TypeInv /\ Typed /\ Within /\ Blank /\ TypeInv'
    BY TypeStep, Zenon DEF GatherInv, TypeInv
  <1>1. ASSUME UNCHANGED <<queue, stack, files, tables, due>> PROVE Within'
    BY <1>0, <1>1, Zenon DEF Within, Sections
  <1>2. CASE UNCHANGED vars  BY <1>0, <1>1, <1>2 DEF vars, ctx, Blank, GatherInv
  <1>3. CASE Gathers  BY <1>0, <1>3, GathersStep, Zenon
  <1>4. CASE Writes
    <2>1. /\ UNCHANGED <<queue, stack, files, tables, due>> /\ pc' \notin {"idle", "gather"}
      BY <1>4, WritesFrame, Zenon
    <2> QED BY <1>0, <1>1, <2>1, Zenon DEF GatherInv, Blank
  <1>5. CASE Return  BY <1>0, <1>5, ReturnFrame DEF Within, Blank, GatherInv
  <1>6. CASE \E names \in Requests : Load(names)
    <2> PICK names \in Requests : Load(names)  BY <1>6, Zenon
    <2>1. /\ pc = "idle" /\ pc' = "gather" /\ queue' = names /\ due' = Reached(names)
          /\ UNCHANGED <<stack, files, tables, inserted, at, row>>
      BY LoadFrame, Zenon
    <2>2. /\ stack = <<>> /\ files = {} /\ tables = <<>>
          /\ at = 1 /\ row = 1 /\ inserted = NoRefs
      BY <1>0, <2>1, Zenon DEF Blank
    <2>3. pc' # "idle"  BY <2>1
    <2>4. Blank'  BY <2>1, <2>2, <2>3, Zenon DEF Blank
    <2>5. names \in Seq(File)  BY Constants, Zenon
    <2>6. /\ \A k \in DOMAIN queue' : queue'[k] \in due' \union Unreadable
          /\ \A f \in due' : \A k \in DOMAIN Content[f].inherits :
                Content[f].inherits[k] \in due' \union Unreadable
      BY <2>1, <2>5, ReachedClosed, Zenon
    <2>7. \A k \in DOMAIN stack' : FALSE  BY <2>1, <2>2
    <2>8. \A k \in DOMAIN tables' : FALSE  BY <2>1, <2>2
    <2>9. files' \subseteq due'  BY <2>1, <2>2, Zenon
    <2>10. Within'  BY <2>6, <2>7, <2>8, <2>9, Zenon DEF Within
    <2> QED BY <1>0, <2>4, <2>10, Zenon DEF GatherInv
  <1>7. CASE \E t \in HasId : AppInsert(t)
    BY <1>0, <1>1, <1>7, AppFrame, Zenon DEF Blank, GatherInv
  <1> QED BY <1>2, <1>3, <1>4, <1>5, <1>6, <1>7, Actions, Zenon

LEMMA InitGather == Init => GatherInv
  <1> SUFFICES ASSUME Init PROVE GatherInv  BY Zenon
  <1>1. Within
    <2>1. queue = <<>> /\ stack = <<>> /\ tables = <<>> /\ files = {} /\ due = {}
      BY Zenon DEF Init
    <2>2. \A k \in DOMAIN <<>> : FALSE  OBVIOUS
    <2> QED BY <2>1, <2>2, Zenon DEF Within
  <1>2. Blank  BY Zenon DEF Init, Blank
  <1> QED BY <1>1, <1>2, InitTypes DEF GatherInv

=============================================================================
