---------------------------- MODULE SqlFixtures ----------------------------
(***************************************************************************)
(* The SQL fixture loaders, fixtures/postgres/postgres.go and              *)
(* fixtures/mysql/mysql.go: Load gathers the named files and the files     *)
(* they inherit into a context, then truncates and fills the tables inside *)
(* a database transaction.  Between two calls of Load the tested           *)
(* application inserts rows of its own.                                    *)
(*                                                                         *)
(* A file is a record of its inherited files, its templates and its        *)
(* tables.  An entry (a template or a row) is a record of its $name, its   *)
(* $extend and its fields.  A field is absent, a value or a reference      *)
(* $name.field.  An $eval() expression is a value computed by the          *)
(* database.  Values are integers; the negative ones are special.          *)
(*                                                                         *)
(* A column id of a MySQL table is taken to be AUTO_INCREMENT: for another *)
(* one LastInsertId is 0, and the row read back is none or a wrong one.    *)
(***************************************************************************)
EXTENDS Integers, Sequences, FiniteSets

CONSTANTS File, Table, Name, Field, None,
          Content,     \* the parsed files
          Unreadable,  \* names with no file, or whose file is not valid YAML
          Requests,    \* the lists of names Load may be called with
          HasId,       \* tables with an automatically numbered column id
          Dependents,  \* for a table, the tables with a foreign key to it
          Short,       \* the references $name.field of fewer than five characters
          MaxExact,    \* the integers up to here are float64 values (2^53)
          MaxLoads, MaxAppRows

Null     == -1         \* SQL NULL
Default  == -2         \* the column's default
NullText == -3         \* the four characters NULL
NoId     == 0          \* the id of a row of a table without that column
NoRow    == <<>>

Expr == [kind : {"absent", "value"}, val : Int, name : Name \union {None},
         field : Field]
        \union [kind : {"ref"}, val : Int, name : Name, field : Field]
Entry == [name : Name \union {None}, extend : Name \union {None},
          fields : [Field -> Expr]]

ASSUME FixtureAssumption ==
    /\ "id" \in Field /\ None \notin Name /\ HasId \subseteq Table
    /\ MaxLoads \in Nat /\ MaxAppRows \in Nat /\ MaxExact \in Nat
    /\ Short \subseteq Name \X Field
    /\ Dependents \in [Table -> SUBSET Table]
    /\ Unreadable \subseteq File
    /\ \A q \in Requests : q \in Seq(File)
    /\ \A f \in File \ Unreadable :
          /\ Content[f].inherits \in Seq(File)
          /\ Content[f].templates \in Seq(Entry)
          /\ \A k \in DOMAIN Content[f].templates :
                Content[f].templates[k].name # None
          /\ Content[f].tables \in Seq([table : Table, rows : Seq(Entry)])

VARIABLES
    dialect,   \* the loader in use
    loads,     \* calls of Load so far
    pc, ret,   \* where the call is and what the last one returned
    queue,     \* names still to load
    stack,     \* the nested calls of loadFile: the file and the next step in it
    files,     \* ctx.files
    tables,    \* ctx.tables, each with the place it comes from
    refs,      \* ctx.refsDefinition
    inserted,  \* ctx.refsInserted
    at, row,   \* the table and, in MySQL, the row being processed
    tx, db,    \* the tables as the open transaction sees them, as committed
    last,      \* the last number each id sequence gave
    due,       \* history: the files the call must load
    before,    \* history: db when Load was called
    app        \* rows the application has inserted

ctx  == <<files, tables, refs, inserted>>
vars == <<dialect, loads, pc, ret, queue, stack, ctx, at, row, tx, db, last,
          due, before, app>>

EmptyDb == [t \in Table |-> <<>>]
NoRefs  == [n \in Name |-> NoRow]

Init ==
    /\ dialect \in {"postgres", "mysql"}
    /\ loads = 0 /\ app = 0
    /\ pc = "idle" /\ ret = "none"
    /\ queue = <<>> /\ stack = <<>> /\ files = {} /\ tables = <<>>
    /\ refs = NoRefs /\ inserted = NoRefs
    /\ at = 1 /\ row = 1
    /\ db = EmptyDb /\ tx = EmptyDb
    /\ due = {} /\ before = EmptyDb
    /\ last = [t \in Table |-> 0]

Fail == pc' = "returned" /\ ret' = "error"
Goto(p) == pc' = p /\ UNCHANGED ret

-----------------------------------------------------------------------------
(* Gathering the files. *)

(* The named files and, transitively, those they inherit. *)
Reached(names) ==
    {f \in File \ Unreadable : \A S \in SUBSET File :
        (/\ \A k \in DOMAIN names : names[k] \in S
         /\ \A g \in S \ Unreadable : \A k \in DOMAIN Content[g].inherits :
               Content[g].inherits[k] \in S) => f \in S}

Load(names) ==
    /\ pc = "idle" /\ loads < MaxLoads
    /\ loads' = loads + 1
    /\ queue' = names /\ due' = Reached(names) /\ before' = db
    /\ pc' = "gather" /\ ret' = "none"
    /\ UNCHANGED <<dialect, stack, ctx, at, row, tx, db, last, app>>

\* Mutant of Open: a file loaded before is asked for again and again.
OpenRetries(f, frames) ==
    \/ f \in files /\ Goto(pc) /\ UNCHANGED <<files, stack>>
    \/ /\ f \notin files
       /\ Goto(pc)
       /\ files' = files \union {f}
       /\ stack' = Append(frames, [file |-> f, step |-> 1])

(* loadFile, called with the given outer calls pending. *)
Open(f, frames) ==
    \/ /\ f \in Unreadable
       /\ Fail
       /\ stack' = frames /\ UNCHANGED files
    \/ /\ f \in files
       /\ Goto(pc)
       /\ stack' = frames /\ UNCHANGED files
    \/ /\ f \notin Unreadable \union files
       /\ Goto(pc)
       /\ files' = files \union {f}
       /\ stack' = Append(frames, [file |-> f, step |-> 1])

Top      == stack[Len(stack)]
Inherits == Content[Top.file].inherits
Template == Content[Top.file].templates[Top.step - Len(Inherits)]
Advanced == [stack EXCEPT ![Len(stack)].step = @ + 1]
Popped   == SubSeq(stack, 1, Len(stack) - 1)
InFile   == pc = "gather" /\ stack # <<>>
unloaded == <<dialect, loads, at, row, tx, db, last, due, before, app>>

LoadName ==
    /\ pc = "gather" /\ stack = <<>> /\ queue # <<>>
    /\ queue' = Tail(queue)
    /\ Open(Head(queue), <<>>)
    /\ UNCHANGED <<tables, refs, inserted, unloaded>>

LoadInherited ==
    /\ InFile /\ Top.step <= Len(Inherits)
    /\ Open(Inherits[Top.step], Advanced)
    /\ UNCHANGED <<queue, tables, refs, inserted, unloaded>>

(* resolveReference copies the base before the entry's own fields are laid  *)
(* over it.                                                                 *)
Extended(e) ==
    IF e.extend = None THEN e.fields
    ELSE [f \in Field |-> IF e.fields[f].kind = "absent"
                          THEN refs[e.extend][f] ELSE e.fields[f]]
BaseDefined(e) == e.extend # None => refs[e.extend] # NoRow

\* Mutant of LoadTemplate: the base is not copied.
LoadTemplateInPlace ==
    /\ InFile
    /\ Top.step - Len(Inherits) \in DOMAIN Content[Top.file].templates
    /\ \/ Fail /\ UNCHANGED <<refs, stack>>
       \/ /\ BaseDefined(Template)
          /\ refs' = [n \in Name |-> IF n \in {Template.name, Template.extend}
                                     THEN Extended(Template) ELSE refs[n]]
          /\ stack' = Advanced
          /\ Goto(pc)
    /\ UNCHANGED <<queue, files, tables, inserted, unloaded>>

LoadTemplate ==
    /\ InFile
    /\ Top.step - Len(Inherits) \in DOMAIN Content[Top.file].templates
    /\ \/ /\ refs[Template.name] # NoRow \/ ~BaseDefined(Template)
          /\ Fail
          /\ UNCHANGED <<refs, stack>>
       \/ /\ refs[Template.name] = NoRow /\ BaseDefined(Template)
          /\ refs' = [refs EXCEPT ![Template.name] = Extended(Template)]
          /\ stack' = Advanced
          /\ Goto(pc)
    /\ UNCHANGED <<queue, files, tables, inserted, unloaded>>

(* The tables of a file follow those of the files it inherits. *)
AddTables ==
    /\ InFile
    /\ Top.step > Len(Inherits) + Len(Content[Top.file].templates)
    /\ tables' = tables \o
          [k \in DOMAIN Content[Top.file].tables |->
              [table |-> Content[Top.file].tables[k].table,
               rows |-> Content[Top.file].tables[k].rows,
               from |-> <<Top.file, k>>]]
    /\ stack' = Popped
    /\ Goto(pc)
    /\ UNCHANGED <<queue, files, refs, inserted, unloaded>>

Begin ==
    /\ pc = "gather" /\ stack = <<>> /\ queue = <<>>
    /\ \/ Fail /\ UNCHANGED tx
       \/ Goto("truncate") /\ tx' = db
    /\ UNCHANGED <<dialect, loads, queue, stack, ctx, at, row, db, last,
                   due, before, app>>

-----------------------------------------------------------------------------
(* PostgreSQL: everything happens in the transaction, which the deferred    *)
(* Rollback undoes.  Sequences are outside of it.                           *)

(* The tables of S, those with a foreign key to them, those with one to     *)
(* these, and so on.                                                        *)
Reaching(S) ==
    {t \in Table : \A C \in SUBSET Table :
        S \subseteq C /\ (\A u \in C : Dependents[u] \subseteq C) => t \in C}

\* Mutant of Named: the whole database is truncated.
EveryTable == Table

Named   == {tables[k].table : k \in DOMAIN tables}
Cascade == Reaching(Named)
gathered == <<dialect, loads, queue, stack, files, tables, due, before,
              app>>

\* Mutant of TruncateTables: the statement is executed outside of the
\* transaction.
TruncateTablesOutside ==
    /\ dialect = "postgres" /\ pc = "truncate"
    /\ \/ Fail /\ UNCHANGED <<tx, db>>
       \/ /\ Named # {}
          /\ db' = [t \in Table |-> IF t \in Cascade THEN <<>> ELSE db[t]]
          /\ tx' = db'
          /\ Goto("insert")
    /\ UNCHANGED <<gathered, refs, inserted, at, row, last>>

(* One TRUNCATE ... CASCADE statement; without a table it is bad SQL. *)
TruncateTables ==
    /\ dialect = "postgres" /\ pc = "truncate"
    /\ \/ Fail /\ UNCHANGED tx
       \/ /\ Named # {}
          /\ tx' = [t \in Table |-> IF t \in Cascade THEN <<>> ELSE tx[t]]
          /\ Goto("insert")
    /\ UNCHANGED <<gathered, refs, inserted, at, row, db, last>>

Current  == tables[at]
Rows     == Current.rows
Loading  == pc = "insert" /\ at <= Len(tables)

(* resolveExpression slices its argument to five characters first. *)
Sliceable(x) == x.kind = "ref" => <<x.name, x.field>> \notin Short

(* Whether a reference names a row inserted before, and a column of it. *)
Resolvable(e) ==
    \A f \in Field : LET x == Extended(e)[f] IN
        x.kind = "ref" => /\ Sliceable(x)
                          /\ inserted[x.name] # NoRow
                          /\ x.field \in DOMAIN inserted[x.name]
Resolve(x) == CASE x.kind = "value"  -> x.val
                [] x.kind = "ref"    -> inserted[x.name][x.field]
                [] x.kind = "absent" -> Default

Columns(t) == IF t \in HasId THEN Field ELSE Field \ {"id"}
(* The database numbers a row without an id; MySQL one with a NULL id too. *)
Unnumbered(e) ==
    LET x == Extended(e)["id"] IN
    \/ x.kind = "absent"
    \/ dialect = "mysql" /\ x.kind = "value" /\ x.val = Null
Fits(e, t) == t \in HasId \/ Unnumbered(e)
Stored(e, t, id) ==
    [f \in Columns(t) |-> IF f = "id" THEN id ELSE Resolve(Extended(e)[f])]
Ids(t, stored) == {stored[t][i].cols["id"] : i \in DOMAIN stored[t]}

(* The rows of one INSERT statement. *)
NewId(i) ==
    IF Unnumbered(Rows[i])
    THEN last[Current.table] + Cardinality({j \in 1..i : Unnumbered(Rows[j])})
    ELSE Resolve(Extended(Rows[i])["id"])
NewRows ==
    [i \in DOMAIN Rows |->
        [from |-> <<Current.from, i>>,
         cols |-> Stored(Rows[i], Current.table, NewId(i))]]
(* float64 of an integer below twice MaxExact: to the nearest even one, of  *)
(* two as near to the one with the even mantissa.                           *)
Float(v) == IF v <= MaxExact THEN v
            ELSE IF v % 4 = 3 THEN v + 1 ELSE v - (v % 2)

(* What a stored value is when it is read back: PostgreSQL's rows come as   *)
(* JSON, whose numbers become float64; fetchRow turns NULL into text.       *)
ReadBack(v) == IF dialect = "postgres" THEN Float(v)
               ELSE IF v = Null THEN NullText ELSE v
Fetched(cols) == [f \in DOMAIN cols |-> ReadBack(cols[f])]

\* Mutant of Returned: the rows come back in the opposite order.
ReturnedReversed(i) == Fetched(NewRows[Len(Rows) + 1 - i].cols)

(* RETURNING gives the inserted rows back in the order of the values. *)
Returned(i) == Fetched(NewRows[i].cols)

Insertable ==
    /\ \A i \in DOMAIN Rows : BaseDefined(Rows[i])
    /\ \A i \in DOMAIN Rows :
          Resolvable(Rows[i]) /\ Fits(Rows[i], Current.table)
    /\ \E i \in DOMAIN Rows, f \in Field : Extended(Rows[i])[f].kind # "absent"
    /\ Current.table \in HasId =>
          /\ \A i, j \in DOMAIN Rows : i # j => NewId(i) # NewId(j)
          /\ \A i \in DOMAIN Rows :
                NewId(i) > 0 /\ NewId(i) \notin Ids(Current.table, tx)
NamesFree ==
    /\ \A i \in DOMAIN Rows : Rows[i].name # None => refs[Rows[i].name] = NoRow
    /\ \A i, j \in DOMAIN Rows :
          i # j /\ Rows[i].name # None => Rows[i].name # Rows[j].name
RowNamed(n) == CHOOSE i \in DOMAIN Rows : Rows[i].name = n
RowNames    == {Rows[i].name : i \in DOMAIN Rows} \ {None}

SkipEmpty ==
    /\ Loading /\ Rows = <<>>
    /\ at' = at + 1
    /\ UNCHANGED <<gathered, pc, ret, refs, inserted, row, tx, db, last>>

(* The numbers the statement takes from the table's sequence. *)
Taken == IF /\ Current.table \in HasId
            /\ \A i \in DOMAIN Rows : BaseDefined(Rows[i])
         THEN Cardinality({i \in DOMAIN Rows : Unnumbered(Rows[i])}) ELSE 0
Numbered(d) == [last EXCEPT ![Current.table] = @ + d]

(* A failed statement may have used up some of them. *)
InsertTable ==
    /\ dialect = "postgres" /\ Loading /\ Rows # <<>>
    /\ \/ /\ Fail
          /\ \E d \in 0..Taken : last' = Numbered(d)
          /\ UNCHANGED <<refs, inserted, at, tx>>
       \/ /\ Insertable /\ NamesFree
          /\ tx' = [tx EXCEPT ![Current.table] = @ \o NewRows]
          /\ last' = Numbered(Taken)
          /\ refs' = [n \in Name |-> IF n \in RowNames
                          THEN Extended(Rows[RowNamed(n)]) ELSE refs[n]]
          /\ inserted' = [n \in Name |-> IF n \in RowNames
                          THEN Returned(RowNamed(n)) ELSE inserted[n]]
          /\ at' = at + 1
          /\ Goto(pc)
    /\ UNCHANGED <<gathered, row, db>>

MaxOr(S, d) == IF S = {} THEN d ELSE CHOOSE x \in S : \A y \in S : y <= x

\* Mutant of FixedSequences: the sequences stay as they are.
SequencesUnfixed == last

(* SETVAL(seq, COALESCE(MAX(id), 1)) for every sequence of the database. *)
FixedSequences ==
    [t \in Table |-> IF t \in HasId THEN MaxOr(Ids(t, tx), 1) ELSE 0]

fixSequences ==
    /\ dialect = "postgres" /\ pc = "insert" /\ at > Len(tables)
    /\ \/ Fail /\ UNCHANGED last
       \/ Goto("commit") /\ last' = FixedSequences
    /\ UNCHANGED <<gathered, refs, inserted, at, row, tx, db>>

(* When Commit returns an error the transaction may have been committed. *)
Commit ==
    /\ dialect = "postgres" /\ pc = "commit"
    /\ \/ pc' = "returned" /\ ret' = "ok" /\ db' = tx
       \/ Fail /\ db' \in {db, tx}
    /\ UNCHANGED <<gathered, refs, inserted, at, row, tx, last>>

-----------------------------------------------------------------------------
(* MySQL: TRUNCATE commits implicitly and ends the transaction, so that     *)
(* every statement after it is committed by itself.                         *)

TruncateTable ==
    /\ dialect = "mysql" /\ pc = "truncate" /\ at <= Len(tables)
    /\ LET t == Current.table
           done == \E k \in 1..(at - 1) : tables[k].table = t IN
       \/ ~done /\ Fail /\ UNCHANGED <<at, db, last>>
       \/ done /\ Goto(pc) /\ at' = at + 1 /\ UNCHANGED <<db, last>>
       \/ /\ ~done /\ Dependents[t] = {}
          /\ db' = [db EXCEPT ![t] = <<>>]
          /\ last' = [last EXCEPT ![t] = 0]
          /\ at' = at + 1
          /\ Goto(pc)
    /\ UNCHANGED <<gathered, refs, inserted, row, tx>>

Truncated ==
    /\ dialect = "mysql" /\ pc = "truncate" /\ at > Len(tables)
    /\ Goto("insert") /\ at' = 1
    /\ UNCHANGED <<gathered, refs, inserted, row, tx, db, last>>

NextRow == IF row < Len(Rows) THEN row' = row + 1 /\ at' = at
           ELSE row' = 1 /\ at' = at + 1

(* The bases of all rows are looked up before the first one is inserted.    *)
(* The row of a table without a column id is not read back, and its name is *)
(* forgotten.  A row whose name is taken has been inserted already.         *)
loadRow ==
    /\ dialect = "mysql" /\ Loading /\ Rows # <<>>
    /\ LET e == Rows[row]
           t == Current.table
           id == IF t \notin HasId THEN NoId
                 ELSE IF Unnumbered(e) THEN last[t] + 1
                 ELSE Resolve(Extended(e)["id"])
           cols == Stored(e, t, id)
           read == t \in HasId /\ e.name # None IN
       \/ Fail /\ UNCHANGED <<refs, inserted, at, row, db, last>>
       \/ /\ row = 1 => \A i \in DOMAIN Rows : BaseDefined(Rows[i])
          /\ Resolvable(e) /\ Fits(e, t)
          /\ t \in HasId => id > 0 /\ id \notin Ids(t, db)
          /\ db' = [db EXCEPT ![t] =
                       Append(@, [from |-> <<Current.from, row>>, cols |-> cols])]
          /\ last' = [last EXCEPT ![t] = IF id > @ THEN id ELSE @]
          /\ \/ Fail /\ UNCHANGED <<refs, inserted, at, row>>
             \/ /\ read => refs[e.name] = NoRow
                /\ refs' = IF read THEN [refs EXCEPT ![e.name] = Extended(e)]
                           ELSE refs
                /\ inserted' = IF read
                               THEN [inserted EXCEPT ![e.name] = Fetched(cols)]
                               ELSE inserted
                /\ NextRow
                /\ Goto(pc)
    /\ UNCHANGED <<gathered, tx>>

(* A reference that is too short panics in buildInsertQuery, once the bases *)
(* are looked up: the deferred Rollback runs and the process ends.          *)
SlicePanics ==
    /\ Loading /\ Rows # <<>>
    /\ \E i \in IF dialect = "postgres" THEN DOMAIN Rows ELSE {row} :
          /\ \A j \in DOMAIN Rows : BaseDefined(Rows[j])
          /\ \E f \in Field : ~Sliceable(Extended(Rows[i])[f])
    /\ pc' = "returned" /\ ret' = "panic"
    /\ UNCHANGED <<gathered, refs, inserted, at, row, tx, db, last>>

CommitMysql ==
    /\ dialect = "mysql" /\ pc = "insert" /\ at > Len(tables)
    /\ \/ Fail
       \/ pc' = "returned" /\ ret' = "ok"
    /\ UNCHANGED <<gathered, refs, inserted, at, row, tx, db, last>>

-----------------------------------------------------------------------------
(* The call's context ends with it.  The test runs; the application inserts *)
(* a row the database numbers, which fails when the number is in use.       *)

Return ==
    /\ pc = "returned" /\ ret # "panic" /\ Goto("idle")
    /\ queue' = <<>> /\ stack' = <<>> /\ files' = {} /\ tables' = <<>>
    /\ refs' = NoRefs /\ inserted' = NoRefs
    /\ at' = 1 /\ row' = 1
    /\ tx' = EmptyDb /\ due' = {} /\ before' = EmptyDb
    /\ UNCHANGED <<dialect, loads, db, last, app>>

AppInsert(t) ==
    /\ pc = "idle" /\ app < MaxAppRows
    /\ app' = app + 1
    /\ last' = [last EXCEPT ![t] = @ + 1]
    /\ db' = IF last[t] + 1 \in Ids(t, db) THEN db
             ELSE [db EXCEPT ![t] = Append(@,
                     [from |-> <<<<None, 0>>, app'>>,
                      cols |-> [f \in Field |-> IF f = "id" THEN last[t] + 1
                                                ELSE Default]])]
    /\ UNCHANGED <<dialect, loads, pc, ret, queue, stack, ctx, at, row, tx,
                   due, before>>

Step ==
    \/ LoadName \/ LoadInherited \/ LoadTemplate \/ AddTables \/ Begin
    \/ TruncateTables \/ SkipEmpty \/ InsertTable \/ fixSequences \/ Commit
    \/ TruncateTable \/ Truncated \/ loadRow \/ CommitMysql \/ Return
    \/ SlicePanics

Next ==
    \/ Step
    \/ \E names \in Requests : Load(names)
    \/ \E t \in HasId : AppInsert(t)

Spec == Init /\ [][Next]_vars
FairSpec == Spec /\ WF_vars(Step)

-----------------------------------------------------------------------------
(* Properties. *)

Sections == UNION {{<<f, k>> : k \in DOMAIN Content[f].tables} : f \in due}
Section(p) == Content[p[1]].tables[p[2]]
Sources(t) ==
    UNION {{<<p, i>> : i \in DOMAIN Section(p).rows} :
              p \in {q \in Sections : Section(q).table = t}}
EntryOf(r) == Section(r.from[1]).rows[r.from[2]]
Filled == {Section(p).table : p \in Sections}

(* The stored row a reference to the name n reads. *)
Readable == IF dialect = "postgres" THEN Filled ELSE Filled \intersect HasId
RowOf(n) ==
    CHOOSE r \in UNION {{db[t][i] : i \in DOMAIN db[t]} : t \in Readable} :
        EntryOf(r).name = n

(* The column holds what the fixture says: its value, or the value of the  *)
(* column it refers to.  A reference to a value that does not survive being *)
(* read back gets another one, and nothing is said of it.                  *)
Holds(r, f) ==
    LET x == Extended(EntryOf(r))[f] IN
    \/ x.kind = "absent" /\ r.cols[f] = Default
    \/ x.kind = "value" /\ r.cols[f] = x.val
    \/ f = "id" /\ Unnumbered(EntryOf(r))
    \/ /\ x.kind = "ref"
       /\ LET v == RowOf(x.name).cols[x.field] IN
          ReadBack(v) = v => r.cols[f] = v

Complete ==
    \A t \in Filled :
        /\ {db[t][i].from : i \in DOMAIN db[t]} = Sources(t)
        /\ Len(db[t]) = Cardinality(Sources(t))
        /\ \A i \in DOMAIN db[t], f \in Columns(t) : Holds(db[t][i], f)

Declared(n) ==
    {e \in (UNION {{Content[f].templates[k] : k \in DOMAIN Content[f].templates}
                      : f \in due})
            \union (UNION {{Section(p).rows[i] : i \in DOMAIN Section(p).rows}
                      : p \in Sections}) : e.name = n}

(* Each name defined stands for what its own entry declares laid over what *)
(* its base stands for, whatever extended it since.                        *)
BaseUnspoiled ==
    \A n \in Name : refs[n] # NoRow =>
        \E e \in Declared(n) : BaseDefined(e) /\ \A f \in Field :
            refs[n][f] = IF e.fields[f].kind # "absent" \/ e.extend = None
                         THEN e.fields[f] ELSE refs[e.extend][f]

(* After a successful Load each table of the reached files holds each row  *)
(* of each of these files once and nothing else, however the files inherit *)
(* one another, and every column holds what the fixture says; names shared *)
(* by several rows were not changed by the rows that extend them.          *)
LoadedExactly ==
    /\ pc = "returned" /\ ret = "ok" => Complete
    /\ pc = "returned" => BaseUnspoiled

(* A PostgreSQL Load that fails or panics leaves the database as it was,   *)
(* or, when only the answer to Commit was lost, completely loaded.         *)
(* (MySQL's TRUNCATE commits, so that its loader cannot promise this.)     *)
AllOrNothing ==
    pc = "returned" /\ ret \in {"error", "panic"} /\ dialect = "postgres" =>
        db = before \/ Complete

(* A failed or successful Load leaves the tables alone that no reached file *)
(* names and that no chain of foreign keys leads from to one it names, in   *)
(* both databases.                                                          *)
OthersUntouched ==
    pc = "returned" =>
        \A t \in Table \ Reaching(Filled) : db[t] = before[t]

(* After a successful Load, and while the application adds rows, the next  *)
(* number of every id sequence is greater than all ids in use, so that an  *)
(* insert of the tested application cannot collide with a fixture.         *)
FreshIds ==
    pc \in {"returned", "idle"} /\ ret = "ok" =>
        \A t \in HasId : \A id \in Ids(t, db) : id <= last[t]

(* Every Load returns or panics, cyclic inherits included. *)
LoadReturns == pc = "gather" ~> pc = "returned"
=============================================================================
