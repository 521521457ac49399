---------------------------- MODULE RedisFixtures ----------------------------
(***************************************************************************)
(* The Redis fixture loader: Load parses the named files, and before each  *)
(* the files it inherits, resolves $extend against the records seen so     *)
(* far, then fills the databases of the named files, one pipeline after    *)
(* the other.                                                              *)
(*                                                                         *)
(* A record has a kind, a Redis key, a $name, an $extend (NoName: none),   *)
(* values and an expiration.  Its values are pairs: key and value, field   *)
(* and value, member and score, or, in a set and a list, 0 and a member.   *)
(* The plain keys of a database are one record, with key NoKey; their      *)
(* expirations are part of their values.  Templates are listed in the      *)
(* order buildTemplate takes them, kind after kind.                        *)
(***************************************************************************)
EXTENDS Integers, Sequences, FiniteSets, TLC, SequencesExt

CONSTANTS
    Worlds,    \* contents of the fixture directory, functions from names to files
    Requests,  \* lists of names Load is called with
    Database,  \* numbers of databases
    MaxDepth   \* bound: nested calls of ParseFiles that the stack has room for

NoName == ""
NoKey  == ""
Kinds  == <<"keys", "hashes", "sets", "lists", "zsets">>
Old    == "old" :> [kind |-> "keys", val |-> 0, exp |-> 0]  \* what is in a database before Load

VARIABLES
    world, names,  \* the arguments of Load
    pc,            \* "parse", "load", "nil", "error" or "overflow"
    stack,         \* the calls of ParseFiles and Parse in progress, the last one on top
    refs,          \* the Context: for each kind, the records by name
    fixtures,      \* loadData: the fixtures still to load, the first one in part
    truncated,     \* truncatedDatabases
    redis,         \* the databases: functions from Redis keys to entries
    refused        \* history: Redis or the connection failed

vars == <<world, names, pc, stack, refs, fixtures, truncated, redis, refused>>

(***************************************************************************)
(* A frame: the names left, the files parsed (fileNameCache) and their     *)
(* fixtures; then the file that Parse works on (NoName: none), what is     *)
(* left of it (inherited files, templates, databases, and the records of   *)
(* database db, 0: none) and the records built, by database.               *)
(***************************************************************************)
Frame(ns) == [names |-> ns, cache |-> {}, out |-> <<>>, file |-> NoName,
              inherits |-> <<>>, templates |-> <<>>, dbs |-> {}, db |-> 0, left |-> {},
              built |-> <<>>]
Top       == stack[Len(stack)]
SetTop(f) == stack' = [stack EXCEPT ![Len(stack)] = f]

Init ==
    /\ world \in Worlds /\ names \in Requests
    /\ pc = "parse" /\ stack = <<Frame(names)>>
    /\ refs = [k \in ToSet(Kinds) |-> <<>>]
    /\ fixtures = <<>> /\ truncated = {} /\ redis = [d \in Database |-> Old]
    /\ refused = FALSE

-----------------------------------------------------------------------------
(* Parsing                                                                 *)

Fail ==
    pc' = "error" /\ UNCHANGED <<world, names, stack, refs, fixtures, truncated, redis, refused>>

Parse(f) ==
    SetTop(f) /\ UNCHANGED <<world, names, pc, fixtures, truncated, redis, refused>>

Start(name) ==
    Parse([Top EXCEPT !.file = name, !.names = Tail(@),
                      !.inherits = world[name].inherits, !.templates = world[name].templates,
                      !.dbs = DOMAIN world[name].databases,
                      !.built = [d \in DOMAIN world[name].databases |-> {}]])

\* Mutant of ParseFile: the cache of file names is not looked at.
ParseFileAlways ==
    LET name == Head(Top.names) IN
    /\ pc = "parse" /\ Top.file = NoName /\ Top.names # <<>>
    /\ IF name \notin DOMAIN world THEN Fail ELSE Start(name) /\ UNCHANGED refs

\* ParseFiles and Parse: a file is read unless this call has parsed it already.
ParseFile ==
    LET name == Head(Top.names) IN
    /\ pc = "parse" /\ Top.file = NoName /\ Top.names # <<>>
    /\ CASE name \notin DOMAIN world -> Fail
         [] name \in Top.cache -> Parse([Top EXCEPT !.names = Tail(@)]) /\ UNCHANGED refs
         [] OTHER -> Start(name) /\ UNCHANGED refs

\* Parse: ParseFiles for the next inherited file, with a cache of its own.  A file that
\* inherits itself exhausts the stack, which ends the process.
ParseInherited ==
    /\ pc = "parse" /\ Top.inherits # <<>>
    /\ IF Len(stack) = MaxDepth THEN pc' = "overflow" /\ stack' = stack
       ELSE /\ stack' = [stack EXCEPT ![Len(stack)].inherits = Tail(@)]
                        \o <<Frame(<<Head(Top.inherits)>>)>>
            /\ pc' = pc
    /\ UNCHANGED <<world, names, refs, fixtures, truncated, redis, refused>>

\* The fixtures of an inherited file are dropped; its records stay in the context.
ParsedInherited ==
    /\ pc = "parse" /\ Len(stack) > 1 /\ Top.file = NoName /\ Top.names = <<>>
    /\ stack' = Front(stack)
    /\ UNCHANGED <<world, names, pc, refs, fixtures, truncated, redis, refused>>

\* extendKeys, extendHash: what the child has replaces the parent's value of that key.
\* extendSet, extendList, extendZSet: the values of both (sets and sorted sets compare
\* pointers, so that nothing is the same).  The expiration is the parent's.
Extended(parent, child) ==
    LET Has(r, v) == \E i \in DOMAIN r.vals : r.vals[i][1] = v[1]
        kept == IF child.kind \in {"keys", "hashes"}
                THEN SelectSeq(parent.vals, LAMBDA v : ~Has(child, v)) ELSE parent.vals
    IN  [child EXCEPT !.vals = kept \o @, !.exp = parent.exp]

Resolvable(r) == r.extend # NoName => r.extend \in DOMAIN refs[r.kind]
Resolved(r)   == IF r.extend = NoName THEN r ELSE Extended(refs[r.kind][r.extend], r)
Remember(r)   ==
    refs' = IF r.name = NoName THEN refs
            ELSE [refs EXCEPT ![r.kind] = (r.name :> Resolved(r)) @@ @]

\* buildTemplate: the next template; its name must be new among those of its kind.
BuildTemplate ==
    LET t == Head(Top.templates) IN
    /\ pc = "parse" /\ Top.inherits = <<>> /\ Top.templates # <<>>
    /\ IF t.name = NoName \/ t.name \in DOMAIN refs[t.kind] \/ ~Resolvable(t) THEN Fail
       ELSE Remember(t) /\ Parse([Top EXCEPT !.templates = Tail(@)])

\* Parse: the databases in any order, the order of a Go map.
NextDatabase(d) ==
    /\ pc = "parse" /\ Top.inherits = <<>> /\ Top.templates = <<>> /\ Top.left = {}
    /\ d \in Top.dbs
    /\ Parse([Top EXCEPT !.dbs = @ \ {d}, !.db = d,
                         !.left = world[Top.file].databases[d]])
    /\ UNCHANGED refs

\* buildKeys, buildMaps, buildSets, buildLists, buildZSets: kind after kind, the records
\* of a kind in any order.
BuildRecord(r) ==
    LET rank(x) == CHOOSE i \in DOMAIN Kinds : Kinds[i] = x.kind IN
    /\ pc = "parse" /\ r \in Top.left /\ \A x \in Top.left : rank(r) <= rank(x)
    /\ IF ~Resolvable(r) THEN Fail
       ELSE /\ Remember(r)
            /\ Parse([Top EXCEPT !.left = @ \ {r}, !.built[Top.db] = @ \cup {Resolved(r)}])

FileParsed ==
    /\ pc = "parse" /\ Top.file # NoName
    /\ Top.inherits = <<>> /\ Top.templates = <<>> /\ Top.dbs = {} /\ Top.left = {}
    /\ Parse([Top EXCEPT !.file = NoName, !.cache = @ \cup {Top.file}, !.db = 0,
                         !.out = Append(@, Top.built), !.built = <<>>])
    /\ UNCHANGED refs

ParsedAll ==
    /\ pc = "parse" /\ Len(stack) = 1 /\ Top.file = NoName /\ Top.names = <<>>
    /\ pc' = "load" /\ fixtures' = Top.out
    /\ UNCHANGED <<world, names, stack, refs, truncated, redis, refused>>

-----------------------------------------------------------------------------
(* Loading                                                                 *)

Empty == [kind |-> "", val |-> <<>>, exp |-> 0]

\* The entry that the commands for a record leave at key k: SET; HSET and ZADD, one
\* value per field or member; SADD; RPUSH; and EXPIRE when there is an expiration.
Written(old, r, k) ==
    LET Put(f, v) == (v[1] :> v[2]) @@ f
        members   == [i \in DOMAIN r.vals |-> r.vals[i][2]]
        before    == IF old = Empty /\ r.kind = "sets" THEN {} ELSE old.val
    IN  [kind |-> r.kind,
         val  |-> CASE r.kind = "keys" -> FoldLeft(Put, <<>>, r.vals)[k]
                    [] r.kind \in {"hashes", "zsets"} -> FoldLeft(Put, before, r.vals)
                    [] r.kind = "sets" -> before \cup ToSet(members)
                    [] r.kind = "lists" -> before \o members,
         exp  |-> IF r.kind = "keys" \/ r.exp > 0 THEN r.exp ELSE old.exp]

KeysOf(r) == IF r.kind = "keys" THEN {r.vals[i][1] : i \in DOMAIN r.vals} ELSE {r.key}

\* Redis refuses a command without values, and one for a key of another kind.
Refused(db, r) ==
    /\ r.kind # "keys"
    /\ r.vals = <<>> \/ (r.key \in DOMAIN db /\ db[r.key].kind # r.kind)

\* The database after the commands for a set of records, those that are refused having
\* no effect; a key belongs to one of the records.
After(db, recs) ==
    LET done   == {r \in recs : ~Refused(db, r)}
        Of(k)  == CHOOSE r \in done : k \in KeysOf(r)
        old(k) == IF k \in DOMAIN db THEN db[k] ELSE Empty
    IN  [k \in UNION {KeysOf(r) : r \in done} |-> Written(old(k), Of(k), k)] @@ db

\* Mutant of Truncated: every pipeline starts with FLUSHDB.
TruncatedAlways(d) == <<>>

\* FLUSHDB is sent once for each database of a call of Load.
Truncated(d) == IF d \in truncated THEN redis[d] ELSE <<>>

\* loadRedisDatabase: a pipeline.  When Redis refuses a command the others are still
\* carried out.  SELECT is not refused: the numbers in Database are in the server's range.
LoadRedisDatabase(d) ==
    LET recs == fixtures[1][d] IN
    /\ pc = "load" /\ fixtures # <<>> /\ d \in DOMAIN fixtures[1]
    /\ truncated' = truncated \cup {d}
    /\ redis' = [redis EXCEPT ![d] = After(Truncated(d), recs)]
    /\ fixtures' = [fixtures EXCEPT ![1] = [e \in DOMAIN @ \ {d} |-> @[e]]]
    /\ IF \E r \in recs : Refused(Truncated(d), r)
       THEN pc' = "error" /\ refused' = TRUE ELSE UNCHANGED <<pc, refused>>
    /\ UNCHANGED <<world, names, stack, refs>>

\* The connection breaks: none or some of the commands have been carried out.  The
\* client's own retries (max_retries) are off: it does not send the pipeline again.
LoadRedisDatabaseFails(d) ==
    /\ pc = "load" /\ fixtures # <<>> /\ d \in DOMAIN fixtures[1]
    /\ pc' = "error" /\ refused' = TRUE
    /\ \/ redis' = redis
       \/ \E some \in SUBSET fixtures[1][d] :
             redis' = [redis EXCEPT ![d] = After(Truncated(d), some)]
    /\ UNCHANGED <<world, names, stack, refs, fixtures, truncated>>

NextFixture ==
    /\ pc = "load" /\ fixtures # <<>> /\ DOMAIN fixtures[1] = {}
    /\ fixtures' = Tail(fixtures)
    /\ UNCHANGED <<world, names, pc, stack, refs, truncated, redis, refused>>

Loaded ==
    /\ pc = "load" /\ fixtures = <<>>
    /\ pc' = "nil"
    /\ UNCHANGED <<world, names, stack, refs, fixtures, truncated, redis, refused>>

Next ==
    \/ ParseFile \/ ParseInherited \/ ParsedInherited \/ BuildTemplate
    \/ \E d \in Database : NextDatabase(d) \/ LoadRedisDatabase(d) \/ LoadRedisDatabaseFails(d)
    \/ \E r \in Top.left : BuildRecord(r)
    \/ FileParsed \/ ParsedAll \/ NextFixture \/ Loaded
    \/ pc \in {"nil", "error", "overflow"} /\ UNCHANGED vars

Spec == Init /\ [][Next]_vars
-----------------------------------------------------------------------------
(* Properties                                                              *)

\* What the files mean, whatever the order of maps and of parsing: names are unique,
\* and a record is the values of its base followed by its own, later ones winning.
Definitions(w) ==
    UNION {ToSet(w[f].templates) \cup UNION {w[f].databases[d] : d \in DOMAIN w[f].databases} :
           f \in DOMAIN w}

RECURSIVE Meaning(_, _)
Meaning(w, r) ==
    IF r.extend = NoName THEN r
    ELSE LET b == Meaning(w, CHOOSE x \in Definitions(w) : x.kind = r.kind /\ x.name = r.extend)
         IN  [r EXCEPT !.vals = b.vals \o @, !.exp = b.exp]

\* The named files, each once, that give records for a database.
Sources(d) ==
    LET first == SelectSeq([i \in DOMAIN names |-> i],
                           LAMBDA i : \A j \in 1..(i - 1) : names[j] # names[i])
    IN  SelectSeq([i \in DOMAIN first |-> names[first[i]]],
                  LAMBDA f : d \in DOMAIN world[f].databases)

\* After a successful Load every database of a named file holds what these files say,
\* one after the other, and nothing else; other databases, those of files that are only
\* inherited among them, are as before (Load, loadData).
RedisLoadedExactly ==
    pc = "nil" => \A d \in Database :
        redis[d] = IF Sources(d) = <<>> THEN Old
                   ELSE FoldLeft(LAMBDA db, f : After(db, {Meaning(world, r) : r \in world[f].databases[d]}),
                                 <<>>, Sources(d))

\* The files in the order their parsing ends, a file as often as it is parsed.
RECURSIVE ParseOrder(_, _)
ParseOrder(w, f) ==
    FlattenSeq([i \in DOMAIN w[f].inherits |-> ParseOrder(w, w[f].inherits[i])]) \o <<f>>

Inherited(w, fs) == fs \cup UNION {ToSet(w[f].inherits) : f \in fs \cap DOMAIN w}
Reachable == Inherited(world, Inherited(world, Inherited(world, ToSet(names))))
Cyclic    ==
    LET next(fs) == UNION {ToSet(world[f].inherits) : f \in fs \cap DOMAIN world}
    IN  next(next(next(next(ToSet(names))))) # {}

\* Every base is a template above, or a template or record of a file parsed before.
BasesKnown(order) ==
    \A i \in DOMAIN order :
        LET f == order[i]
            above == UNION {ToSet(world[order[j]].templates)
                            \cup UNION {world[order[j]].databases[d] : d \in DOMAIN world[order[j]].databases} :
                            j \in 1..(i - 1)}
            Known(r, bases) == r.extend = NoName \/ \E b \in bases : b.kind = r.kind /\ b.name = r.extend
            ts == world[f].templates
        IN  /\ \A k \in DOMAIN ts : Known(ts[k], above \cup {ts[j] : j \in 1..(k - 1)})
            /\ \A d \in DOMAIN world[f].databases : \A r \in world[f].databases[d] :
                    Known(r, above \cup ToSet(ts))

\* Load fails only for a reason: a file is missing, inherits itself, or has templates
\* and is inherited twice; a base is not known before the record that extends it; or
\* Redis failed.  The order of maps decides only about a record over one of its own
\* file (Parse, ParseFiles).
RefusedForCause ==
    LET order == FlattenSeq([i \in DOMAIN names |->
                    IF \E j \in 1..(i - 1) : names[j] = names[i] THEN <<>>
                    ELSE ParseOrder(world, names[i])])
    IN  pc \in {"error", "overflow"} /\ ~refused =>
            \/ ~(Reachable \subseteq DOMAIN world)
            \/ Cyclic
            \/ \E i, j \in DOMAIN order : i # j /\ order[i] = order[j]
                                          /\ world[order[i]].templates # <<>>
            \/ ~BasesKnown(order)
=============================================================================
