--------------------------- MODULE MCRedisFixtures ---------------------------
(* Four files in several directories: shared templates, chains of bases over  *)
(* files, records extending records of their own file, a missing file, a      *)
(* cycle and a clash of kinds; lists of up to three names with repetitions.   *)
EXTENDS RedisFixtures

Rec(kind, key, name, extend, vals, exp) ==
    [kind |-> kind, key |-> key, name |-> name, extend |-> extend, vals |-> vals, exp |-> exp]
File(inherits, templates, databases) ==
    [inherits |-> inherits, templates |-> templates, databases |-> databases]

Templates ==
    <<Rec("keys", NoKey, "k0", NoName, <<<<"x", 1>>, <<"y", 1>>>>, 0),
      Rec("keys", NoKey, "k1", "k0", <<<<"y", 2>>>>, 0),
      Rec("hashes", NoKey, "h0", NoName, <<<<1, 1>>, <<2, 1>>>>, 0),
      Rec("lists", NoKey, "l0", NoName, <<<<0, 1>>>>, 5)>>
Tpl == File(<<>>, Templates, <<>>)

\* a: records over templates of the inherited file, in two databases.
A(inherits) ==
    File(inherits, <<>>,
         1 :> {Rec("keys", NoKey, "ka", "k1", <<<<"z", 3>>>>, 0),
               Rec("lists", "l", "la", "l0", <<<<0, 2>>>>, 0),
               Rec("hashes", "h", NoName, "h0", <<<<2, 7>>, <<3, 7>>>>, 4)}
         @@ 2 :> {Rec("zsets", "q", "qa", NoName, <<<<1, 1>>, <<2, 2>>>>, 0)})

\* b: records over those of a, and more values for the same keys.
B(inherits) ==
    File(inherits, <<Rec("sets", NoKey, "s0", NoName, <<<<0, 1>>>>, 3)>>,
         1 :> {Rec("lists", "l", NoName, "la", <<>>, 0), Rec("sets", "s", NoName, "s0", <<<<0, 2>>>>, 0),
               Rec("keys", NoKey, NoName, "ka", <<<<"x", 9>>>>, 0)})

\* c: a record over one of its own file, and, in the second form, one without values.
C(vals) ==
    File(<<>>, <<>>,
         1 :> {Rec("sets", "s", "sc", NoName, vals, 0), Rec("sets", "t", NoName, "sc", <<<<0, 4>>>>, 0)}
         @@ 3 :> {Rec("zsets", "q", NoName, NoName, <<<<1, 1>>, <<1, 2>>>>, 6)})

\* d: a hash at the key of a list of a.
D == File(<<>>, <<>>, 1 :> {Rec("hashes", "l", NoName, NoName, <<<<1, 1>>>>, 0)})

World(a, b, c) == "tpl" :> Tpl @@ "a" :> a @@ "b" :> b @@ "c" :> c
MCWorlds ==
    {World(A(<<"tpl">>), B(<<"a">>), C(<<<<0, 3>>>>)),
     World(A(<<"tpl">>), B(<<>>), C(<<>>)),
     World(A(<<"none">>), B(<<"a">>), C(<<<<0, 3>>>>)),
     World(A(<<"tpl", "b">>), B(<<"a">>), C(<<<<0, 3>>>>)),
     World(A(<<"b">>), B(<<"a">>), C(<<<<0, 3>>>>)),
     World(A(<<>>), B(<<"c">>), C(<<<<0, 3>>>>)),
     World(A(<<"tpl">>), B(<<>>), D)}
MCRequests == BoundedSeq({"tpl", "a", "b", "c"}, 3) \ {<<>>}
=============================================================================
