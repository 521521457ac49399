-------------------------- MODULE MCSqlFixtures --------------------------
(* shop and users inherit each other, and only from shop on are the        *)
(* templates defined in time; shop extends and refers to rows of users;    *)
(* again reuses a name; wide mixes given and generated ids; bare has only  *)
(* a template; log fills a table a chain of foreign keys leads to; tiny    *)
(* has a reference of four characters; lost is missing.                    *)
EXTENDS SqlFixtures, TLC

MCFile  == {"shop", "users", "again", "wide", "bare", "log", "tiny",
            "lost"}
MCTable == {"user", "order", "tag", "trail", "audit"}
MCName  == {"tpl", "sub", "ann", "bob", "a"}
MCField == {"id", "v"}

Gone == [kind |-> "absent", val |-> 0, name |-> "none", field |-> "id"]
V(n) == [kind |-> "value", val |-> n, name |-> "none", field |-> "id"]
R(n, f) == [kind |-> "ref", val |-> 0, name |-> n, field |-> f]
E(n, x, id, v) ==
    [name |-> n, extend |-> x, fields |-> ("id" :> id @@ "v" :> v)]
T(t, rows) == [table |-> t, rows |-> rows]
F(i, e, t) == [inherits |-> i, templates |-> e, tables |-> t]

MCContent ==
    "shop" :> F(<<"users", "users">>,
                <<E("sub", "tpl", Gone, V(2))>>,
                <<T("order", <<E("none", "sub", Gone, Gone),
                               E("none", "ann", V(9), R("ann", "id"))>>),
                  T("tag", <<>>),
                  T("user", <<E("none", "bob", V(7), Gone)>>)>>) @@
    "users" :> F(<<"shop">>,
                 <<E("tpl", "none", Gone, V(1))>>,
                 <<T("user", <<E("ann", "none", Gone, V(Null)),
                               E("bob", "tpl", Gone, Gone)>>)>>) @@
    "again" :> F(<<"shop">>, <<>>,
                 <<T("tag", <<E("ann", "none", Gone, R("ann", "v"))>>)>>) @@
    "wide" :> F(<<>>, <<>>,
                <<T("user", <<E("ann", "none", V(2), V(4)),
                              E("sub", "none", Gone, V(17))>>),
                  T("tag", <<E("bob", "none", Gone, V(6))>>),
                  T("order", <<E("none", "none", R("ann", "v"), V(3)),
                               E("none", "none", Gone, R("sub", "v"))>>)>>) @@
    "tiny" :> F(<<>>, <<>>,
                <<T("user", <<E("a", "none", Gone, V(1))>>),
                  T("order", <<E("none", "none", Gone, R("a", "id")),
                               E("none", "none", Gone, R("a", "v"))>>)>>) @@
    "bare" :> F(<<>>, <<E("sub", "tpl", Gone, Gone)>>, <<>>) @@
    "log" :> F(<<>>, <<>>, <<T("audit", <<E("none", "none", Gone, V(8)),
                                          E("none", "none", Gone, Gone)>>)>>)

MCRequests == {<<"users">>, <<"shop", "users">>, <<"again">>, <<"wide">>,
               <<"shop", "bare">>, <<"bare">>, <<"users", "lost">>,
               <<"wide", "users">>, <<"log">>, <<"tiny">>, <<>>}
MCDependents == [t \in MCTable |-> IF t = "audit" THEN {"trail"}
                                  ELSE IF t = "trail" THEN {"tag"} ELSE {}]
MCShort == {<<"a", "v">>}
=============================================================================
