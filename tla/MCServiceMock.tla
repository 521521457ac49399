--------------------------- MODULE MCServiceMock ---------------------------
(* Two services, two tests.  `cart` defaults to a sequence (a custom        *)
(* ServiceMock: Go code can give a default definition neither constraints   *)
(* nor most strategies), `pay` to the fail strategy of NewNop.  The first   *)
(* test gives pay a definition the loader rejects and names a service that  *)
(* is not registered, so it may fail with or without new definitions.       *)
EXTENDS ServiceMock, TLC

MCService == {"cart", "pay"}
MCRequest == {"get", "post"}

Leaf1(kind, root, violates, c) ==
    [kind |-> kind, kids |-> <<>>, picks |-> {"get"}, violates |-> violates,
     unrenderable |-> {"post"}, calls |-> c, root |-> root]

Inner(kind, root, kids, violates, c) ==
    [Leaf1(kind, root, violates, c) EXCEPT !.kids = kids]

MCTree ==
    [c0 |-> Inner("sequence", "c0", <<"c01", "c02">>, {}, 2),
     c01 |-> Leaf1("constant", "c0", {}, 1),
     c02 |-> Leaf1("nil", "c0", {}, -1),
     p0 |-> Leaf1("fail", "p0", {}, -1),
     c1 |-> Leaf1("template", "c1", {"get"}, 0),
     p1 |-> Inner("sequence", "p1", <<"p11", "p12">>, {}, -1),
     p11 |-> Inner("basedOnRequest", "p1", <<"p111", "p112">>, {}, -1),
     p111 |-> Leaf1("nop", "p1", {"post"}, 1),
     p112 |-> Leaf1("constant", "p1", {"get", "post"}, -1),
     p12 |-> Inner("uriVary", "p1", <<"p121", "p122">>, {"post"}, -1),
     p121 |-> Leaf1("dropRequest", "p1", {}, 1),
     p122 |-> Leaf1("template", "p1", {}, -1),
     p2 |-> Leaf1("constant", "p2", {}, -1)]

MCDef     == DOMAIN MCTree
MCDefault == [cart |-> "c0", pay |-> "p0"]
MCMocks   == <<[cart |-> "c1", pay |-> "p2", ghost |-> "p2"], [pay |-> "p1"]>>
=============================================================================
