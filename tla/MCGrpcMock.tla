----------------------------- MODULE MCGrpcMock -----------------------------
(* Two mocks, two methods and four tests.  The second has an expected       *)
(* request that cannot be converted, the third names an unregistered mock.  *)
EXTENDS GrpcMock, TLC

MCRaw(k, expected, status) ==
    [isMap |-> TRUE, method |-> k, known |-> TRUE, body |-> "json",
     expected |-> expected, status |-> status]

MCGrpcMocks ==
    <<[users |-> MCRaw("/U/Get", "p1", OK)],
      [users |-> MCRaw("/U/Put", None, 5), pay |-> MCRaw("/U/Get", Bad, OK)],
      [ghost |-> MCRaw("/U/Get", None, OK)],
      [users |-> MCRaw("/U/Get", "p2", 5)]>>
=============================================================================
