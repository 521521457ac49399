--------------------------- MODULE MCGrpcTransport ---------------------------
(* Three executions of tests with reflection or one protoset file.          *)
EXTENDS GrpcTransport
=============================================================================
