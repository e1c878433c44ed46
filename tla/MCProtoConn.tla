----------------------------- MODULE MCProtoConn -----------------------------
(* ProtoConn on small instances.                                           *)
EXTENDS ProtoConn

CONSTANTS t1, t2, t3, b1, b2
=============================================================================
