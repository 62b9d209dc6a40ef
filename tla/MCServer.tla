------------------------------ MODULE MCServer ------------------------------
(* Server on a small instance: two servers that want the same endpoint,    *)
(* one with its own, one without a repository, and more connections than   *)
(* descriptors.                                                            *)
EXTENDS Server

CONSTANTS json, bson, cbor, noRepo, c1, c2, c3

MCServers     == {json, bson, cbor, noRepo}
MCUnusable    == {noRepo}
MCEndpoint    == [s \in MCServers |-> IF s \in {json, cbor} THEN 5555 ELSE 5556]
MCConnections == {c1, c2, c3}
=============================================================================
