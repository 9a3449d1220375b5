------------------------------- MODULE MCKv -------------------------------
(* Small instances of the key-value store: two keys, nodes of two and three  *)
(* words, two or three blocks.                                             *)
EXTENDS KvProperties, TLC

CONSTANTS k1, k2, v1, v2

MCSize      == v1 :> 2 @@ v2 :> 3
MCNoFactory == {}
=============================================================================
