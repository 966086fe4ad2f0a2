---------------------------- MODULE MCCorpusBuild ----------------------------
(* A small instance of CorpusBuild: three items, two of them images under one bare name. *)
EXTENDS CorpusBuild

CONSTANTS i1, i2, i3, x, y

MCItems == {i1, i2, i3}
MCBundles == {x, y}
MCBundle == [i \in MCItems |-> IF i = i3 THEN y ELSE x]
================================================================================
