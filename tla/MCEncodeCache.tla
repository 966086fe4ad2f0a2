----------------------------- MODULE MCEncodeCache -----------------------------
(* A small instance of EncodeCache: two encodings that do not fit together. *)
EXTENDS EncodeCache

MCWeight == [k \in Keys |-> 2]
================================================================================
