---------------------------- MODULE MCSingleFlight ----------------------------
(* A small instance of SingleFlight: three threads over two keys. *)
EXTENDS SingleFlight
================================================================================
