------------------------------ MODULE MCJitBuild ------------------------------
(* Small instances of JitBuild: every caller asks for the one key, so that callers    *)
(* queue on, abandon and re-create its lock and their tasks compete for the permit.   *)
(* The callers are interchangeable, which the safety run uses as a symmetry.          *)
EXTENDS JitBuild, TLC

MCKeyOf == [r \in Requests |-> CHOOSE k \in Keys : TRUE]
MCEntityOf == [k \in Keys |-> CHOOSE e \in Entities : TRUE]
Callers == Permutations(Requests)
================================================================================
