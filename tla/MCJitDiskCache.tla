---------------------------- MODULE MCJitDiskCache ----------------------------
(* Small instances of JitDiskCache: trees and content files that do not all fit, written  *)
(* by two lanes.  The lanes are interchangeable, and so are the keys of a kind.           *)
EXTENDS JitDiskCache, TLC

LanesAndTrees == Permutations(Clients) \cup Permutations(Keys)
LanesAndFiles == Permutations(Clients) \cup Permutations(Files)
================================================================================
