---------------------------- MODULE MCSyncProcessor ----------------------------
(* SyncProcessor on a few operations, each but the first dependent on the one before. *)
EXTENDS SyncProcessor, TLC

CONSTANTS o1, o2, o3

MCPriority == [o \in Ops |-> CASE o = o1 -> 1 [] o = o2 -> 2 [] o = o3 -> 3]
MCDependencies ==
    [o \in Ops |-> CASE o = o1 -> {} [] o = o2 -> {o1} [] o = o3 -> {o2}]

RunSymmetry == Permutations(Runs)
===============================================================================
