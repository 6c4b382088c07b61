----------------------------- MODULE MCPatchCache ----------------------------
EXTENDS PatchCache

CONSTANTS act, http

(* The second version adds a file, the third drops the first one. *)
ShipsOf == [v \in Version |-> CASE v = 1 -> {act} [] v = 2 -> {act, http} [] v = 3 -> {http}]
==============================================================================
