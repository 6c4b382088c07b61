----------------------------- MODULE MCSelfUpdate ----------------------------
EXTENDS SelfUpdate

(* Older and newer than the app, of other lengths, and one of them twice. *)
Versions == {<<1, 9>>, <<1, 9, 1, 1>>, <<1, 10>>, <<1, 10, 0>>}
BuiltAs  == <<1, 9, 1>>
==============================================================================
