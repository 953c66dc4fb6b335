---------------------------- MODULE MCNativeEdit ----------------------------
(* Instances of NativeEdit for TLC: files of at most two cells, x is the literal
   clients replace by y, and the formatter drops a repeated cell. *)
EXTENDS NativeEdit, TLC

x == "x"
y == "y"
Files == {<<>>, <<x>>, <<y>>, <<x, x>>, <<x, y>>, <<y, x>>, <<y, y>>}
Tidy == [c \in Files |-> CASE c = <<x, x>> -> <<x>> [] c = <<y, y>> -> Broken [] OTHER -> c]
Sent == {<<x>>}
Saved == {<<y, x>>, Missing}
Replacement == <<y>>
=============================================================================
