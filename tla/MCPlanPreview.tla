--------------------------- MODULE MCPlanPreview ---------------------------
(* The instance of PlanPreview that TLC checks: tx and tw are one declaration laid
   out differently, ty another body under the same name, tz another name and a
   long text.  The query matches tx and tz. *)
EXTENDS PlanPreview

CONSTANTS pa, pb, tx, tw, ty, tz, nf, ng

TwoPaths == <<pa, pb>>
Names == [t \in {tx, tw, ty, tz} |-> IF t = tz THEN ng ELSE nf]
Bodies == [t \in {tx, tw, ty, tz} |-> IF t = tw THEN tx ELSE t]
Layout == [t \in {tx, tw, ty, tz} |-> 0]
Documents == {<<tx>>, <<ty, tz>>, <<tx, tx, tz>>}
Trees == {[a \in {pa, pb} |-> IF a = pa THEN <<tx, tx, tz>> ELSE Missing],
          [a \in {pa, pb} |-> IF a = pa THEN <<tx, tz>> ELSE <<tw>>]}

Op(id, kind) == [id |-> id, kind |-> kind, by |-> "path", nth |-> 1, path |-> pa, name |-> nf, to |-> pb,
                 content |-> <<tx>>, deps |-> {}]
Edit(id, kind, n, content, deps) ==
  [Op(id, kind) EXCEPT !.by = "handle", !.nth = n, !.content = content, !.deps = deps]
ByName(id, kind, name, content, deps) ==
  [Edit(id, kind, 1, content, deps) EXCEPT !.by = "locator", !.name = name]

PlanLists ==
  {<<Edit(1, "replace", 1, <<ty, tx>>, {}), Edit(2, "before", 2, <<ty>>, {1})>>,
   <<Edit(1, "before", 1, <<tx>>, {}), Edit(2, "delete", 2, <<>>, {}), Edit(3, "after", 3, <<ty>>, {})>>,
   <<Edit(1, "delete", 1, <<>>, {}), Op(2, "move")>>,
   <<Op(1, "copy"), ByName(2, "replace", ng, <<ty, ty>>, {})>>,
   <<[Op(1, "matches") EXCEPT !.content = <<ty, ty>>], [Op(2, "create") EXCEPT !.path = pb]>>,
   <<Op(1, "remove")>>}

PlanEdits ==
  {[mode |-> "remove", ids |-> <<1>>, ops |-> <<>>],
   [mode |-> "reorder", ids |-> <<2, 1>>, ops |-> <<>>],
   [mode |-> "add", ids |-> <<>>, ops |-> <<Unbound(Edit(3, "after", 1, <<ty>>, {2}))>>],
   [mode |-> "update", ids |-> <<>>, ops |-> <<Unbound(Edit(2, "delete", 1, <<>>, {}))>>],
   [mode |-> "replace_all", ids |-> <<>>, ops |-> <<Unbound(Edit(1, "after", 2, <<ty>>, {}))>>]}
=============================================================================
