------------------------- MODULE MCEmbeddedProvider -------------------------
(* One kernel that fits and one that lacks cooperative cancellation. *)
EXTENDS EmbeddedProvider, TLC

Good == [level |-> 13, protocol |-> 2, cooperative |-> TRUE, methods |-> {"cancel"}, capabilities |-> {"execute"}]
Both == {Good, [Good EXCEPT !.cooperative = FALSE]}
=============================================================================
