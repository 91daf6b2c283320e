------------------------- MODULE MCServerLifecycle -------------------------
(* Three connections, so that one may be waiting, one served and one done. *)
EXTENDS ServerLifecycle

CONSTANTS c1, c2, c3

MCConns == {c1, c2, c3}

=============================================================================
