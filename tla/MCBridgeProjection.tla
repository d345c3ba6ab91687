------------------------- MODULE MCBridgeProjection -------------------------
(* Instance of BridgeProjection: one note the vault has, one it may get. *)
EXTENDS BridgeProjection

CONSTANTS p1, p2, a, b

Notes == {p1, p2}

Created == {p2}

=============================================================================
