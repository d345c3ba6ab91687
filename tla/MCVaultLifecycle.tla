--------------------------- MODULE MCVaultLifecycle ---------------------------
(* Bounds: one request at a time beside the processors of two uploads, so    *)
(* that a newer one can move the device ref past the one a removal expects,  *)
(* and one fault anywhere: a crash, a failed write or a failed command.      *)
EXTENDS VaultLifecycle

CONSTANT r1

RequestIds == {r1}
=============================================================================
