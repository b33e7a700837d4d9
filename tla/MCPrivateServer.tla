--------------------------- MODULE MCPrivateServer ---------------------------
(* Instances of PrivateServer for TLC: its constants get their values in the .cfg files. *)
EXTENDS PrivateServer, TLC

=============================================================================
