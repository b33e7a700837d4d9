--------------------------- MODULE MCThreadedFileBuf ---------------------------
(* Instances of ThreadedFileBuf for TLC: its constants get their values in the .cfg files. *)
EXTENDS ThreadedFileBuf, TLC

==============================================================================
