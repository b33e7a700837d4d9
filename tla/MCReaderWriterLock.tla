------------------------- MODULE MCReaderWriterLock --------------------------
(* Instances of ReaderWriterLock for TLC: its constants get their values in the .cfg files. *)
EXTENDS ReaderWriterLock, TLC

==============================================================================
