--------------------------- MODULE MCArchiveSlots --------------------------
(* A command, a read and a deletion for two slots and a ring of two jobs. *)
EXTENDS ArchiveSlots

MCKind == <<"command", "read", "delete">>
=============================================================================
