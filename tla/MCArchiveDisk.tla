---------------------------- MODULE MCArchiveDisk ----------------------------
(* Instances of ArchiveDisk for TLC.                                        *)
EXTENDS ArchiveDisk

MCInputs == {"a", "b"}
MCParts == [a |-> 2, b |-> 1]
=============================================================================
