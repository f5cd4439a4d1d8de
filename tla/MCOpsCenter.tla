----------------------------- MODULE MCOpsCenter -----------------------------
(* Small instances of OpsCenter for TLC. *)
EXTENDS OpsCenter
FilesOfCollections == Collections \X FileKinds
==============================================================================
