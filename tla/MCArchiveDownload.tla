-------------------------- MODULE MCArchiveDownload --------------------------
(* Builds are model values. *)
EXTENDS ArchiveDownload
=============================================================================
