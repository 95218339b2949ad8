----------------------------- MODULE MCAssembly -----------------------------
(* Assembly on small trees, some of them with later scans and skipped items. *)
EXTENDS Assembly
=============================================================================
