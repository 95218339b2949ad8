--------------------------- MODULE MCManifestFile ---------------------------
(* ManifestFile with short frames and small limits.                        *)
EXTENDS ManifestFile
=============================================================================
