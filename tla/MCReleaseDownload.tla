------------------------- MODULE MCReleaseDownload -------------------------
(* Values of the constants of ReleaseDownload for TLC are in the .cfg files. *)
EXTENDS ReleaseDownload
=============================================================================
