----------------------------- MODULE MCDownload -----------------------------
(* An instance of Download for TLC: one video and a source that raises. *)
EXTENDS Download

CONSTANTS v1, d1

=============================================================================
