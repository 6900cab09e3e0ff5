----------------------------- MODULE MCDownloader -----------------------------
(* Presentations that stay live, that are on demand, and that may end. *)
EXTENDS Downloader
MCAny == {FALSE, TRUE}
=============================================================================
