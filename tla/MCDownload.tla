----------------------------- MODULE MCDownload -----------------------------
(* Download with an image of two chunks that is replaced by one of three,  *)
(* and back, and with two attempts per download.                           *)
EXTENDS Download

MCVersions == {"old", "new"}
MCSize == [v \in MCVersions |-> IF v = "old" THEN 2 ELSE 3]
=============================================================================
