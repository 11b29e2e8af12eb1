-------------------------- MODULE MCDownloadQueue --------------------------
(* Small instances of DownloadQueue for TLC. *)
EXTENDS DownloadQueue

CONSTANTS t1, t2, t3

MCTask == {t1, t2, t3}
MCidOf == [t \in MCTask |-> t]
============================================================================
