--------------------------- MODULE MCProjectJobs ---------------------------
(* A small instance of ProjectJobs for TLC.                                 *)
EXTENDS ProjectJobs
=============================================================================
