-------------------------- MODULE MCIngestWorker --------------------------
(***************************************************************************)
(* Small instances of the ingest worker: the .cfg files give the constants *)
(* their sizes.  Workers and endpoints are model values; the worker        *)
(* processes are interchangeable, so runs without liveness identify states *)
(* that differ only in which worker is which.                              *)
(***************************************************************************)
EXTENDS IngestWorker, TLC

WorkerSymmetry == Permutations(Workers)

===========================================================================
