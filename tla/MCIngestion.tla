----------------------------- MODULE MCIngestion ----------------------------
(* One tailed file and one ingest request, which may fill the channel of one *)
(* event.  Nobody deploys controls.                                          *)
EXTENDS Ingestion

CONSTANTS h, f, x
=============================================================================
