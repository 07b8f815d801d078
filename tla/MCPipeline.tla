----------------------------- MODULE MCPipeline -----------------------------
(* One ingest request and one feed on a channel of two events, one address,  *)
(* one control at a time.                                                    *)
EXTENDS Pipeline

CONSTANTS h, f, x, s1

MCExpiries == {1}
=============================================================================
