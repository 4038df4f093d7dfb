----------------------------- MODULE MCLangstash -----------------------------
(* Langstash for TLC: the threads, the traces and the bounds are given      *)
(* values in the configurations.                                            *)
EXTENDS LangstashInv
CONSTANTS t1, t2, t3, t4, server, recovery
=============================================================================
