--------------------------- MODULE MCOutboxRelay ---------------------------
(* Relay processes of a worker, and of its replacement during a deploy.    *)
EXTENDS OutboxRelay

CONSTANTS r1, r2
=============================================================================
