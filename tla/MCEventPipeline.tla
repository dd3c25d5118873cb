-------------------------- MODULE MCEventPipeline --------------------------
EXTENDS EventPipeline

CONSTANTS e1, e2, l1, l2
=============================================================================
