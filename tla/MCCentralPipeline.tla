------------------------- MODULE MCCentralPipeline --------------------------
EXTENDS CentralPipeline

CONSTANTS e1, e2
=============================================================================
