------------------------------ MODULE MCPipeline ------------------------------
(* Pipeline on small instances: two missions and the one that reads them.  *)
EXTENDS Pipeline, TLC

CONSTANTS m1, m2, gaps, g1

=============================================================================
