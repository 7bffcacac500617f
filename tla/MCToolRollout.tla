--------------------------- MODULE MCToolRollout ---------------------------
(* ToolRollout on small instances.                                         *)
EXTENDS ToolRollout

MCCalls == Reqs \X (1 .. MaxCalls)
=============================================================================
