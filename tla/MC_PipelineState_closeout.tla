---------------------- MODULE MC_PipelineState_closeout ----------------------
(***************************************************************************)
(* The eight phases of the code.                                           *)
(***************************************************************************)
EXTENDS PipelineState

MCPhaseDefs ==
  <<Phase("build", FALSE, FALSE), Phase("simplify", TRUE, FALSE), Phase("test", FALSE, FALSE),
    Phase("review", FALSE, FALSE), Phase("performance", TRUE, FALSE),
    Phase("ship_prep", TRUE, FALSE), Phase("auto_learn", FALSE, TRUE),
    Phase("auto_map", FALSE, TRUE)>>
=============================================================================
