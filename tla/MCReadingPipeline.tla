-------------------------- MODULE MCReadingPipeline --------------------------
(* Model-checking instance of ReadingPipeline: a batch of two readings with *)
(* the same mint call, and a batch that submits one of them again.          *)
EXTENDS ReadingPipeline

CONSTANTS Q1, Q2, Q3, B1, B2, R1, R2, M1

MCBatchOf == [q \in Request |-> IF q = Q3 THEN B2 ELSE B1]
MCReadingOf == [q \in Request |-> IF q = Q2 THEN R2 ELSE R1]
MCMeterOf == [r \in Reading |-> M1]
MCMintCall == [r \in Reading |-> "12.5 kWh"]

(* The columns anchored and minted of a row are written and never read     *)
(* again, so states that differ in them alone need one visit; their types  *)
(* are proved.                                                             *)
WithoutColumns ==
  <<active, meterMap, pc, tx, stored, certificates, network>>

==============================================================================
