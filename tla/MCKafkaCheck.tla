----------------------------- MODULE MCKafkaCheck -----------------------------
(* Instances of KafkaCheck for TLC. *)
EXTENDS KafkaCheck, TLC

CONSTANT orders

\* One asserting check, which must hear a message every step.
SoloNameOf   == (orders :> orders)
SoloInterval == (orders :> 1)

\* It is executed twice; the executions may overlap.
SoloCheckOf  == <<orders, orders>>
=============================================================================
