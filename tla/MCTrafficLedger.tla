--------------------------- MODULE MCTrafficLedger ---------------------------
(* Instances of TrafficLedger: core-1a, which earns all coinbases and funds  *)
(* the chaos node core-1b; or a second earner in addition.                   *)
EXTENDS TrafficLedger

MCPairs == Earners \X ChaosNodes

MCNoPairs == {}

MCNothing == {}
=============================================================================
