------------------------------ MODULE MCGateway ------------------------------
(***************************************************************************)
(* TLC instances of Gateway.  Requests, and /health handlers, are each      *)
(* interchangeable.                                                        *)
(***************************************************************************)
EXTENDS Gateway, TLC

GatewaySymmetry == Permutations(Requests) \cup Permutations(HealthCalls)
=============================================================================
