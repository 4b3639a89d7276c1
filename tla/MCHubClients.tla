---------------------------- MODULE MCHubClients ----------------------------
(* Constants for model-checking HubClients. *)
EXTENDS HubClients

CONSTANT c1

OneClient == {c1}
=============================================================================
