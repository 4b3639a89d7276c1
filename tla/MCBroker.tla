------------------------------ MODULE MCBroker ------------------------------
(* Small instances of Broker for TLC. *)
EXTENDS Broker, TLC

CONSTANTS c1, c2, c3

\* Connect, a transfer, and then a command that closes the connection under it.
LinkOps == c1 :> {"reconfigure"} @@ c2 :> {"read", "write"} @@ c3 :> {"disconnect", "reconfigure"}

\* The smallest race: connect, one transfer, one disconnect.
RaceOps == c1 :> {"reconfigure"} @@ c2 :> {"read"} @@ c3 :> {"disconnect"}

\* Connect against one call of every kind.
PairOps == c1 :> {"reconfigure"} @@ c2 :> {"read", "write", "batch", "disconnect", "setdelay"}
=============================================================================
