----------------------------- MODULE MCHomeKitFeed -----------------------------
(* The instance of HomeKitFeed that TLC checks: a switch with a state      *)
(* script, a power switch with Wake-on-LAN, and a lock.                    *)
EXTENDS HomeKitFeed

MCSetups == {[source |-> "status", type |-> "switch", wol |-> TRUE],
             [source |-> "online", type |-> "switch", wol |-> TRUE],
             [source |-> "status", type |-> "lock", wol |-> FALSE]}
=============================================================================
