----------------------------- MODULE MCBrokerRoom -----------------------------
(* Instance of BrokerRoom for TLC: one room, one relay, two surface ids.       *)
EXTENDS BrokerRoom

CONSTANTS room, relay, s1, s2, qr, dev
===============================================================================
