---------------------------- MODULE MCBrokerWriter ----------------------------
(* Instance of BrokerWriter for TLC.                                            *)
EXTENDS BrokerWriter

CONSTANT s1
===============================================================================
