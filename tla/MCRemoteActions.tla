--------------------------- MODULE MCRemoteActions ---------------------------
(* Instances of RemoteActions for TLC. *)
EXTENDS RemoteActions

CONSTANTS i1, i2

OneClaimed == [i \in Intents |-> IF i = i1 THEN "claimed" ELSE "plain"]
OneChallenge == [i \in Intents |-> IF i = i1 THEN "challenge" ELSE "plain"]
===============================================================================
