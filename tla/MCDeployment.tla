---------------------------- MODULE MCDeployment ----------------------------
(***************************************************************************)
(* A small instance of Deployment: two operators, a topic, the two sinks,  *)
(* and configurations of a batch size, a password and a stray key.         *)
(***************************************************************************)
EXTENDS Deployment, TLC

CONSTANTS o1, o2, nodes, edges, n

Config(batch, password) == ("batch.size" :> batch) @@ ("password" :> password)

MCList == <<edges, nodes>>
MCTopics == <<nodes>>
MCTarget == [c \in Connectors |-> Config(100, 1)]
MCOtherConfigs == {Config(5, 1), Config(100, 1) @@ ("topics.regex" :> 1)}
MCDesired == [t \in TopicNames |-> 3]
=============================================================================
