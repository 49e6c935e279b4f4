------------------------------- MODULE Deployment -------------------------------
(***************************************************************************)
(* The set-up scripts, which are run and run again, by several operators,  *)
(* against a Kafka, a Neo4j and a Kafka Connect that others change too:    *)
(* create_topics.py, create_neo4j_schema.py and deploy_connectors.py; and  *)
(* the two sinks once they run, as far as the schema matters to them: they *)
(* MERGE the same nodes in concurrent transactions.                        *)
(***************************************************************************)
EXTENDS Naturals, Sequences, FiniteSets, Functions

CONSTANTS
    Operators,        \* who run the scripts
    Steady,           \* those of them who do so again and again
    TopicList,        \* the topics of config/topics.yaml
    Desired,          \* by topic, its partitions and replication factor
    OtherLayout,      \* what somebody else may create a topic with
    ConnectorFiles,   \* the files connectors/*.json, sorted
    Target,           \* by connector, the keys and values of its config, ${...} replaced
    Sensitive,        \* keys with "password" or "secret" in their name
    OtherConfigs,     \* what a connector's config may be changed to by hand
    None,             \* no such topic, connector or task
    Nodes,            \* some node ids that both sinks write
    MaxFaults,        \* bound on requests and commands that fail
    MaxMeddling       \* bound on the changes others make

TopicNames == Range(TopicList)
Connectors == Range(ConnectorFiles)

ASSUME DeploymentAssumption ==
    /\ Steady \subseteq Operators
    /\ ConnectorFiles \in Seq(Connectors)
    /\ TopicList \in Seq(TopicNames) /\ None \notin Nat
    /\ Desired \in [TopicNames -> Nat \ {0}] /\ OtherLayout \in Nat \ {0}
    /\ None \notin OtherConfigs \cup {Target[c] : c \in Connectors}

VARIABLES
    topics,        \* Kafka: the layout of each topic, or None
    constrained,   \* Neo4j: cpg_node_id_unique and the others exist
    copies,        \* Neo4j: how many nodes have an id
    config,        \* Connect: the config stored for each connector
    running,       \* Connect: the connectors that have tasks
    script,        \* by operator, the script that runs and its local variables
    claims,        \* history: the scripts whose last exit code 0 nobody undid
    faults, meddling

vars == <<topics, constrained, copies, config, running, script, claims,
          faults, meddling>>

Scripts == {"topics", "schema", "connectors"}
NoScript == [pc |-> "none", left |-> << >>, file |-> None, seen |-> None, ok |-> TRUE]

Init ==
    /\ topics = [t \in TopicNames |-> None]
    /\ constrained = FALSE
    /\ copies = [n \in Nodes |-> 0]
    /\ config = [c \in Connectors |-> None]
    /\ running = {}
    /\ script = [o \in Operators |-> NoScript]
    /\ claims = {}
    /\ faults = 0 /\ meddling = 0

Run(o, fields) ==
    script' = [script EXCEPT ![o] =
                 [x \in DOMAIN @ |-> IF x \in DOMAIN fields THEN fields[x] ELSE @[x]]]
At(o, pc) == script[o].pc = pc

(* The script ends; with exit code 0 it claims to have achieved its end.   *)
Exit(o, name, ok) ==
    /\ script' = [script EXCEPT ![o] = NoScript]
    /\ claims' = IF ok THEN claims \cup {name} ELSE claims

Fails == faults < MaxFaults /\ faults' = faults + 1
-----------------------------------------------------------------------------
(***************************************************************************)
(* create_topics.py                                                        *)
(***************************************************************************)
Mismatch(t, actual) == actual[t] # None /\ actual[t] # Desired[t]

(* The layouts are read, and check_drift compares them: it has a message   *)
(* for every topic, MISSING or else an [OK] or an [ERROR]; a mismatch is    *)
(* reported and left as it is.                                             *)
DescribeTopics(o) ==
    /\ At(o, "none")
    /\ Run(o, [pc |-> "topics", left |-> TopicList, seen |-> {t \in TopicNames : topics[t] = None},
               ok |-> \A t \in TopicNames : ~ Mismatch(t, topics)])
    /\ UNCHANGED <<topics, constrained, config, running, copies, claims, faults, meddling>>

(* On to the next message.                                                 *)
NextMessage(o, ok) == Run(o, [left |-> Tail(script[o].left), ok |-> script[o].ok /\ ok])

(* A message of a topic that is not missing is printed.                    *)
PrintMessage(o) ==
    /\ At(o, "topics") /\ script[o].left # << >> /\ Head(script[o].left) \notin script[o].seen
    /\ NextMessage(o, TRUE)
    /\ UNCHANGED <<topics, constrained, config, running, copies, claims, faults, meddling>>

AtMissing(o) ==
    At(o, "topics") /\ script[o].left # << >> /\ Head(script[o].left) \in script[o].seen

Created(t) == IF topics[t] = None THEN [topics EXCEPT ![t] = Desired[t]] ELSE topics

(* Mutant: --if-not-exists, so that an existing topic is no failure.       *)
CreateTopicIfMissing(o) ==
    /\ AtMissing(o)
    /\ topics' = Created(Head(script[o].left))
    /\ NextMessage(o, TRUE)
    /\ UNCHANGED <<constrained, config, running, copies, claims, faults, meddling>>

(* Creating fails if somebody created the topic since it was described.    *)
CreateTopic(o) ==
    /\ AtMissing(o)
    /\ topics' = Created(Head(script[o].left))
    /\ NextMessage(o, topics[Head(script[o].left)] = None)
    /\ UNCHANGED <<constrained, config, running, copies, claims, faults, meddling>>

CreateTopicFails(o) ==
    /\ AtMissing(o)
    /\ Fails
    /\ NextMessage(o, FALSE)
    /\ UNCHANGED <<topics, constrained, config, running, copies, claims, meddling>>

EndTopics(o) ==
    /\ At(o, "topics") /\ script[o].left = << >>
    /\ Exit(o, "topics", script[o].ok)
    /\ UNCHANGED <<topics, constrained, config, running, copies, faults, meddling>>
-----------------------------------------------------------------------------
(***************************************************************************)
(* create_neo4j_schema.py                                                  *)
(***************************************************************************)
(* Mutant: an index, where a constraint is needed.                         *)
ApplySchemaIndexOnly(o) ==
    /\ At(o, "none")
    /\ Exit(o, "schema", TRUE)
    /\ UNCHANGED <<topics, constrained, config, running, copies, faults, meddling>>

(* find_duplicate_nodes *)
DuplicateIds == {n \in Nodes : copies[n] > 1}

(* CREATE CONSTRAINT ... IF NOT EXISTS: Neo4j refuses it if ids are not    *)
(* unique.                                                                 *)
ApplySchema(o) ==
    /\ At(o, "none")
    /\ LET unique == DuplicateIds = {}
       IN constrained' = (constrained \/ unique) /\ Exit(o, "schema", constrained \/ unique)
    /\ UNCHANGED <<topics, config, running, copies, faults, meddling>>
-----------------------------------------------------------------------------
(***************************************************************************)
(* deploy_connectors.py                                                    *)
(***************************************************************************)
(* The README has the schema created before the connectors are deployed.   *)
StartDeploy(o) ==
    /\ At(o, "none") /\ "schema" \in claims
    /\ Run(o, [pc |-> "get", left |-> ConnectorFiles])
    /\ UNCHANGED <<topics, constrained, config, running, copies, claims, faults, meddling>>

(* On to the next file; one that failed does not stop the others.          *)
NextConnector(o, ok) ==
    Run(o, [pc |-> "get", left |-> Tail(script[o].left),
            file |-> None, seen |-> None, ok |-> script[o].ok /\ ok])

(* get_connector_config: whatever is not a 200 counts as "does not exist". *)
GetConfig(o) ==
    /\ At(o, "get") /\ script[o].left # << >>
    /\ LET c == Head(script[o].left)
       IN \/ Run(o, [pc |-> "send", file |-> c, seen |-> config[c]]) /\ UNCHANGED faults
          \/ Run(o, [pc |-> "send", file |-> c, seen |-> None]) /\ Fails
    /\ UNCHANGED <<topics, constrained, config, running, copies, claims, meddling>>

(* Mutant: only the target's keys are compared.                            *)
DriftOneWay(current, target) ==
    \/ ~ DOMAIN target \subseteq DOMAIN current
    \/ \E k \in DOMAIN target \ Sensitive : current[k] # target[k]

(* Keys that are missing or too many (Connect's own key, name, apart), and  *)
(* values but for the sensitive.                                           *)
Drift(current, target) ==
    \/ DOMAIN current # DOMAIN target
    \/ \E k \in DOMAIN target \ Sensitive : current[k] # target[k]

(* Mutant: connectors are created but never updated.                       *)
DeployCreates(o) ==
    /\ At(o, "send")
    /\ LET c == script[o].file
       IN IF script[o].seen = None /\ config[c] # None
          THEN NextConnector(o, FALSE) /\ UNCHANGED config
          ELSE /\ Run(o, [pc |-> "wait"])
               /\ config' = IF config[c] = None THEN [config EXCEPT ![c] = Target[c]] ELSE config
    /\ UNCHANGED <<topics, constrained, running, copies, claims, faults, meddling>>

(* deploy_connector: POST if it seemed to be missing, which Connect refuses*)
(* if it is not, PUT if it has drifted, else nothing.                      *)
Deploy(o) ==
    /\ At(o, "send")
    /\ LET c == script[o].file
           seen == script[o].seen
           send == IF seen = None THEN TRUE ELSE Drift(seen, Target[c])
           refused == seen = None /\ config[c] # None
       IN \/ /\ send /\ refused /\ NextConnector(o, FALSE) /\ UNCHANGED <<config, faults>>
          \/ /\ send /\ ~ refused /\ Run(o, [pc |-> "wait"])
             /\ config' = [config EXCEPT ![c] = Target[c]] /\ UNCHANGED faults
          \/ /\ ~ send /\ Run(o, [pc |-> "wait"]) /\ UNCHANGED <<config, faults>>
          \/ /\ send /\ Fails /\ NextConnector(o, FALSE) /\ UNCHANGED config
    /\ UNCHANGED <<topics, constrained, running, copies, claims, meddling>>

(* wait_for_running: tasks that run, with whatever config, satisfy it; it  *)
(* gives up after a time, or when a task has failed.                       *)
WaitForRunning(o) ==
    /\ At(o, "wait")
    /\ \E up \in BOOLEAN :
         /\ up => script[o].file \in running
         /\ NextConnector(o, up)
    /\ UNCHANGED <<topics, constrained, config, running, copies, claims, faults, meddling>>

EndDeploy(o) ==
    /\ At(o, "get") /\ script[o].left = << >>
    /\ Exit(o, "connectors", script[o].ok)
    /\ UNCHANGED <<topics, constrained, config, running, copies, faults, meddling>>
-----------------------------------------------------------------------------
(***************************************************************************)
(* Connect and the sinks, and everybody else.                              *)
(***************************************************************************)
RestartTasks(c) ==
    /\ c \in running <=> config[c] = None
    /\ running' = IF config[c] = None THEN running \ {c} ELSE running \cup {c}
    /\ UNCHANGED <<topics, constrained, config, copies, script, claims, faults, meddling>>

(* The sinks MERGE a node: those whose transactions overlap look for it    *)
(* first, and each that has not found it creates one, unless a constraint  *)
(* makes them take turns.                                                  *)
MergeNode(n) ==
    /\ running # {}
    /\ \E overlap \in 1..Cardinality(running) :
         copies' = [copies EXCEPT ![n] = IF @ > 0 THEN @ ELSE IF constrained THEN 1 ELSE overlap]
    /\ UNCHANGED <<topics, constrained, config, running, script, claims, faults, meddling>>

(* Somebody creates a topic, which the scripts notice; or deletes one, or  *)
(* changes or deletes a connector, which undoes what they have done: the   *)
(* scripts that run then make no claim, whatever their exit code.          *)
CreateElsewhere(t) ==
    /\ meddling < MaxMeddling /\ meddling' = meddling + 1
    /\ topics[t] = None
    /\ topics' = [topics EXCEPT ![t] = OtherLayout]
    /\ UNCHANGED <<constrained, config, running, copies, script, claims, faults>>

Undo(name) ==
    /\ meddling < MaxMeddling /\ meddling' = meddling + 1
    /\ claims' = claims \ {name}
    /\ script' = [o \in Operators |-> [script[o] EXCEPT !.ok = At(o, "none")]]
    /\ UNCHANGED <<constrained, running, copies, faults>>

DeleteTopic(t) ==
    /\ topics[t] # None /\ topics' = [topics EXCEPT ![t] = None]
    /\ Undo("topics")
    /\ UNCHANGED config

ChangeConnector(c, other) ==
    /\ config[c] \notin {None, other} /\ config' = [config EXCEPT ![c] = other]
    /\ Undo("connectors")
    /\ UNCHANGED topics

Meddle ==
    \/ \E t \in TopicNames : CreateElsewhere(t) \/ DeleteTopic(t)
    \/ \E c \in Connectors, other \in OtherConfigs \cup {None} : ChangeConnector(c, other)

TopicsStep(o) == DescribeTopics(o) \/ PrintMessage(o) \/ CreateTopic(o) \/ EndTopics(o)
DeployStep(o) ==
    StartDeploy(o) \/ GetConfig(o) \/ Deploy(o) \/ WaitForRunning(o) \/ EndDeploy(o)

Next ==
    \/ \E o \in Operators :
         TopicsStep(o) \/ CreateTopicFails(o) \/ ApplySchema(o) \/ DeployStep(o)
    \/ \E c \in Connectors : RestartTasks(c)
    \/ \E n \in Nodes : MergeNode(n)
    \/ Meddle

Spec == Init /\ [][Next]_vars

(* The scripts run to their end, and some operators run them again.        *)
FairSpec ==
    /\ Spec
    /\ \A o \in Operators : WF_vars(~ At(o, "none") /\ (TopicsStep(o) \/ DeployStep(o)))
    /\ \A o \in Steady :
         SF_vars(DescribeTopics(o)) /\ SF_vars(ApplySchema(o)) /\ SF_vars(StartDeploy(o))
-----------------------------------------------------------------------------
(* TopicsAreAsClaimed: after an exit code 0 of create_topics.py every topic*)
(* is there in the layout that is asked for, even if topics were created   *)
(* between its look at them and its own creations.                         *)
TopicsAreAsClaimed == "topics" \in claims => topics = Desired

(* Connect holds the configuration of the file, passwords apart.           *)
Deployed(c) ==
    /\ config[c] # None
    /\ DOMAIN config[c] = DOMAIN Target[c]
    /\ \A k \in DOMAIN Target[c] \ Sensitive : config[c][k] = Target[c][k]

(* ConnectorsAreAsClaimed: after an exit code 0 of deploy_connectors.py    *)
(* Connect holds the target configurations, passwords apart, whatever was  *)
(* there before, and whoever deployed at the same time.                    *)
ConnectorsAreAsClaimed == "connectors" \in claims => \A c \in Connectors : Deployed(c)

(* NodesAreUnique: with the steps in the order of the README no id ever has*)
(* two nodes, although both sinks look for it in transactions that do not  *)
(* see each other, and whoever runs which script how often.                *)
NodesAreUnique == DuplicateIds = {}

(* DeploymentConverges: once nobody interferes and requests succeed, scripts*)
(* that are repeated leave every topic there and every connector deployed. *)
DeploymentConverges ==
    <>[](/\ \A t \in TopicNames : topics[t] # None
         /\ \A c \in Connectors : Deployed(c))
=============================================================================
