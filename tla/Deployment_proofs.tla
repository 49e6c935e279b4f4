--------------------------- MODULE Deployment_proofs ---------------------------
(***************************************************************************)
(* Proofs about Deployment, for any operators, topics, connectors and      *)
(* numbers of failures and of changes by others: an exit code 0 of         *)
(* create_topics.py and of deploy_connectors.py is true, and node ids are  *)
(* unique.                                                                 *)
(***************************************************************************)
EXTENDS Deployment, SequenceTheorems, TLAPS

(***************************************************************************)
(* The inductive invariant.                                                *)
(***************************************************************************)
DeploySteps == {"get", "send", "wait"}
Fields == {"pc", "left", "file", "seen", "ok"}

(* What a script's record looks like, and that a deployment is at the first*)
(* of the files left.                                                      *)
ScriptOK(r) ==
    /\ DOMAIN r = Fields
    /\ r.ok \in BOOLEAN
    /\ r.pc \in {"none", "topics"} \cup DeploySteps
    /\ r.pc = "topics" => r.left \in Seq(TopicNames)
    /\ r.pc \in DeploySteps => r.left \in Seq(Connectors)
    /\ r.pc \in {"send", "wait"} => r.left # << >> /\ r.file = Head(r.left)

ShapeInv ==
    /\ script = [o \in Operators |-> script[o]]
    /\ \A o \in Operators : ScriptOK(script[o])
    /\ topics = [t \in TopicNames |-> topics[t]]
    /\ config = [c \in Connectors |-> config[c]]
    /\ running \subseteq Connectors
    /\ constrained \in BOOLEAN

(* Constraints come before connectors, and connectors before nodes.        *)
SchemaInv ==
    /\ "schema" \in claims => constrained
    /\ \A o \in Operators : script[o].pc \in DeploySteps => constrained
    /\ \A c \in Connectors : config[c] # None => constrained
    /\ running # {} => constrained
    /\ copies \in [Nodes -> 0..1]

(* What a deployment that has not failed so far has achieved: all but the  *)
(* files left, and the one at hand if it needed no update or got it.       *)
Achieved(r) ==
    r.pc \in DeploySteps /\ r.ok =>
        /\ \A c \in Connectors \ Range(r.left) : Deployed(c)
        /\ r.pc = "send" /\ r.seen # None /\ ~ Drift(r.seen, Target[r.file])
              => Deployed(r.file)
        /\ r.pc = "wait" => Deployed(r.file)

DeployInv ==
    /\ \A o \in Operators : Achieved(script[o])
    /\ "connectors" \in claims => \A c \in Connectors : Deployed(c)

(* What create_topics.py has achieved while nothing is wrong: a topic that *)
(* is not as desired was missing, and its message is still to be read.     *)
Remaining(r) ==
    r.pc = "topics" /\ r.ok =>
        \A t \in TopicNames :
          topics[t] = Desired[t] \/ (t \in r.seen /\ t \in Range(r.left))

TopicsInv ==
    /\ \A o \in Operators : Remaining(script[o])
    /\ "topics" \in claims => \A t \in TopicNames : topics[t] = Desired[t]

IInv == ShapeInv /\ SchemaInv /\ DeployInv /\ TopicsInv

LEMMA InitIInv == Init => IInv
<1> SUFFICES ASSUME Init PROVE IInv
  OBVIOUS
<1>1. ShapeInv
  BY DEF Init, ShapeInv, ScriptOK, NoScript, Fields, DeploySteps
<1>2. SchemaInv
  BY DEF Init, SchemaInv, NoScript, DeploySteps
<1>3. DeployInv
  BY DEF Init, DeployInv, Achieved, NoScript, DeploySteps
<1>4. TopicsInv
  BY DEF Init, TopicsInv, Remaining, NoScript
<1> QED
  BY <1>1, <1>2, <1>3, <1>4 DEF IInv

(***************************************************************************)
(* How a step changes the script of its operator, and no other.            *)
(***************************************************************************)
LEMMA RunFields ==
  ASSUME ShapeInv, NEW o \in Operators,
         NEW fields, DOMAIN fields \subseteq Fields, Run(o, fields)
  PROVE  /\ script' = [p \in Operators |-> script'[p]]
         /\ \A p \in Operators \ {o} : script'[p] = script[p]
         /\ DOMAIN script'[o] = Fields
         /\ \A x \in Fields : script'[o][x] =
                IF x \in DOMAIN fields THEN fields[x] ELSE script[o][x]
<1>1. DOMAIN script[o] = Fields
  BY DEF ShapeInv, ScriptOK
<1>2. script' = [p \in Operators |->
                   IF p = o
                   THEN [x \in Fields |->
                           IF x \in DOMAIN fields THEN fields[x] ELSE script[o][x]]
                   ELSE script[p]]
  BY <1>1 DEF Run, ShapeInv
<1> QED
  BY <1>2

LEMMA ExitFields ==
  ASSUME ShapeInv, NEW o \in Operators, NEW name, NEW ok, Exit(o, name, ok)
  PROVE  /\ script' = [p \in Operators |-> script'[p]]
         /\ \A p \in Operators \ {o} : script'[p] = script[p]
         /\ script'[o] = NoScript
  BY DEF Exit, ShapeInv

LEMMA TailCovers ==
  ASSUME NEW S, NEW s \in Seq(S), s # << >>
  PROVE  /\ Tail(s) \in Seq(S)
         /\ Head(s) \in S
         /\ Range(s) \subseteq Range(Tail(s)) \cup {Head(s)}
<1>1. Tail(s) \in Seq(S) /\ Head(s) \in S
  BY HeadTailProperties
<1>2. ASSUME NEW x \in Range(s) PROVE x \in Range(Tail(s)) \cup {Head(s)}
  <2>1. PICK i \in 1..Len(s) : x = s[i]
    BY <1>2 DEF Range
  <2>2. CASE i = 1
    BY <2>1, <2>2
  <2>3. CASE i # 1
    <3>1. i - 1 \in 1..Len(Tail(s)) /\ Tail(s)[i - 1] = s[i]
      BY <2>1, <2>3
    <3>2. i - 1 \in DOMAIN Tail(s)
      BY <1>1, <3>1, LenProperties
    <3> QED
      BY <2>1, <3>1, <3>2 DEF Range
  <2> QED
    BY <2>2, <2>3
<1> QED
  BY <1>1, <1>2

(* The record of an operator after it has gone on to the next file.        *)
LEMMA NextConnectorFields ==
  ASSUME ShapeInv, NEW o \in Operators, NEW ok \in BOOLEAN, NextConnector(o, ok)
  PROVE  /\ script' = [p \in Operators |-> script'[p]]
         /\ \A p \in Operators \ {o} : script'[p] = script[p]
         /\ DOMAIN script'[o] = Fields
         /\ script'[o].pc = "get"
         /\ script'[o].left = Tail(script[o].left)
         /\ script'[o].ok = (script[o].ok /\ ok)
<1> DEFINE fields == [pc |-> "get", left |-> Tail(script[o].left),
                      file |-> None, seen |-> None, ok |-> script[o].ok /\ ok]
<1>1. Run(o, fields)
  BY DEF NextConnector
<1>2. DOMAIN fields \subseteq Fields
  BY DEF Fields
<1>3. /\ script' = [p \in Operators |-> script'[p]]
      /\ \A p \in Operators \ {o} : script'[p] = script[p]
      /\ DOMAIN script'[o] = Fields
      /\ \A x \in Fields : script'[o][x] =
             IF x \in DOMAIN fields THEN fields[x] ELSE script[o][x]
  <2> HIDE DEF fields
  <2> QED
    BY <1>1, <1>2, RunFields
<1> QED
  BY <1>3 DEF Fields

(***************************************************************************)
(* What each step of a deployment does to its script.                      *)
(***************************************************************************)
Others(o) ==
    /\ script' = [p \in Operators |-> script'[p]]
    /\ \A p \in Operators \ {o} : script'[p] = script[p]

LEMMA StartDeployIs ==
  ASSUME ShapeInv, NEW o \in Operators, StartDeploy(o)
  PROVE  /\ Others(o)
         /\ DOMAIN script'[o] = Fields
         /\ script'[o].pc = "get"
         /\ script'[o].left = ConnectorFiles
         /\ script'[o].ok = script[o].ok
<1> DEFINE fields == [pc |-> "get", left |-> ConnectorFiles]
<1>1. Run(o, fields) /\ DOMAIN fields \subseteq Fields
  BY DEF StartDeploy, Fields
<1>2. /\ Others(o)
      /\ DOMAIN script'[o] = Fields
      /\ \A x \in Fields : script'[o][x] =
             IF x \in DOMAIN fields THEN fields[x] ELSE script[o][x]
  <2> HIDE DEF fields
  <2> QED
    BY <1>1, RunFields DEF Others
<1> QED
  BY <1>2 DEF Fields

LEMMA GetConfigIs ==
  ASSUME ShapeInv, NEW o \in Operators, GetConfig(o)
  PROVE  /\ Others(o)
         /\ DOMAIN script'[o] = Fields
         /\ script'[o].pc = "send"
         /\ script'[o].left = script[o].left
         /\ script'[o].file = Head(script[o].left)
         /\ script'[o].seen \in {None, config[Head(script[o].left)]}
         /\ script'[o].ok = script[o].ok
<1>1. PICK s \in {None, config[Head(script[o].left)]} :
         Run(o, [pc |-> "send", file |-> Head(script[o].left), seen |-> s])
  BY DEF GetConfig
<1> DEFINE fields == [pc |-> "send", file |-> Head(script[o].left), seen |-> s]
<1>2. Run(o, fields) /\ DOMAIN fields \subseteq Fields
  BY <1>1 DEF Fields
<1>3. /\ Others(o)
      /\ DOMAIN script'[o] = Fields
      /\ \A x \in Fields : script'[o][x] =
             IF x \in DOMAIN fields THEN fields[x] ELSE script[o][x]
  <2> HIDE DEF fields
  <2> QED
    BY <1>2, RunFields DEF Others
<1> QED
  BY <1>3 DEF Fields

(* What was sent or not needed is deployed; the rest gives up on the file. *)
LEMMA DeployIs ==
  ASSUME ShapeInv, NEW o \in Operators, Deploy(o)
  PROVE  LET c == Head(script[o].left)
         IN /\ Others(o)
            /\ DOMAIN script'[o] = Fields
            /\ config' \in {config, [config EXCEPT ![c] = Target[c]]}
            /\ \/ /\ script'[o].pc = "get"
                  /\ script'[o].left = Tail(script[o].left)
                  /\ script'[o].ok = FALSE
               \/ /\ script'[o].pc = "wait"
                  /\ script'[o].left = script[o].left
                  /\ script'[o].file = script[o].file
                  /\ script'[o].ok = script[o].ok
                  /\ \/ config' = [config EXCEPT ![c] = Target[c]]
                     \/ script[o].seen # None /\ ~ Drift(script[o].seen, Target[c])
<1> DEFINE c == Head(script[o].left)
<1>1. script[o].file = c /\ script[o].ok \in BOOLEAN
  BY DEF ShapeInv, ScriptOK, Deploy, At, DeploySteps
<1>2. CASE NextConnector(o, FALSE)
  <2>1. config' \in {config, [config EXCEPT ![c] = Target[c]]}
    BY <1>1 DEF Deploy
  <2> QED
    BY <1>1, <1>2, <2>1, NextConnectorFields DEF Others
<1>3. CASE Run(o, [pc |-> "wait"])
          /\ \/ config' = [config EXCEPT ![c] = Target[c]]
             \/ /\ config' = config
                /\ script[o].seen # None /\ ~ Drift(script[o].seen, Target[c])
  <2> DEFINE fields == [pc |-> "wait"]
  <2>1. Run(o, fields) /\ DOMAIN fields \subseteq Fields
    BY <1>3 DEF Fields
  <2>2. /\ Others(o)
        /\ DOMAIN script'[o] = Fields
        /\ \A x \in Fields : script'[o][x] =
               IF x \in DOMAIN fields THEN fields[x] ELSE script[o][x]
    <3> HIDE DEF fields
    <3> QED
      BY <2>1, RunFields DEF Others
  <2> QED
    BY <1>3, <2>2 DEF Fields
<1> QED
  BY <1>1, <1>2, <1>3 DEF Deploy

LEMMA WaitIs ==
  ASSUME ShapeInv, NEW o \in Operators, WaitForRunning(o)
  PROVE  /\ Others(o)
         /\ DOMAIN script'[o] = Fields
         /\ script'[o].pc = "get"
         /\ script'[o].left = Tail(script[o].left)
         /\ script'[o].ok \in BOOLEAN
         /\ script'[o].ok => script[o].ok
<1>1. script[o].ok \in BOOLEAN
  BY DEF ShapeInv, ScriptOK
<1>2. PICK up \in BOOLEAN : NextConnector(o, up)
  BY DEF WaitForRunning
<1> QED
  BY <1>1, <1>2, NextConnectorFields DEF Others

(* The script that creates topics begins with a message for every topic...  *)
LEMMA DescribeIs ==
  ASSUME ShapeInv, NEW o \in Operators, DescribeTopics(o)
  PROVE  /\ Others(o)
         /\ DOMAIN script'[o] = Fields
         /\ script'[o].pc = "topics"
         /\ script'[o].left = TopicList
         /\ script'[o].seen = {t \in TopicNames : topics[t] = None}
         /\ script'[o].ok = \A t \in TopicNames : ~ Mismatch(t, topics)
<1> DEFINE match == \A t \in TopicNames : ~ Mismatch(t, topics)
           missing == {t \in TopicNames : topics[t] = None}
           fields == [pc |-> "topics", left |-> TopicList, seen |-> missing, ok |-> match]
<1> HIDE DEF match, missing
<1>1. Run(o, fields) /\ DOMAIN fields \subseteq Fields
  BY DEF DescribeTopics, Fields, match, missing
<1>2. /\ Others(o)
      /\ DOMAIN script'[o] = Fields
      /\ \A x \in Fields : script'[o][x] =
             IF x \in DOMAIN fields THEN fields[x] ELSE script[o][x]
  <2> HIDE DEF fields
  <2> QED
    BY <1>1, RunFields DEF Others
<1>3. script'[o].ok = match /\ script'[o].seen = missing /\ script'[o].pc = "topics"
      /\ script'[o].left = TopicList
  BY <1>2 DEF Fields
<1> QED
  BY <1>2, <1>3 DEF match, missing

(* ... and goes on from one to the next.                                   *)
LEMMA MessageIs ==
  ASSUME ShapeInv, NEW o \in Operators, NEW ok \in BOOLEAN, NextMessage(o, ok)
  PROVE  /\ Others(o)
         /\ DOMAIN script'[o] = Fields
         /\ script'[o].pc = script[o].pc
         /\ script'[o].left = Tail(script[o].left)
         /\ script'[o].seen = script[o].seen
         /\ script'[o].ok = (script[o].ok /\ ok)
<1> DEFINE fields == [left |-> Tail(script[o].left), ok |-> script[o].ok /\ ok]
<1>1. Run(o, fields) /\ DOMAIN fields \subseteq Fields
  BY DEF NextMessage, Fields
<1>2. /\ Others(o)
      /\ DOMAIN script'[o] = Fields
      /\ \A x \in Fields : script'[o][x] =
             IF x \in DOMAIN fields THEN fields[x] ELSE script[o][x]
  <2> HIDE DEF fields
  <2> QED
    BY <1>1, RunFields DEF Others
<1> QED
  BY <1>2 DEF Fields

TopicsMove(o) ==
    DescribeTopics(o) \/ PrintMessage(o) \/ CreateTopic(o) \/ CreateTopicFails(o)

(* The scripts that create topics keep to their own.                       *)
LEMMA TopicsIs ==
  ASSUME ShapeInv, NEW o \in Operators, TopicsMove(o)
  PROVE  /\ Others(o)
         /\ ScriptOK(script'[o])
         /\ script'[o].pc = "topics"
         /\ topics' = [t \in TopicNames |-> topics'[t]]
         /\ UNCHANGED <<claims, constrained, config, running, copies>>
<1>0. ScriptOK(script[o])
  BY DEF ShapeInv
<1>1. CASE DescribeTopics(o)
  <2>1. ScriptOK(script'[o])
    BY <1>1, DescribeIs, DeploymentAssumption DEF ScriptOK, DeploySteps
  <2> QED
    BY <1>1, <2>1, DescribeIs DEF DescribeTopics, ShapeInv
<1>2. CASE PrintMessage(o) \/ CreateTopic(o) \/ CreateTopicFails(o)
  <2>1. script[o].pc = "topics" /\ script[o].left \in Seq(TopicNames) /\ script[o].left # << >>
    BY <1>0, <1>2 DEF PrintMessage, CreateTopic, CreateTopicFails, AtMissing, At, ScriptOK
  <2>2. Tail(script[o].left) \in Seq(TopicNames)
    BY <2>1, TailCovers
  <2>3. PICK ok \in BOOLEAN : NextMessage(o, ok)
    BY <1>2 DEF PrintMessage, CreateTopic, CreateTopicFails
  <2>4. ScriptOK(script'[o]) /\ Others(o) /\ script'[o].pc = "topics"
    BY <1>0, <2>1, <2>2, <2>3, MessageIs DEF ScriptOK, DeploySteps
  <2>5. topics' = [t \in TopicNames |-> topics'[t]]
    BY <1>2 DEF PrintMessage, CreateTopic, CreateTopicFails, Created, ShapeInv
  <2> QED
    BY <1>2, <2>4, <2>5 DEF PrintMessage, CreateTopic, CreateTopicFails
<1> QED
  BY <1>1, <1>2 DEF TopicsMove

(* Whoever undoes what scripts do leaves them where they are.              *)
LEMMA UndoIs ==
  ASSUME ShapeInv, NEW name, Undo(name), NEW o \in Operators
  PROVE  /\ DOMAIN script'[o] = Fields
         /\ script'[o].pc = script[o].pc
         /\ script'[o].left = script[o].left
         /\ script'[o].file = script[o].file
         /\ script'[o].ok = (script[o].pc = "none")
<1>1. DOMAIN script[o] = Fields
  BY DEF ShapeInv, ScriptOK
<1>2. script'[o] = [script[o] EXCEPT !.ok = (script[o].pc = "none")]
  BY DEF Undo, At
<1>3. script'[o] = [x \in Fields |-> IF x = "ok" THEN script[o].pc = "none"
                                               ELSE script[o][x]]
  BY <1>1, <1>2
<1> QED
  BY <1>3 DEF Fields

(***************************************************************************)
(* The steps preserve the invariant.                                       *)
(***************************************************************************)
(* A script that is in no deployment has nothing to show.                  *)
LEMMA ShapeOfOne ==
  ASSUME ShapeInv, NEW o \in Operators, Others(o), ScriptOK(script'[o]),
         UNCHANGED <<config, running, constrained>>,
         topics' = [t \in TopicNames |-> topics'[t]]
  PROVE  ShapeInv'
  BY DEF ShapeInv, Others

LEMMA TopicsKept ==
  ASSUME ShapeInv, [Next]_vars
  PROVE  topics' = [t \in TopicNames |-> topics'[t]]
<1>1. CASE UNCHANGED topics
  BY <1>1 DEF ShapeInv
<1>2. CASE \E t, layout : topics' = [topics EXCEPT ![t] = layout]
  BY <1>2 DEF ShapeInv
<1>3. ASSUME NEW o \in Operators, TopicsMove(o) \/ EndTopics(o) \/ ApplySchema(o)
      PROVE  UNCHANGED topics \/ \E t, layout : topics' = [topics EXCEPT ![t] = layout]
  BY <1>3 DEF TopicsMove, DescribeTopics, PrintMessage, CreateTopic, CreateTopicFails,
              Created, EndTopics, ApplySchema
<1>4. ASSUME NEW o \in Operators, DeployStep(o)
      PROVE  UNCHANGED topics
  BY <1>4 DEF DeployStep, StartDeploy, GetConfig, Deploy, WaitForRunning, EndDeploy
<1>5. CASE \/ \E c \in Connectors : RestartTasks(c)
           \/ \E n \in Nodes : MergeNode(n)
           \/ UNCHANGED vars
  BY <1>1, <1>5 DEF RestartTasks, MergeNode, vars
<1>6. CASE Meddle
  BY <1>1, <1>2, <1>6 DEF Meddle, CreateElsewhere, DeleteTopic, ChangeConnector
<1> QED
  BY <1>1, <1>2, <1>3, <1>4, <1>5, <1>6 DEF Next, TopicsStep, TopicsMove

LEMMA ShapeInvariance == IInv /\ [Next]_vars => ShapeInv'
<1> SUFFICES ASSUME IInv, [Next]_vars PROVE ShapeInv'
  OBVIOUS
<1> USE DEF IInv
<1>0. topics' = [t \in TopicNames |-> topics'[t]]
  BY TopicsKept
<1>1. ASSUME NEW o \in Operators, TopicsMove(o)
      PROVE  ShapeInv'
  <2>1. ScriptOK(script'[o]) /\ Others(o)
    BY <1>1, TopicsIs
  <2>2. UNCHANGED <<config, running, constrained>>
    BY <1>1, TopicsIs
  <2> QED
    BY <1>0, <2>1, <2>2, ShapeOfOne
<1>2. ASSUME NEW o \in Operators, EndTopics(o) \/ EndDeploy(o) \/ ApplySchema(o)
      PROVE  ShapeInv'
  <2>1. PICK name, ok : Exit(o, name, ok)
    BY <1>2 DEF EndTopics, EndDeploy, ApplySchema
  <2>2. script'[o] = NoScript /\ Others(o)
    BY <2>1, ExitFields DEF Others
  <2>2a. ScriptOK(NoScript)
    BY DEF ScriptOK, NoScript, Fields, DeploySteps
  <2>3. config' = config /\ running' = running /\ constrained' \in BOOLEAN
    BY <1>2 DEF EndTopics, EndDeploy, ApplySchema, ShapeInv
  <2> QED
    BY <1>0, <2>2, <2>2a, <2>3 DEF ShapeInv, Others
<1>3. ASSUME NEW o \in Operators, StartDeploy(o)
      PROVE  ShapeInv'
  <2>1. script[o].ok \in BOOLEAN
    BY DEF ShapeInv, ScriptOK
  <2>2. ScriptOK(script'[o]) /\ Others(o)
    BY <1>3, <2>1, StartDeployIs, DeploymentAssumption DEF ScriptOK, DeploySteps
  <2>3. UNCHANGED <<config, running, constrained>>
    BY <1>3 DEF StartDeploy
  <2> QED
    BY <1>0, <2>2, <2>3, ShapeOfOne
<1>4. ASSUME NEW o \in Operators, GetConfig(o)
      PROVE  ShapeInv'
  <2>1. script[o].ok \in BOOLEAN /\ script[o].left \in Seq(Connectors) /\ script[o].left # << >>
    BY <1>4 DEF ShapeInv, ScriptOK, GetConfig, At, DeploySteps
  <2>2. ScriptOK(script'[o]) /\ Others(o)
    BY <1>4, <2>1, GetConfigIs DEF ScriptOK, DeploySteps
  <2>3. UNCHANGED <<config, running, constrained>>
    BY <1>4 DEF GetConfig
  <2> QED
    BY <1>0, <2>2, <2>3, ShapeOfOne
<1>5. ASSUME NEW o \in Operators, Deploy(o)
      PROVE  ShapeInv'
  <2>1. /\ script[o].ok \in BOOLEAN /\ script[o].left \in Seq(Connectors)
        /\ script[o].left # << >> /\ script[o].file = Head(script[o].left)
    BY <1>5 DEF ShapeInv, ScriptOK, Deploy, At, DeploySteps
  <2>2. Tail(script[o].left) \in Seq(Connectors)
    BY <2>1, TailCovers
  <2>3. ScriptOK(script'[o]) /\ Others(o)
    BY <1>5, <2>1, <2>2, DeployIs DEF ScriptOK, DeploySteps
  <2>4. config' = [c \in Connectors |-> config'[c]] /\ UNCHANGED <<running, constrained>>
    BY <1>5, DeployIs DEF Deploy, ShapeInv
  <2> QED
    BY <1>0, <2>3, <2>4 DEF ShapeInv, Others
<1>6. ASSUME NEW o \in Operators, WaitForRunning(o)
      PROVE  ShapeInv'
  <2>1. script[o].left \in Seq(Connectors) /\ script[o].left # << >>
    BY <1>6 DEF ShapeInv, ScriptOK, WaitForRunning, At, DeploySteps
  <2>2. Tail(script[o].left) \in Seq(Connectors)
    BY <2>1, TailCovers
  <2>3. ScriptOK(script'[o]) /\ Others(o)
    BY <1>6, <2>2, WaitIs DEF ScriptOK, DeploySteps
  <2>4. UNCHANGED <<config, running, constrained>>
    BY <1>6 DEF WaitForRunning
  <2> QED
    BY <1>0, <2>3, <2>4, ShapeOfOne
<1>7. ASSUME NEW c \in Connectors, RestartTasks(c)
      PROVE  ShapeInv'
  BY <1>7 DEF RestartTasks, ShapeInv
<1>8. ASSUME NEW n \in Nodes, MergeNode(n)
      PROVE  ShapeInv'
  BY <1>8 DEF MergeNode, ShapeInv
<1>9. CASE Meddle
  <2>1. ASSUME NEW t \in TopicNames, CreateElsewhere(t)
        PROVE  ShapeInv'
    BY <2>1 DEF CreateElsewhere, ShapeInv
  <2>2. ASSUME NEW name, Undo(name), config' = [c \in Connectors |-> config'[c]]
        PROVE  ShapeInv'
    <3>1. ASSUME NEW o \in Operators PROVE ScriptOK(script'[o])
      BY <2>2, UndoIs DEF ShapeInv, ScriptOK
    <3> QED
      BY <1>0, <2>2, <3>1 DEF Undo, ShapeInv
  <2>3. ASSUME NEW t \in TopicNames, DeleteTopic(t)
        PROVE  ShapeInv'
    BY <2>2, <2>3 DEF DeleteTopic, ShapeInv
  <2>4. ASSUME NEW c \in Connectors, NEW other, ChangeConnector(c, other)
        PROVE  ShapeInv'
    BY <2>2, <2>4 DEF ChangeConnector, ShapeInv
  <2> QED
    BY <1>9, <2>1, <2>3, <2>4 DEF Meddle
<1>10. CASE UNCHANGED vars
  BY <1>10 DEF vars, ShapeInv
<1> QED
  BY <1>1, <1>2, <1>3, <1>4, <1>5, <1>6, <1>7, <1>8, <1>9, <1>10
     DEF Next, TopicsStep, TopicsMove, DeployStep

LEMMA SchemaInvariance == IInv /\ [Next]_vars => SchemaInv'
<1> SUFFICES ASSUME IInv, [Next]_vars PROVE SchemaInv'
  OBVIOUS
<1> USE DEF IInv
(* A step of a script that leaves Connect and Neo4j alone.                 *)
<1>0. ASSUME NEW o \in Operators, Others(o),
             script'[o].pc \in DeploySteps => constrained,
             UNCHANGED <<claims, constrained, config, running, copies>>
      PROVE  SchemaInv'
  BY <1>0 DEF SchemaInv, Others
<1>1. ASSUME NEW o \in Operators, TopicsMove(o)
      PROVE  SchemaInv'
  <2>1. script'[o].pc = "topics" /\ Others(o)
    BY <1>1, TopicsIs
  <2>2. UNCHANGED <<claims, constrained, config, running, copies>>
    BY <1>1, TopicsIs
  <2> QED
    BY <1>0, <2>1, <2>2 DEF DeploySteps
<1>2. ASSUME NEW o \in Operators, NEW name, NEW ok, Exit(o, name, ok),
             name # "schema" \/ (ok => constrained'),
             constrained => constrained',
             UNCHANGED <<config, running, copies>>
      PROVE  SchemaInv'
  <2>1. script'[o].pc \notin DeploySteps /\ Others(o)
    BY <1>2, ExitFields DEF NoScript, DeploySteps, Others
  <2>2. "schema" \in claims' => constrained'
    BY <1>2 DEF Exit, SchemaInv
  <2> QED
    BY <1>2, <2>1, <2>2 DEF SchemaInv, Others
<1>3. ASSUME NEW o \in Operators, EndTopics(o) \/ EndDeploy(o)
      PROVE  SchemaInv'
  <2>1. Exit(o, "topics", script[o].ok) \/ Exit(o, "connectors", script[o].ok)
    BY <1>3 DEF EndTopics, EndDeploy
  <2>2. UNCHANGED <<constrained, config, running, copies>>
    BY <1>3 DEF EndTopics, EndDeploy
  <2> QED
    BY <1>2, <2>1, <2>2
<1>4. ASSUME NEW o \in Operators, ApplySchema(o)
      PROVE  SchemaInv'
  <2> DEFINE applied == constrained \/ DuplicateIds = {}
  <2>1. Exit(o, "schema", applied) /\ constrained' = applied
        /\ UNCHANGED <<config, running, copies>>
    BY <1>4 DEF ApplySchema
  <2>2. constrained => constrained'
    BY <2>1
  <2> HIDE DEF applied
  <2> QED
    BY <1>2, <2>1, <2>2
<1>5. ASSUME NEW o \in Operators, StartDeploy(o)
      PROVE  SchemaInv'
  <2>1. constrained /\ UNCHANGED <<claims, constrained, config, running, copies>>
    BY <1>5 DEF StartDeploy, SchemaInv
  <2> QED
    BY <1>0, <1>5, <2>1, StartDeployIs
<1>6. ASSUME NEW o \in Operators, GetConfig(o) \/ WaitForRunning(o)
      PROVE  SchemaInv'
  <2>1. constrained /\ UNCHANGED <<claims, constrained, config, running, copies>>
    BY <1>6 DEF GetConfig, WaitForRunning, SchemaInv, At, DeploySteps
  <2>2. Others(o)
    BY <1>6, GetConfigIs, WaitIs
  <2> QED
    BY <1>0, <2>1, <2>2
<1>7. ASSUME NEW o \in Operators, Deploy(o)
      PROVE  SchemaInv'
  <2>1. constrained /\ UNCHANGED <<claims, constrained, running, copies>>
    BY <1>7 DEF Deploy, SchemaInv, At, DeploySteps
  <2> QED
    BY <2>1 DEF SchemaInv
<1>8. ASSUME NEW c \in Connectors, RestartTasks(c)
      PROVE  SchemaInv'
  <2>1. running' # {} => constrained
    BY <1>8 DEF RestartTasks, SchemaInv
  <2> QED
    BY <1>8, <2>1 DEF RestartTasks, SchemaInv
<1>9. ASSUME NEW n \in Nodes, MergeNode(n)
      PROVE  SchemaInv'
  <2>1. constrained
    BY <1>9 DEF MergeNode, SchemaInv
  <2>2. copies' = [copies EXCEPT ![n] = IF @ > 0 THEN @ ELSE 1]
    BY <1>9, <2>1 DEF MergeNode
  <2>3. copies' \in [Nodes -> 0..1]
    BY <2>2 DEF SchemaInv
  <2> QED
    BY <1>9, <2>3 DEF MergeNode, SchemaInv
<1>10. CASE Meddle
  <2>1. ASSUME NEW t \in TopicNames, CreateElsewhere(t)
        PROVE  SchemaInv'
    BY <2>1 DEF CreateElsewhere, SchemaInv
  <2>2. ASSUME NEW name, Undo(name), config' = config \/ constrained
        PROVE  SchemaInv'
    <3>1. \A o \in Operators : script'[o].pc = script[o].pc
      BY <2>2, UndoIs
    <3>2. claims' \subseteq claims /\ UNCHANGED <<constrained, running, copies>>
      BY <2>2 DEF Undo
    <3> QED
      BY <2>2, <3>1, <3>2 DEF SchemaInv
  <2>3. ASSUME NEW t \in TopicNames, DeleteTopic(t)
        PROVE  SchemaInv'
    BY <2>2, <2>3 DEF DeleteTopic
  <2>4. ASSUME NEW c \in Connectors, NEW other, ChangeConnector(c, other)
        PROVE  SchemaInv'
    <3>1. constrained
      BY <2>4 DEF ChangeConnector, SchemaInv
    <3> QED
      BY <2>2, <2>4, <3>1 DEF ChangeConnector
  <2> QED
    BY <1>10, <2>1, <2>3, <2>4 DEF Meddle
<1>11. CASE UNCHANGED vars
  BY <1>11 DEF vars, SchemaInv
<1> QED
  BY <1>1, <1>3, <1>4, <1>5, <1>6, <1>7, <1>8, <1>9, <1>10, <1>11
     DEF Next, TopicsStep, TopicsMove, DeployStep

(* A connector that has its target's configuration is deployed.            *)
LEMMA TargetIsDeployed ==
  ASSUME NEW c \in Connectors, config' = [config EXCEPT ![c] = Target[c]],
         config = [d \in Connectors |-> config[d]]
  PROVE  Deployed(c)' /\ \A d \in Connectors : Deployed(d) => Deployed(d)'
<1>1. config'[c] = Target[c] /\ \A d \in Connectors \ {c} : config'[d] = config[d]
  BY Zenon
<1>2. Target[c] # None
  BY DeploymentAssumption
<1>3. Deployed(c)'
  BY <1>1, <1>2 DEF Deployed
<1>4. \A d \in Connectors \ {c} : Deployed(d) => Deployed(d)'
  BY <1>1 DEF Deployed
<1> QED
  BY <1>3, <1>4

LEMMA NoDriftIsDeployed ==
  ASSUME NEW c \in Connectors, config[c] # None, ~ Drift(config[c], Target[c])
  PROVE  Deployed(c)
  BY DEF Deployed, Drift

(* What the others have achieved stays achieved.                           *)
LEMMA AchievedStays ==
  ASSUME ShapeInv, DeployInv, NEW o \in Operators, Others(o),
         \A c \in Connectors : Deployed(c) => Deployed(c)',
         Achieved(script[o])',
         "connectors" \in claims' => "connectors" \in claims \/ \A c \in Connectors : Deployed(c)
  PROVE  DeployInv'
<1>1. ASSUME NEW p \in Operators \ {o} PROVE Achieved(script[p])'
  <2>1. script'[p] = script[p] /\ Achieved(script[p]) /\ ScriptOK(script[p])
    BY <1>1 DEF Others, DeployInv, ShapeInv
  <2>2. script[p].pc \in {"send", "wait"} => script[p].file \in Connectors
    BY <2>1, TailCovers DEF ScriptOK, DeploySteps
  <2> QED
    BY <2>1, <2>2 DEF Achieved
<1> QED
  BY <1>1 DEF DeployInv

LEMMA DeployInvariance == IInv /\ [Next]_vars => DeployInv'
<1> SUFFICES ASSUME IInv, [Next]_vars PROVE DeployInv'
  OBVIOUS
<1> USE DEF IInv
<1>0. ASSUME config' = config PROVE \A c \in Connectors : Deployed(c) => Deployed(c)'
  BY <1>0 DEF Deployed
<1>1. ASSUME NEW o \in Operators, TopicsMove(o)
      PROVE  DeployInv'
  <2>1. script'[o].pc = "topics" /\ Others(o)
    BY <1>1, TopicsIs
  <2>2. config' = config /\ claims' = claims
    BY <1>1, TopicsIs
  <2>3. Achieved(script[o])'
    BY <2>1 DEF Achieved, DeploySteps
  <2> QED
    BY <1>0, <2>1, <2>2, <2>3, AchievedStays
<1>2. ASSUME NEW o \in Operators, EndTopics(o) \/ ApplySchema(o) \/ EndDeploy(o)
      PROVE  DeployInv'
  <2>1. PICK name, ok : Exit(o, name, ok)
                        /\ (name = "connectors" => EndDeploy(o) /\ ok = script[o].ok)
    BY <1>2 DEF EndTopics, ApplySchema, EndDeploy
  <2>2. script'[o].pc = "none" /\ Others(o)
    BY <2>1, ExitFields DEF NoScript, Others
  <2>3. config' = config
    BY <1>2 DEF EndTopics, ApplySchema, EndDeploy
  <2>4. Achieved(script[o])'
    BY <2>2 DEF Achieved, DeploySteps
  <2>5. ASSUME EndDeploy(o), script[o].ok PROVE \A c \in Connectors : Deployed(c)
    <3>1. script[o].pc = "get" /\ script[o].left = << >> /\ Achieved(script[o])
      BY <2>5 DEF EndDeploy, At, DeployInv
    <3>2. Range(script[o].left) = {}
      BY <3>1 DEF Range
    <3> QED
      BY <2>5, <3>1, <3>2 DEF Achieved, DeploySteps
  <2>6. "connectors" \in claims' =>
            "connectors" \in claims \/ \A c \in Connectors : Deployed(c)
    BY <2>1, <2>5 DEF Exit
  <2> QED
    BY <1>0, <2>2, <2>3, <2>4, <2>6, AchievedStays
<1>3. ASSUME NEW o \in Operators, StartDeploy(o)
      PROVE  DeployInv'
  <2>1. script'[o].pc = "get" /\ script'[o].left = ConnectorFiles /\ Others(o)
    BY <1>3, StartDeployIs
  <2>2. config' = config /\ claims' = claims
    BY <1>3 DEF StartDeploy
  <2>3. Achieved(script[o])'
    BY <2>1 DEF Achieved, Connectors
  <2> QED
    BY <1>0, <2>1, <2>2, <2>3, AchievedStays
<1>4. ASSUME NEW o \in Operators, GetConfig(o)
      PROVE  DeployInv'
  <2>0. PICK c : c = Head(script[o].left)
    OBVIOUS
  <2>1. /\ script'[o].pc = "send" /\ script'[o].left = script[o].left
        /\ script'[o].file = c /\ script'[o].seen \in {None, config[c]}
        /\ script'[o].ok = script[o].ok /\ Others(o)
    BY <1>4, <2>0, GetConfigIs
  <2>2. config' = config /\ claims' = claims
    BY <1>4 DEF GetConfig
  <2>3. c \in Connectors /\ script[o].pc = "get" /\ Achieved(script[o])
    BY <1>4, <2>0, TailCovers DEF GetConfig, At, ShapeInv, ScriptOK, DeployInv, DeploySteps
  <2>4. config[c] # None /\ ~ Drift(config[c], Target[c]) => Deployed(c)'
    BY <1>0, <2>2, <2>3, NoDriftIsDeployed
  <2>5. script[o].ok => \A d \in Connectors \ Range(script[o].left) : Deployed(d)'
    BY <1>0, <2>2, <2>3 DEF Achieved, DeploySteps
  <2>6. Achieved(script[o])'
    BY <2>1, <2>4, <2>5 DEF Achieved
  <2> QED
    BY <1>0, <2>1, <2>2, <2>6, AchievedStays
<1>5. ASSUME NEW o \in Operators, Deploy(o)
      PROVE  DeployInv'
  <2> DEFINE c == Head(script[o].left)
  <2>1. /\ script[o].left \in Seq(Connectors) /\ script[o].left # << >>
        /\ script[o].file = c /\ script[o].pc = "send"
        /\ Achieved(script[o]) /\ claims' = claims
    BY <1>5 DEF Deploy, At, ShapeInv, ScriptOK, DeployInv, DeploySteps
  <2>2. c \in Connectors
    BY <2>1, TailCovers
  <2>3. \A d \in Connectors : Deployed(d) => Deployed(d)'
    BY <1>0, <1>5, <2>2, DeployIs, TargetIsDeployed DEF ShapeInv
  <2>4. Achieved(script[o])'
    <3>1. CASE script'[o].ok = FALSE
      BY <3>1 DEF Achieved
    <3>2. CASE /\ script'[o].pc = "wait" /\ script'[o].left = script[o].left
               /\ script'[o].file = script[o].file /\ script'[o].ok = script[o].ok
               /\ \/ config' = [config EXCEPT ![c] = Target[c]]
                  \/ script[o].seen # None /\ ~ Drift(script[o].seen, Target[c])
      <4>1. script[o].ok => Deployed(c)'
        BY <2>1, <2>2, <2>3, <3>2, TargetIsDeployed DEF Achieved, DeploySteps, ShapeInv
      <4> QED
        BY <2>1, <2>3, <3>2, <4>1 DEF Achieved, DeploySteps
    <3> QED
      BY <1>5, <3>1, <3>2, DeployIs
  <2> QED
    BY <1>5, <2>1, <2>3, <2>4, DeployIs, AchievedStays
<1>6. ASSUME NEW o \in Operators, WaitForRunning(o)
      PROVE  DeployInv'
  <2>1. /\ script[o].left \in Seq(Connectors) /\ script[o].left # << >>
        /\ script[o].file = Head(script[o].left) /\ script[o].pc = "wait"
        /\ Achieved(script[o]) /\ claims' = claims /\ config' = config
    BY <1>6 DEF WaitForRunning, At, ShapeInv, ScriptOK, DeployInv, DeploySteps
  <2>2. script[o].ok => \A c \in Connectors \ Range(Tail(script[o].left)) : Deployed(c)'
    BY <1>0, <2>1, TailCovers DEF Achieved, DeploySteps
  <2>3. /\ script'[o].pc = "get" /\ script'[o].left = Tail(script[o].left)
        /\ script'[o].ok => script[o].ok
    BY <1>6, WaitIs
  <2>4. Achieved(script[o])'
    BY <2>2, <2>3 DEF Achieved
  <2> QED
    BY <1>0, <1>6, <2>1, <2>4, WaitIs, AchievedStays
<1>7. CASE \/ \E c \in Connectors : RestartTasks(c)
           \/ \E n \in Nodes : MergeNode(n)
           \/ \E t \in TopicNames : CreateElsewhere(t)
           \/ UNCHANGED vars
  <2>1. UNCHANGED <<config, claims, script>>
    BY <1>7 DEF RestartTasks, MergeNode, CreateElsewhere, vars
  <2> QED
    BY <2>1 DEF DeployInv, Achieved, Deployed
<1>8. CASE \/ \E t \in TopicNames : DeleteTopic(t)
           \/ \E c \in Connectors, other \in OtherConfigs \cup {None} : ChangeConnector(c, other)
  <2>1. PICK name : Undo(name) /\ (name = "connectors" \/ config' = config)
    BY <1>8 DEF DeleteTopic, ChangeConnector
  <2>2. ASSUME NEW o \in Operators PROVE Achieved(script[o])'
    BY <2>1, UndoIs DEF Achieved, DeploySteps
  <2>3. "connectors" \in claims' => \A c \in Connectors : Deployed(c)'
    BY <1>0, <2>1 DEF Undo, DeployInv
  <2> QED
    BY <2>2, <2>3 DEF DeployInv
<1> QED
  BY <1>1, <1>2, <1>3, <1>4, <1>5, <1>6, <1>7, <1>8
     DEF Next, TopicsStep, TopicsMove, DeployStep, Meddle

(***************************************************************************)
(* What create_topics.py has achieved.                                     *)
(***************************************************************************)
LEMMA RemainingStays ==
  ASSUME IInv, NEW o \in Operators, Others(o),
         \A t \in TopicNames : topics[t] = Desired[t] => topics'[t] = Desired[t],
         Remaining(script[o])',
         "topics" \in claims' =>
             "topics" \in claims \/ \A t \in TopicNames : topics[t] = Desired[t]
  PROVE  TopicsInv'
<1>1. ASSUME NEW p \in Operators \ {o} PROVE Remaining(script[p])'
  BY <1>1 DEF Others, IInv, TopicsInv, Remaining
<1> QED
  BY <1>1 DEF IInv, TopicsInv

LEMMA TopicsInvariance == IInv /\ [Next]_vars => TopicsInv'
<1> SUFFICES ASSUME IInv, [Next]_vars PROVE TopicsInv'
  OBVIOUS
<1>0. ShapeInv /\ TopicsInv
  BY DEF IInv
<1>1. ASSUME NEW o \in Operators, DescribeTopics(o)
      PROVE  TopicsInv'
  <2>1. Others(o) /\ topics' = topics /\ claims' = claims
    BY <1>0, <1>1, DescribeIs DEF DescribeTopics
  <2>2. Remaining(script[o])'
    BY <1>0, <1>1, <2>1, DescribeIs DEF Remaining, Mismatch, TopicNames
  <2> QED
    BY <2>1, <2>2, RemainingStays
(* The message that is read is of no topic that is missing, or its topic is*)
(* created, or the script fails.                                           *)
<1>2. ASSUME NEW o \in Operators, PrintMessage(o) \/ CreateTopic(o) \/ CreateTopicFails(o)
      PROVE  TopicsInv'
  <2>1. PICK t : t = Head(script[o].left)
    OBVIOUS
  <2>2. /\ script[o].pc = "topics" /\ script[o].left # << >>
        /\ script[o].left \in Seq(TopicNames) /\ script[o].ok \in BOOLEAN
    BY <1>0, <1>2 DEF PrintMessage, CreateTopic, CreateTopicFails, AtMissing, At, ShapeInv, ScriptOK
  <2>3. t \in TopicNames /\ Range(script[o].left) \subseteq Range(Tail(script[o].left)) \cup {t}
    BY <2>1, <2>2, TailCovers
  <2>4. \A u \in TopicNames : topics[u] = Desired[u] => topics'[u] = Desired[u]
    <3>1. CASE topics' = topics
      BY <3>1
    <3>2. CASE topics[t] = None /\ topics' = [topics EXCEPT ![t] = Desired[t]]
      BY <1>0, <2>3, <3>2 DEF ShapeInv
    <3> QED
      BY <1>2, <2>1, <3>1, <3>2 DEF PrintMessage, CreateTopic, CreateTopicFails, Created
  <2>5. PICK ok \in BOOLEAN :
          /\ NextMessage(o, ok)
          /\ ok => t \notin script[o].seen \/ topics'[t] = Desired[t]
    <3>1. CASE PrintMessage(o)
      BY <2>1, <3>1 DEF PrintMessage
    <3>2. CASE CreateTopic(o)
      <4>1. topics[t] = None => topics'[t] = Desired[t]
        BY <1>0, <2>1, <2>3, <3>2 DEF CreateTopic, Created, ShapeInv
      <4> QED
        BY <2>1, <3>2, <4>1 DEF CreateTopic
    <3>3. CASE CreateTopicFails(o)
      BY <3>3 DEF CreateTopicFails
    <3> QED
      BY <1>2, <3>1, <3>2, <3>3
  <2>6. /\ Others(o) /\ script'[o].left = Tail(script[o].left)
        /\ script'[o].seen = script[o].seen /\ script'[o].ok = (script[o].ok /\ ok)
    BY <1>0, <2>5, MessageIs
  <2>7. Remaining(script[o])'
    <3>1. Remaining(script[o])
      BY <1>0 DEF TopicsInv
    <3> QED
      BY <2>2, <2>3, <2>4, <2>5, <2>6, <3>1 DEF Remaining
  <2>8. claims' = claims
    BY <1>2 DEF PrintMessage, CreateTopic, CreateTopicFails
  <2> QED
    BY <2>4, <2>6, <2>7, <2>8, RemainingStays
<1>3. ASSUME NEW o \in Operators, EndTopics(o) \/ ApplySchema(o) \/ EndDeploy(o)
      PROVE  TopicsInv'
  <2>1. PICK name, ok : Exit(o, name, ok) /\ (name = "topics" => EndTopics(o) /\ ok = script[o].ok)
    BY <1>3 DEF EndTopics, ApplySchema, EndDeploy
  <2>2. script'[o].pc = "none" /\ Others(o) /\ topics' = topics
    BY <1>0, <1>3, <2>1, ExitFields
       DEF NoScript, Others, EndTopics, ApplySchema, EndDeploy
  <2>3. ASSUME EndTopics(o), script[o].ok
        PROVE  \A t \in TopicNames : topics[t] = Desired[t]
    <3>1. script[o].pc = "topics" /\ script[o].left = << >> /\ Remaining(script[o])
      BY <1>0, <2>3 DEF EndTopics, At, TopicsInv
    <3>2. Range(script[o].left) = {}
      BY <3>1 DEF Range
    <3> QED
      BY <2>3, <3>1, <3>2 DEF Remaining
  <2>4. "topics" \in claims' =>
            "topics" \in claims \/ \A t \in TopicNames : topics[t] = Desired[t]
    BY <2>1, <2>3 DEF Exit
  <2> QED
    BY <2>2, <2>4, RemainingStays DEF Remaining
<1>4. ASSUME NEW o \in Operators,
             StartDeploy(o) \/ GetConfig(o) \/ Deploy(o) \/ WaitForRunning(o)
      PROVE  TopicsInv'
  <2>1. script'[o].pc # "topics" /\ Others(o)
    BY <1>0, <1>4, StartDeployIs, GetConfigIs, DeployIs, WaitIs
  <2>2. topics' = topics /\ claims' = claims
    BY <1>4 DEF StartDeploy, GetConfig, Deploy, WaitForRunning
  <2> QED
    BY <2>1, <2>2, RemainingStays DEF Remaining
<1>5. CASE \/ \E c \in Connectors : RestartTasks(c)
           \/ \E n \in Nodes : MergeNode(n)
           \/ UNCHANGED vars
  <2>1. UNCHANGED <<topics, claims, script>>
    BY <1>5 DEF RestartTasks, MergeNode, vars
  <2> QED
    BY <1>0, <2>1 DEF TopicsInv, Remaining
(* No topic is created that is as desired: it is there already.            *)
<1>6. ASSUME NEW t \in TopicNames, CreateElsewhere(t)
      PROVE  TopicsInv'
  <2>1. \A u \in TopicNames : topics[u] = Desired[u] => topics'[u] = Desired[u]
    BY <1>0, <1>6, DeploymentAssumption DEF CreateElsewhere, ShapeInv
  <2>2. UNCHANGED <<claims, script>>
    BY <1>6 DEF CreateElsewhere
  <2> QED
    BY <1>0, <2>1, <2>2 DEF TopicsInv, Remaining
<1>7. CASE \/ \E t \in TopicNames : DeleteTopic(t)
           \/ \E c \in Connectors, other \in OtherConfigs \cup {None} : ChangeConnector(c, other)
  <2>1. PICK name : Undo(name) /\ (name = "topics" \/ topics' = topics)
    BY <1>7 DEF DeleteTopic, ChangeConnector
  <2>2. ASSUME NEW o \in Operators PROVE Remaining(script[o])'
    BY <1>0, <2>1, UndoIs DEF Remaining
  <2>3. "topics" \in claims' => \A t \in TopicNames : topics'[t] = Desired[t]
    BY <1>0, <2>1 DEF Undo, TopicsInv
  <2> QED
    BY <2>2, <2>3 DEF TopicsInv
<1> QED
  BY <1>1, <1>2, <1>3, <1>4, <1>5, <1>6, <1>7
     DEF Next, TopicsStep, DeployStep, Meddle

(***************************************************************************)
(* The theorems.                                                           *)
(***************************************************************************)
LEMMA Invariance == Spec => []IInv
<1>1. IInv /\ [Next]_vars => IInv'
  BY ShapeInvariance, SchemaInvariance, DeployInvariance, TopicsInvariance DEF IInv
<1> QED
  BY InitIInv, <1>1, PTL DEF Spec

(* After an exit code 0 of create_topics.py that nobody has undone every   *)
(* topic has the layout of config/topics.yaml, although the layouts were   *)
(* read before the first topic was created, and whoever created topics, in *)
(* whatever layout, meanwhile or since.                                    *)
THEOREM TopicsClaimed == Spec => []TopicsAreAsClaimed
<1>1. IInv => TopicsAreAsClaimed
  BY DeploymentAssumption DEF IInv, TopicsInv, ShapeInv, TopicsAreAsClaimed
<1> QED
  BY Invariance, <1>1, PTL

(* After an exit code 0 of deploy_connectors.py that nobody has undone,    *)
(* Connect holds every target configuration, passwords apart, whatever was *)
(* there before, whoever deployed at the same time, and although each      *)
(* configuration was compared some time before it was sent.                *)
THEOREM ConnectorsClaimed == Spec => []ConnectorsAreAsClaimed
<1>1. IInv => ConnectorsAreAsClaimed
  BY DEF IInv, DeployInv, ConnectorsAreAsClaimed
<1> QED
  BY Invariance, <1>1, PTL

(* No id ever has two nodes, however many sinks merge it at a time, as long*)
(* as connectors are deployed after a successful create_neo4j_schema.py.   *)
THEOREM NodesUnique == Spec => []NodesAreUnique
<1>1. IInv => NodesAreUnique
  BY DEF IInv, SchemaInv, NodesAreUnique, DuplicateIds
<1> QED
  BY Invariance, <1>1, PTL
=============================================================================
