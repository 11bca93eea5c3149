------------------------------ MODULE Connection ------------------------------
(***************************************************************************)
(* A worker's ConnMachine against the keepalive of a broker, over sockets  *)
(* that lose messages.  The broker sends BrokerHugz from the periodic      *)
(* timer zhugz_, which the first WorkerHugz it receives starts; the worker *)
(* announces itself with WorkerHugz and takes BrokerHugz for a ping.       *)
(* The worker's session has one thread.  When a timeout closes and opens a *)
(* socket that was ready in the same batch, the thread then receives from  *)
(* it and waits there, serving nothing else, for a message to come.        *)
(***************************************************************************)
EXTENDS ConnMachine, Naturals

CONSTANT MaxMsgs   \* bound on the messages in flight, each way

ASSUME ConnectionAssumption == MaxMsgs \in Nat \ {0}

VARIABLES
    brUp,                  \* a BrokerSession is started
    hugzArmed, hugzTick,   \* its zhugz_
    up,                    \* WorkerHugz in flight
    down,                  \* BrokerHugz in flight
    heard, topics,         \* BrokerHugz, and topics, that zdelivery_ has received
    thread                 \* of the worker's session: in its "loop", or waiting
                           \* in a receive from "delivery" or "snapshot"

netVars == <<brUp, hugzArmed, hugzTick, up, down, heard, topics, thread>>
cvars == <<vars, netVars>>

Hugz == INSTANCE TimerSpec WITH once <- FALSE, armed <- hugzArmed, tick <- hugzTick

CInit ==
    /\ Init /\ brUp = FALSE /\ Hugz!TInit
    /\ up = 0 /\ down = 0 /\ heard = 0 /\ topics = 0
    /\ thread = "loop"

\* A message more in flight, unless the bound drops it.
Sent(n) == IF n < MaxMsgs THEN n + 1 ELSE n

Called(c) == \E i \in DOMAIN calls' : calls'[i] = c

\* What the callbacks of the worker's step do: sendAnnounce() reaches a broker
\* that is there; connClose() drops what zdelivery_ had received.
Effects ==
    /\ up' = IF brUp /\ Called("pong") THEN Sent(up) ELSE up
    /\ down' = IF Called("close") THEN 0 ELSE down
    /\ heard' = IF Called("close") THEN 0 ELSE heard
    /\ topics' = IF Called("close") THEN 0 ELSE topics
    /\ UNCHANGED <<brUp, hugzArmed, hugzTick>>

\* A handler that the loop calls and that returns.
Served == Effects /\ thread = "loop" /\ thread' = "loop"

WorkerStart == OnStart /\ Served
WorkerStop == OnStop /\ Served
RetryFired == OnTimerRetryFired /\ Served

\* zdelivery_ may be in the batch too, if it has a message.
TimeoutFired ==
    /\ thread = "loop"
    /\ OnTimerTimeoutFired /\ Effects
    /\ thread' = "loop" \/ (heard + topics > 0 /\ thread' = "delivery")

Expiry == (RetryExpires \/ TimeoutExpires) /\ Effects /\ UNCHANGED thread

\* socketReady() on zdelivery_ gets its message.
Receives == sock /\ thread \in {"loop", "delivery"} /\ thread' = "loop"

\* collectBrokerMessage() on BrokerHugz, and on a topic.
Ping ==
    /\ heard > 0 /\ Receives
    /\ OnPing
    /\ heard' = heard - 1
    /\ up' = IF brUp THEN Sent(up) ELSE up
    /\ UNCHANGED <<brUp, hugzArmed, hugzTick, down, topics>>

TopicRead ==
    /\ topics > 0 /\ Receives
    /\ topics' = topics - 1
    /\ UNCHANGED <<vars, brUp, hugzArmed, hugzTick, up, down, heard>>

\* The same for zsnapshot_, which the timeout of a download closes and opens
\* (module Synchronization): the receive returns when a broker answers.
SnapshotBlocks ==
    /\ sock /\ thread = "loop" /\ thread' = "snapshot"
    /\ UNCHANGED <<vars, brUp, hugzArmed, hugzTick, up, down, heard, topics>>

SnapshotReturns ==
    /\ brUp /\ thread = "snapshot" /\ thread' = "loop"
    /\ UNCHANGED <<vars, brUp, hugzArmed, hugzTick, up, down, heard, topics>>

-----------------------------------------------------------------------------
(* The broker.                                                             *)

\* A new BrokerSession binds its sockets; its timer is a new one.
BrokerStart ==
    /\ ~brUp
    /\ brUp' = TRUE
    /\ UNCHANGED <<vars, hugzArmed, hugzTick, up, down, heard, topics, thread>>

\* The session ends, by Stop or with its process, and its timer with it.
BrokerEnd ==
    /\ brUp
    /\ brUp' = FALSE
    /\ hugzArmed' = FALSE /\ hugzTick' = FALSE
    /\ up' = 0
    /\ UNCHANGED <<vars, down, heard, topics, thread>>

\* Variant: the keepalive is never started.
Announced_NoStart ==
    /\ brUp /\ up > 0
    /\ up' = up - 1
    /\ UNCHANGED <<vars, brUp, hugzArmed, hugzTick, down, heard, topics, thread>>

\* collectWorkerMessage() on WorkerHugz.
Announced ==
    /\ brUp /\ up > 0
    /\ up' = up - 1
    /\ IF hugzArmed THEN UNCHANGED <<hugzArmed, hugzTick>> ELSE Hugz!TStart
    /\ UNCHANGED <<vars, brUp, down, heard, topics, thread>>

HugzExpires == Hugz!TFire /\ UNCHANGED <<vars, brUp, up, down, heard, topics, thread>>

\* socketReady() on zhugz_, and sendHugz(): it reaches a worker whose socket
\* is open.
SendHugz ==
    /\ Hugz!TConsume
    /\ down' = IF sock THEN Sent(down) ELSE down
    /\ UNCHANGED <<vars, brUp, up, heard, topics, thread>>

\* A topic of some worker is relayed.
Relay ==
    /\ brUp /\ sock
    /\ topics' = Sent(topics)
    /\ UNCHANGED <<vars, brUp, hugzArmed, hugzTick, up, down, heard, thread>>

\* The transport loses a message.
Lose ==
    /\ \/ up > 0 /\ up' = up - 1 /\ down' = down
       \/ down > 0 /\ down' = down - 1 /\ up' = up
    /\ UNCHANGED <<vars, brUp, hugzArmed, hugzTick, heard, topics, thread>>

\* A keepalive reaches zdelivery_ and waits there.
Arrive ==
    /\ down > 0 /\ sock
    /\ down' = down - 1 /\ heard' = Sent(heard)
    /\ UNCHANGED <<vars, brUp, hugzArmed, hugzTick, up, topics, thread>>

CNext ==
    \/ WorkerStart \/ WorkerStop \/ RetryFired \/ TimeoutFired \/ Expiry
    \/ Ping \/ TopicRead \/ SnapshotBlocks \/ SnapshotReturns
    \/ BrokerStart \/ BrokerEnd \/ Announced \/ HugzExpires \/ SendHugz \/ Relay
    \/ Lose \/ Arrive

CSpec == CInit /\ [][CNext]_cvars

\* Both sessions run and time passes.  The worker's steps need its thread in the
\* loop, or at the receive: with strong fairness, since whatever is ready when the
\* thread comes back is in the next batch.  A direction in which messages are sent
\* again and again lets one through again and again.  Nobody is obliged to start
\* or to stop a session, nor a broker to send what a receive waits for.
CFairSpec ==
    /\ CSpec
    /\ SF_cvars(RetryFired) /\ SF_cvars(TimeoutFired) /\ SF_cvars(TopicRead)
    /\ WF_cvars(RetryExpires /\ Expiry) /\ WF_cvars(TimeoutExpires /\ Expiry)
    /\ WF_cvars(HugzExpires) /\ WF_cvars(SendHugz)
    /\ SF_cvars(Ping) /\ SF_cvars(Arrive) /\ SF_cvars(Announced)

-----------------------------------------------------------------------------
\* No ping reaches a machine that has no open socket to answer on, and the thread
\* waits for no message of a socket that is closed.
NoPingHalted ==
    state = "Halted" => down = 0 /\ heard = 0 /\ topics = 0 /\ thread = "loop"

\* A worker that runs is connected again and again to a broker that runs,
\* whatever was lost and however often the broker was restarted before, unless its
\* thread waits for ever in a receive: from zsnapshot_, or from zdelivery_ while no
\* announcement got through and so nothing makes the broker send.
Reconnects ==
    <>[](brUp /\ state # "Halted") =>
        \/ []<>(state = "Stable")
        \/ <>[](thread = "snapshot")
        \/ <>[](thread = "delivery" /\ ~hugzArmed)

\* A broker that is gone for good is noticed for good, unless the worker's thread
\* waits for ever for a snapshot.
NoticesLoss == <>[]~brUp => <>[](state # "Stable") \/ <>[](thread = "snapshot")
=============================================================================
