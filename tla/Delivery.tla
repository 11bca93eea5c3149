------------------------------- MODULE Delivery -------------------------------
(***************************************************************************)
(* The way of topics: workers dispatch them to a broker, which stores them *)
(* and relays them to a receiving worker; the receiver downloads snapshots *)
(* meanwhile, through another socket.  A worker may reach the broker by    *)
(* more than one channel.  Radio and dish sockets drop messages, a broker  *)
(* may be stopped and started again, and reconnecting loses what is under  *)
(* way.                                                                    *)
(***************************************************************************)
EXTENDS Broker

CONSTANTS
    Kinds,        \* the names and types of the topics that workers dispatch
    Subscribed,   \* the names the receiver is subscribed to
    Channels,     \* connections of each worker to the broker
    MayLose,      \* whether messages get lost
    MayRestart    \* which of "broker", "receiver", "worker" may be restarted

ASSUME DeliveryAssumption ==
    /\ \A k \in Kinds : k.name \in Names /\ k.type \in {"State", "Event"}
    /\ Subscribed \subseteq Names
    /\ MayLose \in BOOLEAN

VARIABLES
    seqNum,    \* of each worker
    up,        \* the channels to the broker, FIFO
    down,      \* topics relayed to the receiver, FIFO
    syncing,   \* the receiver's SyncMachine is in Download
    request,   \* its request is at the broker
    snap,      \* the reply under way, FIFO
    seen,      \* workerSeqNum_ of the receiver, which has no capacity
    events,    \* ghost: topics of each worker given by Delivery events, in their order
    elements,  \* ghost: topics given by SyncElement events
    relayed,   \* ghost: topics of each worker relayed by the broker's session
    last,      \* ghost: last topic stored for each name
    kept,      \* ghost: nothing was lost to the receiver since the last snapshot
    fresh      \* ghost: nor since it completed its last synchronization

ghosts == <<events, elements, relayed, last, kept, fresh>>
receiver == <<syncing, request, snap, seen>>
dvars == <<store, seqNum, up, down, receiver, ghosts>>

None == [w \in Workers |-> <<>>]
NoTopic == [worker |-> "none"]
Complete == [worker |-> "complete"]

DInit ==
    /\ BrInit
    /\ seqNum = [w \in Workers |-> 0]
    /\ up = [w \in Workers |-> [c \in Channels |-> <<>>]]
    /\ down = <<>> /\ snap = <<>>
    /\ syncing = FALSE /\ request = FALSE
    /\ seen = [w \in Workers |-> 0]
    /\ events = None /\ elements = {} /\ relayed = None
    /\ last = [n \in Names |-> NoTopic]
    /\ kept = FALSE /\ fresh = FALSE

\* Operation::Dispatch in the session of a worker: the topic goes to every
\* channel that is connected.
Dispatch(w) ==
    /\ seqNum[w] < MaxSeq
    /\ seqNum' = [seqNum EXCEPT ![w] = @ + 1]
    /\ \E k \in Kinds, lost \in IF MayLose THEN SUBSET Channels ELSE {{}} :
         LET t == [worker |-> w, seqNum |-> seqNum[w] + 1, name |-> k.name, type |-> k.type]
         IN  up' = [up EXCEPT ![w] = [c \in Channels |->
                      IF c \in lost THEN @[c] ELSE Append(@[c], t)]]
    /\ UNCHANGED <<store, down, receiver, ghosts>>

\* collectWorkerMessage() on an update.  The receiver joined one of the two
\* groups a topic is sent to, or none.
CollectWorkerMessage(w, c) ==
    /\ up[w][c] # <<>>
    /\ up' = [up EXCEPT ![w][c] = Tail(@)]
    /\ LET t == Head(up[w][c]) IN
         /\ StoreTopic(t)
         /\ IF Accepts(t)
            THEN /\ relayed' = [relayed EXCEPT ![w] = Append(@, t)]
                 /\ last' = [last EXCEPT ![t.name] = t]
                 /\ \E lost \in {FALSE, MayLose} :
                      /\ down' = IF lost \/ t.name \notin Subscribed THEN down ELSE Append(down, t)
                      /\ kept' = (kept /\ ~lost) /\ fresh' = (fresh /\ ~lost)
            ELSE UNCHANGED <<relayed, last, down, kept, fresh>>
    /\ UNCHANGED <<seqNum, receiver, events, elements>>

\* acceptTopic(): the number is ahead of the last one accepted from its worker.
AcceptTopic(t) == t.seqNum > seen[t.worker]

\* Variant: topics are not filtered.
CollectBrokerMessage_All ==
    /\ down # <<>>
    /\ down' = Tail(down)
    /\ LET t == Head(down) IN
         /\ seen' = [seen EXCEPT ![t.worker] = t.seqNum]
         /\ events' = [events EXCEPT ![t.worker] = Append(@, t)]
    /\ UNCHANGED <<store, seqNum, up, syncing, request, snap, elements, relayed, last, kept, fresh>>

\* collectBrokerMessage() on an update.
CollectBrokerMessage ==
    /\ down # <<>>
    /\ down' = Tail(down)
    /\ LET t == Head(down) IN
       IF AcceptTopic(t)
       THEN seen' = [seen EXCEPT ![t.worker] = t.seqNum] /\ events' = [events EXCEPT ![t.worker] = Append(@, t)]
       ELSE UNCHANGED <<seen, events>>
    /\ UNCHANGED <<store, seqNum, up, syncing, request, snap, elements, relayed, last, kept, fresh>>

\* The SyncMachine asks, for the first time or again; what the socket held of
\* an earlier reply is dropped with it.
SendSync ==
    /\ syncing' = TRUE
    /\ request' \in {TRUE, ~MayLose}
    /\ snap' = <<>>
    /\ fresh' = FALSE
    /\ UNCHANGED <<store, seqNum, up, down, seen, events, elements, relayed, last, kept>>

\* The SyncMachine fails or halts.
SyncError ==
    /\ syncing
    /\ syncing' = FALSE /\ request' = FALSE /\ snap' = <<>>
    /\ UNCHANGED <<store, seqNum, up, down, seen, ghosts>>

\* The ASSERT of replySnapshot().
NoEmptyTopic == \A i \in DOMAIN storTopic : storTopic[i].val # <<>>

\* replySnapshot(), which stops at a message that would block; when the ASSERT
\* fails the process is aborted instead.
ReplySnapshot ==
    /\ request /\ request' = FALSE
    /\ NoEmptyTopic
    /\ LET all == Append(Snapshot(Subscribed), Complete) IN
       \E n \in IF MayLose THEN 0 .. Len(all) ELSE {Len(all)} : snap' = SubSeq(all, 1, n)
    /\ kept' = TRUE
    /\ UNCHANGED <<store, seqNum, up, down, syncing, seen, events, elements, relayed, last, fresh>>

\* Variant: the event is only sent for an accepted topic.
RecvElement_Filtered ==
    /\ snap # <<>> /\ Head(snap) # Complete
    /\ snap' = Tail(snap)
    /\ LET t == Head(snap) IN
       IF AcceptTopic(t)
       THEN elements' = elements \cup {t} /\ seen' = [seen EXCEPT ![t.worker] = t.seqNum]
       ELSE UNCHANGED <<elements, seen>>
    /\ UNCHANGED <<store, seqNum, up, down, syncing, request, events, relayed, last, kept, fresh>>

\* recvBrokerSnapshot() on an element: the event does not depend on what
\* acceptTopic() returned.
RecvElement ==
    /\ snap # <<>> /\ Head(snap) # Complete
    /\ snap' = Tail(snap)
    /\ LET t == Head(snap) IN
         /\ elements' = elements \cup {t}
         /\ seen' = IF AcceptTopic(t) THEN [seen EXCEPT ![t.worker] = t.seqNum] ELSE seen
    /\ UNCHANGED <<store, seqNum, up, down, syncing, request, events, relayed, last, kept, fresh>>

RecvComplete ==
    /\ snap # <<>> /\ Head(snap) = Complete
    /\ snap' = Tail(snap)
    /\ syncing' = FALSE
    /\ fresh' = kept
    /\ UNCHANGED <<store, seqNum, up, down, request, seen, events, elements, relayed, last, kept>>

\* connClose() and connOpen() of the receiver, when its ConnMachine times out.
Reconnect ==
    /\ MayLose /\ down # <<>>
    /\ down' = <<>> /\ kept' = FALSE /\ fresh' = FALSE
    /\ UNCHANGED <<store, seqNum, up, receiver, events, elements, relayed, last>>

\* A new BrokerSession starts with an empty storage.
RestartBroker ==
    /\ "broker" \in MayRestart
    /\ storTopic' = <<>> /\ storWorker' = <<>>
    /\ up' = [w \in Workers |-> [c \in Channels |-> <<>>]]
    /\ down' \in {<<>>, down} /\ snap' \in {<<>>, snap} /\ request' = FALSE
    /\ relayed' = None /\ last' = [n \in Names |-> NoTopic]
    /\ kept' = FALSE /\ fresh' = FALSE
    /\ UNCHANGED <<seqNum, syncing, seen, events, elements>>

\* A new WorkerSession has seen nothing.
RestartReceiver ==
    /\ "receiver" \in MayRestart
    /\ down' = <<>> /\ snap' = <<>> /\ syncing' = FALSE /\ request' = FALSE
    /\ seen' = [w \in Workers |-> 0]
    /\ events' = None /\ elements' = {}
    /\ kept' = FALSE /\ fresh' = FALSE
    /\ UNCHANGED <<store, seqNum, up, relayed, last>>

\* The process of a worker with a fixed uuid, restarted without restoring its
\* sequence number; bounded to when none of its topics is under way.
RestartWorker(w) ==
    /\ "worker" \in MayRestart
    /\ seqNum[w] > 0
    /\ down = <<>> /\ \A c \in Channels : up[w][c] = <<>>
    /\ seqNum' = [seqNum EXCEPT ![w] = 0]
    /\ UNCHANGED <<store, up, down, receiver, ghosts>>

DNext ==
    \/ \E w \in Workers : Dispatch(w) \/ RestartWorker(w)
    \/ \E w \in Workers, c \in Channels : CollectWorkerMessage(w, c)
    \/ CollectBrokerMessage \/ Reconnect
    \/ SendSync \/ SyncError \/ ReplySnapshot \/ RecvElement \/ RecvComplete
    \/ RestartBroker \/ RestartReceiver

DSpec == DInit /\ [][DNext]_dvars

-----------------------------------------------------------------------------
Known == elements \cup UNION {{events[w][i] : i \in DOMAIN events[w]} : w \in Workers}

Increasing(q) == \A i, j \in DOMAIN q : i < j => q[i].seqNum < q[j].seqNum

\* A session of a broker relays each topic of a worker at most once and never
\* an older one after a newer, whatever the channels deliver late or twice.
RelayedOnce == \A w \in Workers : Increasing(relayed[w])

\* A session of a worker gives each topic at most once by a Delivery event,
\* and never an older one after a newer.
DeliveredOnce == \A w \in Workers : Increasing(events[w])

\* What a snapshot has of a name is the last topic stored for that name, by
\* whichever worker, also after updates in any order.
BackIsLatest ==
    \A i \in DOMAIN storTopic :
        storTopic[i].val # <<>> => Back(storTopic[i].val) = last[storTopic[i].key]

\* After a complete synchronization, and once all that was relayed is read,
\* the receiver was given the last state of each name that the broker has:
\* what it discards for its sequence number is never the last it could get.
Converges ==
    fresh /\ down = <<>> =>
        \A i \in DOMAIN storTopic :
            LET t == Back(storTopic[i].val) IN
            storTopic[i].val # <<>> /\ t.type = "State" /\ t.name \in Subscribed => t \in Known

\* When a worker asks for a snapshot no name is stored without topics.
SnapshotAsserted == request => NoEmptyTopic
=============================================================================
