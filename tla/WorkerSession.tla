---------------------------- MODULE WorkerSession ----------------------------
(***************************************************************************)
(* The loop of a worker's session: one thread serves operations, the two   *)
(* network sockets and the timers of the connection and synchronization    *)
(* machines.  A wait returns every ready item at once, in the order of the *)
(* ZMQ poller, to whose end a socket goes each time it is opened, and the  *)
(* loop then serves the items one by one without looking again.            *)
(***************************************************************************)
EXTENDS Naturals, Sequences, Functions, Selecting

CONSTANTS
    SeqSize,   \* 2^8 in the code, SyncMachine::seqn_t is an uint8_t
    MaxOps,    \* bound on the operations waiting in zopr_
    MaxMsgs    \* bound on the messages waiting in each network socket

VARIABLES
    cstate, csock, tryArmed, tryTick, ctmoArmed, ctmoTick, ccalls,
               \* conn_; csock: zdelivery_ and zdispatch_ are open
    sstate, indexCurr, indexNext, retryCurr, seqNum, stmoArmed, stmoTick,
    sopen, sclosed, asked,
               \* sync_; sopen: whether zsnapshot_, of index 0, is open
    sub,       \* what the runner has sent so far: nothing, Start, also Stop
    ops,       \* zopr_
    deliv,     \* zdelivery_
    snap,      \* zsnapshot_
    stage,     \* what the broker sends next for the last request
    items,     \* the ZMQ poller
    batch,     \* the events of the last wait() that are still to be served
    mode,      \* of run(): in the loop, returned or left by an exception
    isOnline, isSnapshot,
    seen       \* ghost: what the events sent so far tell the application

connVars == <<cstate, csock, tryArmed, tryTick, ctmoArmed, ctmoTick, ccalls>>
syncVars == <<sstate, indexCurr, indexNext, retryCurr, seqNum, stmoArmed, stmoTick,
              sopen, sclosed, asked>>
loopVars == <<items, isOnline, isSnapshot, seen>>
wvars == <<connVars, syncVars, loopVars, sub, ops, deliv, snap, stage, batch, mode>>

Conn == INSTANCE ConnMachine WITH state <- cstate, sock <- csock, tmoArmed <- ctmoArmed,
            tmoTick <- ctmoTick, calls <- ccalls
Sync == INSTANCE SyncMachine WITH MaxIndex <- 0, MaxRetry <- 1, SeqMod <- SeqSize, state <- sstate,
            armed <- stmoArmed, tick <- stmoTick, open <- sopen, closed <- sclosed

-----------------------------------------------------------------------------
(* What an application may make of the events: e is in order after s.      *)

Quiet == [up |-> FALSE, online |-> FALSE, loading |-> FALSE, ok |-> TRUE]

InOrder(s, e) ==
    CASE e = "Started"         -> ~s.up
      [] e = "Stopped"         -> s.up /\ ~s.online /\ ~s.loading
      [] e = "Online"          -> s.up /\ ~s.online
      [] e = "Offline"         -> s.up /\ s.online
      [] e = "SyncDownloadOn"  -> s.up /\ ~s.loading
      [] e = "Delivery"        -> s.up
      [] OTHER                 -> s.up /\ s.loading

Observe(s, e) ==
    [up      |-> IF e = "Stopped" THEN FALSE ELSE s.up \/ e = "Started",
     online  |-> IF e = "Offline" THEN FALSE ELSE s.online \/ e = "Online",
     loading |-> IF e = "SyncDownloadOff" THEN FALSE ELSE s.loading \/ e = "SyncDownloadOn",
     ok      |-> s.ok /\ InOrder(s, e)]

Observed(s, es) ==
    LET upTo[i \in 0 .. Len(es)] == IF i = 0 THEN s ELSE Observe(upTo[i - 1], es[i])
    IN  upTo[Len(es)]

\* sendEvent() for each event of a step, in order.
SendEvents(es) == seen' = Observed(seen, es)

-----------------------------------------------------------------------------
(* The callbacks of the two machines.                                      *)

Called(c) == \E i \in DOMAIN ccalls' : ccalls'[i] = c

\* onConnChanged() and notifyConnectionUpdate().
ConnEvents ==
    LET isUp == cstate' = "Stable" IN
    IF ~Called("change") \/ isUp = isOnline THEN <<>>
    ELSE IF isUp THEN <<"Online">> ELSE <<"Offline">>

\* Variant: the end of the download is notified before its outcome.
SyncEvents_OffFirst ==
    LET off == IF isSnapshot THEN <<"SyncDownloadOff">> ELSE <<>> IN
    (IF sstate' = sstate THEN <<>> ELSE
     CASE sstate' = "Download" -> IF isSnapshot THEN <<>> ELSE <<"SyncDownloadOn">>
       [] sstate' = "Synced"   -> off \o <<"SyncSuccess">>
       [] sstate' = "Failed"   -> off \o <<"SyncError">>
       [] OTHER                -> off \o (IF isSnapshot THEN <<"SyncError">> ELSE <<>>))
    \o (IF asked' THEN <<"SyncRequest">> ELSE <<>>)

\* onSyncChanged() and notifySnapshotDownload(), and then sendSync().
SyncEvents ==
    LET off == IF isSnapshot THEN <<"SyncDownloadOff">> ELSE <<>> IN
    (IF sstate' = sstate THEN <<>> ELSE
     CASE sstate' = "Download" -> IF isSnapshot THEN <<>> ELSE <<"SyncDownloadOn">>
       [] sstate' = "Synced"   -> <<"SyncSuccess">> \o off
       [] sstate' = "Failed"   -> <<"SyncError">> \o off
       [] OTHER                -> (IF isSnapshot THEN <<"SyncError">> ELSE <<>>) \o off)
    \o (IF asked' THEN <<"SyncRequest">> ELSE <<>>)

\* Variant: a socket that is closed stays in the poller.
Reopened_Kept(list, s, close, opened) ==
    IF opened THEN Append(list, s) ELSE list

\* zmq_poller_remove(), for a socket that is in the poller.
Removed(list, s) ==
    LET at == CHOOSE i \in DOMAIN list : list[i] = s
    IN  SubSeq(list, 1, at - 1) \o SubSeq(list, at + 1, Len(list))

\* updateOnClose() removes a socket from the poller, updateOnOpen() adds it.
Reopened(list, s, close, opened) ==
    LET left == IF close /\ s \in Range(list) THEN Removed(list, s) ELSE list
    IN  IF opened THEN Append(left, s) ELSE left

\* connClose() and connOpen(): closing drops what the socket had received.
ConnSockets(list) == Reopened(list, "delivery", Called("close"), Called("open"))
ConnQueue(q) == IF Called("close") THEN <<>> ELSE q

\* snapClose() and snapOpen().
SyncSockets(list) ==
    Reopened(list, "snapshot", sclosed' # {}, sopen' # {} /\ (sopen = {} \/ sclosed' # {}))
SyncQueue(q) == IF sclosed' # {} THEN <<>> ELSE q

\* notifySnapshotDownload() is told true in Download and false elsewhere.
Downloading == sstate' = "Download"

\* A step of conn_ and one of sync_; before are the events the handler sends
\* before it calls the machine.
ConnStep(before) ==
    /\ items' = ConnSockets(items)
    /\ isOnline' = IF Called("change") THEN cstate' = "Stable" ELSE isOnline
    /\ SendEvents(before \o ConnEvents)
    /\ UNCHANGED <<syncVars, isSnapshot, snap, stage>>

SyncStep(before) ==
    /\ items' = SyncSockets(items)
    /\ isSnapshot' = Downloading
    /\ stage' = IF asked' THEN "begin" ELSE IF sclosed' # {} THEN "none" ELSE stage
    /\ SendEvents(before \o SyncEvents)
    /\ UNCHANGED <<connVars, isOnline, deliv>>

-----------------------------------------------------------------------------
(* run(): the batch of a wait() is served from its head.                   *)

\* The session's constructor, and createPoller(): network sockets are closed.
WInit ==
    /\ Conn!Init /\ Sync!Init
    /\ sub = "none" /\ ops = <<>> /\ deliv = <<>> /\ snap = <<>> /\ stage = "none"
    /\ items = <<"oper", "retry", "connTimeout", "syncTimeout">>
    /\ batch = <<>> /\ mode = "loop"
    /\ isOnline = FALSE /\ isSnapshot = FALSE /\ seen = Quiet

Readable(i) ==
    CASE i = "oper"        -> ops # <<>>
      [] i = "delivery"    -> deliv # <<>>
      [] i = "snapshot"    -> snap # <<>>
      [] i = "retry"       -> tryTick
      [] i = "connTimeout" -> ctmoTick
      [] OTHER             -> stmoTick

\* zmq_poller_wait_all().
Wait ==
    /\ mode = "loop" /\ batch = <<>>
    /\ batch' = Selected(items, {i \in DOMAIN items : Readable(items[i])})
    /\ batch' # <<>>
    /\ UNCHANGED <<connVars, syncVars, loopVars, sub, ops, deliv, snap, stage, mode>>

Turn(i) == mode = "loop" /\ batch # <<>> /\ Head(batch) = i

\* operationReady() on Start.
StartReady ==
    /\ Turn("oper") /\ Head(ops) = "Start"
    /\ Conn!OnStart
    /\ ConnStep(<<"Started">>)
    /\ deliv' = ConnQueue(deliv)
    /\ ops' = Tail(ops) /\ batch' = Tail(batch)
    /\ UNCHANGED <<sub, mode>>

\* Variant: the loop goes on with the batch.
StopReady_Continues ==
    /\ Turn("oper") /\ Head(ops) = "Stop"
    /\ Conn!OnStop
    /\ IF sstate = "Halted" THEN UNCHANGED syncVars ELSE Sync!OnHalt
    /\ items' = IF sstate = "Halted" THEN ConnSockets(items) ELSE SyncSockets(ConnSockets(items))
    /\ isOnline' = FALSE /\ isSnapshot' = FALSE
    /\ SendEvents(ConnEvents \o (IF sstate = "Halted" THEN <<>> ELSE SyncEvents) \o <<"Stopped">>)
    /\ deliv' = <<>> /\ snap' = <<>> /\ stage' = "none"
    /\ ops' = Tail(ops) /\ batch' = Tail(batch)
    /\ UNCHANGED <<sub, mode>>

\* operationReady() on Stop halts the machines, the connection first, and the
\* loop is left.
StopReady ==
    /\ Turn("oper") /\ Head(ops) = "Stop"
    /\ Conn!OnStop
    /\ IF sstate = "Halted" THEN UNCHANGED syncVars ELSE Sync!OnHalt
    /\ items' = IF sstate = "Halted" THEN ConnSockets(items) ELSE SyncSockets(ConnSockets(items))
    /\ isOnline' = FALSE /\ isSnapshot' = FALSE
    /\ SendEvents(ConnEvents \o (IF sstate = "Halted" THEN <<>> ELSE SyncEvents) \o <<"Stopped">>)
    /\ deliv' = <<>> /\ snap' = <<>> /\ stage' = "none"
    /\ ops' = Tail(ops) /\ batch' = <<>> /\ mode' = "ended"
    /\ sub' = sub

\* operationReady() on Sync: nothing to do while a download is on.
SyncReady ==
    /\ Turn("oper") /\ Head(ops) = "Sync"
    /\ IF sstate = "Download"
       THEN UNCHANGED <<connVars, syncVars, loopVars, deliv, snap, stage>>
       ELSE Sync!OnSync /\ SyncStep(<<>>) /\ snap' = SyncQueue(snap)
    /\ ops' = Tail(ops) /\ batch' = Tail(batch)
    /\ UNCHANGED <<sub, mode>>

\* zdelivery_->recv() blocks while there is nothing to receive, and
\* collectBrokerMessage().  Whether a topic is accepted is Delivery's matter.
DeliveryReady ==
    /\ Turn("delivery") /\ deliv # <<>>
    /\ IF Head(deliv) = "hugz"
       THEN Conn!OnPing /\ ConnStep(<<>>)
       ELSE /\ \E es \in {<<>>, <<"Delivery">>} : SendEvents(es)
            /\ UNCHANGED <<connVars, syncVars, items, isOnline, isSnapshot, snap, stage>>
    /\ deliv' = Tail(deliv) /\ batch' = Tail(batch)
    /\ UNCHANGED <<sub, ops, mode>>

\* zsnapshot_->recv() and recvBrokerSnapshot().
SnapshotReady ==
    /\ Turn("snapshot") /\ sopen # {} /\ snap # <<>>
    /\ LET m == Head(snap) IN
         IF m.type = "begin"
         THEN /\ SendEvents(<<"SyncBegin">>)
              /\ UNCHANGED <<connVars, syncVars, items, isOnline, isSnapshot, deliv, stage>>
         ELSE /\ Sync!OnReply(0, m.seqn, IF m.type = "elem" THEN "Snapshot" ELSE "Complete")
              /\ SyncStep(IF m.type = "elem" THEN <<"SyncElement">> ELSE <<>>)
    /\ snap' = Tail(snap) /\ batch' = Tail(batch)
    /\ UNCHANGED <<sub, ops, mode>>

RetryReady ==
    /\ Turn("retry")
    /\ Conn!OnTimerRetryFired
    /\ ConnStep(<<>>)
    /\ deliv' = ConnQueue(deliv) /\ batch' = Tail(batch)
    /\ UNCHANGED <<sub, ops, mode>>

ConnTimeoutReady ==
    /\ Turn("connTimeout")
    /\ Conn!OnTimerTimeoutFired
    /\ ConnStep(<<>>)
    /\ deliv' = ConnQueue(deliv) /\ batch' = Tail(batch)
    /\ UNCHANGED <<sub, ops, mode>>

SyncTimeoutReady ==
    /\ Turn("syncTimeout")
    /\ Sync!OnTimerTimeoutFired
    /\ SyncStep(<<>>)
    /\ snap' = SyncQueue(snap) /\ batch' = Tail(batch)
    /\ UNCHANGED <<sub, ops, mode>>

\* An exception leaves run(): sockets could not be opened, or recv() was
\* called on a closed one.
Throws ==
    /\ mode = "loop" /\ batch # <<>>
    /\ \/ Turn("oper") /\ Head(ops) \in {"Start", "Sync"}
       \/ Turn("connTimeout") \/ Turn("syncTimeout")
       \/ Turn("snapshot") /\ sopen = {}
    /\ mode' = "thrown" /\ batch' = <<>>
    /\ UNCHANGED <<connVars, syncVars, loopVars, sub, ops, deliv, snap, stage>>

-----------------------------------------------------------------------------
(* The other threads and the network.                                      *)

\* The runner sends Start, then requests, and last Stop (module Runner); a
\* Dispatch touches nothing modelled here.
Submit ==
    /\ Len(ops) < MaxOps
    /\ \/ sub = "none" /\ sub' = "Start" /\ ops' = Append(ops, "Start")
       \/ sub = "Start" /\ sub' = sub /\ ops' = Append(ops, "Sync")
       \/ sub = "Start" /\ sub' = "Stop" /\ ops' = Append(ops, "Stop")
    /\ UNCHANGED <<connVars, syncVars, loopVars, deliv, snap, stage, batch, mode>>

\* The io thread, in the middle of whatever the session does.
Expiry ==
    /\ mode = "loop"
    /\ \/ (Conn!RetryExpires \/ Conn!TimeoutExpires) /\ UNCHANGED syncVars
       \/ Sync!TimeoutExpires /\ UNCHANGED connVars
    /\ UNCHANGED <<loopVars, sub, ops, deliv, snap, stage, batch, mode>>

\* A keepalive or a topic arrives.
Arrives ==
    /\ csock /\ Len(deliv) < MaxMsgs
    /\ \E m \in {"hugz", "updt"} : deliv' = Append(deliv, m)
    /\ UNCHANGED <<connVars, syncVars, loopVars, sub, ops, snap, stage, batch, mode>>

\* The broker's answer to the last request: begin, elements, completion.
Answers ==
    /\ sopen # {} /\ Len(snap) < MaxMsgs
    /\ \/ stage = "begin" /\ stage' = "elems" /\ snap' = Append(snap, [type |-> "begin", seqn |-> seqNum])
       \/ stage = "elems" /\ stage' = stage /\ snap' = Append(snap, [type |-> "elem", seqn |-> seqNum])
       \/ stage = "elems" /\ stage' = "none" /\ snap' = Append(snap, [type |-> "compl", seqn |-> seqNum])
    /\ UNCHANGED <<connVars, syncVars, loopVars, sub, ops, deliv, batch, mode>>

Serve ==
    \/ StartReady \/ StopReady \/ SyncReady \/ DeliveryReady \/ SnapshotReady
    \/ RetryReady \/ ConnTimeoutReady \/ SyncTimeoutReady

WNext == Wait \/ Serve \/ Throws \/ Submit \/ Expiry \/ Arrives \/ Answers

WSpec == WInit /\ [][WNext]_wvars

-----------------------------------------------------------------------------
\* The poller has exactly the open sockets and the timers, each once, however
\* the machines closed and reopened them since the poller was created.
PolledIsOpen ==
    /\ IsInjective(items)
    /\ Range(items) = {"oper", "retry", "connTimeout", "syncTimeout"}
                      \cup (IF csock THEN {"delivery"} ELSE {})
                      \cup (IF sopen # {} THEN {"snapshot"} ELSE {})

\* The events of a session come in an order an application can follow: Online
\* and Offline alternate, everything about a snapshot is between
\* SyncDownloadOn and SyncDownloadOff, and Stopped comes last, offline and
\* with no download on.
EventProtocol == seen.ok

\* An item that socketReady() is called for has nothing to read only while the
\* connection is being tried again, or the download is retried or has failed, as
\* after a timeout that the same batch served before it: there alone a recv() of
\* socketReady() may block the session or throw out of it.
EmptyOnlyReopened ==
    batch # <<>> =>
        \/ Readable(Head(batch))
        \/ Head(batch) = "delivery" /\ cstate = "Trying" /\ csock
        \/ Head(batch) = "snapshot" /\ sstate \in {"Download", "Failed"}
=============================================================================
