------------------------------- MODULE Service -------------------------------
(***************************************************************************)
(* The gRPC front end of a worker.  Every call runs in a thread of its own *)
(* and hands its request to the client loop over one CLIENT socket that    *)
(* all calls share; the client loop alone drives the worker.  The events   *)
(* loop publishes what the worker notifies to the calls of WaitForEvent.   *)
(* shutdown() and the destructor take the whole down.                      *)
(***************************************************************************)
EXTENDS Naturals, Sequences

CONSTANTS
    Getters,    \* GetUuid and GetSeqNum, or one for both where all is said of either
    Gets,       \* calls of GetUuid and GetSeqNum
    Dispatches, \* calls of Dispatch
    Streams,    \* calls of WaitForEvent
    MaxEvents,  \* bound on the events the worker notifies
    MaxQueue,   \* bound on the messages waiting in a DISH socket
    MaxWire     \* bound on the requests the calls leave waiting for the client loop

ASSUME ServiceAssumption ==
    /\ Getters \cap {"SetStart", "SetStop", "SetOther", "Cancel"} = {}
    /\ MaxEvents \in Nat /\ MaxQueue \in Nat \ {0} /\ MaxWire \in Nat \ {0}

VARIABLES
    main,     \* thread that owns the service: how far it is in starting it or
              \* in taking it down
    call,     \* getters: where the thread is, what it asked for and received
    reading,  \* calls of Dispatch in progress
    strm,     \* calls of WaitForEvent
    wire,     \* requests from zrpcClient_ to zrpcServer_
    replies,  \* replies from zrpcServer_ to zrpcClient_
    client,   \* runClient(): waiting or serving ("poll"), blocked on active_,
              \* returned, or left by an exception
    batch,    \* what is left to serve of its last poll.wait()
    events,   \* runEvents(): in the loop or returned
    pub,      \* how many events were published
    canc1, canc2,
    session   \* what active_ refers to: nothing, or a session that runs, was
              \* told to stop, or ended

svars == <<main, call, reading, strm, wire, replies, client, batch, events, pub, canc1, canc2, session>>

None == "None"
\* SetEndpoints, SetSubscriptions, SetSync and SetDispatch change nothing here.
Setters == {"SetStart", "SetStop", "SetOther"}
Requests == Getters \cup Setters
Ping == 0  \* an event the streams do not forward: Timeout, Discard or Invalid
\* What a stream carries: the n-th event of the worker, or one of two markers.
Event(n) == <<"Event", n>>
RCPSetup == <<"RCPSetup", 0>>
RCPTeardown == <<"RCPTeardown", 0>>

NoStream == [pc |-> "off", queue |-> <<>>, out |-> <<>>, first |-> 0, stalled |-> FALSE]

SInit ==
    /\ main = "building"
    /\ reading = {}
    /\ call = [c \in Gets |-> [pc |-> "off", rpc |-> None, got |-> None]]
    /\ strm = [c \in Streams |-> NoStream]
    /\ wire = <<>> /\ replies = <<>>
    /\ client = "poll" /\ batch = <<>>
    /\ events = "loop" /\ pub = 0
    /\ canc1 = FALSE /\ canc2 = FALSE
    /\ session = "none"

\* runServer(): the server takes calls from now on, or it cannot be started.
RunServer ==
    /\ main = "building"
    /\ main' \in {"serving", "unserved"}
    /\ UNCHANGED <<call, reading, strm, wire, replies, client, batch, events, pub, canc1, canc2, session>>

-----------------------------------------------------------------------------
(* Calls that send requests.                                               *)

SendRPC(rpc) == wire' = Append(wire, rpc)

\* A thread inside a call sends a request to the client loop.
Requesting(rpc) ==
    /\ Len(wire) < MaxWire
    /\ SendRPC(rpc)
    /\ UNCHANGED <<main, reading, strm, replies, client, batch, events, pub, canc1, canc2, session>>

\* Start, Stop, Sync and the other setters return once their request is sent.
Set(rpc) == main = "serving" /\ Requesting(rpc) /\ UNCHANGED call

\* A getter goes on to recvRPC().
Get(c, rpc) ==
    /\ main = "serving" /\ call[c].pc = "off"
    /\ call' = [call EXCEPT ![c] = [pc |-> "recv", rpc |-> rpc, got |-> None]]
    /\ Requesting(rpc)

\* Dispatch sends a request for each topic its client writes, until the client
\* closes the stream or is gone.
Dispatch(c) ==
    /\ main = "serving"
    /\ c \notin reading /\ reading' = reading \cup {c}
    /\ UNCHANGED <<main, call, strm, wire, replies, client, batch, events, pub, canc1, canc2, session>>

Read(c) == c \in reading /\ Requesting("SetOther") /\ UNCHANGED call

ReadEnds(c) ==
    /\ c \in reading /\ reading' = reading \ {c}
    /\ UNCHANGED <<main, call, strm, wire, replies, client, batch, events, pub, canc1, canc2, session>>

\* recvRPC(): whichever thread waits on the shared socket takes the message.
RecvRPC(c) ==
    /\ call[c].pc = "recv"
    /\ replies # <<>>
    /\ replies' = Tail(replies)
    /\ call' = [call EXCEPT ![c].pc = "done", ![c].got = Head(replies)]
    /\ UNCHANGED <<main, reading, strm, wire, client, batch, events, pub, canc1, canc2, session>>

-----------------------------------------------------------------------------
(* Calls of WaitForEvent.                                                  *)

Connect(c) ==
    /\ main = "serving"
    /\ strm[c].pc = "off"
    /\ strm' = [strm EXCEPT ![c].pc = "connected"]
    /\ UNCHANGED <<main, call, reading, wire, replies, client, batch, events, pub, canc1, canc2, session>>

\* The RADIO socket processes the group of a new DISH some time after connect().
Join(c) ==
    /\ strm[c].pc = "connected"
    /\ strm' = [strm EXCEPT ![c].pc = "joined", ![c].first = pub + 1]
    /\ UNCHANGED <<main, call, reading, wire, replies, client, batch, events, pub, canc1, canc2, session>>

Waiting(c) == strm[c].pc \in {"connected", "joined"}

\* The client stops reading, so that stream->Write() waits for it, or goes on.
ClientReads(c) ==
    /\ Waiting(c)
    /\ strm[c].queue # <<>> \/ canc2
    /\ strm' = [strm EXCEPT ![c].stalled = ~@]
    /\ UNCHANGED <<main, call, reading, wire, replies, client, batch, events, pub, canc1, canc2, session>>

\* Variant: the first message is used up by RCPSetup.
Forwarded_SetupOnly(s) ==
    IF s.queue = <<>> THEN <<>>
    ELSE IF s.out = <<>> THEN <<RCPSetup>>
    ELSE IF Head(s.queue) = Ping THEN <<>> ELSE <<Event(Head(s.queue))>>

\* Variant: only a liveness ping, not an event, makes for RCPSetup.
Forwarded_PingOnly(s) ==
    IF s.queue = <<>> THEN <<>>
    ELSE IF Head(s.queue) # Ping THEN <<Event(Head(s.queue))>>
    ELSE IF s.out = <<>> THEN <<RCPSetup>> ELSE <<>>

\* What one message of zevDish adds to the stream: RCPSetup before anything
\* else, then the event unless it is one getEvent() leaves out.
Forwarded(s) ==
    IF s.queue = <<>> THEN <<>>
    ELSE (IF s.out = <<>> THEN <<RCPSetup>> ELSE <<>>)
         \o (IF Head(s.queue) = Ping THEN <<>> ELSE <<Event(Head(s.queue))>>)

\* The call returns: because its client left it, or after RCPTeardown.
Ended(s, how, out) == [NoStream EXCEPT !.pc = how, !.out = out, !.first = s.first]

\* One turn of the loop: one message of the DISH, which comes first in the
\* batch, and then the end if the service or the call is over.
Turn(s, over) ==
    LET out == s.out \o Forwarded(s)
        queue == IF s.queue = <<>> THEN <<>> ELSE Tail(s.queue)
    IN  IF over THEN Ended(s, "done", Append(out, RCPTeardown))
        ELSE [s EXCEPT !.out = out, !.queue = queue]

\* A turn without tmeoCanc, and the one that finds its deadline reached.
WaitForEvent(c) ==
    /\ Waiting(c) /\ ~strm[c].stalled
    /\ strm[c].queue # <<>> \/ canc2
    /\ strm' = [strm EXCEPT ![c] = Turn(strm[c], canc2)]
    /\ UNCHANGED <<main, call, reading, wire, replies, client, batch, events, pub, canc1, canc2, session>>

Deadline(c) ==
    /\ Waiting(c) /\ ~strm[c].stalled
    /\ strm' = [strm EXCEPT ![c] = Turn(strm[c], TRUE)]
    /\ UNCHANGED <<main, call, reading, wire, replies, client, batch, events, pub, canc1, canc2, session>>

\* The callback given to WorkerCli::WaitForEvent() has had enough, or the client
\* is gone altogether: Write() waits no more, and the next turn sees IsCancelled().
ClientCancels(c) ==
    /\ Waiting(c)
    /\ strm' = [strm EXCEPT ![c] = Ended(strm[c], "left", strm[c].out)]
    /\ UNCHANGED <<main, call, reading, wire, replies, client, batch, events, pub, canc1, canc2, session>>

-----------------------------------------------------------------------------
(* runEvents(): publish an event of the worker, or the timeout of the wait *)
(* for one, then look at the cancellation.                                 *)

Publish(e) ==
    /\ events = "loop"
    /\ \A c \in Streams : Len(strm[c].queue) < MaxQueue
    /\ strm' = [c \in Streams |->
                    IF strm[c].pc = "joined" THEN [strm[c] EXCEPT !.queue = Append(@, e)]
                    ELSE strm[c]]
    /\ events' = IF canc1 THEN "returned" ELSE "loop"
    /\ UNCHANGED <<main, call, reading, wire, replies, client, batch, canc1, canc2, session>>

PublishEvent == pub < MaxEvents /\ pub' = pub + 1 /\ Publish(pub')

PublishPing == pub' = pub /\ Publish(Ping)

-----------------------------------------------------------------------------
(* runClient().                                                            *)

\* poll.wait(): every ready item, in the order given to the poller.  The
\* monitoring timer is the last; Monitor is its turn.
PollClient ==
    /\ client = "poll" /\ batch = <<>>
    /\ batch' = (IF wire # <<>> THEN <<"server">> ELSE <<>>)
                \o (IF canc1 THEN <<"canc">> ELSE <<>>)
    /\ batch' # <<>>
    /\ UNCHANGED <<main, call, reading, strm, wire, replies, client, events, pub, canc1, canc2, session>>

Next1(item) == client = "poll" /\ batch # <<>> /\ Head(batch) = item /\ batch' = Tail(batch)

Cancelled ==
    /\ Next1("canc")
    /\ client' = "returned"
    /\ UNCHANGED <<main, call, reading, strm, wire, replies, events, pub, canc1, canc2, session>>

\* waitForResult(&active_, 0): an ended session is released.
Monitor ==
    /\ client = "poll" /\ batch = <<>>
    /\ session = "ended" /\ session' = "none"
    /\ UNCHANGED <<main, call, reading, strm, wire, replies, client, batch, events, pub, canc1, canc2>>

\* serveRPC() of the request received from zrpcServer_.
Serve(rpc) == Next1("server") /\ Head(wire) = rpc /\ wire' = Tail(wire)

ServeCancel ==
    /\ Serve("Cancel")
    /\ canc1' = TRUE
    /\ UNCHANGED <<main, call, reading, strm, replies, client, events, pub, canc2, session>>

ServeGet ==
    /\ \E rpc \in Getters : Serve(rpc) /\ replies' = Append(replies, rpc)
    /\ UNCHANGED <<main, call, reading, strm, client, events, pub, canc1, canc2, session>>

ServeOther ==
    /\ Serve("SetOther")
    /\ UNCHANGED <<main, call, reading, strm, replies, client, events, pub, canc1, canc2, session>>

\* start() unless the worker is running.  While active_ still refers to an
\* ended session its timers keep their names bound, so that a new session
\* cannot be created: the exception leaves runClient().
ServeStart ==
    /\ Serve("SetStart")
    /\ session' = IF session = "none" THEN "running" ELSE session
    /\ client' = IF session = "ended" THEN "thrown" ELSE client
    /\ UNCHANGED <<main, call, reading, strm, replies, events, pub, canc1, canc2>>

\* stop() if the worker is running, then waitForResult(&active_).
ServeStop ==
    /\ Serve("SetStop")
    /\ session' = CASE session = "running" -> "stopping"
                    [] session = "ended"   -> "none"
                    [] OTHER               -> session
    /\ client' = IF session = "running" THEN "blocked" ELSE client
    /\ UNCHANGED <<main, call, reading, strm, replies, events, pub, canc1, canc2>>

ResultReady ==
    /\ client = "blocked" /\ session = "ended"
    /\ client' = "poll" /\ session' = "none"
    /\ UNCHANGED <<main, call, reading, strm, wire, replies, batch, events, pub, canc1, canc2>>

\* The session's thread: it ends when told to, or by an exception.
SessionStops ==
    /\ session = "stopping"
    /\ session' = "ended"
    /\ UNCHANGED <<main, call, reading, strm, wire, replies, client, batch, events, pub, canc1, canc2>>

SessionFails ==
    /\ session = "running"
    /\ session' = "ended"
    /\ UNCHANGED <<main, call, reading, strm, wire, replies, client, batch, events, pub, canc1, canc2>>
-----------------------------------------------------------------------------
(* shutdown() and ~WorkerServiceImpl().                                    *)

Returned == /\ \A c \in Gets : call[c].pc # "recv"
            /\ reading = {}
            /\ \A c \in Streams : strm[c].pc \in {"off", "left", "done"}

\* Variant: the streams are not told.
Shutdown_NoCancel ==
    /\ main \in {"serving", "unserved"}
    /\ main' = "draining"
    /\ UNCHANGED <<call, reading, strm, wire, replies, client, batch, events, pub, canc1, canc2, session>>

\* Variant: the loops are told to end together with the streams.
Shutdown_CancelsBoth ==
    /\ main \in {"serving", "unserved"}
    /\ canc1' = TRUE /\ canc2' = TRUE
    /\ main' = "draining"
    /\ UNCHANGED <<call, reading, strm, wire, replies, client, batch, events, pub, session>>

\* zcanc2_->cancel(), then server_->Shutdown(), if there is one, takes no more
\* calls.
Shutdown ==
    /\ main \in {"serving", "unserved"}
    /\ canc2' = TRUE
    /\ main' = "draining"
    /\ UNCHANGED <<call, reading, strm, wire, replies, client, batch, events, pub, canc1, session>>

\* Variant: shutdown() leaves the worker running.
Drained_NoStop ==
    /\ main = "draining" /\ Returned
    /\ main' = "drained"
    /\ UNCHANGED <<call, reading, strm, wire, replies, client, batch, events, pub, canc1, canc2, session>>

\* server_->Shutdown() waits for the calls in progress; then sendRPC(SetStop).
Drained ==
    /\ main = "draining" /\ Returned
    /\ SendRPC("SetStop")
    /\ main' = "drained"
    /\ UNCHANGED <<call, reading, strm, replies, client, batch, events, pub, canc1, canc2, session>>

\* The destructor asks the loops to end ...
Destroy ==
    /\ main = "drained"
    /\ SendRPC("Cancel")
    /\ main' = "joining"
    /\ UNCHANGED <<call, reading, strm, replies, client, batch, events, pub, canc1, canc2, session>>

\* ... and waits for both.
Destroyed ==
    /\ main = "joining"
    /\ client = "returned" /\ events = "returned"
    /\ main' = "destroyed"
    /\ UNCHANGED <<call, reading, strm, wire, replies, client, batch, events, pub, canc1, canc2, session>>

-----------------------------------------------------------------------------

ClientLoop == PollClient \/ Cancelled \/ ServeCancel \/ ServeGet \/ ServeOther
              \/ ServeStart \/ ServeStop \/ ResultReady
EventsLoop == PublishEvent \/ PublishPing
Teardown == Drained \/ Destroy \/ Destroyed

SNext ==
    \/ \E rpc \in Setters : Set(rpc)
    \/ \E c \in Gets : RecvRPC(c) \/ \E rpc \in Getters : Get(c, rpc)
    \/ \E c \in Dispatches : Dispatch(c) \/ Read(c) \/ ReadEnds(c)
    \/ \E c \in Streams : Connect(c) \/ Join(c) \/ Deadline(c) \/ ClientReads(c)
                          \/ ClientCancels(c) \/ WaitForEvent(c)
    \/ ClientLoop \/ Monitor \/ EventsLoop \/ SessionStops \/ SessionFails
    \/ RunServer \/ Shutdown \/ Teardown

SSpec == SInit /\ [][SNext]_svars

\* Threads that can run do: the two loops, the calls, and the thread inside
\* shutdown() or the destructor.  A stream goes on whenever its client reads, if
\* only from time to time.  Nothing obliges anybody to make a call, to close the
\* stream of a Dispatch, to read a stream, to shut the service down or to let a
\* session fail; nor does a session told to stop always do (module Runner).
SFair ==
    /\ WF_svars(ClientLoop) /\ WF_svars(EventsLoop) /\ WF_svars(Teardown)
    /\ \A c \in Gets : WF_svars(RecvRPC(c))
    /\ \A c \in Streams : SF_svars(WaitForEvent(c))

SFairSpec == SSpec /\ SFair

-----------------------------------------------------------------------------

\* A call of WaitForEvent writes RCPSetup before anything but RCPTeardown, and
\* from then on it forwards every event the worker notified since the call
\* joined, in order and without a gap, until RCPTeardown, after which it writes
\* nothing; shutdown and the deadline cannot cut the stream without it.
StreamShape ==
    \A c \in Streams :
        LET s == strm[c]
            torn == s.out # <<>> /\ s.out[Len(s.out)] = RCPTeardown
            body == IF torn THEN SubSeq(s.out, 1, Len(s.out) - 1) ELSE s.out
        IN  /\ body # <<>> => body[1] = RCPSetup
            /\ \A i \in 2..Len(body) : body[i] = Event(s.first + i - 2)
            /\ torn <=> s.pc = "done"

\* A client that has seen RCPSetup misses no event: what is published and not
\* yet on its stream is waiting, whole and in order, in the queue of its DISH
\* socket.
NothingMissed ==
    \A c \in Streams :
        LET s == strm[c]
            waiting == {i \in DOMAIN s.queue : s.queue[i] # Ping}
            written == IF s.out = <<>> THEN 0 ELSE Len(s.out) - 1
        IN  s.pc = "joined" =>
                /\ {s.queue[i] : i \in waiting} = s.first + written .. pub
                /\ \A i, j \in waiting : i < j => s.queue[i] < s.queue[j]

\* When the client loop has returned no session is left, whatever calls of
\* Start and Stop were in flight at the shutdown.
NoSessionLeft == client = "returned" => session = "none"

\* A getter is answered: its call returns, unless the client loop was lost or
\* waits for ever for a session that does not stop.
Answered ==
    \A c \in Gets :
        call[c].pc = "recv" ~>
            (call[c].pc = "done" \/ client = "thrown" \/ [](session = "stopping"))

\* server_->Shutdown() waits for a call whose client neither goes on nor leaves,
\* and the client loop for a session that does not stop.
HeldUp ==
    \/ reading # {}
    \/ \E c \in Streams : Waiting(c) /\ strm[c].stalled
    \/ session = "stopping"

\* shutdown() and the destructor come to an end, whatever calls, streams and
\* sessions are in progress, unless the client loop was lost or they are held up
\* for ever by a client of Dispatch or WaitForEvent or by a session that does not
\* stop.
ShutdownEnds ==
    main = "draining" ~> (main = "destroyed" \/ client = "thrown" \/ []HeldUp)

\* A getter receives the value it asked for.
OwnReplies == \A c \in Gets : call[c].got \in {None, call[c].rpc}
=============================================================================
