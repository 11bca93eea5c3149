-------------------------- MODULE ConvergenceProofs --------------------------
(***************************************************************************)
(* The theorem about Delivery that a receiver which synchronized gets the  *)
(* last state of every name.                                               *)
(***************************************************************************)
EXTENDS DeliveryProofs

\* The number n of w is behind every topic of w the broker may still accept:
\* it is behind the broker's number, or the broker was restarted, and the
\* worker counts on from there.  The state is in the parameters.
Passed(numbers, counts, links, w, n) ==
    \/ n <= NumberIn(numbers, w)
    \/ /\ "worker" \notin MayRestart
       /\ n <= counts[w]
       /\ \A c \in Channels : \A i \in 1 .. Len(links[w][c]) : links[w][c][i].seqNum > n

\* So is all that the receiver has seen or is about to see.
AllPassed ==
    /\ \A w \in Workers : Passed(storWorker, seqNum, up, w, seen[w])
    /\ \A i \in 1 .. Len(down) : Passed(storWorker, seqNum, up, down[i].worker, down[i].seqNum)
    /\ \A i \in 1 .. Len(snap) :
         snap[i] # Complete => Passed(storWorker, seqNum, up, snap[i].worker, snap[i].seqNum)

BacksPassed ==
    \A i \in DOMAIN storTopic : storTopic[i].val # <<>> =>
        Back(storTopic[i].val).seqNum <= NumberIn(storWorker, Back(storTopic[i].val).worker)

\* A worker that is not restarted is ahead of its topics.
Counted ==
    "worker" \notin MayRestart =>
        \A w \in Workers :
            /\ NumberIn(storWorker, w) <= seqNum[w]
            /\ \A c \in Channels : \A i \in 1 .. Len(up[w][c]) : up[w][c][i].seqNum <= seqNum[w]

\* The request, the reply and the time after it exclude each other.
Phases ==
    /\ request \/ fresh => snap = <<>>
    /\ ~(request /\ fresh)
    /\ \A i \in 1 .. Len(snap) : snap[i] = Complete => i = Len(snap)

\* The topic is under way to the receiver, and will not be discarded: it is
\* ahead of what the receiver has seen, m, and of what comes before it.
OnItsWay(d, s, m, t) ==
    \E i \in 1 .. Len(d) :
        /\ d[i] = t /\ t.seqNum > m[t.worker]
        /\ \A j \in 1 .. i - 1 : d[j].worker = t.worker => d[j].seqNum < t.seqNum
        /\ \A k \in 1 .. Len(s) :
             s[k] # Complete /\ s[k].worker = t.worker => s[k].seqNum < t.seqNum

InSnap(s, t) == \E k \in 1 .. Len(s) : s[k] = t

\* The receiver synchronized, or is about to, and nothing was lost since.
Covered == fresh \/ (kept /\ snap # <<>> /\ snap[Len(snap)] = Complete)

Wanted(c) ==
    c # <<>> /\ Back(c).type = "State" /\ Back(c).name \in Subscribed

Given(els, evs, t) == t \in els \/ \E w \in Workers : \E i \in DOMAIN evs[w] : evs[w][i] = t

Reaches ==
    Covered => \A i \in DOMAIN storTopic : Wanted(storTopic[i].val) =>
        \/ Given(elements, events, Back(storTopic[i].val))
        \/ InSnap(snap, Back(storTopic[i].val))
        \/ OnItsWay(down, snap, seen, Back(storTopic[i].val))

-----------------------------------------------------------------------------

\* storWorker_ has room for every worker.
Roomy == AtMost(WorkerCap, Workers)

LEMMA CompleteIsNoTopic == Complete \notin Topic
<1> SUFFICES ASSUME Complete \in Topic PROVE FALSE
  BY Zenon
<1>1. "seqNum" \in DOMAIN Complete
  BY Zenon DEF Topic
<1>2. DOMAIN Complete = {"worker"}
  BY Zenon DEF Complete
<1> QED BY <1>1, <1>2, Zenon

\* The broker's numbers only grow while its session lasts.
LEMMA NumbersGrow ==
    ASSUME Roomy, DTypes, NEW w \in Workers, NEW c \in Channels, CollectWorkerMessage(w, c),
           NEW v \in Workers
    PROVE  /\ NumberIn(storWorker, v) \in Nat /\ NumberIn(storWorker', v) \in Nat
           /\ NumberIn(storWorker, v) <= NumberIn(storWorker', v)
<1>1. PICK t : t = Head(up[w][c])
  BY Zenon
<1>2. t \in Topic /\ t.worker = w /\ (Drops(t) \/ \E lost \in BOOLEAN : Relays(t, lost))
  BY <1>1, CollectEffect
<1>3. t.seqNum \in Nat /\ storWorker \in NumberCaches
  BY <1>2, Zenon DEF Topic, DTypes, LinkTypes
<1>4. NumberIn(storWorker, v) \in Nat
  BY <1>3, NumberType, Zenon
<1>5. CASE Drops(t)
  BY <1>4, <1>5 DEF Drops
<1>6. ASSUME NEW lost \in BOOLEAN, Relays(t, lost)
      PROVE  NumberIn(storWorker', v) \in Nat /\ NumberIn(storWorker, v) <= NumberIn(storWorker', v)
  <2>1. /\ t.seqNum > NumberIn(storWorker, w)
        /\ storWorker' = Put(storWorker, WorkerCap, w, t.seqNum)
    BY <1>2, <1>6, Zenon DEF Relays
  <2>2. /\ NumberIn(storWorker', w) = t.seqNum
        /\ \A u \in Workers \ {w} : NumberIn(storWorker', u) = NumberIn(storWorker, u)
    BY <1>3, <2>1, NumberPut DEF Roomy
  <2>3. CASE v = w
    BY <1>3, <1>4, <2>1, <2>2, <2>3
  <2>4. CASE v # w
    BY <1>4, <2>2, <2>4
  <2> QED BY <2>3, <2>4, Zenon
<1> QED BY <1>2, <1>4, <1>5, <1>6, Zenon

\* The steps that change the numbers, or the channels to the broker.
LEMMA LinkSteps ==
    ASSUME [DNext]_dvars
    PROVE  \/ UNCHANGED <<storTopic, storWorker, seqNum, up>>
           \/ \E w \in Workers : Dispatch(w) \/ RestartWorker(w)
           \/ \E w \in Workers, c \in Channels : CollectWorkerMessage(w, c)
           \/ RestartBroker
<1>1. CASE UNCHANGED dvars
  BY <1>1, Zenon DEF dvars, store
<1>2. ASSUME \/ CollectBrokerMessage \/ Reconnect \/ SendSync \/ SyncError \/ ReplySnapshot
             \/ RecvElement \/ RecvComplete \/ RestartReceiver
      PROVE  UNCHANGED <<storTopic, storWorker, seqNum, up>>
  BY <1>2, Zenon DEF CollectBrokerMessage, Reconnect, SendSync, SyncError, ReplySnapshot,
              RecvElement, RecvComplete, RestartReceiver, store
<1> QED BY <1>1, <1>2, Zenon DEF DNext

\* What was passed stays passed.
LEMMA PassedNext ==
    ASSUME Roomy, ~({"broker", "worker"} \subseteq MayRestart), DTypes, Counted, [DNext]_dvars,
           NEW v \in Workers, NEW n \in Nat, Passed(storWorker, seqNum, up, v, n)
    PROVE  Passed(storWorker', seqNum', up', v, n)
<1>0. seqNum \in [Workers -> Nat] /\ up \in [Workers -> [Channels -> Seq(Topic)]]
      /\ storWorker \in NumberCaches /\ seqNum[v] \in Nat
  BY Zenon DEF DTypes, LinkTypes
<1>1. CASE UNCHANGED <<storTopic, storWorker, seqNum, up>>
  BY <1>1, Zenon
<1>2. ASSUME NEW w \in Workers, Dispatch(w)
      PROVE  Passed(storWorker', seqNum', up', v, n)
  <2>1. UNCHANGED storWorker
    BY <1>2, Zenon DEF Dispatch, store
  <2>2. CASE n <= NumberIn(storWorker, v)
    BY <2>1, <2>2, Zenon DEF Passed
  <2>3. CASE ~(n <= NumberIn(storWorker, v))
    <3>1. /\ "worker" \notin MayRestart /\ n <= seqNum[v]
          /\ \A c \in Channels : \A i \in 1 .. Len(up[v][c]) : up[v][c][i].seqNum > n
      BY <2>3, Zenon DEF Passed
    <3>2. seqNum'[v] \in Nat /\ seqNum[v] <= seqNum'[v]
      <4>1. /\ seqNum'[w] = seqNum[w] + 1 /\ \A u \in Workers : u # w => seqNum'[u] = seqNum[u]
        BY <1>2, UpAppended, Zenon
      <4>2. CASE v = w
        BY <1>0, <4>1, <4>2
      <4>3. CASE v # w
        BY <1>0, <4>1, <4>3
      <4> QED BY <4>2, <4>3, Zenon
    <3>3. ASSUME NEW c \in Channels, NEW i \in 1 .. Len(up'[v][c])
          PROVE  up'[v][c][i].seqNum > n
      <4>1. \/ v = w /\ up'[v][c][i].seqNum = seqNum[w] + 1
            \/ \E j \in 1 .. Len(up[v][c]) : up'[v][c][i] = up[v][c][j]
        <5>1. \A x \in Workers, e \in Channels : \A k \in 1 .. Len(up'[x][e]) :
                 \/ x = w /\ up'[x][e][k].worker = w /\ up'[x][e][k].seqNum = seqNum[w] + 1
                 \/ \E j \in 1 .. Len(up[x][e]) : up'[x][e][k] = up[x][e][j]
          BY <1>2, UpAppended, Zenon
        <5> QED BY <5>1, Zenon
      <4>2. CASE v = w /\ up'[v][c][i].seqNum = seqNum[w] + 1
        BY <1>0, <3>1, <4>2
      <4>3. CASE \E j \in 1 .. Len(up[v][c]) : up'[v][c][i] = up[v][c][j]
        BY <3>1, <4>3, Zenon
      <4> QED BY <4>1, <4>2, <4>3, Zenon
    <3>4. n <= seqNum'[v]
      BY <1>0, <3>1, <3>2
    <3> QED BY <3>1, <3>3, <3>4, Zenon DEF Passed
  <2> QED BY <2>2, <2>3, Zenon
<1>3. ASSUME NEW w \in Workers, RestartWorker(w)
      PROVE  Passed(storWorker', seqNum', up', v, n)
  BY <1>3, Zenon DEF RestartWorker, store, Passed
<1>4. ASSUME NEW w \in Workers, NEW c \in Channels, CollectWorkerMessage(w, c)
      PROVE  Passed(storWorker', seqNum', up', v, n)
  <2>1. /\ NumberIn(storWorker, v) \in Nat /\ NumberIn(storWorker', v) \in Nat
        /\ NumberIn(storWorker, v) <= NumberIn(storWorker', v)
    BY <1>4, NumbersGrow, Zenon
  <2>2. CASE n <= NumberIn(storWorker, v)
    <3>1. n <= NumberIn(storWorker', v)
      BY <2>1, <2>2
    <3> QED BY <3>1, Zenon DEF Passed
  <2>3. CASE ~(n <= NumberIn(storWorker, v))
    <3>1. /\ "worker" \notin MayRestart /\ n <= seqNum[v]
          /\ \A d \in Channels : \A i \in 1 .. Len(up[v][d]) : up[v][d][i].seqNum > n
      BY <2>3, Zenon DEF Passed
    <3>2. UNCHANGED seqNum /\ up[w][c] # <<>> /\ up' = [up EXCEPT ![w][c] = Tail(@)]
      BY <1>4, Zenon DEF CollectWorkerMessage
    <3>3. \A u \in Workers, d \in Channels : \A i \in 1 .. Len(up'[u][d]) :
              \E j \in 1 .. Len(up[u][d]) : up'[u][d][i] = up[u][d][j]
      BY <3>2, UpTail, Zenon
    <3>4. ASSUME NEW d \in Channels, NEW i \in 1 .. Len(up'[v][d])
          PROVE  up'[v][d][i].seqNum > n
      <4>1. PICK j \in 1 .. Len(up[v][d]) : up'[v][d][i] = up[v][d][j]
        BY <3>3, Zenon
      <4> QED BY <3>1, <4>1, Zenon
    <3> QED BY <3>1, <3>2, <3>4, Zenon DEF Passed
  <2> QED BY <2>2, <2>3, Zenon
<1>5. CASE RestartBroker
  <2>1. "worker" \notin MayRestart
    BY <1>5, Zenon DEF RestartBroker
  <2>2. NumberIn(storWorker, v) \in Nat /\ NumberIn(storWorker, v) <= seqNum[v]
    BY <1>0, <2>1, NumberType, Zenon DEF Counted
  <2>3. n <= seqNum[v]
    BY <1>0, <2>2 DEF Passed
  <2>4. \A c \in Channels : up'[v][c] = <<>> /\ Len(<<>>) = 0
    BY <1>5, EmptyList, Zenon DEF RestartBroker
  <2>5. UNCHANGED seqNum
    BY <1>5, Zenon DEF RestartBroker
  <2> QED BY <2>1, <2>3, <2>4, <2>5 DEF Passed
<1> QED BY <1>1, <1>2, <1>3, <1>4, <1>5, LinkSteps, Zenon

LEMMA CountedNext ==
    ASSUME Roomy, DTypes, Counted, [DNext]_dvars
    PROVE  Counted'
<1> SUFFICES ASSUME "worker" \notin MayRestart, NEW v \in Workers
             PROVE  /\ NumberIn(storWorker', v) <= seqNum'[v]
                    /\ \A c \in Channels : \A i \in 1 .. Len(up'[v][c]) : up'[v][c][i].seqNum <= seqNum'[v]
  BY Zenon DEF Counted
<1>0. /\ seqNum \in [Workers -> Nat] /\ up \in [Workers -> [Channels -> Seq(Topic)]]
      /\ storWorker \in NumberCaches /\ seqNum[v] \in Nat
  BY Zenon DEF DTypes, LinkTypes
<1>1. /\ NumberIn(storWorker, v) <= seqNum[v] /\ NumberIn(storWorker, v) \in Nat
      /\ \A c \in Channels : \A i \in 1 .. Len(up[v][c]) :
            up[v][c][i].seqNum <= seqNum[v] /\ up[v][c][i].seqNum \in Nat
  BY <1>0, NumberType, TopicsOf, Zenon DEF Counted
<1>2. CASE UNCHANGED <<storTopic, storWorker, seqNum, up>>
  BY <1>1, <1>2, Zenon
<1>3. ASSUME NEW w \in Workers, Dispatch(w)
      PROVE  /\ NumberIn(storWorker', v) <= seqNum'[v]
             /\ \A c \in Channels : \A i \in 1 .. Len(up'[v][c]) : up'[v][c][i].seqNum <= seqNum'[v]
  <2>1. UNCHANGED storWorker
    BY <1>3, Zenon DEF Dispatch, store
  <2>2. /\ seqNum'[w] = seqNum[w] + 1 /\ \A u \in Workers : u # w => seqNum'[u] = seqNum[u]
        /\ \A u \in Workers, d \in Channels : \A i \in 1 .. Len(up'[u][d]) :
             \/ u = w /\ up'[u][d][i].worker = w /\ up'[u][d][i].seqNum = seqNum[w] + 1
             \/ \E j \in 1 .. Len(up[u][d]) : up'[u][d][i] = up[u][d][j]
    BY <1>3, UpAppended, Zenon
  <2>3. seqNum'[v] \in Nat /\ seqNum[v] <= seqNum'[v]
    <3>1. CASE v = w
      BY <1>0, <2>2, <3>1
    <3>2. CASE v # w
      BY <1>0, <2>2, <3>2
    <3> QED BY <3>1, <3>2, Zenon
  <2>4. NumberIn(storWorker', v) <= seqNum'[v]
    BY <1>0, <1>1, <2>1, <2>3
  <2>5. ASSUME NEW c \in Channels, NEW i \in 1 .. Len(up'[v][c])
        PROVE  up'[v][c][i].seqNum <= seqNum'[v]
    <3>1. CASE v = w /\ up'[v][c][i].seqNum = seqNum[w] + 1
      BY <2>2, <2>3, <3>1
    <3>2. ASSUME NEW j \in 1 .. Len(up[v][c]), up'[v][c][i] = up[v][c][j]
          PROVE  up'[v][c][i].seqNum <= seqNum'[v]
      BY <1>0, <1>1, <2>3, <3>2, SMTT(20)
    <3> QED BY <2>2, <3>1, <3>2, Zenon
  <2> QED BY <2>4, <2>5, Zenon
<1>4. ASSUME NEW w \in Workers, RestartWorker(w) PROVE FALSE
  BY <1>4, Zenon DEF RestartWorker
<1>5. ASSUME NEW w \in Workers, NEW c \in Channels, CollectWorkerMessage(w, c)
      PROVE  /\ NumberIn(storWorker', v) <= seqNum'[v]
             /\ \A d \in Channels : \A i \in 1 .. Len(up'[v][d]) : up'[v][d][i].seqNum <= seqNum'[v]
  <2>1. PICK t : t = Head(up[w][c])
    BY Zenon
  <2>2. /\ UNCHANGED seqNum /\ up' = [up EXCEPT ![w][c] = Tail(@)] /\ up[w][c] # <<>>
        /\ t \in Topic /\ t.worker = w /\ (Drops(t) \/ \E lost \in BOOLEAN : Relays(t, lost))
    BY <1>5, <2>1, CollectEffect
  <2>3. /\ t = up[w][c][1] /\ 1 \in 1 .. Len(up[w][c]) /\ t.seqNum \in Nat
        /\ \A u \in Workers, d \in Channels : \A i \in 1 .. Len(up'[u][d]) :
              \E j \in 1 .. Len(up[u][d]) : up'[u][d][i] = up[u][d][j]
    <3>1. t.seqNum \in Nat
      BY <2>2, Zenon DEF Topic
    <3>2. Len(up[w][c]) \in Nat \ {0} /\ t = up[w][c][1]
      BY <2>1, <2>2, UpTail
    <3>3. \A u \in Workers, d \in Channels : \A i \in 1 .. Len(up'[u][d]) :
              \E j \in 1 .. Len(up[u][d]) : up'[u][d][i] = up[u][d][j]
      BY <2>2, UpTail, Zenon
    <3>4. 1 \in 1 .. Len(up[w][c])
      BY <3>2
    <3> QED BY <3>1, <3>2, <3>3, <3>4, Zenon
  <2>4. ASSUME NEW d \in Channels, NEW i \in 1 .. Len(up'[v][d])
        PROVE  up'[v][d][i].seqNum <= seqNum'[v]
    <3>1. PICK j \in 1 .. Len(up[v][d]) : up'[v][d][i] = up[v][d][j]
      BY <2>3, Zenon
    <3> QED BY <1>1, <2>2, <3>1, Zenon
  <2>5. CASE Drops(t)
    BY <1>1, <2>2, <2>4, <2>5, Zenon DEF Drops
  <2>6. ASSUME NEW lost \in BOOLEAN, Relays(t, lost)
        PROVE  NumberIn(storWorker', v) <= seqNum'[v]
    <3>1. storWorker' = Put(storWorker, WorkerCap, w, t.seqNum)
      BY <2>2, <2>6, Zenon DEF Relays
    <3>2. /\ NumberIn(storWorker', w) = t.seqNum
          /\ \A u \in Workers \ {w} : NumberIn(storWorker', u) = NumberIn(storWorker, u)
      <4>1. AtMost(WorkerCap, Workers) /\ storWorker \in NumberCaches /\ t.seqNum \in Nat
        BY <1>0, <2>3, Zenon DEF Roomy
      <4> QED BY <3>1, <4>1, NumberPut
    <3>3. CASE v = w
      BY <1>1, <2>2, <2>3, <3>2, <3>3
    <3>4. CASE v # w
      BY <1>1, <2>2, <3>2, <3>4, Zenon
    <3> QED BY <3>3, <3>4, Zenon
  <2> QED BY <2>2, <2>4, <2>5, <2>6, Zenon
<1>6. CASE RestartBroker
  <2>1. storWorker' = <<>> /\ UNCHANGED seqNum
    BY <1>6, Zenon DEF RestartBroker
  <2>2. NumberIn(<<>>, v) = 0
    BY DEF NumberIn, KeysOf
  <2>3. \A c \in Channels : up'[v][c] = <<>> /\ Len(<<>>) = 0
    BY <1>6, EmptyList, Zenon DEF RestartBroker
  <2> QED BY <1>0, <2>1, <2>2, <2>3
<1> QED BY <1>2, <1>3, <1>4, <1>5, <1>6, LinkSteps, Zenon

LEMMA BacksPassedNext ==
    ASSUME Roomy, DTypes, BacksPassed, [DNext]_dvars
    PROVE  BacksPassed'
<1>0. storTopic \in TopicCaches /\ storWorker \in NumberCaches
  BY Zenon DEF DTypes, LinkTypes
<1>1. CASE UNCHANGED <<storTopic, storWorker, last, relayed>>
  BY <1>1, Zenon DEF BacksPassed, Back
<1>2. CASE RestartBroker
  <2>1. storTopic' = <<>> /\ DOMAIN <<>> = {}
    BY <1>2 DEF RestartBroker
  <2> QED BY <2>1, Zenon DEF BacksPassed
<1>3. ASSUME NEW w \in Workers, NEW c \in Channels, CollectWorkerMessage(w, c)
      PROVE  BacksPassed'
  <2> SUFFICES ASSUME NEW i \in DOMAIN storTopic', storTopic'[i].val # <<>>
               PROVE  Back(storTopic'[i].val).seqNum
                        <= NumberIn(storWorker', Back(storTopic'[i].val).worker)
    BY Zenon DEF BacksPassed, Back
  <2>1. PICK t : t = Head(up[w][c])
    BY Zenon
  <2>2. t \in Topic /\ t.worker = w /\ (Drops(t) \/ \E lost \in BOOLEAN : Relays(t, lost))
    BY <1>3, <2>1, CollectEffect
  <2>3. t.name \in Names /\ t.seqNum \in Nat
    BY <2>2, Zenon DEF Topic
  <2>4. ASSUME NEW j \in DOMAIN storTopic, storTopic'[i] = storTopic[j]
        PROVE  Back(storTopic'[i].val).seqNum
                 <= NumberIn(storWorker', Back(storTopic'[i].val).worker)
    <3>1. PICK b : b = Back(storTopic[j].val)
      BY Zenon
    <3>2. b \in Topic
      BY <1>0, <2>4, <3>1, TopicCacheItems, BackType, Zenon
    <3>3. b.worker \in Workers /\ b.seqNum \in Nat
      BY <3>2, Zenon DEF Topic
    <3>4. b.seqNum <= NumberIn(storWorker, b.worker)
      BY <2>4, <3>1, Zenon DEF BacksPassed
    <3>5. /\ NumberIn(storWorker, b.worker) \in Nat /\ NumberIn(storWorker', b.worker) \in Nat
          /\ NumberIn(storWorker, b.worker) <= NumberIn(storWorker', b.worker)
      BY <1>3, <3>3, NumbersGrow, Zenon
    <3>6. b.seqNum <= NumberIn(storWorker', b.worker)
      BY <3>3, <3>4, <3>5
    <3> QED BY <2>4, <3>1, <3>6, Zenon
  <2>5. CASE Drops(t)
    <3>1. PICK j \in DOMAIN storTopic : storTopic'[i] = storTopic[j]
      BY <1>0, <2>3, <2>5, NameStored DEF Drops
    <3> QED BY <2>4, <3>1, Zenon
  <2>6. ASSUME NEW lost \in BOOLEAN, Relays(t, lost)
        PROVE  Back(storTopic'[i].val).seqNum
                 <= NumberIn(storWorker', Back(storTopic'[i].val).worker)
    <3>1. \/ Back(storTopic'[i].val) = t
          \/ \E j \in DOMAIN storTopic : storTopic'[i] = storTopic[j]
      <4>1. storTopic' = TopicIn(storTopic, t)
        BY <2>6, Zenon DEF Relays
      <4>2. EndsWith(storTopic', storTopic, t)
        BY <1>0, <2>2, <4>1, TopicStored, Zenon
      <4> QED BY <2>4, <4>2, Zenon DEF EndsWith
    <3>2. CASE Back(storTopic'[i].val) = t
      <4>1. storWorker' = Put(storWorker, WorkerCap, w, t.seqNum)
        BY <2>2, <2>6, Zenon DEF Relays
      <4>2. NumberIn(storWorker', w) = t.seqNum
        BY <1>0, <2>3, <4>1, NumberPut DEF Roomy
      <4> QED BY <2>2, <2>3, <3>2, <4>2
    <3> QED BY <2>4, <3>1, <3>2, Zenon
  <2> QED BY <2>2, <2>5, <2>6, Zenon
<1> QED BY <1>1, <1>2, <1>3, BrokerSteps, Zenon

\* What replySnapshot() sends: topics of the storage, and when it gets to the
\* end, all of those wanted.
LEMMA ReplyEffect ==
    ASSUME DTypes, ReplySnapshot
    PROVE  /\ \A k \in 1 .. Len(snap') :
                \/ snap'[k] = Complete /\ k = Len(snap')
                \/ /\ snap'[k] \in Topic
                   /\ \E i \in DOMAIN storTopic : storTopic[i].val # <<>> /\ snap'[k] = Back(storTopic[i].val)
           /\ snap' # <<>> /\ snap'[Len(snap')] = Complete =>
                \A i \in DOMAIN storTopic :
                    Wanted(storTopic[i].val) => InSnap(snap', Back(storTopic[i].val))
<1>0. storTopic \in TopicCaches /\ NoEmptyTopic
  BY Zenon DEF DTypes, LinkTypes, ReplySnapshot
<1>1. PICK s : s = Snapshot(Subscribed)
  BY Zenon
<1>2. /\ s \in Seq(Topic)
      /\ \A k \in DOMAIN s : \E i \in DOMAIN storTopic : s[k] = Back(storTopic[i].val)
      /\ \A i \in Sendable(Subscribed) : \E k \in DOMAIN s : s[k] = Back(storTopic[i].val)
  BY <1>0, <1>1, SnapshotTopics
<1>3. PICK all : all = Append(s, Complete)
  BY Zenon
<1>4. /\ s \in Seq(Topic \cup {Complete})
      /\ Len(s) \in Nat /\ DOMAIN s = 1 .. Len(s) /\ \A k \in 1 .. Len(s) : s[k] \in Topic
  BY <1>2, Widened, TopicsOf, Zenon
<1>5. /\ all \in Seq(Topic \cup {Complete}) /\ Len(all) = Len(s) + 1
      /\ all[Len(s) + 1] = Complete /\ \A k \in 1 .. Len(s) : all[k] = s[k]
  BY <1>3, <1>4, Appended
<1>6. PICK n \in 0 .. Len(all) : snap' = SubSeq(all, 1, n)
  BY <1>1, <1>3, <1>4, <1>5 DEF ReplySnapshot
<1>7. n \in Nat /\ \A k \in 1 .. n : all[k] \in Topic \cup {Complete}
  BY <1>4, <1>5, <1>6, ListElement
<1>8. Len(snap') = n /\ \A k \in 1 .. n : snap'[k] = all[k]
  BY <1>5, <1>6, Prefix
<1>9. ASSUME NEW k \in 1 .. Len(snap')
      PROVE  \/ snap'[k] = Complete /\ k = Len(snap')
             \/ /\ snap'[k] \in Topic
                /\ \E i \in DOMAIN storTopic : storTopic[i].val # <<>> /\ snap'[k] = Back(storTopic[i].val)
  <2>1. k \in 1 .. n /\ n <= Len(s) + 1
    BY <1>4, <1>5, <1>6, <1>8
  <2>2. CASE k = Len(s) + 1
    <3>1. k = n
      BY <1>4, <1>7, <2>1, <2>2
    <3> QED BY <1>5, <1>8, <2>1, <2>2, <3>1
  <2>3. CASE k # Len(s) + 1
    <3>1. k \in 1 .. Len(s)
      BY <1>4, <1>7, <2>1, <2>3
    <3>2. snap'[k] = s[k] /\ s[k] \in Topic
      BY <1>4, <1>5, <1>8, <2>1, <3>1, Zenon
    <3> QED BY <1>0, <1>2, <1>4, <3>1, <3>2 DEF NoEmptyTopic
  <2> QED BY <2>2, <2>3, Zenon
<1>10. ASSUME snap' # <<>>, snap'[Len(snap')] = Complete,
              NEW i \in DOMAIN storTopic, Wanted(storTopic[i].val)
       PROVE  InSnap(snap', Back(storTopic[i].val))
  <2>1. n # 0
    BY <1>5, <1>8, <1>10
  <2>2. n = Len(s) + 1
    <3>1. all[n] = Complete
      BY <1>7, <1>8, <1>10, <2>1
    <3>2. n \notin 1 .. Len(s)
      BY <1>4, <1>5, <3>1, CompleteIsNoTopic, Zenon
    <3> QED BY <1>4, <1>5, <1>6, <1>7, <2>1, <3>2
  <2>3. i \in Sendable(Subscribed)
    BY <1>10, Zenon DEF Sendable, Wanted
  <2>4. PICK k \in 1 .. Len(s) : s[k] = Back(storTopic[i].val)
    BY <1>2, <1>4, <2>3, Zenon
  <2>5. k \in 1 .. n
    BY <1>4, <2>2
  <2>6. snap'[k] = Back(storTopic[i].val) /\ k \in 1 .. Len(snap')
    BY <1>5, <1>8, <2>4, <2>5, Zenon
  <2> QED BY <2>6, Zenon DEF InSnap
<1> QED BY <1>9, <1>10, Zenon

LEMMA PhasesNext ==
    ASSUME DTypes, Phases, [DNext]_dvars
    PROVE  Phases'
<1>0. snap \in Seq(Topic \cup {Complete}) /\ Len(<<>>) = 0
  BY EmptyList, Zenon DEF DTypes, ReceiverTypes
<1>1. ASSUME snap' = <<>>, ~(request' /\ fresh') PROVE Phases'
  BY <1>0, <1>1 DEF Phases
<1>2. ASSUME UNCHANGED snap, request' => request, fresh' => fresh PROVE Phases'
  BY <1>2, Zenon DEF Phases
<1>3. ASSUME snap # <<>>, snap' = Tail(snap), UNCHANGED <<request, fresh>> PROVE Phases'
  <2>1. /\ Len(snap) \in Nat /\ Len(snap') = Len(snap) - 1
        /\ \A i \in 1 .. Len(snap) - 1 : snap'[i] = snap[i + 1]
    BY <1>0, <1>3, FirstOf
  <2>2. ~request /\ ~fresh
    BY <1>3, Zenon DEF Phases
  <2>3. ASSUME NEW i \in 1 .. Len(snap'), snap'[i] = Complete PROVE i = Len(snap')
    <3>1. i + 1 \in 1 .. Len(snap) /\ snap[i + 1] = Complete
      BY <2>1, <2>3
    <3>2. i + 1 = Len(snap)
      BY <3>1, Zenon DEF Phases
    <3> QED BY <2>1, <3>2
  <2> QED BY <1>3, <2>2, <2>3, Zenon DEF Phases
<1>4. ASSUME NEW w \in Workers, Dispatch(w) \/ RestartWorker(w)
      PROVE  Phases'
  BY <1>2, <1>4, Zenon DEF Dispatch, RestartWorker, receiver, ghosts
<1>5. ASSUME NEW w \in Workers, NEW c \in Channels, CollectWorkerMessage(w, c)
      PROVE  Phases'
  <2>1. UNCHANGED <<snap, request>>
    BY <1>5, Zenon DEF CollectWorkerMessage, receiver
  <2>2. fresh' => fresh
    BY <1>5, CollectEffect, Zenon DEF Drops, Relays
  <2> QED BY <1>2, <2>1, <2>2, Zenon
<1>6. CASE CollectBrokerMessage \/ Reconnect
  BY <1>2, <1>6, Zenon DEF CollectBrokerMessage, Reconnect, receiver
<1>7. CASE SendSync \/ SyncError \/ RestartReceiver
  BY <1>1, <1>7, Zenon DEF SendSync, SyncError, RestartReceiver
<1>8. CASE ReplySnapshot
  <2>1. ~request' /\ ~fresh'
    BY <1>8, Zenon DEF ReplySnapshot, Phases
  <2>2. \A k \in 1 .. Len(snap') : snap'[k] = Complete => k = Len(snap')
    BY <1>8, ReplyEffect, CompleteIsNoTopic, Zenon
  <2> QED BY <2>1, <2>2, Zenon DEF Phases
<1>9. CASE RecvElement
  BY <1>3, <1>9, Zenon DEF RecvElement
<1>10. CASE RecvComplete
  <2>1. snap # <<>> /\ Head(snap) = Complete /\ snap' = Tail(snap) /\ UNCHANGED request
    BY <1>10, Zenon DEF RecvComplete
  <2>2. /\ Len(snap) \in Nat \ {0} /\ snap[1] = Complete
        /\ Len(Tail(snap)) = Len(snap) - 1 /\ Tail(snap) \in Seq(Topic \cup {Complete})
    BY <1>0, <2>1, FirstOf, Zenon
  <2>3. Len(snap) = 1
    <3>1. 1 \in 1 .. Len(snap)
      BY <2>2
    <3>2. \A i \in 1 .. Len(snap) : snap[i] = Complete => i = Len(snap)
      BY Zenon DEF Phases
    <3> QED BY <2>2, <3>1, <3>2, Zenon
  <2>4. snap' = <<>>
    BY <2>1, <2>2, <2>3, EmptyList
  <2>5. ~request'
    BY <2>1, Zenon DEF Phases
  <2> QED BY <1>1, <2>4, <2>5, Zenon
<1>11. CASE RestartBroker
  <2>1. snap' \in {<<>>, snap} /\ ~request' /\ ~fresh'
    BY <1>11, Zenon DEF RestartBroker
  <2> QED BY <1>1, <1>2, <2>1, Zenon
<1>12. CASE UNCHANGED dvars
  BY <1>2, <1>12, Zenon DEF dvars, receiver, ghosts
<1> QED BY <1>4, <1>5, <1>6, <1>7, <1>8, <1>9, <1>10, <1>11, <1>12 DEF DNext

LEMMA AllPassedNext ==
    ASSUME Roomy, ~({"broker", "worker"} \subseteq MayRestart),
           DTypes, AllPassed, BacksPassed, Counted, [DNext]_dvars
    PROVE  AllPassed'
<1> DEFINE After(w, n) == Passed(storWorker', seqNum', up', w, n)
           SeenAfter == \A w \in Workers : After(w, seen'[w])
           DownAfter == \A i \in 1 .. Len(down') : After(down'[i].worker, down'[i].seqNum)
           SnapAfter == \A i \in 1 .. Len(snap') :
                           snap'[i] # Complete => After(snap'[i].worker, snap'[i].seqNum)
<1>0. /\ down \in Seq(Topic) /\ snap \in Seq(Topic \cup {Complete}) /\ seen \in [Workers -> Nat]
      /\ storWorker \in NumberCaches /\ storTopic \in TopicCaches
  BY Zenon DEF DTypes, ReceiverTypes, LinkTypes
<1>1. \A w \in Workers, n \in Nat : Passed(storWorker, seqNum, up, w, n) => After(w, n)
  BY PassedNext, Zenon
<1> HIDE DEF After
<1> SUFFICES SeenAfter /\ DownAfter /\ SnapAfter
  BY Zenon DEF AllPassed, After
<1>2. /\ \A i \in 1 .. Len(down) : down[i].worker \in Workers /\ down[i].seqNum \in Nat
      /\ \A i \in 1 .. Len(snap) : snap[i] # Complete =>
            snap[i].worker \in Workers /\ snap[i].seqNum \in Nat
  <2>1. \A t \in Topic : t.worker \in Workers /\ t.seqNum \in Nat
    BY Zenon DEF Topic
  <2>2. \A i \in 1 .. Len(snap) : snap[i] # Complete => snap[i] \in Topic
    BY <1>0, ListElement
  <2> QED BY <1>0, <2>1, <2>2, TopicsOf, Zenon
<1>3. /\ \A w \in Workers : After(w, seen[w])
      /\ \A i \in 1 .. Len(down) : After(down[i].worker, down[i].seqNum)
      /\ \A i \in 1 .. Len(snap) : snap[i] # Complete => After(snap[i].worker, snap[i].seqNum)
  BY <1>0, <1>1, <1>2, Zenon DEF AllPassed
<1>4. Len(<<>>) = 0
  BY EmptyList, Zenon
<1>5. /\ UNCHANGED seen => SeenAfter
      /\ UNCHANGED down \/ down' = <<>> => DownAfter
      /\ UNCHANGED snap \/ snap' = <<>> => SnapAfter
  BY <1>3, <1>4
<1>6. ASSUME snap # <<>>, snap' = Tail(snap) PROVE SnapAfter
  <2>1. /\ Len(snap) \in Nat /\ Len(snap') = Len(snap) - 1
        /\ \A i \in 1 .. Len(snap) - 1 : snap'[i] = snap[i + 1]
    BY <1>0, <1>6, FirstOf, Zenon
  <2>2. \A i \in 1 .. Len(snap) - 1 : i + 1 \in 1 .. Len(snap)
    BY <2>1
  <2> QED BY <1>3, <2>1, <2>2, Zenon
<1>7. ASSUME NEW t \in Topic, After(t.worker, t.seqNum),
             seen' = seen \/ seen' = [seen EXCEPT ![t.worker] = t.seqNum]
      PROVE  SeenAfter
  <2>1. t.worker \in Workers
    BY Zenon DEF Topic
  <2> QED BY <1>0, <1>3, <1>7, <2>1, Zenon
<1>8. ASSUME NEW w \in Workers, Dispatch(w) \/ RestartWorker(w)
      PROVE  UNCHANGED <<seen, down, snap>>
  BY <1>8, Zenon DEF Dispatch, RestartWorker, receiver
<1>9. ASSUME NEW w \in Workers, NEW c \in Channels, CollectWorkerMessage(w, c)
      PROVE  SeenAfter /\ DownAfter /\ SnapAfter
  <2>1. UNCHANGED <<seen, snap>>
    BY <1>9, Zenon DEF CollectWorkerMessage, receiver
  <2>2. PICK t : t = Head(up[w][c])
    BY Zenon
  <2>3. t \in Topic /\ t.worker = w /\ (Drops(t) \/ \E lost \in BOOLEAN : Relays(t, lost))
    BY <1>9, <2>2, CollectEffect
  <2>4. t.seqNum \in Nat
    BY <2>3, Zenon DEF Topic
  <2>5. CASE UNCHANGED down
    BY <1>5, <2>1, <2>5, Zenon
  <2>6. ASSUME NEW lost \in BOOLEAN, Relays(t, lost), down' = Append(down, t)
        PROVE  DownAfter
    <3>1. storWorker' = Put(storWorker, WorkerCap, w, t.seqNum)
      BY <2>3, <2>6, Zenon DEF Relays
    <3>2. NumberIn(storWorker', w) = t.seqNum
      BY <1>0, <2>4, <3>1, NumberPut DEF Roomy
    <3>3. t.seqNum <= t.seqNum
      BY <2>4
    <3>4. After(t.worker, t.seqNum)
      BY <2>3, <3>2, <3>3, Zenon DEF After, Passed
    <3>5. /\ Len(down) \in Nat /\ Len(down') = Len(down) + 1 /\ down'[Len(down) + 1] = t
          /\ \A i \in 1 .. Len(down) : down'[i] = down[i]
      BY <1>0, <2>3, <2>6, Appended, ListLength
    <3>6. ASSUME NEW i \in 1 .. Len(down') PROVE After(down'[i].worker, down'[i].seqNum)
      <4>1. CASE i = Len(down) + 1
        BY <3>4, <3>5, <4>1, Zenon
      <4>2. CASE i # Len(down) + 1
        <5>1. i \in 1 .. Len(down)
          BY <3>5, <4>2
        <5> QED BY <1>3, <3>5, <5>1, Zenon
      <4> QED BY <4>1, <4>2, Zenon
    <3> QED BY <3>6, Zenon
  <2>7. UNCHANGED down \/ \E lost \in BOOLEAN : Relays(t, lost) /\ down' = Append(down, t)
    BY <2>3, Zenon DEF Drops, Relays
  <2> QED BY <1>5, <2>1, <2>5, <2>6, <2>7, Zenon
<1>10. CASE CollectBrokerMessage
  <2>1. down # <<>> /\ down' = Tail(down) /\ UNCHANGED snap
    BY <1>10, Zenon DEF CollectBrokerMessage
  <2>2. PICK t : t = Head(down)
    BY Zenon
  <2>3. /\ Len(down) \in Nat \ {0} /\ Len(down') = Len(down) - 1 /\ t = down[1] /\ t \in Topic
        /\ \A i \in 1 .. Len(down) - 1 : down'[i] = down[i + 1]
    BY <1>0, <2>1, <2>2, FirstOf, Zenon
  <2>4. 1 \in 1 .. Len(down) /\ \A i \in 1 .. Len(down) - 1 : i + 1 \in 1 .. Len(down)
    BY <2>3
  <2>5. DownAfter
    BY <1>3, <2>3, <2>4, Zenon
  <2>6. seen' = seen \/ seen' = [seen EXCEPT ![t.worker] = t.seqNum]
    BY <1>10, <2>2, Zenon DEF CollectBrokerMessage
  <2>7. After(t.worker, t.seqNum)
    BY <1>3, <2>3, <2>4, Zenon
  <2> QED BY <1>5, <1>7, <2>1, <2>3, <2>5, <2>6, <2>7, Zenon
<1>11. CASE Reconnect \/ SendSync \/ SyncError
  BY <1>5, <1>11, Zenon DEF Reconnect, SendSync, SyncError, receiver
<1>12. CASE ReplySnapshot
  <2>1. UNCHANGED <<seen, down, storWorker, seqNum, up>>
    BY <1>12, Zenon DEF ReplySnapshot, store
  <2>2. ASSUME NEW k \in 1 .. Len(snap'), snap'[k] # Complete
        PROVE  After(snap'[k].worker, snap'[k].seqNum)
    <3>1. PICK i \in DOMAIN storTopic : storTopic[i].val # <<>> /\ snap'[k] = Back(storTopic[i].val)
      BY <1>12, <2>2, ReplyEffect, Zenon
    <3>2. snap'[k].seqNum <= NumberIn(storWorker', snap'[k].worker)
      BY <2>1, <3>1, Zenon DEF BacksPassed
    <3> QED BY <3>2, Zenon DEF After, Passed
  <2> QED BY <1>5, <2>1, <2>2, Zenon
<1>13. CASE RecvElement
  <2>1. snap # <<>> /\ Head(snap) # Complete /\ snap' = Tail(snap) /\ UNCHANGED down
    BY <1>13, Zenon DEF RecvElement
  <2>2. PICK t : t = Head(snap)
    OBVIOUS
  <2>3. t = snap[1] /\ 1 \in 1 .. Len(snap) /\ t \in Topic
    BY <1>0, <2>1, <2>2, FirstOf
  <2>4. After(t.worker, t.seqNum)
    BY <1>3, <2>1, <2>2, <2>3, Zenon
  <2>5. seen' = seen \/ seen' = [seen EXCEPT ![t.worker] = t.seqNum]
    BY <1>13, <2>2, Zenon DEF RecvElement
  <2> QED BY <1>5, <1>6, <1>7, <2>1, <2>3, <2>4, <2>5, Zenon
<1>14. CASE RecvComplete
  BY <1>5, <1>6, <1>14, Zenon DEF RecvComplete
<1>15. CASE RestartBroker
  BY <1>5, <1>15, Zenon DEF RestartBroker
<1>16. CASE RestartReceiver
  <2>1. down' = <<>> /\ snap' = <<>> /\ UNCHANGED storWorker
    BY <1>16, Zenon DEF RestartReceiver, store
  <2>2. ASSUME NEW w \in Workers PROVE After(w, seen'[w])
    <3>1. seen'[w] = 0
      BY <1>16, Zenon DEF RestartReceiver
    <3>2. NumberIn(storWorker', w) \in Nat
      BY <1>0, <2>1, NumberType, Zenon
    <3>3. seen'[w] <= NumberIn(storWorker', w)
      BY <3>1, <3>2
    <3> QED BY <3>3, Zenon DEF After, Passed
  <2> QED BY <1>5, <2>1, <2>2, Zenon
<1>17. CASE UNCHANGED dvars
  BY <1>5, <1>17, Zenon DEF dvars, receiver
<1> QED BY <1>5, <1>8, <1>9, <1>10, <1>11, <1>12, <1>13, <1>14, <1>15, <1>16, <1>17 DEF DNext

\* A topic the broker accepts is ahead of all the receiver has seen or is
\* about to see of its worker, so that it will not discard it.
LEMMA RelayedAhead ==
    ASSUME DTypes, AllPassed, NEW w \in Workers, NEW c \in Channels, up[w][c] # <<>>,
           NEW t \in Topic, t = Head(up[w][c]), t.worker = w, t.seqNum > NumberIn(storWorker, w)
    PROVE  OnItsWay(Append(down, t), snap, seen, t)
<1>0. /\ down \in Seq(Topic) /\ snap \in Seq(Topic \cup {Complete}) /\ seen \in [Workers -> Nat]
      /\ storWorker \in NumberCaches /\ up[w][c] \in Seq(Topic) /\ t.seqNum \in Nat
  BY Zenon DEF DTypes, ReceiverTypes, LinkTypes, Topic
<1>1. t = up[w][c][1] /\ 1 \in 1 .. Len(up[w][c])
  BY <1>0, FirstOf
<1>2. NumberIn(storWorker, w) \in Nat
  BY <1>0, NumberType, Zenon
<1>3. ASSUME NEW n \in Nat, Passed(storWorker, seqNum, up, w, n) PROVE n < t.seqNum
  <2>1. CASE n <= NumberIn(storWorker, w)
    BY <1>0, <1>2, <2>1
  <2>2. CASE ~(n <= NumberIn(storWorker, w))
    <3>1. t.seqNum > n
      BY <1>1, <1>3, <2>2, Zenon DEF Passed
    <3> QED BY <1>0, <3>1, Zenon
  <2> QED BY <2>1, <2>2, Zenon
<1>4. t.seqNum > seen[t.worker]
  <2>1. seen[w] \in Nat /\ Passed(storWorker, seqNum, up, w, seen[w])
    BY <1>0, Zenon DEF AllPassed
  <2> QED BY <1>0, <1>3, <2>1, Zenon
<1>5. \A j \in 1 .. Len(down) : down[j].worker = t.worker => down[j].seqNum < t.seqNum
  BY <1>0, <1>3, TopicsOf, Zenon DEF AllPassed
<1>6. ASSUME NEW k \in 1 .. Len(snap), snap[k] # Complete, snap[k].worker = t.worker
      PROVE  snap[k].seqNum < t.seqNum
  <2>1. snap[k] \in Topic
    BY <1>0, <1>6, ListElement
  <2>2. snap[k].seqNum \in Nat
    BY <2>1, Zenon DEF Topic
  <2> QED BY <1>3, <1>6, <2>2, Zenon DEF AllPassed
<1>7. PICK d : d = Append(down, t)
  BY Zenon
<1>8. PICK n : n = Len(down) + 1
  BY Zenon
<1>9. /\ Len(down) \in Nat /\ Len(d) = n /\ d[n] = t
      /\ \A i \in 1 .. Len(down) : d[i] = down[i]
  BY <1>0, <1>7, <1>8, Appended, ListLength
<1>10. n \in 1 .. Len(d) /\ \A j \in 1 .. n - 1 : j \in 1 .. Len(down)
  BY <1>8, <1>9
<1>11. \A j \in 1 .. n - 1 : d[j].worker = t.worker => d[j].seqNum < t.seqNum
  BY <1>5, <1>9, <1>10, Zenon
<1>12. OnItsWay(d, snap, seen, t)
  BY <1>4, <1>6, <1>9, <1>10, <1>11, Zenon DEF OnItsWay
<1> QED BY <1>7, <1>12, Zenon

\* Another topic behind it does not delay it.
LEMMA StaysOnItsWay ==
    ASSUME NEW d \in Seq(Topic), NEW u \in Topic, NEW s, NEW m, NEW t, OnItsWay(d, s, m, t)
    PROVE  OnItsWay(Append(d, u), s, m, t)
<1>1. PICK e : e = Append(d, u)
  BY Zenon
<1>2. Len(d) \in Nat /\ Len(e) = Len(d) + 1 /\ \A i \in 1 .. Len(d) : e[i] = d[i]
  BY <1>1, Appended, ListLength
<1>3. PICK i \in 1 .. Len(d) :
        /\ d[i] = t /\ t.seqNum > m[t.worker]
        /\ \A j \in 1 .. i - 1 : d[j].worker = t.worker => d[j].seqNum < t.seqNum
        /\ \A k \in 1 .. Len(s) :
             s[k] # Complete /\ s[k].worker = t.worker => s[k].seqNum < t.seqNum
  BY Zenon DEF OnItsWay
<1>4. i \in 1 .. Len(e) /\ e[i] = t /\ \A j \in 1 .. i - 1 : j \in 1 .. Len(d)
  BY <1>2, <1>3
<1>5. \A j \in 1 .. i - 1 : e[j].worker = t.worker => e[j].seqNum < t.seqNum
  BY <1>2, <1>3, <1>4, Zenon
<1>6. OnItsWay(e, s, m, t)
  BY <1>3, <1>4, <1>5, Zenon DEF OnItsWay
<1> QED BY <1>1, <1>6, Zenon

\* What is given once stays given, in the session of the receiver.
LEMMA StaysGiven ==
    ASSUME DTypes, CollectBrokerMessage \/ RecvElement, NEW t, Given(elements, events, t)
    PROVE  Given(elements', events', t)
<1>1. CASE RecvElement
  BY <1>1, Zenon DEF RecvElement, Given
<1>2. CASE CollectBrokerMessage
  <2>0. events \in [Workers -> Seq(Topic)] /\ down \in Seq(Topic)
    BY Zenon DEF DTypes, GhostTypes, ReceiverTypes
  <2>1. PICK h : h = Head(down)
    BY Zenon
  <2>2. h \in Topic
    BY <1>2, <2>0, <2>1, FirstOf, Zenon DEF CollectBrokerMessage
  <2>3. h.worker \in Workers
    BY <2>2, Zenon DEF Topic
  <2>4. /\ UNCHANGED elements
        /\ \/ UNCHANGED events
           \/ events' = [events EXCEPT ![h.worker] = Append(events[h.worker], h)]
    BY <1>2, <2>1, Zenon DEF CollectBrokerMessage
  <2>5. ASSUME NEW w \in Workers, NEW i \in DOMAIN events[w]
        PROVE  i \in DOMAIN events'[w] /\ events'[w][i] = events[w][i]
    <3>1. CASE UNCHANGED events
      BY <3>1, Zenon
    <3>2. CASE events' = [events EXCEPT ![h.worker] = Append(events[h.worker], h)] /\ w # h.worker
      BY <2>0, <2>3, <3>2, Zenon
    <3>3. CASE events' = [events EXCEPT ![h.worker] = Append(events[h.worker], h)] /\ w = h.worker
      <4>1. events'[w] = Append(events[w], h) /\ events[w] \in Seq(Topic)
        BY <2>0, <2>3, <3>3, Zenon
      <4>2. /\ Len(events[w]) \in Nat /\ DOMAIN events[w] = 1 .. Len(events[w])
            /\ Append(events[w], h) \in Seq(Topic) /\ Len(Append(events[w], h)) = Len(events[w]) + 1
            /\ \A j \in 1 .. Len(events[w]) : Append(events[w], h)[j] = events[w][j]
        BY <2>2, <4>1, Appended, ListLength
      <4>3. DOMAIN Append(events[w], h) = 1 .. Len(events[w]) + 1
        BY <4>2, ListLength, Zenon
      <4> QED BY <4>1, <4>2, <4>3
    <3> QED BY <2>4, <3>1, <3>2, <3>3, Zenon
  <2> QED BY <2>4, <2>5, Zenon DEF Given
<1> QED BY <1>1, <1>2, Zenon

\* Reading what was relayed: the topic is given when its turn comes.
LEMMA ReadsDown ==
    ASSUME DTypes, CollectBrokerMessage, NEW t \in Topic, OnItsWay(down, snap, seen, t)
    PROVE  Given(elements', events', t) \/ OnItsWay(down', snap', seen', t)
<1>0. /\ down \in Seq(Topic) /\ seen \in [Workers -> Nat] /\ events \in [Workers -> Seq(Topic)]
      /\ t.worker \in Workers /\ t.seqNum \in Nat
  BY Zenon DEF DTypes, ReceiverTypes, GhostTypes, Topic
<1>1. PICK i \in 1 .. Len(down) :
        /\ down[i] = t /\ t.seqNum > seen[t.worker]
        /\ \A j \in 1 .. i - 1 : down[j].worker = t.worker => down[j].seqNum < t.seqNum
        /\ \A k \in 1 .. Len(snap) :
             snap[k] # Complete /\ snap[k].worker = t.worker => snap[k].seqNum < t.seqNum
  BY Zenon DEF OnItsWay
<1>2. down # <<>> /\ down' = Tail(down) /\ UNCHANGED <<snap, elements>>
  BY Zenon DEF CollectBrokerMessage
<1>3. PICK h : h = Head(down)
  BY Zenon
<1>4. /\ Len(down) \in Nat \ {0} /\ Len(down') = Len(down) - 1 /\ h = down[1] /\ h \in Topic
      /\ \A j \in 1 .. Len(down) - 1 : down'[j] = down[j + 1]
  BY <1>0, <1>2, <1>3, FirstOf, Zenon
<1>5. \/ UNCHANGED seen
      \/ /\ seen' = [seen EXCEPT ![h.worker] = h.seqNum]
         /\ events' = [events EXCEPT ![h.worker] = Append(events[h.worker], h)]
  BY <1>3, Zenon DEF CollectBrokerMessage
<1>6. CASE i = 1
  <2>1. h = t
    BY <1>1, <1>4, <1>6, Zenon
  <2>2. AcceptTopic(t)
    BY <1>1, Zenon DEF AcceptTopic
  <2>3. events' = [events EXCEPT ![t.worker] = Append(events[t.worker], t)]
    BY <1>3, <2>1, <2>2, Zenon DEF CollectBrokerMessage
  <2>4. events'[t.worker] = Append(events[t.worker], t) /\ events[t.worker] \in Seq(Topic)
    BY <1>0, <2>3, Zenon
  <2>5. PICK n : n = Len(events[t.worker]) + 1
    BY Zenon
  <2>6. n \in DOMAIN events'[t.worker] /\ events'[t.worker][n] = t
    <3>1. /\ Len(events[t.worker]) \in Nat /\ Append(events[t.worker], t) \in Seq(Topic)
          /\ Len(Append(events[t.worker], t)) = n /\ Append(events[t.worker], t)[n] = t
      BY <2>4, <2>5, Appended, ListLength
    <3>2. DOMAIN Append(events[t.worker], t) = 1 .. n
      BY <3>1, ListLength, Zenon
    <3> QED BY <2>4, <2>5, <3>1, <3>2
  <2> QED BY <1>0, <2>6, Zenon DEF Given
<1>7. CASE i # 1
  <2>1. /\ i - 1 \in 1 .. Len(down') /\ down'[i - 1] = t
        /\ \A j \in 1 .. (i - 1) - 1 : down'[j] = down[j + 1] /\ j + 1 \in 1 .. i - 1
    BY <1>1, <1>4, <1>7
  <2>2. \A j \in 1 .. (i - 1) - 1 : down'[j].worker = t.worker => down'[j].seqNum < t.seqNum
    BY <1>1, <2>1, Zenon
  <2>3. t.seqNum > seen'[t.worker]
    <3>1. 1 \in 1 .. i - 1
      BY <1>4, <1>7
    <3>2. h.worker = t.worker => h.seqNum < t.seqNum
      BY <1>1, <1>4, <3>1, Zenon
    <3>3. h.worker \in Workers /\ h.seqNum \in Nat
      BY <1>4, Zenon DEF Topic
    <3>4. CASE UNCHANGED seen
      BY <1>1, <3>4, Zenon
    <3>5. CASE seen' = [seen EXCEPT ![h.worker] = h.seqNum]
      <4>1. seen'[t.worker] = IF t.worker = h.worker THEN h.seqNum ELSE seen[t.worker]
        BY <1>0, <3>5, Zenon
      <4> QED BY <1>0, <1>1, <3>2, <3>3, <4>1, Zenon
    <3> QED BY <1>5, <3>4, <3>5, Zenon
  <2>4. OnItsWay(down', snap', seen', t)
    <3>1. \A k \in 1 .. Len(snap') :
             snap'[k] # Complete /\ snap'[k].worker = t.worker => snap'[k].seqNum < t.seqNum
      BY <1>1, <1>2, Zenon
    <3> QED BY <2>1, <2>2, <2>3, <3>1, Zenon DEF OnItsWay
  <2> QED BY <2>4, Zenon
<1> QED BY <1>6, <1>7, Zenon

\* Reading the snapshot overtakes nothing that is under way.
LEMMA ReadsSnap ==
    ASSUME DTypes, RecvElement, NEW t \in Topic
    PROVE  /\ InSnap(snap, t) => Given(elements', events', t) \/ InSnap(snap', t)
           /\ OnItsWay(down, snap, seen, t) => OnItsWay(down', snap', seen', t)
<1>0. /\ snap \in Seq(Topic \cup {Complete}) /\ seen \in [Workers -> Nat]
      /\ t.worker \in Workers /\ t.seqNum \in Nat
  BY Zenon DEF DTypes, ReceiverTypes, Topic
<1>1. snap # <<>> /\ Head(snap) # Complete /\ snap' = Tail(snap) /\ UNCHANGED down
  BY Zenon DEF RecvElement
<1>2. PICK h : h = Head(snap)
  BY Zenon
<1>3. /\ Len(snap) \in Nat \ {0} /\ Len(snap') = Len(snap) - 1 /\ h = snap[1] /\ h \in Topic
      /\ \A k \in 1 .. Len(snap) - 1 : snap'[k] = snap[k + 1]
  BY <1>0, <1>1, <1>2, FirstOf
<1>4. /\ elements' = elements \cup {h}
      /\ seen' = seen \/ seen' = [seen EXCEPT ![h.worker] = h.seqNum]
  BY <1>2, Zenon DEF RecvElement
<1>5. ASSUME InSnap(snap, t) PROVE Given(elements', events', t) \/ InSnap(snap', t)
  <2>1. PICK k \in 1 .. Len(snap) : snap[k] = t
    BY <1>5, Zenon DEF InSnap
  <2>2. CASE k = 1
    BY <1>3, <1>4, <2>1, <2>2, Zenon DEF Given
  <2>3. CASE k # 1
    <3>1. k - 1 \in 1 .. Len(snap') /\ snap'[k - 1] = t
      BY <1>3, <2>1, <2>3
    <3> QED BY <3>1, Zenon DEF InSnap
  <2> QED BY <2>2, <2>3, Zenon
<1>6. ASSUME OnItsWay(down, snap, seen, t) PROVE OnItsWay(down', snap', seen', t)
  <2>1. PICK i \in 1 .. Len(down) :
          /\ down[i] = t /\ t.seqNum > seen[t.worker]
          /\ \A j \in 1 .. i - 1 : down[j].worker = t.worker => down[j].seqNum < t.seqNum
          /\ \A k \in 1 .. Len(snap) :
               snap[k] # Complete /\ snap[k].worker = t.worker => snap[k].seqNum < t.seqNum
    BY <1>6, Zenon DEF OnItsWay
  <2>2. \A k \in 1 .. Len(snap') : snap'[k] = snap[k + 1] /\ k + 1 \in 1 .. Len(snap)
    BY <1>3
  <2>3. \A k \in 1 .. Len(snap') :
           snap'[k] # Complete /\ snap'[k].worker = t.worker => snap'[k].seqNum < t.seqNum
    BY <2>1, <2>2, Zenon
  <2>4. t.seqNum > seen'[t.worker]
    <3>1. h.worker = t.worker => h.seqNum < t.seqNum
      BY <1>1, <1>2, <1>3, <2>1
    <3>2. h.worker \in Workers /\ h.seqNum \in Nat
      BY <1>3, Zenon DEF Topic
    <3>3. CASE seen' = seen
      BY <2>1, <3>3, Zenon
    <3>4. CASE seen' = [seen EXCEPT ![h.worker] = h.seqNum]
      <4>1. seen'[t.worker] = IF t.worker = h.worker THEN h.seqNum ELSE seen[t.worker]
        BY <1>0, <3>4, Zenon
      <4> QED BY <1>0, <2>1, <3>1, <3>2, <4>1, Zenon
    <3> QED BY <1>4, <3>3, <3>4, Zenon
  <2>5. down' = down
    BY <1>1, Zenon
  <2> QED BY <2>1, <2>3, <2>4, <2>5, Zenon DEF OnItsWay
<1> QED BY <1>5, <1>6, Zenon

LEMMA ReachesNext ==
    ASSUME Roomy, DTypes, DTypes', AllPassed, Phases, Reaches, [DNext]_dvars
    PROVE  Reaches'
<1> DEFINE Safe(t) == \/ Given(elements', events', t) \/ InSnap(snap', t)
                      \/ OnItsWay(down', snap', seen', t)
<1> SUFFICES ASSUME Covered', NEW i \in DOMAIN storTopic', Wanted(storTopic'[i].val),
                    NEW t, t = Back(storTopic'[i].val)
             PROVE  Safe(t)
  BY Zenon DEF Reaches, Wanted, Back
<1>0. /\ down \in Seq(Topic) /\ snap \in Seq(Topic \cup {Complete})
      /\ storTopic \in TopicCaches /\ storTopic' \in TopicCaches
  BY Zenon DEF DTypes, ReceiverTypes, LinkTypes
<1>1. t \in Topic
  BY <1>0, TopicCacheItems, BackType, Zenon DEF Wanted
<1>2. ASSUME Covered, NEW j \in DOMAIN storTopic, storTopic'[i] = storTopic[j]
      PROVE  Given(elements, events, t) \/ InSnap(snap, t) \/ OnItsWay(down, snap, seen, t)
  BY <1>2, Zenon DEF Reaches
<1>3. ASSUME UNCHANGED storTopic, Covered
      PROVE  Given(elements, events, t) \/ InSnap(snap, t) \/ OnItsWay(down, snap, seen, t)
  BY <1>2, <1>3, Zenon
<1>4. ASSUME ~kept', ~fresh' PROVE FALSE
  BY <1>4, Zenon DEF Covered
<1>5. ASSUME UNCHANGED <<storTopic, down, snap, seen, elements, events, kept, fresh>>
      PROVE  Safe(t)
  <2>1. Covered
    BY <1>5, Zenon DEF Covered
  <2> QED BY <1>3, <1>5, <2>1, Zenon
<1>6. ASSUME NEW w \in Workers, Dispatch(w) \/ RestartWorker(w) PROVE Safe(t)
  <2>1. UNCHANGED <<storTopic, down, snap, seen, elements, events, kept, fresh>>
    BY <1>6, Zenon DEF Dispatch, RestartWorker, store, receiver, ghosts
  <2> QED BY <1>5, <2>1, Zenon
<1>7. ASSUME NEW w \in Workers, NEW c \in Channels, CollectWorkerMessage(w, c) PROVE Safe(t)
  <2>1. PICK u : u = Head(up[w][c])
    BY Zenon
  <2>2. /\ UNCHANGED <<receiver, events, elements>> /\ up[w][c] # <<>>
        /\ u \in Topic /\ u.worker = w
        /\ Drops(u) \/ \E lost \in BOOLEAN : Relays(u, lost)
    BY <1>7, <2>1, CollectEffect
  <2>3. UNCHANGED <<seen, snap, events, elements>> /\ u.name \in Names
    BY <2>2, Zenon DEF receiver, Topic
  <2>4. CASE Drops(u)
    <3>1. UNCHANGED <<down, kept, fresh>> /\ storTopic' = NamedIn(storTopic, u.name)
      BY <2>4, Zenon DEF Drops
    <3>2. Covered
      BY <2>3, <3>1, Zenon DEF Covered
    <3>3. PICK j \in DOMAIN storTopic : storTopic'[i] = storTopic[j]
      BY <1>0, <2>3, <3>1, NameStored DEF Wanted
    <3> QED BY <1>2, <2>3, <3>1, <3>2, <3>3, Zenon
  <2>5. ASSUME NEW lost \in BOOLEAN, Relays(u, lost) PROVE Safe(t)
    <3>1. ~lost
      BY <1>4, <2>5, Zenon DEF Relays
    <3>2. /\ down' = IF u.name \notin Subscribed THEN down ELSE Append(down, u)
          /\ storTopic' = TopicIn(storTopic, u) /\ u.seqNum > NumberIn(storWorker, w)
      BY <2>2, <2>5, <3>1, Zenon DEF Relays
    <3>3. Covered
      <4>1. (kept' => kept) /\ (fresh' => fresh)
        BY <2>5, Zenon DEF Relays
      <4> QED BY <2>3, <4>1, Zenon DEF Covered
    <3>4. \/ t = u
          \/ \E j \in DOMAIN storTopic : storTopic'[i] = storTopic[j]
      <4>1. \/ storTopic'[i].key = u.name /\ Back(storTopic'[i].val) = u
            \/ storTopic'[i].val = <<>>
            \/ \E j \in DOMAIN storTopic : storTopic'[i] = storTopic[j]
        <5>1. EndsWith(storTopic', storTopic, u)
          BY <1>0, <2>2, <3>2, TopicStored, Zenon
        <5> QED BY <5>1, Zenon DEF EndsWith
      <4> QED BY <4>1, Zenon DEF Wanted
    <3>5. CASE t = u
      <4>1. down' = Append(down, u)
        BY <3>2, <3>5, Zenon DEF Wanted
      <4>2. OnItsWay(Append(down, u), snap, seen, u)
        BY <2>1, <2>2, <3>2, RelayedAhead, Zenon
      <4> QED BY <2>3, <3>5, <4>1, <4>2, Zenon
    <3>6. CASE \E j \in DOMAIN storTopic : storTopic'[i] = storTopic[j]
      <4>1. Given(elements, events, t) \/ InSnap(snap, t) \/ OnItsWay(down, snap, seen, t)
        BY <1>2, <3>3, <3>6, Zenon
      <4>2. OnItsWay(down, snap, seen, t) => OnItsWay(down', snap, seen, t)
        BY <1>0, <2>2, <3>2, StaysOnItsWay, Zenon
      <4> QED BY <2>3, <4>1, <4>2, Zenon
    <3> QED BY <3>4, <3>5, <3>6, Zenon
  <2> QED BY <2>2, <2>4, <2>5, Zenon
<1>8. CASE CollectBrokerMessage
  <2>1. UNCHANGED <<storTopic, snap, kept, fresh>>
    BY <1>8, Zenon DEF CollectBrokerMessage, store
  <2>2. Covered
    BY <2>1, Zenon DEF Covered
  <2>3. Given(elements, events, t) \/ InSnap(snap, t) \/ OnItsWay(down, snap, seen, t)
    BY <1>3, <2>1, <2>2, Zenon
  <2>4. CASE Given(elements, events, t)
    BY <1>8, <2>4, StaysGiven, Zenon
  <2>5. CASE InSnap(snap, t)
    BY <2>1, <2>5, Zenon
  <2>6. CASE OnItsWay(down, snap, seen, t)
    BY <1>1, <1>8, <2>6, ReadsDown, Zenon
  <2> QED BY <2>3, <2>4, <2>5, <2>6, Zenon
<1>9. CASE Reconnect \/ RestartBroker \/ RestartReceiver
  BY <1>4, <1>9, Zenon DEF Reconnect, RestartBroker, RestartReceiver
<1>10. CASE SendSync
  BY <1>10, Zenon DEF SendSync, Covered
<1>11. CASE SyncError
  <2>1. snap' = <<>> /\ UNCHANGED <<storTopic, down, seen, elements, events, kept, fresh>>
    BY <1>11, Zenon DEF SyncError, store, ghosts
  <2>2. fresh
    BY <2>1, Zenon DEF Covered
  <2>3. snap' = snap
    BY <2>1, <2>2, Zenon DEF Phases
  <2> QED BY <1>5, <2>1, <2>3, Zenon
<1>12. CASE ReplySnapshot
  <2>1. UNCHANGED storTopic /\ ~fresh'
    BY <1>12, Zenon DEF ReplySnapshot, Phases, store
  <2>2. snap' # <<>> /\ snap'[Len(snap')] = Complete
    BY <2>1, Zenon DEF Covered
  <2>3. InSnap(snap', t)
    BY <1>12, <2>1, <2>2, ReplyEffect, Zenon
  <2> QED BY <2>3, Zenon
<1>13. CASE RecvElement
  <2>1. UNCHANGED <<storTopic, kept, fresh>> /\ snap # <<>> /\ Head(snap) # Complete /\ snap' = Tail(snap)
    BY <1>13, Zenon DEF RecvElement, store
  <2>2. /\ Len(snap) \in Nat \ {0} /\ Tail(snap) \in Seq(Topic \cup {Complete})
        /\ Len(Tail(snap)) = Len(snap) - 1
        /\ \A k \in 1 .. Len(snap) - 1 : Tail(snap)[k] = snap[k + 1]
    BY <1>0, <2>1, FirstOf, Zenon
  <2>3. Covered
    <3>1. CASE fresh'
      BY <2>1, <3>1, Zenon DEF Covered
    <3>2. CASE kept' /\ snap' # <<>> /\ snap'[Len(snap')] = Complete
      <4>1. Len(snap') \in Nat \ {0}
        BY <2>1, <2>2, <3>2, EmptyList
      <4>2. Len(snap') \in 1 .. Len(snap) - 1 /\ Len(snap') + 1 = Len(snap)
        BY <2>1, <2>2, <4>1
      <4>3. snap[Len(snap)] = Complete
        BY <2>1, <2>2, <3>2, <4>2, Zenon
      <4> QED BY <2>1, <3>2, <4>3, Zenon DEF Covered
    <3> QED BY <3>1, <3>2, Zenon DEF Covered
  <2>4. Given(elements, events, t) \/ InSnap(snap, t) \/ OnItsWay(down, snap, seen, t)
    BY <1>3, <2>1, <2>3, Zenon
  <2> QED BY <1>1, <1>13, <2>4, StaysGiven, ReadsSnap, Zenon
<1>14. CASE RecvComplete
  <2>1. /\ UNCHANGED <<storTopic, down, seen, elements, events, kept>>
        /\ snap # <<>> /\ Head(snap) = Complete /\ snap' = Tail(snap) /\ fresh' = kept
    BY <1>14, Zenon DEF RecvComplete, store
  <2>2. Len(snap) \in Nat \ {0} /\ snap[1] = Complete
    BY <1>0, <2>1, FirstOf, Zenon
  <2>3. Len(snap) = 1
    <3>1. 1 \in 1 .. Len(snap)
      BY <2>2
    <3>2. \A k \in 1 .. Len(snap) : snap[k] = Complete => k = Len(snap)
      BY Zenon DEF Phases
    <3> QED BY <2>2, <3>1, <3>2, Zenon
  <2>4. kept
    BY <2>1, Zenon DEF Covered
  <2>5. Covered
    BY <2>1, <2>2, <2>3, <2>4, Zenon DEF Covered
  <2>6. Given(elements, events, t) \/ InSnap(snap, t) \/ OnItsWay(down, snap, seen, t)
    BY <1>3, <2>1, <2>5, Zenon
  <2>7. Len(snap') = 0
    BY <1>0, <2>1, <2>3, FirstOf
  <2>8. ~InSnap(snap, t)
    <3>1. \A k \in 1 .. Len(snap) : snap[k] = Complete
      BY <2>2, <2>3
    <3> QED BY <1>1, <3>1, CompleteIsNoTopic, Zenon DEF InSnap
  <2>9. OnItsWay(down, snap, seen, t) => OnItsWay(down', snap', seen', t)
    <3>1. \A k \in 1 .. Len(snap') : FALSE
      BY <2>7
    <3> QED BY <2>1, <3>1, Zenon DEF OnItsWay
  <2> QED BY <2>1, <2>6, <2>8, <2>9, Zenon
<1>15. CASE UNCHANGED dvars
  <2>1. UNCHANGED <<storTopic, down, snap, seen, elements, events, kept, fresh>>
    BY <1>15, Zenon DEF dvars, store, receiver, ghosts
  <2> QED BY <1>5, <2>1, Zenon
<1> HIDE DEF Safe
<1> QED BY <1>6, <1>7, <1>8, <1>9, <1>10, <1>11, <1>12, <1>13, <1>14, <1>15 DEF DNext

ConvergenceInv == AllPassed /\ BacksPassed /\ Counted /\ Phases /\ Reaches

LEMMA ConvergenceInit == DInit => ConvergenceInv
<1> SUFFICES ASSUME DInit PROVE ConvergenceInv
  BY Zenon
<1>1. /\ storTopic = <<>> /\ storWorker = <<>> /\ down = <<>> /\ snap = <<>>
      /\ request = FALSE /\ kept = FALSE /\ fresh = FALSE
      /\ seqNum = [w \in Workers |-> 0] /\ seen = [w \in Workers |-> 0]
      /\ up = [w \in Workers |-> [c \in Channels |-> <<>>]]
  BY Zenon DEF DInit, BrInit
<1>2. Len(<<>>) = 0 /\ DOMAIN <<>> = {} /\ \A w \in Workers : NumberIn(<<>>, w) = 0
  BY EmptyList DEF NumberIn, KeysOf
<1>3. AllPassed
  <2>1. \A w \in Workers : Passed(storWorker, seqNum, up, w, seen[w])
    <3> SUFFICES ASSUME NEW w \in Workers PROVE seen[w] <= NumberIn(storWorker, w)
      BY Zenon DEF Passed
    <3>1. seen[w] = 0 /\ NumberIn(storWorker, w) = 0
      BY <1>1, <1>2, Zenon
    <3> QED BY <3>1
  <2>2. 1 .. Len(down) = {} /\ 1 .. Len(snap) = {}
    BY <1>1, <1>2
  <2> QED BY <2>1, <2>2, Zenon DEF AllPassed
<1>4. BacksPassed /\ Phases
  BY <1>1, <1>2 DEF BacksPassed, Phases
<1>5. Counted
  BY <1>1, <1>2 DEF Counted
<1>6. Reaches
  BY <1>1, Zenon DEF Reaches, Covered
<1> QED BY <1>3, <1>4, <1>5, <1>6, Zenon DEF ConvergenceInv

\* A receiver that completed a synchronization and lost nothing since was
\* given, once it has read what was relayed, the last state of every name it
\* is subscribed to and the broker has: for any workers that storWorker_ has
\* room for, any names, channels, capacities of storTopic_ and losses, and
\* when the broker may be restarted or workers may be restarted without their
\* sequence numbers, but not both.
THEOREM ReceiverConverges ==
    ASSUME Roomy, ~({"broker", "worker"} \subseteq MayRestart)
    PROVE  DSpec => []Converges
<1>1. ConvergenceInv /\ DTypes /\ DTypes' /\ [DNext]_dvars => ConvergenceInv'
  BY AllPassedNext, BacksPassedNext, CountedNext, PhasesNext, ReachesNext, Zenon DEF ConvergenceInv
<1>2. ASSUME ConvergenceInv PROVE Converges
  <2> SUFFICES ASSUME fresh, down = <<>>, NEW i \in DOMAIN storTopic, Wanted(storTopic[i].val),
                      NEW t, t = Back(storTopic[i].val)
               PROVE  t \in Known
    BY Zenon DEF Converges, Wanted
  <2>1. snap = <<>> /\ Covered /\ Len(<<>>) = 0
    BY <1>2, EmptyList, Zenon DEF ConvergenceInv, Phases, Covered
  <2>2. Given(elements, events, t) \/ InSnap(snap, t) \/ OnItsWay(down, snap, seen, t)
    BY <1>2, <2>1, Zenon DEF ConvergenceInv, Reaches
  <2>3. ~InSnap(snap, t) /\ ~OnItsWay(down, snap, seen, t)
    BY <2>1 DEF InSnap, OnItsWay
  <2> QED BY <2>2, <2>3 DEF Given, Known
<1> QED BY <1>1, <1>2, ConvergenceInit, DTypesAlways, PTL DEF DSpec

=============================================================================
