---------------------------- MODULE RunnerProofs ----------------------------
(***************************************************************************)
(* Theorems about a Runner, about the settings that its session works with,*)
(* and about those who wait for its events.                                *)
(***************************************************************************)
EXTENDS Runner, Subscriptions, Waiting, TLAPS

-----------------------------------------------------------------------------
(* Runner keeps one session at a time over its shared sockets, for every   *)
(* number of restarts, and its tokens tell the sessions' operations apart  *)
(* as long as no round of the token fits between a failed session and the  *)
(* next one that empties the queue.                                        *)

\* Some start() throws in createSession().
StartMayFail == FailingStarts # {}

\* Where a token can be taken for another one: start() may fail, with nobody
\* reading the queue, often enough for token_ to come round.
NoWrap == StartMayFail => MaxStarts < TokenMod

-----------------------------------------------------------------------------
(* The inductive invariant.                                                *)

\* The session thread and its completion are of the last start(), in one
\* place at a time, and running_ stays true until the completion is read.
OneSession ==
    /\ loops \subseteq {Me} /\ ending \subseteq {Me} /\ loops \cap ending = {}
    /\ fin # NoId => fin = Me /\ running /\ Live = {} /\ taken = NoId
    /\ taken # NoId => taken = Me /\ running /\ Live = {} /\ fin = NoId
    /\ Live # {} => running

\* Operations wait in the order of the sessions they were sent to, and those
\* for the current one carry its token.
OpsOrder ==
    /\ \A i \in 1 .. Len(ops) : ops[i].id.gen <= gen
    /\ \A i \in 1 .. Len(ops) : ops[i].id.gen = gen => ops[i].id = Me
    /\ \A i, j \in 1 .. Len(ops) : i < j => ops[i].id.gen <= ops[j].id.gen

\* Without failures of start(), only a session which has not got to its Start
\* yet can have operations of an earlier one before it.
OldOps ==
    ~StartMayFail =>
        \/ loops = {Me} /\ started # Me
        \/ \A i \in 1 .. Len(ops) : ops[i].id = Me

\* With them, the token is the number of the start() call.
TokenIsGen ==
    StartMayFail =>
        /\ gen <= MaxStarts /\ token = gen
        /\ \A i \in 1 .. Len(ops) : ops[i].id.tok = ops[i].id.gen

\* A waiting operation with the current token was sent to the current session.
TokensTellApart ==
    \A i \in 1 .. Len(ops) : ops[i].id.tok = token => ops[i].id = Me

\* The last session to execute a Start is not a future one.
StartedPast == started # NoId => started.gen <= gen

IInv == /\ TypeOK /\ OneSession /\ OpsOrder /\ OldOps /\ TokenIsGen
        /\ TokensTellApart /\ StartedPast

-----------------------------------------------------------------------------
(* What the queue operations do to a sequence.                             *)

\* Taking the first element moves the others one place ahead.
LEMMA TailFacts ==
    ASSUME NEW S, NEW q \in Seq(S), q # <<>>
    PROVE  /\ Tail(q) \in Seq(S) /\ Len(q) \in Nat \ {0}
           /\ Len(Tail(q)) = Len(q) - 1
           /\ Head(q) = q[1] /\ q[1] \in S
           /\ \A i \in 1 .. Len(Tail(q)) : Tail(q)[i] = q[i + 1]
    OBVIOUS

\* Appending leaves the elements where they are.
LEMMA AppendFacts ==
    ASSUME NEW S, NEW q \in Seq(S), NEW e \in S
    PROVE  /\ Append(q, e) \in Seq(S) /\ Len(q) \in Nat
           /\ Len(Append(q, e)) = Len(q) + 1
           /\ Append(q, e)[Len(q) + 1] = e
           /\ \A i \in 1 .. Len(q) : Append(q, e)[i] = q[i]
    OBVIOUS

\* Every waiting operation is one.
LEMMA OpType ==
    ASSUME TypeOK, NEW i \in 1 .. Len(ops)
    PROVE  ops[i] \in Ops /\ ops[i].id \in Ids
<1>1. ops[i] \in Ops
    BY DEF TypeOK
<1> QED BY <1>1, Zenon DEF Ops

\* The identity of the current session is a proper one.
LEMMA MeType == TypeOK => Me \in Ids /\ Me # NoId
    BY RunnerAssumption DEF TypeOK, Me, Ids, NoId, Tokens

\* isRunning() is true whenever the session thread, or another thread looking
\* at its completion, is there.
LEMMA NotRunning ==
    ASSUME TypeOK, OneSession, ~IsRunning
    PROVE  Live = {} /\ loops = {} /\ ending = {} /\ taken = NoId
    BY RunnerAssumption DEF TypeOK, OneSession, IsRunning, Live, NoId, Tokens

\* ++token_ gives another token.
LEMMA NextTokenFacts ==
    ASSUME TypeOK
    PROVE  NextToken \in Tokens /\ NextToken # token
    BY RunnerAssumption DEF TypeOK, NextToken, Tokens

\* start(), in either outcome, makes a token no waiting operation carries.
LEMMA FreshToken ==
    ASSUME NoWrap, IInv, ~IsRunning, gen < MaxStarts,
           NEW i \in 1 .. Len(ops)
    PROVE  ops[i].id.tok # NextToken
<1>1. CASE StartMayFail
    <2>1. ops[i].id \in Ids /\ ops[i].id.tok = ops[i].id.gen
        BY <1>1, OpType, Zenon DEF IInv, TokenIsGen
    <2>2. ops[i].id.gen <= gen
        BY Zenon DEF IInv, OpsOrder
    <2>3. NextToken = gen + 1
        BY <1>1, RunnerAssumption DEF NoWrap, IInv, TypeOK, TokenIsGen, NextToken
    <2> QED BY <2>1, <2>2, <2>3 DEF IInv, TypeOK, Ids
<1>2. CASE ~StartMayFail
    <2>1. loops = {}
        BY NotRunning, Zenon DEF IInv
    <2>2. ops[i].id = Me
        BY <1>2, <2>1, Zenon DEF IInv, OldOps
    <2> QED BY <2>2, NextTokenFacts DEF IInv, Me
<1> QED BY <1>1, <1>2, Zenon

-----------------------------------------------------------------------------
(* Every step preserves the invariant.                                     *)

\* Sending an operation keeps the queue in order.
LEMMA SendKeeps ==
    ASSUME IInv, NEW type \in OpTypes, SendOperation(type),
           UNCHANGED <<gen, token, loops, started>>
    PROVE  /\ ops' \in Seq(Ops)
           /\ OpsOrder' /\ OldOps' /\ TokenIsGen' /\ TokensTellApart'
<1> DEFINE e == [id |-> Me, type |-> type]
<1>1. e \in Ops
    BY MeType, Zenon DEF IInv, Ops
<1>2. /\ ops' \in Seq(Ops) /\ Len(ops) \in Nat /\ Len(ops') = Len(ops) + 1
      /\ ops'[Len(ops) + 1] = e
      /\ \A i \in 1 .. Len(ops) : ops'[i] = ops[i]
    BY <1>1, AppendFacts DEF SendOperation, IInv, TypeOK
<1>3. \A i \in 1 .. Len(ops') : \/ i \in 1 .. Len(ops) /\ ops'[i] = ops[i]
                                \/ i = Len(ops) + 1 /\ ops'[i].id = Me
    BY <1>2
<1>4. Me' = Me /\ Me.gen = gen /\ Me.tok = token /\ gen \in Nat
    BY Zenon DEF Me, IInv, TypeOK
<1>5. \A i \in 1 .. Len(ops) : ops[i].id.gen \in Nat
    BY OpType, Zenon DEF IInv, Ids
<1> HIDE DEF e
<1>6. OpsOrder'
    <2>1. \A i \in 1 .. Len(ops') : ops'[i].id.gen <= gen'
        BY <1>3, <1>4 DEF IInv, OpsOrder
    <2>2. \A i \in 1 .. Len(ops') : ops'[i].id.gen = gen' => ops'[i].id = Me'
        BY <1>3, <1>4, Zenon DEF IInv, OpsOrder
    <2>3. ASSUME NEW i \in 1 .. Len(ops'), NEW j \in 1 .. Len(ops'), i < j
          PROVE  ops'[i].id.gen <= ops'[j].id.gen
        <3>1. i \in 1 .. Len(ops) /\ ops'[i] = ops[i]
            BY <1>2, <2>3
        <3>2. CASE j \in 1 .. Len(ops)
            BY <1>2, <2>3, <3>1, <3>2, Zenon DEF IInv, OpsOrder
        <3>3. CASE j = Len(ops) + 1
            BY <1>3, <1>4, <3>1, <3>3 DEF IInv, OpsOrder
        <3> QED BY <1>2, <3>2, <3>3
    <2> QED BY <2>1, <2>2, <2>3, Zenon DEF OpsOrder
<1>7. OldOps'
    BY <1>2, <1>3, <1>4, Zenon DEF IInv, OldOps
<1>8. TokenIsGen'
    BY <1>2, <1>3, <1>4, Zenon DEF IInv, TokenIsGen
<1>9. TokensTellApart'
    BY <1>2, <1>3, <1>4, Zenon DEF IInv, TokensTellApart
<1> QED BY <1>2, <1>6, <1>7, <1>8, <1>9, Zenon

\* start() makes a new identity, with nothing waiting for it.
LEMMA NewSession ==
    ASSUME NoWrap, IInv, ~IsRunning, gen < MaxStarts,
           gen' = gen + 1, token' = NextToken, UNCHANGED <<ops, started>>,
           StartMayFail \/ loops' = {Me'}
    PROVE  /\ gen' \in Nat /\ token' \in Tokens /\ Me' \in Ids
           /\ OpsOrder' /\ OldOps' /\ TokenIsGen' /\ TokensTellApart'
           /\ StartedPast'
<1>1. gen' \in Nat /\ token' \in Tokens /\ Me' \in Ids /\ gen \in Nat
    BY NextTokenFacts DEF IInv, TypeOK, Me, Ids
<1>2. \A i \in 1 .. Len(ops) : /\ ops[i].id.gen \in Nat /\ ops[i].id.gen <= gen
                               /\ ops[i].id.tok # token'
    BY OpType, FreshToken, Zenon DEF IInv, OpsOrder, Ids
<1>3. OpsOrder'
    BY <1>1, <1>2 DEF IInv, OpsOrder
<1>4. TokensTellApart'
    BY <1>2, Zenon DEF TokensTellApart
<1>5. TokenIsGen'
    BY RunnerAssumption DEF NoWrap, IInv, TypeOK, TokenIsGen, NextToken
<1>6. StartedPast'
    <2>1. started # NoId => started.gen \in Nat /\ started.gen <= gen
        BY Zenon DEF IInv, TypeOK, StartedPast, Ids
    <2> QED BY <1>1, <2>1 DEF StartedPast, NoId
<1>7. OldOps'
    <2>1. started # Me'
        <3>1. CASE started = NoId
            BY <3>1, <1>1, RunnerAssumption DEF Me, NoId, Tokens
        <3>2. CASE started # NoId
            BY <3>2, <1>1 DEF Me, IInv, StartedPast
        <3> QED BY <3>1, <3>2, Zenon
    <2> QED BY <2>1, Zenon DEF OldOps
<1> QED BY <1>1, <1>3, <1>4, <1>5, <1>6, <1>7, Zenon

\* A session that takes an operation for its own takes one sent to it, and
\* with it the queue is clear of what was left by the sessions before.
LEMMA OwnHead ==
    ASSUME IInv, NEW s \in loops, ops # <<>>, IsMine(s, Head(ops))
    PROVE  /\ s = Me /\ Head(ops).id = Me
           /\ \A i \in 1 .. Len(ops) : ops[i].id = Me
<1>1. /\ Len(ops) \in Nat \ {0} /\ Head(ops) = ops[1] /\ 1 \in 1 .. Len(ops)
      /\ gen \in Nat
    BY TailFacts DEF IInv, TypeOK
<1>2. s = Me
    BY Zenon DEF IInv, OneSession
<1>3. Head(ops).id = Me
    BY <1>1, <1>2, Zenon DEF IInv, TokensTellApart, IsMine, Me
<1>4. ASSUME NEW i \in 1 .. Len(ops)
      PROVE  ops[i].id = Me
    <2>1. ops[i].id.gen \in Nat /\ ops[i].id.gen <= gen
        BY OpType, Zenon DEF IInv, Ids, OpsOrder
    <2>2. ops[1].id.gen <= ops[i].id.gen
        BY <1>1, <1>3, <2>1 DEF IInv, OpsOrder, Me
    <2>3. ops[i].id.gen = gen
        BY <1>1, <1>3, <2>1, <2>2 DEF Me
    <2> QED BY <2>3, Zenon DEF IInv, OpsOrder
<1> QED BY <1>2, <1>3, <1>4, Zenon

\* A turn of the session's loop preserves the invariant.
LEMMA ExecuteKeeps ==
    ASSUME IInv, NEW s \in loops, Execute(s)
    PROVE  IInv'
<1>1. /\ ops' \in Seq(Ops) /\ Len(ops) \in Nat \ {0} /\ Len(ops') = Len(ops) - 1
      /\ Head(ops) = ops[1] /\ ops[1] \in Ops
      /\ \A i \in 1 .. Len(ops') : i + 1 \in 1 .. Len(ops) /\ ops'[i] = ops[i + 1]
    BY TailFacts DEF Execute, IInv, TypeOK
<1>2. s = Me /\ s \in Ids /\ s \notin ending /\ s # NoId /\ loops = {Me}
    BY MeType, Zenon DEF IInv, OneSession
<1>3. Me' = Me /\ UNCHANGED <<gen, token, running, main, fin, taken, held, stuck>>
    BY Zenon DEF Execute, Me
<1>4. EventOf(s, Head(ops).type) \in Seq(Evs)
    <2>1. [id |-> s, type |-> "Started"] \in Evs /\ [id |-> s, type |-> "Stopped"] \in Evs
        BY <1>2, Zenon DEF Evs, EvTypes
    <2> QED BY <2>1, AppendFacts, Zenon DEF EventOf, IInv, TypeOK
<1>5. /\ evs' \in Seq(Evs) /\ started' \in {started, s}
      /\ \/ UNCHANGED <<loops, ending>>
         \/ loops' = loops \ {s} /\ ending' = ending \cup {s}
    BY <1>4, Zenon DEF Execute, IInv, TypeOK
<1>6. TypeOK'
    BY <1>1, <1>2, <1>3, <1>5, Zenon DEF IInv, TypeOK
<1>7. OneSession'
    BY <1>2, <1>3, <1>5, Zenon DEF IInv, OneSession, Live
<1>8. OpsOrder'
    <2>1. \A i \in 1 .. Len(ops') : ops'[i].id.gen <= gen'
        BY <1>1, <1>3, Zenon DEF IInv, OpsOrder
    <2>2. \A i \in 1 .. Len(ops') : ops'[i].id.gen = gen' => ops'[i].id = Me'
        BY <1>1, <1>3, Zenon DEF IInv, OpsOrder
    <2>3. ASSUME NEW i \in 1 .. Len(ops'), NEW j \in 1 .. Len(ops'), i < j
          PROVE  ops'[i].id.gen <= ops'[j].id.gen
        <3>1. i + 1 < j + 1
            BY <1>1, <2>3
        <3> QED BY <1>1, <3>1, Zenon DEF IInv, OpsOrder
    <2> QED BY <2>1, <2>2, <2>3, Zenon DEF OpsOrder
<1>9. OldOps'
    <2>1. CASE IsMine(s, Head(ops))
        <3>1. \A i \in 1 .. Len(ops) : ops[i].id = Me
            BY <2>1, OwnHead, Zenon DEF Execute
        <3> QED BY <1>1, <1>3, <3>1, Zenon DEF OldOps
    <2>2. CASE ~IsMine(s, Head(ops))
        <3>1. UNCHANGED <<started, loops>>
            BY <2>2, Zenon DEF Execute
        <3> QED BY <1>1, <1>3, <3>1, Zenon DEF IInv, OldOps
    <2> QED BY <2>1, <2>2, Zenon
<1>10. TokenIsGen'
    BY <1>1, <1>3, Zenon DEF IInv, TokenIsGen
<1>11. TokensTellApart'
    BY <1>1, <1>3, Zenon DEF IInv, TokensTellApart
<1>12. StartedPast'
    BY <1>2, <1>3, <1>5 DEF IInv, StartedPast, Me, TypeOK
<1> QED BY <1>6, <1>7, <1>8, <1>9, <1>10, <1>11, <1>12, Zenon DEF IInv

\* Reading the completion, as every call of the caller does first, clears
\* running_ only when the session thread is gone.
LEMMA PollKeeps ==
    ASSUME IInv, PollFin, ops' \in Seq(Ops),
           UNCHANGED <<gen, token, main, evs, taken, loops, ending, held, started,
                       stuck>>
    PROVE  TypeOK' /\ OneSession'
<1>1. TypeOK'
    BY Zenon DEF PollFin, IsRunning, IInv, TypeOK
<1>2. CASE IsRunning
    BY <1>1, <1>2, Zenon DEF PollFin, IsRunning, IInv, OneSession, Live, Me
<1>3. CASE ~IsRunning
    <2>1. Live = {} /\ loops = {} /\ ending = {} /\ taken = NoId
        BY <1>3, NotRunning, Zenon DEF IInv
    <2> QED BY <1>1, <1>3, <2>1, Zenon DEF PollFin, OneSession, Live
<1> QED BY <1>1, <1>2, <1>3, Zenon

\* Init establishes the invariant.
LEMMA InitInv == Init => IInv
<1> SUFFICES ASSUME Init PROVE IInv
    BY Zenon
<1>1. TypeOK
    <2>1. <<>> \in Seq(Ops) /\ <<>> \in Seq(Evs) /\ 0 \in Tokens
        BY RunnerAssumption DEF Tokens
    <2> QED BY <2>1, Zenon DEF Init, TypeOK
<1>2. Len(ops) = 0
    BY Zenon DEF Init
<1> QED BY <1>1, <1>2, RunnerAssumption
        DEF Init, IInv, OneSession, Live, OpsOrder, OldOps, TokenIsGen,
            TokensTellApart, StartedPast

\* One step per action of Runner.
LEMMA StepInv == ASSUME NoWrap, IInv, [Next]_vars PROVE IInv'
<1> USE DEF IInv
<1>m. Me \in Ids /\ Me # NoId
    BY MeType, Zenon
<1>1. CASE Start
    <2>1. Live = {} /\ loops = {} /\ ending = {} /\ taken = NoId
        BY <1>1, NotRunning, Zenon DEF Start
    <2>2. loops' = {Me'}
        BY <1>1, <2>1, Zenon DEF Start
    <2>3. /\ gen' \in Nat /\ token' \in Tokens /\ Me' \in Ids
          /\ OpsOrder' /\ OldOps' /\ TokenIsGen' /\ TokensTellApart' /\ StartedPast'
        BY <1>1, <2>2, NewSession, Zenon DEF Start
    <2>4. TypeOK'
        BY <1>1, <2>2, <2>3, Zenon DEF Start, TypeOK
    <2>5. OneSession'
        BY <1>1, <2>1, <2>2, Zenon DEF Start, OneSession, Live
    <2> QED BY <2>3, <2>4, <2>5, Zenon
<1>2. CASE Query
    <2>1. TypeOK' /\ OneSession'
        BY <1>2, PollKeeps, Zenon DEF Query, TypeOK
    <2> QED BY <1>2, <2>1, Zenon DEF Query, Me, OpsOrder, OldOps, TokenIsGen, TokensTellApart,
                StartedPast
<1>3. CASE StartThrows
    <2>1. Live = {} /\ loops = {} /\ ending = {} /\ taken = NoId
        BY <1>3, NotRunning, Zenon DEF StartThrows
    <2>2. /\ gen' \in Nat /\ token' \in Tokens /\ Me' \in Ids
          /\ OpsOrder' /\ OldOps' /\ TokenIsGen' /\ TokensTellApart' /\ StartedPast'
        BY <1>3, NewSession, Zenon DEF StartThrows, StartMayFail
    <2>3. TypeOK'
        BY <1>3, <2>2, Zenon DEF StartThrows, TypeOK
    <2>4. OneSession'
        BY <1>3, <2>1, Zenon DEF StartThrows, OneSession, Live
    <2> QED BY <2>2, <2>3, <2>4
<1>4. CASE StartSends
    <2>1. /\ ops' \in Seq(Ops)
          /\ OpsOrder' /\ OldOps' /\ TokenIsGen' /\ TokensTellApart'
        BY <1>4, SendKeeps, Zenon DEF StartSends, OpTypes
    <2> QED BY <1>4, <2>1, Zenon DEF StartSends, TypeOK, OneSession, Live, Me, StartedPast
<1>5. ASSUME NEW type \in OpTypes, Request(type) PROVE IInv'
    <2>1. /\ ops' \in Seq(Ops)
          /\ OpsOrder' /\ OldOps' /\ TokenIsGen' /\ TokensTellApart'
        <3>1. CASE IsRunning
            BY <1>5, <3>1, SendKeeps, Zenon DEF Request
        <3>2. CASE ~IsRunning
            BY <1>5, <3>2, Zenon DEF Request, TypeOK, OpsOrder, OldOps, TokenIsGen,
                              TokensTellApart, Me
        <3> QED BY <3>1, <3>2, Zenon
    <2>2. TypeOK' /\ OneSession'
        BY <1>5, <2>1, PollKeeps, Zenon DEF Request
    <2> QED BY <1>5, <2>1, <2>2, Zenon DEF Request, StartedPast
<1>6. CASE ReleaseFuture
    BY <1>6, Zenon DEF ReleaseFuture, TypeOK, OneSession, Live, Me, OpsOrder, OldOps,
                TokenIsGen, TokensTellApart, StartedPast
<1>7. CASE WaitForStarted
    <2>1. evs' \in Seq(Evs)
        <3>1. PICK i \in 1 .. Len(evs) : evs' = SubSeq(evs, i + 1, Len(evs))
            BY <1>7, Zenon DEF WaitForStarted
        <3> QED BY <3>1 DEF TypeOK
    <2> QED BY <1>7, <2>1, Zenon DEF WaitForStarted, TypeOK, OneSession, Live, Me, OpsOrder,
                OldOps, TokenIsGen, TokensTellApart, StartedPast
<1>8. CASE ObserverTakes
    BY <1>8, Zenon DEF ObserverTakes, TypeOK, OneSession, Live, Me, OpsOrder, OldOps,
                TokenIsGen, TokensTellApart, StartedPast
<1>9. CASE ObserverStores
    BY <1>9, Zenon DEF ObserverStores, TypeOK, OneSession, Live, Me, OpsOrder, OldOps,
                TokenIsGen, TokensTellApart, StartedPast
<1>10. ASSUME NEW s \in loops, Execute(s) PROVE IInv'
    BY <1>10, ExecuteKeeps, Zenon
<1>11. ASSUME NEW s \in loops, Dies(s) PROVE IInv'
    <2>1. TypeOK' /\ OneSession'
        BY <1>11, Zenon DEF Dies, TypeOK, OneSession, Live, Me
    <2>2. OldOps'
        BY <1>11, Zenon DEF Dies, StartMayFail, OldOps, OneSession, Me
    <2> QED BY <1>11, <2>1, <2>2, Zenon DEF Dies, Me, OpsOrder, TokenIsGen, TokensTellApart,
                StartedPast
<1>12. ASSUME NEW s \in ending, SendFin(s) PROVE IInv'
    <2>1. TypeOK' /\ OneSession'
        BY <1>12, <1>m, Zenon DEF SendFin, TypeOK, OneSession, Live, Me
    <2> QED BY <1>12, <2>1, Zenon DEF SendFin, Me, OpsOrder, OldOps, TokenIsGen,
                TokensTellApart, StartedPast
<1>13. ASSUME NEW s \in loops, RecvBlocks(s) \/ RecvReturns(s) PROVE IInv'
    <2>1. UNCHANGED <<gen, token, running, main, ops, evs, fin, taken, loops, ending, held,
                      started>>
        BY <1>13, Zenon DEF RecvBlocks, RecvReturns
    <2>2. stuck' \in SUBSET Ids
        BY <1>13, Zenon DEF RecvBlocks, RecvReturns, TypeOK
    <2> QED BY <2>1, <2>2, Zenon DEF TypeOK, OneSession, Live, Me, OpsOrder, OldOps, TokenIsGen,
                TokensTellApart, StartedPast
<1>14. CASE UNCHANGED vars
    BY <1>14, Zenon DEF vars, TypeOK, OneSession, Live, Me, OpsOrder, OldOps, TokenIsGen,
                 TokensTellApart, StartedPast
<1> QED BY <1>1, <1>2, <1>3, <1>4, <1>5, <1>6, <1>7, <1>8, <1>9, <1>10, <1>11,
           <1>12, <1>13, <1>14, Zenon DEF Next, Session, Stop, Work, OpTypes

-----------------------------------------------------------------------------
(* What a session executes and reports, and in which order.                *)

StartOp(i) == ops[i].id = Me /\ ops[i].type = "Start"

\* start() sends one Start, and the session has not executed it before.
StartOnce ==
    /\ main = "spawned" =>
         started # Me /\ \A i \in 1 .. Len(ops) : ops[i].id # Me
    /\ \A i \in 1 .. Len(ops) : StartOp(i) => started # Me
    /\ \A i, j \in 1 .. Len(ops) : StartOp(i) /\ StartOp(j) => i = j

\* It is ahead of anything else sent to the session.
StartAhead ==
    \A i \in 1 .. Len(ops) : ops[i].id = Me /\ ops[i].type # "Start" =>
        started = Me \/ \E j \in 1 .. Len(ops) : j < i /\ StartOp(j)

\* While the caller sees the session running, its Start is queued or executed.
Launched ==
    main = "idle" /\ running =>
        started = Me \/ \E i \in 1 .. Len(ops) : StartOp(i)

\* An event of the current session comes after its Start, and nothing more
\* comes from it after Stopped.
EventsPast ==
    \A i \in 1 .. Len(evs) :
        /\ evs[i].id.gen <= gen
        /\ evs[i].id.gen = gen =>
             /\ evs[i].id = Me /\ started = Me
             /\ evs[i].type = "Stopped" => loops = {}

JInv == StartOnce /\ StartAhead /\ Launched /\ EventsPast /\ EventOrder

\* Every event read is one.
LEMMA EvType ==
    ASSUME TypeOK, NEW i \in 1 .. Len(evs)
    PROVE  evs[i] \in Evs /\ evs[i].id \in Ids /\ evs[i].type \in EvTypes
<1>1. evs[i] \in Evs
    BY DEF TypeOK
<1> QED BY <1>1, Zenon DEF Evs

\* start() again makes a new identity, with no operation and no event.
LEMMA NewSessionOrder ==
    ASSUME NoWrap, IInv, JInv, ~IsRunning, gen < MaxStarts,
           gen' = gen + 1, token' = NextToken, UNCHANGED <<ops, evs, started>>,
           main' = "spawned" \/ ~running'
    PROVE  JInv'
<1>1. gen \in Nat /\ \A i \in 1 .. Len(ops) : ops[i].id # Me'
    BY FreshToken DEF IInv, TypeOK, Me
<1>2. started # Me'
    <2>1. CASE started = NoId
        BY <2>1, NextTokenFacts, RunnerAssumption DEF Me, NoId, Tokens, IInv
    <2>2. CASE started # NoId
        BY <1>1, <2>2 DEF Me, IInv, StartedPast
    <2> QED BY <2>1, <2>2, Zenon
<1>3. \A i \in 1 .. Len(evs) : evs[i].id.gen \in Nat /\ evs[i].id.gen <= gen
    BY EvType, Zenon DEF IInv, Ids, JInv, EventsPast
<1>4. EventsPast'
    BY <1>1, <1>3 DEF EventsPast
<1>5. StartOnce' /\ StartAhead' /\ Launched'
    BY <1>1, <1>2, Zenon DEF StartOnce, StartAhead, Launched, StartOp
<1> QED BY <1>4, <1>5, Zenon DEF JInv, EventOrder

\* Steps that leave the queues, the session and its identity alone.
LEMMA OrderStutter ==
    ASSUME JInv, UNCHANGED <<gen, token, main, ops, evs, started>>,
           loops' \subseteq loops, running' => running
    PROVE  JInv'
<1>1. Me' = Me
    BY Zenon DEF Me
<1>2. StartOnce' /\ StartAhead'
    BY <1>1, Zenon DEF JInv, StartOnce, StartAhead, StartOp
<1>3. Launched'
    BY <1>1, Zenon DEF JInv, Launched, StartOp
<1>4. EventsPast'
    <2>1. \A i \in 1 .. Len(evs) : evs[i].id.gen = gen /\ evs[i].type = "Stopped" => loops' = {}
        BY Zenon DEF JInv, EventsPast
    <2> QED BY <1>1, <2>1, Zenon DEF JInv, EventsPast
<1>5. EventOrder'
    BY Zenon DEF JInv, EventOrder
<1> QED BY <1>2, <1>3, <1>4, <1>5, Zenon DEF JInv

\* Sending an operation: Start when start() does, others after it.
LEMMA SendOrder ==
    ASSUME IInv, JInv, NEW type \in OpTypes, SendOperation(type),
           type = "Start" <=> main = "spawned", main' = "idle", running' => running,
           main = "idle" => running,
           UNCHANGED <<gen, token, evs, loops, started>>
    PROVE  JInv'
<1> DEFINE e == [id |-> Me, type |-> type]
<1>1. e \in Ops /\ e.id = Me /\ e.type = type
    BY MeType, Zenon DEF IInv, Ops
<1>2. /\ Len(ops) \in Nat /\ Len(ops') = Len(ops) + 1
      /\ ops'[Len(ops) + 1] = e
      /\ \A i \in 1 .. Len(ops) : ops'[i] = ops[i]
    BY <1>1, AppendFacts DEF SendOperation, IInv, TypeOK
<1> HIDE DEF e
<1>3. Me' = Me
    BY Zenon DEF Me
<1>n. PICK n \in Nat : n = Len(ops)
    BY <1>2, Zenon
<1>4. \A i \in 1 .. Len(ops) : StartOp(i)' <=> StartOp(i)
    BY <1>2, <1>3, Zenon DEF StartOp
<1>5. StartOp(n + 1)' <=> type = "Start"
    BY <1>1, <1>2, <1>3, <1>n, Zenon DEF StartOp
<1>6. \A i \in 1 .. Len(ops') : i \in 1 .. Len(ops) \/ i = n + 1
    BY <1>2, <1>n
<1>7. main = "spawned" => \A i \in 1 .. Len(ops) : ~StartOp(i)
    BY Zenon DEF JInv, StartOnce, StartOp
<1>8. StartOnce'
    <2>1. ASSUME NEW i \in 1 .. Len(ops'), StartOp(i)'
          PROVE  started # Me
        BY <1>4, <1>5, <1>6, <2>1, Zenon DEF JInv, StartOnce
    <2>2. ASSUME NEW i \in 1 .. Len(ops'), NEW j \in 1 .. Len(ops'),
                 StartOp(i)', StartOp(j)'
          PROVE  i = j
        <3>1. CASE type = "Start"
            BY <1>4, <1>6, <1>7, <2>2, <3>1, Zenon
        <3>2. CASE type # "Start"
            <4>1. i \in 1 .. Len(ops) /\ j \in 1 .. Len(ops)
                BY <1>5, <1>6, <2>2, <3>2, Zenon
            <4> QED BY <1>4, <2>2, <4>1, Zenon DEF JInv, StartOnce
        <3> QED BY <3>1, <3>2, Zenon
    <2> QED BY <1>3, <2>1, <2>2, Zenon DEF StartOnce
<1>9. main = "idle" => started = Me \/ \E i \in 1 .. Len(ops) : StartOp(i)
    BY Zenon DEF JInv, Launched
<1>10. StartAhead'
    <2> SUFFICES ASSUME NEW i \in 1 .. Len(ops'), (ops[i].id = Me /\ ops[i].type # "Start")'
                 PROVE  started = Me \/ \E j \in 1 .. Len(ops') : j < i /\ StartOp(j)'
        BY <1>3, Zenon DEF StartAhead
    <2>1. CASE i \in 1 .. Len(ops)
        BY <1>2, <1>3, <1>4, <2>1 DEF JInv, StartAhead
    <2>2. CASE i = n + 1
        <3>1. main = "idle"
            BY <1>1, <1>2, <1>n, <2>2, Zenon DEF IInv, TypeOK
        <3>2. \A j \in 1 .. Len(ops) : j \in 1 .. Len(ops') /\ j < i
            BY <1>2, <1>n, <2>2
        <3> QED BY <1>4, <1>9, <3>1, <3>2, Zenon
    <2> QED BY <1>6, <2>1, <2>2, Zenon
<1>11. Launched'
    <2>1. \A i \in 1 .. Len(ops) : i \in 1 .. Len(ops')
        BY <1>2
    <2>2. n + 1 \in 1 .. Len(ops')
        BY <1>2, <1>n
    <2> QED BY <1>3, <1>4, <1>5, <1>9, <2>1, <2>2, Zenon DEF Launched, IInv, TypeOK
<1>12. EventsPast' /\ EventOrder'
    BY <1>3, Zenon DEF JInv, EventsPast, EventOrder
<1> QED BY <1>8, <1>10, <1>11, <1>12, Zenon DEF JInv

\* Adding the event of an executed operation after all those of the past.
LEMMA EventAdded ==
    ASSUME IInv, JInv, NEW type \in EvTypes, UNCHANGED <<gen, token>>,
           evs' = Append(evs, [id |-> Me, type |-> type]), started' = Me,
           type = "Started" => started # Me,
           type = "Stopped" => started = Me /\ loops # {} /\ loops' = {},
           loops' \subseteq loops
    PROVE  EventsPast' /\ EventOrder'
<1> DEFINE e == [id |-> Me, type |-> type]
<1>1. e \in Evs /\ e.id = Me /\ e.type = type /\ Me' = Me /\ Me.gen = gen /\ gen \in Nat
    BY MeType, Zenon DEF IInv, Evs, Me, TypeOK
<1>2. PICK n \in Nat : n = Len(evs)
    BY DEF IInv, TypeOK
<1>3. /\ Len(evs') = n + 1 /\ evs'[n + 1] = e
      /\ \A i \in 1 .. n : evs'[i] = evs[i]
    BY <1>1, <1>2, AppendFacts DEF IInv, TypeOK
<1> HIDE DEF e
<1>4. \A i \in 1 .. n : evs[i].id.gen \in Nat /\ evs[i].type \in {"Started", "Stopped"}
    BY <1>2, EvType, Zenon DEF IInv, Ids, EvTypes
<1>5. \A i \in 1 .. n :
        \/ evs[i].id.gen < gen
        \/ evs[i].id = Me /\ evs[i].type = "Started" /\ type = "Stopped"
    <2> TAKE i \in 1 .. n
    <2>1. CASE evs[i].id.gen = gen
        <3>1. /\ evs[i].id = Me /\ started = Me
              /\ evs[i].type = "Stopped" => loops = {}
            BY <1>2, <2>1 DEF JInv, EventsPast
        <3>2. type = "Stopped"
            BY <3>1, Zenon DEF EvTypes
        <3> QED BY <1>4, <3>1, <3>2, Zenon
    <2>2. CASE evs[i].id.gen # gen
        BY <1>1, <1>2, <1>4, <2>2 DEF JInv, EventsPast
    <2> QED BY <2>1, <2>2, Zenon
<1>6. EventsPast'
    <2> SUFFICES ASSUME NEW i \in 1 .. Len(evs')
                 PROVE  (/\ evs[i].id.gen <= gen
                         /\ evs[i].id.gen = gen =>
                              /\ evs[i].id = Me /\ started = Me
                              /\ evs[i].type = "Stopped" => loops = {})'
        BY Zenon DEF EventsPast
    <2>1. CASE i \in 1 .. n
        BY <1>1, <1>3, <1>4, <1>5, <2>1
    <2>2. CASE i = n + 1
        BY <1>1, <1>3, <2>2
    <2> QED BY <1>3, <2>1, <2>2
<1>7. EventOrder'
    <2> SUFFICES ASSUME NEW i \in 1 .. Len(evs'), NEW j \in 1 .. Len(evs'), i < j
                 PROVE  (\/ evs[i].id.gen < evs[j].id.gen
                         \/ evs[i].id = evs[j].id /\ evs[i].type = "Started"
                                                  /\ evs[j].type = "Stopped")'
        BY Zenon DEF EventOrder
    <2>1. i \in 1 .. n
        BY <1>3
    <2>2. CASE j \in 1 .. n
        BY <1>2, <1>3, <2>1, <2>2 DEF JInv, EventOrder
    <2>3. CASE j = n + 1
        BY <1>1, <1>3, <1>5, <2>1, <2>3, Zenon
    <2>4. j \in 1 .. n \/ j = n + 1
        BY <1>3
    <2> QED BY <2>2, <2>3, <2>4, Zenon
<1> QED BY <1>6, <1>7, Zenon

\* A turn of the session's loop keeps the order.
LEMMA ExecuteOrder ==
    ASSUME IInv, JInv, NEW s \in loops, Execute(s)
    PROVE  JInv'
<1>1. PICK n \in Nat : n = Len(ops')
    BY TailFacts, Zenon DEF Execute, IInv, TypeOK
<1>2. /\ Len(ops) = n + 1 /\ 1 \in 1 .. Len(ops) /\ Head(ops) = ops[1]
      /\ \A i \in 1 .. n : i + 1 \in 1 .. Len(ops) /\ ops'[i] = ops[i + 1]
    BY <1>1, TailFacts DEF Execute, IInv, TypeOK
<1>3. s = Me /\ loops = {Me} /\ Me' = Me
    BY Zenon DEF IInv, OneSession, Execute, Me
<1>4. /\ UNCHANGED <<gen, token, running, main>> /\ loops' \subseteq loops
      /\ gen \in Nat /\ main \in {"idle", "spawned"}
    BY Zenon DEF Execute, IInv, TypeOK
<1>5. \A i \in 1 .. n : StartOp(i)' <=> StartOp(i + 1)
    BY <1>2, <1>3, Zenon DEF StartOp
<1>6. CASE ~IsMine(s, Head(ops))
    <2>1. ~StartOp(1) /\ UNCHANGED <<started, evs, loops>>
        BY <1>2, <1>3, <1>6, Zenon DEF StartOp, IsMine, Execute
    <2>2. StartOnce'
        <3>1. main' = "spawned" => started' # Me' /\ \A i \in 1 .. Len(ops') : ops'[i].id # Me'
            BY <1>1, <1>2, <1>3, <1>4, <2>1 DEF JInv, StartOnce
        <3>2. \A i \in 1 .. Len(ops') : StartOp(i)' => started' # Me'
            BY <1>1, <1>2, <1>3, <1>5, <2>1 DEF JInv, StartOnce
        <3>3. \A i, j \in 1 .. Len(ops') : StartOp(i)' /\ StartOp(j)' => i = j
            BY <1>1, <1>2, <1>5 DEF JInv, StartOnce
        <3> QED BY <3>1, <3>2, <3>3, Zenon DEF StartOnce
    <2>3. \A j \in 1 .. Len(ops) : StartOp(j) => j - 1 \in 1 .. n /\ StartOp(j - 1)'
        <3> TAKE j \in 1 .. Len(ops)
        <3> HAVE StartOp(j)
        <3>1. j - 1 \in 1 .. n /\ (j - 1) + 1 = j
            BY <1>2, <2>1
        <3> QED BY <1>5, <3>1, Zenon
    <2>4. StartAhead'
        <3> SUFFICES ASSUME NEW i \in 1 .. n, (ops[i].id = Me /\ ops[i].type # "Start")'
                     PROVE  started = Me \/ \E j \in 1 .. n : j < i /\ StartOp(j)'
            BY <1>1, <1>3, <2>1, Zenon DEF StartAhead
        <3>1. started = Me \/ \E j \in 1 .. Len(ops) : j < i + 1 /\ StartOp(j)
            BY <1>2, <1>3, Zenon DEF JInv, StartAhead
        <3> QED BY <1>2, <2>3, <3>1
    <2>5. Launched'
        BY <1>1, <1>3, <1>4, <2>1, <2>3, Zenon DEF JInv, Launched
    <2>6. EventsPast' /\ EventOrder'
        BY <1>3, <1>4, <2>1 DEF JInv, EventsPast, EventOrder
    <2> QED BY <2>2, <2>4, <2>5, <2>6, Zenon DEF JInv
<1>7. CASE IsMine(s, Head(ops))
    <2>1. ops[1].id = Me /\ main = "idle"
        BY <1>2, <1>4, <1>7, OwnHead, Zenon DEF Execute, JInv, StartOnce
    <2>2. /\ started' = Me
          /\ ops[1].type = "Start" => started # Me
          /\ ops[1].type # "Start" => started = Me
        BY <1>2, <1>3, <1>7, <2>1 DEF Execute, JInv, StartOnce, StartAhead, StartOp
    <2>3. \A i \in 1 .. n : ~StartOp(i)'
        <3> TAKE i \in 1 .. n
        <3>1. i + 1 # 1 /\ i + 1 \in 1 .. Len(ops)
            BY <1>2
        <3>2. ~StartOp(i + 1)
            BY <1>2, <2>1, <2>2, <3>1, Zenon DEF JInv, StartOnce, StartOp
        <3> QED BY <1>5, <3>2, Zenon
    <2>4. StartOnce' /\ StartAhead' /\ Launched'
        BY <1>1, <1>3, <1>4, <2>1, <2>2, <2>3, Zenon DEF StartOnce, StartAhead, Launched
    <2>5. \/ evs' = evs
          \/ ops[1].type = "Start" /\ evs' = Append(evs, [id |-> Me, type |-> "Started"])
          \/ /\ ops[1].type = "Stop" /\ loops' = {}
             /\ evs' = Append(evs, [id |-> Me, type |-> "Stopped"])
        BY <1>2, <1>3, <1>7, Zenon DEF Execute, EventOf
    <2>6. EventsPast' /\ EventOrder'
        <3>1. CASE evs' = evs
            <4>1. EventsPast'
                BY <1>3, <1>4, <2>2, <3>1, Zenon DEF JInv, EventsPast
            <4>2. EventOrder'
                BY <3>1 DEF JInv, EventOrder
            <4> QED BY <4>1, <4>2, Zenon
        <3>2. CASE ops[1].type = "Start" /\ evs' = Append(evs, [id |-> Me, type |-> "Started"])
            BY <1>4, <2>2, <3>2, EventAdded, Zenon DEF EvTypes
        <3>3. CASE /\ ops[1].type = "Stop" /\ loops' = {}
                   /\ evs' = Append(evs, [id |-> Me, type |-> "Stopped"])
            BY <1>3, <1>4, <2>2, <3>3, EventAdded, Zenon DEF EvTypes
        <3> QED BY <2>5, <3>1, <3>2, <3>3, Zenon
    <2> QED BY <2>4, <2>6, Zenon DEF JInv
<1> QED BY <1>6, <1>7, Zenon

\* Dropping events from the front keeps those that remain in order.
LEMMA WaitOrder ==
    ASSUME IInv, JInv, WaitForStarted
    PROVE  JInv'
<1>1. PICK k \in 1 .. Len(evs) : evs' = SubSeq(evs, k + 1, Len(evs))
    BY Zenon DEF WaitForStarted
<1>2. PICK n \in Nat : n = Len(evs)
    BY DEF IInv, TypeOK
<1>3. /\ Len(evs') = n - k
      /\ \A i \in 1 .. Len(evs') : i + k \in 1 .. n /\ evs'[i] = evs[i + k]
    BY <1>1, <1>2 DEF IInv, TypeOK
<1>4. /\ Me' = Me
      /\ UNCHANGED <<gen, main, running, ops, started, loops>>
    BY Zenon DEF WaitForStarted, Me
<1>5. EventsPast'
    BY <1>2, <1>3, <1>4, Zenon DEF JInv, EventsPast
<1>6. EventOrder'
    <2> SUFFICES ASSUME NEW i \in 1 .. Len(evs'), NEW j \in 1 .. Len(evs'), i < j
                 PROVE  (\/ evs[i].id.gen < evs[j].id.gen
                         \/ evs[i].id = evs[j].id /\ evs[i].type = "Started"
                                                  /\ evs[j].type = "Stopped")'
        BY Zenon DEF EventOrder
    <2>1. i + k < j + k
        BY <1>3
    <2> QED BY <1>2, <1>3, <2>1 DEF JInv, EventOrder
<1> QED BY <1>4, <1>5, <1>6 DEF JInv, StartOnce, StartAhead, Launched, StartOp

\* Init, and one step per action.
LEMMA InitOrder == Init => JInv
<1> SUFFICES ASSUME Init PROVE JInv
    OBVIOUS
<1>1. Len(ops) = 0 /\ Len(evs) = 0
    BY Zenon DEF Init
<1> QED BY <1>1 DEF Init, JInv, StartOnce, StartAhead, Launched, EventsPast, EventOrder

\* Every action of Runner keeps the order of operations and events.
LEMMA StepOrder == ASSUME NoWrap, IInv, JInv, [Next]_vars PROVE JInv'
<1>1. CASE Start
    BY <1>1, NewSessionOrder, Zenon DEF Start
<1>2. CASE Query
    BY <1>2, OrderStutter, Zenon DEF Query, PollFin, IsRunning
<1>3. CASE StartThrows
    BY <1>3, NewSessionOrder, Zenon DEF StartThrows
<1>4. CASE StartSends
    BY <1>4, SendOrder, Zenon DEF StartSends, OpTypes
<1>5. ASSUME NEW type \in {"Stop", "Work"}, Request(type) PROVE JInv'
    <2>1. CASE IsRunning
        BY <1>5, <2>1, SendOrder, Zenon DEF Request, PollFin, IsRunning, OpTypes
    <2>2. CASE ~IsRunning
        BY <1>5, <2>2, OrderStutter, Zenon DEF Request, PollFin
    <2> QED BY <2>1, <2>2, Zenon
<1>6. CASE ReleaseFuture
    BY <1>6, OrderStutter, Zenon DEF ReleaseFuture
<1>7. CASE WaitForStarted
    BY <1>7, WaitOrder, Zenon
<1>8. CASE ObserverTakes
    BY <1>8, OrderStutter, Zenon DEF ObserverTakes
<1>9. CASE ObserverStores
    BY <1>9, OrderStutter, Zenon DEF ObserverStores
<1>10. ASSUME NEW s \in loops, Execute(s) PROVE JInv'
    BY <1>10, ExecuteOrder, Zenon
<1>11. ASSUME NEW s \in loops, Dies(s) PROVE JInv'
    BY <1>11, OrderStutter, Zenon DEF Dies
<1>12. ASSUME NEW s \in ending, SendFin(s) PROVE JInv'
    BY <1>12, OrderStutter, Zenon DEF SendFin
<1>13. ASSUME NEW s \in loops, RecvBlocks(s) \/ RecvReturns(s) PROVE JInv'
    <2>1. UNCHANGED <<gen, token, running, main, ops, evs, loops, started>>
        BY <1>13, Zenon DEF RecvBlocks, RecvReturns
    <2> QED BY <2>1, OrderStutter, Zenon
<1>14. CASE UNCHANGED vars
    BY <1>14, OrderStutter, Zenon DEF vars
<1> QED BY <1>1, <1>2, <1>3, <1>4, <1>5, <1>6, <1>7, <1>8, <1>9, <1>10, <1>11,
           <1>12, <1>13, <1>14, Zenon DEF Next, Session, Stop, Work

-----------------------------------------------------------------------------
(* The theorems.                                                           *)

\* The inductive invariant holds in every state Runner and Session reach.
LEMMA Invariance == NoWrap => (Spec => [](IInv /\ JInv))
<1>1. NoWrap /\ IInv /\ JInv /\ [Next]_vars => IInv' /\ JInv'
    BY StepInv, StepOrder, Zenon
<1>2. Init => IInv /\ JInv
    BY InitInv, InitOrder, Zenon
<1>3. ASSUME NoWrap PROVE Spec => [](IInv /\ JInv)
    BY <1>1, <1>2, <1>3, PTL DEF Spec
<1> QED BY <1>3, Zenon

\* Runner, Session and the messages between them are always well typed.
THEOREM TypeCorrect == NoWrap => (Spec => []TypeOK)
<1>1. IInv /\ JInv => TypeOK
    BY Zenon DEF IInv
<1> QED BY <1>1, Invariance, PTL

\* start() never has two session threads over the shared sockets, and
\* isRunning() is true as long as there is one.
THEOREM Exclusive == NoWrap => (Spec => []ExclusiveSession)
<1>1. IInv /\ JInv => ExclusiveSession
    BY MeType DEF IInv, OneSession, ExclusiveSession, IsRunning, Live, Me, NoId, TypeOK, Tokens
<1> QED BY <1>1, Invariance, PTL

\* The token comparison of recvOperation() only lets through what was sent to
\* this session, unless start() can fail and token_ come round meanwhile.
THEOREM TokenFilter == NoWrap => (Spec => []OwnOperations)
<1>1. IInv /\ JInv => OwnOperations
    BY OwnHead, Zenon DEF OwnOperations
<1> QED BY <1>1, Invariance, PTL

\* A session is configured by its Start before anything else sent to it.
THEOREM ConfiguredFirst == NoWrap => (Spec => []StartFirst)
<1>1. IInv /\ JInv => StartFirst
    <2> SUFFICES ASSUME IInv, JInv, NEW s \in loops, ops # <<>>, Head(ops).id = s,
                        Head(ops).type # "Start"
                 PROVE  started = s
        BY Zenon DEF StartFirst
    <2>1. Len(ops) \in Nat \ {0} /\ Head(ops) = ops[1] /\ 1 \in 1 .. Len(ops)
        BY TailFacts DEF IInv, TypeOK
    <2>2. s = Me
        BY Zenon DEF IInv, OneSession
    <2> QED BY <2>1, <2>2 DEF JInv, StartAhead
<1> QED BY <1>1, Invariance, PTL

\* The caller reads the events in the order of the sessions, for each one
\* Started at most once and nothing after Stopped.
THEOREM EventsInOrder == NoWrap => (Spec => []EventOrder)
<1>1. IInv /\ JInv => EventOrder
    BY Zenon DEF JInv
<1> QED BY <1>1, Invariance, PTL

-----------------------------------------------------------------------------
(* A session works with the settings of its start(), for any topics, any   *)
(* endpoints and any number of changes, sessions and reconnections.        *)

\* The sockets and the last request of a worker's session follow from what was
\* set at its start().
WorkerFollows ==
    /\ asked.all \/ UPDT \notin asked.names
    /\ zdelivery.endp = asked.endp["delivery"]
    /\ zdelivery.groups = {HUGZ} \cup (IF asked.all THEN {UPDT} ELSE asked.names)
    /\ zdispatch = asked.endp["dispatch"]
    /\ request.endp # <<>> => request.params = asked /\ request.endp = asked.endp["snapshot"]

BrokerFollows ==
    zdelivery.endp = asked.endp["dispatch"] /\ zdispatch = asked.endp["delivery"]

\* On the way from start() to the session the settings are in the operation;
\* from then on they are the session's own.
SubInv ==
    /\ subscr.all \in BOOLEAN /\ asked.all \in BOOLEAN
    /\ phase \in {"idle", "starting", "running"}
    /\ phase # "running" => request.endp = <<>>
    /\ phase = "starting" => oper = asked
    /\ phase = "running" =>
        /\ conf = asked
        /\ role = "worker" => WorkerFollows
        /\ role = "broker" => BrokerFollows

\* A new object has no session.
LEMMA SubInit == UInit => SubInv
    BY DEF UInit, SubInv, None

\* Setting anything leaves the session alone.
LEMMA SettersStep ==
    ASSUME SubInv, UNCHANGED <<role, session>>, subscr'.all \in BOOLEAN
    PROVE SubInv'
    BY Zenon DEF SubInv, session, WorkerFollows, BrokerFollows

\* One step per action.
LEMMA SubStep == ASSUME SubInv, [UNext]_uvars PROVE SubInv'
<1>1. ASSUME NEW e, SetEndpoints(e) PROVE SubInv'
    BY <1>1, SettersStep, Zenon DEF SetEndpoints, SubInv
<1>2. CASE SetTopicsAll
    BY <1>2, SettersStep, Zenon DEF SetTopicsAll
<1>3. ASSUME NEW ns, SetTopicsNames(ns) PROVE SubInv'
    BY <1>3, SettersStep, Zenon DEF SetTopicsNames
<1>4. CASE StartSession
    BY <1>4, Zenon DEF StartSession, SubInv, PrepareConfiguration
<1>5. CASE Configure
    <2>1. asked' = asked /\ oper = asked /\ conf' = asked /\ role' = role /\ phase' = "running"
          /\ subscr' = subscr /\ request' = request /\ request.endp = <<>>
        BY <1>5, Zenon DEF Configure, SubInv
    <2>2. role = "worker" => WorkerFollows'
        BY <1>5, <2>1, SMTT(20) DEF Configure, ConnOpen, WorkerFollows
    <2>3. role = "broker" => BrokerFollows'
        BY <1>5, <2>1, SMTT(20) DEF Configure, OpenSockets, BrokerFollows
    <2> QED BY <2>1, <2>2, <2>3, Zenon DEF SubInv
<1>6. ASSUME Over, UNCHANGED <<role, endp, subscr>> PROVE SubInv'
    BY <1>6, Zenon DEF Over, SubInv, None
<1>7. CASE Reconnect
    <2>1. conf = asked /\ UNCHANGED <<role, subscr, phase, oper, conf, request, asked>>
          /\ phase = "running" /\ role = "worker" /\ WorkerFollows
        BY <1>7, Zenon DEF Reconnect, SubInv
    <2>2. WorkerFollows'
        BY <1>7, <2>1, Zenon DEF Reconnect, ConnOpen, WorkerFollows
    <2> QED BY <2>1, <2>2, Zenon DEF SubInv
<1>8. CASE SendSync
    <2>1. conf = asked /\ UNCHANGED <<role, subscr, phase, oper, conf, zdelivery, zdispatch, asked>>
          /\ phase = "running" /\ role = "worker" /\ WorkerFollows
        BY <1>8, Zenon DEF SendSync, SubInv
    <2>2. WorkerFollows'
        <3>1. request' = [endp |-> asked.endp["snapshot"], params |-> asked]
            BY <1>8, <2>1, Zenon DEF SendSync
        <3>2. request'.endp = asked.endp["snapshot"] /\ request'.params = asked
            BY <3>1, Zenon
        <3> QED BY <2>1, <3>2, Zenon DEF WorkerFollows
    <2> QED BY <2>1, <2>2, Zenon DEF SubInv
<1>9. CASE UNCHANGED uvars
    BY <1>9, SettersStep, Zenon DEF uvars, session, SubInv
<1> QED
    BY <1>1, <1>2, <1>3, <1>4, <1>5, <1>6, <1>7, <1>8, <1>9, Zenon
    DEF UNext, CWorker_addEndpoints, CBroker_addEndpoints, AddEndpoints, CWorker_clearEndpoints,
        CBroker_clearEndpoints, ApplyEndpoints, ApplyArgsEndpoints, AddTopicsNames, ClearTopicsNames,
        ApplySubscriptions, ExecuteThrows, StopSession

\* The groups that such a session has joined bring it a topic exactly if it was
\* subscribed: the two groups that the broker sends to, the ones that connOpen()
\* joins and the ones that collectBrokerMessage() accepts agree.
LEMMA GroupsAgree ==
    ASSUME SubInv, phase = "running", role = "worker", NEW n \in Topics
    PROVE Delivered(n) <=> Subscribed(n)
<1>1. conf = asked /\ WorkerFollows /\ asked.all \in BOOLEAN /\ n # HUGZ /\ UPDT # HUGZ
    BY SubscriptionsAssumption, Zenon DEF SubInv
<1>2. CASE asked.all
    <2>1. UPDT \in Relayed(n) \cap zdelivery.groups /\ Collected(UPDT)
        BY <1>1, <1>2, Zenon DEF WorkerFollows, Relayed, Collected
    <2> QED BY <1>2, <2>1, Zenon DEF Delivered, Subscribed
<1>3. CASE ~asked.all
    <2>1. UPDT \notin zdelivery.groups /\ (n \in zdelivery.groups <=> n \in asked.names)
        BY <1>1, <1>3, Zenon DEF WorkerFollows
    <2>2. Delivered(n) <=> n \in zdelivery.groups /\ Collected(n)
        BY <2>1, Zenon DEF Delivered, Relayed
    <2> QED BY <1>1, <1>3, <2>1, <2>2, Zenon DEF Collected, Subscribed
<1> QED BY <1>1, <1>2, <1>3, Zenon

\* SettingsOfStart for every set of topics and endpoints: a session keeps the
\* settings of its start() and gets the topics of its subscription and no other.
THEOREM SettingsKept == USpec => []SettingsOfStart
<1>1. SubInv => SettingsOfStart
    BY GroupsAgree, Zenon DEF SubInv, SettingsOfStart, WorkerFollows, BrokerFollows, Replied, Subscribed
<1> QED BY <1>1, SubInit, SubStep, PTL DEF USpec

-----------------------------------------------------------------------------
(* TimeoutIsTrue, for any number of threads and types of events: a batch   *)
(* holds the Cancellation only if it is readable, and it stays readable    *)
(* until the call returns.                                                 *)

NTypeOK ==
    /\ queue \in Seq(Types)
    /\ result \in [Callers -> Types \cup {"none", "throws", "Timeout"}]
    /\ due \in [Callers -> BOOLEAN]
    /\ batch \in [Callers -> Seq({"events", "canc"})]
    /\ at \in [Callers -> {"idle", "binding", "polling", "serving"}]

\* What a thread is about to serve is there, and a ready Cancellation is due.
Served ==
    \A t \in Callers :
        /\ at[t] = "serving" => batch[t] # <<>>
        /\ at[t] # "serving" => batch[t] = <<>>
        /\ \A i \in 1 .. Len(batch[t]) : batch[t][i] = "canc" => due[t]

WaitingInv == NTypeOK /\ Served

-----------------------------------------------------------------------------
(* What is known of a batch that is taken from its front.                  *)

LEMMA RestOfBatch ==
    ASSUME NEW s \in Seq({"events", "canc"}), s # <<>>
    PROVE  /\ Tail(s) \in Seq({"events", "canc"})
           /\ Len(Tail(s)) = Len(s) - 1
           /\ \A i \in 1 .. Len(Tail(s)) : Tail(s)[i] = s[i + 1]
           /\ Tail(s) = <<>> <=> Len(s) = 1
           /\ Len(s) \in Nat
<1>1. Tail(s) \in Seq({"events", "canc"})
  OBVIOUS
<1>2. Len(Tail(s)) = Len(s) - 1 /\ Len(s) \in Nat
  OBVIOUS
<1>3. \A i \in 1 .. Len(Tail(s)) : Tail(s)[i] = s[i + 1]
  OBVIOUS
<1>4. \A r \in Seq({"events", "canc"}) : r = <<>> <=> Len(r) = 0
  OBVIOUS
<1>5. Tail(s) = <<>> <=> Len(Tail(s)) = 0
  BY <1>1, <1>4, Zenon
<1>6. Tail(s) = <<>> <=> Len(s) = 1
  BY <1>2, <1>5
<1> QED BY <1>1, <1>2, <1>3, <1>6, Zenon

LEMMA WaitingInit == NInit => WaitingInv
BY DEF NInit, WaitingInv, NTypeOK, Served

\* waitForEvent() begins, its Cancellation binds or gives up.
LEMMA BeginSteps ==
    ASSUME WaitingInv, NEW t \in Callers,
           \/ \E m \in Matches, l \in {"own", "given", "endless"} : Call(t, m, l)
           \/ Bind(t) \/ BindFails(t)
    PROVE WaitingInv'
<1>1. ASSUME NEW m \in Matches, NEW l \in {"own", "given", "endless"}, Call(t, m, l) PROVE WaitingInv'
    <2>1. PICK p \in {"polling", "binding"} : at' = [at EXCEPT ![t] = p]
        BY <1>1, Zenon DEF Call
    <2> QED BY <1>1, <2>1 DEF Call, WaitingInv, NTypeOK, Served
<1>2. CASE Bind(t)
    BY <1>2, Zenon DEF Bind, WaitingInv, NTypeOK, Served
<1>3. CASE BindFails(t)
    BY <1>3, Zenon DEF BindFails, WaitingInv, NTypeOK, Served
<1> QED BY <1>1, <1>2, <1>3, Zenon

\* pw.wait().
LEMMA PollStep ==
    ASSUME WaitingInv, NEW t \in Callers, Poll(t)
    PROVE WaitingInv'
<1>1. PICK e \in {<<>>, <<"events">>}, c \in {<<>>, <<"canc">>} :
        /\ batch' = [batch EXCEPT ![t] = e \o c]
        /\ c = <<>> \/ due[t]
        /\ e # <<>> \/ c # <<>>
    <2>1. PICK e \in {<<>>, <<"events">>}, c \in {<<>>, <<"canc">>} :
            /\ e = (IF queue # <<>> THEN <<"events">> ELSE <<>>) /\ c = (IF due[t] THEN <<"canc">> ELSE <<>>)
        BY Zenon
    <2>2. batch' = [batch EXCEPT ![t] = e \o c] /\ (queue # <<>> \/ due[t])
        BY <2>1, Zenon DEF Poll
    <2>3. <<"events">> # <<>> /\ <<"canc">> # <<>>
        BY Zenon
    <2> QED BY <2>1, <2>2, <2>3, Zenon
<1>2. e \o c \in Seq({"events", "canc"}) /\ e \o c # <<>>
      /\ \A i \in 1 .. Len(e \o c) : (e \o c)[i] = "canc" => due[t]
    <2>1. /\ e \in Seq({"events", "canc"}) /\ c \in Seq({"events", "canc"})
          /\ Len(e) \in {0, 1} /\ Len(c) \in {0, 1}
          /\ Len(e) = 1 => e[1] = "events"
          /\ Len(c) = 1 => due[t]
          /\ Len(e) = 1 \/ Len(c) = 1
        <3>1. <<>> \in Seq({"events", "canc"}) /\ <<"events">> \in Seq({"events", "canc"})
              /\ <<"canc">> \in Seq({"events", "canc"})
            OBVIOUS
        <3>2. Len(<<>>) = 0 /\ Len(<<"events">>) = 1 /\ Len(<<"canc">>) = 1 /\ <<"events">>[1] = "events"
            BY Zenon
        <3>3. (e = <<>> \/ e = <<"events">>) /\ (c = <<>> \/ c = <<"canc">>)
            BY Zenon
        <3>4. /\ e \in Seq({"events", "canc"}) /\ Len(e) \in {0, 1}
              /\ Len(e) = 1 => e[1] = "events"
              /\ e # <<>> => Len(e) = 1
            <4>1. CASE e = <<>>
                BY <3>1, <3>2, <4>1
            <4>2. CASE e = <<"events">>
                BY <3>1, <3>2, <4>2, Zenon
            <4> QED BY <3>3, <4>1, <4>2, Zenon
        <3>5. /\ c \in Seq({"events", "canc"}) /\ Len(c) \in {0, 1}
              /\ c # <<>> <=> Len(c) = 1
            <4>1. CASE c = <<>>
                BY <3>1, <3>2, <4>1
            <4>2. CASE c = <<"canc">>
                BY <3>1, <3>2, <4>2, Zenon
            <4> QED BY <3>3, <4>1, <4>2, Zenon
        <3> QED BY <1>1, <3>4, <3>5, Zenon
    <2>2. /\ e \o c \in Seq({"events", "canc"})
          /\ Len(e \o c) = Len(e) + Len(c)
          /\ \A i \in 1 .. Len(e) + Len(c) : (e \o c)[i] = IF i <= Len(e) THEN e[i] ELSE c[i - Len(e)]
        BY <2>1
    <2>3. e \o c # <<>>
        BY <2>1, <2>2, Len(<<>>) = 0
    <2>4. \A i \in 1 .. Len(e \o c) : (e \o c)[i] = "canc" => due[t]
        BY <2>1, <2>2
    <2> QED BY <2>2, <2>3, <2>4, Zenon
<1>3. at' = [at EXCEPT ![t] = "serving"] /\ UNCHANGED <<queue, due, result>>
    BY Zenon DEF Poll
<1> QED BY <1>1, <1>2, <1>3, Zenon DEF WaitingInv, NTypeOK, Served

\* The rest of the batch, or the end of the call.
LEMMA ServeSteps ==
    ASSUME WaitingInv, NEW t \in Callers, at[t] = "serving",
           queue' \in Seq(Types),
           Continue(t) \/ \E r \in Types \cup {"Timeout"} : Return(t, r)
    PROVE WaitingInv'
<1>1. CASE Continue(t)
    <2>1. batch[t] \in Seq({"events", "canc"}) /\ batch[t] # <<>>
        BY Zenon DEF WaitingInv, NTypeOK, Served
    <2>2. /\ Tail(batch[t]) \in Seq({"events", "canc"})
          /\ Len(Tail(batch[t])) = Len(batch[t]) - 1
          /\ \A i \in 1 .. Len(Tail(batch[t])) : Tail(batch[t])[i] = batch[t][i + 1]
          /\ Tail(batch[t]) = <<>> <=> Len(batch[t]) = 1
          /\ Len(batch[t]) \in Nat
        BY <2>1, RestOfBatch, Zenon
    <2>3. NTypeOK'
        BY <1>1, <2>2, Zenon DEF Continue, WaitingInv, NTypeOK
    <2>4. \A i \in 1 .. Len(Tail(batch[t])) : Tail(batch[t])[i] = "canc" => due[t]
        BY <2>2 DEF WaitingInv, Served
    <2>5. Served'
        BY <1>1, <2>2, <2>4 DEF Continue, WaitingInv, NTypeOK, Served
    <2> QED BY <2>3, <2>5, Zenon DEF WaitingInv
<1>2. ASSUME NEW r \in Types \cup {"Timeout"}, Return(t, r) PROVE WaitingInv'
    BY <1>2 DEF Return, WaitingInv, NTypeOK, Served
<1> QED BY <1>1, <1>2, Zenon

LEMMA WaitingStep ==
    ASSUME WaitingInv, [NNext]_nvars
    PROVE WaitingInv'
<1>1. CASE UNCHANGED nvars
    BY <1>1, Zenon DEF nvars, WaitingInv, NTypeOK, Served
<1>2. ASSUME NEW e \in Types, Notify(e) PROVE WaitingInv'
    BY <1>2 DEF Notify, WaitingInv, NTypeOK, Served
<1>3. CASE Unbound
    BY <1>3, Zenon DEF Unbound, WaitingInv, NTypeOK, Served
<1>4. ASSUME NEW t \in Callers, Elapse(t) PROVE WaitingInv'
    BY <1>4, Zenon DEF Elapse, WaitingInv, NTypeOK, Served
<1>5. ASSUME NEW t \in Callers, ServeEvents(t) \/ ServeCanc(t) PROVE WaitingInv'
    <2>1. at[t] = "serving" /\ queue \in Seq(Types)
        BY <1>5, Zenon DEF ServeEvents, ServeCanc, WaitingInv, NTypeOK
    <2>2. queue # <<>> => Head(queue) \in Types /\ Tail(queue) \in Seq(Types)
        BY <2>1, RestOfBatch
    <2>3. queue' \in Seq(Types) /\ (Continue(t) \/ \E r \in Types \cup {"Timeout"} : Return(t, r))
        BY <1>5, <2>1, <2>2, Zenon DEF ServeEvents, ServeCanc
    <2> QED BY <2>1, <2>3, ServeSteps, Zenon
<1> QED BY <1>1, <1>2, <1>3, <1>4, <1>5, BeginSteps, PollStep, Zenon DEF NNext, Waits

\* waitForEvent() tells a timeout only after its deadline, for any number of
\* threads that take each other's events.
THEOREM TimeoutsAreTrue == NSpec => TimeoutIsTrue
<1> DEFINE Step == \A t \in Callers : result'[t] = "Timeout" /\ result[t] # "Timeout" => due[t]
<1>1. ASSUME WaitingInv, [NNext]_nvars PROVE [Step]_nvars
    <2> SUFFICES ASSUME NNext, NEW t \in Callers, result'[t] = "Timeout", result[t] # "Timeout"
                 PROVE due[t]
        BY <1>1, Zenon DEF nvars
    <2>0. queue \in Seq(Types) /\ result \in [Callers -> Types \cup {"none", "throws", "Timeout"}]
        BY <1>1, Zenon DEF WaitingInv, NTypeOK
    <2>1. \A x : \A c \in Callers : result' = [result EXCEPT ![c] = x] => c = t /\ x = "Timeout"
        BY <2>0, Zenon
    <2>2. result' # result
        BY Zenon
    <2>3. PICK c \in Callers : \/ \E m \in Matches, l \in {"own", "given", "endless"} : Call(c, m, l)
                               \/ BindFails(c) \/ ServeEvents(c) \/ ServeCanc(c)
        BY <2>2, Zenon DEF NNext, Waits, Notify, Unbound, Elapse, Bind, Poll
    <2>4. ~ServeEvents(c)
        BY <2>0, <2>1, <2>2, WaitingAssumption DEF ServeEvents, Return, Continue
    <2>5. ServeCanc(c)
        BY <2>1, <2>3, <2>4, Zenon DEF Call, BindFails
    <2>6. c = t
        BY <2>1, <2>5, Zenon DEF ServeCanc, Return
    <2>7. batch[t] # <<>> /\ batch[t] \in Seq({"events", "canc"}) /\ batch[t][1] = "canc"
        BY <1>1, <2>5, <2>6 DEF ServeCanc, WaitingInv, Served, NTypeOK
    <2> QED BY <1>1, <2>7 DEF WaitingInv, Served
<1>2. TimeoutIsTrue <=> [][Step]_nvars
    BY Zenon DEF TimeoutIsTrue
<1> HIDE DEF Step
<1> QED BY <1>1, <1>2, WaitingInit, WaitingStep, PTL DEF NSpec
=============================================================================
