----------------------------- MODULE SyncMachine -----------------------------
(***************************************************************************)
(* The state machine that downloads a snapshot.  It asks through one of    *)
(* several sockets, the one of the current index, and moves on to the next *)
(* index when it has to retry.  Its timer behaves as TimerSpec says.       *)
(***************************************************************************)
EXTENDS Naturals

CONSTANTS
    MaxIndex,   \* indexMax_
    MaxRetry,   \* retryMax_
    SeqMod      \* 2^8 in the code, seqn_t is an uint8_t

ASSUME SyncAssumption ==
    MaxIndex \in Nat /\ MaxRetry \in Nat /\ SeqMod \in Nat \ {0}

VARIABLES
    state, indexCurr, indexNext, retryCurr, seqNum,   \* members of the class
    armed, tick,   \* timerTmo_, single shot
    open,          \* the indexes of the open sockets
    closed,        \* the indexes the last step called doClose_ for
    asked          \* whether the last step called doSync_

vars == <<state, indexCurr, indexNext, retryCurr, seqNum, armed, tick, open,
          closed, asked>>

Tmo == INSTANCE TimerSpec WITH once <- TRUE

States == {"Halted", "Download", "Failed", "Synced"}
Indexes == 0 .. MaxIndex

\* setNextIndex(i + 1) for an index i: i + 1 modulo indexMax_ + 1.
After(i) == IF i = MaxIndex THEN 0 ELSE i + 1

\* ++seqNum_.
NextSeq == IF seqNum = SeqMod - 1 THEN 0 ELSE seqNum + 1

\* The constructor closes every socket and ends in halt(-1).
Init ==
    /\ state = "Halted" /\ indexCurr = 0 /\ indexNext = After(0)
    /\ retryCurr = 0 /\ seqNum = 0 /\ Tmo!TInit
    /\ open = {} /\ closed = Indexes /\ asked = FALSE

\* sync(): cls are the sockets to close, opn those to open.  The timer was
\* read before, or not, by the caller.
Sync(cls, opn) ==
    /\ armed' = TRUE
    /\ seqNum' = NextSeq
    /\ state' = "Download"
    /\ open' = (open \ cls) \cup opn
    /\ closed' = cls
    /\ asked' = TRUE

\* Variant: the socket is left as it is.
OnHalt_KeepsSocket ==
    /\ state # "Halted"
    /\ state' = "Halted"
    /\ seqNum' = 0 /\ retryCurr' = 0 /\ indexCurr' = 0 /\ indexNext' = After(0)
    /\ closed' = {} /\ open' = open
    /\ asked' = FALSE
    /\ Tmo!TStop

\* halt(): cls are the sockets to close.
HaltWith(cls) ==
    /\ state' = "Halted"
    /\ seqNum' = 0 /\ retryCurr' = 0 /\ indexCurr' = 0 /\ indexNext' = After(0)
    /\ closed' = cls /\ open' = open \ cls
    /\ asked' = FALSE
    /\ Tmo!TStop

\* A failed machine has closed its socket already.
OnHalt ==
    /\ state # "Halted"
    /\ HaltWith(IF state = "Failed" THEN {} ELSE {indexCurr})

\* onSync() does nothing in Download.
OnSync ==
    /\ state # "Download"
    /\ retryCurr' = 0
    /\ tick' = tick
    /\ IF state = "Failed"
       THEN indexCurr' = indexNext /\ indexNext' = After(indexNext)
       ELSE UNCHANGED <<indexCurr, indexNext>>
    /\ Sync({}, IF state = "Synced" THEN {} ELSE {indexCurr'})

\* onReply() accepts a reply only to the current request.
Accepts(index, seqn) == state = "Download" /\ index = indexCurr /\ seqn = seqNum

OnReply(index, seqn, reply) ==
    /\ closed' = {} /\ asked' = FALSE
    /\ UNCHANGED <<indexCurr, indexNext, retryCurr, seqNum, open>>
    /\ IF Accepts(index, seqn)
       THEN IF reply = "Complete" THEN state' = "Synced" /\ Tmo!TStop
                                  ELSE state' = state /\ Tmo!TStart
       ELSE UNCHANGED <<state, armed, tick>>

\* Variant: the socket is left open.
Fail_LeavesOpen ==
    /\ state' = "Failed"
    /\ armed' = FALSE
    /\ closed' = {} /\ asked' = FALSE
    /\ UNCHANGED <<open, indexCurr, indexNext, retryCurr, seqNum>>

\* fail(), when no retry is left.
Fail ==
    /\ state' = "Failed"
    /\ armed' = FALSE
    /\ open' = open \ {indexCurr}
    /\ closed' = {indexCurr}
    /\ asked' = FALSE
    /\ UNCHANGED <<indexCurr, indexNext, retryCurr, seqNum>>

\* Variants: the previous socket is left open; retries are not counted.
Retry_KeepsSocket ==
    /\ retryCurr' = retryCurr + 1
    /\ indexCurr' = indexNext
    /\ indexNext' = After(indexNext)
    /\ Sync({}, {indexNext})

Retry_Uncounted ==
    /\ retryCurr' = retryCurr
    /\ indexCurr' = indexNext
    /\ indexNext' = After(indexNext)
    /\ Sync({indexCurr}, {indexNext})

Retry ==
    /\ retryCurr' = retryCurr + 1
    /\ indexCurr' = indexNext
    /\ indexNext' = After(indexNext)
    /\ Sync({indexCurr}, {indexNext})

\* The poller calls it when the timer is readable.
OnTimerTimeoutFired ==
    /\ tick /\ tick' = FALSE
    /\ \/ state # "Download"
          /\ closed' = {} /\ asked' = FALSE
          /\ UNCHANGED <<state, indexCurr, indexNext, retryCurr, seqNum, armed, open>>
       \/ state = "Download" /\ retryCurr + 1 > MaxRetry /\ Fail
       \/ state = "Download" /\ retryCurr + 1 <= MaxRetry /\ Retry

\* setNextIndex() called by the owner of the machine.
SetNextIndex(i) ==
    /\ indexNext' = i
    /\ closed' = {} /\ asked' = FALSE
    /\ UNCHANGED <<state, indexCurr, retryCurr, seqNum, armed, tick, open>>

\* The timer expires in the ASIO thread.
TimeoutExpires ==
    /\ Tmo!TFire
    /\ closed' = {} /\ asked' = FALSE
    /\ UNCHANGED <<state, indexCurr, indexNext, retryCurr, seqNum, open>>

Next ==
    \/ OnHalt \/ OnSync \/ OnTimerTimeoutFired \/ TimeoutExpires
    \/ \E i \in Indexes : SetNextIndex(i)
    \/ \E i \in Indexes, n \in 0 .. SeqMod - 1, r \in {"Snapshot", "Complete"} :
         OnReply(i, n, r)

Spec == Init /\ [][Next]_vars

-----------------------------------------------------------------------------
\* Indexes stay within indexMax_, retries within retryMax_ and the request
\* number within seqn_t in every state of SyncMachine.
TypeOK ==
    /\ state \in States /\ indexCurr \in Indexes /\ indexNext \in Indexes
    /\ retryCurr \in 0 .. MaxRetry /\ seqNum \in 0 .. SeqMod - 1
    /\ armed \in BOOLEAN /\ tick \in BOOLEAN
    /\ open \subseteq Indexes /\ closed \subseteq Indexes /\ asked \in BOOLEAN

\* One socket is open, the one of the current index, while replies are waited
\* for or a next request may reuse it; none otherwise.  doSync_ always has an
\* open socket.
OneSocket ==
    /\ open = IF state \in {"Download", "Synced"} THEN {indexCurr} ELSE {}
    /\ asked => indexCurr \in open

\* A download always has a timeout ahead, or one to be handled; out of it
\* nothing is going to expire.
DownloadWatched == IF state = "Download" THEN armed \/ tick ELSE ~armed
=============================================================================
