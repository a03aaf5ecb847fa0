---------------------------- MODULE OcppConnection ----------------------------
(***************************************************************************)
(* The WebSocket connections of one charging station in JsonOCPPServer:    *)
(* the cache with the connection commands are sent on, the lock that lets  *)
(* the messages of one URL in one at a time, and the closing and pinging   *)
(* of connections.                                                         *)
(*                                                                         *)
(* The server is one process: the code between two awaits is one step.     *)
(* Every await, also one that only logs, lets all other handlers in.       *)
(***************************************************************************)
EXTENDS Integers

CONSTANTS
  Conns,          \* the connections of the station; a closed one is reused
  Messages,       \* handlers of onMessage() that may be under way at once
  NoConn,         \* stands for no connection
  MaxTrials,      \* maxNumberOfTrials of waitForWSLockToRelease()
  MaxFailedPings  \* WS_MAX_NBR_OF_FAILED_PINGS

ASSUME OcppConnectionAssumption ==
  /\ NoConn \notin Conns
  /\ Conns \intersect Messages = {}
  /\ MaxTrials \in Nat \ {0}
  /\ MaxFailedPings \in Nat \ {0}

VARIABLES
  sock,           \* the sockets: down, up, or closing (its event was fired)
  closed,         \* wsWrapper.closed
  keyed,          \* is wsWrapper.key set?
  assigned,       \* is wsWrapper.wsConnection set?
  failed,         \* wsWrapper.nbrPingFailed
  cache,          \* the entry of the station in jsonWSConnections
  locked,         \* runningWSRequestsMessages[url]
  flow,           \* the handlers of onOpen() and onMessage()
  clean           \* the connection checkAndCleanupWebSockets() is to remove

wrapperVars == <<closed, keyed, assigned, failed>>
vars == <<sock, wrapperVars, cache, locked, flow, clean>>

\* One handler of onOpen() for each connection, named like it.
Flows == Conns \union Messages
Kinds == {"open", "call", "answer"}
Steps == {"idle", "wait", "take", "init", "check", "ping", "close", "remove",
          "set", "assign", "end"}

(* c: the connection of the handler; trials: numberOfTrials; other: the    *)
(* connection it found in the cache; known: is its wsConnection defined?   *)
Flow == [pc : Steps, kind : Kinds, c : Conns \union {NoConn},
         trials : 0..(MaxTrials - 1), other : Conns \union {NoConn}, known : BOOLEAN]
Idle == [pc |-> "idle", kind |-> "call", c |-> NoConn, trials |-> 0,
         other |-> NoConn, known |-> FALSE]

TypeOK ==
  /\ sock \in [Conns -> {"down", "up", "closing"}]
  /\ closed \in [Conns -> BOOLEAN]
  /\ keyed \in [Conns -> BOOLEAN]
  /\ assigned \in [Conns -> BOOLEAN]
  /\ failed \in [Conns -> 0..MaxFailedPings]
  /\ cache \in Conns \union {NoConn}
  /\ locked \in BOOLEAN
  /\ flow \in [Flows -> Flow]
  /\ clean \in Conns \union {NoConn}

Init ==
  /\ sock = [c \in Conns |-> "down"]
  /\ closed = [c \in Conns |-> FALSE]
  /\ keyed = [c \in Conns |-> FALSE]
  /\ assigned = [c \in Conns |-> FALSE]
  /\ failed = [c \in Conns |-> 0]
  /\ cache = NoConn
  /\ locked = FALSE
  /\ flow = [f \in Flows |-> Idle]
  /\ clean = NoConn

At(f, step) == flow[f].pc = step
Become(f, r) == flow' = [flow EXCEPT ![f] = r]
GoTo(f, step) == flow' = [flow EXCEPT ![f].pc = step]

(* The finally block of onOpen() and onMessage(): the lock of the URL is   *)
(* deleted, whoever took it; an answer neither takes nor deletes it.       *)
Finish(f) ==
  /\ Become(f, Idle)
  /\ locked' = (locked /\ flow[f].kind = "answer")

(* Seeded fault: whatever is in the cache is removed.                      *)
RemovedBlindly(c) == IF assigned[c] THEN NoConn ELSE cache
\* removeWSWrapper(): only a connection that is in the cache itself.
Removed(c) == IF assigned[c] /\ cache = c THEN NoConn ELSE cache

(* Seeded fault: a failed ping is forgotten.                               *)
PingForgotten(c) == failed' = [failed EXCEPT ![c] = 0]
(* pingWebSocket(): it fails on a closed connection, and counts that.      *)
Ping(c) ==
  failed' = [failed EXCEPT ![c] =
    IF ~closed[c] THEN 0 ELSE IF @ < MaxFailedPings THEN @ + 1 ELSE @]
GivenUp(c) == closed[c] /\ failed[c] + 1 >= MaxFailedPings

-----------------------------------------------------------------------------
(* acquireLockForWSRequest()                                               *)

Work(kind) == IF kind = "open" THEN "init" ELSE "check"

(* Without waiting, the test and the setting of the lock are one step.     *)
Enter(f, kind, c) ==
  LET r == [Idle EXCEPT !.kind = kind, !.c = c] IN
  /\ At(f, "idle")
  /\ IF locked /\ kind # "answer"
       THEN Become(f, [r EXCEPT !.pc = "wait"])
       ELSE Become(f, [r EXCEPT !.pc = Work(kind)])
  /\ locked' = (locked \/ kind # "answer")

Unused(c) ==
  /\ sock[c] = "down"
  /\ cache # c /\ clean # c
  /\ \A f \in Flows : flow[f].c # c /\ flow[f].other # c

\* onOpen() creates the wrapper.
Open(c) ==
  /\ Unused(c)
  /\ sock' = [sock EXCEPT ![c] = "up"]
  /\ closed' = [closed EXCEPT ![c] = FALSE]
  /\ keyed' = [keyed EXCEPT ![c] = FALSE]
  /\ assigned' = [assigned EXCEPT ![c] = FALSE]
  /\ failed' = [failed EXCEPT ![c] = 0]
  /\ Enter(c, "open", c)
  /\ UNCHANGED <<cache, clean>>

Message(m, c, kind) ==
  /\ sock[c] = "up" /\ ~closed[c]
  /\ Enter(m, kind, c)
  /\ UNCHANGED <<sock, wrapperVars, cache, clean>>

(* Seeded fault: the lock is waited for without a limit.                   *)
WaitForever(f) ==
  /\ At(f, "wait")
  /\ ~locked
  /\ GoTo(f, "take")
  /\ UNCHANGED <<sock, wrapperVars, cache, locked, clean>>

(* Seeded fault: one trial too many.                                       *)
WaitOnceMore(f) ==
  LET n == flow[f].trials + 1 IN
  /\ At(f, "wait")
  /\ IF locked /\ n <= MaxTrials
       THEN Become(f, [flow[f] EXCEPT !.trials = n])
       ELSE Become(f, [flow[f] EXCEPT !.pc = "take", !.trials = 0])
  /\ UNCHANGED <<sock, wrapperVars, cache, locked, clean>>

(* waitForWSLockToRelease(): the lock is looked at once per                *)
(* WS_LOCK_TIME_OUT_MILLIS; after the last trial it counts as free.        *)
Wait(f) ==
  LET n == flow[f].trials + 1 IN
  /\ At(f, "wait")
  /\ IF locked /\ n < MaxTrials
       THEN Become(f, [flow[f] EXCEPT !.trials = n])
       ELSE Become(f, [flow[f] EXCEPT !.pc = "take", !.trials = 0])
  /\ UNCHANGED <<sock, wrapperVars, cache, locked, clean>>

(* The waiting handler logs first; another may take the lock meanwhile.    *)
Take(f) ==
  /\ At(f, "take")
  /\ GoTo(f, Work(flow[f].kind))
  /\ locked' = TRUE
  /\ UNCHANGED <<sock, wrapperVars, cache, clean>>

-----------------------------------------------------------------------------
(* onOpen(): initialize() reads the database, which can take time.         *)

(* The check of tenant, token or station fails: closeWebSocket().          *)
Reject(c) ==
  /\ At(c, "init")
  /\ closed' = [closed EXCEPT ![c] = TRUE]
  /\ GoTo(c, "end")
  /\ UNCHANGED <<sock, keyed, assigned, failed, cache, locked, clean>>

ClosedDuringInit(c) ==
  /\ At(c, "init")
  /\ closed[c]
  /\ GoTo(c, "end")
  /\ UNCHANGED <<sock, wrapperVars, cache, locked, clean>>

(* checkAndCloseIdenticalOpenedWSConnection(): another open connection in  *)
(* the cache is pinged, and is to be closed.                               *)
Accept(c) ==
  /\ At(c, "init")
  /\ ~closed[c]
  /\ keyed' = [keyed EXCEPT ![c] = TRUE]
  /\ IF cache # NoConn /\ ~closed[cache]
       THEN /\ Become(c, [flow[c] EXCEPT !.pc = "close", !.other = cache, !.known = TRUE])
            /\ Ping(cache)
       ELSE /\ Become(c, [flow[c] EXCEPT !.pc = "set", !.known = TRUE])
            /\ UNCHANGED failed
  /\ UNCHANGED <<sock, closed, assigned, cache, locked, clean>>

-----------------------------------------------------------------------------
(* onMessage(): checkWSConnectionFromOnMessage()                           *)

Found(c) == IF keyed[c] THEN cache ELSE NoConn

(* Seeded fault: a connection the cache does not hold is not put there.    *)
CheckOnly(f) ==
  LET c == flow[f].c IN
  /\ At(f, "check")
  /\ IF closed[c] THEN Finish(f) ELSE GoTo(f, "end") /\ UNCHANGED locked
  /\ UNCHANGED <<sock, wrapperVars, cache, clean>>

(* Seeded fault: the error for a closed connection skips the release.      *)
CheckNoFinally(f) ==
  LET c == flow[f].c IN
  /\ At(f, "check")
  /\ IF closed[c]
       THEN Become(f, Idle)
       ELSE \/ Found(c) = c /\ GoTo(f, "end")
            \/ Found(c) = NoConn
               /\ Become(f, [flow[f] EXCEPT !.pc = "set", !.known = assigned[c]])
            \/ Found(c) \notin {c, NoConn}
               /\ Become(f, [flow[f] EXCEPT !.pc = "ping", !.other = Found(c),
                                            !.known = assigned[c]])
  /\ UNCHANGED <<sock, wrapperVars, cache, locked, clean>>

Check(f) ==
  LET c == flow[f].c IN
  /\ At(f, "check")
  /\ \/ closed[c] /\ Finish(f)
     \/ /\ ~closed[c]
        /\ \/ Found(c) = c /\ GoTo(f, "end")
           \/ Found(c) = NoConn
              /\ Become(f, [flow[f] EXCEPT !.pc = "set", !.known = assigned[c]])
           \/ Found(c) \notin {c, NoConn}
              /\ Become(f, [flow[f] EXCEPT !.pc = "ping", !.other = Found(c),
                                           !.known = assigned[c]])
        /\ UNCHANGED locked
  /\ UNCHANGED <<sock, wrapperVars, cache, clean>>

(* The other connection is pinged; alive it is closed, and removed from    *)
(* the cache; after too many failed pings it is removed, too.              *)
PingOther(f) ==
  LET d == flow[f].other IN
  /\ At(f, "ping")
  /\ Ping(d)
  /\ GoTo(f, IF ~closed[d] THEN "close" ELSE IF GivenUp(d) THEN "remove" ELSE "set")
  /\ UNCHANGED <<sock, closed, keyed, assigned, cache, locked, clean>>

CloseOther(f) ==
  /\ At(f, "close")
  /\ closed' = [closed EXCEPT ![flow[f].other] = TRUE]
  /\ GoTo(f, "remove")
  /\ UNCHANGED <<sock, keyed, assigned, failed, cache, locked, clean>>

RemoveOther(f) ==
  /\ At(f, "remove")
  /\ cache' = Removed(flow[f].other)
  /\ Become(f, [flow[f] EXCEPT !.pc = "set", !.other = NoConn])
  /\ UNCHANGED <<sock, wrapperVars, locked, clean>>

(* Seeded fault: the connection is cached without a note on its wrapper.   *)
SetOnly(f) ==
  /\ At(f, "set")
  /\ IF flow[f].known
       THEN /\ cache' = flow[f].c
            /\ Become(f, [flow[f] EXCEPT !.pc = "end", !.other = NoConn])
            /\ UNCHANGED locked
       ELSE Finish(f) /\ UNCHANGED cache
  /\ UNCHANGED <<sock, wrapperVars, clean>>

(* setWSConnection() puts the connection in the cache, closed or not, and  *)
(* after a log entry on the wrapper.  It throws where wsConnection is      *)
(* undefined: a message that came before the connection was accepted.      *)
Set(f) ==
  /\ At(f, "set")
  /\ \/ /\ ~flow[f].known
        /\ Finish(f)
        /\ UNCHANGED cache
     \/ /\ flow[f].known
        /\ cache' = flow[f].c
        /\ Become(f, [flow[f] EXCEPT !.pc = "assign", !.other = NoConn])
        /\ UNCHANGED locked
  /\ UNCHANGED <<sock, wrapperVars, clean>>

Assign(f) ==
  /\ At(f, "assign")
  /\ assigned' = [assigned EXCEPT ![flow[f].c] = TRUE]
  /\ IF flow[f].kind = "open"
       THEN Finish(f)
       ELSE GoTo(f, "end") /\ UNCHANGED locked
  /\ UNCHANGED <<sock, closed, keyed, failed, cache, clean>>

-----------------------------------------------------------------------------
(* The rest leaves the connections alone: receivedMessage(), that is       *)
(* handleRequest() for a call and the callback of the request for an       *)
(* answer, or the log entry of an onOpen() that failed.                    *)
HandleAndEnd(f) ==
  /\ At(f, "end")
  /\ Finish(f)
  /\ UNCHANGED <<sock, wrapperVars, cache, clean>>

-----------------------------------------------------------------------------
(* The close event of a socket, whichever side closed it; the handler logs *)
(* before it removes the connection from the cache.                        *)
CloseEvent(c) ==
  /\ sock[c] = "up"
  /\ sock' = [sock EXCEPT ![c] = "closing"]
  /\ closed' = [closed EXCEPT ![c] = TRUE]
  /\ UNCHANGED <<keyed, assigned, failed, cache, locked, flow, clean>>

RemoveClosed(c) ==
  /\ sock[c] = "closing"
  /\ sock' = [sock EXCEPT ![c] = "down"]
  /\ cache' = Removed(c)
  /\ UNCHANGED <<wrapperVars, locked, flow, clean>>

(* checkAndCleanupWebSockets(), every pingIntervalOCPPJSecs.               *)
CleanupPing ==
  /\ clean = NoConn
  /\ cache # NoConn
  /\ Ping(cache)
  /\ clean' = IF GivenUp(cache) THEN cache ELSE NoConn
  /\ UNCHANGED <<sock, closed, keyed, assigned, cache, locked, flow>>

CleanupRemove ==
  /\ clean # NoConn
  /\ cache' = Removed(clean)
  /\ clean' = NoConn
  /\ UNCHANGED <<sock, wrapperVars, locked, flow>>

-----------------------------------------------------------------------------
Advance(f) ==
  \/ Wait(f) \/ Take(f) \/ Check(f) \/ PingOther(f) \/ CloseOther(f)
  \/ RemoveOther(f) \/ Set(f) \/ Assign(f) \/ HandleAndEnd(f)

Initialized(c) == Reject(c) \/ ClosedDuringInit(c) \/ Accept(c)

Next ==
  \/ \E f \in Flows : Advance(f)
  \/ \E c \in Conns :
       \/ Open(c) \/ Initialized(c) \/ CloseEvent(c) \/ RemoveClosed(c)
       \/ \E m \in Messages, kind \in {"call", "answer"} : Message(m, c, kind)
  \/ CleanupPing \/ CleanupRemove

Spec == Init /\ [][Next]_vars

(* Handlers run on, timers fire, and an open station sends something now   *)
(* and then (heartbeats).  Nothing is assumed of initialize(): it may take *)
(* for ever.  Nor does a station have to connect or to answer.             *)
FairSpec ==
  /\ Spec
  /\ \A f \in Flows : WF_vars(Advance(f))
  /\ \A c \in Conns : /\ WF_vars(RemoveClosed(c))
                      /\ WF_vars(\E m \in Messages : Message(m, c, "call"))
  /\ WF_vars(CleanupPing) /\ WF_vars(CleanupRemove)

-----------------------------------------------------------------------------
(* The lock of the URL is taken only while a handler is at work that will  *)
(* delete it, though handlers delete each other's lock.                    *)
Working(f) == flow[f].pc \notin {"idle", "wait", "take"} /\ flow[f].kind # "answer"
NoLeakedLock == locked => \E f \in Flows : Working(f)

(* A cached connection can be removed again: removeWSWrapper() finds it    *)
(* through its wrapper, now or when setWSConnection() has run to its end,  *)
(* whatever closed the connection or replaced its entry meanwhile.         *)
CacheRemovable ==
  cache # NoConn =>
    assigned[cache] \/ \E f \in Flows : At(f, "assign") /\ flow[f].c = cache

(* Whichever handler, close event or check empties the entry of the        *)
(* station, with what it read before its awaits: the connection that was   *)
(* in the cache is a closed one.  A station never loses the way commands   *)
(* reach it because an older connection of it is cleared away.             *)
OnlyClosedLeave ==
  [][cache # NoConn /\ cache' = NoConn => closed[cache]]_vars

(* A handler gets its turn, even behind one whose initialize() never ends. *)
Served == \A f \in Flows : At(f, "wait") ~> ~At(f, "wait")

(* A closed connection does not stay in the cache: commands to the station *)
(* would go nowhere.                                                       *)
StaleEntryRemoved == \A c \in Conns : cache = c /\ closed[c] ~> cache # c

(* The one connection a station has left, once accepted, gets (back) in    *)
(* the cache: the station can be reached.                                  *)
Alone(c) ==
  /\ sock[c] = "up" /\ ~closed[c] /\ assigned[c]
  /\ \A d \in Conns \ {c} : sock[d] = "down"
Reachable == \A c \in Conns : Alone(c) ~> cache = c \/ ~Alone(c)
=============================================================================
