------------------------- MODULE OcppConnectionProofs -------------------------
(***************************************************************************)
(* Theorems about OcppConnection, for any number of connections and        *)
(* messages, any number of trials and of failed pings.                     *)
(***************************************************************************)
EXTENDS OcppConnection, TLAPS

(* A ping counts a failure up to the limit.                                *)
LEMMA PingType ==
  ASSUME NEW c, failed \in [Conns -> 0..MaxFailedPings], Ping(c)
  PROVE  failed' \in [Conns -> 0..MaxFailedPings]
<1>1. ASSUME NEW d \in Conns PROVE failed'[d] \in 0..MaxFailedPings
  <2>1. failed[d] \in 0..MaxFailedPings
    OBVIOUS
  <2>2. failed'[d] \in {failed[d], 0} \/ (failed[d] < MaxFailedPings /\ failed'[d] = failed[d] + 1)
    BY DEF Ping
  <2>3. QED
    BY <2>1, <2>2, OcppConnectionAssumption
<1>2. failed' = [d \in Conns |-> failed'[d]]
  BY DEF Ping
<1>3. QED
  BY <1>1, <1>2

LEMMA IdleType == Idle \in Flow
  BY OcppConnectionAssumption DEF Idle, Flow, Steps, Kinds

(* A handler goes on with a record, or to a step, of the right type.       *)
LEMMA BecomeType ==
  ASSUME NEW f \in Flows, NEW r \in Flow, flow \in [Flows -> Flow], Become(f, r)
  PROVE  flow' \in [Flows -> Flow]
  BY DEF Become

LEMMA GoToType ==
  ASSUME NEW f \in Flows, NEW step \in Steps, flow \in [Flows -> Flow], GoTo(f, step)
  PROVE  flow' \in [Flows -> Flow]
  BY DEF GoTo, Flow

LEMMA FinishType ==
  ASSUME NEW f \in Flows, flow \in [Flows -> Flow], locked \in BOOLEAN, Finish(f)
  PROVE  flow' \in [Flows -> Flow] /\ locked' \in BOOLEAN
  BY IdleType, BecomeType DEF Finish

LEMMA EnterType ==
  ASSUME NEW f \in Flows, flow \in [Flows -> Flow], locked \in BOOLEAN,
         NEW c \in Conns, NEW kind \in Kinds, Enter(f, kind, c)
  PROVE  flow' \in [Flows -> Flow] /\ locked' \in BOOLEAN
<1>1. [[Idle EXCEPT !.kind = kind, !.c = c] EXCEPT !.pc = "wait"] \in Flow
  BY IdleType DEF Flow, Steps
<1>2. [[Idle EXCEPT !.kind = kind, !.c = c] EXCEPT !.pc = Work(kind)] \in Flow
  BY IdleType DEF Flow, Steps, Work
<1>3. QED
  BY <1>1, <1>2, BecomeType DEF Enter

(* A handler that waits or is about to take the lock is one of a call or   *)
(* of an open: its finally block will delete the lock.                     *)
WaitersRelease ==
  \A f \in Flows : flow[f].pc \in {"wait", "take"} => flow[f].kind # "answer"

(* A handler under way has a connection.                                   *)
HandlersHaveConnection ==
  \A f \in Flows : flow[f].pc # "idle" => flow[f].c \in Conns

ConnInv == TypeOK /\ HandlersHaveConnection /\ WaitersRelease /\ NoLeakedLock

LEMMA InitConnInv == Init => ConnInv
<1> SUFFICES ASSUME Init PROVE ConnInv
  OBVIOUS
<1>1. failed \in [Conns -> 0..MaxFailedPings]
  BY OcppConnectionAssumption DEF Init
<1>2. TypeOK
  BY <1>1, IdleType DEF Init, TypeOK
<1>3. WaitersRelease /\ NoLeakedLock /\ HandlersHaveConnection
  BY DEF Init, WaitersRelease, HandlersHaveConnection, NoLeakedLock, Idle
<1>4. QED
  BY <1>2, <1>3 DEF ConnInv

-----------------------------------------------------------------------------
LEMMA AdvanceTypeOK ==
  ASSUME TypeOK, HandlersHaveConnection, NEW f \in Flows, Advance(f)
  PROVE  TypeOK'
<1> USE DEF TypeOK, wrapperVars
<1>1. flow[f] \in Flow
  OBVIOUS
<1>2. CASE Wait(f)
  <2>1. flow[f].trials \in 0..(MaxTrials - 1)
    BY <1>1 DEF Flow
  <2>2. CASE locked /\ flow[f].trials + 1 < MaxTrials
    <3>1. flow[f].trials + 1 \in 0..(MaxTrials - 1)
      BY <2>1, <2>2, OcppConnectionAssumption
    <3>2. [flow[f] EXCEPT !.trials = flow[f].trials + 1] \in Flow
      BY <1>1, <3>1 DEF Flow
    <3>3. QED
      BY <1>2, <2>2, <3>2, BecomeType DEF Wait
  <2>3. CASE ~(locked /\ flow[f].trials + 1 < MaxTrials)
    <3>1. [flow[f] EXCEPT !.pc = "take", !.trials = 0] \in Flow
      <4>1. 0 \in 0..(MaxTrials - 1)
        BY OcppConnectionAssumption
      <4>2. QED
        BY <1>1, <4>1 DEF Flow, Steps
    <3>2. QED
      BY <1>2, <2>3, <3>1, BecomeType DEF Wait
  <2>4. QED
    BY <2>2, <2>3
<1>3. CASE Take(f)
  <2>1. Work(flow[f].kind) \in Steps
    BY DEF Work, Steps
  <2>2. QED
    BY <1>3, <2>1, GoToType DEF Take
<1>4. CASE Check(f)
  <2>1. Found(flow[f].c) \in Conns \union {NoConn} /\ assigned[flow[f].c] \in BOOLEAN
    BY <1>4 DEF Found, HandlersHaveConnection, Check, At
  <2>2. CASE Finish(f)
    BY <1>4, <2>2, FinishType DEF Check
  <2>3. CASE GoTo(f, "end") /\ UNCHANGED locked
    BY <1>4, <2>3, GoToType DEF Check, Steps
  <2>4. ASSUME NEW known \in BOOLEAN, NEW d \in Conns \union {NoConn}, UNCHANGED locked,
               \/ Become(f, [flow[f] EXCEPT !.pc = "set", !.known = known])
               \/ Become(f, [flow[f] EXCEPT !.pc = "ping", !.other = d, !.known = known])
        PROVE  TypeOK'
    <3>1. /\ [flow[f] EXCEPT !.pc = "set", !.known = known] \in Flow
          /\ [flow[f] EXCEPT !.pc = "ping", !.other = d, !.known = known] \in Flow
      BY <1>1 DEF Flow, Steps
    <3>2. QED
      BY <1>4, <2>4, <3>1, BecomeType DEF Check
  <2>5. QED
    BY <1>4, <2>1, <2>2, <2>3, <2>4 DEF Check
<1>5. CASE PingOther(f)
  BY <1>5, PingType, GoToType DEF PingOther, Steps
<1>6. CASE CloseOther(f)
  BY <1>6, GoToType DEF CloseOther, Steps
<1>7. CASE RemoveOther(f)
  <2>1. [flow[f] EXCEPT !.pc = "set", !.other = NoConn] \in Flow
    BY <1>1 DEF Flow, Steps
  <2>2. QED
    BY <1>7, <2>1, BecomeType DEF RemoveOther, Removed
<1>8. CASE Set(f)
  <2>1. [flow[f] EXCEPT !.pc = "assign", !.other = NoConn] \in Flow
    BY <1>1 DEF Flow, Steps
  <2>2. flow[f].c \in Conns \union {NoConn}
    BY <1>1 DEF Flow
  <2>3. QED
    BY <1>8, <2>1, <2>2, BecomeType, FinishType DEF Set
<1>9. CASE Assign(f)
  BY <1>9, GoToType, FinishType DEF Assign, Steps
<1>10. CASE HandleAndEnd(f)
  BY <1>10, FinishType DEF HandleAndEnd
<1>11. QED
  BY <1>2, <1>3, <1>4, <1>5, <1>6, <1>7, <1>8, <1>9, <1>10 DEF Advance

LEMMA NextTypeOK ==
  ASSUME TypeOK, HandlersHaveConnection, [Next]_vars
  PROVE  TypeOK'
<1> USE DEF TypeOK, wrapperVars
<1>1. ASSUME NEW f \in Flows, Advance(f) PROVE TypeOK'
  BY <1>1, AdvanceTypeOK
<1>2. ASSUME NEW c \in Conns, Open(c) PROVE TypeOK'
  <2>1. flow' \in [Flows -> Flow] /\ locked' \in BOOLEAN
    BY <1>2, EnterType DEF Open, Flows, Kinds
  <2>2. failed' \in [Conns -> 0..MaxFailedPings]
    BY <1>2, OcppConnectionAssumption DEF Open
  <2>3. QED
    BY <1>2, <2>1, <2>2 DEF Open
<1>3. ASSUME NEW c \in Conns, Reject(c) \/ ClosedDuringInit(c) PROVE TypeOK'
  BY <1>3, GoToType DEF Reject, ClosedDuringInit, Flows, Steps
<1>4. ASSUME NEW c \in Conns, Accept(c) PROVE TypeOK'
  <2>1. failed' \in [Conns -> 0..MaxFailedPings]
    BY <1>4, PingType DEF Accept
  <2>2. c \in Flows /\ flow[c] \in Flow
    BY DEF Flows
  <2>3. /\ [flow[c] EXCEPT !.pc = "close", !.other = cache, !.known = TRUE] \in Flow
        /\ [flow[c] EXCEPT !.pc = "set", !.known = TRUE] \in Flow
    BY <2>2 DEF Flow, Steps
  <2>4. flow' \in [Flows -> Flow]
    BY <1>4, <2>2, <2>3, BecomeType DEF Accept
  <2>5. QED
    BY <1>4, <2>1, <2>4 DEF Accept
<1>5. ASSUME NEW c \in Conns, CloseEvent(c) \/ RemoveClosed(c) PROVE TypeOK'
  BY <1>5 DEF CloseEvent, RemoveClosed, Removed
<1>6. ASSUME NEW m \in Messages, NEW c \in Conns, NEW kind \in {"call", "answer"},
             Message(m, c, kind)
      PROVE  TypeOK'
  BY <1>6, EnterType DEF Message, Flows, Kinds
<1>7. CASE CleanupPing
  BY <1>7, PingType DEF CleanupPing
<1>8. CASE CleanupRemove
  BY <1>8 DEF CleanupRemove, Removed
<1>9. CASE UNCHANGED vars
  BY <1>9 DEF vars
<1>10. QED
  BY <1>1, <1>2, <1>3, <1>4, <1>5, <1>6, <1>7, <1>8, <1>9
  DEF Next, Initialized

-----------------------------------------------------------------------------
(* What a handler does to its own record leaves the others alone.          *)
LEMMA Moved ==
  ASSUME flow \in [Flows -> Flow], NEW f \in Flows, NEW r, Become(f, r)
  PROVE  flow'[f] = r /\ \A g \in Flows \ {f} : flow'[g] = flow[g]
  BY DEF Become

LEMMA Gone ==
  ASSUME flow \in [Flows -> Flow], NEW f \in Flows, NEW step, GoTo(f, step)
  PROVE  /\ flow'[f] = [flow[f] EXCEPT !.pc = step]
         /\ \A g \in Flows \ {f} : flow'[g] = flow[g]
  BY DEF GoTo

(* The invariant without its types, which are proved already.              *)
Kept == HandlersHaveConnection /\ WaitersRelease /\ NoLeakedLock

(* A handler that goes on with the lock left alone: one that waits does    *)
(* not begin to work in this way, and one at work stays at work.           *)
LEMMA GoesOn ==
  ASSUME ConnInv, NEW f \in Flows, UNCHANGED locked, NEW r \in Flow,
         flow'[f] = r, \A g \in Flows \ {f} : flow'[g] = flow[g],
         flow[f].pc # "idle", r.kind = flow[f].kind, r.c = flow[f].c,
         r.pc \in {"wait", "take"} <=> flow[f].pc \in {"wait", "take"}, r.pc # "idle"
  PROVE  Kept'
<1>1. HandlersHaveConnection' /\ WaitersRelease'
  BY DEF ConnInv, HandlersHaveConnection, WaitersRelease
<1>2. NoLeakedLock'
  BY DEF ConnInv, NoLeakedLock, Working
<1>3. QED
  BY <1>1, <1>2 DEF Kept

(* A handler that takes the lock.                                          *)
LEMMA TakesLock ==
  ASSUME ConnInv, NEW f \in Flows, NEW r \in Flow,
         flow'[f] = r, \A g \in Flows \ {f} : flow'[g] = flow[g],
         r.pc \notin {"idle", "wait", "take"}, r.kind # "answer", r.c \in Conns
  PROVE  Kept'
  BY DEF ConnInv, Kept, HandlersHaveConnection, WaitersRelease, NoLeakedLock, Working

(* A handler that ends deletes the lock, unless it handled an answer; then *)
(* the one that works on under the lock is another.                        *)
LEMMA FinishReleases ==
  ASSUME ConnInv, NEW f \in Flows, Finish(f)
  PROVE  Kept'
<1>1. flow'[f] = Idle /\ \A g \in Flows \ {f} : flow'[g] = flow[g]
  BY Moved DEF Finish, ConnInv, TypeOK
<1>2. HandlersHaveConnection' /\ WaitersRelease'
  BY <1>1 DEF ConnInv, HandlersHaveConnection, WaitersRelease, Idle
<1>3. NoLeakedLock'
  BY <1>1 DEF ConnInv, NoLeakedLock, Working, Finish
<1>4. QED
  BY <1>2, <1>3 DEF Kept

(* A handler that begins works under the lock or waits for it.             *)
LEMMA EnterWorks ==
  ASSUME ConnInv, NEW f \in Flows, NEW kind \in Kinds, NEW c \in Conns,
         Enter(f, kind, c)
  PROVE  Kept'
<1>1. PICK step \in {"wait", Work(kind)} :
        /\ Become(f, [[Idle EXCEPT !.kind = kind, !.c = c] EXCEPT !.pc = step])
        /\ step = "wait" <=> locked /\ kind # "answer"
  BY DEF Enter, Work
<1> DEFINE r == [[Idle EXCEPT !.kind = kind, !.c = c] EXCEPT !.pc = step]
<1>2. flow'[f] = r /\ \A g \in Flows \ {f} : flow'[g] = flow[g]
  BY <1>1, Moved DEF ConnInv, TypeOK
<1>3. r.kind = kind /\ r.c = c /\ r.pc = step
  BY DEF Idle
<1>4. flow[f].pc = "idle" /\ locked' = (locked \/ kind # "answer")
  BY DEF Enter, At
<1> HIDE DEF r
<1>5. HandlersHaveConnection' /\ WaitersRelease'
  BY <1>1, <1>2, <1>3, <1>4
  DEF ConnInv, HandlersHaveConnection, WaitersRelease, Work
<1>6. NoLeakedLock'
  <2>1. CASE locked
    <3>1. PICK g \in Flows : Working(g)
      BY <2>1 DEF ConnInv, NoLeakedLock
    <3>2. g # f
      BY <3>1, <1>4 DEF Working
    <3>3. QED
      BY <3>1, <3>2, <1>2 DEF NoLeakedLock, Working
  <2>2. CASE ~locked /\ kind # "answer"
    BY <2>2, <1>1, <1>2, <1>3 DEF NoLeakedLock, Working, Work
  <2>3. CASE ~locked /\ kind = "answer"
    BY <2>3, <1>4 DEF NoLeakedLock
  <2>4. QED
    BY <2>1, <2>2, <2>3
<1>7. QED
  BY <1>5, <1>6 DEF Kept

LEMMA AdvanceKeeps ==
  ASSUME ConnInv, NEW f \in Flows, Advance(f), TypeOK'
  PROVE  Kept'
<1>1. flow \in [Flows -> Flow] /\ flow[f] \in Flow /\ flow'[f] \in Flow
  BY DEF ConnInv, TypeOK
<1> USE DEF At
<1>2. CASE Wait(f)
  <2>1. /\ flow'[f].pc \in {"wait", "take"}
        /\ flow'[f].kind = flow[f].kind /\ flow'[f].c = flow[f].c
        /\ \A g \in Flows \ {f} : flow'[g] = flow[g]
    <3>1. ASSUME NEW n, Become(f, [flow[f] EXCEPT !.trials = n])
          PROVE  /\ flow'[f].pc = flow[f].pc
                 /\ flow'[f].kind = flow[f].kind /\ flow'[f].c = flow[f].c
                 /\ \A g \in Flows \ {f} : flow'[g] = flow[g]
      BY <1>1, <3>1, Moved DEF Flow
    <3>2. CASE Become(f, [flow[f] EXCEPT !.pc = "take", !.trials = 0])
      <4>1. /\ flow'[f] = [flow[f] EXCEPT !.pc = "take", !.trials = 0]
            /\ \A g \in Flows \ {f} : flow'[g] = flow[g]
        BY <1>1, <3>2, Moved
      <4>2. QED
        BY <1>1, <4>1 DEF Flow
    <3>3. QED
      BY <1>2, <3>1, <3>2 DEF Wait
  <2>2. QED
    BY <1>1, <1>2, <2>1, GoesOn DEF Wait
<1>3. CASE Take(f)
  <2>1. /\ flow'[f] = [flow[f] EXCEPT !.pc = Work(flow[f].kind)]
        /\ \A g \in Flows \ {f} : flow'[g] = flow[g]
    BY <1>1, <1>3, Gone DEF Take
  <2>2. /\ flow'[f].pc = Work(flow[f].kind)
        /\ flow'[f].kind = flow[f].kind /\ flow'[f].c = flow[f].c
    BY <1>1, <2>1 DEF Flow
  <2>3. flow[f].kind # "answer" /\ flow[f].c \in Conns
    BY <1>3 DEF Take, ConnInv, WaitersRelease, HandlersHaveConnection
  <2>4. QED
    BY <1>1, <2>1, <2>2, <2>3, TakesLock DEF Work
<1>4. ASSUME NEW step \in Steps \ {"idle", "wait", "take"}, GoTo(f, step),
             flow[f].pc \notin {"idle", "wait", "take"}, UNCHANGED locked
      PROVE  Kept'
  <2>1. /\ flow'[f] = [flow[f] EXCEPT !.pc = step]
        /\ \A g \in Flows \ {f} : flow'[g] = flow[g]
    BY <1>1, <1>4, Gone
  <2>2. flow'[f].pc = step /\ flow'[f].kind = flow[f].kind /\ flow'[f].c = flow[f].c
    BY <1>1, <2>1 DEF Flow
  <2>3. QED
    BY <1>1, <1>4, <2>1, <2>2, GoesOn
<1>5. ASSUME NEW r, Become(f, r), r.pc \in Steps \ {"idle", "wait", "take"},
             r.kind = flow[f].kind, r.c = flow[f].c,
             flow[f].pc \notin {"idle", "wait", "take"}, UNCHANGED locked
      PROVE  Kept'
  <2>1. flow'[f] = r /\ \A g \in Flows \ {f} : flow'[g] = flow[g]
    BY <1>1, <1>5, Moved
  <2>2. QED
    BY <1>1, <1>5, <2>1, GoesOn
<1>6. ASSUME NEW step \in {"set", "ping", "assign"}, NEW d, NEW known,
             flow[f].pc \notin {"idle", "wait", "take"}, UNCHANGED locked,
             \/ Become(f, [flow[f] EXCEPT !.pc = step, !.other = d, !.known = known])
             \/ Become(f, [flow[f] EXCEPT !.pc = step, !.known = known])
             \/ Become(f, [flow[f] EXCEPT !.pc = step, !.other = d])
      PROVE  Kept'
  <2>1. CASE Become(f, [flow[f] EXCEPT !.pc = step, !.other = d, !.known = known])
    <3> DEFINE r == [flow[f] EXCEPT !.pc = step, !.other = d, !.known = known]
    <3>1. r.pc = step /\ r.kind = flow[f].kind /\ r.c = flow[f].c
      BY <1>1 DEF Flow
    <3> HIDE DEF r
    <3>2. QED
      BY <1>5, <1>6, <2>1, <3>1 DEF r, Steps
  <2>2. CASE Become(f, [flow[f] EXCEPT !.pc = step, !.known = known])
    <3> DEFINE r == [flow[f] EXCEPT !.pc = step, !.known = known]
    <3>1. r.pc = step /\ r.kind = flow[f].kind /\ r.c = flow[f].c
      BY <1>1 DEF Flow
    <3> HIDE DEF r
    <3>2. QED
      BY <1>5, <1>6, <2>2, <3>1 DEF r, Steps
  <2>3. CASE Become(f, [flow[f] EXCEPT !.pc = step, !.other = d])
    <3> DEFINE r == [flow[f] EXCEPT !.pc = step, !.other = d]
    <3>1. r.pc = step /\ r.kind = flow[f].kind /\ r.c = flow[f].c
      BY <1>1 DEF Flow
    <3> HIDE DEF r
    <3>2. QED
      BY <1>5, <1>6, <2>3, <3>1 DEF r, Steps
  <2>4. QED
    BY <1>6, <2>1, <2>2, <2>3
<1>7. CASE Check(f)
  <2>1. CASE Finish(f)
    BY <2>1, FinishReleases
  <2>2. CASE GoTo(f, "end") /\ UNCHANGED locked
    BY <1>7, <2>2, <1>4 DEF Check, Steps
  <2>3. CASE /\ UNCHANGED locked
             /\ \/ Become(f, [flow[f] EXCEPT !.pc = "set", !.known = assigned[flow[f].c]])
                \/ Become(f, [flow[f] EXCEPT !.pc = "ping", !.other = Found(flow[f].c),
                                             !.known = assigned[flow[f].c]])
    BY <1>7, <2>3, <1>6 DEF Check
  <2>4. QED
    BY <1>7, <2>1, <2>2, <2>3 DEF Check
<1>8. CASE PingOther(f) \/ CloseOther(f)
  BY <1>8, <1>4 DEF PingOther, CloseOther, Steps
<1>9. CASE RemoveOther(f)
  <2>1. Become(f, [flow[f] EXCEPT !.pc = "set", !.other = NoConn]) /\ UNCHANGED locked
        /\ flow[f].pc = "remove"
    BY <1>9 DEF RemoveOther
  <2>2. QED
    BY <2>1, <1>6
<1>10. CASE Set(f)
  <2>1. CASE Finish(f)
    BY <2>1, FinishReleases
  <2>2. CASE Become(f, [flow[f] EXCEPT !.pc = "assign", !.other = NoConn]) /\ UNCHANGED locked
    BY <1>10, <2>2, <1>6 DEF Set
  <2>3. QED
    BY <1>10, <2>1, <2>2 DEF Set
<1>11. CASE Assign(f)
  BY <1>11, <1>4, FinishReleases DEF Assign, Steps
<1>12. CASE HandleAndEnd(f)
  BY <1>12, FinishReleases DEF HandleAndEnd
<1>13. QED
  BY <1>2, <1>3, <1>7, <1>8, <1>9, <1>10, <1>11, <1>12 DEF Advance

(* The end of initialize(), well or not.                                   *)
LEMMA InitializedKeeps ==
  ASSUME ConnInv, NEW c \in Conns, Initialized(c), TypeOK'
  PROVE  Kept'
<1>1. c \in Flows /\ flow \in [Flows -> Flow] /\ flow[c] \in Flow /\ flow'[c] \in Flow
  BY DEF ConnInv, TypeOK, Flows
<1>2. PICK r : /\ flow'[c] = r /\ r.pc \in {"end", "close", "set"}
               /\ r.kind = flow[c].kind /\ r.c = flow[c].c
               /\ \A g \in Flows \ {c} : flow'[g] = flow[g]
  <2>1. CASE GoTo(c, "end")
    BY <1>1, <2>1, Gone DEF Flow
  <2>2. CASE Accept(c)
    <3>1. PICK step \in {"close", "set"}, d \in Conns \union {NoConn} :
            Become(c, [flow[c] EXCEPT !.pc = step, !.other = d, !.known = TRUE])
      <4>1. [flow[c] EXCEPT !.pc = "set", !.known = TRUE]
              = [flow[c] EXCEPT !.pc = "set", !.other = flow[c].other, !.known = TRUE]
        BY <1>1 DEF Flow
      <4>2. QED
        BY <1>1, <2>2, <4>1 DEF Accept, ConnInv, TypeOK, Flow
    <3>2. QED
      BY <1>1, <3>1, Moved DEF Flow
  <2>3. QED
    BY <2>1, <2>2 DEF Initialized, Reject, ClosedDuringInit
<1>3. flow[c].pc = "init" /\ UNCHANGED locked
  BY DEF Initialized, Reject, ClosedDuringInit, Accept, At
<1>4. QED
  BY <1>1, <1>2, <1>3, GoesOn

LEMMA NextConnInv ==
  ASSUME ConnInv, [Next]_vars
  PROVE  ConnInv'
<1>t. TypeOK'
  BY NextTypeOK DEF ConnInv
<1>i. Kept'
  <2>1. ASSUME NEW f \in Flows, Advance(f) PROVE Kept'
    BY <2>1, <1>t, AdvanceKeeps
  <2>2. ASSUME NEW c \in Conns, Open(c) PROVE Kept'
    BY <2>2, EnterWorks DEF Open, Flows, Kinds
  <2>3. ASSUME NEW c \in Conns, Initialized(c) PROVE Kept'
    BY <2>3, <1>t, InitializedKeeps
  <2>4. ASSUME NEW m \in Messages, NEW c \in Conns, NEW kind \in {"call", "answer"},
               Message(m, c, kind)
        PROVE  Kept'
    BY <2>4, EnterWorks DEF Message, Flows, Kinds
  <2>5. CASE UNCHANGED <<flow, locked>>
    BY <2>5 DEF ConnInv, Kept, HandlersHaveConnection, WaitersRelease, NoLeakedLock, Working
  <2>6. QED
    BY <2>1, <2>2, <2>3, <2>4, <2>5
    DEF Next, CloseEvent, RemoveClosed, CleanupPing, CleanupRemove, vars
<1>q. QED
  BY <1>t, <1>i DEF ConnInv, Kept

LEMMA AlwaysConnInv == Spec => []ConnInv
  BY InitConnInv, NextConnInv, PTL DEF Spec

(* The variables of the WebSocket server keep their types.                 *)
THEOREM ConnectionTypeCorrect == Spec => []TypeOK
  BY AlwaysConnInv, PTL DEF ConnInv

(* The lock of a URL is never left behind: while it is there, a handler is *)
(* at work whose finally block deletes it, though handlers that waited too *)
(* long work as well and delete the lock of another.                       *)
THEOREM ConnectionLockReleased == Spec => []NoLeakedLock
  BY AlwaysConnInv, PTL DEF ConnInv

-----------------------------------------------------------------------------
(* The entry of the station in the cache.                                  *)

(* A handler that found another connection keeps it in mind, and is about  *)
(* to remove only a closed one.                                            *)
OthersClosed ==
  \A f \in Flows :
    /\ flow[f].pc \in {"ping", "close", "remove"} => flow[f].other \in Conns
    /\ flow[f].pc = "remove" => closed[flow[f].other]

(* So do the close event and the periodic check.                           *)
LeaversClosed ==
  /\ \A c \in Conns : sock[c] = "closing" => closed[c]
  /\ clean # NoConn => closed[clean]

EntryInv == ConnInv /\ OthersClosed /\ LeaversClosed /\ CacheRemovable

LEMMA InitEntryInv == Init => EntryInv
<1> SUFFICES ASSUME Init PROVE EntryInv
  OBVIOUS
<1>1. OthersClosed /\ LeaversClosed /\ CacheRemovable
  BY DEF Init, OthersClosed, LeaversClosed, CacheRemovable, Idle
<1> QED
  BY <1>1, InitConnInv DEF EntryInv

(* A step of one handler that neither closes nor reopens a connection.     *)
(* Without a step through "assign" it may not put anything in the cache.   *)
LEMMA OneHandlerMoves ==
  ASSUME EntryInv, NEW f \in Flows, \A g \in Flows \ {f} : flow'[g] = flow[g],
         UNCHANGED <<sock, clean>>,
         \A c \in Conns : closed[c] => closed'[c],
         \A c \in Conns : assigned[c] => assigned'[c],
         flow'[f].pc \in {"ping", "close", "remove"} => flow'[f].other \in Conns,
         flow'[f].pc = "remove" => closed'[flow'[f].other],
         \/ cache' \in {cache, NoConn}
         \/ At(f, "assign")' /\ flow'[f].c = cache',
         At(f, "assign") => assigned'[flow[f].c]
  PROVE  OthersClosed' /\ LeaversClosed' /\ CacheRemovable'
<1>0. TypeOK /\ HandlersHaveConnection /\ OthersClosed /\ LeaversClosed /\ CacheRemovable
  BY DEF EntryInv, ConnInv
<1>1. OthersClosed'
  <2> SUFFICES ASSUME NEW g \in Flows
               PROVE  /\ flow'[g].pc \in {"ping", "close", "remove"} => flow'[g].other \in Conns
                      /\ flow'[g].pc = "remove" => closed'[flow'[g].other]
    BY DEF OthersClosed
  <2>1. CASE g = f
    BY <2>1
  <2>2. CASE g # f
    BY <1>0, <2>2 DEF OthersClosed
  <2> QED
    BY <2>1, <2>2
<1>2. LeaversClosed'
  BY <1>0 DEF LeaversClosed, TypeOK
<1>3. CacheRemovable'
  <2>1. CASE At(f, "assign")' /\ flow'[f].c = cache'
    BY <2>1 DEF CacheRemovable
  <2>2. CASE cache' = NoConn
    BY <2>2 DEF CacheRemovable
  <2>3. CASE cache' = cache /\ cache # NoConn
    <3>1. cache \in Conns
      BY <1>0, <2>3 DEF TypeOK
    <3>2. CASE assigned[cache]
      BY <2>3, <3>1, <3>2 DEF CacheRemovable
    <3>3. CASE \E g \in Flows : At(g, "assign") /\ flow[g].c = cache
      <4>1. PICK g \in Flows : At(g, "assign") /\ flow[g].c = cache
        BY <3>3
      <4>2. CASE g = f
        BY <2>3, <4>1, <4>2 DEF CacheRemovable
      <4>3. CASE g # f
        BY <2>3, <4>1, <4>3 DEF CacheRemovable, At
      <4> QED
        BY <4>2, <4>3
    <3> QED
      BY <1>0, <2>3, <3>2, <3>3 DEF CacheRemovable
  <2> QED
    BY <2>1, <2>2, <2>3
<1> QED
  BY <1>1, <1>2, <1>3

(* A handler that ends or goes to a step at which it touches no entry.     *)
LEMMA LeavesEntry ==
  ASSUME EntryInv, NEW f \in Flows, \A g \in Flows \ {f} : flow'[g] = flow[g],
         UNCHANGED <<sock, clean, cache, closed, assigned>>,
         flow'[f].pc \notin {"ping", "close", "remove"}, ~At(f, "assign")
  PROVE  OthersClosed' /\ LeaversClosed' /\ CacheRemovable'
BY OneHandlerMoves

LEMMA AdvanceKeepsEntry ==
  ASSUME EntryInv, NEW f \in Flows, Advance(f)
  PROVE  OthersClosed' /\ LeaversClosed' /\ CacheRemovable'
<1> DEFINE Goal == OthersClosed' /\ LeaversClosed' /\ CacheRemovable'
<1>0. TypeOK /\ HandlersHaveConnection /\ OthersClosed /\ LeaversClosed /\ CacheRemovable
  BY DEF EntryInv, ConnInv
<1>1. flow \in [Flows -> Flow] /\ flow[f] \in Flow
  BY <1>0 DEF TypeOK
<1>2. \A r : Become(f, r) => flow'[f] = r /\ \A g \in Flows \ {f} : flow'[g] = flow[g]
  BY <1>1, Moved
<1>3. \A step : GoTo(f, step) =>
        /\ flow'[f].pc = step /\ flow'[f].c = flow[f].c /\ flow'[f].other = flow[f].other
        /\ \A g \in Flows \ {f} : flow'[g] = flow[g]
  <2> TAKE step
  <2> HAVE GoTo(f, step)
  <2>1. /\ flow'[f] = [flow[f] EXCEPT !.pc = step]
        /\ \A g \in Flows \ {f} : flow'[g] = flow[g]
    BY <1>1, Gone
  <2> QED
    BY <1>1, <2>1 DEF Flow
<1>4. Finish(f) => flow'[f].pc = "idle" /\ \A g \in Flows \ {f} : flow'[g] = flow[g]
  BY <1>2 DEF Finish, Idle
<1> HIDE DEF Goal
<1>5. CASE Wait(f)
  <2>1. At(f, "wait") /\ UNCHANGED <<sock, wrapperVars, cache, clean>>
    BY <1>5 DEF Wait
  <2>2. PICK r : Become(f, r) /\ r.pc \in {"wait", "take"}
    <3>1. CASE locked /\ flow[f].trials + 1 < MaxTrials
      <4>1. [flow[f] EXCEPT !.trials = flow[f].trials + 1].pc = "wait"
        BY <1>1, <2>1 DEF Flow, At
      <4> QED
        BY <1>5, <3>1, <4>1 DEF Wait
    <3>2. CASE ~(locked /\ flow[f].trials + 1 < MaxTrials)
      <4>1. [flow[f] EXCEPT !.pc = "take", !.trials = 0].pc = "take"
        BY <1>1 DEF Flow
      <4> QED
        BY <1>5, <3>2, <4>1 DEF Wait
    <3> QED
      BY <3>1, <3>2
  <2>3. flow'[f].pc \in {"wait", "take"} /\ \A g \in Flows \ {f} : flow'[g] = flow[g]
    BY <1>2, <2>2
  <2> QED
    BY <2>1, <2>3, LeavesEntry DEF Goal, At, wrapperVars
<1>6. CASE Take(f)
  <2>1. At(f, "take") /\ UNCHANGED <<sock, wrapperVars, cache, clean>>
        /\ GoTo(f, Work(flow[f].kind))
    BY <1>6 DEF Take
  <2>2. flow'[f].pc \in {"init", "check"} /\ \A g \in Flows \ {f} : flow'[g] = flow[g]
    BY <1>3, <2>1 DEF Work
  <2> QED
    BY <2>1, <2>2, LeavesEntry DEF Goal, At, wrapperVars
<1>7. CASE Check(f)
  <2>1. At(f, "check") /\ UNCHANGED <<sock, wrapperVars, cache, clean>>
    BY <1>7 DEF Check
  <2>2. flow[f].c \in Conns
    BY <1>0, <2>1 DEF HandlersHaveConnection, At
  <2>3. CASE Finish(f) \/ GoTo(f, "end")
    BY <2>1, <2>3, <1>3, <1>4, LeavesEntry DEF Goal, At, wrapperVars
  <2>4. CASE Become(f, [flow[f] EXCEPT !.pc = "set", !.known = assigned[flow[f].c]])
    <3>0. [flow[f] EXCEPT !.pc = "set", !.known = assigned[flow[f].c]].pc = "set"
      BY <1>1 DEF Flow
    <3>1. flow'[f].pc = "set" /\ \A g \in Flows \ {f} : flow'[g] = flow[g]
      BY <1>2, <2>4, <3>0
    <3> QED
      BY <2>1, <3>1, LeavesEntry DEF Goal, At, wrapperVars
  <2>5. CASE /\ Found(flow[f].c) \notin {flow[f].c, NoConn}
             /\ Become(f, [flow[f] EXCEPT !.pc = "ping", !.other = Found(flow[f].c),
                                          !.known = assigned[flow[f].c]])
    <3>1. /\ flow'[f] = [flow[f] EXCEPT !.pc = "ping", !.other = Found(flow[f].c),
                                        !.known = assigned[flow[f].c]]
          /\ \A g \in Flows \ {f} : flow'[g] = flow[g]
      BY <1>2, <2>5
    <3>2. flow'[f].pc = "ping" /\ flow'[f].other = Found(flow[f].c)
      BY <1>1, <3>1 DEF Flow
    <3>3. Found(flow[f].c) \in Conns
      BY <1>0, <2>5 DEF Found, TypeOK
    <3> QED
      BY <2>1, <3>1, <3>2, <3>3, OneHandlerMoves DEF Goal, At, wrapperVars
  <2> QED
    BY <1>7, <2>3, <2>4, <2>5 DEF Check
<1>8. CASE PingOther(f)
  <2>1. /\ At(f, "ping") /\ UNCHANGED <<sock, closed, keyed, assigned, cache, clean>>
        /\ GoTo(f, IF ~closed[flow[f].other] THEN "close"
                   ELSE IF GivenUp(flow[f].other) THEN "remove" ELSE "set")
    BY <1>8 DEF PingOther
  <2>2. flow[f].other \in Conns
    BY <1>0, <2>1 DEF OthersClosed, At
  <2>3. PICK step \in {"close", "remove", "set"} :
          GoTo(f, step) /\ (step = "remove" => closed[flow[f].other])
    BY <2>1
  <2>4. /\ flow'[f].pc = step /\ flow'[f].other = flow[f].other
        /\ \A g \in Flows \ {f} : flow'[g] = flow[g]
    BY <1>3, <2>3
  <2> QED
    BY <2>1, <2>2, <2>3, <2>4, OneHandlerMoves DEF Goal, At
<1>9. CASE CloseOther(f)
  <2>1. /\ At(f, "close") /\ UNCHANGED <<sock, keyed, assigned, cache, clean>>
        /\ closed' = [closed EXCEPT ![flow[f].other] = TRUE]
        /\ GoTo(f, "remove")
    BY <1>9 DEF CloseOther
  <2>2. flow[f].other \in Conns
    BY <1>0, <2>1 DEF OthersClosed, At
  <2>3. closed'[flow[f].other] /\ \A c \in Conns : closed[c] => closed'[c]
    BY <1>0, <2>1, <2>2 DEF TypeOK
  <2>4. /\ flow'[f].pc = "remove" /\ flow'[f].other = flow[f].other
        /\ \A g \in Flows \ {f} : flow'[g] = flow[g]
    BY <1>3, <2>1
  <2> QED
    BY <2>1, <2>2, <2>3, <2>4, OneHandlerMoves DEF Goal, At
<1>10. CASE RemoveOther(f)
  <2>1. /\ At(f, "remove") /\ UNCHANGED <<sock, wrapperVars, clean>>
        /\ cache' \in {cache, NoConn}
        /\ Become(f, [flow[f] EXCEPT !.pc = "set", !.other = NoConn])
    BY <1>10 DEF RemoveOther, Removed
  <2>2. [flow[f] EXCEPT !.pc = "set", !.other = NoConn].pc = "set"
    BY <1>1 DEF Flow
  <2>3. flow'[f].pc = "set" /\ \A g \in Flows \ {f} : flow'[g] = flow[g]
    BY <1>2, <2>1, <2>2
  <2> QED
    BY <2>1, <2>3, OneHandlerMoves DEF Goal, At, wrapperVars
<1>11. CASE Set(f)
  <2>1. At(f, "set") /\ UNCHANGED <<sock, wrapperVars, clean>>
    BY <1>11 DEF Set
  <2>2. CASE Finish(f) /\ UNCHANGED cache
    BY <2>1, <2>2, <1>4, LeavesEntry DEF Goal, At, wrapperVars
  <2>3. CASE /\ cache' = flow[f].c
             /\ Become(f, [flow[f] EXCEPT !.pc = "assign", !.other = NoConn])
    <3>1. /\ flow'[f] = [flow[f] EXCEPT !.pc = "assign", !.other = NoConn]
          /\ \A g \in Flows \ {f} : flow'[g] = flow[g]
      BY <1>2, <2>3
    <3>2. flow'[f].pc = "assign" /\ flow'[f].c = flow[f].c
      BY <1>1, <3>1 DEF Flow
    <3> QED
      BY <2>1, <2>3, <3>1, <3>2, OneHandlerMoves DEF Goal, At, wrapperVars
  <2> QED
    BY <1>11, <2>2, <2>3 DEF Set
<1>12. CASE Assign(f)
  <2>1. /\ At(f, "assign") /\ UNCHANGED <<sock, closed, keyed, cache, clean>>
        /\ assigned' = [assigned EXCEPT ![flow[f].c] = TRUE]
        /\ Finish(f) \/ GoTo(f, "end")
    BY <1>12 DEF Assign
  <2>2. flow[f].c \in Conns
    BY <1>0, <2>1 DEF HandlersHaveConnection, At
  <2>3. assigned'[flow[f].c] /\ \A c \in Conns : assigned[c] => assigned'[c]
    BY <1>0, <2>1, <2>2 DEF TypeOK
  <2>4. flow'[f].pc \in {"idle", "end"} /\ \A g \in Flows \ {f} : flow'[g] = flow[g]
    BY <2>1, <1>3, <1>4
  <2> QED
    BY <2>1, <2>3, <2>4, OneHandlerMoves DEF Goal
<1>13. CASE HandleAndEnd(f)
  BY <1>13, <1>4, LeavesEntry DEF Goal, HandleAndEnd, At, wrapperVars
<1> QED
  BY <1>5, <1>6, <1>7, <1>8, <1>9, <1>10, <1>11, <1>12, <1>13 DEF Advance, Goal

(* The end of initialize(): the connection it found in the cache is one.   *)
LEMMA InitializedKeepsEntry ==
  ASSUME EntryInv, NEW c \in Conns, Initialized(c)
  PROVE  OthersClosed' /\ LeaversClosed' /\ CacheRemovable'
<1>0. TypeOK /\ OthersClosed /\ LeaversClosed /\ CacheRemovable
  BY DEF EntryInv, ConnInv
<1>1. flow \in [Flows -> Flow] /\ flow[c] \in Flow /\ c \in Flows
  BY <1>0 DEF TypeOK, Flows
<1>2. At(c, "init") /\ UNCHANGED <<sock, assigned, cache, clean>>
  BY DEF Initialized, Reject, ClosedDuringInit, Accept, wrapperVars
<1>3. \A d \in Conns : closed[d] => closed'[d]
  BY <1>0 DEF Initialized, Reject, ClosedDuringInit, Accept, wrapperVars, TypeOK
<1>4. CASE GoTo(c, "end")
  <2>1. /\ flow'[c] = [flow[c] EXCEPT !.pc = "end"]
        /\ \A g \in Flows \ {c} : flow'[g] = flow[g]
    BY <1>1, <1>4, Gone
  <2>2. flow'[c].pc = "end"
    BY <1>1, <2>1 DEF Flow
  <2> QED
    BY <1>1, <1>2, <1>3, <2>1, <2>2, OneHandlerMoves DEF At
<1>5. CASE Become(c, [flow[c] EXCEPT !.pc = "set", !.known = TRUE])
  <2>1. /\ flow'[c] = [flow[c] EXCEPT !.pc = "set", !.known = TRUE]
        /\ \A g \in Flows \ {c} : flow'[g] = flow[g]
    BY <1>1, <1>5, Moved
  <2>2. flow'[c].pc = "set"
    BY <1>1, <2>1 DEF Flow
  <2> QED
    BY <1>1, <1>2, <1>3, <2>1, <2>2, OneHandlerMoves DEF At
<1>6. CASE /\ cache # NoConn
           /\ Become(c, [flow[c] EXCEPT !.pc = "close", !.other = cache, !.known = TRUE])
  <2>1. /\ flow'[c] = [flow[c] EXCEPT !.pc = "close", !.other = cache, !.known = TRUE]
        /\ \A g \in Flows \ {c} : flow'[g] = flow[g]
    BY <1>1, <1>6, Moved
  <2>2. flow'[c].pc = "close" /\ flow'[c].other = cache
    BY <1>1, <2>1 DEF Flow
  <2>3. cache \in Conns
    BY <1>0, <1>6 DEF TypeOK
  <2> QED
    BY <1>1, <1>2, <1>3, <2>1, <2>2, <2>3, OneHandlerMoves DEF At
<1> QED
  BY <1>4, <1>5, <1>6 DEF Initialized, Reject, ClosedDuringInit, Accept

(* A handler that begins has not found another connection yet.             *)
LEMMA EnterRecord ==
  ASSUME flow \in [Flows -> Flow], NEW f \in Flows, NEW kind, NEW c, Enter(f, kind, c)
  PROVE  /\ flow'[f].pc \in {"wait", "init", "check"}
         /\ \A g \in Flows \ {f} : flow'[g] = flow[g]
         /\ flow[f].pc = "idle"
<1>1. PICK step \in {"wait", Work(kind)} :
        Become(f, [[Idle EXCEPT !.kind = kind, !.c = c] EXCEPT !.pc = step])
  BY DEF Enter
<1>2. /\ flow'[f] = [[Idle EXCEPT !.kind = kind, !.c = c] EXCEPT !.pc = step]
      /\ \A g \in Flows \ {f} : flow'[g] = flow[g]
  BY <1>1, Moved
<1>3. flow'[f].pc = step
  BY <1>2 DEF Idle
<1> QED
  BY <1>2, <1>3 DEF Work, Enter, At

(* A connection is used anew only when nothing refers to it any more.      *)
LEMMA OpenKeepsEntry ==
  ASSUME EntryInv, NEW c \in Conns, Open(c)
  PROVE  OthersClosed' /\ LeaversClosed' /\ CacheRemovable'
<1>0. TypeOK /\ OthersClosed /\ LeaversClosed /\ CacheRemovable
  BY DEF EntryInv, ConnInv
<1>1. /\ flow'[c].pc \in {"wait", "init", "check"} /\ flow[c].pc = "idle"
      /\ \A g \in Flows \ {c} : flow'[g] = flow[g]
  BY <1>0, EnterRecord DEF Open, TypeOK, Flows
<1>2. /\ cache # c /\ clean # c /\ \A f \in Flows : flow[f].other # c
      /\ UNCHANGED <<cache, clean>>
  BY DEF Open, Unused
<1>3. /\ \A d \in Conns \ {c} : /\ sock'[d] = sock[d] /\ closed'[d] = closed[d]
                                /\ assigned'[d] = assigned[d]
      /\ sock'[c] = "up"
  BY <1>0 DEF Open, TypeOK
<1>4. OthersClosed'
  <2> SUFFICES ASSUME NEW g \in Flows
               PROVE  /\ flow'[g].pc \in {"ping", "close", "remove"} => flow'[g].other \in Conns
                      /\ flow'[g].pc = "remove" => closed'[flow'[g].other]
    BY DEF OthersClosed
  <2>1. CASE g = c
    BY <1>1, <2>1
  <2>2. CASE g # c
    BY <1>0, <1>1, <1>2, <1>3, <2>2 DEF OthersClosed
  <2> QED
    BY <2>1, <2>2
<1>5. LeaversClosed'
  BY <1>0, <1>2, <1>3 DEF LeaversClosed, TypeOK
<1>6. CacheRemovable'
  <2>1. CASE cache = NoConn
    BY <1>2, <2>1 DEF CacheRemovable
  <2>2. CASE cache # NoConn /\ assigned[cache]
    <3>1. cache \in Conns \ {c}
      BY <1>0, <1>2, <2>2 DEF TypeOK
    <3> QED
      BY <1>2, <1>3, <2>2, <3>1 DEF CacheRemovable
  <2>3. CASE \E f \in Flows : At(f, "assign") /\ flow[f].c = cache
    <3>1. PICK f \in Flows : At(f, "assign") /\ flow[f].c = cache
      BY <2>3
    <3>2. f # c
      BY <1>1, <3>1 DEF At
    <3> QED
      BY <1>1, <1>2, <3>1, <3>2 DEF CacheRemovable, At
  <2> QED
    BY <1>0, <2>1, <2>2, <2>3 DEF CacheRemovable
<1> QED
  BY <1>4, <1>5, <1>6

LEMMA NextEntryInv ==
  ASSUME EntryInv, [Next]_vars
  PROVE  EntryInv'
<1>0. TypeOK /\ OthersClosed /\ LeaversClosed /\ CacheRemovable
  BY DEF EntryInv, ConnInv
<1>c. ConnInv'
  BY NextConnInv DEF EntryInv
<1> DEFINE Goal == OthersClosed' /\ LeaversClosed' /\ CacheRemovable'
<1>1. ASSUME NEW f \in Flows, Advance(f) PROVE Goal
  BY <1>1, AdvanceKeepsEntry
<1>2. ASSUME NEW c \in Conns, Open(c) PROVE Goal
  BY <1>2, OpenKeepsEntry
<1>3. ASSUME NEW c \in Conns, Initialized(c) PROVE Goal
  BY <1>3, InitializedKeepsEntry
<1>4. ASSUME NEW m \in Messages, NEW c \in Conns, NEW kind, Message(m, c, kind) PROVE Goal
  <2>1. m \in Flows /\ UNCHANGED <<sock, wrapperVars, cache, clean>> /\ Enter(m, kind, c)
    BY <1>4 DEF Message, Flows
  <2>2. /\ flow'[m].pc \in {"wait", "init", "check"} /\ flow[m].pc = "idle"
        /\ \A g \in Flows \ {m} : flow'[g] = flow[g]
    BY <1>0, <2>1, EnterRecord DEF TypeOK
  <2> QED
    BY <2>1, <2>2, LeavesEntry DEF wrapperVars, At
<1>5. ASSUME NEW c \in Conns, CloseEvent(c) PROVE Goal
  <2>1. /\ UNCHANGED <<assigned, cache, flow, clean>>
        /\ sock' = [sock EXCEPT ![c] = "closing"] /\ closed' = [closed EXCEPT ![c] = TRUE]
    BY <1>5 DEF CloseEvent
  <2>2. \A d \in Conns : /\ closed[d] => closed'[d]
                         /\ sock'[d] = "closing" => d = c \/ sock[d] = "closing"
    BY <1>0, <2>1 DEF TypeOK
  <2>3. closed'[c]
    BY <1>0, <2>1 DEF TypeOK
  <2>4. OthersClosed'
    BY <1>0, <2>1, <2>2 DEF OthersClosed
  <2>5. LeaversClosed'
    BY <1>0, <2>1, <2>2, <2>3 DEF LeaversClosed, TypeOK
  <2>6. CacheRemovable'
    BY <1>0, <2>1 DEF CacheRemovable, At
  <2> QED
    BY <2>4, <2>5, <2>6
<1>6. ASSUME UNCHANGED <<closed, assigned, flow>>, cache' \in {cache, NoConn},
             \A d \in Conns : sock'[d] = "closing" => sock[d] = "closing",
             clean' # NoConn => closed[clean']
      PROVE  Goal
  <2>1. OthersClosed' /\ LeaversClosed'
    BY <1>0, <1>6 DEF OthersClosed, LeaversClosed
  <2>2. CacheRemovable'
    BY <1>0, <1>6 DEF CacheRemovable, At
  <2> QED
    BY <2>1, <2>2
<1>7. ASSUME NEW c \in Conns, RemoveClosed(c) PROVE Goal
  <2>1. /\ UNCHANGED <<closed, assigned, flow, clean>> /\ cache' \in {cache, NoConn}
        /\ sock' = [sock EXCEPT ![c] = "down"]
    BY <1>7 DEF RemoveClosed, Removed, wrapperVars
  <2>2. \A d \in Conns : sock'[d] = "closing" => sock[d] = "closing"
    BY <1>0, <2>1 DEF TypeOK
  <2> QED
    BY <1>0, <1>6, <2>1, <2>2 DEF LeaversClosed
<1>8. ASSUME CleanupPing PROVE Goal
  <2>1. /\ UNCHANGED <<sock, closed, assigned, flow, cache>>
        /\ clean' # NoConn => closed[clean']
    BY <1>8 DEF CleanupPing, GivenUp
  <2> QED
    BY <1>6, <2>1
<1>9. ASSUME CleanupRemove PROVE Goal
  <2>1. /\ UNCHANGED <<sock, closed, assigned, flow>> /\ cache' \in {cache, NoConn}
        /\ clean' = NoConn
    BY <1>9 DEF CleanupRemove, Removed, wrapperVars
  <2> QED
    BY <1>6, <2>1
<1>10. ASSUME UNCHANGED vars PROVE Goal
  BY <1>0, <1>6, <1>10 DEF vars, wrapperVars, LeaversClosed
<1>11. Goal
  BY <1>1, <1>2, <1>3, <1>4, <1>5, <1>7, <1>8, <1>9, <1>10 DEF Next
<1> QED
  BY <1>c, <1>11 DEF EntryInv

LEMMA AlwaysEntryInv == Spec => []EntryInv
  BY InitEntryInv, NextEntryInv, PTL DEF Spec

(* What is in the cache can be taken out again: no connection is cached    *)
(* that removeWSWrapper() would not find through its wrapper, except while *)
(* the handler that cached it is about to note it there.                   *)
THEOREM ConnectionCacheRemovable == Spec => []CacheRemovable
  BY AlwaysEntryInv, PTL DEF EntryInv

(* No handler, close event or check takes a connection out of the cache    *)
(* that has not been closed, whatever happened while it was waiting.       *)
THEOREM ConnectionOnlyClosedLeave == Spec => OnlyClosedLeave
<1>1. ASSUME EntryInv, [Next]_vars, cache # NoConn, cache' = NoConn PROVE closed[cache]
  <2>0. TypeOK /\ HandlersHaveConnection /\ OthersClosed /\ LeaversClosed
    BY <1>1 DEF EntryInv, ConnInv
  <2>1. \A c : cache' = Removed(c) => cache = c
    BY <1>1 DEF Removed
  <2>2. ASSUME NEW f \in Flows, Advance(f) PROVE closed[cache]
    <3>1. CASE RemoveOther(f)
      <4>1. At(f, "remove") /\ cache' = Removed(flow[f].other)
        BY <3>1 DEF RemoveOther
      <4> QED
        BY <2>0, <2>1, <4>1 DEF OthersClosed, At
    <3>2. CASE Set(f)
      <4>1. flow[f].c \in Conns
        BY <2>0, <3>2 DEF Set, At, HandlersHaveConnection
      <4>2. NoConn \notin Conns
        BY OcppConnectionAssumption
      <4> QED
        BY <1>1, <3>2, <4>1, <4>2 DEF Set
    <3>3. CASE UNCHANGED cache
      BY <1>1, <3>3
    <3> QED
      BY <2>2, <3>1, <3>2, <3>3
      DEF Advance, Wait, Take, Check, PingOther, CloseOther, Assign, HandleAndEnd
  <2>3. ASSUME NEW c \in Conns, RemoveClosed(c) PROVE closed[cache]
    BY <2>0, <2>1, <2>3 DEF RemoveClosed, LeaversClosed
  <2>4. CASE CleanupRemove
    BY <2>0, <2>1, <2>4 DEF CleanupRemove, LeaversClosed
  <2>5. CASE UNCHANGED cache
    BY <1>1, <2>5
  <2> QED
    BY <1>1, <2>2, <2>3, <2>4, <2>5
    DEF Next, vars, Open, Message, CloseEvent, CleanupPing,
        Initialized, Reject, ClosedDuringInit, Accept
<1>2. EntryInv /\ [Next]_vars => [cache # NoConn /\ cache' = NoConn => closed[cache]]_vars
  BY <1>1
<1> QED
  BY <1>2, AlwaysEntryInv, PTL DEF Spec, OnlyClosedLeave
=============================================================================
