-------------------------- MODULE IrisSocketProofs --------------------------
(***************************************************************************)
(* For any number of connections and attempts: somebody listens or makes a *)
(* connection (NeverDeaf), nobody reads after Close (QuietAfterClose), and *)
(* while only listeners drop connections there is one of them              *)
(* (SoleListener).                                                         *)
(*                                                                         *)
(* NeverDeaf is not inductive: a listener that finds ws.conn nil ends      *)
(* without a word.  CaredFor says that whoever cleared ws.conn is about to *)
(* ask for a new one.  SoleListener needs what becomes of a connection on  *)
(* the way from its listener to the reconnector and back: OneToken,        *)
(* CurrentServed, OpenKnown.                                               *)
(***************************************************************************)
EXTENDS IrisSocket, FiniteSetTheorems, TLAPS

\* The goroutine of connection c, its listener or its reconnector, is there.
Busy(c) == pc[Listen(c)] \notin {"none", "gone"}

\* Nothing has been started before Connect.
Dormant ==
    pc[Main] = "connect" =>
        /\ conn = None
        /\ \A c \in Conn : /\ line[c] = "unused"
                           /\ pc[Listen(c)] = "none"
                           /\ pc[Ping(c)] = "none"
        /\ \A n \in Attempt : waiting[n] = 0

\* Someone is on the way to a new connection.
Recovering ==
    \/ \E c \in Conn : pc[Listen(c)] = "dialled"
    \/ \E n \in Attempt : waiting[n] > 0
    \/ \E c \in Conn : pc[Ping(c)] \in Dropping \/ pc[Listen(c)] \in Dropping

CaredFor == Running /\ ~exhausted /\ conn = None => Recovering

\* Someone is on the way to a new connection, or listens.
Heard == Running /\ ~exhausted =>
            Recovering \/ \E c \in Conn : pc[Listen(c)] \notin Absent

OneToken ==
    Running /\ calm =>
        /\ \A c, d \in Conn : Busy(c) /\ Busy(d) => c = d
        /\ \A c \in Conn, n \in Attempt : Busy(c) => waiting[n] = 0
        /\ \A n, m \in Attempt : waiting[n] > 0 /\ waiting[m] > 0 => n = m
        /\ \A n \in Attempt : waiting[n] <= 1

CalmPings == Running /\ calm => \A c \in Conn : pc[Ping(c)] \notin Dropping

\* What is open is current, or about to be.
OpenKnown ==
    Running /\ calm =>
        \A c \in Conn : line[c] \in {"up", "stalled"} =>
            c = conn \/ pc[Listen(c)] = "dialled"

\* Who reads, reads the current connection; who reconnects has left none.
CurrentServed ==
    Running /\ calm =>
        /\ \A n \in Attempt : waiting[n] > 0 => conn = None
        /\ \A c \in Conn :
              /\ pc[Listen(c)] \in {"dialled", "sched"} => conn = None
              /\ pc[Listen(c)] = "read" => held[Listen(c)] = conn
              /\ pc[Listen(c)] \in {"drop", "closing", "clear"}
                    => conn = None \/ line[conn] = "down"

Calm == OneToken /\ CalmPings /\ OpenKnown /\ CurrentServed

IInv == TypeOK /\ Dormant /\ CaredFor /\ Heard /\ Calm /\ QuietAfterClose

-----------------------------------------------------------------------------
\* The goroutines are different processes, and there are no others.
LEMMA Names ==
    /\ Main \in Proc
    /\ \A c \in Conn : /\ Listen(c) \in Proc /\ Ping(c) \in Proc
                       /\ Listen(c) # Main /\ Ping(c) # Main
                       /\ c # None
    /\ \A c, d \in Conn : /\ Listen(c) # Ping(d)
                          /\ Listen(c) = Listen(d) => c = d
                          /\ Ping(c) = Ping(d) => c = d
    /\ \A p \in Proc : \/ p = Main
                       \/ \E c \in Conn : p = Listen(c) \/ p = Ping(c)
    /\ 1 \in Conn /\ 1 \in Attempt
  BY BoundAssumption DEF Main, Proc, Listen, Ping, Conn, Attempt, None

\* Where closeConn and scheduleReconnect lead to.
LEMMA Ways ==
    /\ AfterClose(Main) = "wait"
    /\ \A p \in Proc : p # Main => AfterClose(p) = "sched"
    /\ \A c \in Conn : Onwards(Listen(c)) = "gone" /\ Onwards(Ping(c)) = "tick"
  BY Names DEF AfterClose, Onwards, Listen, Ping

\* A goroutine that moves leaves the others where they are.
LEMMA Moved ==
    ASSUME TypeOK, NEW p \in Proc, NEW to, Goto(p, to)
    PROVE  pc'[p] = to /\ \A q \in Proc : q # p => pc'[q] = pc[q]
  BY DEF TypeOK, Goto

\* Next, action by action.
LEMMA Steps ==
    ASSUME Next
    PROVE  \/ Connect \/ ConnectFails \/ Stop \/ Waited \/ Exit
           \/ \E c \in Conn : \/ Adopt(c) \/ Network(c)
                              \/ Look(c) \/ Deliver(c) \/ ReadFails(c)
                              \/ Tick(c) \/ TickStop(c) \/ Pong(c) \/ PingFails(c)
                              \/ Use(Listen(c), "load", "read")
                              \/ Use(Ping(c), "ping", "pong")
                              \/ ScheduleReconnect(Listen(c))
                              \/ ScheduleReconnect(Ping(c))
           \/ \E p \in Proc : CheckConn(p) \/ CloseConn(p) \/ ClearConn(p)
           \/ \E n \in Attempt : \/ RetryStops(n) \/ RetryFails(n)
                                 \/ \E c \in Conn : RetryDials(n, c)
<1>1. CASE \E c \in Conn : Listens(c) \/ Pings(c)
  BY <1>1, Names DEF Listens, Pings, Drops
<1>2. CASE Closes
  BY <1>2, Names DEF Closes, Drops
<1>3. CASE \E n \in Attempt : Retries(n)
  BY <1>3 DEF Retries
<1>4. QED
  BY <1>1, <1>2, <1>3 DEF Next

-----------------------------------------------------------------------------
\* A process that has died is in order.
LEMMA DieInv == ASSUME IInv, Die PROVE IInv'
<1>1. TypeOK'
  <2>1. /\ conn' \in Conn \cup {None}
        /\ line' \in [Conn -> {"unused", "up", "stalled", "down"}]
        /\ pc' \in [Proc -> PC]
        /\ held' \in [Proc -> Conn \cup {None}]
        /\ fails' \in [Conn -> 0..1]
        /\ waiting' \in [Attempt -> Nat]
    BY DEF Die, PC, Absent
  <2>2. QED
    BY <2>1 DEF Die, history, IInv, TypeOK
<1>2. pc'[Main] = "gone"
  BY Names DEF Die
<1>3. QED
  BY <1>1, <1>2 DEF IInv, Dormant, CaredFor, Heard, Calm, OneToken, CalmPings,
                    OpenKnown, CurrentServed, QuietAfterClose, Running

\* A step that moves one goroutine and changes nothing else that matters.
LEMMA TypeInv == ASSUME IInv, Next PROVE TypeOK'
<1> USE Names DEF IInv
<1>1. CASE Connect
  BY <1>1 DEF Connect, TypeOK, history, PC
<1>2. CASE ConnectFails \/ Exit
  BY <1>2, DieInv DEF ConnectFails, Exit
<1>3. CASE Stop
  BY <1>3 DEF Stop, TypeOK, history, PC, Goto, Dropping
<1>4. CASE Waited
  BY <1>4 DEF Waited, TypeOK, history, PC, Goto
<1>5. ASSUME NEW c \in Conn, Adopt(c) PROVE TypeOK'
  BY <1>5 DEF Adopt, TypeOK, history, PC
<1>6. ASSUME NEW c \in Conn, Network(c) PROVE TypeOK'
  BY <1>6 DEF Network, TypeOK, history
<1>7. ASSUME NEW c \in Conn, Look(c) \/ Tick(c) \/ TickStop(c) PROVE TypeOK'
  BY <1>7 DEF Look, Tick, TickStop, TypeOK, history, PC, Goto, Absent
<1>8. ASSUME NEW c \in Conn, Deliver(c) \/ ReadFails(c) PROVE TypeOK'
  BY <1>8 DEF Deliver, ReadFails, TypeOK, history, PC, Goto, Absent, Dropping, Hold
<1>9. ASSUME NEW c \in Conn, Pong(c) PROVE TypeOK'
  BY <1>9 DEF Pong, TypeOK, history, PC, Goto, Hold
<1>10. ASSUME NEW c \in Conn, PingFails(c) PROVE TypeOK'
  <2>1. pc' \in [Proc -> PC] /\ held' \in [Proc -> Conn \cup {None}]
    BY <1>10 DEF PingFails, TypeOK, Goto, Hold, PC, Absent, Dropping
  <2>2. fails' \in [Conn -> 0..1]
    <3>1. (IF Enough(c) THEN 0 ELSE Failure(c)) \in 0..1
      BY DEF Enough, Failure, TypeOK
    <3>2. QED
      BY <3>1, <1>10 DEF PingFails, TypeOK
  <2>3. calm' \in BOOLEAN
    BY <1>10 DEF PingFails, TypeOK
  <2>4. QED
    BY <1>10, <2>1, <2>2, <2>3 DEF PingFails, TypeOK
<1>11. ASSUME NEW p \in Proc, NEW from, NEW to \in PC, Use(p, from, to)
       PROVE  TypeOK'
  BY <1>11, DieInv DEF Use, TypeOK, history, Goto, Hold
<1>12. ASSUME NEW p \in Proc, CheckConn(p) \/ ClearConn(p) PROVE TypeOK'
  BY <1>12 DEF CheckConn, ClearConn, AfterClose, TypeOK, history, PC, Dropping, Goto
<1>13. ASSUME NEW p \in Proc, CloseConn(p) PROVE TypeOK'
  BY <1>13, DieInv DEF CloseConn, TypeOK, history, PC, Dropping, Goto
<1>14. ASSUME NEW p \in Proc, ScheduleReconnect(p) PROVE TypeOK'
  BY <1>14 DEF ScheduleReconnect, Again, Onwards, TypeOK, history, PC, Absent, Goto
<1>15. ASSUME NEW n \in Attempt, RetryStops(n) PROVE TypeOK'
  BY <1>15 DEF RetryStops, TypeOK, history
<1>16. ASSUME NEW n \in Attempt, RetryFails(n) PROVE TypeOK'
  <2>1. waiting' \in [Attempt -> Nat]
    BY <1>16 DEF RetryFails, TypeOK
  <2>2. exhausted' \in BOOLEAN
    BY <1>16 DEF RetryFails, TypeOK
  <2>3. QED
    BY <1>16, <2>1, <2>2 DEF RetryFails, TypeOK
<1>17. ASSUME NEW n \in Attempt, NEW c \in Conn, RetryDials(n, c) PROVE TypeOK'
  BY <1>17 DEF RetryDials, TypeOK, history, PC, Absent, Goto
<1>18. "read" \in PC /\ "pong" \in PC
  BY DEF PC
<1>19. QED
  BY <1>1, <1>2, <1>3, <1>4, <1>5, <1>6, <1>7, <1>8, <1>9, <1>10, <1>11, <1>12,
     <1>13, <1>14, <1>15, <1>16, <1>17, <1>18, Steps

LEMMA InitInv == Init => IInv
<1> SUFFICES ASSUME Init PROVE IInv
  OBVIOUS
<1> USE Names DEF Init
<1>1. TypeOK
  <2>1. pc \in [Proc -> PC]
    BY DEF PC, Absent
  <2>2. /\ line \in [Conn -> {"unused", "up", "stalled", "down"}]
        /\ held \in [Proc -> Conn \cup {None}]
        /\ fails \in [Conn -> 0..1]
        /\ waiting \in [Attempt -> Nat]
    OBVIOUS
  <2>3. QED
    BY <2>1, <2>2 DEF TypeOK
<1>2. pc[Main] = "connect"
  OBVIOUS
<1>3. Dormant
  BY DEF Dormant
<1>4. QED
  BY <1>1, <1>2, <1>3 DEF IInv, CaredFor, Heard, Calm, OneToken, CalmPings,
                          OpenKnown, CurrentServed, QuietAfterClose, Running

\* The steps that leave the goroutines where they are.
LEMMA NetworkInv ==
    ASSUME IInv, TypeOK', NEW c \in Conn, Network(c)
    PROVE  IInv'
<1> USE Names
<1>0. /\ UNCHANGED <<conn, pc, held, fails, waiting, exhausted, calm>>
      /\ \A b \in Conn : /\ line'[b] \in {"up", "stalled"} => line[b] \in {"up", "stalled"}
                         /\ line[b] = "down" => line'[b] = "down"
                         /\ line[b] = "unused" => line'[b] = "unused"
  BY DEF Network, history, IInv, TypeOK
<1>1. Dormant'
  BY <1>0 DEF IInv, Dormant
<1>2. (CaredFor /\ Heard)'
  BY <1>0 DEF IInv, CaredFor, Heard, Recovering, Running, Absent, Dropping
<1>3. OneToken'
  BY <1>0 DEF IInv, Calm, OneToken, Busy, Running
<1>4. CalmPings'
  BY <1>0 DEF IInv, Calm, CalmPings, Running, Dropping
<1>5. OpenKnown'
  BY <1>0 DEF IInv, Calm, OpenKnown, Running
<1>6. CurrentServed'
  BY <1>0 DEF IInv, TypeOK, Calm, CurrentServed, Running
<1>7. QuietAfterClose'
  BY <1>0 DEF IInv, QuietAfterClose, Absent
<1>8. QED
  BY <1>1, <1>2, <1>3, <1>4, <1>5, <1>6, <1>7 DEF IInv, Calm

LEMMA RetryStopsInv ==
    ASSUME IInv, TypeOK', NEW n \in Attempt, RetryStops(n)
    PROVE  IInv'
<1> USE Names
<1>0. /\ UNCHANGED <<conn, line, pc, held, fails, exhausted, calm>>
      /\ pc[Main] \notin {"connect", "run"}
      /\ \A m \in Attempt : waiting'[m] <= waiting[m] /\ waiting'[m] \in Nat
  BY DEF RetryStops, history, Stopping, IInv, TypeOK
<1>1. Dormant'
  BY <1>0 DEF Dormant
<1>2. (CaredFor /\ Heard)'
  BY <1>0 DEF CaredFor, Heard, Recovering, Running, Absent, Dropping
<1>3. OneToken'
  BY <1>0 DEF OneToken, Busy, Running
<1>4. CalmPings'
  BY <1>0 DEF CalmPings, Running, Dropping
<1>5. OpenKnown'
  BY <1>0 DEF OpenKnown, Running
<1>6. CurrentServed'
  BY <1>0 DEF CurrentServed, Running
<1>7. QuietAfterClose'
  BY <1>0 DEF IInv, QuietAfterClose, Absent
<1>8. QED
  BY <1>1, <1>2, <1>3, <1>4, <1>5, <1>6, <1>7 DEF IInv, Calm

LEMMA RetryFailsInv ==
    ASSUME IInv, TypeOK', NEW n \in Attempt, RetryFails(n)
    PROVE  IInv'
<1> USE Names
<1>0. /\ UNCHANGED <<conn, line, pc, held, fails, calm>>
      /\ waiting[n] > 0
      /\ waiting'[n] = waiting[n] - 1
      /\ \A m \in Attempt : /\ m = n + 1 => waiting'[m] = waiting[m] + 1
                            /\ m # n /\ m # n + 1 => waiting'[m] = waiting[m]
      /\ exhausted' = (exhausted \/ n = MaxAttempts)
      /\ n # MaxAttempts => n + 1 \in Attempt
      /\ n \in Nat
  BY BoundAssumption DEF RetryFails, history, IInv, TypeOK, Attempt
<1>1. Dormant'
  BY <1>0 DEF IInv, Dormant
<1>2. (CaredFor /\ Heard)'
  <2>1. CASE n = MaxAttempts
    BY <1>0, <2>1 DEF CaredFor, Heard
  <2>2. CASE n # MaxAttempts
    <3>1. n + 1 \in Attempt /\ waiting'[n + 1] = waiting[n + 1] + 1
      BY <1>0, <2>2
    <3>2. waiting'[n + 1] > 0
      BY <3>1 DEF IInv, TypeOK
    <3>3. QED
      BY <3>1, <3>2 DEF CaredFor, Heard, Recovering
  <2>3. QED
    BY <2>1, <2>2
<1>3. OneToken'
  BY <1>0 DEF IInv, TypeOK, Calm, OneToken, Busy, Running
<1>4. CalmPings'
  BY <1>0 DEF IInv, Calm, CalmPings, Running, Dropping
<1>5. OpenKnown'
  BY <1>0 DEF IInv, Calm, OpenKnown, Running
<1>6. CurrentServed'
  BY <1>0 DEF IInv, Calm, CurrentServed, Running
<1>7. QuietAfterClose'
  BY <1>0 DEF IInv, QuietAfterClose, Absent
<1>8. QED
  BY <1>1, <1>2, <1>3, <1>4, <1>5, <1>6, <1>7 DEF IInv, Calm

LEMMA RetryDialsInv ==
    ASSUME IInv, TypeOK', NEW n \in Attempt, NEW c \in Conn, RetryDials(n, c)
    PROVE  IInv'
<1> USE Names
<1>0. /\ UNCHANGED <<conn, held, fails, exhausted, calm>>
      /\ pc[Main] # "done"
      /\ waiting[n] > 0
      /\ waiting'[n] = waiting[n] - 1
      /\ \A m \in Attempt : m # n => waiting'[m] = waiting[m]
      /\ line'[c] = "up"
      /\ line[c] = "unused"
      /\ \A b \in Conn : b # c => line'[b] = line[b]
      /\ pc'[Listen(c)] = "dialled"
      /\ \A q \in Proc : q # Listen(c) => pc'[q] = pc[q]
  BY Moved DEF RetryDials, Dialled, history, IInv, TypeOK
<1>1. Dormant'
  BY <1>0 DEF IInv, Dormant
<1>2. (CaredFor /\ Heard)'
  BY <1>0 DEF CaredFor, Heard, Recovering, Running, Absent, Dropping
<1>3. OneToken'
  <2> SUFFICES ASSUME Running', calm'
               PROVE  OneToken'
    BY DEF OneToken
  <2>1. Running /\ calm
    BY <1>0 DEF Running
  <2>2. \A b \in Conn : ~Busy(b)
    BY <1>0, <2>1 DEF IInv, Calm, OneToken
  <2>3. \A m \in Attempt : waiting'[m] = 0
    <3>1. \A m \in Attempt : waiting[m] \in Nat /\ waiting[m] <= 1
      BY <2>1 DEF IInv, TypeOK, Calm, OneToken
    <3>2. \A m \in Attempt : m # n => ~(waiting[m] > 0)
      BY <1>0, <2>1 DEF IInv, Calm, OneToken
    <3>3. QED
      BY <1>0, <3>1, <3>2
  <2>4. \A b \in Conn : Busy(b)' => b = c
    BY <1>0, <2>2 DEF Busy
  <2>5. QED
    BY <2>3, <2>4 DEF OneToken
<1>4. CalmPings'
  BY <1>0 DEF IInv, Calm, CalmPings, Running, Dropping
<1>5. OpenKnown'
  BY <1>0 DEF IInv, Calm, OpenKnown, Running
<1>6. CurrentServed'
  BY <1>0 DEF IInv, Calm, CurrentServed, Running
<1>7. QuietAfterClose'
  BY <1>0 DEF QuietAfterClose, Absent
<1>8. QED
  BY <1>1, <1>2, <1>3, <1>4, <1>5, <1>6, <1>7 DEF IInv, Calm

LEMMA ConnectInv ==
    ASSUME IInv, TypeOK', Connect
    PROVE  IInv'
<1> USE Names
<1>0. /\ UNCHANGED <<held, fails, waiting, exhausted, calm>>
      /\ pc[Main] = "connect"
      /\ pc'[Main] = "run"
      /\ conn' = 1
      /\ line'[1] = "up"
      /\ \A b \in Conn : b # 1 => line'[b] = line[b]
      /\ pc'[Listen(1)] = "look" /\ pc'[Ping(1)] = "tick"
      /\ \A q \in Proc \ {Main, Listen(1), Ping(1)} : pc'[q] = pc[q]
  BY DEF Connect, At, history, IInv, TypeOK
<1>1. Dormant'
  BY <1>0 DEF Dormant
<1>2. (CaredFor /\ Heard)'
  BY <1>0 DEF CaredFor, Heard, Recovering, Running, Absent, Dropping
<1>3. OneToken'
  BY <1>0 DEF IInv, TypeOK, Dormant, OneToken, Busy, Running
<1>4. CalmPings'
  BY <1>0 DEF IInv, TypeOK, Dormant, CalmPings, Running, Dropping
<1>5. OpenKnown'
  BY <1>0 DEF IInv, TypeOK, Dormant, OpenKnown, Running
<1>6. CurrentServed'
  BY <1>0 DEF IInv, TypeOK, Dormant, CurrentServed, Running
<1>7. QuietAfterClose'
  BY <1>0 DEF QuietAfterClose, Absent
<1>8. QED
  BY <1>1, <1>2, <1>3, <1>4, <1>5, <1>6, <1>7 DEF IInv, Calm

LEMMA AdoptInv ==
    ASSUME IInv, TypeOK', NEW c \in Conn, Adopt(c)
    PROVE  IInv'
<1> USE Names
<1>0. /\ UNCHANGED <<line, held, fails, waiting, exhausted, calm>>
      /\ pc[Listen(c)] = "dialled"
      /\ conn' = c
      /\ pc'[Listen(c)] = "look" /\ pc'[Ping(c)] = "tick"
      /\ \A q \in Proc \ {Listen(c), Ping(c)} : pc'[q] = pc[q]
  BY DEF Adopt, At, history, IInv, TypeOK
<1>1. Dormant'
  BY <1>0 DEF IInv, Dormant
<1>2. (CaredFor /\ Heard)'
  BY <1>0 DEF CaredFor, Heard, Recovering, Running, Absent, Dropping
<1>3. OneToken'
  BY <1>0 DEF IInv, Calm, OneToken, Busy, Running
<1>4. CalmPings'
  BY <1>0 DEF IInv, Calm, CalmPings, Running, Dropping
<1>5. (OpenKnown /\ CurrentServed)'
  <2> SUFFICES ASSUME Running', calm'
               PROVE  (OpenKnown /\ CurrentServed)'
    BY DEF OpenKnown, CurrentServed
  <2>1. Running /\ calm
    BY <1>0 DEF Running
  <2>2. Busy(c)
    BY <1>0 DEF Busy
  <2>3. /\ conn = None
        /\ \A b \in Conn : b # c => pc[Listen(b)] \in {"none", "gone"}
        /\ \A n \in Attempt : waiting[n] = 0
    BY <1>0, <2>1, <2>2 DEF IInv, Calm, OneToken, CurrentServed, Busy
  <2>4. \A b \in Conn : b # c => line[b] \notin {"up", "stalled"}
    BY <2>1, <2>3 DEF IInv, Calm, OpenKnown
  <2>5. OpenKnown'
    BY <1>0, <2>4 DEF OpenKnown
  <2>6. \A b \in Conn : b # c => pc'[Listen(b)] \in {"none", "gone"}
    BY <1>0, <2>3
  <2>7. CurrentServed'
    BY <1>0, <2>3, <2>6 DEF CurrentServed
  <2>8. QED
    BY <2>5, <2>7
<1>7. QuietAfterClose'
  BY <1>0 DEF IInv, QuietAfterClose, Absent
<1>8. QED
  BY <1>1, <1>2, <1>3, <1>4, <1>5, <1>7 DEF IInv, Calm

LEMMA LookInv ==
    ASSUME IInv, TypeOK', NEW c \in Conn, Look(c)
    PROVE  IInv'
<1> USE Names
<1>0. /\ UNCHANGED <<conn, line, held, fails, waiting, exhausted, calm>>
      /\ pc[Listen(c)] = "look"
      /\ pc'[Listen(c)] = IF pc[Main] \notin {"connect", "run"} \/ conn = None
                         THEN "gone" ELSE "load"
      /\ \A q \in Proc : q # Listen(c) => pc'[q] = pc[q]
  BY Moved DEF Look, At, Leaves, Stopping, history, IInv
<1>1. Dormant'
  BY <1>0 DEF IInv, Dormant
<1>2. (CaredFor /\ Heard)'
  BY <1>0 DEF IInv, CaredFor, Heard, Recovering, Running, Absent, Dropping
<1>3. OneToken'
  BY <1>0 DEF IInv, Calm, OneToken, Busy, Running
<1>4. CalmPings'
  BY <1>0 DEF IInv, Calm, CalmPings, Running, Dropping
<1>5. OpenKnown'
  BY <1>0 DEF IInv, Calm, OpenKnown, Running
<1>6. CurrentServed'
  BY <1>0 DEF IInv, Calm, CurrentServed, Running
<1>7. QuietAfterClose'
  BY <1>0 DEF IInv, QuietAfterClose, Absent
<1>8. QED
  BY <1>1, <1>2, <1>3, <1>4, <1>5, <1>6, <1>7 DEF IInv, Calm

LEMMA DeliverInv ==
    ASSUME IInv, TypeOK', NEW c \in Conn, Deliver(c)
    PROVE  IInv'
<1> USE Names
<1>0. /\ UNCHANGED <<conn, line, fails, waiting, exhausted, calm>>
      /\ pc[Listen(c)] = "read"
      /\ pc'[Listen(c)] = "look"
      /\ \A q \in Proc : q # Listen(c) => pc'[q] = pc[q] /\ held'[q] = held[q]
  BY Moved DEF Deliver, At, Hold, history, IInv, TypeOK
<1>1. Dormant'
  BY <1>0 DEF IInv, Dormant
<1>2. (CaredFor /\ Heard)'
  BY <1>0 DEF IInv, CaredFor, Heard, Recovering, Running, Absent, Dropping
<1>3. OneToken'
  BY <1>0 DEF IInv, Calm, OneToken, Busy, Running
<1>4. CalmPings'
  BY <1>0 DEF IInv, Calm, CalmPings, Running, Dropping
<1>5. OpenKnown'
  BY <1>0 DEF IInv, Calm, OpenKnown, Running
<1>6. CurrentServed'
  BY <1>0 DEF IInv, Calm, CurrentServed, Running
<1>7. QuietAfterClose'
  BY <1>0 DEF IInv, QuietAfterClose, Absent
<1>8. QED
  BY <1>1, <1>2, <1>3, <1>4, <1>5, <1>6, <1>7 DEF IInv, Calm

LEMMA ReadFailsInv ==
    ASSUME IInv, TypeOK', NEW c \in Conn, ReadFails(c)
    PROVE  IInv'
<1> USE Names
<1>0. /\ UNCHANGED <<conn, line, fails, waiting, exhausted, calm>>
      /\ pc[Listen(c)] = "read"
      /\ line[held[Listen(c)]] = "down"
      /\ pc'[Listen(c)] = IF pc[Main] \notin {"connect", "run"} THEN "gone" ELSE "drop"
      /\ \A q \in Proc : q # Listen(c) => pc'[q] = pc[q] /\ held'[q] = held[q]
  BY Moved DEF ReadFails, At, Hold, Stopping, history, IInv, TypeOK
<1>1. Dormant'
  BY <1>0 DEF IInv, Dormant
<1>2. (CaredFor /\ Heard)'
  BY <1>0 DEF CaredFor, Heard, Recovering, Running, Absent, Dropping
<1>3. OneToken'
  BY <1>0 DEF IInv, Calm, OneToken, Busy, Running
<1>4. CalmPings'
  BY <1>0 DEF IInv, Calm, CalmPings, Running, Dropping
<1>5. OpenKnown'
  BY <1>0 DEF IInv, Calm, OpenKnown, Running
<1>6. CurrentServed'
  BY <1>0 DEF IInv, Calm, CurrentServed, Running
<1>7. QuietAfterClose'
  BY <1>0 DEF IInv, QuietAfterClose, Absent
<1>8. QED
  BY <1>1, <1>2, <1>3, <1>4, <1>5, <1>6, <1>7 DEF IInv, Calm

LEMMA TickInv ==
    ASSUME IInv, TypeOK', NEW c \in Conn, Tick(c) \/ TickStop(c) \/ Pong(c)
    PROVE  IInv'
<1> USE Names
<1>0. /\ UNCHANGED <<conn, line, waiting, exhausted, calm>>
      /\ pc[Ping(c)] \in {"tick", "pong"}
      /\ pc'[Ping(c)] \in {"ping", "gone", "tick"}
      /\ \A q \in Proc : q # Ping(c) => pc'[q] = pc[q] /\ held'[q] = held[q]
  BY Moved DEF Tick, TickStop, Pong, At, Hold, history, IInv, TypeOK
<1>1. Dormant'
  BY <1>0 DEF IInv, Dormant
<1>2. (CaredFor /\ Heard)'
  BY <1>0 DEF IInv, CaredFor, Heard, Recovering, Running, Absent, Dropping
<1>3. OneToken'
  BY <1>0 DEF IInv, Calm, OneToken, Busy, Running
<1>4. CalmPings'
  BY <1>0 DEF IInv, Calm, CalmPings, Running, Dropping
<1>5. OpenKnown'
  BY <1>0 DEF IInv, Calm, OpenKnown, Running
<1>6. CurrentServed'
  BY <1>0 DEF IInv, Calm, CurrentServed, Running
<1>7. QuietAfterClose'
  BY <1>0 DEF IInv, QuietAfterClose, Absent
<1>8. QED
  BY <1>1, <1>2, <1>3, <1>4, <1>5, <1>6, <1>7 DEF IInv, Calm

LEMMA PingFailsInv ==
    ASSUME IInv, TypeOK', NEW c \in Conn, PingFails(c)
    PROVE  IInv'
<1> USE Names
<1>0. /\ UNCHANGED <<conn, line, waiting, exhausted>>
      /\ pc[Ping(c)] = "pong"
      /\ \/ pc'[Ping(c)] \in {"tick", "gone"} /\ calm' = calm
         \/ pc'[Ping(c)] = "drop" /\ ~calm'
      /\ \A q \in Proc : q # Ping(c) => pc'[q] = pc[q] /\ held'[q] = held[q]
  <2>1. \A q \in Proc : q # Ping(c) => pc'[q] = pc[q] /\ held'[q] = held[q]
    BY Moved DEF PingFails, Hold, IInv, TypeOK
  <2>2. pc'[Ping(c)] = IF ~Enough(c) THEN "tick"
                       ELSE IF Stopping THEN "gone" ELSE "drop"
    BY Moved DEF PingFails, IInv
  <2>3. calm \in BOOLEAN /\ calm' = (calm /\ (Stopping \/ ~Enough(c)))
    BY DEF PingFails, IInv, TypeOK
  <2>4. pc[Ping(c)] = "pong" /\ UNCHANGED <<conn, line, waiting, exhausted>>
    BY DEF PingFails, At
  <2>5. QED
    BY <2>1, <2>2, <2>3, <2>4
<1>1. Dormant'
  BY <1>0 DEF IInv, Dormant
<1>2. (CaredFor /\ Heard)'
  BY <1>0 DEF IInv, CaredFor, Heard, Recovering, Running, Absent, Dropping
<1>3. OneToken'
  BY <1>0 DEF IInv, Calm, OneToken, Busy, Running
<1>4. CalmPings'
  BY <1>0 DEF IInv, Calm, CalmPings, Running, Dropping
<1>5. OpenKnown'
  BY <1>0 DEF IInv, Calm, OpenKnown, Running
<1>6. CurrentServed'
  BY <1>0 DEF IInv, Calm, CurrentServed, Running
<1>7. QuietAfterClose'
  BY <1>0 DEF IInv, QuietAfterClose, Absent
<1>8. QED
  BY <1>1, <1>2, <1>3, <1>4, <1>5, <1>6, <1>7 DEF IInv, Calm

LEMMA ListenUseInv ==
    ASSUME IInv, TypeOK', NEW c \in Conn, Use(Listen(c), "load", "read"), conn # None
    PROVE  IInv'
<1> USE Names
<1>0. /\ UNCHANGED <<conn, line, fails, waiting, exhausted, calm>>
      /\ conn # None
      /\ pc[Listen(c)] = "load"
      /\ pc'[Listen(c)] = "read"
      /\ held'[Listen(c)] = conn
      /\ \A q \in Proc : q # Listen(c) => pc'[q] = pc[q] /\ held'[q] = held[q]
  BY Moved DEF Use, At, Hold, history, IInv, TypeOK
<1>1. Dormant'
  BY <1>0 DEF IInv, Dormant
<1>2. (CaredFor /\ Heard)'
  BY <1>0 DEF CaredFor, Heard, Recovering, Running, Absent, Dropping
<1>3. OneToken'
  BY <1>0 DEF IInv, Calm, OneToken, Busy, Running
<1>4. CalmPings'
  BY <1>0 DEF IInv, Calm, CalmPings, Running, Dropping
<1>5. OpenKnown'
  BY <1>0 DEF IInv, Calm, OpenKnown, Running
<1>6. CurrentServed'
  BY <1>0 DEF IInv, Calm, CurrentServed, Running
<1>7. QuietAfterClose'
  BY <1>0 DEF IInv, QuietAfterClose, Absent
<1>8. QED
  BY <1>1, <1>2, <1>3, <1>4, <1>5, <1>6, <1>7 DEF IInv, Calm

LEMMA PingUseInv ==
    ASSUME IInv, TypeOK', NEW c \in Conn, Use(Ping(c), "ping", "pong"), conn # None
    PROVE  IInv'
<1> USE Names
<1>0. /\ UNCHANGED <<conn, line, fails, waiting, exhausted, calm>>
      /\ conn # None
      /\ pc[Ping(c)] = "ping"
      /\ pc'[Ping(c)] = "pong"
      /\ held'[Ping(c)] = conn
      /\ \A q \in Proc : q # Ping(c) => pc'[q] = pc[q] /\ held'[q] = held[q]
  BY Moved DEF Use, At, Hold, history, IInv, TypeOK
<1>1. Dormant'
  BY <1>0 DEF IInv, Dormant
<1>2. (CaredFor /\ Heard)'
  BY <1>0 DEF IInv, CaredFor, Heard, Recovering, Running, Absent, Dropping
<1>3. OneToken'
  BY <1>0 DEF IInv, Calm, OneToken, Busy, Running
<1>4. CalmPings'
  BY <1>0 DEF IInv, Calm, CalmPings, Running, Dropping
<1>5. OpenKnown'
  BY <1>0 DEF IInv, Calm, OpenKnown, Running
<1>6. CurrentServed'
  BY <1>0 DEF IInv, Calm, CurrentServed, Running
<1>7. QuietAfterClose'
  BY <1>0 DEF IInv, QuietAfterClose, Absent
<1>8. QED
  BY <1>1, <1>2, <1>3, <1>4, <1>5, <1>6, <1>7 DEF IInv, Calm

LEMMA CheckConnInv ==
    ASSUME IInv, TypeOK', NEW p \in Proc, CheckConn(p)
    PROVE  IInv'
<1> USE Names
<1>0. /\ UNCHANGED <<conn, line, held, fails, waiting, exhausted, calm>>
      /\ pc[p] = "drop"
      /\ pc'[p] = IF conn # None THEN "closing"
                  ELSE IF p = Main THEN "wait" ELSE "sched"
      /\ \A q \in Proc : q # p => pc'[q] = pc[q]
  BY Moved, Ways DEF CheckConn, At, history, IInv
<1>1. Dormant'
  BY <1>0 DEF IInv, Dormant
<1>2. (CaredFor /\ Heard)'
  BY <1>0 DEF CaredFor, Heard, Recovering, Running, Absent, Dropping
<1>3. OneToken'
  BY <1>0 DEF IInv, Calm, OneToken, Busy, Running
<1>4. CalmPings'
  BY <1>0 DEF IInv, Calm, CalmPings, Running, Dropping
<1>5. OpenKnown'
  BY <1>0 DEF IInv, Calm, OpenKnown, Running
<1>6. CurrentServed'
  BY <1>0 DEF IInv, Calm, CurrentServed, Running
<1>7. QuietAfterClose'
  BY <1>0 DEF IInv, QuietAfterClose, Absent
<1>8. QED
  BY <1>1, <1>2, <1>3, <1>4, <1>5, <1>6, <1>7 DEF IInv, Calm

LEMMA CloseConnInv ==
    ASSUME IInv, TypeOK', NEW p \in Proc, CloseConn(p), conn # None
    PROVE  IInv'
<1> USE Names
<1>0. /\ UNCHANGED <<conn, held, fails, waiting, exhausted, calm>>
      /\ conn \in Conn
      /\ pc[p] = "closing"
      /\ pc'[p] = "clear"
      /\ line'[conn] = "down"
      /\ \A b \in Conn : b # conn => line'[b] = line[b]
      /\ \A q \in Proc : q # p => pc'[q] = pc[q]
  BY Moved DEF CloseConn, At, history, IInv, TypeOK
<1>1. Dormant'
  BY <1>0 DEF IInv, Dormant
<1>2. (CaredFor /\ Heard)'
  BY <1>0 DEF CaredFor, Heard, Recovering, Running, Absent, Dropping
<1>3. OneToken'
  BY <1>0 DEF IInv, Calm, OneToken, Busy, Running
<1>4. CalmPings'
  BY <1>0 DEF IInv, Calm, CalmPings, Running, Dropping
<1>5. OpenKnown'
  BY <1>0 DEF IInv, Calm, OpenKnown, Running
<1>6. CurrentServed'
  BY <1>0 DEF IInv, Calm, CurrentServed, Running
<1>7. QuietAfterClose'
  BY <1>0 DEF IInv, QuietAfterClose, Absent
<1>8. QED
  BY <1>1, <1>2, <1>3, <1>4, <1>5, <1>6, <1>7 DEF IInv, Calm

LEMMA ClearConnInv ==
    ASSUME IInv, TypeOK', NEW p \in Proc, ClearConn(p)
    PROVE  IInv'
<1> USE Names
<1>0. /\ UNCHANGED <<line, held, fails, waiting, exhausted, calm>>
      /\ pc[p] = "clear"
      /\ conn' = None
      /\ pc'[p] = IF p = Main THEN "wait" ELSE "sched"
      /\ \A q \in Proc : q # p => pc'[q] = pc[q]
  BY Moved, Ways DEF ClearConn, At, history, IInv
<1>1. Dormant'
  BY <1>0 DEF IInv, Dormant
<1>2. (CaredFor /\ Heard)'
  BY <1>0 DEF CaredFor, Heard, Recovering, Running, Absent, Dropping
<1>3. OneToken'
  BY <1>0 DEF IInv, Calm, OneToken, Busy, Running
<1>4. CalmPings'
  BY <1>0 DEF IInv, Calm, CalmPings, Running, Dropping
<1>5. (OpenKnown /\ CurrentServed)'
  <2> SUFFICES ASSUME Running', calm'
               PROVE  (OpenKnown /\ CurrentServed)'
    BY DEF OpenKnown, CurrentServed
  <2>1. p # Main /\ Running /\ calm
    BY <1>0 DEF Running
  <2>2. PICK c \in Conn : p = Listen(c)
    BY <1>0, <2>1 DEF IInv, Calm, CalmPings, Dropping
  <2>3. \A b \in Conn : b # c => pc[Listen(b)] \in {"none", "gone"}
    BY <1>0, <2>1, <2>2 DEF IInv, Calm, OneToken, Busy
  <2>4. \A b \in Conn : line[b] \notin {"up", "stalled"}
    BY <1>0, <2>1, <2>2, <2>3 DEF IInv, Calm, OpenKnown, CurrentServed
  <2>5. \A b \in Conn : pc'[Listen(b)] \in {"none", "gone", "sched"}
    BY <1>0, <2>1, <2>2, <2>3
  <2>6. QED
    BY <1>0, <2>4, <2>5 DEF OpenKnown, CurrentServed
<1>7. QuietAfterClose'
  BY <1>0 DEF IInv, QuietAfterClose, Absent
<1>8. QED
  BY <1>1, <1>2, <1>3, <1>4, <1>5, <1>7 DEF IInv, Calm

LEMMA ListenSchedInv ==
    ASSUME IInv, TypeOK', NEW c \in Conn, ScheduleReconnect(Listen(c))
    PROVE  IInv'
<1> USE Names
<1>0. /\ UNCHANGED <<conn, line, held, fails, exhausted, calm>>
      /\ pc[Listen(c)] = "sched"
      /\ pc'[Listen(c)] = "gone"
      /\ \A q \in Proc : q # Listen(c) => pc'[q] = pc[q]
      /\ waiting'[1] = waiting[1] + 1
      /\ waiting[1] \in Nat
      /\ \A n \in Attempt : n # 1 => waiting'[n] = waiting[n]
  BY Moved, Ways DEF ScheduleReconnect, Again, At, history, IInv, TypeOK
<1>1. Dormant'
  BY <1>0 DEF IInv, Dormant
<1>2. (CaredFor /\ Heard)'
  BY <1>0 DEF CaredFor, Heard, Recovering, Running, Absent, Dropping
<1>3. OneToken'
  BY <1>0 DEF IInv, Calm, OneToken, Busy, Running
<1>4. CalmPings'
  BY <1>0 DEF IInv, Calm, CalmPings, Running, Dropping
<1>5. OpenKnown'
  BY <1>0 DEF IInv, Calm, OpenKnown, Running
<1>6. CurrentServed'
  BY <1>0 DEF IInv, Calm, CurrentServed, Running
<1>7. QuietAfterClose'
  BY <1>0 DEF IInv, QuietAfterClose, Absent
<1>8. QED
  BY <1>1, <1>2, <1>3, <1>4, <1>5, <1>6, <1>7 DEF IInv, Calm

LEMMA PingSchedInv ==
    ASSUME IInv, TypeOK', NEW c \in Conn, ScheduleReconnect(Ping(c))
    PROVE  IInv'
<1> USE Names
<1>0. /\ UNCHANGED <<conn, line, held, fails, exhausted, calm>>
      /\ pc[Ping(c)] = "sched"
      /\ pc'[Ping(c)] = "tick"
      /\ \A q \in Proc : q # Ping(c) => pc'[q] = pc[q]
      /\ waiting'[1] = waiting[1] + 1
      /\ waiting[1] \in Nat
      /\ \A n \in Attempt : n # 1 => waiting'[n] = waiting[n]
  BY Moved, Ways DEF ScheduleReconnect, Again, At, history, IInv, TypeOK
<1>1. Dormant'
  BY <1>0 DEF IInv, Dormant
<1>2. (CaredFor /\ Heard)'
  BY <1>0 DEF CaredFor, Heard, Recovering, Running, Absent, Dropping
<1>3. OneToken'
  <2>1. ~(Running /\ calm)'
    BY <1>0 DEF IInv, Calm, CalmPings, Dropping, Running
  <2>2. QED
    BY <2>1 DEF OneToken
<1>4. CalmPings'
  BY <1>0 DEF IInv, Calm, CalmPings, Running, Dropping
<1>5. OpenKnown'
  BY <1>0 DEF IInv, Calm, OpenKnown, Running
<1>6. CurrentServed'
  <2>1. ~(Running /\ calm)'
    BY <1>0 DEF IInv, Calm, CalmPings, Dropping, Running
  <2>2. QED
    BY <2>1 DEF CurrentServed
<1>7. QuietAfterClose'
  BY <1>0 DEF IInv, QuietAfterClose, Absent
<1>8. QED
  BY <1>1, <1>2, <1>3, <1>4, <1>5, <1>6, <1>7 DEF IInv, Calm

LEMMA StopInv ==
    ASSUME IInv, TypeOK', Stop
    PROVE  IInv'
<1> USE Names
<1>0. /\ UNCHANGED <<conn, line, held, fails, waiting, exhausted, calm>>
      /\ pc'[Main] = "drop"
  BY Moved DEF Stop, history, IInv
<1>1. Dormant'
  BY <1>0 DEF Dormant
<1>2. (CaredFor /\ Heard)'
  BY <1>0 DEF CaredFor, Heard, Recovering, Running, Absent, Dropping
<1>3. OneToken'
  BY <1>0 DEF OneToken, Busy, Running
<1>4. CalmPings'
  BY <1>0 DEF CalmPings, Running, Dropping
<1>5. OpenKnown'
  BY <1>0 DEF OpenKnown, Running
<1>6. CurrentServed'
  BY <1>0 DEF CurrentServed, Running
<1>7. QuietAfterClose'
  BY <1>0 DEF QuietAfterClose, Absent
<1>8. QED
  BY <1>1, <1>2, <1>3, <1>4, <1>5, <1>6, <1>7 DEF IInv, Calm

LEMMA WaitedInv ==
    ASSUME IInv, TypeOK', Waited
    PROVE  IInv'
<1> USE Names
<1>0. /\ UNCHANGED <<conn, line, held, fails, waiting, exhausted, calm>>
      /\ pc'[Main] = "done"
      /\ \A q \in Proc : q # Main => pc'[q] = pc[q] /\ pc[q] \in Absent
  BY Moved DEF Waited, history, IInv
<1>1. Dormant'
  BY <1>0 DEF Dormant
<1>2. (CaredFor /\ Heard)'
  BY <1>0 DEF CaredFor, Heard, Recovering, Running, Absent, Dropping
<1>3. OneToken'
  BY <1>0 DEF OneToken, Busy, Running
<1>4. CalmPings'
  BY <1>0 DEF CalmPings, Running, Dropping
<1>5. OpenKnown'
  BY <1>0 DEF OpenKnown, Running
<1>6. CurrentServed'
  BY <1>0 DEF CurrentServed, Running
<1>7. QuietAfterClose'
  BY <1>0 DEF QuietAfterClose, Absent
<1>8. QED
  BY <1>1, <1>2, <1>3, <1>4, <1>5, <1>6, <1>7 DEF IInv, Calm

-----------------------------------------------------------------------------
\* IInv holds in every state, for any number of connections and attempts
\* (ws_nhooyr.go 70-330).
THEOREM SocketInvariance == Spec => []IInv
<1>1. IInv /\ [Next]_vars => IInv'
  <2> SUFFICES ASSUME IInv, [Next]_vars PROVE IInv'
    OBVIOUS
  <2>1. CASE UNCHANGED vars
    BY <2>1 DEF vars, history, IInv, TypeOK, Dormant, CaredFor, Heard, Recovering,
                Running, Calm, OneToken, Busy, CalmPings, OpenKnown,
                CurrentServed, QuietAfterClose
  <2>2. CASE Next
    <3>1. TypeOK'
      BY <2>2, TypeInv
    <3>2. CASE Connect \/ ConnectFails \/ Stop \/ Waited \/ Exit
      BY <3>1, <3>2, ConnectInv, StopInv, WaitedInv, DieInv DEF ConnectFails, Exit
    <3>3. ASSUME NEW c \in Conn,
                 \/ Adopt(c) \/ Network(c)
                 \/ Look(c) \/ Deliver(c) \/ ReadFails(c)
                 \/ Tick(c) \/ TickStop(c) \/ Pong(c) \/ PingFails(c)
          PROVE  IInv'
      BY <3>1, <3>3, AdoptInv, NetworkInv, LookInv, DeliverInv, ReadFailsInv,
         TickInv, PingFailsInv
    <3>4. ASSUME NEW c \in Conn,
                 \/ Use(Listen(c), "load", "read")
                 \/ Use(Ping(c), "ping", "pong")
          PROVE  IInv'
      <4>1. CASE conn = None
        BY <3>4, <4>1, DieInv DEF Use
      <4>2. CASE conn # None
        BY <3>1, <3>4, <4>2, ListenUseInv, PingUseInv
      <4>3. QED
        BY <4>1, <4>2
    <3>5. ASSUME NEW c \in Conn,
                 ScheduleReconnect(Listen(c)) \/ ScheduleReconnect(Ping(c))
          PROVE  IInv'
      BY <3>1, <3>5, ListenSchedInv, PingSchedInv
    <3>6. ASSUME NEW p \in Proc, CheckConn(p) \/ CloseConn(p) \/ ClearConn(p)
          PROVE  IInv'
      <4>1. CASE CloseConn(p) /\ conn = None
        BY <4>1, DieInv DEF CloseConn
      <4>2. QED
        BY <3>1, <3>6, <4>1, CheckConnInv, CloseConnInv, ClearConnInv
    <3>7. ASSUME NEW n \in Attempt, NEW c \in Conn,
                 RetryStops(n) \/ RetryFails(n) \/ RetryDials(n, c)
          PROVE  IInv'
      BY <3>1, <3>7, RetryStopsInv, RetryFailsInv, RetryDialsInv
    <3>8. QED
      BY <2>2, <3>2, <3>3, <3>4, <3>5, <3>6, <3>7, Names, Steps
  <2>3. QED
    BY <2>1, <2>2
<1>2. QED
  BY <1>1, InitInv, PTL DEF Spec

\* Every variable stays within its type.
THEOREM SocketTypeCorrect == Spec => []TypeOK
<1>1. IInv => TypeOK
  BY DEF IInv
<1>2. QED
  BY <1>1, SocketInvariance, PTL

\* Somebody listens or makes a connection, as long as no reconnector has
\* given up (ws_nhooyr.go 124-131, 166-175).
THEOREM SomebodyListens == Spec => []NeverDeaf
<1>1. ASSUME IInv PROVE NeverDeaf
  <2> SUFFICES ASSUME Running, ~exhausted PROVE NeverDeaf
    BY DEF NeverDeaf
  <2>1. \A c \in Conn : /\ pc[Listen(c)] \notin Absent => c \in Listening
                        /\ pc[Listen(c)] = "dialled" => c \in Starting
                        /\ pc[Listen(c)] \in Dropping => c \in Listening
    BY DEF Listening, Starting, Absent, Dropping
  <2>2. \A n \in Attempt : waiting[n] > 0 => n \in Reconnecting
    BY DEF Reconnecting
  <2>3. Recovering \/ \E c \in Conn : pc[Listen(c)] \notin Absent
    BY <1>1 DEF IInv, Heard
  <2>4. \/ \E c \in Conn : c \in Listening \/ c \in Starting
        \/ \E n \in Attempt : n \in Reconnecting
        \/ \E c \in Conn : pc[Ping(c)] \in Dropping
    BY <2>1, <2>2, <2>3 DEF Recovering
  <2>5. QED
    BY <2>4 DEF NeverDeaf
<1>2. QED
  BY <1>1, SocketInvariance, PTL

\* When Close has returned nobody reads a message any more
\* (ws_nhooyr.go 110-114, 294-313).
THEOREM QuietOnceClosed == Spec => []QuietAfterClose
<1>1. IInv => QuietAfterClose
  BY DEF IInv
<1>2. QED
  BY <1>1, SocketInvariance, PTL

\* A set without two elements.
LEMMA AtMostOne ==
    ASSUME NEW S, \A x, y \in S : x = y
    PROVE  /\ Cardinality(S) \in {0, 1}
           /\ Cardinality(S) = 0 <=> S = {}
<1>1. CASE S = {}
  BY <1>1, FS_EmptySet
<1>2. CASE S # {}
  <2>1. PICK x : x \in S
    BY <1>2
  <2>2. S = {x}
    BY <2>1
  <2>3. Cardinality({x}) = 1
    BY FS_Singleton
  <2>4. QED
    BY <1>2, <2>2, <2>3
<1>3. QED
  BY <1>1, <1>2

\* While only listeners have dropped connections, one goroutine listens or
\* reconnects and one connection is open (ws_nhooyr.go 126-131, 217-228).
THEOREM OneListener == Spec => []SoleListener
<1>1. ASSUME IInv PROVE SoleListener
  <2> USE Names
  <2> SUFFICES ASSUME Running, calm PROVE SoleListener
    BY DEF SoleListener
  <2>1. \A c \in Listening \cup Starting : c \in Conn /\ Busy(c)
    BY DEF Listening, Starting, Busy, Absent
  <2>2. /\ \A c, d \in Listening \cup Starting : c = d
        /\ \A n, m \in Reconnecting : n = m
        /\ Listening \cup Starting = {} \/ Reconnecting = {}
        /\ \A n \in Attempt : waiting[n] <= 1
    <3>1. OneToken
      BY <1>1 DEF IInv, Calm
    <3>2. \A n \in Reconnecting : n \in Attempt /\ waiting[n] > 0
      BY DEF Reconnecting
    <3>3. QED
      BY <2>1, <3>1, <3>2 DEF OneToken
  <2>3. Listening = {} \/ Starting = {}
    <3>1. Listening \cap Starting = {}
      BY DEF Listening, Starting, Absent
    <3>2. QED
      BY <2>2, <3>1
  <2>4. Cardinality(Listening) + Cardinality(Starting)
              + Cardinality(Reconnecting) <= 1
    <3>1. /\ Cardinality(Listening) \in {0, 1}
          /\ Listening = {} => Cardinality(Listening) = 0
      BY <2>2, AtMostOne
    <3>2. /\ Cardinality(Starting) \in {0, 1}
          /\ Starting = {} => Cardinality(Starting) = 0
      BY <2>2, AtMostOne
    <3>3. /\ Cardinality(Reconnecting) \in {0, 1}
          /\ Reconnecting = {} => Cardinality(Reconnecting) = 0
      BY <2>2, AtMostOne
    <3>4. QED
      BY <2>2, <2>3, <3>1, <3>2, <3>3
  <2>5. Cardinality(Open) <= 1
    <3>1. \A c \in Open : c \in Conn /\ line[c] \in {"up", "stalled"}
      BY DEF Open
    <3>2. \A c \in Conn : pc[Listen(c)] = "dialled" => Busy(c) /\ conn = None
      BY <1>1 DEF IInv, Calm, CurrentServed, Busy
    <3>3. \A c \in Open : c = conn \/ (Busy(c) /\ conn = None)
      BY <1>1, <3>1, <3>2 DEF IInv, Calm, OpenKnown
    <3>4. \A c, d \in Open : c = d
      BY <1>1, <3>1, <3>3 DEF IInv, Calm, OneToken
    <3>5. QED
      BY <3>4, AtMostOne
  <2>6. QED
    BY <2>2, <2>4, <2>5 DEF SoleListener
<1>2. QED
  BY <1>1, SocketInvariance, PTL

=============================================================================
