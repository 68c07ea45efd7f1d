----------------------------- MODULE IrisSocket -----------------------------
(***************************************************************************)
(* internal/irisfast/ws_nhooyr.go: the connection to the Iris gateway.     *)
(* Every connection gets a goroutine that listens and one that pings, both *)
(* on whatever ws.conn holds when they look; each of them may drop that    *)
(* connection and start a reconnector.  ws.conn is shared by all of them   *)
(* and guarded by no lock: a check for nil and the use that follows are    *)
(* two reads.                                                              *)
(*                                                                         *)
(* Connections are numbered as they are made.  A connection that stalls    *)
(* neither answers pings nor fails; one that is down fails all calls.  A   *)
(* process that has died keeps nothing.  ws.state is left out: nothing in  *)
(* this file decides by it after start-up.                                 *)
(***************************************************************************)
EXTENDS Naturals, FiniteSets

CONSTANTS MaxConn,      \* connections that can be made, for TLC
          MaxAttempts   \* maxReconnectAttempts; 5 in main.go:49

ASSUME BoundAssumption == MaxConn \in Nat \ {0} /\ MaxAttempts \in Nat \ {0}

VARIABLES conn,       \* ws.conn
          line,       \* what each connection is good for
          pc,         \* where each goroutine is
          held,       \* the connection it reads from or pings
          fails,      \* consecutivePingFailures of each ping loop
          waiting,    \* reconnectors before their n-th attempt
          exhausted,  \* history: a reconnector has given up
          calm        \* history: no ping loop has dropped a connection

history == <<exhausted, calm>>
vars == <<conn, line, pc, held, fails, waiting, history>>

None    == 0
Conn    == 1..MaxConn
Attempt == 1..MaxAttempts

Main      == <<"main", None>>
Listen(c) == <<"listen", c>>
Ping(c)   == <<"ping", c>>
Proc      == ({"listen", "ping"} \X Conn) \cup {Main}

Absent == {"none", "dialled", "gone"}    \* not counted by ws.wg
Dropping == {"drop", "closing", "clear", "sched"}
PC == Absent \cup Dropping
      \cup {"connect", "run", "look", "load", "read", "tick", "ping", "pong", "wait", "done"}

TypeOK ==
    /\ conn      \in Conn \cup {None}
    /\ line      \in [Conn -> {"unused", "up", "stalled", "down"}]
    /\ pc        \in [Proc -> PC]
    /\ held      \in [Proc -> Conn \cup {None}]
    /\ fails     \in [Conn -> 0..1]
    /\ waiting   \in [Attempt -> Nat]
    /\ exhausted \in BOOLEAN
    /\ calm      \in BOOLEAN

Init ==
    /\ conn      = None
    /\ line      = [c \in Conn |-> "unused"]
    /\ pc        = [p \in Proc |-> IF p = Main THEN "connect" ELSE "none"]
    /\ held      = [p \in Proc |-> None]
    /\ fails     = [c \in Conn |-> 0]
    /\ waiting   = [n \in Attempt |-> 0]
    /\ exhausted = FALSE
    /\ calm      = TRUE

-----------------------------------------------------------------------------
Alive    == pc[Main] # "gone"
Stopping == pc[Main] \notin {"connect", "run"}    \* stopCh is closed

At(p, here)  == pc[p] = here
Goto(p, to)  == pc' = [pc EXCEPT ![p] = to]
Hold(p, c)   == held' = [held EXCEPT ![p] = c]

Die ==
    /\ conn'    = None
    /\ line'    = [c \in Conn |-> "down"]
    /\ pc'      = [p \in Proc |-> "gone"]
    /\ held'    = [p \in Proc |-> None]
    /\ fails'   = [c \in Conn |-> 0]
    /\ waiting' = [n \in Attempt |-> 0]
    /\ UNCHANGED history

Dialled(c) == line[c] = "unused" /\ \A b \in Conn : b < c => line[b] # "unused"

(* Connect, ws_nhooyr.go:70; main.go:395 ends the process if it fails. *)

Connect ==
    /\ At(Main, "connect")
    /\ conn' = 1
    /\ line' = [line EXCEPT ![1] = "up"]
    /\ pc'   = [pc EXCEPT ![Main] = "run", ![Listen(1)] = "look", ![Ping(1)] = "tick"]
    /\ UNCHANGED <<held, fails, waiting, history>>

ConnectFails == At(Main, "connect") /\ Die

\* A goroutine reads ws.conn again to use it; if it is nil, this is a panic.
Use(p, from, to) ==
    /\ At(p, from)
    /\ \/ conn = None /\ Die
       \/ /\ conn # None
          /\ Hold(p, conn)
          /\ Goto(p, to)
          /\ UNCHANGED <<conn, line, fails, waiting, history>>

(* listen, ws_nhooyr.go:107 *)

\* Mutant: the loop does not look at stopCh.
LeavesBlind == conn = None

Leaves == Stopping \/ conn = None

Look(c) ==
    /\ At(Listen(c), "look")
    /\ Goto(Listen(c), IF Leaves THEN "gone" ELSE "load")
    /\ UNCHANGED <<conn, line, held, fails, waiting, history>>

\* A message arrives and its callbacks return: commands run elsewhere.
Deliver(c) ==
    /\ At(Listen(c), "read") /\ line[held[Listen(c)]] = "up"
    /\ Goto(Listen(c), "look")
    /\ Hold(Listen(c), None)
    /\ UNCHANGED <<conn, line, fails, waiting, history>>

ReadFails(c) ==
    /\ At(Listen(c), "read") /\ line[held[Listen(c)]] = "down"
    /\ Goto(Listen(c), IF Stopping THEN "gone" ELSE "drop")
    /\ Hold(Listen(c), None)
    /\ UNCHANGED <<conn, line, fails, waiting, history>>

(* pingLoop, ws_nhooyr.go:145 *)

\* Mutant: the loop does not look at stopCh.
StopsNever == FALSE

Stops == Stopping

TickStop(c) ==
    /\ At(Ping(c), "tick") /\ Stops
    /\ Goto(Ping(c), "gone")
    /\ UNCHANGED <<conn, line, held, fails, waiting, history>>

\* With both channels ready, select takes either.
Tick(c) ==
    /\ At(Ping(c), "tick") /\ conn # None
    /\ Goto(Ping(c), "ping")
    /\ UNCHANGED <<conn, line, held, fails, waiting, history>>

Pong(c) ==
    /\ At(Ping(c), "pong") /\ line[held[Ping(c)]] = "up"
    /\ fails' = [fails EXCEPT ![c] = 0]
    /\ Goto(Ping(c), "tick")
    /\ Hold(Ping(c), None)
    /\ UNCHANGED <<conn, line, waiting, history>>

\* Mutant: a failure starts the count again.
FailureForgets(c) == 0

Failure(c) == fails[c] + 1

\* Mutant: one failure more is tolerated.
EnoughLate(c) == Failure(c) > 2

Enough(c) == Failure(c) >= 2

PingFails(c) ==
    /\ At(Ping(c), "pong") /\ line[held[Ping(c)]] # "up"
    /\ fails' = [fails EXCEPT ![c] = IF Enough(c) THEN 0 ELSE Failure(c)]
    /\ Goto(Ping(c), IF ~Enough(c) THEN "tick" ELSE IF Stopping THEN "gone" ELSE "drop")
    /\ Hold(Ping(c), None)
    /\ calm' = (calm /\ (Stopping \/ ~Enough(c)))
    /\ UNCHANGED <<conn, line, waiting, exhausted>>

(* closeConn, ws_nhooyr.go:315, in all who call it *)

AfterClose(p) == IF p = Main THEN "wait" ELSE "sched"

CheckConn(p) ==
    /\ At(p, "drop")
    /\ Goto(p, IF conn # None THEN "closing" ELSE AfterClose(p))
    /\ UNCHANGED <<conn, line, held, fails, waiting, history>>

CloseConn(p) ==
    /\ At(p, "closing")
    /\ \/ conn = None /\ Die
       \/ /\ conn # None
          /\ line' = [line EXCEPT ![conn] = "down"]
          /\ Goto(p, "clear")
          /\ UNCHANGED <<conn, held, fails, waiting, history>>

\* The deferred assignment clears whatever connection is there by now.
ClearConn(p) ==
    /\ At(p, "clear")
    /\ conn' = None
    /\ Goto(p, AfterClose(p))
    /\ UNCHANGED <<line, held, fails, waiting, history>>

(* scheduleReconnect, ws_nhooyr.go:183, and the goroutine it starts *)

\* Mutant: the goroutine is not started.
AgainNever == UNCHANGED waiting

Again == waiting' = [waiting EXCEPT ![1] = @ + 1]

\* Mutant: the listener goes on after it has scheduled a reconnect.
OnwardsOn(p) == IF p[1] = "listen" THEN "look" ELSE "tick"

Onwards(p) == IF p[1] = "listen" THEN "gone" ELSE "tick"

ScheduleReconnect(p) ==
    /\ At(p, "sched")
    /\ Again
    /\ Goto(p, Onwards(p))
    /\ UNCHANGED <<conn, line, held, fails, history>>

RetryStops(n) ==
    /\ waiting[n] > 0 /\ Stopping
    /\ waiting' = [waiting EXCEPT ![n] = @ - 1]
    /\ UNCHANGED <<conn, line, pc, held, fails, history>>

RetryFails(n) ==
    /\ waiting[n] > 0
    /\ waiting' = [m \in Attempt |-> CASE m = n     -> waiting[m] - 1
                                       [] m = n + 1 -> waiting[m] + 1
                                       [] OTHER     -> waiting[m]]
    /\ exhausted' = (exhausted \/ n = MaxAttempts)
    /\ UNCHANGED <<conn, line, pc, held, fails, calm>>

\* After Close has returned the context of the dial is cancelled.
RetryDials(n, c) ==
    /\ waiting[n] > 0 /\ pc[Main] # "done" /\ Dialled(c)
    /\ line' = [line EXCEPT ![c] = "up"]
    /\ waiting' = [waiting EXCEPT ![n] = @ - 1]
    /\ Goto(Listen(c), "dialled")
    /\ UNCHANGED <<conn, held, fails, history>>

\* What stopCh says and whom another reconnector serves is not asked again.
Adopt(c) ==
    /\ At(Listen(c), "dialled")
    /\ conn' = c
    /\ pc' = [pc EXCEPT ![Listen(c)] = "look", ![Ping(c)] = "tick"]
    /\ UNCHANGED <<line, held, fails, waiting, history>>

(* Close, ws_nhooyr.go:294, which main.go:405 calls without a deadline *)

Stop ==
    /\ At(Main, "run")
    /\ Goto(Main, "drop")
    /\ UNCHANGED <<conn, line, held, fails, waiting, history>>

Waited ==
    /\ At(Main, "wait")
    /\ \A p \in Proc \ {Main} : pc[p] \in Absent
    /\ Goto(Main, "done")
    /\ UNCHANGED <<conn, line, held, fails, waiting, history>>

Exit == At(Main, "done") /\ Die

(* The network *)

Network(c) ==
    /\ \E from \in {"up", "stalled"}, to \in {"up", "stalled", "down"} :
          line[c] = from /\ from # to /\ line' = [line EXCEPT ![c] = to]
    /\ UNCHANGED <<conn, pc, held, fails, waiting, history>>

-----------------------------------------------------------------------------
Drops(p) == CheckConn(p) \/ CloseConn(p) \/ ClearConn(p)

Listens(c) == \/ Look(c) \/ Use(Listen(c), "load", "read")
              \/ Deliver(c) \/ ReadFails(c)
              \/ Drops(Listen(c)) \/ ScheduleReconnect(Listen(c))
Pings(c)   == \/ Tick(c) \/ TickStop(c) \/ Use(Ping(c), "ping", "pong")
              \/ Pong(c) \/ PingFails(c)
              \/ Drops(Ping(c)) \/ ScheduleReconnect(Ping(c))
Retries(n) == \/ RetryStops(n) \/ RetryFails(n)
              \/ \E c \in Conn : RetryDials(n, c)
Closes     == Drops(Main) \/ Waited

Next ==
    \/ Connect \/ ConnectFails \/ Stop \/ Closes \/ Exit
    \/ \E c \in Conn : Adopt(c) \/ Listens(c) \/ Pings(c) \/ Network(c)
    \/ \E n \in Attempt : Retries(n)

Spec == Init /\ [][Next]_vars

\* Goroutines run, and select does not overlook stopCh for ever.  The network
\* owes nothing, and main may run for ever.
FairSpec ==
    /\ Spec
    /\ WF_vars(Closes)
    /\ \A c \in Conn : /\ WF_vars(Adopt(c)) /\ WF_vars(Listens(c))
                       /\ WF_vars(Pings(c)) /\ SF_vars(TickStop(c))
    /\ \A n \in Attempt : WF_vars(Retries(n))

-----------------------------------------------------------------------------
Running      == pc[Main] = "run"
Listening    == {c \in Conn : pc[Listen(c)] \notin Absent}
Starting     == {c \in Conn : pc[Listen(c)] = "dialled"}
Reconnecting == {n \in Attempt : waiting[n] > 0}
Open         == {c \in Conn : line[c] \in {"up", "stalled"}}

\* As long as no reconnector has given up, somebody listens, makes a
\* connection or is about to ask for one, however listeners and ping loops
\* drop each other's connections (ws_nhooyr.go 124-131, 166-175).
NeverDeaf ==
    Running /\ ~exhausted =>
        \/ Listening # {} \/ Starting # {} \/ Reconnecting # {}
        \/ \E c \in Conn : pc[Ping(c)] \in Dropping

\* As long as only listeners have dropped connections, one goroutine listens
\* or reconnects, and at most one connection is open, so that no message is
\* handled twice (ws_nhooyr.go 126-131, 217-228).
SoleListener ==
    Running /\ calm =>
        /\ Cardinality(Listening) + Cardinality(Starting)
              + Cardinality(Reconnecting) <= 1
        /\ \A n \in Attempt : waiting[n] <= 1
        /\ Cardinality(Open) <= 1

\* When Close has returned nobody reads a message any more, also when a
\* reconnector was dialling meanwhile (ws_nhooyr.go 110-114, 294-313).
QuietAfterClose ==
    pc[Main] = "done" => \A c \in Conn : pc[Listen(c)] \in Absent \cup {"look"}

\* Close returns, also when a reconnector is dialling, unless ping loops have
\* dropped connections: then a listener may be left on a connection that
\* ws.conn has forgotten (ws_nhooyr.go 298-307).
CloseReturns ==
    (Stopping /\ Alive /\ calm) ~> (pc[Main] = "done" \/ ~Alive \/ ~calm)

\* A connection that stalls does not stay the current one for ever
\* (ws_nhooyr.go 156-179).
StallNoticed ==
    \A c \in Conn :
        (Running /\ conn = c /\ line[c] = "stalled")
            ~> (~Running \/ conn # c \/ line[c] # "stalled")
=============================================================================
