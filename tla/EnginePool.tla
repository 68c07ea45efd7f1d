----------------------------- MODULE EnginePool -----------------------------
(***************************************************************************)
(* internal/chess/uci/pool.go and session.go under Engine.Evaluate: a burst *)
(* of commands that want the same options of the engine, and therefore     *)
(* share one bucket.  Each is a goroutine that acquires a session, plays a *)
(* search on it and releases it.                                           *)
(*                                                                         *)
(* A caller starts at most one engine process, so a session is named after *)
(* the caller that started it.  Steps are the critical sections of the two *)
(* mutexes, the operations on the channel and the talks with the process.  *)
(* A process may die at any time: by itself, or because the request that   *)
(* started it is over (exec.CommandContext, session.go:57).                *)
(***************************************************************************)
EXTENDS Naturals, Sequences, FiniteSets

CONSTANTS Caller,    \* the goroutines that call Evaluate, once each
          Capacity,  \* perPresetCapacity
          Nil        \* no session, no answer

ASSUME CapacityAssumption == Capacity \in Nat \ {0}
ASSUME NilAssumption      == Nil \notin Caller
ASSUME BurstAssumption    == IsFiniteSet(Caller)

VARIABLES pc,       \* where each caller is
          sess,     \* the session in its hands
          over,     \* callers whose context is done
          total,    \* bucket.total
          idle,     \* bucket.idle, a channel of Capacity sessions
          tracked,  \* keys of pool.sessions
          alive,    \* engine processes that run
          owed,     \* per session: searches whose bestmove nobody has read
          answer    \* the search whose bestmove Evaluate returned

vars == <<pc, sess, over, total, idle, tracked, alive, owed, answer>>

\* A caller on one of these pays for one unit of total.
Slot == {"spawn", "init", "ready", "discard", "track", "newgame", "search",
         "release", "failed", "put", "closeRetry", "closeEnd",
         "shrinkRetry", "shrinkEnd"}
PC   == Slot \cup {"new", "poll", "grow", "wait", "done"}

TypeOK ==
    /\ pc      \in [Caller -> PC]
    /\ sess    \in [Caller -> Caller \cup {Nil}]
    /\ over    \in SUBSET Caller
    /\ total   \in 0..Capacity
    /\ idle    \in Seq(Caller)
    /\ tracked \in SUBSET Caller
    /\ alive   \in SUBSET Caller
    /\ owed    \in [Caller -> Seq(Caller)]
    /\ answer  \in [Caller -> Caller \cup {Nil}]

Init ==
    /\ pc      = [c \in Caller |-> "new"]
    /\ sess    = [c \in Caller |-> Nil]
    /\ over    = {}
    /\ total   = 0
    /\ idle    = <<>>
    /\ tracked = {}
    /\ alive   = {}
    /\ owed    = [c \in Caller |-> <<>>]
    /\ answer  = [c \in Caller |-> Nil]

-----------------------------------------------------------------------------
Goto(c, from, to) == pc[c] = from /\ pc' = [pc EXCEPT ![c] = to]
Hold(c, s)        == sess' = [sess EXCEPT ![c] = s]

Call(c) ==
    /\ Goto(c, "new", "poll")
    /\ UNCHANGED <<sess, over, total, idle, tracked, alive, owed, answer>>

(* Acquire, pool.go:48 *)

\* Receiving from the channel, in either select.
Take(c) ==
    /\ \/ Goto(c, "poll", "ready")
       \/ Goto(c, "wait", "ready")
    /\ idle # <<>>
    /\ Hold(c, Head(idle))
    /\ idle' = Tail(idle)
    /\ UNCHANGED <<over, total, tracked, alive, owed, answer>>

NoneIdle(c) ==
    /\ Goto(c, "poll", "grow")
    /\ idle = <<>>
    /\ UNCHANGED <<sess, over, total, idle, tracked, alive, owed, answer>>

\* Mutant: one process more than there is room for.
FullLate == total > Capacity

Full == total >= Capacity

Grow(c) ==
    /\ IF Full THEN Goto(c, "grow", "wait") /\ total' = total
               ELSE Goto(c, "grow", "spawn") /\ total' = total + 1
    /\ UNCHANGED <<sess, over, idle, tracked, alive, owed, answer>>

\* Mutant: a caller at capacity waits for a session and for nothing else.
OverNever(c) == FALSE

Over(c) == c \in over

GiveUp(c) ==
    /\ Goto(c, "wait", "done")
    /\ Over(c)
    /\ UNCHANGED <<sess, over, total, idle, tracked, alive, owed, answer>>

\* cmd.Start refuses a context that is done.
Spawn(c) ==
    /\ Goto(c, "spawn", "init")
    /\ c \notin over
    /\ alive' = alive \cup {c}
    /\ Hold(c, c)
    /\ UNCHANGED <<over, total, idle, tracked, owed, answer>>

SpawnFails(c) ==
    /\ Goto(c, "spawn", "shrinkEnd")
    /\ UNCHANGED <<sess, over, total, idle, tracked, alive, owed, answer>>

Initialized(c) ==
    /\ Goto(c, "init", "track")
    /\ sess[c] \in alive
    /\ UNCHANGED <<sess, over, total, idle, tracked, alive, owed, answer>>

InitFails(c) ==
    /\ Goto(c, "init", "closeEnd")
    /\ UNCHANGED <<sess, over, total, idle, tracked, alive, owed, answer>>

\* awaitToken reads on until it finds readyok: what the engine has written
\* before is lost.
SkipTo(c, n) == owed' = [owed EXCEPT ![sess[c]] = SubSeq(@, n + 1, Len(@))]
Skip(c)      == \E n \in 0..Len(owed[sess[c]]) : SkipTo(c, n)

EnsureReady(c) ==
    /\ Goto(c, "ready", "track")
    /\ sess[c] \in alive
    /\ Skip(c)
    /\ UNCHANGED <<sess, over, total, idle, tracked, alive, answer>>

\* No readyok within four seconds, a dead process, or a context that is done.
NotReady(c) ==
    /\ Goto(c, "ready", "discard")
    /\ UNCHANGED <<sess, over, total, idle, tracked, alive, owed, answer>>

\* Pool.discard and the first half of Release: the session leaves the map; one
\* that is not in it is closed and costs no unit of total.
Untrack(c, from, close, next) ==
    LET s == sess[c]
    IN  IF s \in tracked
        THEN /\ Goto(c, from, close)
             /\ tracked' = tracked \ {s}
             /\ UNCHANGED <<alive, sess>>
        ELSE /\ Goto(c, from, next)
             /\ alive' = alive \ {s}
             /\ Hold(c, Nil)
             /\ UNCHANGED tracked

Discard(c) ==
    /\ Untrack(c, "discard", "closeRetry", "poll")
    /\ UNCHANGED <<over, total, idle, owed, answer>>

\* Mutant: the session is forgotten, its process is not.
ForgetSession(c) == /\ Hold(c, Nil)
                    /\ UNCHANGED alive

\* The process is killed and waited for.
CloseSession(c) == /\ alive' = alive \ {sess[c]}
                   /\ Hold(c, Nil)

\* bucket.discard: close first, count down afterwards.
Close(c) ==
    /\ \/ Goto(c, "closeRetry", "shrinkRetry")
       \/ Goto(c, "closeEnd", "shrinkEnd")
    /\ CloseSession(c)
    /\ UNCHANGED <<over, total, idle, tracked, owed, answer>>

\* Mutant: the unit of a session that was closed is never given back.
DecrementNot == total' = total

Decrement == total' = IF total > 0 THEN total - 1 ELSE 0

Shrink(c) ==
    /\ \/ Goto(c, "shrinkRetry", "poll")
       \/ Goto(c, "shrinkEnd", "done")
    /\ Decrement
    /\ UNCHANGED <<sess, over, idle, tracked, alive, owed, answer>>

Track(c) ==
    /\ Goto(c, "track", "newgame")
    /\ tracked' = tracked \cup {sess[c]}
    /\ UNCHANGED <<sess, over, total, idle, alive, owed, answer>>

-----------------------------------------------------------------------------
(* Engine.Evaluate with the session, engine.go:114 *)

\* ucinewgame, up to three rounds of isready, then position and go.
NewGame(c) ==
    /\ Goto(c, "newgame", "search")
    /\ sess[c] \in alive
    /\ \E n \in 0..Len(owed[sess[c]]) :
          owed' = [owed EXCEPT ![sess[c]] = Append(SubSeq(@, n + 1, Len(@)), c)]
    /\ UNCHANGED <<sess, over, total, idle, tracked, alive, answer>>

\* The first bestmove in the pipe ends the search.
Searched(c) ==
    /\ Goto(c, "search", "release")
    /\ owed[sess[c]] # <<>>
    /\ answer' = [answer EXCEPT ![c] = Head(owed[sess[c]])]
    /\ SkipTo(c, 1)
    /\ UNCHANGED <<sess, over, total, idle, tracked, alive>>

\* Mutant: releaseErr is not set.
ErrForgotten == "release"

Err == "failed"

\* A write or read fails, time is up, or there is no candidate.
EvaluateFails(c) ==
    /\ \/ Goto(c, "newgame", Err)
       \/ Goto(c, "search", Err)
    /\ UNCHANGED <<sess, over, total, idle, tracked, alive, owed, answer>>

(* Release, pool.go:93 *)

ReleaseErr(c) ==
    /\ Untrack(c, "failed", "closeEnd", "done")
    /\ UNCHANGED <<over, total, idle, owed, answer>>

Release(c) ==
    /\ IF sess[c] \in tracked
       THEN Goto(c, "release", "put") /\ UNCHANGED <<alive, sess>>
       ELSE /\ Goto(c, "release", "done")
            /\ alive' = alive \ {sess[c]}
            /\ Hold(c, Nil)
    /\ UNCHANGED <<over, total, idle, tracked, owed, answer>>

\* Mutant: the session is released by the search and once more by the defer.
SendTwice(s) == idle' = Append(Append(idle, s), s)

Send(s) == idle' = Append(idle, s)

Put(c) ==
    /\ IF Len(idle) < Capacity
       THEN /\ Goto(c, "put", "done")
            /\ Send(sess[c])
            /\ Hold(c, Nil)
            /\ UNCHANGED tracked
       ELSE /\ Goto(c, "put", "closeEnd")
            /\ tracked' = tracked \ {sess[c]}
            /\ UNCHANGED <<idle, sess>>
    /\ UNCHANGED <<over, total, alive, owed, answer>>

-----------------------------------------------------------------------------
Expire(c) ==
    /\ pc[c] \notin {"new", "done"}
    /\ c \notin over
    /\ over' = over \cup {c}
    /\ UNCHANGED <<pc, sess, total, idle, tracked, alive, owed, answer>>

Die(s) ==
    /\ s \in alive
    /\ alive' = alive \ {s}
    /\ UNCHANGED <<pc, sess, over, total, idle, tracked, owed, answer>>

Step(c) ==
    \/ Take(c) \/ NoneIdle(c) \/ Grow(c) \/ GiveUp(c)
    \/ Spawn(c) \/ SpawnFails(c) \/ Initialized(c) \/ InitFails(c)
    \/ EnsureReady(c) \/ NotReady(c) \/ Discard(c) \/ Close(c) \/ Shrink(c)
    \/ Track(c) \/ NewGame(c) \/ Searched(c) \/ EvaluateFails(c)
    \/ ReleaseErr(c) \/ Release(c) \/ Put(c)

Next == \E c \in Caller : Call(c) \/ Step(c) \/ Expire(c) \/ Die(c)

Spec == Init /\ [][Next]_vars

\* Goroutines run, every talk with a process has a deadline, and so has every
\* request.
FairSpec == /\ Spec
            /\ \A c \in Caller : WF_vars(Step(c)) /\ WF_vars(Expire(c))

-----------------------------------------------------------------------------
Members(q)  == {q[i] : i \in 1..Len(q)}
Distinct(q) == \A i, j \in 1..Len(q) : q[i] = q[j] => i = j

Idle   == Members(idle)
Paying == {c \in Caller : pc[c] \in Slot}

\* total, counted up before a process is started and down after it was closed
\* by goroutines that share no lock meanwhile, is what there is: the idle
\* sessions and those in somebody's hands (pool.go 216-255).
Accounting == total = Len(idle) + Cardinality(Paying)

\* The machine never runs more engine processes than the capacity allows.
ProcessBound == Cardinality(alive) <= Capacity

\* A session is in one place: once in the channel, or in the hands of one
\* caller.  Two searches on one pair of pipes would read each other's lines.
Exclusive ==
    /\ Distinct(idle)
    /\ \A c \in Caller : sess[c] \notin Idle
    /\ \A c, d \in Caller : sess[c] = sess[d] /\ sess[c] # Nil => c = d

\* No engine process runs that nobody will ever close: each one is idle in the
\* channel or in the hands of a caller.
NoOrphan == \A s \in alive : s \in Idle \/ \E c \in Caller : sess[c] = s

\* Why sessions stay in one place: what Release and discard find in the map is
\* there, a name is free until its caller has started a process, and a session
\* that goes back to the channel owes nobody an answer.
Holding == {"init", "ready", "discard", "track", "newgame", "search", "release",
            "failed", "put", "closeRetry", "closeEnd"}
Before  == {"new", "poll", "grow", "wait", "spawn", "ready", "discard",
            "closeRetry", "shrinkRetry"}
Quiet   == {"init", "ready", "track", "newgame", "release", "put"}

Certain == Holding \ {"init", "track", "closeRetry", "closeEnd"}

HandsFull == \A c \in Caller : (sess[c] # Nil) <=> (pc[c] \in Holding)

NameFree == \A c \in Caller : pc[c] \in Before =>
               (c \notin Idle /\ owed[c] = <<>> /\ \A d \in Caller : sess[d] # c)

InMap == /\ Idle \subseteq tracked
         /\ \A c \in Caller : pc[c] \in Certain => sess[c] \in tracked

NothingOwed == /\ \A s \in Idle : owed[s] = <<>>
               /\ \A c \in Caller : (pc[c] \in Quiet)  => (owed[sess[c]] = <<>>)
               /\ \A c \in Caller : (pc[c] = "search") => (owed[sess[c]] = <<c>>)

Custody == HandsFull /\ Exclusive /\ NameFree /\ InMap /\ NothingOwed

\* Nobody is given the move that was searched for somebody else's position:
\* the bestmove of a search that was given up goes down with its session.
AnswerIsOwn == \A c \in Caller : answer[c] \in {Nil, c}

\* Every Acquire and Release of a burst returns, also to a caller whose slot
\* was freed by a session that failed, which wakes nobody (pool.go:76).
EveryoneReturns == \A c \in Caller : (pc[c] = "poll") ~> (pc[c] = "done")
=============================================================================
