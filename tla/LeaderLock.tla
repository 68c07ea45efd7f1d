----------------------------- MODULE LeaderLock -----------------------------
(***************************************************************************)
(* The leader lock of cmd/chess-bot/main.go: a bot process claims the Redis *)
(* key bot:leader_lock once, when it starts, and ends when it is taken; a   *)
(* goroutine looks after the key every Period seconds and gives it Ttl      *)
(* seconds more; the main goroutine deletes the key on its way out.         *)
(*                                                                          *)
(* Time passes in Tick.  A process is called late when a step of its own    *)
(* was due and the clock went on; calls that fail, and processes that die,  *)
(* are the other faults.                                                    *)
(***************************************************************************)
EXTENDS Naturals

CONSTANTS Instance,  \* bot processes, each with a uuid of its own
          Nil,       \* no such key
          Ttl,       \* lockTTL
          Period,    \* of the ticker
          MayStall   \* whether processes may be late

ASSUME NilAssumption    == Nil \notin Instance
ASSUME PeriodAssumption == Ttl \in Nat /\ Period \in 1..(Ttl - 1)
ASSUME StallAssumption  == MayStall \in BOOLEAN

VARIABLES lock,   \* bot:leader_lock
          left,   \* seconds until it expires
          main,   \* main goroutine of each process
          keeper, \* the goroutine that looks after the lock
          timer,  \* seconds until its ticker fires
          calm    \* no fault so far

vars == <<lock, left, main, keeper, timer, calm>>

TypeOK ==
    /\ lock   \in Instance \cup {Nil}
    /\ left   \in 0..Ttl
    /\ main   \in [Instance -> {"down", "up", "release"}]
    /\ keeper \in [Instance -> {"none", "wait", "renew"}]
    /\ timer  \in [Instance -> 0..Period]
    /\ calm   \in BOOLEAN

Init ==
    /\ lock   = Nil
    /\ left   = 0
    /\ main   = [i \in Instance |-> "down"]
    /\ keeper = [i \in Instance |-> "none"]
    /\ timer  = [i \in Instance |-> 0]
    /\ calm   = TRUE

-----------------------------------------------------------------------------
\* os.Exit, the return of main, or a crash: all goroutines of i are gone.
Exit(i) == /\ main'   = [main   EXCEPT ![i] = "down"]
           /\ keeper' = [keeper EXCEPT ![i] = "none"]
           /\ timer'  = [timer  EXCEPT ![i] = 0]

\* Mutant: SETNX without a TTL.
ClaimForever(i) == lock' = i /\ left' = 0

Claim(i) == lock' = i /\ left' = Ttl

\* A process that finds the key taken ends without having done anything.
Start(i) ==
    /\ main[i] = "down"
    /\ lock = Nil
    /\ Claim(i)
    /\ main'   = [main   EXCEPT ![i] = "up"]
    /\ keeper' = [keeper EXCEPT ![i] = "wait"]
    /\ timer'  = [timer  EXCEPT ![i] = Period]
    /\ UNCHANGED calm

Due(i) == keeper[i] = "wait" /\ timer[i] = 0

\* Mutant: a lock somebody else holds is as good as one's own.
AnybodyHolds(i) == lock # Nil

Holds(i) == lock = i

\* GET finds the key gone, or the id of another process in it.
Depose(i) ==
    /\ Due(i)
    /\ ~Holds(i)
    /\ Exit(i)
    /\ UNCHANGED <<lock, left, calm>>

Check(i) ==
    /\ Due(i)
    /\ Holds(i)
    /\ keeper' = [keeper EXCEPT ![i] = "renew"]
    /\ timer'  = [timer  EXCEPT ![i] = Period]
    /\ UNCHANGED <<lock, left, main, calm>>

\* Mutant: the renewal is forgotten.
ExtendNot == UNCHANGED <<lock, left>>

\* Mutant: EXPIRE taken for an increment.
ExtendByTtl == lock' = lock /\ left' = left + Ttl

\* EXPIRE acts on the key there is, whoever wrote it.
Extend == lock' = lock /\ left' = IF lock = Nil THEN 0 ELSE Ttl

Renew(i) ==
    /\ keeper[i] = "renew"
    /\ Extend
    /\ keeper' = [keeper EXCEPT ![i] = "wait"]
    /\ UNCHANGED <<main, timer, calm>>

\* SIGTERM; the socket is closed, then the deferred function reads the key.
\* The keeper goes on meanwhile.
Stop(i) ==
    /\ main[i] = "up"
    /\ \/ /\ lock = i
          /\ main' = [main EXCEPT ![i] = "release"]
          /\ UNCHANGED <<keeper, timer>>
       \/ /\ lock # i
          /\ Exit(i)
    /\ UNCHANGED <<lock, left, calm>>

\* DEL, too, acts on the key there is.
Release(i) ==
    /\ main[i] = "release"
    /\ lock' = Nil /\ left' = 0
    /\ Exit(i)
    /\ UNCHANGED calm

-----------------------------------------------------------------------------
(* Faults. *)

\* A GET that fails is logged, and the keeper waits for the next tick.
CheckFails(i) ==
    /\ Due(i)
    /\ timer' = [timer EXCEPT ![i] = Period]
    /\ calm'  = FALSE
    /\ UNCHANGED <<lock, left, main, keeper>>

\* The error of EXPIRE is dropped.
RenewFails(i) ==
    /\ keeper[i] = "renew"
    /\ keeper' = [keeper EXCEPT ![i] = "wait"]
    /\ calm'   = FALSE
    /\ UNCHANGED <<lock, left, main, timer>>

\* Killed, or stopped with a GET or DEL that fails.
Crash(i) ==
    /\ main[i] # "down"
    /\ Exit(i)
    /\ calm' = FALSE
    /\ UNCHANGED <<lock, left>>

-----------------------------------------------------------------------------
Pending(i) == Due(i) \/ keeper[i] = "renew" \/ main[i] = "release"

\* A ticker that is not read keeps one tick.
Tick ==
    /\ MayStall \/ \A i \in Instance : ~Pending(i)
    /\ lock # Nil \/ \E i \in Instance : timer[i] > 0
    /\ lock'  = IF left = 1 THEN Nil ELSE lock
    /\ left'  = IF left > 0 THEN left - 1 ELSE 0
    /\ timer' = [i \in Instance |-> IF timer[i] > 0 THEN timer[i] - 1 ELSE 0]
    /\ calm'  = (calm /\ \A i \in Instance : ~Pending(i))
    /\ UNCHANGED <<main, keeper>>

Step(i) == \/ Depose(i) \/ Check(i) \/ Renew(i) \/ Release(i)

Next == \/ Tick
        \/ \E i \in Instance : \/ Start(i) \/ Stop(i) \/ Step(i)
                               \/ CheckFails(i) \/ RenewFails(i) \/ Crash(i)

Spec == Init /\ [][Next]_vars

\* Time passes, goroutines run, and Redis answers a GET now and then.
FairSpec == /\ Spec
            /\ WF_vars(Tick)
            /\ \A i \in Instance : /\ WF_vars(Renew(i) \/ Release(i))
                                   /\ SF_vars(Depose(i))
                                   /\ SF_vars(Check(i))

-----------------------------------------------------------------------------
Leads(i) == main[i] = "up"

OneLeader == \A i, j \in Instance : Leads(i) /\ Leads(j) => i = j

\* One process at a time answers chat messages as long as no call fails and
\* nobody is late: renewal comes before expiry, and nobody renews or deletes
\* the lock of another.
OneLeaderWhenCalm == calm => OneLeader

\* What keeps it so: without a fault every process that runs holds the lock,
\* and its ticker fires Ttl - Period seconds before the lock expires.
InTime ==
    /\ \A i \in Instance : main[i] = "down" <=> keeper[i] = "none"
    /\ calm => \A i \in Instance : main[i] # "down" =>
                  /\ lock = i
                  /\ keeper[i] = "wait" => left >= timer[i] + (Ttl - Period)

\* After a fault two processes may lead, but one that has lost its lock finds
\* out and ends.
DeposedEnds ==
    \A i \in Instance : (Leads(i) /\ lock # i) ~> ~Leads(i)

\* The lock of a process that died is not in the way of the next one for ever.
LockComesFree ==
    (\A i \in Instance : main[i] = "down") ~> (lock = Nil)
=============================================================================
