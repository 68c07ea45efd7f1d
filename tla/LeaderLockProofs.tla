-------------------------- MODULE LeaderLockProofs --------------------------
(***************************************************************************)
(* For any number of processes and any two times with Period < Ttl: as long *)
(* as no call fails and nobody is late, one process leads.                  *)
(***************************************************************************)
EXTENDS LeaderLock, TLAPS

\* Every variable stays within its type, whatever fails (main.go 75-123).
THEOREM LockTypeCorrect == Spec => []TypeOK
<1> USE NilAssumption, PeriodAssumption
<1>1. Init => TypeOK
  BY DEF Init, TypeOK
<1>2. TypeOK /\ [Next]_vars => TypeOK'
  <2> SUFFICES ASSUME TypeOK, [Next]_vars PROVE TypeOK'
    OBVIOUS
  <2> USE DEF TypeOK
  <2>1. CASE Tick
    BY <2>1 DEF Tick
  <2>2. ASSUME NEW i \in Instance, Start(i) PROVE TypeOK'
    BY <2>2 DEF Start, Claim
  <2>3. ASSUME NEW i \in Instance, Stop(i) PROVE TypeOK'
    BY <2>3 DEF Stop, Exit
  <2>4. ASSUME NEW i \in Instance, Step(i) PROVE TypeOK'
    BY <2>4 DEF Step, Depose, Check, Renew, Extend, Release, Exit
  <2>5. ASSUME NEW i \in Instance, CheckFails(i) \/ RenewFails(i) \/ Crash(i)
        PROVE  TypeOK'
    <3>1. CASE CheckFails(i)
      <4>1. calm' \in BOOLEAN
        BY <3>1 DEF CheckFails
      <4>2. timer' \in [Instance -> 0..Period]
        BY <3>1 DEF CheckFails
      <4>3. UNCHANGED <<lock, left, main, keeper>>
        BY <3>1 DEF CheckFails
      <4>4. QED
        BY <4>1, <4>2, <4>3
    <3>2. CASE RenewFails(i)
      BY <3>2 DEF RenewFails
    <3>3. CASE Crash(i)
      <4>1. calm' \in BOOLEAN
        BY <3>3 DEF Crash
      <4>2. /\ main'   \in [Instance -> {"down", "up", "release"}]
            /\ keeper' \in [Instance -> {"none", "wait", "renew"}]
            /\ timer'  \in [Instance -> 0..Period]
        BY <3>3 DEF Crash, Exit
      <4>3. UNCHANGED <<lock, left>>
        BY <3>3 DEF Crash
      <4>4. QED
        BY <4>1, <4>2, <4>3
    <3>4. QED
      BY <2>5, <3>1, <3>2, <3>3
  <2>6. CASE UNCHANGED vars
    BY <2>6 DEF vars
  <2>7. QED
    BY <2>1, <2>2, <2>3, <2>4, <2>5, <2>6 DEF Next
<1>3. QED
  BY <1>1, <1>2, PTL DEF Spec

\* A step of process i leaves the two goroutines of the others alone.
LEMMA InTimeStep ==
    ASSUME TypeOK, TypeOK', InTime, [Next]_vars
    PROVE  InTime'
<1> USE NilAssumption, PeriodAssumption DEF TypeOK, InTime
<1>1. CASE Tick
  \* Nobody is pending when the step is calm, so every timer is positive.
  <2>1. ASSUME calm', NEW i \in Instance, main'[i] # "down"
        PROVE  lock' = i /\ (keeper'[i] = "wait" => left' >= timer'[i] + (Ttl - Period))
    <3>1. calm /\ ~Pending(i) /\ main[i] # "down"
      BY <1>1, <2>1 DEF Tick
    <3>2. keeper[i] = "wait" /\ timer[i] > 0
      BY <3>1 DEF Pending, Due
    <3>3. lock = i /\ left >= timer[i] + (Ttl - Period) /\ left > 1
      BY <3>1, <3>2
    <3>4. QED
      BY <1>1, <3>2, <3>3 DEF Tick
  <2>2. QED
    BY <1>1, <2>1 DEF Tick
<1>2. ASSUME NEW i \in Instance, Start(i) PROVE InTime'
  \* The lock was free, so when calm nobody else was running.
  BY <1>2 DEF Start, Claim
<1>3. ASSUME NEW i \in Instance, Stop(i) PROVE InTime'
  BY <1>3 DEF Stop, Exit
<1>4. ASSUME NEW i \in Instance, Step(i) PROVE InTime'
  <2>1. CASE Depose(i)
    BY <2>1 DEF Depose, Exit
  <2>2. CASE Check(i)
    BY <2>2 DEF Check, Due
  <2>3. CASE Renew(i)
    BY <2>3 DEF Renew, Extend
  <2>4. CASE Release(i)
    BY <2>4 DEF Release, Exit
  <2>5. QED
    BY <1>4, <2>1, <2>2, <2>3, <2>4 DEF Step
<1>5. ASSUME NEW i \in Instance, CheckFails(i) \/ RenewFails(i) \/ Crash(i)
      PROVE  InTime'
  BY <1>5 DEF CheckFails, RenewFails, Crash, Exit, Due
<1>6. CASE UNCHANGED vars
  BY <1>6 DEF vars
<1>7. QED
  BY <1>1, <1>2, <1>3, <1>4, <1>5, <1>6 DEF Next

\* Without a fault every running process holds the lock, in time to renew it.
THEOREM LockHeldInTime == Spec => []InTime
<1>1. Init => InTime
  BY DEF Init, InTime
<1>2. TypeOK /\ TypeOK' /\ InTime /\ [Next]_vars => InTime'
  BY InTimeStep
<1>3. QED
  BY <1>1, <1>2, LockTypeCorrect, PTL DEF Spec

\* The single instance that main.go:75 promises, for as long as no call fails,
\* no process dies and nobody is late.
THEOREM SingleLeader == Spec => []OneLeaderWhenCalm
<1>1. InTime => OneLeaderWhenCalm
  BY DEF InTime, OneLeaderWhenCalm, OneLeader, Leads
<1>2. QED
  BY <1>1, LockHeldInTime, PTL
=============================================================================
