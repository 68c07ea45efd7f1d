-------------------------- MODULE EngineProofs --------------------------
(***************************************************************************)
(* The engine, for any number of callers, any capacity and any preset.     *)
(*                                                                         *)
(* EnginePool: sessions stay in one place, nobody gets the answer to       *)
(* another's search, and the bucket's counter bounds the processes that    *)
(* run.  EngineMove: the reply can be made on the board, what is forced is *)
(* played, and the preset's weights stay as configured.                    *)
(***************************************************************************)
EXTENDS EnginePool, EngineMove, FiniteSetTheorems, TLAPS

(* The channel as a set. *)

\* Receiving takes one element away, which was in the channel once.
LEMMA MembersTail ==
    ASSUME NEW q \in Seq(Caller), q # <<>>, Distinct(q)
    PROVE  /\ Tail(q) \in Seq(Caller) /\ Head(q) \in Caller
           /\ Len(Tail(q)) = Len(q) - 1
           /\ Distinct(Tail(q))
           /\ Members(Tail(q)) = Members(q) \ {Head(q)}
           /\ Head(q) \in Members(q)
<1>1. /\ Tail(q) \in Seq(Caller) /\ Head(q) \in Caller /\ Head(q) = q[1]
      /\ Len(q) \in Nat /\ Len(q) > 0 /\ Len(Tail(q)) = Len(q) - 1
      /\ \A i \in 1..Len(Tail(q)) : Tail(q)[i] = q[i + 1]
  OBVIOUS
<1>2. Distinct(Tail(q))
  BY <1>1 DEF Distinct
<1>3. Members(Tail(q)) = Members(q) \ {Head(q)}
  <2>1. ASSUME NEW s \in Members(Tail(q)) PROVE s \in Members(q) \ {Head(q)}
    BY <1>1 DEF Members, Distinct
  <2>2. ASSUME NEW s \in Members(q) \ {Head(q)} PROVE s \in Members(Tail(q))
    <3>1. PICK i \in 1..Len(q) : s = q[i]
      BY DEF Members
    <3>2. i # 1
      BY <3>1, <1>1
    <3>3. i - 1 \in 1..Len(Tail(q)) /\ Tail(q)[i - 1] = s
      BY <3>1, <3>2, <1>1
    <3>4. QED
      BY <3>3 DEF Members
  <2>3. QED
    BY <2>1, <2>2
<1>4. Head(q) \in Members(q)
  BY <1>1 DEF Members
<1>5. QED
  BY <1>1, <1>2, <1>3, <1>4

\* Sending adds an element that was not there.
LEMMA MembersAppend ==
    ASSUME NEW q \in Seq(Caller), NEW s \in Caller, Distinct(q), s \notin Members(q)
    PROVE  /\ Append(q, s) \in Seq(Caller)
           /\ Len(Append(q, s)) = Len(q) + 1
           /\ Distinct(Append(q, s))
           /\ Members(Append(q, s)) = Members(q) \cup {s}
<1>1. /\ Append(q, s) \in Seq(Caller) /\ Len(q) \in Nat
      /\ Len(Append(q, s)) = Len(q) + 1
      /\ \A i \in 1..Len(q) : Append(q, s)[i] = q[i]
      /\ Append(q, s)[Len(q) + 1] = s
  OBVIOUS
<1>2. Distinct(Append(q, s))
  BY <1>1 DEF Distinct, Members
<1>3. Members(Append(q, s)) = Members(q) \cup {s}
  <2>1. ASSUME NEW x \in Members(Append(q, s)) PROVE x \in Members(q) \cup {s}
    BY <1>1 DEF Members
  <2>2. ASSUME NEW x \in Members(q) PROVE x \in Members(Append(q, s))
    <3>1. PICK i \in 1..Len(q) : x = q[i]
      BY DEF Members
    <3>2. i \in 1..Len(Append(q, s)) /\ Append(q, s)[i] = x
      BY <3>1, <1>1
    <3>3. QED
      BY <3>2 DEF Members
  <2>3. s \in Members(Append(q, s))
    <3>1. Len(q) + 1 \in 1..Len(Append(q, s))
      BY <1>1
    <3>2. QED
      BY <3>1, <1>1 DEF Members
  <2>4. QED
    BY <2>1, <2>2, <2>3
<1>4. QED
  BY <1>1, <1>2, <1>3

LEMMA MembersOf ==
    ASSUME NEW q \in Seq(Caller)
    PROVE  Members(q) \subseteq Caller
  BY DEF Members

\* What awaitToken leaves in the pipe.
LEMMA SkipType ==
    ASSUME NEW q \in Seq(Caller), NEW n \in 0..Len(q)
    PROVE  /\ SubSeq(q, n + 1, Len(q)) \in Seq(Caller)
           /\ q = <<>> => SubSeq(q, n + 1, Len(q)) = <<>>
           /\ Len(q) = 1 /\ n = 1 => SubSeq(q, n + 1, Len(q)) = <<>>
<1>1. SubSeq(q, n + 1, Len(q)) \in Seq(Caller)
  <2>1. \A i \in (n + 1)..Len(q) : q[i] \in Caller
    OBVIOUS
  <2>2. QED
    BY <2>1
<1>2. Len(SubSeq(q, n + 1, Len(q))) = Len(q) - n
  OBVIOUS
<1>3. QED
  BY <1>1, <1>2

-----------------------------------------------------------------------------
(* Types. *)

LEMMA TypeStep ==
    ASSUME TypeOK, Custody, [Next]_vars
    PROVE  TypeOK'
<1> USE CapacityAssumption, NilAssumption DEF TypeOK, PC, Slot, Goto, Hold, Custody, HandsFull, NameFree, InMap, NothingOwed
<1>1. ASSUME NEW c \in Caller, Call(c) \/ NoneIdle(c) \/ GiveUp(c) \/ SpawnFails(c)
                                \/ Initialized(c) \/ InitFails(c) \/ NotReady(c)
                                \/ EvaluateFails(c)
      PROVE  TypeOK'
  BY <1>1 DEF Call, NoneIdle, GiveUp, SpawnFails, Initialized, InitFails, NotReady,
              EvaluateFails, Err
<1>2. ASSUME NEW c \in Caller, Take(c) PROVE TypeOK'
  BY <1>2, MembersTail DEF Take, Custody, Exclusive
<1>3. ASSUME NEW c \in Caller, Grow(c) PROVE TypeOK'
  <2>1. total' \in 0..Capacity
    BY <1>3 DEF Grow, Full
  <2>2. pc' \in [Caller -> PC]
    BY <1>3 DEF Grow
  <2>3. QED
    BY <1>3, <2>1, <2>2 DEF Grow
<1>13. ASSUME NEW c \in Caller, Shrink(c) PROVE TypeOK'
  <2>1. total' \in 0..Capacity
    BY <1>13 DEF Shrink, Decrement
  <2>2. pc' \in [Caller -> PC]
    BY <1>13 DEF Shrink
  <2>3. QED
    BY <1>13, <2>1, <2>2 DEF Shrink
<1>4. ASSUME NEW c \in Caller, Spawn(c) PROVE TypeOK'
  BY <1>4 DEF Spawn
<1>5. ASSUME NEW c \in Caller, EnsureReady(c) PROVE TypeOK'
  <2>1. sess[c] \in Caller
    BY <1>5 DEF EnsureReady, Custody, Holding
  <2>2. PICK n \in 0..Len(owed[sess[c]]) : SkipTo(c, n)
    BY <1>5 DEF EnsureReady, Skip
  <2>3. owed' \in [Caller -> Seq(Caller)]
    BY <2>1, <2>2, SkipType DEF SkipTo
  <2>4. QED
    BY <1>5, <2>3 DEF EnsureReady
<1>6. ASSUME NEW c \in Caller, Discard(c) \/ ReleaseErr(c) \/ Release(c) PROVE TypeOK'
  <2> HIDE DEF Custody, HandsFull, NameFree, InMap, NothingOwed
  <2>1. CASE Discard(c)
    BY <2>1 DEF Discard, Untrack
  <2>2. CASE ReleaseErr(c)
    BY <2>2 DEF ReleaseErr, Untrack
  <2>3. CASE Release(c)
    BY <2>3 DEF Release
  <2>4. QED
    BY <1>6, <2>1, <2>2, <2>3
<1>7. ASSUME NEW c \in Caller, Close(c) PROVE TypeOK'
  <2>1. pc' \in [Caller -> PC]
    BY <1>7 DEF Close
  <2>2. sess' \in [Caller -> Caller \cup {Nil}] /\ alive' \in SUBSET Caller
    BY <1>7 DEF Close, CloseSession
  <2>3. QED
    BY <1>7, <2>1, <2>2 DEF Close
<1>14. ASSUME NEW c \in Caller, Track(c) PROVE TypeOK'
  <2>1. sess[c] \in Caller
    BY <1>14 DEF Track, Custody, Holding
  <2>2. QED
    BY <1>14, <2>1 DEF Track
<1>8. ASSUME NEW c \in Caller, NewGame(c) PROVE TypeOK'
  <2>1. sess[c] \in Caller
    BY <1>8 DEF NewGame, Custody, Holding
  <2>2. PICK n \in 0..Len(owed[sess[c]]) :
           owed' = [owed EXCEPT ![sess[c]] = Append(SubSeq(@, n + 1, Len(@)), c)]
    BY <1>8 DEF NewGame
  <2>3. owed' \in [Caller -> Seq(Caller)]
    BY <2>1, <2>2, SkipType
  <2>4. QED
    BY <1>8, <2>3 DEF NewGame
<1>9. ASSUME NEW c \in Caller, Searched(c) PROVE TypeOK'
  <2>1. sess[c] \in Caller
    BY <1>9 DEF Searched, Custody, Holding
  <2>2. owed[sess[c]] \in Seq(Caller) /\ owed[sess[c]] # <<>>
    BY <1>9, <2>1 DEF Searched
  <2>3. 1 \in 0..Len(owed[sess[c]]) /\ Head(owed[sess[c]]) \in Caller
    BY <2>2
  <2>4. owed' \in [Caller -> Seq(Caller)]
    BY <1>9, <2>1, <2>3, SkipType DEF Searched, SkipTo
  <2>5. QED
    BY <1>9, <2>3, <2>4 DEF Searched
<1>10. ASSUME NEW c \in Caller, Put(c) PROVE TypeOK'
  <2>1. sess[c] \in Caller
    BY <1>10 DEF Put, Custody, Holding
  <2>2. pc' \in [Caller -> PC] /\ sess' \in [Caller -> Caller \cup {Nil}]
    BY <1>10 DEF Put
  <2>3. tracked' \in SUBSET Caller
    BY <1>10 DEF Put
  <2>4. idle' \in Seq(Caller)
    <3>1. Append(idle, sess[c]) \in Seq(Caller)
      BY <2>1
    <3>2. QED
      BY <1>10, <3>1 DEF Put, Send
  <2>5. QED
    BY <1>10, <2>2, <2>3, <2>4 DEF Put
<1>11. ASSUME NEW c \in Caller, Expire(c) \/ Die(c) PROVE TypeOK'
  BY <1>11 DEF Expire, Die
<1>12. CASE UNCHANGED vars
  BY <1>12 DEF vars
<1>15. QED
  BY <1>1, <1>2, <1>3, <1>4, <1>5, <1>6, <1>7, <1>8, <1>9, <1>10, <1>11, <1>12,
     <1>13, <1>14
     DEF Next, Step

-----------------------------------------------------------------------------
(* Custody. *)

LEMMA CustodyStep ==
    ASSUME TypeOK, TypeOK', Custody, [Next]_vars
    PROVE  Custody'
<1> USE NilAssumption DEF TypeOK, Goto, Hold, Custody, HandsFull, NameFree, InMap, NothingOwed, Certain
<1>1. ASSUME NEW c \in Caller, Call(c) \/ NoneIdle(c) \/ GiveUp(c) \/ SpawnFails(c)
                                \/ Initialized(c) \/ InitFails(c) \/ NotReady(c)
                                \/ EvaluateFails(c) \/ Grow(c) \/ Shrink(c)
      PROVE  Custody'
  <2>1. UNCHANGED <<sess, tracked, idle, owed>>
    BY <1>1 DEF Call, NoneIdle, GiveUp, SpawnFails, Initialized, InitFails, NotReady,
              EvaluateFails, Err, Grow, Shrink
  <2>2. \E x : /\ pc' = [pc EXCEPT ![c] = x]
               /\ x \in Holding <=> pc[c] \in Holding
               /\ x \in Before  => pc[c] \in Before
               /\ x \in Holding \ {"init", "track", "closeRetry", "closeEnd"} =>
                     pc[c] \in Holding \ {"init", "track", "closeRetry", "closeEnd"}
               /\ x \in Quiet   => pc[c] \in Quiet
               /\ x # "search"
    BY <1>1 DEF Call, NoneIdle, GiveUp, SpawnFails, Initialized, InitFails, NotReady,
              EvaluateFails, Err, Grow, Shrink, Holding, Before, Quiet
  <2>3. Idle' = Idle
    BY <2>1 DEF Idle
  <2>4. QED
    BY <2>1, <2>2, <2>3 DEF Custody, Exclusive
<1>2. ASSUME NEW c \in Caller, Take(c) PROVE Custody'
  BY <1>2, MembersTail DEF Take, Custody, Exclusive, Idle, Holding, Before, Quiet
<1>3. ASSUME NEW c \in Caller, Spawn(c) PROVE Custody'
  BY <1>3 DEF Spawn, Custody, Exclusive, Idle, Holding, Before, Quiet
<1>4. ASSUME NEW c \in Caller, EnsureReady(c) PROVE Custody'
  <2>1. sess[c] \in Caller /\ owed[sess[c]] = <<>>
    BY <1>4 DEF EnsureReady, Custody, Holding, Quiet
  <2>2. owed' = owed
    BY <1>4, <2>1, SkipType DEF EnsureReady, Skip, SkipTo
  <2>3. QED
    BY <1>4, <2>2 DEF EnsureReady, Custody, Exclusive, Idle, Holding, Before, Quiet
<1>5. ASSUME NEW c \in Caller, Discard(c) PROVE Custody'
  <2>1. pc[c] = "discard" /\ idle' = idle /\ owed' = owed
    BY <1>5 DEF Discard, Untrack
  <2>2. sess[c] \in tracked
    BY <2>1 DEF Holding
  <2>3. /\ pc' = [pc EXCEPT ![c] = "closeRetry"] /\ sess' = sess
        /\ tracked' = tracked \ {sess[c]}
    BY <1>5, <2>2 DEF Discard, Untrack
  <2>4. Idle' = Idle
    BY <2>1 DEF Idle
  <2>5. QED
    BY <2>1, <2>2, <2>3, <2>4 DEF Exclusive, Holding, Before, Quiet
<1>6. ASSUME NEW c \in Caller, ReleaseErr(c) PROVE Custody'
  <2>1. pc[c] = "failed" /\ idle' = idle /\ owed' = owed
    BY <1>6 DEF ReleaseErr, Untrack
  <2>2. sess[c] \in tracked
    BY <2>1 DEF Holding
  <2>3. /\ pc' = [pc EXCEPT ![c] = "closeEnd"] /\ sess' = sess
        /\ tracked' = tracked \ {sess[c]}
    BY <1>6, <2>2 DEF ReleaseErr, Untrack
  <2>4. Idle' = Idle
    BY <2>1 DEF Idle
  <2>5. QED
    BY <2>1, <2>2, <2>3, <2>4 DEF Exclusive, Holding, Before, Quiet
<1>7. ASSUME NEW c \in Caller, Release(c) PROVE Custody'
  <2>1. pc[c] = "release" /\ idle' = idle /\ owed' = owed
    BY <1>7 DEF Release
  <2>2. sess[c] \in tracked
    BY <2>1 DEF Holding
  <2>3. /\ pc' = [pc EXCEPT ![c] = "put"] /\ sess' = sess
        /\ tracked' = tracked
    BY <1>7, <2>2 DEF Release
  <2>4. Idle' = Idle
    BY <2>1 DEF Idle
  <2>5. QED
    BY <2>1, <2>2, <2>3, <2>4 DEF Exclusive, Holding, Before, Quiet
<1>8. ASSUME NEW c \in Caller, Close(c) PROVE Custody'
  BY <1>8 DEF Close, CloseSession, Custody, Exclusive, Idle, Holding, Before, Quiet
<1>9. ASSUME NEW c \in Caller, Track(c) PROVE Custody'
  BY <1>9 DEF Track, Custody, Exclusive, Idle, Holding, Before, Quiet
<1>10. ASSUME NEW c \in Caller, NewGame(c) PROVE Custody'
  <2>1. sess[c] \in Caller /\ owed[sess[c]] = <<>> /\ Idle' = Idle /\ sess[c] \notin Idle
    BY <1>10 DEF NewGame, Exclusive, Idle, Holding, Quiet
  <2>2. PICK n \in 0..Len(owed[sess[c]]) :
           owed' = [owed EXCEPT ![sess[c]] = Append(SubSeq(@, n + 1, Len(@)), c)]
    BY <1>10 DEF NewGame
  <2>3. SubSeq(owed[sess[c]], n + 1, Len(owed[sess[c]])) = <<>>
    BY <2>1, SkipType
  <2>4. owed'[sess[c]] = <<c>> /\ \A s \in Caller \ {sess[c]} : owed'[s] = owed[s]
    <3>1. owed' = [owed EXCEPT ![sess[c]] = Append(<<>>, c)]
      BY <2>2, <2>3
    <3>2. Append(<<>>, c) = <<c>>
      OBVIOUS
    <3>3. QED
      BY <2>1, <3>1, <3>2
  <2>5. HandsFull' /\ Exclusive' /\ InMap'
    BY <1>10, <2>1 DEF NewGame, Exclusive, Holding
  <2>6. NameFree'
    BY <1>10, <2>1, <2>4 DEF NewGame, Before
  <2>7. NothingOwed'
    <3>1. \A s \in Idle' : owed'[s] = <<>>
      BY <2>1, <2>4, MembersOf DEF Idle
    <3>2. ASSUME NEW d \in Caller, d # c
          PROVE  /\ pc'[d] \in Quiet  => owed'[sess'[d]] = <<>>
                 /\ pc'[d] = "search" => owed'[sess'[d]] = <<d>>
      BY <1>10, <2>1, <2>4, <3>2 DEF NewGame, Exclusive, Holding, Quiet
    <3>3. pc'[c] = "search" /\ sess' = sess /\ "search" \notin Quiet
      BY <1>10 DEF NewGame, Quiet
    <3>4. QED
      BY <2>4, <3>1, <3>2, <3>3
  <2>8. QED
    BY <2>5, <2>6, <2>7
<1>11. ASSUME NEW c \in Caller, Searched(c) PROVE Custody'
  <2>1. sess[c] \in Caller /\ owed[sess[c]] = <<c>> /\ Idle' = Idle /\ sess[c] \notin Idle
    BY <1>11 DEF Searched, Exclusive, Idle, Holding
  <2>2. Len(owed[sess[c]]) = 1 /\ 1 \in 0..Len(owed[sess[c]])
    BY <2>1
  <2>3. SubSeq(owed[sess[c]], 1 + 1, Len(owed[sess[c]])) = <<>>
    BY <2>2, SkipType
  <2>4. owed' = [owed EXCEPT ![sess[c]] = <<>>]
    BY <1>11, <2>1, <2>3 DEF Searched, SkipTo
  <2>5. QED
    BY <1>11, <2>1, <2>4 DEF Searched, Exclusive, Holding, Before, Quiet
<1>12. ASSUME NEW c \in Caller, Put(c) PROVE Custody'
  <2>1. sess[c] \in Caller /\ sess[c] \notin Idle /\ Distinct(idle)
    BY <1>12 DEF Put, Exclusive, Holding
  <2>2. CASE Len(idle) < Capacity
    <3>1. Distinct(idle') /\ Idle' = Idle \cup {sess[c]}
      <4>1. /\ Distinct(Append(idle, sess[c]))
            /\ Members(Append(idle, sess[c])) = Members(idle) \cup {sess[c]}
        BY <2>1, MembersAppend DEF Idle
      <4>2. idle' = Append(idle, sess[c])
        BY <1>12, <2>2 DEF Put, Send
      <4>3. QED
        BY <4>1, <4>2 DEF Idle
    <3>2. /\ pc' = [pc EXCEPT ![c] = "done"] /\ sess' = [sess EXCEPT ![c] = Nil]
          /\ tracked' = tracked /\ owed' = owed /\ pc[c] = "put"
      BY <1>12, <2>2 DEF Put
    <3>3. HandsFull' /\ Exclusive'
      BY <2>1, <3>1, <3>2 DEF Exclusive, Holding
    <3>4. NameFree'
      BY <2>1, <3>1, <3>2 DEF Holding, Before
    <3>5. InMap'
      <4>1. sess[c] \in tracked
        BY <3>2 DEF Holding
      <4>2. ASSUME NEW d \in Caller, pc'[d] \in Certain PROVE sess'[d] \in tracked'
        <5>1. d # c
          BY <3>2, <4>2 DEF Holding
        <5>2. QED
          BY <3>2, <4>2, <5>1
      <4>3. QED
        BY <3>1, <3>2, <4>1, <4>2
    <3>6. NothingOwed'
      BY <2>1, <3>1, <3>2 DEF Exclusive, Holding, Quiet
    <3>7. QED
      BY <3>3, <3>4, <3>5, <3>6
  <2>3. CASE ~(Len(idle) < Capacity)
    <3>1. /\ pc' = [pc EXCEPT ![c] = "closeEnd"] /\ sess' = sess
          /\ tracked' = tracked \ {sess[c]} /\ owed' = owed /\ pc[c] = "put"
          /\ idle' = idle
      BY <1>12, <2>3 DEF Put
    <3>2. Idle' = Idle
      BY <3>1 DEF Idle
    <3>3. QED
      BY <2>1, <3>1, <3>2 DEF Exclusive, Holding, Before, Quiet
  <2>4. QED
    BY <2>2, <2>3
<1>13. ASSUME NEW c \in Caller, Expire(c) \/ Die(c) PROVE Custody'
  BY <1>13 DEF Expire, Die, Custody, Exclusive, Idle
<1>14. CASE UNCHANGED vars
  BY <1>14 DEF vars, Custody, Exclusive, Idle
<1>15. QED
  BY <1>1, <1>2, <1>3, <1>4, <1>5, <1>6, <1>7, <1>8, <1>9, <1>10, <1>11, <1>12,
     <1>13, <1>14
     DEF Next, Step

-----------------------------------------------------------------------------
(* Theorems on sessions. *)

\* What Release, discard and the sends and receives on the channel rely on: a
\* session that is acquired is tracked, owes nobody an answer, and is in one
\* place (pool.go 48-177).
THEOREM PoolCustody == Spec => [](TypeOK /\ Custody)
<1>1. Init => TypeOK /\ Custody
  BY CapacityAssumption, NilAssumption
     DEF Init, TypeOK, PC, Slot, Custody, HandsFull, Exclusive, NameFree, InMap,
         NothingOwed, Certain, Holding, Before, Quiet, Idle, Members, Distinct
<1>2. TypeOK /\ Custody /\ [Next]_vars => TypeOK' /\ Custody'
  BY TypeStep, CustodyStep
<1>3. QED
  BY <1>1, <1>2, PTL DEF Spec

\* The variables of the bucket keep their types; its counter stays between zero
\* and the capacity (pool.go 216-255).
THEOREM PoolTypeCorrect == Spec => []TypeOK
  BY PoolCustody, PTL

\* No session is in the hands of two callers, and none that somebody holds is
\* in the channel.
THEOREM OneHolder == Spec => []Exclusive
<1>1. Custody => Exclusive
  BY DEF Custody
<1>2. QED
  BY <1>1, PoolCustody, PTL

LEMMA OwnStep ==
    ASSUME TypeOK, Custody, AnswerIsOwn, [Next]_vars
    PROVE  AnswerIsOwn'
<1>1. ASSUME NEW c \in Caller, Searched(c) PROVE AnswerIsOwn'
  <2>1. owed[sess[c]] = <<c>>
    BY <1>1 DEF Searched, Goto, Custody, NothingOwed
  <2>2. Head(owed[sess[c]]) = c
    BY <2>1
  <2>3. QED
    BY <1>1, <2>2 DEF Searched, AnswerIsOwn, TypeOK
<1>2. CASE UNCHANGED answer
  BY <1>2 DEF AnswerIsOwn
<1>3. QED
  BY <1>1, <1>2
     DEF Next, Step, Call, Take, NoneIdle, Grow, GiveUp, Spawn, SpawnFails,
         Initialized, InitFails, EnsureReady, NotReady, Discard, Close, Shrink, Track,
         NewGame, EvaluateFails, ReleaseErr, Release, Put, Expire, Die, vars

\* A caller is told the move that was searched for its own position, whatever
\* searches were given up on the same engine before (session.go:100).
THEOREM OwnAnswers == Spec => []AnswerIsOwn
<1>1. Init => AnswerIsOwn
  BY DEF Init, AnswerIsOwn
<1>2. TypeOK /\ Custody /\ AnswerIsOwn /\ [Next]_vars => AnswerIsOwn'
  BY OwnStep
<1>3. QED
  BY <1>1, <1>2, PoolCustody, PTL DEF Spec

-----------------------------------------------------------------------------
(* Theorems on processes. *)

LEMMA OrphanStep ==
    ASSUME TypeOK, Custody, NoOrphan, [Next]_vars
    PROVE  NoOrphan'
<1> USE NilAssumption DEF TypeOK, NoOrphan, Custody, HandsFull, Goto, Hold
<1>1. ASSUME NEW c \in Caller, Take(c) PROVE NoOrphan'
  <2>1. /\ sess[c] = Nil
        /\ Members(Tail(idle)) = Idle \ {Head(idle)}
    BY <1>1, MembersTail DEF Take, Exclusive, Idle, Holding
  <2>2. /\ alive' = alive
        /\ sess' = [sess EXCEPT ![c] = Head(idle)]
        /\ Idle' = Idle \ {Head(idle)}
    BY <1>1, <2>1 DEF Take, Idle
  <2>3. QED
    BY <2>1, <2>2
<1>2. ASSUME NEW c \in Caller, Spawn(c) PROVE NoOrphan'
  <2>1. sess[c] = Nil /\ Idle' = Idle
    BY <1>2 DEF Spawn, Idle, Holding
  <2>2. QED
    BY <1>2, <2>1 DEF Spawn
<1>3. ASSUME NEW c \in Caller, Close(c) PROVE NoOrphan'
  <2>1. Idle' = Idle
    BY <1>3 DEF Close, Idle
  <2>2. QED
    BY <1>3, <2>1 DEF Close, CloseSession
<1>4. ASSUME NEW c \in Caller, Discard(c) \/ ReleaseErr(c) \/ Release(c) PROVE NoOrphan'
  <2>1. sess[c] \in tracked /\ idle' = idle
    BY <1>4 DEF Discard, ReleaseErr, Untrack, Release, InMap, Certain, Holding
  <2>2. alive' = alive /\ sess' = sess /\ Idle' = Idle
    BY <1>4, <2>1 DEF Discard, ReleaseErr, Untrack, Release, Idle
  <2>3. QED
    BY <2>2
<1>5. ASSUME NEW c \in Caller, Put(c) PROVE NoOrphan'
  <2>1. sess[c] \in Caller \ Idle /\ Distinct(idle) /\ alive' = alive
    BY <1>5 DEF Put, Exclusive, Holding
  <2>2. CASE Len(idle) < Capacity
    <3>1. Members(Append(idle, sess[c])) = Idle \cup {sess[c]}
      BY <2>1, MembersAppend DEF Idle
    <3>2. Idle' = Idle \cup {sess[c]} /\ sess' = [sess EXCEPT ![c] = Nil]
      BY <1>5, <2>2, <3>1 DEF Put, Send, Idle
    <3>3. QED
      BY <2>1, <3>2
  <2>3. CASE ~(Len(idle) < Capacity)
    BY <1>5, <2>3 DEF Put, Idle
  <2>4. QED
    BY <2>2, <2>3
<1>6. ASSUME NEW c \in Caller, Die(c) PROVE NoOrphan'
  BY <1>6 DEF Die, Idle
<1>7. CASE UNCHANGED <<alive, sess, idle>>
  BY <1>7 DEF Idle
<1>8. QED
  BY <1>1, <1>2, <1>3, <1>4, <1>5, <1>6, <1>7
     DEF Next, Step, Call, NoneIdle, Grow, GiveUp, SpawnFails, Initialized,
         InitFails, EnsureReady, NotReady, Shrink, Track, NewGame, Searched,
         EvaluateFails, Expire, vars

\* Every engine process that runs is idle in the channel or in somebody's
\* hands, also after a session has failed or a deadline has passed.
THEOREM NoProcessLost == Spec => []NoOrphan
<1>1. Init => NoOrphan
  BY DEF Init, NoOrphan
<1>2. TypeOK /\ Custody /\ NoOrphan /\ [Next]_vars => NoOrphan'
  BY OrphanStep
<1>3. QED
  BY <1>1, <1>2, PoolCustody, PTL DEF Spec

\* The paying callers when one of them moves from place to place.
LEMMA PayingMoves ==
    ASSUME TypeOK, NEW c \in Caller, NEW x, pc' = [pc EXCEPT ![c] = x]
    PROVE  /\ Cardinality(Paying) \in Nat
           /\ (pc[c] \in Slot <=> x \in Slot) => Paying' = Paying
           /\ pc[c] \notin Slot /\ x \in Slot =>
                 Cardinality(Paying') = Cardinality(Paying) + 1
           /\ pc[c] \in Slot /\ x \notin Slot =>
                 /\ Cardinality(Paying') = Cardinality(Paying) - 1
                 /\ Cardinality(Paying) > 0
<1>1. IsFiniteSet(Paying) /\ Cardinality(Paying) \in Nat
  <2>1. Paying \in SUBSET Caller
    BY DEF Paying
  <2>2. QED
    BY <2>1, BurstAssumption, FS_Subset, FS_CardinalityType
<1>2. ASSUME pc[c] \in Slot <=> x \in Slot PROVE Paying' = Paying
  BY <1>2 DEF TypeOK, Paying
<1>3. ASSUME pc[c] \notin Slot, x \in Slot
      PROVE  Cardinality(Paying') = Cardinality(Paying) + 1
  <2>1. c \notin Paying /\ Paying' = Paying \cup {c}
    BY <1>3 DEF TypeOK, Paying
  <2>2. QED
    BY <1>1, <2>1, FS_AddElement
<1>4. ASSUME pc[c] \in Slot, x \notin Slot
      PROVE  /\ Cardinality(Paying') = Cardinality(Paying) - 1
             /\ Cardinality(Paying) > 0
  <2>1. c \in Paying /\ Paying' = Paying \ {c}
    BY <1>4 DEF TypeOK, Paying
  <2>2. Cardinality(Paying') = Cardinality(Paying) - 1
    BY <1>1, <2>1, FS_RemoveElement
  <2>3. Cardinality(Paying) # 0
    BY <1>1, <2>1, FS_EmptySet
  <2>4. QED
    BY <1>1, <2>2, <2>3
<1>5. QED
  BY <1>1, <1>2, <1>3, <1>4

LEMMA AccountingStep ==
    ASSUME TypeOK, Custody, Accounting, [Next]_vars
    PROVE  Accounting'
<1> USE DEF TypeOK, Accounting, Goto
<1>1. ASSUME NEW c \in Caller, Take(c) PROVE Accounting'
  <2>1. Len(Tail(idle)) = Len(idle) - 1 /\ Len(idle) \in Nat
    BY <1>1, MembersTail DEF Take, Custody, Exclusive
  <2>2. /\ pc' = [pc EXCEPT ![c] = "ready"] /\ pc[c] \notin Slot /\ "ready" \in Slot
        /\ idle' = Tail(idle) /\ total' = total
    BY <1>1 DEF Take, Slot
  <2>3. Cardinality(Paying') = Cardinality(Paying) + 1 /\ Cardinality(Paying) \in Nat
    BY <2>2, PayingMoves
  <2>4. Len(idle') = Len(idle) - 1
    BY <2>1, <2>2
  <2>5. total' = total
    BY <2>2
  <2>6. total' = Len(idle') + Cardinality(Paying')
    BY <2>1, <2>3, <2>4, <2>5
  <2>7. QED
    BY <2>6
<1>2. ASSUME NEW c \in Caller, Grow(c) PROVE Accounting'
  <2>1. CASE Full
    <3>1. /\ pc' = [pc EXCEPT ![c] = "wait"] /\ pc[c] \notin Slot /\ "wait" \notin Slot
          /\ idle' = idle /\ total' = total
      BY <1>2, <2>1 DEF Grow, Slot
    <3>2. Paying' = Paying
      BY <3>1, PayingMoves
    <3>3. QED
      BY <3>1, <3>2
  <2>2. CASE ~Full
    <3>1. /\ pc' = [pc EXCEPT ![c] = "spawn"] /\ pc[c] \notin Slot /\ "spawn" \in Slot
          /\ idle' = idle /\ total' = total + 1
      BY <1>2, <2>2 DEF Grow, Slot
    <3>2. Cardinality(Paying') = Cardinality(Paying) + 1 /\ Cardinality(Paying) \in Nat
      BY <3>1, PayingMoves
    <3>3. Len(idle) \in Nat
      OBVIOUS
    <3>4. QED
      BY <3>1, <3>2, <3>3
  <2>3. QED
    BY <2>1, <2>2
<1>3. ASSUME NEW c \in Caller, Shrink(c) PROVE Accounting'
  <2>1. PICK x \in {"poll", "done"} :
           /\ pc' = [pc EXCEPT ![c] = x] /\ pc[c] \in Slot /\ x \notin Slot
           /\ idle' = idle /\ Decrement
    BY <1>3 DEF Shrink, Slot
  <2>2. /\ Cardinality(Paying') = Cardinality(Paying) - 1
        /\ Cardinality(Paying) \in Nat /\ Cardinality(Paying) > 0
    BY <2>1, PayingMoves
  <2>3. Len(idle) \in Nat
    OBVIOUS
  <2>4. total' = total - 1
    BY <2>1, <2>2, <2>3 DEF Decrement
  <2>5. QED
    BY <2>1, <2>2, <2>3, <2>4
<1>4. ASSUME NEW c \in Caller, Put(c) PROVE Accounting'
  <2>1. CASE Len(idle) < Capacity
    <3>1. /\ pc' = [pc EXCEPT ![c] = "done"] /\ pc[c] \in Slot /\ "done" \notin Slot
          /\ idle' = Append(idle, sess[c]) /\ total' = total
      BY <1>4, <2>1 DEF Put, Send, Slot
    <3>2. Cardinality(Paying') = Cardinality(Paying) - 1 /\ Cardinality(Paying) \in Nat
      BY <3>1, PayingMoves
    <3>3. Len(Append(idle, sess[c])) = Len(idle) + 1 /\ Len(idle) \in Nat
      <4>1. sess[c] \in Caller
        BY <1>4 DEF Put, Custody, HandsFull, Holding
      <4>2. QED
        BY <4>1
    <3>4. QED
      BY <3>1, <3>2, <3>3
  <2>2. CASE ~(Len(idle) < Capacity)
    <3>1. /\ pc' = [pc EXCEPT ![c] = "closeEnd"] /\ pc[c] \in Slot /\ "closeEnd" \in Slot
          /\ idle' = idle /\ total' = total
      BY <1>4, <2>2 DEF Put, Slot
    <3>2. Paying' = Paying
      BY <3>1, PayingMoves
    <3>3. QED
      BY <3>1, <3>2
  <2>3. QED
    BY <2>1, <2>2
<1>5. ASSUME NEW c \in Caller, NEW x, UNCHANGED <<idle, total>>,
             pc' = [pc EXCEPT ![c] = x], pc[c] \in Slot <=> x \in Slot
      PROVE  Accounting'
  <2>1. Paying' = Paying
    BY <1>5, PayingMoves
  <2>2. QED
    BY <1>5, <2>1
<1>6. ASSUME NEW c \in Caller, Call(c) \/ NoneIdle(c) \/ GiveUp(c) \/ Spawn(c)
                                \/ SpawnFails(c) \/ Initialized(c) \/ InitFails(c)
                                \/ EnsureReady(c) \/ NotReady(c) \/ Close(c) \/ Track(c)
                                \/ NewGame(c) \/ Searched(c) \/ EvaluateFails(c)
      PROVE  Accounting'
  <2>1. \E x : /\ pc' = [pc EXCEPT ![c] = x] /\ (pc[c] \in Slot <=> x \in Slot)
               /\ UNCHANGED <<idle, total>>
    BY <1>6 DEF Call, NoneIdle, GiveUp, Spawn, SpawnFails, Initialized, InitFails,
                EnsureReady, NotReady, Close, Track, NewGame, Searched, EvaluateFails,
                Err, Slot
  <2>2. QED
    BY <2>1, <1>5
<1>7. ASSUME NEW c \in Caller, Discard(c) \/ ReleaseErr(c) \/ Release(c)
      PROVE  Accounting'
  <2>1. sess[c] \in tracked
    BY <1>7 DEF Discard, ReleaseErr, Untrack, Release, Custody, InMap, Certain, Holding
  <2>2. \E x : /\ pc' = [pc EXCEPT ![c] = x] /\ (pc[c] \in Slot <=> x \in Slot)
               /\ UNCHANGED <<idle, total>>
    BY <1>7, <2>1 DEF Discard, ReleaseErr, Untrack, Release, Slot
  <2>3. QED
    BY <2>2, <1>5
<1>8. CASE UNCHANGED <<pc, idle, total>>
  BY <1>8 DEF Paying
<1>9. QED
  BY <1>1, <1>2, <1>3, <1>4, <1>6, <1>7, <1>8 DEF Next, Step, Expire, Die, vars

\* The counter of the bucket, kept by goroutines that share no lock while they
\* start and close processes, is exact (pool.go 216-255).
THEOREM CounterExact == Spec => []Accounting
<1>1. Init => Accounting
  <2>1. Init => Paying = {} /\ Len(idle) = 0 /\ total = 0
    BY DEF Init, Paying, Slot
  <2>2. QED
    BY <2>1, FS_EmptySet DEF Accounting
<1>2. TypeOK /\ Custody /\ Accounting /\ [Next]_vars => Accounting'
  BY AccountingStep
<1>3. QED
  BY <1>1, <1>2, PoolCustody, PTL DEF Spec

LEMMA BoundFromAccounts ==
    ASSUME TypeOK, Custody, NoOrphan, Accounting
    PROVE  ProcessBound
<1> DEFINE Hands == {c \in Caller : pc[c] \in Holding}
           Held  == {sess[c] : c \in Hands}
<1> USE DEF TypeOK
<1>1. /\ IsFiniteSet(Paying) /\ Cardinality(Paying) \in Nat
      /\ IsFiniteSet(Hands) /\ Cardinality(Hands) <= Cardinality(Paying)
      /\ Cardinality(Hands) \in Nat
  <2>1. Paying \in SUBSET Caller
    BY DEF Paying
  <2>2. Hands \in SUBSET Paying
    BY DEF Paying, Holding, Slot
  <2>3. IsFiniteSet(Paying)
    BY <2>1, BurstAssumption, FS_Subset
  <2>4. IsFiniteSet(Hands) /\ Cardinality(Hands) <= Cardinality(Paying)
    BY <2>2, <2>3, FS_Subset
  <2>5. QED
    BY <2>3, <2>4, FS_CardinalityType
<1>2. IsFiniteSet(Held) /\ Cardinality(Held) <= Cardinality(Hands)
  <2>1. [c \in Hands |-> sess[c]] \in Surjection(Hands, Held)
    BY DEF Surjection
  <2>2. QED
    BY <1>1, <2>1, FS_Surjection
<1>3. IsFiniteSet(Idle) /\ Cardinality(Idle) <= Len(idle)
  <2>1. Len(idle) \in Nat
    OBVIOUS
  <2>2. [i \in 1..Len(idle) |-> idle[i]] \in Surjection(1..Len(idle), Idle)
    BY DEF Surjection, Idle, Members
  <2>3. ExistsSurjection(1..Len(idle), Idle)
    BY <2>2 DEF ExistsSurjection
  <2>4. QED
    BY <2>1, <2>3, FS_NatSurjection, FS_SurjCardinalityBound
<1>4. alive \in SUBSET (Idle \cup Held)
  BY NilAssumption DEF NoOrphan, Custody, HandsFull
<1>5. /\ IsFiniteSet(Idle \cup Held)
      /\ Cardinality(Idle \cup Held) <= Cardinality(Idle) + Cardinality(Held)
      /\ Cardinality(Idle) \in Nat /\ Cardinality(Held) \in Nat
  <2>1. /\ IsFiniteSet(Idle \cup Held)
        /\ Cardinality(Idle \cup Held) =
              Cardinality(Idle) + Cardinality(Held) - Cardinality(Idle \cap Held)
    BY <1>2, <1>3, FS_Union
  <2>2. Cardinality(Idle \cap Held) \in Nat
    <3>1. Idle \cap Held \in SUBSET Idle
      OBVIOUS
    <3>2. QED
      BY <1>3, <3>1, FS_Subset, FS_CardinalityType
  <2>3. Cardinality(Idle) \in Nat /\ Cardinality(Held) \in Nat
    BY <1>2, <1>3, FS_CardinalityType
  <2>4. QED
    BY <2>1, <2>2, <2>3
<1>6. /\ IsFiniteSet(alive) /\ Cardinality(alive) <= Cardinality(Idle \cup Held)
      /\ Cardinality(alive) \in Nat
  BY <1>4, <1>5, FS_Subset, FS_CardinalityType
<1>7. Cardinality(Idle \cup Held) \in Nat /\ Len(idle) \in Nat /\ total <= Capacity
  BY <1>5, FS_CardinalityType
<1>8. total = Len(idle) + Cardinality(Paying)
  BY DEF Accounting
<1>9. Cardinality(alive) <= Capacity
  BY <1>1, <1>2, <1>3, <1>5, <1>6, <1>7, <1>8, CapacityAssumption
<1>10. QED
  BY <1>9 DEF ProcessBound

\* However many commands come at once and however they fail, no more engine
\* processes run than the capacity of the bucket (pool.go 190-231).
THEOREM ProcessesBounded == Spec => []ProcessBound
  BY PoolCustody, NoProcessLost, CounterExact, BoundFromAccounts, PTL

-----------------------------------------------------------------------------
(* How the engine's reply is chosen. *)

LEMMA MoveConstants ==
    /\ Prefs \in Seq(Preference)
    /\ \A i \in 1..Len(Prefs) : Prefs[i] \in Preference
    /\ Len(Prefs) \in Nat /\ DOMAIN Prefs = 1..Len(Prefs)
    /\ MultiPV \in Nat /\ Primary \in Nat /\ Primary > 0
    /\ Weights \in Seq(Nat) /\ Len(Weights) \in Nat /\ Len(Weights) > 0
<1>1. /\ Prefs \in Seq(Preference)
      /\ MultiPV \in Nat /\ Primary \in 1..MultiPV
      /\ Weights \in Seq(Nat) /\ Len(Weights) >= Primary
  BY PresetAssumption DEF ValidPreset
<1>2. QED
  BY <1>1

\* A set of numbers that has 0 and with each its successor has them all.
LEMMA Climb ==
    ASSUME NEW S, 0 \in S, \A n \in Nat : n \in S => n + 1 \in S
    PROVE  Nat \subseteq S
<1>1. SUFFICES ASSUME Nat \ S # {} PROVE FALSE
  OBVIOUS
<1>2. PICK x \in Nat \ S : \A y \in Nat \ S : ~ (<<y, x>> \in OpToRel(<, Nat))
  BY <1>1, NatLessThanWellFounded, WFMin
<1>3. x # 0 /\ x - 1 \in Nat
  OBVIOUS
<1>4. <<x - 1, x>> \in OpToRel(<, Nat)
  BY <1>3 DEF OpToRel
<1>5. x - 1 \in S
  BY <1>2, <1>3, <1>4
<1>6. x - 1 + 1 \in S
  BY <1>3, <1>5
<1>7. QED
  BY <1>3, <1>6

\* The moves of the two sides, separated.
LEMMA SidesType ==
    ASSUME NEW h \in Seq(Move)
    PROVE  /\ OfWhite(h) \in Seq(Move) /\ OfBlack(h) \in Seq(Move)
           /\ Len(OfWhite(h)) \in Nat /\ Len(OfBlack(h)) \in Nat
<1> DEFINE n == Len(h)
<1>1. n \in Nat /\ \A i \in 1..n : h[i] \in Move
  OBVIOUS
<1>2. /\ (n + 1) \div 2 \in Nat /\ n \div 2 \in Nat
      /\ \A i \in 1..((n + 1) \div 2) : 2 * i - 1 \in 1..n
      /\ \A i \in 1..(n \div 2) : 2 * i \in 1..n
  BY <1>1
<1>3. QED
  BY <1>1, <1>2 DEF OfWhite, OfBlack

\* What a preference goes on with is a move of Black.
LEMMA NextMoveType ==
    ASSUME NEW h \in Seq(Move), NEW i \in 1..Len(Prefs), Matched(Prefs[i], h)
    PROVE  NextMove(Prefs[i], h) \in BlackMove /\ NextMove(Prefs[i], h) \in Move
<1>1. Prefs[i].black \in Seq(BlackMove)
  BY MoveConstants DEF Preference
<1>2. Len(OfBlack(h)) + 1 \in 1..Len(Prefs[i].black)
  BY <1>1, SidesType DEF Matched
<1>3. QED
  BY <1>1, <1>2 DEF NextMove, Move

(* The candidates. *)

MovesOf(cands) == {cands[k].move : k \in 1..Len(cands)}

\* A move that is listed is found.
LEMMA IndexFound ==
    ASSUME NEW cands \in Seq(Candidate), NEW m \in MovesOf(cands)
    PROVE  /\ Lists(cands, m)
           /\ IndexOf(cands, m) \in 1..Len(cands)
           /\ cands[IndexOf(cands, m)].move = m
<1> DEFINE T == {i \in 1..Len(cands) : cands[i].move = m}
<1>1. T \subseteq Nat /\ T # {}
  BY DEF MovesOf
<1>2. PICK i \in T : \A j \in T : ~ (<<j, i>> \in OpToRel(<, Nat))
  BY <1>1, NatLessThanWellFounded, WFMin
<1>3. ASSUME NEW j \in 1..(i - 1) PROVE cands[j].move # m
  <2>1. i \in Nat /\ j \in Nat /\ j < i /\ j \in 1..Len(cands)
    OBVIOUS
  <2>2. <<j, i>> \in OpToRel(<, Nat)
    BY <2>1 DEF OpToRel
  <2>3. QED
    BY <1>2, <2>1, <2>2
<1>4. i \in DOMAIN cands /\ cands[i].move = m /\ \A j \in 1..(i - 1) : cands[j].move # m
  BY <1>3
<1>5. /\ IndexOf(cands, m) \in DOMAIN cands
      /\ cands[IndexOf(cands, m)].move = m
  BY <1>4 DEF IndexOf
<1>6. QED
  BY <1>4, <1>5 DEF Lists

\* A preference that is proposed adds its move, if it is not listed.
LEMMA ProposeMoves ==
    ASSUME NEW cands \in Seq(Candidate), NEW h \in Seq(Move),
           NEW i \in 1..Len(Prefs), Matched(Prefs[i], h)
    PROVE  /\ Propose(cands, Prefs[i], h) \in Seq(Candidate)
           /\ MovesOf(Propose(cands, Prefs[i], h))
                = MovesOf(cands) \cup {NextMove(Prefs[i], h)}
<1> DEFINE m == NextMove(Prefs[i], h)
           f == Prefs[i].force
           next == Propose(cands, Prefs[i], h)
<1>1. m \in Move
  BY NextMoveType
<1>2. f \in BOOLEAN
  BY MoveConstants DEF Preference
<1> HIDE DEF m, f
<1>3. CASE ~ Lists(cands, m)
  <2>1. next = Append(cands, Cand(m, f))
    BY <1>3 DEF Propose, m, f
  <2>2. Cand(m, f) \in Candidate /\ Cand(m, f).move = m
    BY <1>1, <1>2 DEF Cand, Candidate
  <2> HIDE DEF next
  <2>3. /\ next \in Seq(Candidate) /\ Len(next) = Len(cands) + 1 /\ Len(cands) \in Nat
        /\ \A k \in 1..Len(cands) : next[k] = cands[k]
        /\ next[Len(cands) + 1] = Cand(m, f)
    BY <2>1, <2>2
  <2>4. MovesOf(next) \subseteq MovesOf(cands) \cup {m}
    BY <2>2, <2>3 DEF MovesOf
  <2>5. MovesOf(cands) \subseteq MovesOf(next) /\ m \in MovesOf(next)
    BY <2>2, <2>3 DEF MovesOf
  <2>6. QED
    BY <2>3, <2>4, <2>5 DEF next, m
<1>4. CASE Lists(cands, m)
  <2> DEFINE x == IndexOf(cands, m)
             g == cands[x].forced \/ f
  <2>1. m \in MovesOf(cands)
    BY <1>4 DEF Lists, MovesOf
  <2>2. x \in 1..Len(cands)
    BY <2>1, IndexFound
  <2>3. next = [cands EXCEPT ![x] = [cands[x] EXCEPT !.forced = g]]
    BY <1>4 DEF Propose, m, f
  <2>4. cands[x] \in Candidate
    BY <2>2
  <2>5. g \in BOOLEAN
    BY <1>2, <2>4 DEF Candidate
  <2> HIDE DEF x, g
  <2>6. /\ [cands[x] EXCEPT !.forced = g] \in Candidate
        /\ [cands[x] EXCEPT !.forced = g].move = cands[x].move
    BY <2>4, <2>5 DEF Candidate
  <2> HIDE DEF next
  <2>7. /\ next \in Seq(Candidate) /\ Len(next) = Len(cands)
        /\ \A k \in 1..Len(cands) : next[k].move = cands[k].move
    BY <2>2, <2>3, <2>6
  <2>8. MovesOf(next) = MovesOf(cands)
    BY <2>7 DEF MovesOf
  <2>9. QED
    BY <2>1, <2>7, <2>8 DEF next, m
<1>5. QED
  BY <1>3, <1>4

\* The drawn preference is first, and forced if it is one that forces.
LEMMA PutFirstMoves ==
    ASSUME NEW cands \in Seq(Candidate), NEW h \in Seq(Move),
           NEW i \in 1..Len(Prefs), NextMove(Prefs[i], h) \in MovesOf(cands)
    PROVE  LET first == PutFirst(cands, Prefs[i], h) IN
           /\ first \in Seq(Candidate) /\ Len(first) > 0
           /\ MovesOf(first) \subseteq MovesOf(cands)
           /\ first[1].move = NextMove(Prefs[i], h)
           /\ Prefs[i].force => first[1].forced
<1> DEFINE m == NextMove(Prefs[i], h)
           f == Prefs[i].force
           x == IndexOf(cands, m)
           swapped == [cands EXCEPT ![1] = cands[x], ![x] = cands[1]]
           freed   == IF x # 1 /\ f THEN [swapped EXCEPT ![x].forced = FALSE]
                      ELSE swapped
           first   == PutFirst(cands, Prefs[i], h)
<1>1. f \in BOOLEAN
  BY MoveConstants DEF Preference
<1>2. x \in 1..Len(cands) /\ cands[x].move = m /\ Len(cands) \in Nat /\ 1 \in 1..Len(cands)
  BY IndexFound
<1>3. first = [freed EXCEPT ![1].forced = freed[1].forced \/ f]
  BY DEF PutFirst
<1> HIDE DEF m, f, x, first
<1>4. /\ swapped \in Seq(Candidate) /\ Len(swapped) = Len(cands)
      /\ \A k \in 1..Len(cands) : swapped[k].move \in MovesOf(cands)
      /\ swapped[1].move = m
  BY <1>2 DEF MovesOf
<1> HIDE DEF swapped
<1>5. /\ freed \in Seq(Candidate) /\ Len(freed) = Len(cands)
      /\ \A k \in 1..Len(cands) : freed[k].move \in MovesOf(cands)
      /\ freed[1].move = m
  <2>1. swapped[x] \in Candidate
    BY <1>2, <1>4
  <2>2. /\ [swapped[x] EXCEPT !.forced = FALSE] \in Candidate
        /\ [swapped[x] EXCEPT !.forced = FALSE].move = swapped[x].move
    BY <2>1 DEF Candidate
  <2>3. QED
    BY <1>2, <1>4, <2>2
<1> HIDE DEF freed
<1>6. /\ first \in Seq(Candidate) /\ Len(first) = Len(cands)
      /\ \A k \in 1..Len(cands) : first[k].move \in MovesOf(cands)
      /\ first[1].move = m
      /\ f => first[1].forced
  <2> DEFINE g == freed[1].forced \/ f
             r == [freed[1] EXCEPT !.forced = g]
  <2>1. freed[1] \in Candidate
    BY <1>2, <1>5
  <2> HIDE DEF freed
  <2>2. r \in Candidate /\ r.move = freed[1].move /\ (f => r.forced)
    BY <1>1, <2>1 DEF Candidate
  <2>3. first = [freed EXCEPT ![1] = r]
    BY <1>3
  <2> HIDE DEF r
  <2>4. QED
    BY <1>2, <1>5, <2>2, <2>3
<1>7. MovesOf(first) \subseteq MovesOf(cands)
  BY <1>6 DEF MovesOf
<1>8. QED
  BY <1>2, <1>6, <1>7 DEF first, m, f

(* The candidates step by step: before any preference, and after each. *)
Stepped(list, cands, h) ==
    \A n \in 1..Len(Prefs) :
        list[n] = IF Matched(Prefs[n], h) THEN Propose(list[n - 1], Prefs[n], h)
                  ELSE list[n - 1]

MatchedUpTo(n, h) == {j \in 1..Len(Prefs) : j <= n /\ Matched(Prefs[j], h)}

\* The recursion of the loop over the preferences has a solution.
LEMMA ProposedSteps ==
    ASSUME NEW cands, NEW h
    PROVE  \E list : /\ Proposed(cands, h) = list[Len(Prefs)]
                     /\ list[0] = cands
                     /\ Stepped(list, cands, h)
<1> DEFINE L == Len(Prefs)
           After(list, n) == IF n = 0 THEN cands
                             ELSE IF Matched(Prefs[n], h)
                                  THEN Propose(list[n - 1], Prefs[n], h)
                             ELSE list[n - 1]
           list == CHOOSE f : f = [n \in 0..L |-> After(f, n)]
           S == {k \in Nat : \E f : DOMAIN f = 0..k /\ f = [n \in 0..k |-> After(f, n)]}
<1>0. L \in Nat
  BY MoveConstants
<1>1. Proposed(cands, h) = list[L]
  BY DEF Proposed
<1>2. 0 \in S
  <2>1. [n \in 0..0 |-> cands] = [n \in 0..0 |-> After([k \in 0..0 |-> cands], n)]
    OBVIOUS
  <2>2. QED
    BY <2>1
<1>3. ASSUME NEW k \in Nat, k \in S PROVE k + 1 \in S
  <2>1. PICK f : DOMAIN f = 0..k /\ f = [n \in 0..k |-> After(f, n)]
    BY <1>3
  <2> DEFINE g == [n \in 0..(k + 1) |-> IF n = k + 1 THEN After(f, k + 1) ELSE f[n]]
  <2>2. \A n \in 0..k : g[n] = f[n]
    OBVIOUS
  <2>3. g[k + 1] = After(f, k + 1) /\ DOMAIN g = 0..(k + 1)
    OBVIOUS
  <2>4. \A n \in 0..k : f[n] = After(f, n)
    BY <2>1
  <2> HIDE DEF g
  <2>5. \A n \in 0..(k + 1) : n # 0 => n - 1 \in 0..k /\ g[n - 1] = f[n - 1]
    BY <2>2
  <2>6. \A n \in 0..(k + 1) : After(g, n) = After(f, n)
    BY <2>5
  <2>7. \A n \in 0..(k + 1) : g[n] = After(g, n)
    <3> HIDE DEF After
    <3>1. \A n \in 0..(k + 1) : n = k + 1 \/ n \in 0..k
      OBVIOUS
    <3>2. QED
      BY <2>2, <2>3, <2>4, <2>6, <3>1
  <2>8. g = [n \in 0..(k + 1) |-> After(g, n)]
    <3> HIDE DEF After
    <3>1. g = [n \in 0..(k + 1) |-> g[n]]
      BY <2>3 DEF g
    <3>2. QED
      BY <2>7, <3>1
  <2>9. QED
    BY <2>3, <2>8
<1>4. L \in S
  <2> HIDE DEF S
  <2>1. Nat \subseteq S
    BY <1>2, <1>3, Climb
  <2>2. QED
    BY <1>0, <2>1
<1>5. list = [n \in 0..L |-> After(list, n)]
  <2>1. \E f : f = [n \in 0..L |-> After(f, n)]
    BY <1>4
  <2> HIDE DEF After
  <2>2. QED
    BY <2>1
<1> HIDE DEF list
<1>6. \A n \in 0..L : list[n] = After(list, n)
  <2> HIDE DEF After
  <2>1. QED
    BY <1>5
<1>7. list[0] = cands
  BY <1>0, <1>6
<1>8. Stepped(list, cands, h)
  <2>1. \A n \in 1..L : n \in 0..L /\ n # 0
    BY <1>0
  <2>2. QED
    BY <1>6, <2>1 DEF Stepped
<1>9. QED
  BY <1>1, <1>7, <1>8

\* In the end the moves of all preferences that match are listed, and no
\* others but those the engine gave.
LEMMA ProposedMoves ==
    ASSUME NEW cands \in Seq(Candidate), NEW h \in Seq(Move)
    PROVE  /\ Proposed(cands, h) \in Seq(Candidate)
           /\ MovesOf(Proposed(cands, h)) = MovesOf(cands)
                \cup {NextMove(Prefs[j], h) : j \in {i \in 1..Len(Prefs) : Matched(Prefs[i], h)}}
<1>1. PICK list : /\ Proposed(cands, h) = list[Len(Prefs)]
                  /\ list[0] = cands
                  /\ Stepped(list, cands, h)
  BY ProposedSteps
<1> DEFINE Moves(J) == {NextMove(Prefs[j], h) : j \in J}
           S == {n \in Nat : n <= Len(Prefs) =>
                    /\ list[n] \in Seq(Candidate)
                    /\ MovesOf(list[n]) = MovesOf(cands) \cup Moves(MatchedUpTo(n, h))}
<1>2. Len(Prefs) \in Nat
  BY MoveConstants
<1>3. 0 \in S
  <2>1. MatchedUpTo(0, h) = {}
    BY <1>2 DEF MatchedUpTo
  <2>2. Moves(MatchedUpTo(0, h)) = {}
    BY <2>1
  <2>3. QED
    BY <1>1, <2>2
<1>4. ASSUME NEW n \in Nat, n \in S PROVE n + 1 \in S
  <2> SUFFICES ASSUME n + 1 <= Len(Prefs)
               PROVE  /\ list[n + 1] \in Seq(Candidate)
                      /\ MovesOf(list[n + 1])
                            = MovesOf(cands) \cup Moves(MatchedUpTo(n + 1, h))
    OBVIOUS
  <2>1. /\ list[n] \in Seq(Candidate)
        /\ MovesOf(list[n]) = MovesOf(cands) \cup Moves(MatchedUpTo(n, h))
    BY <1>2, <1>4
  <2>2. n + 1 \in 1..Len(Prefs) /\ (n + 1) - 1 = n
    BY <1>2
  <2>3. list[n + 1] = IF Matched(Prefs[n + 1], h) THEN Propose(list[n], Prefs[n + 1], h)
                      ELSE list[n]
    BY <1>1, <2>2 DEF Stepped
  <2>4. CASE Matched(Prefs[n + 1], h)
    <3>1. MatchedUpTo(n + 1, h) = MatchedUpTo(n, h) \cup {n + 1}
      BY <1>2, <2>2, <2>4 DEF MatchedUpTo
    <3>2. Moves(MatchedUpTo(n + 1, h)) = Moves(MatchedUpTo(n, h)) \cup {NextMove(Prefs[n + 1], h)}
      BY <3>1
    <3> HIDE DEF Moves
    <3>3. QED
      BY <2>1, <2>2, <2>3, <2>4, <3>2, ProposeMoves
  <2>5. CASE ~ Matched(Prefs[n + 1], h)
    <3>1. MatchedUpTo(n + 1, h) = MatchedUpTo(n, h)
      BY <1>2, <2>2, <2>5 DEF MatchedUpTo
    <3>2. QED
      BY <2>1, <2>3, <2>5, <3>1
  <2>6. QED
    BY <2>4, <2>5
<1>5. Len(Prefs) \in S
  <2> HIDE DEF S
  <2>1. Nat \subseteq S
    BY <1>3, <1>4, Climb
  <2>2. QED
    BY <1>2, <2>1
<1>6. MatchedUpTo(Len(Prefs), h) = {i \in 1..Len(Prefs) : Matched(Prefs[i], h)}
  BY <1>2 DEF MatchedUpTo
<1>7. QED
  BY <1>1, <1>2, <1>5, <1>6

(* The choice. *)

\* Whatever is chosen was a candidate; a forced first candidate is chosen.
LEMMA ChosenMoves ==
    ASSUME NEW cands \in Seq(Candidate), Len(cands) > 0, NEW weights
    PROVE  /\ Chosen(cands, weights) \subseteq MovesOf(cands)
           /\ cands[1].forced => Chosen(cands, weights) = {cands[1].move}
<1> DEFINE primary == 1..Lesser(Primary, Len(cands))
           forced  == {i \in primary : cands[i].forced}
           first   == {i \in forced : \A j \in forced : i <= j}
           weighed == {i \in primary : weights[i] > 0}
           drawn   == IF forced # {} THEN first
                      ELSE IF weighed = {} THEN {} ELSE {1} \cup weighed
<1>1. Chosen(cands, weights) = {cands[i].move : i \in drawn}
  BY DEF Chosen
<1>2. primary \subseteq 1..Len(cands) /\ 1 \in primary
  BY MoveConstants DEF Lesser
<1> HIDE DEF primary
<1>3. drawn \subseteq 1..Len(cands)
  BY <1>2
<1>4. ASSUME cands[1].forced PROVE drawn = {1}
  <2>1. 1 \in forced
    BY <1>2, <1>4
  <2>2. \A i \in forced : i \in Nat /\ 1 <= i
    BY <1>2
  <2> HIDE DEF forced
  <2>3. first = {1}
    BY <2>1, <2>2
  <2>4. QED
    BY <2>1, <2>3
<1> HIDE DEF drawn
<1>5. QED
  BY <1>1, <1>3, <1>4 DEF MovesOf

\* The catalogue: its moves are Black's, and in the lines it follows.
LEMMA CatalogMovesLegal ==
    ASSUME NEW h \in Seq(Move), NEW m \in CatalogMoves(h)
    PROVE  /\ Len(h) % 2 = 1
           /\ m \in Lines(h) \cap BlackMove
<1> DEFINE found == [e \in {d \in Catalog : d.eco \in Tokens} |-> LookupCatalog(h, e)]
<1>1. m \in UNION {DOMAIN found[e] : e \in DOMAIN found}
  BY DEF CatalogMoves
<1>2. PICK e \in Catalog : m \in DOMAIN LookupCatalog(h, e)
  BY <1>1
<1> DEFINE lines == IF Len(h) % 2 = 0 THEN {}
                    ELSE {l \in e.lines : MoveAfter(l, h) /\ l[Len(h) + 1].weight > 0}
<1>3. m \in {l[Len(h) + 1].move : l \in lines}
  BY <1>2 DEF LookupCatalog
<1>4. PICK l \in lines : m = l[Len(h) + 1].move
  BY <1>3
<1>5. /\ Len(h) % 2 = 1 /\ l \in e.lines /\ MoveAfter(l, h)
  BY <1>4
<1>6. /\ l \in Seq([move : Move, weight : Nat])
      /\ \A i \in DOMAIN l : l[i].move \in IF i % 2 = 1 THEN WhiteMove ELSE BlackMove
  BY <1>5, CatalogAssumption
<1>7. Len(h) + 1 \in DOMAIN l /\ (Len(h) + 1) % 2 # 1
  <2>1. Len(h) \in Nat /\ Len(l) \in Nat /\ DOMAIN l = 1..Len(l)
    BY <1>6
  <2>2. Len(l) > Len(h)
    BY <1>5 DEF MoveAfter
  <2>3. \A n \in Nat : n % 2 = 1 => (n + 1) % 2 # 1
    OBVIOUS
  <2>4. (Len(h) + 1) % 2 # 1
    BY <1>5, <2>1, <2>3
  <2>5. Len(h) + 1 \in DOMAIN l
    BY <2>1, <2>2
  <2>6. QED
    BY <2>4, <2>5
<1>8. m \in BlackMove
  BY <1>4, <1>6, <1>7
<1>9. m \in Lines(h)
  BY <1>4, <1>5 DEF Lines
<1>10. QED
  BY <1>5, <1>8, <1>9

\* Sequences written as functions, and with an element put before them.
LEMMA FunctionIsSeq ==
    ASSUME NEW S, NEW n \in Nat, NEW f \in [1..n -> S]
    PROVE  f \in Seq(S)
  OBVIOUS

LEMMA FirstAndRest ==
    ASSUME NEW S, NEW c \in S, NEW rest \in Seq(S)
    PROVE  /\ <<c>> \o rest \in Seq(S) /\ Len(<<c>> \o rest) > 0
           /\ (<<c>> \o rest)[1] = c
  OBVIOUS

LEMMA SingleCandidate ==
    ASSUME NEW S, NEW c \in S
    PROVE  <<c>> \in Seq(S) /\ Len(<<c>>) > 0 /\ <<c>>[1] = c
  OBVIOUS

\* A drawn move of the catalogue is the first candidate and forced.
LEMMA PolyglotMoves ==
    ASSUME NEW moves \in SUBSET Move, NEW m \in moves
    PROVE  /\ Polyglot(moves, m) \in Seq(Candidate) /\ Len(Polyglot(moves, m)) > 0
           /\ Polyglot(moves, m)[1] = Cand(m, TRUE)
<1> DEFINE rest == moves \ {m}
           n == Cardinality(moves) - 1
           tail == [i \in 1..n |-> Cand(SetToSeq(rest)[i], FALSE)]
<1>1. IsFiniteSet(moves) /\ IsFiniteSet(rest)
  BY MoveAssumption, FS_Subset
<1>2. n = Cardinality(rest) /\ n \in Nat
  BY <1>1, FS_RemoveElement, FS_CardinalityType
<1>3. \E f \in [1..n -> rest] : IsInjective(f)
  <2>1. ExistsBijection(1..n, rest)
    BY <1>1, <1>2, FS_CardinalityType
  <2>2. QED
    BY <2>1 DEF ExistsBijection, Bijection, Injection, IsInjective
<1>4. SetToSeq(rest) \in [1..n -> rest]
  BY <1>2, <1>3 DEF SetToSeq
<1>5. \A i \in 1..n : Cand(SetToSeq(rest)[i], FALSE) \in Candidate
  BY <1>4 DEF Cand, Candidate
<1>6. tail \in Seq(Candidate)
  <2>1. tail \in [1..n -> Candidate]
    BY <1>5
  <2> HIDE DEF tail, n
  <2>2. QED
    BY <1>2, <2>1, FunctionIsSeq
<1>7. Cand(m, TRUE) \in Candidate
  BY DEF Cand, Candidate
<1>8. Polyglot(moves, m) = <<Cand(m, TRUE)>> \o tail
  BY DEF Polyglot
<1> HIDE DEF tail
<1>9. QED
  BY <1>6, <1>7, <1>8, FirstAndRest

(* What an evaluation gives. *)

MatchedPrefs(h) == {i \in 1..Len(Prefs) : Matched(Prefs[i], h)}
ForcedPrefs(h)  == {i \in MatchedPrefs(h) : Prefs[i].force}

\* The preferences leave the engine's candidates and add their own; one that
\* forces, if there is one, decides.
LEMMA PreferredMoves ==
    ASSUME NEW cands \in Seq(Candidate), Len(cands) > 0, NEW weights,
           NEW h \in Seq(Move), NEW p \in Preferred(cands, weights, h)
    PROVE  /\ p.cands \in Seq(Candidate) /\ Len(p.cands) > 0
           /\ MovesOf(p.cands) \subseteq MovesOf(cands)
                \cup {NextMove(Prefs[j], h) : j \in MatchedPrefs(h)}
           /\ ForcedPrefs(h) # {} =>
                /\ p.cands[1].forced
                /\ p.cands[1].move \in {NextMove(Prefs[i], h) : i \in ForcedPrefs(h)}
<1> DEFINE list  == Proposed(cands, h)
           drawn == IF ForcedPrefs(h) # {} THEN ForcedPrefs(h) ELSE MatchedPrefs(h)
<1>1. DOMAIN Prefs = 1..Len(Prefs)
  BY MoveConstants
<1>2. CASE MatchedPrefs(h) = {}
  <2>1. p.cands = cands
    BY <1>1, <1>2 DEF Preferred, MatchedPrefs
  <2>2. ForcedPrefs(h) = {}
    BY <1>2 DEF ForcedPrefs
  <2>3. QED
    BY <2>1, <2>2
<1>3. CASE MatchedPrefs(h) # {}
  <2>1. PICK i \in drawn : p.cands = PutFirst(list, Prefs[i], h)
    BY <1>1, <1>3 DEF Preferred, MatchedPrefs, ForcedPrefs
  <2>2. i \in MatchedPrefs(h) /\ i \in 1..Len(Prefs)
    BY DEF ForcedPrefs, MatchedPrefs
  <2>3. /\ list \in Seq(Candidate)
        /\ MovesOf(list) = MovesOf(cands) \cup {NextMove(Prefs[j], h) : j \in MatchedPrefs(h)}
    BY ProposedMoves DEF MatchedPrefs
  <2> HIDE DEF list
  <2>4. NextMove(Prefs[i], h) \in MovesOf(list)
    BY <2>2, <2>3
  <2>5. /\ p.cands \in Seq(Candidate) /\ Len(p.cands) > 0
        /\ MovesOf(p.cands) \subseteq MovesOf(list)
        /\ p.cands[1].move = NextMove(Prefs[i], h)
        /\ Prefs[i].force => p.cands[1].forced
    BY <2>1, <2>2, <2>3, <2>4, PutFirstMoves
  <2>6. ASSUME ForcedPrefs(h) # {} PROVE i \in ForcedPrefs(h) /\ Prefs[i].force
    BY <2>6 DEF ForcedPrefs
  <2>7. QED
    BY <2>3, <2>5, <2>6
<1>4. QED
  BY <1>2, <1>3

\* A preference the game is in goes on with a legal move.
LEMMA InLineLegal ==
    ASSUME NEW h \in Seq(Move), NEW legal \in Replies(h),
           NEW i \in MatchedPrefs(h), InLine(Prefs[i], h)
    PROVE  NextMove(Prefs[i], h) \in legal
<1> DEFINE w == OfWhite(h)
           v == Prefs[i].white
<1>1. i \in 1..Len(Prefs) /\ i \in DOMAIN Prefs /\ Matched(Prefs[i], h)
  BY MoveConstants DEF MatchedPrefs
<1>2. v \in Seq(WhiteMove) /\ w \in Seq(Move)
  BY <1>1, MoveConstants, SidesType DEF Preference
<1>3. Len(w) <= Len(v) /\ \A k \in 1..Len(w) : w[k] = v[k]
  BY <1>1, <1>2 DEF InLine, Matched, Lesser
<1> HIDE DEF w, v
<1>4. IsPrefix(w, v)
  <2>1. Len(w) \in Nat /\ Len(v) \in Nat
    BY <1>2
  <2>2. SubSeq(w, 1, Len(w)) = SubSeq(v, 1, Len(w))
    BY <1>2, <1>3, <2>1
  <2>3. QED
    BY <1>3, <2>2 DEF IsPrefix
<1>5. Len(h) % 2 = 1 /\ Len(OfBlack(h)) < Len(Prefs[i].black) /\ IsPrefix(OfBlack(h), Prefs[i].black)
  BY <1>1 DEF Matched
<1>6. NextMove(Prefs[i], h) \in Lines(h)
  BY <1>1, <1>4, <1>5 DEF NextMove, Lines, w, v
<1>7. NextMove(Prefs[i], h) \in Own(h)
  BY <1>1, <1>5, NextMoveType DEF Own
<1>8. QED
  BY <1>6, <1>7 DEF Replies

Playable(r) == \/ r.chosen \in r.legal
               \/ \E i \in DOMAIN Prefs :
                     /\ Matched(Prefs[i], r.asked)
                     /\ ~InLine(Prefs[i], r.asked)
                     /\ NextMove(Prefs[i], r.asked) = r.chosen

Honoured(r) ==
    r.source = "engine" =>
        \/ ForcedPrefs(r.asked) = {}
        \/ r.chosen \in {NextMove(Prefs[i], r.asked) : i \in ForcedPrefs(r.asked)}

\* The engine's own answers are evaluations that can be played and honour the
\* preferences.
LEMMA SearchedReply ==
    ASSUME NEW h \in Seq(Move), NEW legal \in Replies(h), NEW s \in Listed(legal),
           NEW weights,
           NEW p \in Preferred([i \in DOMAIN s |-> Cand(s[i], FALSE)], weights, h),
           NEW m \in Chosen(p.cands, p.weights)
    PROVE  LET r == Result(h, legal, "engine", p.cands, m) IN
           r \in Evaluation /\ Playable(r) /\ Honoured(r)
<1> DEFINE cands == [i \in DOMAIN s |-> Cand(s[i], FALSE)]
           r == Result(h, legal, "engine", p.cands, m)
<1>1. legal \in SUBSET Move
  BY DEF Replies, Own, Move
<1>2. PICK n \in 1..MultiPV : s \in [1..n -> legal]
  BY DEF Listed
<1>3. n \in Nat /\ n > 0
  BY MoveConstants
<1>4. \A i \in 1..n : Cand(s[i], FALSE) \in Candidate /\ Cand(s[i], FALSE).move \in legal
  BY <1>1, <1>2 DEF Cand, Candidate
<1>5. cands \in [1..n -> Candidate]
  BY <1>2, <1>4
<1>6. \A i \in 1..n : cands[i].move \in legal
  BY <1>2, <1>4
<1> HIDE DEF cands
<1>7. cands \in Seq(Candidate) /\ Len(cands) = n
  BY <1>3, <1>5, FunctionIsSeq
<1>8. MovesOf(cands) \subseteq legal
  BY <1>6, <1>7 DEF MovesOf
<1>9. /\ p.cands \in Seq(Candidate) /\ Len(p.cands) > 0
      /\ MovesOf(p.cands) \subseteq MovesOf(cands)
           \cup {NextMove(Prefs[j], h) : j \in MatchedPrefs(h)}
      /\ ForcedPrefs(h) # {} =>
           /\ p.cands[1].forced
           /\ p.cands[1].move \in {NextMove(Prefs[i], h) : i \in ForcedPrefs(h)}
  BY <1>3, <1>7, PreferredMoves DEF cands
<1>10. /\ m \in MovesOf(p.cands)
       /\ p.cands[1].forced => m = p.cands[1].move
  BY <1>9, ChosenMoves
<1>11. m \in legal \/ \E j \in MatchedPrefs(h) : m = NextMove(Prefs[j], h)
  BY <1>8, <1>9, <1>10
<1>12. m \in Move
  BY <1>1, <1>11, NextMoveType DEF MatchedPrefs
<1>13. /\ r.asked = h /\ r.legal = legal /\ r.source = "engine"
       /\ r.cands = p.cands /\ r.chosen = m
       /\ r \in Evaluation
  BY <1>1, <1>9, <1>12 DEF Result, Evaluation, Source
<1> HIDE DEF r
<1>14. Playable(r)
  <2>1. ASSUME NEW j \in MatchedPrefs(h), m = NextMove(Prefs[j], h), InLine(Prefs[j], h)
        PROVE  m \in legal
    BY <2>1, InLineLegal
  <2>2. QED
    BY <1>11, <1>13, <2>1, MoveConstants DEF Playable, MatchedPrefs
<1>15. Honoured(r)
  BY <1>9, <1>10, <1>13 DEF Honoured
<1>16. QED
  BY <1>13, <1>14, <1>15 DEF r

\* So are the answers of the book and of the catalogue, which give one forced
\* candidate that is legal.
LEMMA OpeningReply ==
    ASSUME NEW h \in Seq(Move), NEW legal \in Replies(h), NEW m \in legal,
           NEW source \in {"catalog", "book"}, NEW cands \in Seq(Candidate),
           Len(cands) > 0, cands[1] = Cand(m, TRUE), NEW weights,
           NEW c \in Chosen(cands, weights)
    PROVE  LET r == Result(h, legal, source, cands, c) IN
           r \in Evaluation /\ Playable(r) /\ Honoured(r)
<1>1. legal \in SUBSET Move
  BY DEF Replies, Own, Move
<1>2. Cand(m, TRUE).forced /\ Cand(m, TRUE).move = m
  BY DEF Cand
<1>3. c = m
  BY <1>2, ChosenMoves
<1>4. source # "engine" /\ source \in Source
  BY DEF Source
<1>5. QED
  BY <1>1, <1>3, <1>4 DEF Result, Evaluation, Playable, Honoured

\* Every evaluation answers what it was asked.
LEMMA EvaluationReply ==
    ASSUME NEW h \in Seq(Move), NEW legal \in Replies(h),
           NEW e \in Evaluations(h, legal)
    PROVE  /\ e.out \in Evaluation /\ Playable(e.out) /\ Honoured(e.out)
           /\ e.out.asked = h /\ e.out.legal = legal
<1>1. legal \in SUBSET Move
  BY DEF Replies, Own, Move
<1> DEFINE outcome(source, cands, weights) ==
             {[out |-> Result(h, legal, source, cands, m), weights |-> weights] :
                 m \in Chosen(cands, weights)}
           searched(s) == Preferred([i \in DOMAIN s |-> Cand(s[i], FALSE)], shared, h)
<1>2. \/ \E m \in CatalogMoves(h) :
            \E c \in Chosen(Polyglot(CatalogMoves(h), m), shared) :
               e.out = Result(h, legal, "catalog", Polyglot(CatalogMoves(h), m), c)
      \/ \E m \in legal : \E c \in Chosen(<<Cand(m, TRUE)>>, shared) :
            e.out = Result(h, legal, "book", <<Cand(m, TRUE)>>, c)
      \/ \E s \in Listed(legal) :
            \E p \in Preferred([i \in DOMAIN s |-> Cand(s[i], FALSE)], shared, h) :
               \E c \in Chosen(p.cands, p.weights) :
                  e.out = Result(h, legal, "engine", p.cands, c)
  <2>1. \/ e \in UNION {outcome("catalog", Polyglot(CatalogMoves(h), m), shared) :
                          m \in CatalogMoves(h)}
        \/ e \in UNION {outcome("book", <<Cand(m, TRUE)>>, shared) :
                          m \in IF Len(h) % 2 = 1 THEN legal ELSE {}}
        \/ e \in UNION {outcome("engine", p.cands, p.weights) :
                          p \in UNION {searched(s) : s \in Listed(legal)}}
    BY Zenon DEF Evaluations
  <2>2. ASSUME NEW source, NEW cands, NEW weights, e \in outcome(source, cands, weights)
        PROVE  \E c \in Chosen(cands, weights) : e.out = Result(h, legal, source, cands, c)
    BY <2>2
  <2> HIDE DEF outcome, searched
  <2>3. CASE e \in UNION {outcome("catalog", Polyglot(CatalogMoves(h), m), shared) :
                            m \in CatalogMoves(h)}
    BY <2>2, <2>3
  <2>4. CASE e \in UNION {outcome("book", <<Cand(m, TRUE)>>, shared) :
                            m \in IF Len(h) % 2 = 1 THEN legal ELSE {}}
    <3>1. PICK m \in legal : e \in outcome("book", <<Cand(m, TRUE)>>, shared)
      BY <2>4
    <3>2. \E c \in Chosen(<<Cand(m, TRUE)>>, shared) :
             e.out = Result(h, legal, "book", <<Cand(m, TRUE)>>, c)
      BY <2>2, <3>1
    <3>3. QED
      BY <3>2
  <2>5. CASE e \in UNION {outcome("engine", p.cands, p.weights) :
                            p \in UNION {searched(s) : s \in Listed(legal)}}
    <3>1. PICK s \in Listed(legal) : \E p \in searched(s) : e \in outcome("engine", p.cands, p.weights)
      BY <2>5
    <3>2. PICK p \in searched(s) : e \in outcome("engine", p.cands, p.weights)
      BY <3>1
    <3>3. \E c \in Chosen(p.cands, p.weights) : e.out = Result(h, legal, "engine", p.cands, c)
      BY <2>2, <3>2
    <3>4. QED
      BY <3>3 DEF searched
  <2>6. QED
    BY <2>1, <2>3, <2>4, <2>5
<1>3. CASE \E m \in CatalogMoves(h) :
              \E c \in Chosen(Polyglot(CatalogMoves(h), m), shared) :
                 e.out = Result(h, legal, "catalog", Polyglot(CatalogMoves(h), m), c)
  <2>1. PICK m \in CatalogMoves(h) :
              \E c \in Chosen(Polyglot(CatalogMoves(h), m), shared) :
                 e.out = Result(h, legal, "catalog", Polyglot(CatalogMoves(h), m), c)
    BY <1>3
  <2> DEFINE cands == Polyglot(CatalogMoves(h), m)
  <2>2. PICK c \in Chosen(cands, shared) : e.out = Result(h, legal, "catalog", cands, c)
    BY <2>1
  <2>3. CatalogMoves(h) \subseteq Move
    BY CatalogMovesLegal DEF Move
  <2>4. cands \in Seq(Candidate) /\ Len(cands) > 0 /\ cands[1] = Cand(m, TRUE)
    BY <2>3, PolyglotMoves
  <2>5. m \in legal
    BY CatalogMovesLegal DEF Replies, Own
  <2> HIDE DEF cands
  <2>6. e.out \in Evaluation /\ Playable(e.out) /\ Honoured(e.out)
    BY <2>2, <2>4, <2>5, OpeningReply
  <2>7. QED
    BY <2>2, <2>6 DEF Result
<1>4. CASE \E m \in legal : \E c \in Chosen(<<Cand(m, TRUE)>>, shared) :
              e.out = Result(h, legal, "book", <<Cand(m, TRUE)>>, c)
  <2>1. PICK m \in legal : \E c \in Chosen(<<Cand(m, TRUE)>>, shared) :
              e.out = Result(h, legal, "book", <<Cand(m, TRUE)>>, c)
    BY <1>4
  <2> DEFINE cands == <<Cand(m, TRUE)>>
  <2>2. PICK c \in Chosen(cands, shared) : e.out = Result(h, legal, "book", cands, c)
    BY <2>1
  <2>3. Cand(m, TRUE) \in Candidate
    BY <1>1 DEF Cand, Candidate
  <2>4. cands \in Seq(Candidate) /\ Len(cands) > 0 /\ cands[1] = Cand(m, TRUE)
    BY <2>3, SingleCandidate
  <2> HIDE DEF cands
  <2>5. e.out \in Evaluation /\ Playable(e.out) /\ Honoured(e.out)
    BY <2>2, <2>4, OpeningReply
  <2>6. QED
    BY <2>2, <2>5 DEF Result
<1>5. CASE \E s \in Listed(legal) :
              \E p \in Preferred([i \in DOMAIN s |-> Cand(s[i], FALSE)], shared, h) :
                 \E c \in Chosen(p.cands, p.weights) :
                    e.out = Result(h, legal, "engine", p.cands, c)
  <2>1. e.out \in Evaluation /\ Playable(e.out) /\ Honoured(e.out)
    BY <1>5, SearchedReply
  <2>2. QED
    BY <1>5, <2>1 DEF Result
<1>6. QED
  BY <1>2, <1>3, <1>4, <1>5

-----------------------------------------------------------------------------
MoveInv ==
    /\ MoveTypeOK
    /\ WeightsKept
    /\ reply # NoReply => Playable(reply) /\ Honoured(reply)

\* The games of a process are played with the weights of the preset, and the
\* latest evaluation is a legal reply that honours what is forced.
LEMMA MoveInvariant == MoveSpec => []MoveInv
<1>1. MoveInit => MoveInv
  BY MoveConstants DEF MoveInit, MoveInv, MoveTypeOK, WeightsKept
<1>2. MoveInv /\ [MoveNext]_moveVars => MoveInv'
  <2> SUFFICES ASSUME MoveInv, [MoveNext]_moveVars PROVE MoveInv'
    OBVIOUS
  <2> USE DEF MoveInv, MoveTypeOK, WeightsKept
  <2>1. ASSUME NEW w \in WhiteMove, Play(w) PROVE MoveInv'
    <3> DEFINE h == Append(history, w)
    <3>1. h \in Seq(Move)
      BY DEF Move
    <3>2. PICK legal \in Replies(h) : \E e \in Evaluations(h, legal) :
             /\ reply' = e.out
             /\ shared' = Kept(e)
             /\ history' = IF e.out.chosen \in legal THEN Append(h, e.out.chosen)
                           ELSE history
      BY <2>1 DEF Play
    <3>3. PICK e \in Evaluations(h, legal) :
             /\ reply' = e.out
             /\ shared' = Kept(e)
             /\ history' = IF e.out.chosen \in legal THEN Append(h, e.out.chosen)
                           ELSE history
      BY <3>2
    <3>4. e.out \in Evaluation /\ Playable(e.out) /\ Honoured(e.out)
      BY <3>1, EvaluationReply
    <3>5. e.out.chosen \in Move
      BY <3>4 DEF Evaluation
    <3> HIDE DEF h
    <3>6. history' \in Seq(Move)
      BY <3>1, <3>3, <3>5
    <3>7. QED
      BY <3>3, <3>4, <3>6 DEF Kept
  <2>2. CASE Assist
    <3>1. PICK legal \in Replies(history) : \E e \in Evaluations(history, legal) :
             reply' = e.out /\ shared' = Kept(e)
      BY <2>2 DEF Assist
    <3>2. PICK e \in Evaluations(history, legal) : reply' = e.out /\ shared' = Kept(e)
      BY <3>1
    <3>3. e.out \in Evaluation /\ Playable(e.out) /\ Honoured(e.out)
      BY EvaluationReply
    <3>4. QED
      BY <2>2, <3>2, <3>3 DEF Assist, Kept
  <2>3. CASE Restart
    BY <2>3 DEF Restart
  <2>4. CASE UNCHANGED moveVars
    BY <2>4 DEF moveVars
  <2>5. QED
    BY <2>1, <2>2, <2>3, <2>4 DEF MoveNext
<1>3. QED
  BY <1>1, <1>2, PTL DEF MoveSpec

\* The moves, the weights and the latest evaluation keep their types.
THEOREM MoveTypeCorrect == MoveSpec => []MoveTypeOK
<1>1. MoveInv => MoveTypeOK
  BY DEF MoveInv
<1>2. QED
  BY <1>1, MoveInvariant, PTL

\* Whatever the catalogue, the preferences and the engine propose, the reply
\* can be made on the board, but past the end of a preference's white moves.
THEOREM ReplyCanBeMade == MoveSpec => []LegalReply
<1>1. MoveInv => LegalReply
  BY DEF MoveInv, LegalReply, Playable
<1>2. QED
  BY <1>1, MoveInvariant, PTL

\* If preferences that force match, one of their moves is the reply of the
\* engine, whatever it listed and however many preferences there are.
THEOREM ForcedIsPlayed == MoveSpec => []ForcedHonoured
<1>1. MoveInv => ForcedHonoured
  <2>1. \A r : ForcedPrefs(r.asked)
               = {i \in DOMAIN Prefs : Prefs[i].force /\ Matched(Prefs[i], r.asked)}
    BY MoveConstants DEF ForcedPrefs, MatchedPrefs
  <2>2. QED
    BY <2>1 DEF MoveInv, ForcedHonoured, Honoured
<1>2. QED
  BY <1>1, MoveInvariant, PTL

\* The preset's weights are as configured, in every game of the process.
THEOREM PresetKept == MoveSpec => []WeightsKept
<1>1. MoveInv => WeightsKept
  BY DEF MoveInv
<1>2. QED
  BY <1>1, MoveInvariant, PTL
=============================================================================
