------------------------- MODULE SoloSessionProofs -------------------------
(***************************************************************************)
(* For any users, names, games and goroutines, and whatever fails: no game *)
(* counts twice, and a stored session waits for its player.  As long as    *)
(* nothing fails or overlaps, every recorded game counts and is closed,    *)
(* and each command is one step of SoloGame.                               *)
(***************************************************************************)
EXTENDS SoloSession, TLAPS

(* How a step changes one command. *)

LEMMA Busy ==
    ASSUME TypeOK, NEW h \in Handler, cmd[h].pc # "idle"
    PROVE  cmd[h] \in Command
  BY DEF TypeOK, Idle

LEMMA GoStep ==
    ASSUME TypeOK, NEW h \in Handler, cmd[h].pc # "idle",
           NEW to \in PC \ {"idle"}, Go(h, to)
    PROVE  \E x \in Command :
              /\ cmd' = [cmd EXCEPT ![h] = x]
              /\ x.pc = to /\ x.op = cmd[h].op /\ x.user = cmd[h].user
              /\ x.player = cmd[h].player /\ x.draft = cmd[h].draft
              /\ x.prof = cmd[h].prof
<1>1. cmd[h] \in Command
  BY Busy
<1>2. [cmd[h] EXCEPT !.pc = to] \in Command
  BY <1>1 DEF Command
<1>3. cmd' = [cmd EXCEPT ![h] = [cmd[h] EXCEPT !.pc = to]]
  BY DEF Go
<1>4. QED
  BY <1>1, <1>2, <1>3 DEF Command

Prof(h, to, t) == cmd' = [cmd EXCEPT ![h].pc = to, ![h].prof = t]

LEMMA ProfStep ==
    ASSUME TypeOK, NEW h \in Handler, cmd[h].pc # "idle",
           NEW to \in PC \ {"idle"}, NEW t \in Tally, Prof(h, to, t)
    PROVE  \E x \in Command :
              /\ cmd' = [cmd EXCEPT ![h] = x]
              /\ x.pc = to /\ x.op = cmd[h].op /\ x.user = cmd[h].user
              /\ x.player = cmd[h].player /\ x.draft = cmd[h].draft /\ x.prof = t
<1>1. cmd[h] \in Command
  BY Busy
<1>2. [cmd[h] EXCEPT !.pc = to, !.prof = t] \in Command
  BY <1>1 DEF Command
<1>3. cmd' = [cmd EXCEPT ![h] = [cmd[h] EXCEPT !.pc = to, !.prof = t]]
  BY DEF Prof
<1>4. QED
  BY <1>1, <1>2, <1>3 DEF Command

-----------------------------------------------------------------------------
(* Steps that record and count nothing. *)

LEMMA Uncounted ==
    ASSUME NEW p \in Player
    PROVE  /\ Zero \in Tally /\ Backed(Zero, p)
           /\ \A g \in Uuid : Unknown(Zero, g)
<1>1. Zero \in Tally /\ \A e \in Uuid \X Result : Zero[e] = 0
  BY DEF Zero, Tally
<1>2. Backed(Zero, p)
  BY <1>1 DEF Backed
<1>3. \A g \in Uuid : Unknown(Zero, g)
  BY <1>1 DEF Unknown
<1>4. QED
  BY <1>1, <1>2, <1>3

LEMMA CopiesKept ==
    ASSUME Inductive, NEW h \in Handler, NEW x \in Command \cup {Idle},
           cmd' = [cmd EXCEPT ![h] = x],
           UNCHANGED <<archive, db>>,
           \/ cache' = cache
           \/ /\ cmd[h] \in Command /\ cmd[h].prof # Nil
              /\ cache' = [cache EXCEPT ![cmd[h].player] = cmd[h].prof],
           \/ x.prof = Nil
           \/ x \in Command /\ x.prof = Zero
           \/ x \in Command /\ x.prof = cmd[h].prof /\ x.player = cmd[h].player
           \/ x \in Command /\ x.prof = db[x.player],
           Owes(x) => /\ Owes(cmd[h])
                      /\ x.draft = cmd[h].draft /\ x.player = cmd[h].player
    PROVE  CountsBacked' /\ Debts' /\ Copies'
<1> USE DEF Inductive
<1>1. \A t, p : Backed(t, p)' <=> Backed(t, p)
  BY DEF Backed
<1>2. CountsBacked'
  BY <1>1 DEF CountsBacked, Copies, Command, TypeOK
<1>3. Copies'
  <2>1. x.prof # Nil => Backed(x.prof, x.player)
    BY Uncounted DEF Copies, CountsBacked, Command
  <2>2. QED
    BY <1>1, <2>1 DEF Copies, TypeOK
<1>4. Debts'
  <2>1. ASSUME NEW i \in Owing'
        PROVE  i \in Owing /\ Game(i)' = Game(i) /\ RowOf(i)' = RowOf(i)
    BY <2>1 DEF Owing, Game, RowOf, TypeOK
  <2>2. ASSUME NEW i \in Owing'
        PROVE  Game(i) \in Uuid
    BY <2>1, <2>2, NilAssumption
       DEF Owing, Owes, Game, Hands, Holds, TypeOK, Command, Idle, Payload, Finishing
  <2>3. ASSUME NEW i \in Owing', NEW j \in Handler, cmd'[j].prof # Nil
        PROVE  Unknown(cmd'[j].prof, Game(i))
    BY <2>1, <2>2, <2>3, Uncounted DEF Debts, TypeOK, Command
  <2>4. ASSUME NEW i \in Owing', NEW p \in Player, cache'[p] # Nil
        PROVE  Unknown(cache'[p], Game(i))
    BY <2>1, <2>4 DEF Debts, TypeOK
  <2>5. QED
    BY <2>1, <2>3, <2>4 DEF Debts, Owing
<1>5. QED
  BY <1>2, <1>3, <1>4

-----------------------------------------------------------------------------
(* Recording a game: no copy of a profile can know it yet. *)

LEMMA CopiesRecord ==
    ASSUME Inductive, NEW h \in Handler, NEW x \in Command \cup {Idle},
           At(h, "insert"), ~Taken(Game(h)),
           archive' = [archive EXCEPT ![Game(h)] = RowOf(h)],
           UNCHANGED <<db, cache>>,
           cmd' = [cmd EXCEPT ![h] = x],
           \/ x = Idle
           \/ /\ x \in Command /\ x.prof = cmd[h].prof
              /\ x.draft = cmd[h].draft /\ x.player = cmd[h].player
    PROVE  /\ CountsBacked' /\ Debts' /\ Copies'
           /\ archive' \in [Uuid -> Row \cup {Nil}]
<1> USE DEF Inductive
<1>1. /\ cmd[h] \in Command /\ cmd[h].op \in Finishing
      /\ Game(h) \in Uuid /\ RowOf(h) \in Row /\ archive[Game(h)] = Nil
  BY NilAssumption
     DEF TypeOK, Command, Idle, Payload, Hands, Holds, At, Taken, Game, RowOf, Row
<1>2. archive' \in [Uuid -> Row \cup {Nil}]
  BY <1>1 DEF TypeOK
<1>3. ASSUME NEW t \in Tally, NEW p \in Player, Backed(t, p)
      PROVE  Backed(t, p)' /\ Unknown(t, Game(h))
  <2>1. \A r \in Result : archive[Game(h)] # [player |-> p, result |-> r]
    BY <1>1, NilAssumption DEF Row
  <2>2. \A r \in Result : t[<<Game(h), r>>] <= 0 /\ t[<<Game(h), r>>] \in Nat
    BY <1>1, <1>3, <2>1 DEF Backed, Tally
  <2>3. Unknown(t, Game(h))
    BY <2>2 DEF Unknown
  <2>4. ASSUME NEW g \in Uuid, NEW r \in Result
        PROVE  t[<<g, r>>] <= IF archive'[g] = [player |-> p, result |-> r] THEN 1 ELSE 0
    <3>1. CASE g = Game(h)
      BY <2>2, <3>1
    <3>2. CASE g # Game(h)
      BY <1>3, <3>2 DEF Backed, TypeOK
    <3>3. QED
      BY <3>1, <3>2
  <2>5. QED
    BY <2>3, <2>4 DEF Backed
<1>4. CountsBacked'
  BY <1>3 DEF CountsBacked, TypeOK
<1>5. Copies'
  BY <1>3 DEF Copies, TypeOK, Command, Idle
<1>6. Debts'
  <2>1. /\ \A p \in Player : /\ db[p]    # Nil => Unknown(db[p], Game(h))
                             /\ cache[p] # Nil => Unknown(cache[p], Game(h))
        /\ \A i \in Handler : cmd[i].prof # Nil => Unknown(cmd[i].prof, Game(h))
    BY <1>3 DEF CountsBacked, Copies, TypeOK, Command, Idle
  <2>2. \A i \in Owing : archive[Game(i)] = RowOf(i) /\ Game(i) # Game(h)
    <3>1. ASSUME NEW i \in Owing PROVE archive[Game(i)] = RowOf(i) /\ RowOf(i) \in Row
      BY <3>1, NilAssumption
         DEF Debts, Owing, Owes, RowOf, Row, Hands, Holds, TypeOK, Command, Idle, Finishing
    <3>2. QED
      BY <1>1, <3>1, NilAssumption
  <2>3. ASSUME NEW i \in Owing', i # h
        PROVE  i \in Owing /\ Game(i)' = Game(i) /\ RowOf(i)' = RowOf(i)
    BY <2>3 DEF Owing, Game, RowOf, TypeOK
  <2>4. h \in Owing' => Game(h)' = Game(h) /\ RowOf(h)' = RowOf(h)
    BY <1>1 DEF Owing, Owes, Game, RowOf, TypeOK, Idle, Finishing
  <2>5. ASSUME NEW i \in Owing'
        PROVE  /\ Game(i) \in Uuid /\ Game(i)' = Game(i) /\ archive'[Game(i)] = RowOf(i)'
               /\ \A p \in Player : /\ db[p]    # Nil => Unknown(db[p], Game(i))
                                    /\ cache[p] # Nil => Unknown(cache[p], Game(i))
               /\ \A j \in Handler : cmd[j].prof # Nil => Unknown(cmd[j].prof, Game(i))
    <3>1. CASE i = h
      BY <1>1, <2>1, <2>4, <2>5, <3>1 DEF TypeOK
    <3>2. CASE i # h
      <4>1. i \in Owing /\ Game(i)' = Game(i) /\ RowOf(i)' = RowOf(i)
        BY <2>3, <2>5, <3>2
      <4>2. Game(i) \in Uuid
        BY <4>1, NilAssumption
           DEF Owing, Owes, Game, Hands, Holds, TypeOK, Command, Idle, Payload, Finishing
      <4>3. archive'[Game(i)] = RowOf(i)'
        BY <2>2, <4>1, <4>2 DEF TypeOK
      <4>4. QED
        BY <4>1, <4>2, <4>3 DEF Debts
    <3>3. QED
      BY <3>1, <3>2
  <2>6. \A i \in Owing' : \A j \in Owing' : Game(i)' = Game(j)' => i = j
    BY <2>2, <2>3, <2>4 DEF Debts, Owing
  <2>7. \A i \in Handler : cmd'[i].prof # Nil => cmd'[i].prof = cmd[i].prof
    BY DEF TypeOK, Idle
  <2>8. QED
    BY <2>5, <2>6, <2>7 DEF Debts, Owing, Unknown
<1>7. QED
  BY <1>2, <1>4, <1>5, <1>6

-----------------------------------------------------------------------------
(* Counting a game: the tally that was read does not know it. *)

LEMMA CountedOnce ==
    ASSUME Inductive, NEW h \in Handler, At(h, "upsert")
    PROVE  /\ cmd[h] \in Command /\ Counted(h) \in Tally
           /\ Backed(Counted(h), cmd[h].player)
           /\ \A i \in Owing : i # h => Unknown(Counted(h), Game(i))
<1> USE DEF Inductive
<1>1. /\ cmd[h] \in Command /\ cmd[h].prof \in Tally /\ cmd[h].player \in Player
      /\ cmd[h].op \in Finishing \cup {"prefer"}
      /\ Backed(cmd[h].prof, cmd[h].player)
  BY DEF TypeOK, Command, Idle, Hands, Holds, At, Copies
<1>2. \A i \in Owing : Game(i) \in Uuid
  BY NilAssumption
     DEF Owing, Owes, Game, Hands, Holds, TypeOK, Command, Idle, Payload, Finishing
<1>3. CASE cmd[h].op \notin Finishing
  <2>1. Counted(h) = cmd[h].prof
    BY <1>3 DEF Counted
  <2>2. \A i \in Owing : Unknown(Counted(h), Game(i))
    BY <1>1, <2>1, NilAssumption DEF Debts
  <2>3. QED
    BY <1>1, <2>1, <2>2
<1>4. CASE cmd[h].op \in Finishing
  <2> DEFINE e == <<Game(h), cmd[h].draft.end>>
  <2>1. h \in Owing
    BY <1>4 DEF Owing, Owes, At
  <2>2. cmd[h].draft.end \in Result /\ Game(h) \in Uuid /\ e \in Uuid \X Result
    BY <1>2, <1>4, <2>1 DEF Hands, Holds, At
  <2>3. Unknown(cmd[h].prof, Game(h)) /\ archive[Game(h)] = RowOf(h)
    BY <1>1, <2>1, NilAssumption DEF Debts
  <2>4. Counted(h) = [cmd[h].prof EXCEPT ![e] = cmd[h].prof[e] + 1]
    BY <1>4 DEF Counted
  <2>5. cmd[h].prof[e] = 0
    BY <2>2, <2>3 DEF Unknown
  <2>6. /\ Counted(h) \in Tally /\ Counted(h)[e] = 1
        /\ \A d \in Uuid \X Result : d # e => Counted(h)[d] = cmd[h].prof[d]
    BY <1>1, <2>2, <2>4, <2>5 DEF Tally
  <2>7. ASSUME NEW g \in Uuid, NEW r \in Result
        PROVE  Counted(h)[<<g, r>>] <=
                  IF archive[g] = [player |-> cmd[h].player, result |-> r] THEN 1 ELSE 0
    <3>1. CASE <<g, r>> = e
      BY <2>3, <2>6, <3>1 DEF RowOf
    <3>2. CASE <<g, r>> # e
      <4>1. Counted(h)[<<g, r>>] = cmd[h].prof[<<g, r>>]
        BY <2>6, <3>2
      <4>2. QED
        BY <1>1, <4>1 DEF Backed
    <3>3. QED
      BY <3>1, <3>2
  <2>8. Backed(Counted(h), cmd[h].player)
    BY <2>7 DEF Backed
  <2>9. ASSUME NEW i \in Owing, i # h PROVE Unknown(Counted(h), Game(i))
    <3>1. Game(i) # Game(h) /\ Unknown(cmd[h].prof, Game(i))
      BY <1>1, <2>1, <2>9, NilAssumption DEF Debts
    <3>2. \A r \in Result : <<Game(i), r>> # e /\ <<Game(i), r>> \in Uuid \X Result
      BY <1>2, <3>1
    <3>3. QED
      BY <2>6, <3>1, <3>2 DEF Unknown
  <2>10. QED
    BY <1>1, <2>6, <2>8, <2>9
<1>5. QED
  BY <1>3, <1>4

LEMMA CopiesCount ==
    ASSUME Inductive, NEW h \in Handler, NEW x \in Command \cup {Idle},
           At(h, "upsert"),
           db' = [db EXCEPT ![cmd[h].player] = Counted(h)],
           UNCHANGED <<archive, cache>>,
           cmd' = [cmd EXCEPT ![h] = x],
           \/ x = Idle
           \/ /\ x \in Command /\ x.pc = "recache" /\ x.prof = Counted(h)
              /\ x.player = cmd[h].player
    PROVE  /\ CountsBacked' /\ Debts' /\ Copies'
           /\ db' \in [Player -> Tally \cup {Nil}]
<1> USE DEF Inductive
<1>1. /\ cmd[h] \in Command /\ cmd[h].player \in Player /\ Counted(h) \in Tally
      /\ Backed(Counted(h), cmd[h].player)
      /\ \A i \in Owing : i # h => Unknown(Counted(h), Game(i))
  BY CountedOnce DEF Command
<1>2. db' \in [Player -> Tally \cup {Nil}]
  BY <1>1 DEF TypeOK
<1>3. \A t, p : Backed(t, p)' <=> Backed(t, p)
  BY DEF Backed
<1>4. CountsBacked'
  BY <1>1, <1>3 DEF CountsBacked, TypeOK
<1>5. Copies'
  BY <1>1, <1>3 DEF Copies, TypeOK, Idle
<1>6. Debts'
  <2>1. h \notin Owing'
    BY DEF Owing, Owes, Idle, Finishing, TypeOK
  <2>2. ASSUME NEW i \in Owing'
        PROVE  i \in Owing /\ i # h /\ Game(i)' = Game(i) /\ RowOf(i)' = RowOf(i)
    BY <2>1, <2>2 DEF Owing, Game, RowOf, TypeOK
  <2>3. ASSUME NEW i \in Owing', NEW p \in Player, db'[p] # Nil
        PROVE  Unknown(db'[p], Game(i))
    BY <1>1, <2>2, <2>3 DEF Debts, TypeOK
  <2>4. ASSUME NEW i \in Owing', NEW j \in Handler, cmd'[j].prof # Nil
        PROVE  Unknown(cmd'[j].prof, Game(i))
    BY <1>1, <2>2, <2>4 DEF Debts, TypeOK, Idle
  <2>5. QED
    BY <2>2, <2>3, <2>4 DEF Debts, Owing
<1>7. QED
  BY <1>2, <1>4, <1>5, <1>6

-----------------------------------------------------------------------------
(* A goroutine moves on from what it has in its hands to x. *)

Passed(h, x) ==
    /\ x \in Command \cup {Idle}
    /\ cmd' = [cmd EXCEPT ![h] = x]
    /\ Holds(x)
    /\ \/ x.prof = Nil
       \/ x \in Command /\ x.prof = Zero
       \/ x \in Command /\ x.prof = cmd[h].prof /\ x.player = cmd[h].player
       \/ x \in Command /\ x.prof = db[x.player]
    /\ Owes(x) => /\ Owes(cmd[h])
                  /\ x.draft = cmd[h].draft /\ x.player = cmd[h].player

Passes(h) == \E x : Passed(h, x)

LEMMA IdleHolds == Holds(Idle) /\ ~Owes(Idle) /\ Idle.prof = Nil
  BY NilAssumption DEF Holds, Idle, Owes, Finishing, Op

LEMMA Returning ==
    ASSUME NEW h \in Handler, Return(h)
    PROVE  Passes(h)
<1>1. Passed(h, Idle)
  BY IdleHolds DEF Passed, Return
<1>2. QED
  BY <1>1 DEF Passes

LEMMA Kept ==
    ASSUME Inductive, NEW h \in Handler, Passes(h),
           UNCHANGED <<archive, db>>,
           \/ cache' = cache
           \/ /\ cmd[h] \in Command /\ cmd[h].prof # Nil
              /\ cache' = [cache EXCEPT ![cmd[h].player] = cmd[h].prof],
           session' \in [User -> Payload \cup {Nil}], PlayersTurn',
           used' \in SUBSET Uuid, calm' \in BOOLEAN
    PROVE  Inductive'
<1>1. PICK x : Passed(h, x)
  BY DEF Passes
<1>2. CountsBacked' /\ Debts' /\ Copies'
  BY <1>1, CopiesKept DEF Passed
<1>3. TypeOK'
  BY <1>1 DEF Inductive, TypeOK, Passed, Command
<1>4. Hands'
  BY <1>1 DEF Inductive, Hands, Passed, TypeOK
<1>5. QED
  BY <1>2, <1>3, <1>4 DEF Inductive

LEMMA KeptQuiet ==
    ASSUME Inductive, NEW h \in Handler, Passes(h),
           UNCHANGED <<session, used, archive, db, cache, calm>>
    PROVE  Inductive'
<1>1. PlayersTurn'
  BY DEF Inductive, PlayersTurn
<1>2. QED
  BY <1>1, Kept DEF Inductive, TypeOK

LEMMA Going ==
    ASSUME Inductive, NEW h \in Handler, cmd[h].pc # "idle",
           NEW to \in PC \ {"idle"}, Go(h, to),
           Holds([cmd[h] EXCEPT !.pc = to]),
           Owes([cmd[h] EXCEPT !.pc = to]) => Owes(cmd[h])
    PROVE  Passes(h)
<1> DEFINE x == [cmd[h] EXCEPT !.pc = to]
<1>1. cmd[h] \in Command /\ x \in Command
  BY Busy DEF Command, Inductive
<1>2. x.prof = cmd[h].prof /\ x.player = cmd[h].player /\ x.draft = cmd[h].draft
  BY <1>1 DEF Command
<1>3. Passed(h, x)
  BY <1>1, <1>2 DEF Passed, Go
<1>4. QED
  BY <1>3 DEF Passes

LEMMA Drafting ==
    ASSUME Inductive, NEW h \in Handler, cmd[h].pc # "idle",
           NEW to \in PC \ {"idle"}, NEW d \in Payload, Draft(h, to, d),
           to \notin {"fetch", "warm", "upsert"},
           Holds([cmd[h] EXCEPT !.pc = to, !.draft = d])
    PROVE  Passes(h)
<1> DEFINE x == [cmd[h] EXCEPT !.pc = to, !.draft = d]
<1>1. cmd[h] \in Command /\ x \in Command
  BY Busy DEF Command, Inductive
<1>2. x.prof = cmd[h].prof /\ x.player = cmd[h].player /\ x.pc = to
  BY <1>1 DEF Command
<1>3. Passed(h, x)
  BY <1>1, <1>2 DEF Passed, Draft, Owes
<1>4. QED
  BY <1>3 DEF Passes

LEMMA ShownPasses ==
    ASSUME Inductive, NEW h \in Handler,
           cmd[h].pc \in {"peek", "peekdb", "peekwarm"}, Shown(h)
    PROVE  Passes(h)
<1>1. cmd[h] \in Command /\ Holds(cmd[h])
  BY Busy DEF Inductive, Hands
<1>2. CASE Is(h, "start")
           /\ cmd' = [cmd EXCEPT ![h].op = "status", ![h].pc = "load", ![h].prof = Nil]
  <2> DEFINE x == [cmd[h] EXCEPT !.op = "status", !.pc = "load", !.prof = Nil]
  <2>1. /\ x \in Command /\ cmd' = [cmd EXCEPT ![h] = x]
        /\ x.op = "status" /\ x.pc = "load" /\ x.prof = Nil
    BY <1>1, <1>2 DEF Command, Op, PC
  <2>2. Passed(h, x)
    BY <2>1 DEF Passed, Holds, Owes, Finishing
  <2>3. QED
    BY <2>2 DEF Passes
<1>3. CASE cmd[h].op \in {"status", "profile"} /\ Return(h)
  BY <1>3, Returning
<1>4. CASE Is(h, "undo") /\ Go(h, "save")
  <2>1. /\ Holds([cmd[h] EXCEPT !.pc = "save"])
        /\ ~Owes([cmd[h] EXCEPT !.pc = "save"])
    BY <1>1, <1>4 DEF Holds, Owes, Command, Is, Finishing
  <2>2. QED
    BY <1>4, <2>1, Going DEF PC
<1>5. CASE cmd[h].op \in Finishing /\ Go(h, "delete")
  <2>1. /\ Holds([cmd[h] EXCEPT !.pc = "delete"])
        /\ ~Owes([cmd[h] EXCEPT !.pc = "delete"])
    BY <1>1, <1>5 DEF Holds, Owes, Command, Finishing
  <2>2. QED
    BY <1>5, <2>1, Going DEF PC
<1>6. QED
  BY <1>2, <1>3, <1>4, <1>5 DEF Shown

LEMMA UpsertedPasses ==
    ASSUME Inductive, NEW h \in Handler, At(h, "recache"), Upserted(h)
    PROVE  Passes(h)
<1>1. cmd[h] \in Command /\ Holds(cmd[h])
  BY Busy DEF Inductive, Hands, At
<1>2. CASE cmd[h].op \in Finishing
  <2>1. /\ Holds([cmd[h] EXCEPT !.pc = "delete"])
        /\ ~Owes([cmd[h] EXCEPT !.pc = "delete"])
    BY <1>1, <1>2 DEF Holds, Owes, Command, Finishing, At
  <2>2. QED
    BY <1>2, <2>1, Going DEF PC, Upserted, At
<1>3. CASE cmd[h].op \notin Finishing
  BY <1>3, Returning DEF Upserted
<1>4. QED
  BY <1>2, <1>3

LEMMA FetchedPasses ==
    ASSUME Inductive, NEW h \in Handler, At(h, "warm"), Go(h, Fetched(h))
    PROVE  Passes(h)
<1>1. cmd[h] \in Command /\ Holds(cmd[h])
  BY Busy DEF Inductive, Hands, At
<1>2. /\ Holds([cmd[h] EXCEPT !.pc = Fetched(h)])
      /\ Owes([cmd[h] EXCEPT !.pc = Fetched(h)]) => Owes(cmd[h])
  BY <1>1 DEF Holds, Owes, Command, Finishing, At, Fetched, Is
<1>3. Fetched(h) \in PC \ {"idle"}
  BY DEF Fetched, PC
<1>4. QED
  BY <1>2, <1>3, Going DEF At

-----------------------------------------------------------------------------
(* The actions *)

LEMMA BeginStep ==
    ASSUME Inductive, NEW h \in Handler, NEW op \in Op, NEW u \in User,
           NEW p \in Player, Begin(h, op, u, p)
    PROVE  Inductive'
<1> DEFINE x == [pc |-> CASE op = "profile" -> "peek"
                          [] op = "prefer"  -> "fetch"
                          [] OTHER          -> "load",
                 op |-> op, user |-> u, player |-> p, draft |-> Nil, prof |-> Nil]
<1>1. x.pc \in {"peek", "fetch", "load"} /\ x.op = op /\ x.draft = Nil /\ x.prof = Nil
  OBVIOUS
<1>2. x \in Command
  BY DEF Command, PC
<1>3. Holds(x) /\ ~Owes(x)
  BY DEF Holds, Owes, Finishing
<1>4. Passed(h, x)
  BY <1>1, <1>2, <1>3 DEF Passed, Begin
<1>5. Passes(h)
  BY <1>4 DEF Passes
<1>6. calm' \in BOOLEAN
  BY DEF Begin, Inductive, TypeOK
<1>7. UNCHANGED <<archive, db, session, used, cache>> /\ PlayersTurn'
  BY DEF Begin, Inductive, PlayersTurn
<1>8. session' \in [User -> Payload \cup {Nil}] /\ used' \in SUBSET Uuid
  BY <1>7 DEF Inductive, TypeOK
<1>9. QED
  BY <1>5, <1>6, <1>7, <1>8, Kept

LEMMA Loaded ==
    ASSUME Inductive, NEW h \in Handler, At(h, "load"), Stored(h) # Nil
    PROVE  /\ cmd[h] \in Command /\ Holds(cmd[h]) /\ cmd[h].pc = "load"
           /\ Stored(h) \in Payload /\ Stored(h).uuid \in Uuid
           /\ Stored(h).end = "open"
           /\ Stored(h).ply \in Nat /\ Stored(h).ply % 2 = 0
<1>1. cmd[h] \in Command /\ Holds(cmd[h]) /\ cmd[h].pc = "load"
  BY Busy DEF Inductive, Hands, At
<1>2. cmd[h].user \in User
  BY <1>1 DEF Command
<1>3. Stored(h) \in Payload /\ Stored(h).end = "open" /\ Stored(h).ply % 2 = 0
  BY <1>2 DEF Stored, Inductive, TypeOK, PlayersTurn
<1>4. QED
  BY <1>1, <1>3 DEF Payload

LEMMA LoadSteps ==
    ASSUME Inductive, NEW h \in Handler,
           \/ LoadMiss(h) \/ Resume(h) \/ Undo(h) \/ Resign(h)
           \/ PlayRefused(h) \/ PlayerMoves(h)
    PROVE  Inductive'
<1>1. /\ At(h, "load") /\ cmd[h] \in Command /\ Holds(cmd[h])
      /\ UNCHANGED <<session, used, archive, db, cache, calm>>
  BY Busy DEF Inductive, Hands, At,
              LoadMiss, Resume, Undo, Resign, PlayRefused, PlayerMoves
<1>2. CASE LoadMiss(h)
  <2>1. CASE Is(h, "start")
    <3>1. Go(h, "fetch")
      BY <1>2, <2>1 DEF LoadMiss
    <3>2. /\ Holds([cmd[h] EXCEPT !.pc = "fetch"])
          /\ ~Owes([cmd[h] EXCEPT !.pc = "fetch"])
      BY <1>1, <2>1 DEF Holds, Owes, Command, Finishing, Is
    <3>3. QED
      BY <1>1, <3>1, <3>2, Going, KeptQuiet DEF PC, At
  <2>2. CASE ~Is(h, "start")
    BY <1>1, <1>2, <2>2, Returning, KeptQuiet DEF LoadMiss
  <2>3. QED
    BY <2>1, <2>2
<1>3. CASE Resume(h)
  <2>1. Go(h, "peek") /\ cmd[h].op \in {"start", "status"}
    BY <1>3 DEF Resume
  <2>2. /\ Holds([cmd[h] EXCEPT !.pc = "peek"])
        /\ ~Owes([cmd[h] EXCEPT !.pc = "peek"])
    BY <1>1, <2>1 DEF Holds, Owes, Command, Finishing
  <2>3. QED
    BY <1>1, <2>1, <2>2, Going, KeptQuiet DEF PC, At
<1>4. CASE Undo(h)
  <2>1. CASE TooFew(Stored(h))
    BY <1>1, <1>4, <2>1, Returning, KeptQuiet DEF Undo
  <2>2. CASE ~TooFew(Stored(h))
    <3> DEFINE d == TakeBack(Stored(h))
    <3>1. Draft(h, "peek", d) /\ Is(h, "undo") /\ Stored(h) # Nil
      BY <1>4, <2>2 DEF Undo
    <3>2. /\ Stored(h) \in Payload /\ Stored(h).ply \in Nat
          /\ Stored(h).ply % 2 = 0 /\ Stored(h).ply >= 2
      BY <1>1, <2>2, <3>1, Loaded DEF TooFew
    <3>3. Stored(h).ply - 2 \in Nat /\ (Stored(h).ply - 2) % 2 = 0
      BY <3>2
    <3>4. d \in Payload /\ d.end = "open" /\ d.ply % 2 = 0
      BY <3>2, <3>3 DEF TakeBack, Payload
    <3>5. Holds([cmd[h] EXCEPT !.pc = "peek", !.draft = d])
      BY <1>1, <3>1, <3>4, NilAssumption DEF Holds, Command, Is, Finishing
    <3>6. QED
      BY <1>1, <3>1, <3>4, <3>5, Drafting, KeptQuiet DEF PC, At
  <2>3. QED
    BY <2>1, <2>2
<1>5. CASE Resign(h)
  <2> DEFINE d == [Stored(h) EXCEPT !.end = "loss"]
  <2>1. Draft(h, "insert", d) /\ Is(h, "resign") /\ Stored(h) # Nil
    BY <1>5 DEF Resign
  <2>2. d \in Payload /\ d.end \in Result
    BY <1>1, <2>1, Loaded, ResultAssumption DEF Payload
  <2>3. Holds([cmd[h] EXCEPT !.pc = "insert", !.draft = d])
    BY <1>1, <2>1, <2>2, NilAssumption DEF Holds, Command, Is, Finishing
  <2>4. Passes(h)
    <3> HIDE DEF d
    <3>1. "insert" \in PC \ {"idle"} /\ cmd[h].pc # "idle"
      BY <1>1 DEF PC, At
    <3>2. QED
      BY <2>1, <2>2, <2>3, <3>1, Drafting
  <2>5. QED
    BY <1>1, <2>4, KeptQuiet
<1>6. CASE PlayRefused(h)
  BY <1>1, <1>6, Returning, KeptQuiet DEF PlayRefused
<1>7. CASE PlayerMoves(h)
  <2>1. PICK end \in {"open"} \cup (Result \ {"loss"}) :
          Draft(h, IF end = "open" THEN "think" ELSE "insert", Plied(Stored(h), end))
    BY <1>7 DEF PlayerMoves
  <2> DEFINE to == IF end = "open" THEN "think" ELSE "insert"
             d  == Plied(Stored(h), end)
  <2>2. Is(h, "play") /\ Stored(h) # Nil
    BY <1>7 DEF PlayerMoves
  <2>3. Stored(h).ply + 1 \in Nat /\ (Stored(h).ply + 1) % 2 = 1
    BY <1>1, <2>2, Loaded
  <2>4. d \in Payload /\ d.end = end /\ d.ply % 2 = 1
    BY <1>1, <2>2, <2>3, Loaded DEF Plied, Payload
  <2>5. to \in {"think", "insert"} /\ (to = "insert" => end \in Result)
    OBVIOUS
  <2>6. Holds([cmd[h] EXCEPT !.pc = to, !.draft = d])
    BY <1>1, <2>2, <2>4, <2>5, NilAssumption DEF Holds, Command, Is, Finishing
  <2>7. Passes(h)
    BY <1>1, <2>1, <2>4, <2>5, <2>6, Drafting DEF PC, At
  <2>8. QED
    BY <1>1, <2>7, KeptQuiet
<1>8. QED
  BY <1>2, <1>3, <1>4, <1>5, <1>6, <1>7

LEMMA EngineSteps ==
    ASSUME Inductive, NEW h \in Handler, EngineFails(h) \/ EngineMoves(h)
    PROVE  Inductive'
<1>1. /\ At(h, "think") /\ cmd[h] \in Command /\ Holds(cmd[h])
      /\ UNCHANGED <<session, used, archive, db, cache, calm>>
  BY Busy DEF Inductive, Hands, At, EngineFails, EngineMoves
<1>2. CASE EngineFails(h)
  BY <1>1, <1>2, Returning, KeptQuiet DEF EngineFails
<1>3. CASE EngineMoves(h)
  <2>1. PICK end \in {"open"} \cup (Result \ {"win"}) :
          Draft(h, IF end = "open" THEN "save" ELSE "insert", Plied(cmd[h].draft, end))
    BY <1>3 DEF EngineMoves
  <2> DEFINE to == IF end = "open" THEN "save" ELSE "insert"
             d  == Plied(cmd[h].draft, end)
  <2>2. cmd[h].op = "play" /\ cmd[h].draft \in Payload /\ cmd[h].draft.ply % 2 = 1
    BY <1>1 DEF Holds, Command, At
  <2>3. cmd[h].draft.ply + 1 \in Nat /\ (cmd[h].draft.ply + 1) % 2 = 0
    BY <2>2 DEF Payload
  <2>4. d \in Payload /\ d.end = end /\ d.ply % 2 = 0
    BY <2>2, <2>3 DEF Plied, Payload
  <2>5. /\ to \in {"save", "insert"}
        /\ (to = "insert" => end \in Result) /\ (to = "save" => end = "open")
    OBVIOUS
  <2>6. Holds([cmd[h] EXCEPT !.pc = to, !.draft = d])
    <3> HIDE DEF d, to
    <3>1. QED
      BY <1>1, <2>2, <2>4, <2>5, NilAssumption DEF Holds, Command, Finishing
  <2>7. Passes(h)
    <3>1. to \in PC \ {"idle"} /\ cmd[h].pc # "idle" /\ to \notin {"fetch", "warm", "upsert"}
      BY <1>1, <2>5 DEF PC, At
    <3>2. Draft(h, to, d)
      BY <2>1
    <3> HIDE DEF d, to
    <3>3. QED
      BY <2>4, <2>6, <3>1, <3>2, Drafting
  <2>8. QED
    BY <1>1, <2>7, KeptQuiet
<1>4. QED
  BY <1>2, <1>3

\* A session is stored or removed, and the goroutine returns.
LEMMA Stores ==
    ASSUME Inductive, NEW h \in Handler, Return(h), NEW u \in User,
           NEW d \in Payload \cup {Nil},
           d # Nil => d.end = "open" /\ d.ply % 2 = 0,
           session' = [session EXCEPT ![u] = d],
           used' \in SUBSET Uuid,
           UNCHANGED <<archive, db, cache, calm>>
    PROVE  Inductive'
<1>1. session' \in [User -> Payload \cup {Nil}]
  BY DEF Inductive, TypeOK
<1>2. PlayersTurn'
  BY DEF Inductive, TypeOK, PlayersTurn
<1>3. calm' \in BOOLEAN
  BY DEF Inductive, TypeOK
<1>4. QED
  BY <1>1, <1>2, <1>3, Returning, Kept

LEMMA SessionSteps ==
    ASSUME Inductive, NEW h \in Handler,
           Create(h) \/ CreateRefused(h) \/ Save(h) \/ Delete(h)
    PROVE  Inductive'
<1>1. /\ cmd[h] \in Command /\ Holds(cmd[h]) /\ Return(h)
      /\ UNCHANGED <<archive, db, cache, calm>>
  BY Busy DEF Inductive, Hands, At, Create, CreateRefused, Save, Delete
<1>2. cmd[h].user \in User /\ used \in SUBSET Uuid
  BY <1>1 DEF Command, Inductive, TypeOK
<1>3. CASE Create(h)
  <2>1. PICK g \in Uuid \ used :
          /\ used' = used \cup {g}
          /\ session' = [session EXCEPT ![cmd[h].user] =
                            [uuid |-> g, ply |-> 0, end |-> "open"]]
    BY <1>3 DEF Create
  <2> DEFINE d == [uuid |-> g, ply |-> 0, end |-> "open"]
  <2>2. d \in Payload /\ d.end = "open" /\ d.ply % 2 = 0
    BY DEF Payload
  <2>3. used' \in SUBSET Uuid
    BY <1>2, <2>1
  <2>4. QED
    BY <1>1, <1>2, <2>1, <2>2, <2>3, Stores
<1>4. CASE CreateRefused(h)
  BY <1>1, <1>4, Returning, KeptQuiet DEF CreateRefused
<1>5. CASE Save(h)
  <2>1. /\ cmd[h].draft \in Payload
        /\ cmd[h].draft.end = "open" /\ cmd[h].draft.ply % 2 = 0
    BY <1>1, <1>5 DEF Save, At, Holds, Command
  <2>2. QED
    BY <1>1, <1>2, <1>5, <2>1, Stores DEF Save
<1>6. CASE Delete(h)
  BY <1>1, <1>2, <1>6, Stores DEF Delete
<1>7. QED
  BY <1>3, <1>4, <1>5, <1>6

LEMMA RecordSteps ==
    ASSUME Inductive, NEW h \in Handler,
           Insert(h) \/ InsertLost(h) \/ Duplicate(h) \/ Lookup(h)
    PROVE  Inductive'
<1>1. /\ cmd[h] \in Command /\ Holds(cmd[h]) /\ cmd[h].op \in Finishing
      /\ cmd[h].pc \in {"insert", "lookup"}
      /\ UNCHANGED <<session, used, db, cache>>
  BY Busy DEF Inductive, Hands, Holds, At, Insert, InsertLost, Duplicate, Lookup
<1>2. PlayersTurn' /\ session' \in [User -> Payload \cup {Nil}]
      /\ used' \in SUBSET Uuid
      /\ db' \in [Player -> Tally \cup {Nil}] /\ cache' \in [Player -> Tally \cup {Nil}]
  BY <1>1 DEF Inductive, PlayersTurn, TypeOK
<1>3. CASE Insert(h)
  <2>1. PICK x \in Command :
          /\ cmd' = [cmd EXCEPT ![h] = x]
          /\ x.pc = "fetch" /\ x.op = cmd[h].op /\ x.user = cmd[h].user
          /\ x.player = cmd[h].player /\ x.draft = cmd[h].draft /\ x.prof = cmd[h].prof
    BY <1>1, <1>3, GoStep DEF Insert, Inductive, PC
  <2>2. CountsBacked' /\ Debts' /\ Copies' /\ archive' \in [Uuid -> Row \cup {Nil}]
    BY <1>3, <2>1, CopiesRecord DEF Insert
  <2>3. Holds(x)
    BY <1>1, <2>1 DEF Holds, Finishing
  <2>4. Hands'
    BY <2>1, <2>3 DEF Inductive, Hands, TypeOK
  <2>5. TypeOK'
    BY <1>2, <1>3, <2>1, <2>2 DEF Inductive, TypeOK, Insert
  <2>6. QED
    BY <1>2, <2>2, <2>4, <2>5 DEF Inductive
<1>4. CASE InsertLost(h)
  <2>1. cmd' = [cmd EXCEPT ![h] = Idle]
    BY <1>4 DEF InsertLost, Return
  <2>2. CountsBacked' /\ Debts' /\ Copies' /\ archive' \in [Uuid -> Row \cup {Nil}]
    BY <1>4, <2>1, CopiesRecord DEF InsertLost
  <2>3. Hands'
    BY <2>1, IdleHolds DEF Inductive, Hands, TypeOK
  <2>4. TypeOK'
    BY <1>2, <1>4, <2>1, <2>2 DEF Inductive, TypeOK, InsertLost
  <2>5. QED
    BY <1>2, <2>2, <2>3, <2>4 DEF Inductive
<1>5. CASE Duplicate(h)
  <2>1. /\ Holds([cmd[h] EXCEPT !.pc = "lookup"])
        /\ ~Owes([cmd[h] EXCEPT !.pc = "lookup"])
    BY <1>1 DEF Holds, Owes, Command, Finishing
  <2>2. Passes(h)
    BY <1>1, <1>5, <2>1, Going DEF PC, Duplicate
  <2>3. QED
    BY <1>5, <2>2, KeptQuiet DEF Duplicate
<1>6. CASE Lookup(h)
  <2>1. CASE Return(h)
    BY <1>6, <2>1, Returning, KeptQuiet DEF Lookup
  <2>2. CASE Go(h, "peek")
    <3>1. /\ Holds([cmd[h] EXCEPT !.pc = "peek"])
          /\ ~Owes([cmd[h] EXCEPT !.pc = "peek"])
      BY <1>1 DEF Holds, Owes, Command, Finishing
    <3>2. Passes(h)
      BY <1>1, <2>2, <3>1, Going DEF PC
    <3>3. QED
      BY <1>6, <3>2, KeptQuiet DEF Lookup
  <2>3. QED
    BY <1>6, <2>1, <2>2 DEF Lookup
<1>7. QED
  BY <1>3, <1>4, <1>5, <1>6

LEMMA CountSteps ==
    ASSUME Inductive, NEW h \in Handler, Upsert(h) \/ UpsertLost(h)
    PROVE  Inductive'
<1>1. /\ At(h, "upsert") /\ cmd[h] \in Command /\ Holds(cmd[h])
      /\ Counted(h) \in Tally /\ UNCHANGED <<session, used, archive, cache>>
  BY CountedOnce DEF Inductive, Hands, Upsert, UpsertLost
<1>2. /\ PlayersTurn' /\ session' \in [User -> Payload \cup {Nil}]
      /\ used' \in SUBSET Uuid /\ archive' \in [Uuid -> Row \cup {Nil}]
      /\ cache' \in [Player -> Tally \cup {Nil}]
  BY <1>1 DEF Inductive, PlayersTurn, TypeOK
<1>3. CASE Upsert(h)
  <2>1. PICK x \in Command :
          /\ cmd' = [cmd EXCEPT ![h] = x]
          /\ x.pc = "recache" /\ x.op = cmd[h].op /\ x.user = cmd[h].user
          /\ x.player = cmd[h].player /\ x.draft = cmd[h].draft /\ x.prof = Counted(h)
    <3>1. Prof(h, "recache", Counted(h)) /\ "recache" \in PC \ {"idle"}
      BY <1>3 DEF Upsert, Prof, PC
    <3>2. QED
      BY <1>1, <3>1, ProfStep DEF Inductive, At
  <2>2. CountsBacked' /\ Debts' /\ Copies' /\ db' \in [Player -> Tally \cup {Nil}]
    BY <1>1, <1>3, <2>1, CopiesCount DEF Upsert
  <2>3. Holds(x)
    BY <1>1, <2>1, NilAssumption DEF Holds, Finishing, At
  <2>4. Hands'
    BY <2>1, <2>3 DEF Inductive, Hands, TypeOK
  <2>5. TypeOK'
    BY <1>2, <1>3, <2>1, <2>2 DEF Inductive, TypeOK, Upsert
  <2>6. QED
    BY <1>2, <2>2, <2>4, <2>5 DEF Inductive
<1>4. CASE UpsertLost(h)
  <2>1. cmd' = [cmd EXCEPT ![h] = Idle]
    BY <1>4 DEF UpsertLost, Return
  <2>2. CountsBacked' /\ Debts' /\ Copies' /\ db' \in [Player -> Tally \cup {Nil}]
    BY <1>1, <1>4, <2>1, CopiesCount DEF UpsertLost
  <2>3. Hands'
    BY <2>1, IdleHolds DEF Inductive, Hands, TypeOK
  <2>4. TypeOK'
    BY <1>2, <1>4, <2>1, <2>2 DEF Inductive, TypeOK, UpsertLost
  <2>5. QED
    BY <1>2, <2>2, <2>3, <2>4 DEF Inductive
<1>5. QED
  BY <1>3, <1>4

LEMMA ProfileSteps ==
    ASSUME Inductive, NEW h \in Handler,
           \/ Fetch(h) \/ Warm(h) \/ Recache(h)
           \/ Peek(h) \/ PeekDb(h) \/ PeekWarm(h)
    PROVE  Inductive'
<1>1. /\ cmd[h] \in Command /\ Holds(cmd[h]) /\ cmd[h].pc # "idle"
      /\ cmd[h].player \in Player
      /\ UNCHANGED <<session, used, archive, db, calm>>
  BY Busy DEF Inductive, Hands, At, Command, Fetch, Warm, Recache, Peek, PeekDb, PeekWarm
<1>2. /\ PlayersTurn' /\ session' \in [User -> Payload \cup {Nil}]
      /\ used' \in SUBSET Uuid /\ calm' \in BOOLEAN
  BY <1>1 DEF Inductive, PlayersTurn, TypeOK
<1>3. CASE Fetch(h)
  <2>1. cmd[h].pc = "fetch" /\ cmd[h].op \in Finishing \cup {"start", "prefer"}
    BY <1>1, <1>3 DEF Fetch, At, Holds
  <2>2. CASE db[cmd[h].player] = Nil
    <3>1. PICK x \in Command :
            /\ cmd' = [cmd EXCEPT ![h] = x]
            /\ x.pc = Fetched(h) /\ x.op = cmd[h].op /\ x.user = cmd[h].user
            /\ x.player = cmd[h].player /\ x.draft = cmd[h].draft /\ x.prof = Zero
      <4>1. Zero \in Tally /\ Fetched(h) \in PC \ {"idle"}
        BY <1>1, Uncounted DEF Fetched, PC
      <4>2. Prof(h, Fetched(h), Zero)
        BY <1>3, <2>2 DEF Fetch, Prof
      <4>3. QED
        BY <1>1, <4>1, <4>2, ProfStep DEF Inductive
    <3>2. Holds(x)
      <4>1. x.prof # Nil
        BY <1>1, <3>1, Uncounted, NilAssumption
      <4>2. QED
        BY <1>1, <2>1, <3>1, <4>1 DEF Holds, Fetched, Is, Finishing
    <3>3. Owes(x) => Owes(cmd[h])
      BY <2>1, <3>1 DEF Owes
    <3>4. Passes(h)
      BY <3>1, <3>2, <3>3 DEF Passes, Passed
    <3>5. QED
      BY <1>1, <1>2, <1>3, <3>4, Kept DEF Fetch
  <2>3. CASE db[cmd[h].player] # Nil
    <3>1. PICK x \in Command :
            /\ cmd' = [cmd EXCEPT ![h] = x]
            /\ x.pc = "warm" /\ x.op = cmd[h].op /\ x.user = cmd[h].user
            /\ x.player = cmd[h].player /\ x.draft = cmd[h].draft
            /\ x.prof = db[cmd[h].player]
      <4>1. db[cmd[h].player] \in Tally /\ "warm" \in PC \ {"idle"}
        BY <1>1, <2>3 DEF Inductive, TypeOK, PC
      <4>2. Prof(h, "warm", db[cmd[h].player])
        BY <1>3, <2>3 DEF Fetch, Prof
      <4>3. QED
        BY <1>1, <4>1, <4>2, ProfStep DEF Inductive
    <3>2. Holds(x)
      BY <1>1, <2>1, <2>3, <3>1 DEF Holds, Finishing
    <3>3. Owes(x) => Owes(cmd[h])
      BY <2>1, <3>1 DEF Owes
    <3>4. Passes(h)
      BY <3>1, <3>2, <3>3 DEF Passes, Passed
    <3>5. QED
      BY <1>1, <1>2, <1>3, <3>4, Kept DEF Fetch
  <2>4. QED
    BY <2>2, <2>3
<1>4. CASE Warm(h)
  <2>1. Passes(h)
    BY <1>4, FetchedPasses DEF Warm
  <2>2. cmd[h].prof # Nil /\ cache' = [cache EXCEPT ![cmd[h].player] = cmd[h].prof]
    BY <1>1, <1>4 DEF Warm, CacheProfile, At, Holds
  <2>3. QED
    BY <1>1, <1>2, <2>1, <2>2, Kept
<1>5. CASE Recache(h)
  <2>1. Passes(h)
    BY <1>5, UpsertedPasses DEF Recache
  <2>2. cmd[h].prof # Nil /\ cache' = [cache EXCEPT ![cmd[h].player] = cmd[h].prof]
    BY <1>1, <1>5 DEF Recache, CacheProfile, At, Holds
  <2>3. QED
    BY <1>1, <1>2, <2>1, <2>2, Kept
<1>6. CASE Peek(h)
  <2>1. CASE Shown(h)
    <3>1. Passes(h)
      BY <1>6, <2>1, ShownPasses DEF Peek, At
    <3>2. QED
      BY <1>6, <3>1, KeptQuiet DEF Peek
  <2>2. CASE Go(h, "peekdb")
    <3>1. /\ Holds([cmd[h] EXCEPT !.pc = "peekdb"])
          /\ ~Owes([cmd[h] EXCEPT !.pc = "peekdb"])
      BY <1>1, <1>6 DEF Holds, Owes, Command, Finishing, Peek, At
    <3>2. Passes(h)
      BY <1>1, <2>2, <3>1, Going DEF PC
    <3>3. QED
      BY <1>6, <3>2, KeptQuiet DEF Peek
  <2>3. QED
    BY <1>6, <2>1, <2>2 DEF Peek
<1>7. CASE PeekDb(h)
  <2>1. CASE db[cmd[h].player] = Nil
    <3>1. Passes(h)
      BY <1>7, <2>1, ShownPasses DEF PeekDb, At
    <3>2. QED
      BY <1>7, <3>1, KeptQuiet DEF PeekDb
  <2>2. CASE db[cmd[h].player] # Nil
    <3>1. PICK x \in Command :
            /\ cmd' = [cmd EXCEPT ![h] = x]
            /\ x.pc = "peekwarm" /\ x.op = cmd[h].op /\ x.user = cmd[h].user
            /\ x.player = cmd[h].player /\ x.draft = cmd[h].draft
            /\ x.prof = db[cmd[h].player]
      <4>1. db[cmd[h].player] \in Tally /\ "peekwarm" \in PC \ {"idle"}
        BY <1>1, <2>2 DEF Inductive, TypeOK, PC
      <4>2. Prof(h, "peekwarm", db[cmd[h].player])
        BY <1>7, <2>2 DEF PeekDb, Prof
      <4>3. QED
        BY <1>1, <4>1, <4>2, ProfStep DEF Inductive
    <3>2. Holds(x) /\ ~Owes(x)
      BY <1>1, <1>7, <2>2, <3>1 DEF Holds, Owes, Finishing, PeekDb, At
    <3>3. Passes(h)
      BY <3>1, <3>2 DEF Passes, Passed
    <3>4. QED
      BY <1>7, <3>3, KeptQuiet DEF PeekDb
  <2>3. QED
    BY <2>1, <2>2
<1>8. CASE PeekWarm(h)
  <2>1. Passes(h)
    BY <1>8, ShownPasses DEF PeekWarm, At
  <2>2. cmd[h].prof # Nil /\ cache' = [cache EXCEPT ![cmd[h].player] = cmd[h].prof]
    BY <1>1, <1>8 DEF PeekWarm, CacheProfile, At, Holds
  <2>3. QED
    BY <1>1, <1>2, <2>1, <2>2, Kept
<1>9. QED
  BY <1>3, <1>4, <1>5, <1>6, <1>7, <1>8

LEMMA FailStep ==
    ASSUME Inductive, NEW h \in Handler, Fail(h)
    PROVE  Inductive'
<1>1. /\ UNCHANGED <<session, used, archive, db, cache>> /\ calm' \in BOOLEAN
      /\ PlayersTurn' /\ session' \in [User -> Payload \cup {Nil}]
      /\ used' \in SUBSET Uuid
  BY DEF Fail, Inductive, PlayersTurn, TypeOK
<1>2. Passes(h)
  <2>1. CASE Return(h)
    BY <2>1, Returning
  <2>2. CASE cmd[h].pc \in {"peek", "peekdb", "peekwarm"} /\ Shown(h)
    BY <2>2, ShownPasses
  <2>3. CASE At(h, "warm") /\ Go(h, Fetched(h))
    BY <2>3, FetchedPasses
  <2>4. CASE At(h, "recache") /\ Upserted(h)
    BY <2>4, UpsertedPasses
  <2>5. QED
    BY <2>1, <2>2, <2>3, <2>4 DEF Fail, At
<1>3. QED
  BY <1>1, <1>2, Kept

LEMMA CrashStep ==
    ASSUME Inductive, Crash
    PROVE  Inductive'
<1>1. /\ UNCHANGED <<session, used, archive, db, cache>> /\ calm' \in BOOLEAN
      /\ cmd' = [h \in Handler |-> Idle]
  BY DEF Crash
<1>2. TypeOK'
  BY <1>1 DEF Inductive, TypeOK
<1>3. CountsBacked' /\ PlayersTurn'
  BY <1>1 DEF Inductive, CountsBacked, Backed, PlayersTurn
<1>4. Debts' /\ Copies' /\ Hands'
  BY <1>1, IdleHolds DEF Debts, Owing, Copies, Hands
<1>5. QED
  BY <1>2, <1>3, <1>4 DEF Inductive

LEMMA ExpireStep ==
    ASSUME Inductive,
           \/ \E u \in User : ExpireSession(u)
           \/ \E p \in Player : ExpireProfile(p)
    PROVE  Inductive'
<1>1. /\ \A u \in User : session'[u] \in {session[u], Nil}
      /\ \A p \in Player : cache'[p] \in {cache[p], Nil}
      /\ UNCHANGED <<used, archive, db, cmd, calm>>
  BY DEF Inductive, TypeOK, ExpireSession, ExpireProfile
<1>2. TypeOK'
  BY <1>1 DEF Inductive, TypeOK, ExpireSession, ExpireProfile
<1>3. CountsBacked' /\ PlayersTurn'
  BY <1>1 DEF Inductive, CountsBacked, Backed, PlayersTurn
<1>4. Debts'
  BY <1>1 DEF Inductive, Debts, Owing, Game, RowOf
<1>5. Copies' /\ Hands'
  BY <1>1 DEF Inductive, Copies, Backed, Hands
<1>6. QED
  BY <1>2, <1>3, <1>4, <1>5 DEF Inductive

-----------------------------------------------------------------------------
LEMMA InductiveInit == Init => Inductive
<1>1. SUFFICES ASSUME Init PROVE Inductive
  OBVIOUS
<1>2. TypeOK
  BY <1>1 DEF Init, TypeOK
<1>3. CountsBacked /\ PlayersTurn
  BY <1>1 DEF Init, CountsBacked, PlayersTurn
<1>4. Debts /\ Copies /\ Hands
  BY <1>1, IdleHolds DEF Init, Debts, Owing, Copies, Hands
<1>5. QED
  BY <1>2, <1>3, <1>4 DEF Inductive

LEMMA InductiveStep == Inductive /\ [Next]_vars => Inductive'
<1>1. SUFFICES ASSUME Inductive, [Next]_vars PROVE Inductive'
  OBVIOUS
<1>2. CASE UNCHANGED vars
  BY <1>1, <1>2
     DEF vars, Inductive, TypeOK, CountsBacked, Backed, PlayersTurn, Debts, Owing,
         Game, RowOf, Copies, Hands
<1>3. ASSUME NEW h \in Handler, NEW op \in Op, NEW u \in User, NEW p \in Player,
             Begin(h, op, u, p)
      PROVE  Inductive'
  BY <1>1, <1>3, BeginStep
<1>4. ASSUME NEW h \in Handler, Step(h) \/ InsertLost(h) \/ UpsertLost(h)
      PROVE  Inductive'
  BY <1>1, <1>4, LoadSteps, EngineSteps, SessionSteps, RecordSteps, CountSteps,
     ProfileSteps DEF Step
<1>5. ASSUME NEW h \in Handler, Fail(h) PROVE Inductive'
  BY <1>1, <1>5, FailStep
<1>6. QED
  BY <1>1, <1>2, <1>3, <1>4, <1>5, CrashStep, ExpireStep DEF Next

\* What every state keeps to: above all, a game that was recorded and is still
\* to be counted is known to no profile, and one goroutine owes it
\* (persistFinishedGame, service.go 1380-1437).
THEOREM SoloInvariance == Spec => []Inductive
  BY InductiveInit, InductiveStep, PTL DEF Spec

\* Sessions, rows, profiles and commands stay what the code declares them to
\* be: Undo never takes the number of plies below zero (service.go 902-948).
THEOREM SoloTypeCorrect == Spec => []TypeOK
<1>1. Inductive => TypeOK
  BY DEF Inductive
<1>2. QED
  BY <1>1, SoloInvariance, PTL

\* However often finishing a game is repeated, fails half-way or is raced by
\* another command, it counts at most once, for the player it was recorded for
\* and with the recorded result (service.go 1380-1437).
THEOREM CountedAtMostOnce == Spec => []CountsBacked
<1>1. Inductive => CountsBacked
  BY DEF Inductive
<1>2. QED
  BY <1>1, SoloInvariance, PTL

\* Every stored session is an open game that waits for its player, whichever
\* commands overlap and whichever calls fail (service.go 604-948).
THEOREM PlayerToMove == Spec => []PlayersTurn
<1>1. Inductive => PlayersTurn
  BY DEF Inductive
<1>2. QED
  BY <1>1, SoloInvariance, PTL

-----------------------------------------------------------------------------
(* Calm: one command at a time, and nothing has failed.  What its goroutine *)
(* has in its hands says what is still to be done about the game it ended.  *)

\* The goroutine has recorded the game it ended; the session is still there.
Closing(c) ==
    c.op \in Finishing /\ c.pc \in {"fetch", "warm", "upsert", "recache", "delete"}

\* No two users share a session, and a uuid that was drawn is not drawn again.
Apart ==
    /\ \A u \in User : session[u] # Nil => session[u].uuid \in used
    /\ \A u, v \in User : session[u] # Nil /\ session[v] # Nil
                             /\ session[u].uuid = session[v].uuid => u = v
    /\ \A g \in Uuid : archive[g] # Nil => g \in used

\* The draft is of the session of the goroutine's own user, and its game is not
\* recorded before the goroutine records it.
Mine(c) ==
    /\ c.pc \in {"think", "insert", "save", "delete"} => c.op \in Finishing \cup {"undo"}
    /\ c.pc = "delete" => c.op \in Finishing
    /\ c.op \in Finishing => Closing(c) \/ c.pc \in {"load", "think", "insert", "save"}
    /\ c.op \in Finishing \cup {"undo"} /\ c.pc # "load" =>
          /\ c.draft # Nil /\ c.draft.uuid \in used
          /\ \A u \in User : session[u] # Nil /\ session[u].uuid = c.draft.uuid => u = c.user
          /\ Closing(c) \/ archive[c.draft.uuid] = Nil

\* A profile that is to be stored or cached is the one Postgres has.
Fresh(c) ==
    /\ c.pc \in {"warm", "peekwarm", "recache"} => c.prof = db[c.player]
    /\ c.pc = "upsert" => c.prof = db[c.player] \/ (db[c.player] = Nil /\ c.prof = Zero)

Told(g) ==
    db[archive[g].player] # Nil /\ db[archive[g].player][<<g, archive[g].result>>] = 1

\* All that is open is what c is about to do.
Pending(c) ==
    /\ \A g \in Uuid : archive[g] # Nil => Told(g) \/ (Owes(c) /\ c.draft.uuid = g)
    /\ \A u \in User : session[u] # Nil /\ archive[session[u].uuid] # Nil =>
          Closing(c) /\ c.draft.uuid = session[u].uuid
    /\ \A p \in Player : cache[p] \in {Nil, db[p]} \/ (c.pc = "recache" /\ c.player = p)

CalmFor(c) == Apart /\ Mine(c) /\ Fresh(c) /\ Pending(c)

Calm ==
    calm => /\ \A h \in Handler : cmd[h] # Idle =>
                  CalmFor(cmd[h]) /\ \A i \in Handler : i # h => cmd[i] = Idle
            /\ (\A h \in Handler : cmd[h] = Idle) => CalmFor(Idle)
LEMMA IdleCalm == Mine(Idle) /\ Fresh(Idle) /\ ~Closing(Idle) /\ ~Owes(Idle)
  BY NilAssumption DEF Mine, Fresh, Closing, Owes, Idle, Finishing, Op

LEMMA CalmNow ==
    ASSUME Calm, calm, NEW h \in Handler, cmd[h].pc # "idle"
    PROVE  CalmFor(cmd[h]) /\ \A i \in Handler : i # h => cmd[i] = Idle
  BY DEF Calm, Idle

LEMMA StaysSo ==
    ASSUME NEW x, UNCHANGED <<session, used, archive, db, cache>>, CalmFor(x)
    PROVE  CalmFor(x)'
  BY DEF CalmFor, Apart, Mine, Fresh, Pending, Told, Closing, Owes

\* One goroutine goes on to x.
LEMMA CalmGoes ==
    ASSUME TypeOK, Calm, NEW h \in Handler, cmd[h].pc # "idle",
           NEW x \in Command \cup {Idle}, cmd' = [cmd EXCEPT ![h] = x],
           calm' = calm,
           calm => CalmFor(x)'
    PROVE  Calm'
<1>1. SUFFICES ASSUME calm
               PROVE  /\ \A i \in Handler : cmd'[i] # Idle =>
                            /\ CalmFor(cmd[i])'
                            /\ \A j \in Handler : j # i => cmd'[j] = Idle
                      /\ (\A i \in Handler : cmd'[i] = Idle) => CalmFor(Idle)'
  BY DEF Calm
<1>2. \A i \in Handler : i # h => cmd'[i] = Idle
  BY <1>1, CalmNow DEF TypeOK
<1>3. cmd'[h] = x
  BY DEF TypeOK
<1>4. CalmFor(x)'
  BY <1>1
<1>5. ASSUME NEW i \in Handler, cmd'[i] # Idle
      PROVE  CalmFor(cmd[i])' /\ \A j \in Handler : j # i => cmd'[j] = Idle
  <2>1. i = h
    BY <1>2, <1>5
  <2>2. cmd'[i] = x
    BY <1>3, <2>1
  <2>3. CalmFor(cmd[i])'
    BY <1>4, <2>2 DEF CalmFor, Apart, Mine, Fresh, Pending, Told, Closing, Owes
  <2>4. QED
    BY <1>2, <2>1, <2>3
<1>6. ASSUME \A i \in Handler : cmd'[i] = Idle PROVE CalmFor(Idle)'
  <2>1. x = Idle
    BY <1>3, <1>6
  <2>2. QED
    BY <1>4, <2>1
<1>7. QED
  BY <1>5, <1>6

\* Who has recorded nothing leaves nothing behind.
LEMMA Carried ==
    ASSUME NEW c, NEW x, CalmFor(c), ~Closing(c), c.pc # "recache", Mine(x), Fresh(x)
    PROVE  CalmFor(x)
<1>1. ~Owes(c)
  BY DEF Owes, Closing
<1>2. QED
  BY <1>1 DEF CalmFor, Pending

LEMMA CalmMoves ==
    ASSUME TypeOK, Calm, NEW h \in Handler, cmd[h].pc # "idle",
           NEW x \in Command \cup {Idle}, cmd' = [cmd EXCEPT ![h] = x],
           UNCHANGED <<session, used, archive, db, cache, calm>>,
           ~Closing(cmd[h]), cmd[h].pc # "recache",
           CalmFor(cmd[h]) => Mine(x) /\ Fresh(x)
    PROVE  Calm'
<1>1. calm => CalmFor(x)'
  BY CalmNow, Carried, StaysSo
<1>2. QED
  BY <1>1, CalmGoes

LEMMA CalmReturns ==
    ASSUME TypeOK, Calm, NEW h \in Handler, cmd[h].pc # "idle", Return(h),
           UNCHANGED <<session, used, archive, db, cache, calm>>,
           ~Closing(cmd[h]), cmd[h].pc # "recache"
    PROVE  Calm'
  BY CalmMoves, IdleCalm DEF Return

\* The goroutine goes on with what it has.
LEMMA CalmMovesOn ==
    ASSUME TypeOK, Calm, NEW h \in Handler, cmd[h].pc # "idle",
           NEW to \in PC \ {"idle"}, Go(h, to),
           UNCHANGED <<session, used, archive, db, cache, calm>>,
           ~Closing(cmd[h]), cmd[h].pc # "recache",
           to \in {"fetch", "peek", "peekdb", "save", "create"},
           to = "save" => cmd[h].op = "undo",
           cmd[h].op \in Finishing => FALSE,
           cmd[h].op = "undo" => cmd[h].pc # "load"
    PROVE  Calm'
<1>1. PICK x \in Command :
        /\ cmd' = [cmd EXCEPT ![h] = x]
        /\ x.pc = to /\ x.op = cmd[h].op /\ x.user = cmd[h].user
        /\ x.player = cmd[h].player /\ x.draft = cmd[h].draft
        /\ x.prof = cmd[h].prof
  BY GoStep
<1>2. CalmFor(cmd[h]) => Mine(x) /\ Fresh(x)
  BY <1>1 DEF CalmFor, Mine, Fresh, Closing, Finishing
<1>3. QED
  BY <1>1, <1>2, CalmMoves

\* The goroutine takes up a draft of its own user's session.
LEMMA CalmDrafts ==
    ASSUME TypeOK, Calm, NEW h \in Handler, cmd[h].pc # "idle",
           NEW to \in {"think", "insert", "peek", "save"}, NEW d \in Payload,
           Draft(h, to, d),
           UNCHANGED <<session, used, archive, db, cache, calm>>,
           ~Closing(cmd[h]), cmd[h].pc # "recache",
           cmd[h].op \in Finishing \cup {"undo"},
           to = "peek" => cmd[h].op = "undo",
           CalmFor(cmd[h]) =>
              /\ d.uuid \in used /\ archive[d.uuid] = Nil
              /\ \A u \in User : session[u] # Nil /\ session[u].uuid = d.uuid
                                    => u = cmd[h].user
    PROVE  Calm'
<1> DEFINE x == [cmd[h] EXCEPT !.pc = to, !.draft = d]
<1>1. cmd[h] \in Command
  BY Busy
<1>2. /\ x \in Command /\ x.pc = to /\ x.op = cmd[h].op /\ x.draft = d
      /\ x.user = cmd[h].user
  BY <1>1 DEF Command, PC
<1>3. cmd' = [cmd EXCEPT ![h] = x]
  BY DEF Draft
<1>4. d # Nil
  BY NilAssumption
<1> HIDE DEF x
<1>5. CalmFor(cmd[h]) => Mine(x) /\ Fresh(x)
  BY <1>2, <1>4 DEF Mine, Fresh, Closing, Finishing
<1>6. QED
  BY <1>2, <1>3, <1>5, CalmMoves

LEMMA CalmBegins ==
    ASSUME TypeOK, Calm, NEW h \in Handler, NEW op \in Op, NEW u \in User,
           NEW p \in Player, Begin(h, op, u, p)
    PROVE  Calm'
<1> DEFINE x == [pc |-> CASE op = "profile" -> "peek"
                          [] op = "prefer"  -> "fetch"
                          [] OTHER          -> "load",
                 op |-> op, user |-> u, player |-> p, draft |-> Nil, prof |-> Nil]
<1>1. SUFFICES ASSUME calm' PROVE Calm'
  BY DEF Calm
<1>2. calm /\ \A i \in Handler : cmd[i] = Idle
  <2>1. calm /\ \A i \in Handler : cmd[i].pc = "idle"
    BY <1>1 DEF Begin, At
  <2>2. QED
    BY <2>1, Busy DEF TypeOK, Command
<1>3. CalmFor(Idle)
  BY <1>2 DEF Calm
<1>4. Mine(x) /\ Fresh(x)
  BY DEF Mine, Fresh, Finishing
<1>5. cmd' = [cmd EXCEPT ![h] = x] /\ UNCHANGED <<session, used, archive, db, cache>>
  BY DEF Begin
<1>6. Idle.pc # "recache"
  BY DEF Idle
<1> HIDE DEF x
<1>7. CalmFor(x)
  BY <1>3, <1>4, <1>6, IdleCalm, Carried
<1>8. CalmFor(x)' /\ CalmFor(Idle)'
  BY <1>3, <1>5, <1>7, StaysSo
<1>9. cmd'[h] = x /\ \A i \in Handler : i # h => cmd'[i] = Idle
  BY <1>2, <1>5 DEF TypeOK
<1>10. ASSUME NEW i \in Handler, cmd'[i] # Idle
       PROVE  CalmFor(cmd[i])' /\ \A j \in Handler : j # i => cmd'[j] = Idle
  <2>1. i = h /\ cmd'[i] = x
    BY <1>9, <1>10
  <2>2. CalmFor(cmd[i])'
    BY <1>8, <2>1 DEF CalmFor, Apart, Mine, Fresh, Pending, Told, Closing, Owes
  <2>3. QED
    BY <1>9, <2>1, <2>2
<1>11. QED
  BY <1>8, <1>10 DEF Calm

\* The session that was loaded is of nobody else, and its game is not over.
LEMMA OwnGame ==
    ASSUME Inductive, NEW h \in Handler, At(h, "load"), Stored(h) # Nil,
           CalmFor(cmd[h]), NEW d, d.uuid = Stored(h).uuid
    PROVE  /\ d.uuid \in used /\ archive[d.uuid] = Nil
           /\ \A u \in User : session[u] # Nil /\ session[u].uuid = d.uuid
                                 => u = cmd[h].user
<1>1. cmd[h].user \in User /\ cmd[h].pc = "load"
  BY Loaded DEF Command
<1>2. ~Closing(cmd[h])
  BY <1>1 DEF Closing
<1>3. session[cmd[h].user] # Nil /\ session[cmd[h].user].uuid = d.uuid
  BY DEF Stored
<1>4. QED
  BY <1>1, <1>2, <1>3 DEF CalmFor, Apart, Pending

LEMMA CalmLoads ==
    ASSUME Inductive, Calm, NEW h \in Handler,
           \/ LoadMiss(h) \/ Resume(h) \/ Undo(h) \/ Resign(h)
           \/ PlayRefused(h) \/ PlayerMoves(h)
    PROVE  Calm'
<1>1. /\ cmd[h].pc = "load" /\ ~Closing(cmd[h]) /\ At(h, "load") /\ TypeOK
      /\ UNCHANGED <<session, used, archive, db, cache, calm>>
  BY DEF Inductive, At, Closing,
         LoadMiss, Resume, Undo, Resign, PlayRefused, PlayerMoves
<1>2. CASE Return(h)
  BY <1>1, <1>2, CalmReturns
<1>3. CASE LoadMiss(h)
  <2>1. CASE Is(h, "start")
    <3>1. Go(h, "fetch") /\ cmd[h].op = "start" /\ "fetch" \in PC \ {"idle"}
      BY <1>3, <2>1 DEF LoadMiss, Is, PC
    <3>2. QED
      BY <1>1, <3>1, CalmMovesOn DEF Finishing
  <2>2. QED
    BY <1>2, <1>3, <2>1 DEF LoadMiss
<1>4. CASE Resume(h)
  <2>1. Go(h, "peek") /\ cmd[h].op \in {"start", "status"} /\ "peek" \in PC \ {"idle"}
    BY <1>4 DEF Resume, PC
  <2>2. QED
    BY <1>1, <2>1, CalmMovesOn DEF Finishing
<1>5. ASSUME NEW to \in {"think", "insert", "peek", "save"}, NEW d \in Payload,
             Draft(h, to, d), Stored(h) # Nil, d.uuid = Stored(h).uuid,
             cmd[h].op \in Finishing \cup {"undo"}, to = "peek" => cmd[h].op = "undo"
      PROVE  Calm'
  <2>1. CalmFor(cmd[h]) =>
           /\ d.uuid \in used /\ archive[d.uuid] = Nil
           /\ \A u \in User : session[u] # Nil /\ session[u].uuid = d.uuid
                                 => u = cmd[h].user
    BY <1>1, <1>5, OwnGame
  <2>2. QED
    BY <1>1, <1>5, <2>1, CalmDrafts
<1>6. CASE Undo(h)
  <2>1. CASE ~TooFew(Stored(h))
    <3> DEFINE d == TakeBack(Stored(h))
    <3>1. Draft(h, "peek", d) /\ cmd[h].op = "undo" /\ Stored(h) # Nil
      BY <1>6, <2>1 DEF Undo, Is
    <3>2. Stored(h) \in Payload /\ Stored(h).ply \in Nat /\ Stored(h).ply >= 2
      BY <1>1, <2>1, <3>1, Loaded DEF TooFew
    <3>3. Stored(h).ply - 2 \in Nat
      BY <3>2
    <3>4. d \in Payload /\ d.uuid = Stored(h).uuid
      BY <3>2, <3>3 DEF TakeBack, Payload
    <3>5. QED
      BY <1>5, <3>1, <3>4
  <2>2. QED
    BY <1>2, <1>6, <2>1 DEF Undo
<1>7. CASE Resign(h)
  <2> DEFINE d == [Stored(h) EXCEPT !.end = "loss"]
  <2>1. Draft(h, "insert", d) /\ cmd[h].op = "resign" /\ Stored(h) # Nil
    BY <1>7 DEF Resign, Is
  <2>2. Stored(h) \in Payload
    BY <1>1, <2>1, Loaded
  <2>3. d \in Payload /\ d.uuid = Stored(h).uuid
    BY <2>2, ResultAssumption DEF Payload
  <2> HIDE DEF d
  <2>4. QED
    BY <1>5, <2>1, <2>3 DEF Finishing
<1>8. CASE PlayRefused(h)
  BY <1>2, <1>8 DEF PlayRefused
<1>9. CASE PlayerMoves(h)
  <2>1. PICK end \in {"open"} \cup (Result \ {"loss"}) :
          Draft(h, IF end = "open" THEN "think" ELSE "insert", Plied(Stored(h), end))
    BY <1>9 DEF PlayerMoves
  <2> DEFINE to == IF end = "open" THEN "think" ELSE "insert"
             d  == Plied(Stored(h), end)
  <2>2. cmd[h].op = "play" /\ Stored(h) # Nil
    BY <1>9 DEF PlayerMoves, Is
  <2>3. Stored(h) \in Payload /\ Stored(h).ply + 1 \in Nat
    BY <1>1, <2>2, Loaded
  <2>4. d \in Payload /\ d.uuid = Stored(h).uuid
    BY <2>3 DEF Plied, Payload
  <2>5. to \in {"think", "insert"} /\ Draft(h, to, d)
    BY <2>1
  <2> HIDE DEF to, d
  <2>6. QED
    BY <1>5, <2>2, <2>4, <2>5 DEF Finishing
<1>10. QED
  BY <1>3, <1>4, <1>6, <1>7, <1>8, <1>9

LEMMA CalmThinks ==
    ASSUME Inductive, Calm, NEW h \in Handler, EngineFails(h) \/ EngineMoves(h)
    PROVE  Calm'
<1>1. /\ cmd[h].pc = "think" /\ ~Closing(cmd[h]) /\ TypeOK
      /\ cmd[h] \in Command /\ Holds(cmd[h])
      /\ UNCHANGED <<session, used, archive, db, cache, calm>>
  BY Busy DEF Inductive, Hands, At, Closing, EngineFails, EngineMoves
<1>2. CASE EngineFails(h)
  BY <1>1, <1>2, CalmReturns DEF EngineFails
<1>3. CASE EngineMoves(h)
  <2>1. PICK end \in {"open"} \cup (Result \ {"win"}) :
          Draft(h, IF end = "open" THEN "save" ELSE "insert", Plied(cmd[h].draft, end))
    BY <1>3 DEF EngineMoves
  <2> DEFINE to == IF end = "open" THEN "save" ELSE "insert"
             d  == Plied(cmd[h].draft, end)
  <2>2. cmd[h].op = "play" /\ cmd[h].draft \in Payload
    BY <1>1 DEF Holds, Command
  <2>3. d \in Payload /\ d.uuid = cmd[h].draft.uuid
    <3>1. cmd[h].draft.ply + 1 \in Nat
      BY <2>2 DEF Payload
    <3>2. QED
      BY <2>2, <3>1 DEF Plied, Payload
  <2>4. to \in {"save", "insert"} /\ Draft(h, to, d)
    BY <2>1
  <2> HIDE DEF to, d
  <2>5. CalmFor(cmd[h]) =>
           /\ d.uuid \in used /\ archive[d.uuid] = Nil
           /\ \A u \in User : session[u] # Nil /\ session[u].uuid = d.uuid
                                 => u = cmd[h].user
    BY <1>1, <2>2, <2>3 DEF CalmFor, Mine, Finishing
  <2>6. QED
    BY <1>1, <2>2, <2>3, <2>4, <2>5, CalmDrafts DEF Finishing
<1>4. QED
  BY <1>2, <1>3

\* What SaveSession and DeleteSession leave is in order again.
LEMMA CalmStores ==
    ASSUME Inductive, Calm, NEW h \in Handler,
           Create(h) \/ CreateRefused(h) \/ Save(h) \/ Delete(h)
    PROVE  Calm'
<1>1. /\ cmd[h] \in Command /\ cmd[h].pc \in {"create", "save", "delete"}
      /\ cmd[h].user \in User
      /\ cmd' = [cmd EXCEPT ![h] = Idle] /\ TypeOK
      /\ UNCHANGED <<archive, db, cache, calm>>
  BY Busy DEF Inductive, At, Return, Command, Create, CreateRefused, Save, Delete
<1>2. SUFFICES ASSUME CalmFor(cmd[h]) PROVE CalmFor(Idle)'
  BY <1>1, CalmNow, CalmGoes
<1>3. cmd[h].pc # "delete" => CalmFor(Idle)
  BY <1>1, <1>2, IdleCalm, Carried DEF Closing
<1>4. /\ ~Owes(cmd[h]) /\ ~Owes(Idle) /\ ~Closing(Idle) /\ Idle.pc # "recache"
      /\ Mine(Idle)' /\ Fresh(Idle)'
  BY <1>1, IdleCalm, NilAssumption DEF Owes, Idle, Mine, Fresh, Closing, Finishing, Op
<1>5. SUFFICES /\ Apart'
               /\ \A u \in User : session'[u] # Nil => archive[session'[u].uuid] = Nil
  <2>1. /\ \A g \in Uuid : archive[g] # Nil => Told(g)
        /\ \A p \in Player : cache[p] \in {Nil, db[p]}
    BY <1>1, <1>2, <1>4 DEF CalmFor, Pending
  <2>2. /\ \A g \in Uuid : archive'[g] # Nil => Told(g)'
        /\ \A p \in Player : cache'[p] \in {Nil, db'[p]}
    BY <1>1, <2>1 DEF Told
  <2>3. Pending(Idle)'
    BY <1>1, <1>5, <2>2 DEF Pending
  <2>4. QED
    BY <1>4, <1>5, <2>3 DEF CalmFor
<1>6. CASE Create(h)
  <2>1. PICK g \in Uuid \ used :
          /\ used' = used \cup {g}
          /\ session' = [session EXCEPT ![cmd[h].user] =
                            [uuid |-> g, ply |-> 0, end |-> "open"]]
    BY <1>6 DEF Create
  <2>2. CalmFor(Idle)
    BY <1>3, <1>6 DEF Create, At
  <2>3. archive[g] = Nil
    BY <2>1, <2>2 DEF CalmFor, Apart
  <2>4. Apart'
    BY <1>1, <2>1, <2>2 DEF CalmFor, Apart, TypeOK
  <2>5. \A u \in User : session'[u] # Nil => archive[session'[u].uuid] = Nil
    BY <1>1, <1>4, <2>1, <2>2, <2>3 DEF CalmFor, Pending, TypeOK
  <2>6. QED
    BY <2>4, <2>5
<1>7. CASE CreateRefused(h)
  <2>1. CalmFor(Idle) /\ UNCHANGED <<session, used>>
    BY <1>3, <1>7 DEF CreateRefused, At
  <2>2. QED
    BY <1>1, <1>4, <2>1 DEF CalmFor, Apart, Pending
<1>8. CASE Save(h)
  <2>1. CalmFor(Idle) /\ cmd[h].pc = "save"
    BY <1>3, <1>8 DEF Save, At
  <2>2. session' = [session EXCEPT ![cmd[h].user] = cmd[h].draft] /\ used' = used
    BY <1>8 DEF Save
  <2>3. /\ cmd[h].draft.uuid \in used /\ archive[cmd[h].draft.uuid] = Nil
        /\ \A u \in User : session[u] # Nil /\ session[u].uuid = cmd[h].draft.uuid
                              => u = cmd[h].user
    BY <1>2, <2>1 DEF CalmFor, Mine, Closing
  <2>4. Apart'
    BY <1>1, <2>1, <2>2, <2>3 DEF CalmFor, Apart, TypeOK
  <2>5. \A u \in User : session'[u] # Nil => archive[session'[u].uuid] = Nil
    BY <1>1, <1>4, <2>1, <2>2, <2>3 DEF CalmFor, Pending, TypeOK
  <2>6. QED
    BY <2>4, <2>5
<1>9. CASE Delete(h)
  <2>1. cmd[h].pc = "delete" /\ cmd[h].op \in Finishing
    BY <1>2, <1>9 DEF CalmFor, Mine, Delete, At
  <2>2. session' = [session EXCEPT ![cmd[h].user] = Nil] /\ used' = used
    BY <1>9 DEF Delete
  <2>3. \A u \in User : session[u] # Nil /\ session[u].uuid = cmd[h].draft.uuid
                           => u = cmd[h].user
    BY <1>2, <2>1 DEF CalmFor, Mine
  <2>4. Apart'
    BY <1>1, <1>2, <2>2 DEF CalmFor, Apart, TypeOK
  <2>5. \A u \in User : session'[u] # Nil => archive[session'[u].uuid] = Nil
    BY <1>1, <1>2, <2>2, <2>3 DEF CalmFor, Pending, TypeOK
  <2>6. QED
    BY <2>4, <2>5
<1>10. QED
  BY <1>6, <1>7, <1>8, <1>9

\* The game is recorded once: Duplicate and Lookup never come to pass.
LEMMA CalmRecords ==
    ASSUME Inductive, Calm, NEW h \in Handler,
           Insert(h) \/ Duplicate(h) \/ Lookup(h)
    PROVE  Calm'
<1>1. /\ cmd[h] \in Command /\ Holds(cmd[h]) /\ cmd[h].op \in Finishing
      /\ cmd[h].pc \in {"insert", "lookup"} /\ TypeOK
      /\ UNCHANGED <<session, used, db, cache, calm>>
  BY Busy DEF Inductive, Hands, Holds, At, Insert, Duplicate, Lookup
<1>2. SUFFICES ASSUME CalmFor(cmd[h]), calm PROVE Calm'
  BY <1>1, CalmNow DEF Calm
<1>3. ~Closing(cmd[h]) /\ ~Owes(cmd[h])
  BY <1>1 DEF Closing, Owes
<1>4. /\ cmd[h].pc = "insert" /\ archive[Game(h)] = Nil /\ Game(h) \in used
      /\ \A u \in User : session[u] # Nil /\ session[u].uuid = Game(h)
                            => u = cmd[h].user
  BY <1>1, <1>2, <1>3 DEF CalmFor, Mine, Game
<1>5. Insert(h)
  BY <1>4 DEF Duplicate, Lookup, At, Taken
<1>6. PICK x \in Command :
        /\ cmd' = [cmd EXCEPT ![h] = x]
        /\ x.pc = "fetch" /\ x.op = cmd[h].op /\ x.user = cmd[h].user
        /\ x.player = cmd[h].player /\ x.draft = cmd[h].draft /\ x.prof = cmd[h].prof
  BY <1>1, <1>5, GoStep DEF Insert, PC
<1>7. archive' = [archive EXCEPT ![Game(h)] = RowOf(h)]
  BY <1>5 DEF Insert
<1>8. x.draft.uuid = Game(h) /\ Closing(x) /\ Owes(x)
  BY <1>1, <1>6 DEF Game, Closing, Owes
<1>9. Game(h) \in Uuid
  BY <1>1, <1>4, NilAssumption DEF Holds, Command, Payload, Game
<1>10. Apart'
  BY <1>1, <1>2, <1>4, <1>7, <1>9 DEF CalmFor, Apart, TypeOK
<1>11. Mine(x)' /\ Fresh(x)'
  <2>1. x.draft # Nil
    BY <1>1, <1>4, <1>6 DEF Holds
  <2>2. Closing(x)'
    BY <1>8 DEF Closing
  <2>3. QED
    BY <1>1, <1>4, <1>6, <1>8, <2>1, <2>2 DEF Mine, Fresh
<1>12. Pending(x)'
  <2>1. Owes(x)' /\ Closing(x)'
    BY <1>8 DEF Owes, Closing
  <2>2. ASSUME NEW g \in Uuid, archive'[g] # Nil
        PROVE  Told(g)' \/ x.draft.uuid = g
    <3>1. CASE g # Game(h)
      <4>1. archive'[g] = archive[g]
        BY <1>7, <3>1 DEF TypeOK
      <4>2. Told(g)
        BY <1>2, <1>3, <2>2, <4>1 DEF CalmFor, Pending
      <4>3. QED
        BY <1>1, <4>1, <4>2 DEF Told
    <3>2. QED
      BY <1>8, <3>1
  <2>3. ASSUME NEW u \in User, session[u] # Nil, archive'[session[u].uuid] # Nil
        PROVE  x.draft.uuid = session[u].uuid
    <3>1. session[u].uuid \in Uuid
      BY <1>1, <2>3 DEF TypeOK, Payload
    <3>2. CASE session[u].uuid # Game(h)
      BY <1>1, <1>2, <1>3, <1>7, <2>3, <3>1, <3>2 DEF CalmFor, Pending, TypeOK
    <3>3. QED
      BY <1>8, <3>2
  <2>4. \A p \in Player : cache[p] \in {Nil, db[p]}
    BY <1>2, <1>4 DEF CalmFor, Pending
  <2>5. QED
    BY <1>1, <2>1, <2>2, <2>3, <2>4 DEF Pending
<1>13. CalmFor(x)'
  BY <1>10, <1>11, <1>12 DEF CalmFor
<1>14. QED
  BY <1>1, <1>6, <1>13, CalmGoes

\* From one place to the next between recording a game and counting it.
LEMMA Continued ==
    ASSUME NEW c, NEW x, CalmFor(c), c.pc \in {"fetch", "warm"},
           c.op \in Finishing \cup {"start", "prefer"},
           x.op = c.op, x.user = c.user, x.player = c.player, x.draft = c.draft,
           x.pc \in {"warm", "upsert", "create"},
           x.pc = "create" => x.op = "start",
           Fresh(x)
    PROVE  CalmFor(x)
<1>1. (Owes(c) <=> Owes(x)) /\ (Closing(c) <=> Closing(x))
  BY DEF Owes, Closing, Finishing
<1>2. Mine(x)
  BY <1>1 DEF CalmFor, Mine, Finishing
<1>3. Pending(x)
  BY <1>1 DEF CalmFor, Pending
<1>4. QED
  BY <1>2, <1>3 DEF CalmFor

\* To cache what Postgres has puts nothing in disorder.
LEMMA CachesFresh ==
    ASSUME TypeOK, NEW x, CalmFor(x), NEW p \in Player,
           cache' = [cache EXCEPT ![p] = db[p]],
           UNCHANGED <<session, used, archive, db>>
    PROVE  CalmFor(x)'
<1>1. Apart' /\ Mine(x)' /\ Fresh(x)'
  BY DEF CalmFor, Apart, Mine, Fresh, Closing
<1>2. Pending(x)'
  BY DEF CalmFor, Pending, Told, Owes, Closing, TypeOK
<1>3. QED
  BY <1>1, <1>2 DEF CalmFor

\* A profile is shown to whoever does not finish a game.
LEMMA CalmShows ==
    ASSUME TypeOK, NEW h \in Handler, CalmFor(cmd[h]),
           cmd[h].pc \in {"peek", "peekdb", "peekwarm"}, Shown(h)
    PROVE  \E x \in Command \cup {Idle} :
              cmd' = [cmd EXCEPT ![h] = x] /\ CalmFor(x)
<1>1. /\ cmd[h] \in Command /\ ~Closing(cmd[h]) /\ cmd[h].pc # "recache"
      /\ cmd[h].op \notin Finishing
  BY Busy DEF CalmFor, Mine, Closing
<1>2. CASE Return(h)
  <2>1. CalmFor(Idle)
    BY <1>1, IdleCalm, Carried
  <2>2. QED
    BY <1>2, <2>1 DEF Return
<1>3. CASE Is(h, "start")
           /\ cmd' = [cmd EXCEPT ![h].op = "status", ![h].pc = "load", ![h].prof = Nil]
  <2> DEFINE x == [cmd[h] EXCEPT !.op = "status", !.pc = "load", !.prof = Nil]
  <2>1. x \in Command /\ cmd' = [cmd EXCEPT ![h] = x] /\ x.op = "status" /\ x.pc = "load"
    BY <1>1, <1>3 DEF Command, Op, PC
  <2> HIDE DEF x
  <2>2. Mine(x) /\ Fresh(x)
    BY <2>1 DEF Mine, Fresh, Finishing
  <2>3. QED
    BY <1>1, <2>1, <2>2, Carried
<1>4. CASE Is(h, "undo") /\ Go(h, "save")
  <2>1. PICK x \in Command :
          /\ cmd' = [cmd EXCEPT ![h] = x]
          /\ x.pc = "save" /\ x.op = cmd[h].op /\ x.user = cmd[h].user
          /\ x.draft = cmd[h].draft
    BY <1>1, <1>4, GoStep DEF PC
  <2>2. Mine(x) /\ Fresh(x)
    BY <1>1, <1>4, <2>1 DEF CalmFor, Mine, Fresh, Closing, Is, Finishing
  <2>3. QED
    BY <1>1, <2>1, <2>2, Carried
<1>5. QED
  BY <1>1, <1>2, <1>3, <1>4 DEF Shown

LEMMA CalmFetches ==
    ASSUME Inductive, Calm, NEW h \in Handler, Fetch(h) \/ Warm(h)
    PROVE  Calm'
<1>1. /\ cmd[h] \in Command /\ Holds(cmd[h]) /\ cmd[h].player \in Player
      /\ cmd[h].pc \in {"fetch", "warm"}
      /\ cmd[h].op \in Finishing \cup {"start", "prefer"} /\ TypeOK
      /\ UNCHANGED <<session, used, archive, db, calm>>
  BY Busy DEF Inductive, Hands, Holds, At, Command, Fetch, Warm
<1>2. SUFFICES ASSUME CalmFor(cmd[h])
               PROVE  \E x \in Command : cmd' = [cmd EXCEPT ![h] = x] /\ CalmFor(x)'
  <2>1. ~calm => Calm'
    BY <1>1 DEF Calm
  <2>2. calm => CalmFor(cmd[h])
    BY <1>1, CalmNow
  <2>3. QED
    BY <1>1, <1>2, <2>1, <2>2, CalmGoes
<1>3. Fetched(h) \in PC \ {"idle"} /\ Fetched(h) \in {"create", "upsert"}
      /\ (Fetched(h) = "create" => cmd[h].op = "start")
  BY DEF Fetched, Is, PC
<1>4. CASE Fetch(h)
  <2>1. cache' = cache /\ cmd[h].pc = "fetch"
    BY <1>4 DEF Fetch, At
  <2>2. CASE db[cmd[h].player] = Nil
    <3>1. Prof(h, Fetched(h), Zero)
      BY <1>4, <2>2 DEF Fetch, Prof
    <3>2. PICK x \in Command :
            /\ cmd' = [cmd EXCEPT ![h] = x]
            /\ x.pc = Fetched(h) /\ x.op = cmd[h].op /\ x.user = cmd[h].user
            /\ x.player = cmd[h].player /\ x.draft = cmd[h].draft /\ x.prof = Zero
      BY <1>1, <1>3, <3>1, Uncounted, ProfStep
    <3>3. Fresh(x)
      BY <1>3, <2>2, <3>2 DEF Fresh
    <3>4. CalmFor(x)
      BY <1>1, <1>2, <1>3, <3>2, <3>3, Continued
    <3>5. QED
      BY <1>1, <2>1, <3>2, <3>4, StaysSo
  <2>3. CASE db[cmd[h].player] # Nil
    <3>1. Prof(h, "warm", db[cmd[h].player])
      BY <1>4, <2>3 DEF Fetch, Prof
    <3>2. db[cmd[h].player] \in Tally /\ "warm" \in PC \ {"idle"}
      BY <1>1, <2>3 DEF TypeOK, PC
    <3>3. PICK x \in Command :
            /\ cmd' = [cmd EXCEPT ![h] = x]
            /\ x.pc = "warm" /\ x.op = cmd[h].op /\ x.user = cmd[h].user
            /\ x.player = cmd[h].player /\ x.draft = cmd[h].draft
            /\ x.prof = db[cmd[h].player]
      BY <1>1, <3>1, <3>2, ProfStep
    <3>4. Fresh(x)
      BY <3>3 DEF Fresh
    <3>5. CalmFor(x)
      BY <1>1, <1>2, <3>3, <3>4, Continued
    <3>6. QED
      BY <1>1, <2>1, <3>3, <3>5, StaysSo
  <2>4. QED
    BY <2>2, <2>3
<1>5. CASE Warm(h)
  <2>1. Go(h, Fetched(h)) /\ cmd[h].pc = "warm"
    BY <1>5 DEF Warm, At
  <2>2. cmd[h].prof = db[cmd[h].player]
    BY <1>2, <2>1 DEF CalmFor, Fresh
  <2>3. cache' = [cache EXCEPT ![cmd[h].player] = db[cmd[h].player]]
    BY <1>5, <2>2 DEF Warm, CacheProfile
  <2>4. PICK x \in Command :
          /\ cmd' = [cmd EXCEPT ![h] = x]
          /\ x.pc = Fetched(h) /\ x.op = cmd[h].op /\ x.user = cmd[h].user
          /\ x.player = cmd[h].player /\ x.draft = cmd[h].draft
          /\ x.prof = cmd[h].prof
    BY <1>1, <1>3, <2>1, GoStep
  <2>5. Fresh(x)
    BY <1>3, <2>2, <2>4 DEF Fresh
  <2>6. CalmFor(x)
    BY <1>1, <1>2, <1>3, <2>4, <2>5, Continued
  <2>7. QED
    BY <1>1, <2>3, <2>4, <2>6, CachesFresh
<1>6. QED
  BY <1>4, <1>5

\* What is stored counts the game that was recorded, and all that was counted.
LEMMA CountedAs ==
    ASSUME Inductive, NEW h \in Handler, At(h, "upsert")
    PROVE  /\ cmd[h].op \notin Finishing => Counted(h) = cmd[h].prof
           /\ cmd[h].op \in Finishing =>
                 /\ archive[Game(h)] = RowOf(h)
                 /\ Counted(h)[<<Game(h), cmd[h].draft.end>>] = 1
                 /\ \A g \in Uuid, r \in Result :
                       g # Game(h) => Counted(h)[<<g, r>>] = cmd[h].prof[<<g, r>>]
<1>1. CASE cmd[h].op \notin Finishing
  BY <1>1 DEF Counted
<1>2. CASE cmd[h].op \in Finishing
  <2> DEFINE e == <<Game(h), cmd[h].draft.end>>
  <2>1. h \in Owing /\ cmd[h] \in Command /\ Holds(cmd[h]) /\ cmd[h].pc = "upsert"
    BY <1>2, Busy DEF Owing, Owes, At, Inductive, Hands
  <2>2. /\ cmd[h].draft \in Payload /\ cmd[h].draft.end \in Result
        /\ cmd[h].prof \in Tally
    BY <1>2, <2>1 DEF Holds, Command
  <2>3. e \in Uuid \X Result
    BY <2>2 DEF Game, Payload
  <2>4. Unknown(cmd[h].prof, Game(h)) /\ archive[Game(h)] = RowOf(h)
    BY <2>1, <2>2, NilAssumption DEF Inductive, Debts
  <2>5. cmd[h].prof[e] = 0
    BY <2>2, <2>4 DEF Unknown
  <2>6. Counted(h) = [cmd[h].prof EXCEPT ![e] = cmd[h].prof[e] + 1]
    BY <1>2 DEF Counted
  <2>7. /\ Counted(h)[e] = 1
        /\ \A d \in Uuid \X Result : d # e => Counted(h)[d] = cmd[h].prof[d]
    BY <2>2, <2>3, <2>5, <2>6 DEF Tally
  <2>8. ASSUME NEW g \in Uuid, NEW r \in Result, g # Game(h)
        PROVE  Counted(h)[<<g, r>>] = cmd[h].prof[<<g, r>>]
    <3>1. <<g, r>> # e /\ <<g, r>> \in Uuid \X Result
      BY <2>8
    <3>2. QED
      BY <2>7, <3>1
  <2>9. QED
    BY <1>1, <2>4, <2>7, <2>8
<1>3. QED
  BY <1>1, <1>2

LEMMA CalmCounts ==
    ASSUME Inductive, Calm, NEW h \in Handler, Upsert(h)
    PROVE  Calm'
<1>1. /\ At(h, "upsert") /\ cmd[h].pc = "upsert" /\ TypeOK
      /\ cmd[h] \in Command /\ Holds(cmd[h]) /\ cmd[h].player \in Player
      /\ Counted(h) \in Tally
      /\ db' = [db EXCEPT ![cmd[h].player] = Counted(h)]
      /\ UNCHANGED <<session, used, archive, cache, calm>>
  BY CountedOnce DEF Inductive, Hands, Upsert, At, Command
<1>2. PICK x \in Command :
        /\ cmd' = [cmd EXCEPT ![h] = x]
        /\ x.pc = "recache" /\ x.op = cmd[h].op /\ x.user = cmd[h].user
        /\ x.player = cmd[h].player /\ x.draft = cmd[h].draft /\ x.prof = Counted(h)
  <2>1. Prof(h, "recache", Counted(h)) /\ "recache" \in PC \ {"idle"}
    BY DEF Upsert, Prof, PC
  <2>2. QED
    BY <1>1, <2>1, ProfStep
<1>3. SUFFICES ASSUME CalmFor(cmd[h]) PROVE CalmFor(x)'
  BY <1>1, <1>2, CalmNow, CalmGoes
<1>4. Counted(h) # Nil /\ db'[cmd[h].player] = Counted(h)
  BY <1>1, NilAssumption DEF TypeOK
<1>5. (Closing(cmd[h]) <=> Closing(x)) /\ ~Owes(x)
  BY <1>1, <1>2 DEF Closing, Owes
<1>6. Apart' /\ Mine(x)'
  BY <1>1, <1>2, <1>3, <1>5 DEF CalmFor, Apart, Mine, Closing, Finishing
<1>7. Fresh(x)'
  BY <1>2, <1>4 DEF Fresh
<1>8. ASSUME NEW g \in Uuid, archive[g] # Nil
      PROVE  Told(g)'
  <2>1. archive[g] \in Row
    BY <1>1, <1>8 DEF TypeOK
  <2>2. archive[g].player \in Player /\ archive[g].result \in Result
    BY <2>1 DEF Row
  <2>3. CASE cmd[h].op \in Finishing /\ g = Game(h)
    <3>1. archive[g] = RowOf(h) /\ Counted(h)[<<g, cmd[h].draft.end>>] = 1
      BY <1>1, <2>3, CountedAs
    <3>2. archive[g].player = cmd[h].player /\ archive[g].result = cmd[h].draft.end
      BY <3>1 DEF RowOf
    <3>3. QED
      BY <1>1, <1>4, <3>1, <3>2 DEF Told
  <2>4. CASE ~(cmd[h].op \in Finishing /\ g = Game(h))
    <3>1. Told(g)
      BY <1>3, <1>8, <2>4 DEF CalmFor, Pending, Owes, Game
    <3>2. CASE archive[g].player # cmd[h].player
      BY <1>1, <2>2, <3>1, <3>2 DEF Told, TypeOK
    <3>3. CASE archive[g].player = cmd[h].player
      <4>1. cmd[h].prof = db[cmd[h].player]
        BY <1>1, <1>3, <3>1, <3>3 DEF CalmFor, Fresh, Told
      <4>2. Counted(h)[<<g, archive[g].result>>] = cmd[h].prof[<<g, archive[g].result>>]
        BY <1>1, <2>2, <2>4, CountedAs
      <4>3. QED
        BY <1>1, <1>4, <3>1, <3>3, <4>1, <4>2 DEF Told
    <3>4. QED
      BY <3>2, <3>3
  <2>5. QED
    BY <2>3, <2>4
<1>9. ASSUME NEW p \in Player
      PROVE  cache[p] \in {Nil, db'[p]} \/ p = cmd[h].player
  BY <1>1, <1>3 DEF CalmFor, Pending, TypeOK
<1>10. ASSUME NEW u \in User, session[u] # Nil, archive[session[u].uuid] # Nil
       PROVE  Closing(x) /\ x.draft.uuid = session[u].uuid
  BY <1>2, <1>3, <1>5, <1>10 DEF CalmFor, Pending
<1>11. Pending(x)'
  BY <1>1, <1>2, <1>8, <1>9, <1>10 DEF Pending, Closing
<1>12. QED
  BY <1>6, <1>7, <1>11 DEF CalmFor

LEMMA CalmRecaches ==
    ASSUME Inductive, Calm, NEW h \in Handler, Recache(h)
    PROVE  Calm'
<1>1. /\ cmd[h].pc = "recache" /\ cmd[h] \in Command /\ cmd[h].player \in Player
      /\ TypeOK /\ UNCHANGED <<session, used, archive, db, calm>>
      /\ cache' = [cache EXCEPT ![cmd[h].player] = cmd[h].prof]
  BY Busy DEF Inductive, At, Command, Recache, CacheProfile
<1>2. PICK x \in Command \cup {Idle} :
        /\ cmd' = [cmd EXCEPT ![h] = x]
        /\ \/ cmd[h].op \notin Finishing /\ x = Idle
           \/ /\ cmd[h].op \in Finishing /\ x.pc = "delete" /\ x.op = cmd[h].op
              /\ x.user = cmd[h].user /\ x.draft = cmd[h].draft
  BY <1>1, GoStep DEF Recache, Upserted, Return, PC
<1>3. SUFFICES ASSUME CalmFor(cmd[h]) PROVE CalmFor(x)'
  BY <1>1, <1>2, CalmNow, CalmGoes
<1>4. cmd[h].prof = db[cmd[h].player] /\ ~Owes(cmd[h])
  BY <1>1, <1>3 DEF CalmFor, Fresh, Owes
<1>5. Mine(x) /\ Fresh(x) /\ (Closing(cmd[h]) => Closing(x))
  BY <1>1, <1>2, <1>3, IdleCalm DEF CalmFor, Mine, Fresh, Closing, Finishing
<1>6. \A p \in Player : cache'[p] \in {Nil, db[p]}
  BY <1>1, <1>3, <1>4 DEF CalmFor, Pending, TypeOK
<1>7. ASSUME NEW u \in User, session[u] # Nil, archive[session[u].uuid] # Nil
      PROVE  Closing(x) /\ x.draft.uuid = session[u].uuid
  <2>1. Closing(cmd[h]) /\ cmd[h].draft.uuid = session[u].uuid
    BY <1>3, <1>7 DEF CalmFor, Pending
  <2>2. x.draft = cmd[h].draft
    BY <1>2, <2>1 DEF Closing
  <2>3. QED
    BY <1>5, <2>1, <2>2
<1>8. \A g \in Uuid : archive[g] # Nil => Told(g)
  BY <1>3, <1>4 DEF CalmFor, Pending
<1>9. Pending(x)'
  BY <1>1, <1>6, <1>7, <1>8 DEF Pending, Told, Closing
<1>10. Apart' /\ Mine(x)' /\ Fresh(x)'
  BY <1>1, <1>3, <1>5 DEF CalmFor, Apart, Mine, Fresh, Closing
<1>11. QED
  BY <1>9, <1>10 DEF CalmFor

LEMMA CalmPeeks ==
    ASSUME Inductive, Calm, NEW h \in Handler, Peek(h) \/ PeekDb(h) \/ PeekWarm(h)
    PROVE  Calm'
<1>1. /\ cmd[h].pc \in {"peek", "peekdb", "peekwarm"} /\ cmd[h] \in Command
      /\ cmd[h].player \in Player /\ TypeOK
      /\ UNCHANGED <<session, used, archive, db, calm>>
  BY Busy DEF Inductive, At, Command, Peek, PeekDb, PeekWarm
<1>2. SUFFICES ASSUME calm, CalmFor(cmd[h]) PROVE Calm'
  BY <1>1, CalmNow DEF Calm
<1>3. cmd[h].op \notin Finishing /\ ~Closing(cmd[h]) /\ cmd[h].pc # "recache"
  BY <1>1, <1>2 DEF CalmFor, Mine, Closing
<1>4. CASE Shown(h)
  <2>1. PICK x \in Command \cup {Idle} :
          cmd' = [cmd EXCEPT ![h] = x] /\ CalmFor(x)
    BY <1>1, <1>2, <1>4, CalmShows
  <2>2. CASE cache' = cache
    BY <1>1, <2>1, <2>2, StaysSo, CalmGoes
  <2>3. CASE PeekWarm(h)
    <3>1. cmd[h].pc = "peekwarm"
      BY <2>3 DEF PeekWarm, At
    <3>2. cache' = [cache EXCEPT ![cmd[h].player] = db[cmd[h].player]]
      BY <1>2, <2>3, <3>1 DEF CalmFor, Fresh, PeekWarm, CacheProfile
    <3>3. QED
      BY <1>1, <2>1, <3>2, CachesFresh, CalmGoes
  <2>4. QED
    BY <2>2, <2>3 DEF Peek, PeekDb
<1>5. CASE Peek(h) /\ Go(h, "peekdb")
  <2>1. cmd[h].pc = "peek" /\ cache' = cache /\ "peekdb" \in PC \ {"idle"}
    BY <1>5 DEF Peek, At, PC
  <2>2. QED
    BY <1>1, <1>3, <1>5, <2>1, CalmMovesOn
<1>6. CASE PeekDb(h) /\ db[cmd[h].player] # Nil
  <2>1. /\ Prof(h, "peekwarm", db[cmd[h].player]) /\ "peekwarm" \in PC \ {"idle"}
        /\ db[cmd[h].player] \in Tally /\ cache' = cache
    BY <1>1, <1>6 DEF PeekDb, Prof, PC, TypeOK
  <2>2. PICK x \in Command :
          /\ cmd' = [cmd EXCEPT ![h] = x]
          /\ x.pc = "peekwarm" /\ x.op = cmd[h].op /\ x.user = cmd[h].user
          /\ x.player = cmd[h].player /\ x.draft = cmd[h].draft
          /\ x.prof = db[cmd[h].player]
    BY <1>1, <2>1, ProfStep
  <2>3. Mine(x) /\ Fresh(x)
    BY <1>1, <1>2, <1>3, <2>2 DEF CalmFor, Mine, Fresh, Closing
  <2>4. QED
    BY <1>1, <1>3, <2>1, <2>2, <2>3, CalmMoves
<1>7. QED
  BY <1>4, <1>5, <1>6 DEF Peek, PeekDb, PeekWarm

LEMMA CalmExpires ==
    ASSUME TypeOK, Calm,
           \/ \E u \in User : ExpireSession(u)
           \/ \E p \in Player : ExpireProfile(p)
    PROVE  Calm'
<1>1. /\ \A u \in User : session'[u] \in {session[u], Nil}
      /\ \A p \in Player : cache'[p] \in {cache[p], Nil}
      /\ UNCHANGED <<used, archive, db, cmd, calm>>
  BY DEF TypeOK, ExpireSession, ExpireProfile
<1>2. ASSUME NEW c, CalmFor(c) PROVE CalmFor(c)'
  <2>1. Apart' /\ Mine(c)' /\ Fresh(c)'
    BY <1>1, <1>2 DEF CalmFor, Apart, Mine, Fresh, Closing
  <2>2. Pending(c)'
    BY <1>1, <1>2 DEF CalmFor, Pending, Told, Owes, Closing
  <2>3. QED
    BY <2>1, <2>2 DEF CalmFor
<1>3. ASSUME NEW h \in Handler, CalmFor(cmd[h]) PROVE CalmFor(cmd[h])'
  <2>1. PICK c : c = cmd[h]
    OBVIOUS
  <2>2. CalmFor(c)' /\ cmd'[h] = c
    BY <1>1, <1>2, <1>3, <2>1
  <2>3. QED
    BY <2>2 DEF CalmFor, Apart, Mine, Fresh, Pending, Told, Closing, Owes
<1>4. CalmFor(Idle) => CalmFor(Idle)'
  BY <1>2
<1>5. QED
  BY <1>1, <1>3, <1>4 DEF Calm

LEMMA CalmInit == Init => Calm
<1>1. SUFFICES ASSUME Init PROVE CalmFor(Idle) /\ \A h \in Handler : cmd[h] = Idle
  BY DEF Calm
<1>2. Apart /\ Pending(Idle)
  BY <1>1 DEF Init, Apart, Pending
<1>3. QED
  BY <1>1, <1>2, IdleCalm DEF Init, CalmFor

LEMMA CalmStep == Inductive /\ Calm /\ [Next]_vars => Calm'
<1>1. SUFFICES ASSUME Inductive, Calm, [Next]_vars PROVE Calm'
  OBVIOUS
<1>2. TypeOK
  BY <1>1 DEF Inductive
<1>3. CASE UNCHANGED vars
  BY <1>1, <1>3
     DEF vars, Calm, CalmFor, Apart, Mine, Fresh, Pending, Told, Closing, Owes
<1>4. ASSUME NEW h \in Handler, NEW op \in Op, NEW u \in User, NEW p \in Player,
             Begin(h, op, u, p)
      PROVE  Calm'
  BY <1>1, <1>2, <1>4, CalmBegins
<1>5. ASSUME NEW h \in Handler, Step(h) PROVE Calm'
  BY <1>1, <1>5, CalmLoads, CalmThinks, CalmStores, CalmRecords, CalmFetches,
     CalmCounts, CalmRecaches, CalmPeeks DEF Step
<1>6. ASSUME NEW h \in Handler, Fail(h) \/ InsertLost(h) \/ UpsertLost(h)
      PROVE  Calm'
  BY <1>6 DEF Fail, InsertLost, UpsertLost, Calm
<1>7. CASE Crash
  BY <1>7 DEF Crash, Calm
<1>8. QED
  BY <1>1, <1>2, <1>3, <1>4, <1>5, <1>6, <1>7, CalmExpires DEF Next

LEMMA CalmSettles == TypeOK /\ Calm => SettledWhenCalm
<1>1. SUFFICES ASSUME TypeOK, Calm, calm, \A h \in Handler : At(h, "idle")
               PROVE  /\ \A g \in Uuid : archive[g] # Nil =>
                            /\ Told(g)
                            /\ \A u \in User : session[u] # Nil => session[u].uuid # g
                      /\ \A p \in Player : cache[p] \in {Nil, db[p]}
  BY DEF SettledWhenCalm, Told
<1>2. \A h \in Handler : cmd[h] = Idle
  BY <1>1, Busy DEF TypeOK, At, Command
<1>3. CalmFor(Idle) /\ Idle.pc # "recache"
  BY <1>1, <1>2 DEF Calm, Idle
<1>4. QED
  BY <1>3, IdleCalm DEF CalmFor, Pending

LEMMA CalmHolds == Spec => []Calm
  BY CalmInit, CalmStep, SoloInvariance, PTL DEF Spec

\* After commands that came one at a time and whose calls all succeeded, every
\* recorded game is counted for the name it was recorded under, nobody can play
\* it on, and the cached profiles are the stored ones (service.go 1380-1437).
THEOREM SettledOneByOne == Spec => []SettledWhenCalm
<1>1. TypeOK /\ Calm => SettledWhenCalm
  BY CalmSettles
<1>2. QED
  BY <1>1, CalmHolds, SoloTypeCorrect, PTL
-----------------------------------------------------------------------------
(* SoloGame.  While all is calm there is at most one command, c, and the     *)
(* games the users have are read off the Redis sessions and its draft.       *)

Alone(c) ==
    /\ TypeOK
    /\ \/ c = Idle /\ \A i \in Handler : cmd[i] = Idle
       \/ \E h \in Handler : cmd[h] = c /\ \A i \in Handler : i # h => cmd[i] = Idle

\* The game of user u, whose session is s, when the rows are a.
GameOf(c, u, s, a) ==
    IF c.draft # Nil /\ c.user = u /\ a[c.draft.uuid] = Nil
    THEN [uuid |-> c.draft.uuid, ply |-> LoadedPly(c)]
    ELSE IF s = Nil \/ a[s.uuid] # Nil THEN Nil ELSE [uuid |-> s.uuid, ply |-> s.ply]

\* How often e counts for player p, whose profile is t.
Count(c, p, e, t) ==
    (IF t = Nil THEN 0 ELSE t[e])
    + (IF Owes(c) /\ c.player = p /\ <<c.draft.uuid, c.draft.end>> = e THEN 1 ELSE 0)

GamesOf(c)   == [u \in User |-> GameOf(c, u, session[u], archive)]
TalliesOf(c) == [p \in Player |-> [e \in Uuid \X Result |-> Count(c, p, e, db[p])]]

View == \A c : Alone(c) => Games = GamesOf(c) /\ Tallies = TalliesOf(c)

LEMMA ViewHolds == View
<1>1. SUFFICES ASSUME NEW c, Alone(c)
               PROVE  Games = GamesOf(c) /\ Tallies = TalliesOf(c)
  BY DEF View
<1>2. Idle.draft = Nil /\ ~Owes(Idle)
  BY IdleHolds DEF Idle
<1>3. ASSUME NEW u \in User
      PROVE  Games[u] = GameOf(c, u, session[u], archive)
  <2>1. CASE c.draft # Nil /\ c.user = u /\ archive[c.draft.uuid] = Nil
    <3>1. PICK h \in Handler : cmd[h] = c /\ \A i \in Handler : i # h => cmd[i] = Idle
      BY <1>1, <1>2, <2>1 DEF Alone
    <3>2. InHand(u) = {h}
      BY <1>2, <2>1, <3>1 DEF InHand
    <3>3. (CHOOSE i \in InHand(u) : TRUE) = h /\ InHand(u) # {}
      BY <3>2
    <3>4. QED
      BY <2>1, <3>1, <3>3 DEF Games, GameOf
  <2>2. CASE ~(c.draft # Nil /\ c.user = u /\ archive[c.draft.uuid] = Nil)
    <3>1. InHand(u) = {}
      BY <1>1, <1>2, <2>2 DEF InHand, Alone
    <3>2. QED
      BY <2>2, <3>1 DEF Games, GameOf, InRedis
  <2>3. QED
    BY <2>1, <2>2
<1>4. ASSUME NEW p \in Player, NEW e \in Uuid \X Result
      PROVE  (\E h \in Owing : cmd[h].player = p /\ <<Game(h), cmd[h].draft.end>> = e)
             <=> (Owes(c) /\ c.player = p /\ <<c.draft.uuid, c.draft.end>> = e)
  BY <1>1, <1>2 DEF Alone, Owing, Game
<1>5. Games = GamesOf(c)
  BY <1>3 DEF Games, GamesOf
<1>6. Tallies = TalliesOf(c)
  BY <1>4 DEF Tallies, TalliesOf, Count
<1>7. QED
  BY <1>5, <1>6

\* What was recorded stays, and what is recorded counts at most once.
Once == Inductive =>
    \A p \in Player, g \in Uuid, r \in Result :
        Tallies[p][<<g, r>>] <= IF archive[g] = [player |-> p, result |-> r] THEN 1 ELSE 0

LEMMA OnceHolds == Once
<1>1. SUFFICES ASSUME Inductive, NEW p \in Player, NEW g \in Uuid, NEW r \in Result
               PROVE  Tallies[p][<<g, r>>] <=
                         IF archive[g] = [player |-> p, result |-> r] THEN 1 ELSE 0
  BY DEF Once
<1> DEFINE owed == \E h \in Owing :
                      cmd[h].player = p /\ <<Game(h), cmd[h].draft.end>> = <<g, r>>
           known == IF db[p] = Nil THEN 0 ELSE db[p][<<g, r>>]
<1>2. Tallies[p][<<g, r>>] = known + (IF owed THEN 1 ELSE 0)
  BY DEF Tallies
<1>3. known \in Nat /\ known <= IF archive[g] = [player |-> p, result |-> r] THEN 1 ELSE 0
  BY <1>1 DEF Inductive, TypeOK, Tally, CountsBacked, Backed
<1>4. ASSUME owed
      PROVE  known = 0 /\ archive[g] = [player |-> p, result |-> r]
  <2>1. PICK h \in Owing : cmd[h].player = p /\ Game(h) = g /\ cmd[h].draft.end = r
    BY <1>4
  <2>2. archive[g] = RowOf(h) /\ (db[p] # Nil => Unknown(db[p], g))
    BY <1>1, <2>1 DEF Inductive, Debts
  <2>3. QED
    BY <2>1, <2>2 DEF RowOf, Unknown
<1> HIDE DEF owed, known
<1>5. QED
  BY <1>2, <1>3, <1>4

LEMMA DisturbedStep ==
    ASSUME Inductive, Inductive', [Next]_vars, ~calm'
    PROVE  Promise!Disturbed
<1>1. used \subseteq used'
  BY DEF Next, vars, Step, Begin, LoadMiss, Resume, Undo, Resign, PlayRefused,
         PlayerMoves, EngineFails, EngineMoves, Create, CreateRefused, Save, Delete,
         Insert, Duplicate, Lookup, Fetch, Warm, Upsert, Recache, Peek, PeekDb,
         PeekWarm, Fail, InsertLost, UpsertLost, Crash, ExpireSession, ExpireProfile
<1>2. ASSUME NEW g \in Uuid, archive[g] # Nil PROVE archive'[g] = archive[g]
  <2>1. CASE archive' = archive
    BY <2>1
  <2>2. ASSUME NEW h \in Handler, ~Taken(Game(h)),
               archive' = [archive EXCEPT ![Game(h)] = RowOf(h)]
        PROVE  archive'[g] = archive[g]
    BY <1>2, <2>2 DEF Taken, Inductive, TypeOK
  <2>3. QED
    BY <2>1, <2>2
       DEF Next, vars, Step, Begin, LoadMiss, Resume, Undo, Resign, PlayRefused,
           PlayerMoves, EngineFails, EngineMoves, Create, CreateRefused, Save, Delete,
           Insert, Duplicate, Lookup, Fetch, Warm, Upsert, Recache, Peek, PeekDb,
           PeekWarm, Fail, InsertLost, UpsertLost, Crash, ExpireSession, ExpireProfile
<1>3. Once'
  BY OnceHolds, PTL
<1>4. \A p \in Player, g \in Uuid, r \in Result :
         Tallies'[p][<<g, r>>] <= IF archive'[g] = [player |-> p, result |-> r] THEN 1 ELSE 0
  BY <1>3 DEF Once
<1>5. QED
  BY <1>1, <1>2, <1>4 DEF Promise!Disturbed

\* What is true of the one command c, whose user's session is s, when the rows
\* are a: a session that is still there is the one the draft was made from.
SteadyWith(c, s, a) ==
    /\ c.draft # Nil =>
          c.op \in Finishing \cup {"undo"} /\ c.pc # "load" /\ LoadedPly(c) \in Nat
    /\ c.draft # Nil /\ s # Nil =>
          /\ s.uuid = c.draft.uuid
          /\ a[c.draft.uuid] = Nil => s.ply = LoadedPly(c)
    /\ Closing(c) => a[c.draft.uuid] # Nil
    /\ c.pc = "save" => c.op # "resign"
    /\ c.pc = "create" => c.op = "start"
    /\ c.op = "start" /\ c.pc \in {"fetch", "warm", "create"} => s = Nil

Tracked == calm => \A h \in Handler : SteadyWith(cmd[h], session[cmd[h].user], archive)

LEMMA IdleSteady == \A s, a : SteadyWith(Idle, s, a)
  BY IdleCalm, NilAssumption DEF SteadyWith, Idle, Op

LEMMA Working ==
    ASSUME Inductive, Calm, Tracked, calm, NEW h \in Handler, cmd[h].pc # "idle"
    PROVE  /\ cmd[h] \in Command /\ CalmFor(cmd[h]) /\ Alone(cmd[h]) /\ Holds(cmd[h])
           /\ SteadyWith(cmd[h], session[cmd[h].user], archive)
  BY Busy, CalmNow DEF Inductive, Alone, Tracked, Hands

LEMMA StaysAlone ==
    ASSUME TypeOK', NEW h \in Handler, NEW x,
           Alone(cmd[h]), cmd[h].pc # "idle", cmd' = [cmd EXCEPT ![h] = x]
    PROVE  Alone(x)'
<1>1. /\ cmd' \in [Handler -> Command \cup {Idle}]
      /\ \A i \in Handler : i # h => cmd[i] = Idle
  BY DEF Alone, Idle, TypeOK
<1>2. cmd'[h] = x /\ \A i \in Handler : i # h => cmd'[i] = Idle
  BY <1>1 DEF Alone, TypeOK
<1>3. QED
  BY <1>2 DEF Alone

\* How the change of one user's game shows.
LEMMA Shows ==
    ASSUME NEW c, NEW x, Alone(c), Alone(x)', NEW v \in User, NEW new,
           \A u \in User : GameOf(x, u, session'[u], archive') =
                              IF u = v THEN new ELSE GameOf(c, u, session[u], archive)
    PROVE  /\ Games' = [Games EXCEPT ![v] = new]
           /\ Games[v] = GameOf(c, v, session[v], archive)
<1>1. View /\ View'
  BY ViewHolds, PTL
<1>2. Games = GamesOf(c)
  BY <1>1 DEF View
<1>3. Games' = [u \in User |-> GameOf(x, u, session'[u], archive')]
  BY <1>1 DEF View, GamesOf
<1>4. QED
  BY <1>2, <1>3 DEF GamesOf

SameGames(c, x) == \A u \in User : GameOf(x, u, session'[u], archive')
                                      = GameOf(c, u, session[u], archive)

SameCounts(c, x) == \A p \in Player : \A e \in Uuid \X Result :
                       Count(x, p, e, db'[p]) = Count(c, p, e, db[p])

LEMMA SameGamesShow ==
    ASSUME NEW c, NEW x, Alone(c), Alone(x)', SameGames(c, x)
    PROVE  Games' = Games
<1>1. View /\ View'
  BY ViewHolds, PTL
<1>2. Games = GamesOf(c)
  BY <1>1 DEF View
<1>3. Games' = [u \in User |-> GameOf(x, u, session'[u], archive')]
  BY <1>1 DEF View, GamesOf
<1>4. QED
  BY <1>2, <1>3 DEF GamesOf, SameGames

LEMMA SameCountsShow ==
    ASSUME NEW c, NEW x, Alone(c), Alone(x)', SameCounts(c, x)
    PROVE  Tallies' = Tallies
<1>1. View /\ View'
  BY ViewHolds, PTL
<1>2. Tallies = TalliesOf(c)
  BY <1>1 DEF View
<1>3. Tallies' = [p \in Player |-> [e \in Uuid \X Result |-> Count(x, p, e, db'[p])]]
  BY <1>1 DEF View, TalliesOf
<1>4. ASSUME NEW p \in Player
      PROVE  [e \in Uuid \X Result |-> Count(x, p, e, db'[p])]
             = [e \in Uuid \X Result |-> Count(c, p, e, db[p])]
  BY <1>4 DEF SameCounts
<1>5. QED
  BY <1>2, <1>3, <1>4 DEF TalliesOf

\* What a step of goroutine h means for SoloGame.
Follows(h) ==
    /\ \E x \in Command \cup {Idle} :
          cmd' = [cmd EXCEPT ![h] = x] /\ SteadyWith(x, session'[x.user], archive')
    /\ [Promise!Next]_(Promise!vars)

LEMMA Stutters ==
    ASSUME TypeOK', NEW h \in Handler, NEW x \in Command \cup {Idle},
           Alone(cmd[h]), cmd[h].pc # "idle", cmd' = [cmd EXCEPT ![h] = x],
           UNCHANGED <<used, archive, calm>>,
           SameGames(cmd[h], x), SameCounts(cmd[h], x),
           SteadyWith(x, session'[x.user], archive')
    PROVE  Follows(h)
<1>1. Alone(x)'
  BY StaysAlone
<1>2. PICK c : c = cmd[h]
  OBVIOUS
<1>3. Games' = Games /\ Tallies' = Tallies
  BY <1>1, <1>2, SameGamesShow, SameCountsShow
<1>4. UNCHANGED Promise!vars
  BY <1>3 DEF Promise!vars
<1>5. QED
  BY <1>4 DEF Follows

\* A goroutine that goes on with the draft it has, or that never had one,
\* changes nothing that can be seen.
LEMMA Unseen ==
    ASSUME TypeOK', NEW h \in Handler, NEW x \in Command \cup {Idle},
           Alone(cmd[h]), cmd[h].pc # "idle", cmd' = [cmd EXCEPT ![h] = x],
           UNCHANGED <<session, used, archive, db, calm>>,
           \/ /\ x.draft = cmd[h].draft /\ x.user = cmd[h].user /\ x.op = cmd[h].op
              /\ x.player = cmd[h].player /\ (Owes(x) <=> Owes(cmd[h]))
           \/ cmd[h].draft = Nil /\ x.draft = Nil /\ ~Owes(cmd[h]) /\ ~Owes(x),
           SteadyWith(x, session[x.user], archive)
    PROVE  Follows(h)
<1>1. SameGames(cmd[h], x)
  <2>1. x.op = cmd[h].op /\ x.draft = cmd[h].draft => LoadedPly(x) = LoadedPly(cmd[h])
    BY DEF LoadedPly
  <2>2. QED
    BY <2>1 DEF SameGames, GameOf
<1>2. SameCounts(cmd[h], x)
  BY DEF SameCounts, Count
<1>3. SteadyWith(x, session'[x.user], archive')
  OBVIOUS
<1>4. QED
  BY <1>1, <1>2, <1>3, Stutters

\* A goroutine takes up a stored game.
LEMMA TakesUp ==
    ASSUME Inductive, Inductive', Calm, Tracked, calm, NEW h \in Handler,
           At(h, "load"), Stored(h) # Nil, cmd[h].op \in Finishing \cup {"undo"},
           NEW to \in {"think", "insert", "peek"}, NEW d \in Payload, Draft(h, to, d),
           UNCHANGED <<session, used, archive, db, calm>>,
           d.uuid = Stored(h).uuid,
           cmd[h].op = "undo"   => d.ply = Stored(h).ply - 2,
           cmd[h].op = "resign" => d.ply = Stored(h).ply,
           cmd[h].op = "play"   => d.ply = Stored(h).ply + 1
    PROVE  Follows(h)
<1> DEFINE x == [cmd[h] EXCEPT !.pc = to, !.draft = d]
<1>1. /\ cmd[h] \in Command /\ cmd[h].pc = "load" /\ CalmFor(cmd[h]) /\ Alone(cmd[h])
      /\ SteadyWith(cmd[h], session[cmd[h].user], archive)
  BY Working DEF At
<1>2. /\ x \in Command /\ x.pc = to /\ x.op = cmd[h].op /\ x.draft = d
      /\ x.user = cmd[h].user /\ cmd' = [cmd EXCEPT ![h] = x]
  BY <1>1 DEF Command, PC, Draft
<1> HIDE DEF x
<1>3. cmd[h].draft = Nil /\ d # Nil /\ cmd[h].user \in User
  BY <1>1, NilAssumption DEF SteadyWith, Command
<1>4. archive[d.uuid] = Nil
  BY <1>1, OwnGame
<1>5. Stored(h).ply \in Nat /\ Stored(h).ply % 2 = 0
  BY Loaded
<1>6. LoadedPly(x) = Stored(h).ply
  <2>1. CASE cmd[h].op = "undo"
    BY <1>2, <1>5, <2>1 DEF LoadedPly
  <2>2. CASE cmd[h].op = "resign"
    BY <1>2, <1>5, <2>2 DEF LoadedPly
  <2>3. CASE cmd[h].op = "play"
    <3>1. LoadedPly(x) = IF d.ply % 2 = 1 THEN d.ply - 1 ELSE d.ply - 2
      BY <1>2, <2>3 DEF LoadedPly
    <3>2. d.ply % 2 = 1 /\ d.ply - 1 = Stored(h).ply
      BY <1>5, <2>3
    <3>3. QED
      BY <3>1, <3>2
  <2>4. QED
    BY <2>1, <2>2, <2>3 DEF Finishing
<1>7. SameGames(cmd[h], x)
  BY <1>2, <1>3, <1>4, <1>6 DEF SameGames, GameOf, Stored
<1>8. SameCounts(cmd[h], x)
  BY <1>1, <1>2 DEF SameCounts, Count, Owes
<1>9. SteadyWith(x, session'[x.user], archive')
  BY <1>2, <1>3, <1>5, <1>6 DEF SteadyWith, Closing, Stored, Finishing
<1>10. QED
  BY <1>1, <1>2, <1>7, <1>8, <1>9, Stutters DEF Inductive

\* A goroutine that has no draft returns.
LEMMA LeavesOff ==
    ASSUME TypeOK', NEW h \in Handler, Alone(cmd[h]), cmd[h].pc # "idle",
           Return(h), UNCHANGED <<session, used, archive, db, calm>>,
           cmd[h].draft = Nil, ~Owes(cmd[h])
    PROVE  Follows(h)
<1>1. Idle.draft = Nil
  BY DEF Idle
<1>2. QED
  BY <1>1, IdleCalm, IdleSteady, Unseen DEF Return

LEMMA LoadsFollow ==
    ASSUME Inductive, Inductive', Calm, Tracked, calm, NEW h \in Handler,
           \/ LoadMiss(h) \/ Resume(h) \/ Undo(h) \/ Resign(h)
           \/ PlayRefused(h) \/ PlayerMoves(h)
    PROVE  Follows(h)
<1>1. /\ At(h, "load") /\ cmd[h].pc = "load" /\ TypeOK /\ TypeOK'
      /\ UNCHANGED <<session, used, archive, db, calm>>
  BY DEF Inductive, At, LoadMiss, Resume, Undo, Resign, PlayRefused, PlayerMoves
<1>2. /\ cmd[h] \in Command /\ CalmFor(cmd[h]) /\ Alone(cmd[h])
      /\ cmd[h].draft = Nil /\ ~Owes(cmd[h])
  BY <1>1, Working DEF SteadyWith, Owes
<1>3. CASE Return(h)
  BY <1>1, <1>2, <1>3, LeavesOff
<1>4. ASSUME NEW to \in {"fetch", "peek"}, Go(h, to),
             to = "fetch" => cmd[h].op = "start" /\ Stored(h) = Nil,
             cmd[h].op \notin Finishing
      PROVE  Follows(h)
  <2>1. to \in PC \ {"idle"}
    BY DEF PC
  <2>2. PICK x \in Command :
          /\ cmd' = [cmd EXCEPT ![h] = x]
          /\ x.pc = to /\ x.op = cmd[h].op /\ x.user = cmd[h].user
          /\ x.player = cmd[h].player /\ x.draft = cmd[h].draft
    BY <1>1, <1>4, <2>1, GoStep
  <2>3. ~Owes(x) /\ ~Closing(x) /\ x.draft = Nil
    BY <1>2, <1>4, <2>2 DEF Owes, Closing
  <2>4. SteadyWith(x, session[x.user], archive)
    BY <1>4, <2>2, <2>3 DEF SteadyWith, Stored
  <2>5. QED
    BY <1>1, <1>2, <2>2, <2>3, <2>4, Unseen
<1>5. CASE LoadMiss(h)
  BY <1>3, <1>4, <1>5 DEF LoadMiss, Is, Finishing
<1>6. CASE Resume(h)
  BY <1>4, <1>6 DEF Resume, Finishing
<1>7. CASE Undo(h)
  <2>1. CASE ~TooFew(Stored(h))
    <3> DEFINE d == TakeBack(Stored(h))
    <3>1. Draft(h, "peek", d) /\ cmd[h].op = "undo" /\ Stored(h) # Nil
      BY <1>7, <2>1 DEF Undo, Is
    <3>2. Stored(h) \in Payload /\ Stored(h).ply \in Nat /\ Stored(h).ply >= 2
      BY <1>1, <2>1, <3>1, Loaded DEF TooFew
    <3>3. Stored(h).ply - 2 \in Nat
      BY <3>2
    <3>4. d \in Payload /\ d.uuid = Stored(h).uuid /\ d.ply = Stored(h).ply - 2
      BY <3>2, <3>3 DEF TakeBack, Payload
    <3> HIDE DEF d
    <3>5. QED
      BY <1>1, <3>1, <3>4, TakesUp
  <2>2. QED
    BY <1>3, <1>7, <2>1 DEF Undo
<1>8. CASE Resign(h)
  <2> DEFINE d == [Stored(h) EXCEPT !.end = "loss"]
  <2>1. Draft(h, "insert", d) /\ cmd[h].op = "resign" /\ Stored(h) # Nil
    BY <1>8 DEF Resign, Is
  <2>2. Stored(h) \in Payload
    BY <1>1, <2>1, Loaded
  <2>3. d \in Payload /\ d.uuid = Stored(h).uuid /\ d.ply = Stored(h).ply
    BY <2>2, ResultAssumption DEF Payload
  <2> HIDE DEF d
  <2>4. QED
    BY <1>1, <2>1, <2>3, TakesUp DEF Finishing
<1>9. CASE PlayRefused(h)
  BY <1>3, <1>9 DEF PlayRefused
<1>10. CASE PlayerMoves(h)
  <2>1. PICK end \in {"open"} \cup (Result \ {"loss"}) :
          Draft(h, IF end = "open" THEN "think" ELSE "insert", Plied(Stored(h), end))
    BY <1>10 DEF PlayerMoves
  <2> DEFINE to == IF end = "open" THEN "think" ELSE "insert"
             d  == Plied(Stored(h), end)
  <2>2. cmd[h].op = "play" /\ Stored(h) # Nil
    BY <1>10 DEF PlayerMoves, Is
  <2>3. Stored(h) \in Payload /\ Stored(h).ply + 1 \in Nat
    BY <1>1, <2>2, Loaded
  <2>4. d \in Payload /\ d.uuid = Stored(h).uuid /\ d.ply = Stored(h).ply + 1
    BY <2>3 DEF Plied, Payload
  <2>5. to \in {"think", "insert", "peek"} /\ Draft(h, to, d)
    BY <2>1
  <2> HIDE DEF to, d
  <2>6. QED
    BY <1>1, <2>2, <2>4, <2>5, TakesUp DEF Finishing
<1>11. QED
  BY <1>5, <1>6, <1>7, <1>8, <1>9, <1>10

LEMMA ThinksFollow ==
    ASSUME Inductive, Inductive', Calm, Tracked, calm, NEW h \in Handler,
           EngineFails(h) \/ EngineMoves(h)
    PROVE  Follows(h)
<1>1. /\ cmd[h].pc = "think" /\ TypeOK /\ TypeOK'
      /\ UNCHANGED <<session, used, archive, db, calm>>
  BY DEF Inductive, At, EngineFails, EngineMoves
<1>2. /\ cmd[h] \in Command /\ CalmFor(cmd[h]) /\ Alone(cmd[h])
      /\ SteadyWith(cmd[h], session[cmd[h].user], archive)
      /\ cmd[h].op = "play" /\ cmd[h].draft # Nil /\ cmd[h].draft.ply % 2 = 1
  BY <1>1, Working DEF Holds
<1>3. /\ cmd[h].draft \in Payload /\ cmd[h].draft.ply \in Nat /\ cmd[h].user \in User
      /\ archive[cmd[h].draft.uuid] = Nil /\ ~Owes(cmd[h])
  <2>1. cmd[h].draft \in Payload /\ cmd[h].user \in User
    BY <1>2 DEF Command
  <2>2. ~Closing(cmd[h]) /\ ~Owes(cmd[h])
    BY <1>1 DEF Closing, Owes
  <2>3. QED
    BY <1>1, <1>2, <2>1, <2>2 DEF CalmFor, Mine, Finishing, Payload
<1>4. CASE EngineFails(h)
  <2>1. cmd' = [cmd EXCEPT ![h] = Idle] /\ Idle.draft = Nil
    BY <1>4 DEF EngineFails, Return, Idle
  <2>2. SameCounts(cmd[h], Idle)
    BY <1>1, <1>3, IdleCalm DEF SameCounts, Count
  <2>3. CASE session[cmd[h].user] # Nil
    <3>1. /\ session[cmd[h].user].uuid = cmd[h].draft.uuid
          /\ session[cmd[h].user].ply = LoadedPly(cmd[h])
      BY <1>2, <1>3, <2>3 DEF SteadyWith
    <3>2. SameGames(cmd[h], Idle)
      BY <1>1, <1>3, <2>1, <2>3, <3>1 DEF SameGames, GameOf
    <3>3. QED
      BY <1>1, <1>2, <2>1, <2>2, <3>2, IdleSteady, Stutters
  <2>4. CASE session[cmd[h].user] = Nil
    <3>1. \A u \in User : GameOf(Idle, u, session'[u], archive') =
             IF u = cmd[h].user THEN Nil ELSE GameOf(cmd[h], u, session[u], archive)
      BY <1>1, <1>3, <2>1, <2>4 DEF GameOf
    <3>2. GameOf(cmd[h], cmd[h].user, session[cmd[h].user], archive)
             = [uuid |-> cmd[h].draft.uuid, ply |-> LoadedPly(cmd[h])]
      BY <1>2, <1>3 DEF GameOf
    <3>3. PICK c, v : c = cmd[h] /\ v = cmd[h].user
      OBVIOUS
    <3>4. Alone(Idle)' /\ Alone(c)
      BY <1>1, <1>2, <2>1, <3>3, StaysAlone
    <3>5. /\ Games' = [Games EXCEPT ![v] = Nil]
          /\ Games[v] = [uuid |-> c.draft.uuid, ply |-> LoadedPly(c)]
      BY <1>3, <3>1, <3>2, <3>3, <3>4, Shows
    <3>6. Tallies' = Tallies
      BY <2>2, <3>3, <3>4, SameCountsShow
    <3>7. Games[v] # Nil /\ v \in User
      BY <1>2, <1>3, <3>3, <3>5, NilAssumption DEF SteadyWith, Payload
    <3>8. Promise!Forget(v)
      BY <1>1, <3>5, <3>6, <3>7 DEF Promise!Forget
    <3>9. Promise!Next
      BY <3>7, <3>8 DEF Promise!Next
    <3>10. QED
      BY <2>1, <3>9, IdleSteady DEF Follows
  <2>5. QED
    BY <2>3, <2>4
<1>5. CASE EngineMoves(h)
  <2>1. PICK end \in {"open"} \cup (Result \ {"win"}) :
          Draft(h, IF end = "open" THEN "save" ELSE "insert", Plied(cmd[h].draft, end))
    BY <1>5 DEF EngineMoves
  <2> DEFINE to == IF end = "open" THEN "save" ELSE "insert"
             d  == Plied(cmd[h].draft, end)
             x  == [cmd[h] EXCEPT !.pc = to, !.draft = d]
  <2>2. cmd[h].draft.ply + 1 \in Nat /\ (cmd[h].draft.ply + 1) % 2 = 0
    BY <1>2, <1>3
  <2>3. d \in Payload /\ d.uuid = cmd[h].draft.uuid /\ d.ply = cmd[h].draft.ply + 1
    BY <1>3, <2>2 DEF Plied, Payload
  <2>4. to \in {"save", "insert"} /\ Draft(h, to, d)
    BY <2>1
  <2> HIDE DEF to, d
  <2>5. /\ x \in Command /\ x.pc = to /\ x.op = "play" /\ x.draft = d /\ d # Nil
        /\ x.user = cmd[h].user /\ cmd' = [cmd EXCEPT ![h] = x]
    BY <1>2, <2>3, <2>4, NilAssumption DEF Command, PC, Draft
  <2> HIDE DEF x
  <2>6. LoadedPly(x) = LoadedPly(cmd[h])
    <3>1. LoadedPly(cmd[h]) = cmd[h].draft.ply - 1
      BY <1>2 DEF LoadedPly
    <3>2. LoadedPly(x) = d.ply - 2
      BY <2>2, <2>3, <2>5 DEF LoadedPly
    <3>3. QED
      BY <1>3, <2>3, <3>1, <3>2
  <2>7. SameGames(cmd[h], x)
    BY <1>1, <1>2, <1>3, <2>3, <2>5, <2>6 DEF SameGames, GameOf
  <2>8. SameCounts(cmd[h], x)
    BY <1>1, <1>3, <2>4, <2>5 DEF SameCounts, Count, Owes
  <2>9. SteadyWith(x, session'[x.user], archive')
    BY <1>1, <1>2, <2>3, <2>4, <2>5, <2>6 DEF SteadyWith, Closing, Finishing
  <2>10. QED
    BY <1>1, <1>2, <2>5, <2>7, <2>8, <2>9, Stutters
<1>6. QED
  BY <1>4, <1>5

\* A goroutine returns and one user's game has become new.
LEMMA Ends ==
    ASSUME TypeOK', NEW h \in Handler, NEW c, c = cmd[h], NEW new,
           Alone(c), c.pc # "idle", Return(h), c.user \in User,
           UNCHANGED <<archive, db>>, ~Owes(c),
           \A u \in User : GameOf(Idle, u, session'[u], archive') =
              IF u = c.user THEN new ELSE GameOf(c, u, session[u], archive)
    PROVE  /\ Games' = [Games EXCEPT ![c.user] = new]
           /\ Games[c.user] = GameOf(c, c.user, session[c.user], archive)
           /\ Tallies' = Tallies
<1>1. Alone(Idle)'
  BY StaysAlone DEF Return
<1>2. SameCounts(c, Idle)
  BY IdleCalm DEF SameCounts, Count
<1>3. PICK v : v = c.user
  OBVIOUS
<1>4. /\ Games' = [Games EXCEPT ![v] = new]
      /\ Games[v] = GameOf(c, v, session[v], archive)
  BY <1>1, <1>3, Shows
<1>5. QED
  BY <1>1, <1>2, <1>3, <1>4, SameCountsShow

LEMMA CreateFollows ==
    ASSUME Inductive, Inductive', Calm, Tracked, calm, NEW h \in Handler,
           Create(h) \/ CreateRefused(h)
    PROVE  Follows(h)
<1>1. /\ cmd[h].pc = "create" /\ TypeOK /\ TypeOK' /\ Return(h)
      /\ UNCHANGED <<archive, db, calm>>
  BY DEF Inductive, At, Create, CreateRefused
<1>2. /\ cmd[h] \in Command /\ CalmFor(cmd[h]) /\ Alone(cmd[h]) /\ cmd[h].op = "start"
      /\ SteadyWith(cmd[h], session[cmd[h].user], archive)
  BY <1>1, Working DEF SteadyWith
<1>3. /\ cmd[h].draft = Nil /\ ~Owes(cmd[h]) /\ cmd[h].user \in User
      /\ session[cmd[h].user] = Nil
  BY <1>1, <1>2 DEF SteadyWith, Owes, Finishing, Command
<1>4. CASE CreateRefused(h)
  BY <1>1, <1>2, <1>3, <1>4, LeavesOff DEF CreateRefused
<1>5. CASE Create(h)
  <2>1. PICK g \in Uuid \ used :
          /\ used' = used \cup {g}
          /\ session' = [session EXCEPT ![cmd[h].user] =
                            [uuid |-> g, ply |-> 0, end |-> "open"]]
    BY <1>5 DEF Create
  <2>2. [uuid |-> g, ply |-> 0, end |-> "open"] # Nil
    <3>1. [uuid |-> g, ply |-> 0, end |-> "open"] \in Payload
      BY DEF Payload
    <3>2. QED
      BY <3>1, NilAssumption
  <2>3. archive[g] = Nil
    BY <1>2, <2>1 DEF CalmFor, Apart
  <2>4. PICK c : c = cmd[h]
    OBVIOUS
  <2>5. Idle.draft = Nil
    BY DEF Idle
  <2>6. \A u \in User : GameOf(Idle, u, session'[u], archive') =
           IF u = c.user THEN [uuid |-> g, ply |-> 0]
           ELSE GameOf(c, u, session[u], archive)
    BY <1>1, <1>3, <2>1, <2>2, <2>3, <2>4, <2>5 DEF GameOf, TypeOK
  <2>7. GameOf(c, c.user, session[c.user], archive) = Nil
    BY <1>3, <2>4 DEF GameOf
  <2>8. /\ Games' = [Games EXCEPT ![c.user] = [uuid |-> g, ply |-> 0]]
        /\ Games[c.user] = Nil /\ Tallies' = Tallies
    BY <1>1, <1>2, <1>3, <2>4, <2>6, <2>7, Ends
  <2>9. Promise!Start(c.user)
    BY <1>1, <2>1, <2>8 DEF Promise!Start
  <2>10. Promise!Next
    BY <1>3, <2>4, <2>9 DEF Promise!Next
  <2>11. QED
    BY <1>1, <2>10, IdleSteady DEF Follows, Return
<1>6. QED
  BY <1>4, <1>5

LEMMA SaveFollows ==
    ASSUME Inductive, Inductive', Calm, Tracked, calm, NEW h \in Handler, Save(h)
    PROVE  Follows(h)
<1>1. /\ cmd[h].pc = "save" /\ TypeOK /\ TypeOK' /\ Return(h)
      /\ UNCHANGED <<used, archive, db, calm>>
      /\ session' = [session EXCEPT ![cmd[h].user] = cmd[h].draft]
  BY DEF Inductive, At, Save
<1>2. PICK c : c = cmd[h]
  OBVIOUS
<1>3. /\ c \in Command /\ CalmFor(c) /\ Alone(c) /\ c.op \in {"play", "undo"}
      /\ c.draft # Nil /\ c.draft.ply % 2 = 0 /\ LoadedPly(c) \in Nat
  BY <1>1, <1>2, Working DEF SteadyWith, Holds, Finishing
<1>4. /\ c.draft \in Payload /\ c.draft.uuid \in Uuid /\ c.draft.ply \in Nat
      /\ c.user \in User /\ archive[c.draft.uuid] = Nil /\ ~Owes(c)
  <2>1. c.draft \in Payload /\ c.user \in User
    BY <1>3 DEF Command
  <2>2. ~Closing(c) /\ ~Owes(c)
    BY <1>1, <1>2 DEF Closing, Owes
  <2>3. QED
    BY <1>1, <1>2, <1>3, <2>1, <2>2 DEF CalmFor, Mine, Finishing, Payload
<1> DEFINE new == [uuid |-> c.draft.uuid, ply |-> c.draft.ply]
<1>5. Idle.draft = Nil
  BY DEF Idle
<1>6. \A u \in User : GameOf(Idle, u, session'[u], archive') =
         IF u = c.user THEN new ELSE GameOf(c, u, session[u], archive)
  BY <1>1, <1>2, <1>3, <1>4, <1>5 DEF GameOf, TypeOK
<1>7. GameOf(c, c.user, session[c.user], archive)
         = [uuid |-> c.draft.uuid, ply |-> LoadedPly(c)]
  BY <1>3, <1>4 DEF GameOf
<1>8. /\ Games' = [Games EXCEPT ![c.user] = new] /\ Tallies' = Tallies
      /\ Games[c.user] = [uuid |-> c.draft.uuid, ply |-> LoadedPly(c)]
  BY <1>1, <1>2, <1>3, <1>4, <1>6, <1>7, Ends
<1>9. /\ Games[c.user] # Nil
      /\ Games[c.user].uuid = c.draft.uuid /\ Games[c.user].ply = LoadedPly(c)
  BY <1>3, <1>4, <1>8, NilAssumption
<1>10. ASSUME c.op = "play" PROVE Promise!Next
  <2>1. LoadedPly(c) + 2 = c.draft.ply
    <3>1. LoadedPly(c) = c.draft.ply - 2
      BY <1>3, <1>10 DEF LoadedPly
    <3>2. QED
      BY <1>4, <3>1
  <2>2. Games' = [Games EXCEPT ![c.user] = [uuid |-> Games[c.user].uuid,
                                            ply  |-> Games[c.user].ply + 2]]
    BY <1>8, <1>9, <2>1
  <2>3. Promise!Turn(c.user)
    BY <1>1, <1>8, <1>9, <2>2 DEF Promise!Turn
  <2>4. QED
    BY <1>4, <2>3 DEF Promise!Next
<1>11. ASSUME c.op = "undo" PROVE Promise!Next
  <2>1. LoadedPly(c) - 2 = c.draft.ply /\ LoadedPly(c) >= 2
    <3>1. LoadedPly(c) = c.draft.ply + 2
      BY <1>11 DEF LoadedPly
    <3>2. QED
      BY <1>4, <3>1
  <2>2. Games' = [Games EXCEPT ![c.user] = [uuid |-> Games[c.user].uuid,
                                            ply  |-> Games[c.user].ply - 2]]
    BY <1>8, <1>9, <2>1
  <2>3. Promise!TakeBack(c.user)
    BY <1>1, <1>8, <1>9, <2>1, <2>2 DEF Promise!TakeBack
  <2>4. QED
    BY <1>4, <2>3 DEF Promise!Next
<1>12. Promise!Next
  BY <1>3, <1>10, <1>11
<1>13. QED
  BY <1>1, <1>12, IdleSteady DEF Follows, Return

LEMMA DeleteFollows ==
    ASSUME Inductive, Inductive', Calm, Tracked, calm, NEW h \in Handler, Delete(h)
    PROVE  Follows(h)
<1>1. /\ cmd[h].pc = "delete" /\ TypeOK /\ TypeOK' /\ Return(h)
      /\ UNCHANGED <<used, archive, db, calm>>
      /\ session' = [session EXCEPT ![cmd[h].user] = Nil]
  BY DEF Inductive, At, Delete
<1>2. /\ cmd[h] \in Command /\ CalmFor(cmd[h]) /\ Alone(cmd[h])
      /\ SteadyWith(cmd[h], session[cmd[h].user], archive)
  BY <1>1, Working
<1>3. /\ Closing(cmd[h]) /\ archive[cmd[h].draft.uuid] # Nil /\ cmd[h].draft # Nil
      /\ ~Owes(cmd[h]) /\ cmd[h].user \in User
  BY <1>1, <1>2 DEF CalmFor, Mine, Closing, Owes, SteadyWith, Command
<1>4. session[cmd[h].user] # Nil => archive[session[cmd[h].user].uuid] # Nil
  BY <1>2, <1>3 DEF SteadyWith
<1>5. Idle.draft = Nil
  BY DEF Idle
<1>6. SameGames(cmd[h], Idle)
  BY <1>1, <1>3, <1>4, <1>5 DEF SameGames, GameOf, TypeOK
<1>7. SameCounts(cmd[h], Idle)
  BY <1>1, <1>3, IdleCalm DEF SameCounts, Count
<1>8. QED
  BY <1>1, <1>2, <1>6, <1>7, IdleSteady, Stutters DEF Return

\* The game is over, recorded and counted with the row.
LEMMA InsertFollows ==
    ASSUME Inductive, Inductive', Calm, Tracked, calm, NEW h \in Handler, Insert(h)
    PROVE  Follows(h)
<1>1. /\ cmd[h].pc = "insert" /\ TypeOK /\ TypeOK' /\ Go(h, "fetch")
      /\ UNCHANGED <<session, used, db, cache, calm>>
      /\ archive' = [archive EXCEPT ![Game(h)] = RowOf(h)] /\ archive[Game(h)] = Nil
  BY DEF Inductive, At, Insert, Taken
<1>2. PICK c, g, p, r : /\ c = cmd[h] /\ g = c.draft.uuid
                        /\ p = c.player /\ r = c.draft.end
  OBVIOUS
<1>3. /\ c \in Command /\ CalmFor(c) /\ Alone(c) /\ c.op \in Finishing
      /\ c.draft # Nil /\ r \in Result /\ SteadyWith(c, session[c.user], archive)
  BY <1>1, <1>2, Working DEF Holds
<1>4. /\ c.draft \in Payload /\ g \in Uuid /\ c.user \in User /\ p \in Player
      /\ LoadedPly(c) \in Nat /\ ~Owes(c)
  <2>1. c.draft \in Payload /\ c.user \in User /\ p \in Player
    BY <1>2, <1>3 DEF Command
  <2>2. QED
    BY <1>1, <1>2, <1>3, <2>1 DEF SteadyWith, Payload, Owes
<1>5. PICK x \in Command :
        /\ cmd' = [cmd EXCEPT ![h] = x]
        /\ x.pc = "fetch" /\ x.op = c.op /\ x.user = c.user
        /\ x.player = c.player /\ x.draft = c.draft
  <2>1. "fetch" \in PC \ {"idle"}
    BY DEF PC
  <2>2. QED
    BY <1>1, <1>2, <2>1, GoStep
<1>6. /\ archive' = [archive EXCEPT ![g] = [player |-> p, result |-> r]]
      /\ archive[g] = Nil
      /\ archive'[g] # Nil /\ \A f \in Uuid : f # g => archive'[f] = archive[f]
  <2>1. archive' = [archive EXCEPT ![g] = [player |-> p, result |-> r]] /\ archive[g] = Nil
    BY <1>1, <1>2 DEF Game, RowOf
  <2>2. [player |-> p, result |-> r] # Nil
    BY <1>3, <1>4, NilAssumption DEF Row
  <2>3. QED
    BY <1>1, <1>4, <2>1, <2>2 DEF TypeOK
<1>7. Alone(x)'
  BY <1>1, <1>2, <1>3, <1>5, StaysAlone
<1>8. \A u \in User : GameOf(x, u, session'[u], archive') =
         IF u = c.user THEN Nil ELSE GameOf(c, u, session[u], archive)
  <2>1. ASSUME NEW u \in User, session[u] # Nil
        PROVE  session[u].uuid \in Uuid
    BY <1>1, <2>1 DEF TypeOK, Payload
  <2>2. ASSUME NEW u \in User, u # c.user, session[u] # Nil
        PROVE  session[u].uuid # g
    BY <1>1, <1>2, <1>3, <2>2 DEF CalmFor, Mine
  <2>3. session[c.user] # Nil => session[c.user].uuid = g
    BY <1>2, <1>3 DEF SteadyWith
  <2>4. ASSUME NEW u \in User, u # c.user
        PROVE  GameOf(x, u, session'[u], archive') = GameOf(c, u, session[u], archive)
    BY <1>1, <1>5, <1>6, <2>1, <2>2, <2>4 DEF GameOf
  <2>5. GameOf(x, c.user, session'[c.user], archive') = Nil
    BY <1>1, <1>2, <1>5, <1>6, <2>3 DEF GameOf
  <2>6. QED
    BY <2>4, <2>5
<1>9. PICK v : v = c.user
  OBVIOUS
<1>10. Games' = [Games EXCEPT ![v] = Nil]
       /\ Games[v] = GameOf(c, v, session[v], archive)
  BY <1>3, <1>4, <1>7, <1>8, <1>9, Shows
<1>11. Games[v] = [uuid |-> g, ply |-> LoadedPly(c)]
  BY <1>2, <1>3, <1>6, <1>9, <1>10 DEF GameOf
<1>12. Games[v] # Nil /\ Games[v].uuid = g
  BY <1>4, <1>11, NilAssumption
<1>13. Tallies' = [Tallies EXCEPT ![p] = [Tallies[p] EXCEPT ![<<g, r>>] =
                                             Tallies[p][<<g, r>>] + 1]]
  <2>1. View /\ View'
    BY ViewHolds, PTL
  <2>2. Tallies = TalliesOf(c)
    BY <1>3, <2>1 DEF View
  <2>3. Tallies' = [q \in Player |-> [e \in Uuid \X Result |-> Count(x, q, e, db'[q])]]
    BY <1>7, <2>1 DEF View, TalliesOf
  <2>4. Owes(x)
    BY <1>3, <1>5 DEF Owes
  <2>5. ASSUME NEW q \in Player, NEW e \in Uuid \X Result
        PROVE  Count(x, q, e, db'[q]) =
                  IF q = p /\ e = <<g, r>> THEN Count(c, q, e, db[q]) + 1
                  ELSE Count(c, q, e, db[q])
    <3>1. db[q] # Nil => db[q][e] \in Nat
      BY <1>1 DEF TypeOK, Tally
    <3>2. QED
      BY <1>1, <1>2, <1>4, <1>5, <2>4, <3>1 DEF Count
  <2>6. <<g, r>> \in Uuid \X Result
    BY <1>3, <1>4
  <2> HIDE DEF TalliesOf
  <2>7. \A q \in Player : Tallies[q] = [e \in Uuid \X Result |-> Count(c, q, e, db[q])]
    BY <2>2 DEF TalliesOf
  <2>8. ASSUME NEW q \in Player
        PROVE  Tallies'[q] = IF q = p
                             THEN [Tallies[p] EXCEPT ![<<g, r>>] = Tallies[p][<<g, r>>] + 1]
                             ELSE Tallies[q]
    <3>1. Tallies'[q] = [e \in Uuid \X Result |-> Count(x, q, e, db'[q])]
      BY <2>3
    <3>2. CASE q = p
      <4>1. Tallies[p] = [e \in Uuid \X Result |-> Count(c, p, e, db[p])]
        BY <1>4, <2>7
      <4>2. ASSUME NEW e \in Uuid \X Result
            PROVE  Count(x, p, e, db'[p]) = IF e = <<g, r>> THEN Tallies[p][<<g, r>>] + 1
                                            ELSE Tallies[p][e]
        BY <1>4, <2>5, <4>1
      <4>3. QED
        BY <2>6, <3>1, <3>2, <4>1, <4>2
    <3>3. CASE q # p
      BY <2>5, <2>7, <3>1, <3>3
    <3>4. QED
      BY <3>2, <3>3
  <2>9. /\ Tallies  = [q \in Player |-> Tallies[q]]
        /\ Tallies' = [q \in Player |-> Tallies'[q]]
    BY <2>2, <2>3 DEF TalliesOf
  <2>10. QED
    BY <1>4, <2>8, <2>9
<1>14. Promise!Finish(v, p, r)
  BY <1>1, <1>6, <1>10, <1>12, <1>13 DEF Promise!Finish
<1>15. Promise!Next
  BY <1>3, <1>4, <1>9, <1>14 DEF Promise!Next
<1>16. SteadyWith(x, session'[x.user], archive')
  <2>1. LoadedPly(x) = LoadedPly(c)
    BY <1>5 DEF LoadedPly
  <2>2. QED
    BY <1>1, <1>2, <1>3, <1>5, <1>6, <2>1 DEF SteadyWith, Finishing
<1>17. QED
  BY <1>5, <1>15, <1>16 DEF Follows

\* A goroutine goes on with the draft it has.
LEMMA Proceeds ==
    ASSUME Inductive, Inductive', Calm, Tracked, calm, NEW h \in Handler,
           cmd[h].pc # "idle", NEW x \in Command, cmd' = [cmd EXCEPT ![h] = x],
           x.op = cmd[h].op, x.user = cmd[h].user,
           x.player = cmd[h].player, x.draft = cmd[h].draft,
           UNCHANGED <<session, used, archive, db, calm>>,
           Owes(x) <=> Owes(cmd[h]), Closing(x) => Closing(cmd[h]),
           x.pc # "load",
           x.pc = "save" => x.op # "resign",
           x.pc = "create" => x.op = "start",
           x.op = "start" /\ x.pc \in {"fetch", "warm", "create"} =>
              cmd[h].pc \in {"fetch", "warm", "create"}
    PROVE  Follows(h)
<1>1. SteadyWith(cmd[h], session[cmd[h].user], archive) /\ Alone(cmd[h]) /\ TypeOK'
  BY Working DEF Inductive
<1>2. LoadedPly(x) = LoadedPly(cmd[h])
  BY DEF LoadedPly
<1>3. SteadyWith(x, session[x.user], archive)
  BY <1>1, <1>2 DEF SteadyWith
<1>4. QED
  BY <1>1, <1>3, Unseen

\* The other command has not recorded the game: there is none.
LEMMA NoDuplicate ==
    ASSUME Inductive, Calm, Tracked, calm, NEW h \in Handler
    PROVE  ~Duplicate(h) /\ ~Lookup(h)
<1>1. SUFFICES ASSUME Duplicate(h) \/ Lookup(h) PROVE FALSE
  OBVIOUS
<1>2. cmd[h].pc \in {"insert", "lookup"} /\ (Duplicate(h) => archive[cmd[h].draft.uuid] # Nil)
      /\ (Lookup(h) => cmd[h].pc = "lookup")
  BY <1>1 DEF Duplicate, Lookup, At, Taken, Game
<1>3. cmd[h].op \in Finishing /\ ~Closing(cmd[h]) /\ Mine(cmd[h])
  BY <1>2, Working DEF Holds, Closing, CalmFor
<1>4. QED
  BY <1>1, <1>2, <1>3 DEF Mine

LEMMA FetchesFollow ==
    ASSUME Inductive, Inductive', Calm, Tracked, calm, NEW h \in Handler,
           Fetch(h) \/ Warm(h)
    PROVE  Follows(h)
<1>1. /\ cmd[h].pc \in {"fetch", "warm"} /\ TypeOK
      /\ UNCHANGED <<session, used, archive, db, calm>>
  BY DEF Inductive, At, Fetch, Warm
<1>2. cmd[h] \in Command /\ Holds(cmd[h]) /\ cmd[h].player \in Player
  BY <1>1, Working DEF Command
<1>3. /\ Fetched(h) \in PC \ {"idle"} /\ Fetched(h) \in {"create", "upsert"}
      /\ "warm" \in PC \ {"idle"}
      /\ Fetched(h) = "create" <=> cmd[h].op = "start"
  BY DEF Fetched, Is, PC
<1>4. PICK x \in Command :
        /\ cmd' = [cmd EXCEPT ![h] = x]
        /\ x.pc \in {"warm", Fetched(h)}
        /\ x.op = cmd[h].op /\ x.user = cmd[h].user
        /\ x.player = cmd[h].player /\ x.draft = cmd[h].draft
  <2>1. CASE Fetch(h) /\ db[cmd[h].player] = Nil
    <3>1. Prof(h, Fetched(h), Zero)
      BY <2>1 DEF Fetch, Prof
    <3>2. QED
      BY <1>1, <1>3, <3>1, Uncounted, <1>2, ProfStep
  <2>2. CASE Fetch(h) /\ db[cmd[h].player] # Nil
    <3>1. Prof(h, "warm", db[cmd[h].player]) /\ db[cmd[h].player] \in Tally
      BY <1>1, <1>2, <2>2 DEF Fetch, Prof, TypeOK
    <3>2. QED
      BY <1>1, <1>3, <3>1, ProfStep
  <2>3. CASE Warm(h)
    BY <1>1, <1>3, <2>3, GoStep DEF Warm
  <2>4. QED
    BY <2>1, <2>2, <2>3
<1>5. cmd[h].op \in Finishing \cup {"start", "prefer"}
  BY <1>1, <1>2 DEF Holds
<1>6. /\ Owes(x) <=> Owes(cmd[h])
      /\ Closing(x) => Closing(cmd[h])
  BY <1>1, <1>3, <1>4, <1>5 DEF Owes, Closing, Finishing
<1>7. QED
  BY <1>1, <1>3, <1>4, <1>6, Proceeds

\* The profile is written: what was owed is counted.
LEMMA UpsertFollows ==
    ASSUME Inductive, Inductive', Calm, Tracked, calm, NEW h \in Handler, Upsert(h)
    PROVE  Follows(h)
<1>1. /\ cmd[h].pc = "upsert" /\ At(h, "upsert") /\ TypeOK /\ TypeOK'
      /\ UNCHANGED <<session, used, archive, calm>>
      /\ db' = [db EXCEPT ![cmd[h].player] = Counted(h)]
  BY DEF Inductive, At, Upsert
<1>2. /\ cmd[h] \in Command /\ CalmFor(cmd[h]) /\ Alone(cmd[h]) /\ Holds(cmd[h])
      /\ SteadyWith(cmd[h], session[cmd[h].user], archive)
  BY <1>1, Working
<1>3. Counted(h) \in Tally /\ Counted(h) # Nil
  BY <1>1, CountedOnce, NilAssumption
<1>4. PICK x \in Command :
        /\ cmd' = [cmd EXCEPT ![h] = x]
        /\ x.pc = "recache" /\ x.op = cmd[h].op /\ x.user = cmd[h].user
        /\ x.player = cmd[h].player /\ x.draft = cmd[h].draft
  <2>1. Prof(h, "recache", Counted(h)) /\ "recache" \in PC \ {"idle"}
    BY DEF Upsert, Prof, PC
  <2>2. QED
    BY <1>1, <1>3, <2>1, ProfStep
<1>5. PICK c, p, g, r : /\ c = cmd[h] /\ p = c.player
                        /\ g = c.draft.uuid /\ r = c.draft.end
  OBVIOUS
<1>6. /\ p \in Player /\ c.prof \in Tally
      /\ c.prof = db[p] \/ (db[p] = Nil /\ c.prof = Zero)
  BY <1>1, <1>2, <1>5 DEF Command, Holds, CalmFor, Fresh
<1>7. /\ Owes(c) <=> c.op \in Finishing
      /\ ~Owes(x) /\ (Closing(x) <=> Closing(c))
  BY <1>1, <1>4, <1>5 DEF Owes, Closing
<1>8. c.op \in Finishing => <<g, r>> \in Uuid \X Result
  <2>1. c.op \in Finishing => c.draft \in Payload /\ r \in Result
    BY <1>1, <1>2, <1>5 DEF Holds, Command
  <2>2. QED
    BY <1>5, <2>1 DEF Payload
<1>9. ASSUME NEW e \in Uuid \X Result
      PROVE  Counted(h)[e] = c.prof[e] + (IF Owes(c) /\ <<g, r>> = e THEN 1 ELSE 0)
  <2>1. c.prof[e] \in Nat
    BY <1>6 DEF Tally
  <2>2. CASE c.op \in Finishing
    <3>1. Counted(h) = [c.prof EXCEPT ![<<g, r>>] = c.prof[<<g, r>>] + 1]
      BY <1>5, <2>2 DEF Counted, Game
    <3>2. QED
      BY <1>6, <1>7, <1>8, <2>1, <2>2, <3>1 DEF Tally
  <2>3. CASE c.op \notin Finishing
    <3>1. Counted(h) = c.prof
      BY <1>5, <2>3 DEF Counted
    <3>2. QED
      BY <1>7, <2>1, <2>3, <3>1
  <2>4. QED
    BY <2>2, <2>3
<1>10. ASSUME NEW q \in Player, NEW e \in Uuid \X Result
       PROVE  Count(x, q, e, db'[q]) = Count(c, q, e, db[q])
  <2>1. CASE q # p
    BY <1>1, <1>5, <1>7, <2>1 DEF Count, TypeOK
  <2>2. CASE q = p
    <3>1. Count(x, q, e, db'[q]) = Counted(h)[e] + 0
      BY <1>1, <1>3, <1>5, <1>6, <1>7, <2>2 DEF Count, TypeOK
    <3>2. c.prof[e] = IF db[p] = Nil THEN 0 ELSE db[p][e]
      BY <1>6, NilAssumption DEF Zero
    <3>3. Counted(h)[e] \in Nat
      BY <1>3 DEF Tally
    <3>4. QED
      BY <1>5, <1>9, <2>2, <3>1, <3>2, <3>3 DEF Count
  <2>3. QED
    BY <2>1, <2>2
<1>11. SameCounts(cmd[h], x)
  BY <1>5, <1>10 DEF SameCounts
<1>12. LoadedPly(x) = LoadedPly(c)
  BY <1>4, <1>5 DEF LoadedPly
<1>13. SameGames(cmd[h], x)
  BY <1>1, <1>4, <1>5, <1>12 DEF SameGames, GameOf
<1>14. SteadyWith(x, session'[x.user], archive')
  BY <1>1, <1>2, <1>4, <1>5, <1>7, <1>12 DEF SteadyWith
<1>15. QED
  BY <1>1, <1>2, <1>4, <1>11, <1>13, <1>14, Stutters

LEMMA RecacheFollows ==
    ASSUME Inductive, Inductive', Calm, Tracked, calm, NEW h \in Handler, Recache(h)
    PROVE  Follows(h)
<1>1. /\ cmd[h].pc = "recache" /\ TypeOK /\ TypeOK'
      /\ UNCHANGED <<session, used, archive, db, calm>>
  BY DEF Inductive, At, Recache
<1>2. /\ Holds(cmd[h]) /\ Alone(cmd[h]) /\ ~Owes(cmd[h])
      /\ SteadyWith(cmd[h], session[cmd[h].user], archive)
  BY <1>1, Working DEF Owes
<1>3. CASE cmd[h].op \in Finishing
  <2>1. Go(h, "delete") /\ "delete" \in PC \ {"idle"}
    BY <1>3 DEF Recache, Upserted, PC
  <2>2. PICK x \in Command :
          /\ cmd' = [cmd EXCEPT ![h] = x]
          /\ x.pc = "delete" /\ x.op = cmd[h].op /\ x.user = cmd[h].user
          /\ x.player = cmd[h].player /\ x.draft = cmd[h].draft
    BY <1>1, <2>1, GoStep
  <2>3. ~Owes(x) /\ Closing(cmd[h])
    BY <1>1, <1>3, <2>2 DEF Owes, Closing
  <2>4. QED
    BY <1>1, <1>2, <2>2, <2>3, Proceeds
<1>4. CASE cmd[h].op \notin Finishing
  <2>1. cmd[h].draft = Nil
    BY <1>1, <1>2, <1>4 DEF Holds, SteadyWith, Finishing
  <2>2. QED
    BY <1>1, <1>2, <1>4, <2>1, LeavesOff DEF Recache, Upserted
<1>5. QED
  BY <1>3, <1>4

LEMMA PeeksFollow ==
    ASSUME Inductive, Inductive', Calm, Tracked, calm, NEW h \in Handler,
           Peek(h) \/ PeekDb(h) \/ PeekWarm(h)
    PROVE  Follows(h)
<1>1. /\ cmd[h].pc \in {"peek", "peekdb", "peekwarm"} /\ TypeOK /\ TypeOK'
      /\ UNCHANGED <<session, used, archive, db, calm>>
  BY DEF Inductive, At, Peek, PeekDb, PeekWarm
<1>2. /\ cmd[h] \in Command /\ Alone(cmd[h]) /\ ~Owes(cmd[h])
      /\ CalmFor(cmd[h]) /\ cmd[h].player \in Player
      /\ SteadyWith(cmd[h], session[cmd[h].user], archive)
  BY <1>1, Working DEF Owes, Command
<1>3. cmd[h].op \notin Finishing
  BY <1>1, <1>2 DEF CalmFor, Mine, Closing
<1>4. cmd[h].op # "undo" => cmd[h].draft = Nil
  BY <1>2, <1>3 DEF SteadyWith
<1>5. ASSUME NEW x \in Command, cmd' = [cmd EXCEPT ![h] = x],
             x.pc \in {"peekdb", "peekwarm", "save"}, x.op = cmd[h].op,
             x.user = cmd[h].user, x.player = cmd[h].player, x.draft = cmd[h].draft
      PROVE  Follows(h)
  <2>1. ~Owes(x) /\ ~Closing(x) /\ x.op # "resign"
    BY <1>3, <1>5 DEF Owes, Closing, Finishing
  <2>2. QED
    BY <1>1, <1>2, <1>5, <2>1, Proceeds
<1>6. CASE Shown(h)
  <2>1. CASE /\ Is(h, "start")
             /\ cmd' = [cmd EXCEPT ![h].op = "status", ![h].pc = "load", ![h].prof = Nil]
    <3> DEFINE x == [cmd[h] EXCEPT !.op = "status", !.pc = "load", !.prof = Nil]
    <3>1. /\ x \in Command /\ cmd' = [cmd EXCEPT ![h] = x] /\ x.op = "status"
          /\ x.pc = "load" /\ x.draft = cmd[h].draft /\ cmd[h].draft = Nil
      BY <1>2, <1>4, <2>1 DEF Command, Op, PC, Is
    <3> HIDE DEF x
    <3>2. ~Owes(x) /\ SteadyWith(x, session[x.user], archive)
      BY <3>1 DEF Owes, SteadyWith, Closing, Finishing
    <3>3. QED
      BY <1>1, <1>2, <3>1, <3>2, Unseen
  <2>2. CASE cmd[h].op \in {"status", "profile"} /\ Return(h)
    BY <1>1, <1>2, <1>4, <2>2, LeavesOff
  <2>3. CASE Is(h, "undo") /\ Go(h, "save")
    <3>1. "save" \in PC \ {"idle"}
      BY DEF PC
    <3>2. QED
      BY <1>1, <1>5, <2>3, <3>1, GoStep
  <2>4. QED
    BY <1>3, <1>6, <2>1, <2>2, <2>3 DEF Shown
<1>7. CASE Go(h, "peekdb")
  <2>1. "peekdb" \in PC \ {"idle"}
    BY DEF PC
  <2>2. QED
    BY <1>1, <1>5, <1>7, <2>1, GoStep
<1>8. CASE PeekDb(h) /\ db[cmd[h].player] # Nil
  <2>1. /\ Prof(h, "peekwarm", db[cmd[h].player]) /\ "peekwarm" \in PC \ {"idle"}
        /\ db[cmd[h].player] \in Tally
    BY <1>1, <1>2, <1>8 DEF PeekDb, Prof, PC, TypeOK
  <2>2. QED
    BY <1>1, <1>5, <2>1, ProfStep
<1>9. QED
  BY <1>6, <1>7, <1>8 DEF Peek, PeekDb, PeekWarm

-----------------------------------------------------------------------------
LEMMA SomeoneAlone ==
    ASSUME Inductive, Calm, Tracked, calm
    PROVE  \E c : Alone(c) /\ SteadyWith(c, session[c.user], archive)
<1>1. CASE \A h \in Handler : cmd[h] = Idle
  <2>1. Alone(Idle)
    BY <1>1 DEF Alone, Inductive
  <2>2. QED
    BY <2>1, IdleSteady
<1>2. CASE \E h \in Handler : cmd[h] # Idle
  <2>1. PICK h \in Handler : cmd[h] # Idle
    BY <1>2
  <2>2. Alone(cmd[h]) /\ SteadyWith(cmd[h], session[cmd[h].user], archive)
    BY <2>1 DEF Alone, Inductive, Calm, Tracked
  <2>3. QED
    BY <2>2
<1>3. QED
  BY <1>1, <1>2

\* Nothing but caches and sessions that expire: SoloGame sees no step.
LEMMA SameView ==
    ASSUME TypeOK', NEW c, Alone(c), UNCHANGED <<used, archive, db, cmd, calm>>,
           SameGames(c, c)
    PROVE  UNCHANGED Promise!vars
<1>1. Alone(c)'
  BY DEF Alone
<1>2. SameCounts(c, c)
  BY DEF SameCounts
<1>3. Games' = Games /\ Tallies' = Tallies
  BY <1>1, <1>2, SameGamesShow, SameCountsShow
<1>4. QED
  BY <1>3 DEF Promise!vars

LEMMA BeginFollows ==
    ASSUME Inductive, Inductive', Calm, Tracked, calm', NEW h \in Handler,
           NEW op \in Op, NEW u \in User, NEW p \in Player, Begin(h, op, u, p)
    PROVE  Tracked' /\ [Promise!Next]_(Promise!vars)
<1> DEFINE x == [pc |-> CASE op = "profile" -> "peek"
                          [] op = "prefer"  -> "fetch"
                          [] OTHER          -> "load",
                 op |-> op, user |-> u, player |-> p, draft |-> Nil, prof |-> Nil]
<1>1. calm /\ UNCHANGED <<session, used, archive, db, calm>>
      /\ cmd' = [cmd EXCEPT ![h] = x]
  BY DEF Begin
<1>2. \A i \in Handler : cmd[i] = Idle
  <2>1. \A i \in Handler : cmd[i].pc = "idle"
    BY DEF Begin, At
  <2>2. QED
    BY <2>1, Busy DEF Inductive, TypeOK, Command
<1>3. /\ x.draft = Nil /\ x.pc \in {"peek", "fetch", "load"}
      /\ (x.op = "start" => x.pc = "load") /\ (x.pc = "fetch" => x.op = "prefer")
  OBVIOUS
<1> HIDE DEF x
<1>4. ~Owes(x) /\ \A s, a : SteadyWith(x, s, a)
  BY <1>3 DEF Owes, SteadyWith, Closing, Finishing
<1>5. cmd'[h] = x /\ \A i \in Handler : i # h => cmd'[i] = Idle
  BY <1>1, <1>2 DEF Inductive, TypeOK
<1>6. Alone(Idle) /\ Alone(x)'
  BY <1>2, <1>5 DEF Alone, Inductive
<1>7. Idle.draft = Nil
  BY DEF Idle
<1>8. SameGames(Idle, x)
  BY <1>1, <1>3, <1>7 DEF SameGames, GameOf
<1>9. SameCounts(Idle, x)
  BY <1>1, <1>4, IdleCalm DEF SameCounts, Count
<1>10. Games' = Games /\ Tallies' = Tallies
  BY <1>6, <1>8, <1>9, SameGamesShow, SameCountsShow
<1>11. Tracked'
  BY <1>4, <1>5, IdleSteady DEF Tracked
<1>12. QED
  BY <1>1, <1>10, <1>11 DEF Promise!vars

LEMMA StepFollows ==
    ASSUME Inductive, Inductive', Calm, Tracked, calm, NEW h \in Handler, Step(h)
    PROVE  Tracked' /\ [Promise!Next]_(Promise!vars)
<1>1. Follows(h)
  BY LoadsFollow, ThinksFollow, CreateFollows, SaveFollows, DeleteFollows,
     InsertFollows, NoDuplicate, FetchesFollow, UpsertFollows, RecacheFollows,
     PeeksFollow DEF Step
<1>2. PICK x \in Command \cup {Idle} :
        cmd' = [cmd EXCEPT ![h] = x] /\ SteadyWith(x, session'[x.user], archive')
  BY <1>1 DEF Follows
<1>3. cmd[h].pc # "idle"
  BY DEF Step, At, LoadMiss, Resume, Undo, Resign, PlayRefused, PlayerMoves,
         EngineFails, EngineMoves, Create, CreateRefused, Save, Delete, Insert,
         Duplicate, Lookup, Fetch, Warm, Upsert, Recache, Peek, PeekDb, PeekWarm
<1>4. cmd'[h] = x /\ \A i \in Handler : i # h => cmd'[i] = Idle
  BY <1>2, <1>3, CalmNow DEF Inductive, TypeOK
<1>5. Tracked'
  BY <1>2, <1>4, IdleSteady DEF Tracked
<1>6. QED
  BY <1>1, <1>5 DEF Follows

\* A game that nobody has loaded is forgotten when its session expires.
LEMMA ExpireFollows ==
    ASSUME Inductive, Inductive', Calm, Tracked, calm,
           \/ \E u \in User : ExpireSession(u)
           \/ \E p \in Player : ExpireProfile(p)
           \/ UNCHANGED vars
    PROVE  Tracked' /\ [Promise!Next]_(Promise!vars)
<1>1. /\ UNCHANGED <<used, archive, db, cmd, calm>> /\ TypeOK /\ TypeOK'
      /\ \A u \in User : session'[u] \in {session[u], Nil}
  BY DEF Inductive, TypeOK, ExpireSession, ExpireProfile, vars
<1>2. PICK c : Alone(c) /\ SteadyWith(c, session[c.user], archive)
  BY SomeoneAlone
<1>3. Tracked'
  <2>1. ASSUME NEW h \in Handler
        PROVE  SteadyWith(cmd[h], session'[cmd[h].user], archive)
    <3>1. CASE cmd[h] = Idle
      BY <3>1, IdleSteady
    <3>2. CASE cmd[h] # Idle
      <4>1. cmd[h].user \in User
        BY <1>1, <3>2 DEF TypeOK, Command
      <4>2. QED
        BY <1>1, <4>1 DEF Tracked, SteadyWith
    <3>3. QED
      BY <3>1, <3>2
  <2>2. QED
    BY <1>1, <2>1 DEF Tracked
<1>4. CASE session' = session
  <2>1. SameGames(c, c)
    BY <1>1, <1>4 DEF SameGames
  <2>2. QED
    BY <1>1, <1>2, <1>3, <2>1, SameView
<1>5. ASSUME NEW u \in User, ExpireSession(u)
      PROVE  [Promise!Next]_(Promise!vars)
  <2>1. session'[u] = Nil /\ \A v \in User : v # u => session'[v] = session[v]
    BY <1>1, <1>5 DEF ExpireSession, TypeOK
  <2>2. CASE \/ c.draft # Nil /\ c.user = u /\ archive[c.draft.uuid] = Nil
             \/ archive[session[u].uuid] # Nil
    <3>1. SameGames(c, c)
      BY <1>1, <2>1, <2>2 DEF SameGames, GameOf
    <3>2. QED
      BY <1>1, <1>2, <3>1, SameView
  <2>3. CASE /\ ~(c.draft # Nil /\ c.user = u /\ archive[c.draft.uuid] = Nil)
             /\ archive[session[u].uuid] = Nil
    <3>1. \A v \in User : GameOf(c, v, session'[v], archive') =
             IF v = u THEN Nil ELSE GameOf(c, v, session[v], archive)
      BY <1>1, <2>1, <2>3 DEF GameOf
    <3>2. session[u] # Nil /\ session[u] \in Payload
      BY <1>1, <1>5 DEF ExpireSession, TypeOK
    <3>3. GameOf(c, u, session[u], archive) =
             [uuid |-> session[u].uuid, ply |-> session[u].ply]
      BY <2>3, <3>2 DEF GameOf
    <3>4. GameOf(c, u, session[u], archive) # Nil
      BY <3>2, <3>3, NilAssumption DEF Payload
    <3>5. Alone(c)' /\ SameCounts(c, c)
      BY <1>1, <1>2 DEF Alone, SameCounts
    <3>6. Games' = [Games EXCEPT ![u] = Nil] /\ Games[u] # Nil /\ Tallies' = Tallies
      BY <1>2, <3>1, <3>4, <3>5, Shows, SameCountsShow
    <3>7. Promise!Forget(u)
      BY <1>1, <3>6 DEF Promise!Forget
    <3>8. QED
      BY <3>7 DEF Promise!Next
  <2>4. QED
    BY <2>2, <2>3
<1>6. QED
  BY <1>3, <1>4, <1>5 DEF ExpireProfile, vars

LEMMA PromiseStep ==
    Inductive /\ Inductive' /\ Calm /\ Tracked /\ [Next]_vars
        => Tracked' /\ [Promise!Next]_(Promise!vars)
<1>1. SUFFICES ASSUME Inductive, Inductive', Calm, Tracked, [Next]_vars
               PROVE  Tracked' /\ [Promise!Next]_(Promise!vars)
  OBVIOUS
<1>2. CASE ~calm'
  <2>1. Promise!Disturbed
    BY <1>1, <1>2, DisturbedStep
  <2>2. QED
    BY <1>2, <2>1 DEF Promise!Next, Tracked
<1>3. CASE calm'
  <2>1. ASSUME NEW h \in Handler, NEW op \in Op, NEW u \in User, NEW p \in Player,
               Begin(h, op, u, p)
        PROVE  Tracked' /\ [Promise!Next]_(Promise!vars)
    BY <1>1, <1>3, <2>1, BeginFollows
  <2>2. ASSUME NEW h \in Handler, Step(h)
        PROVE  Tracked' /\ [Promise!Next]_(Promise!vars)
    <3>1. calm
      BY <1>3, <2>2
         DEF Step, LoadMiss, Resume, Undo, Resign, PlayRefused, PlayerMoves,
             EngineFails, EngineMoves, Create, CreateRefused, Save, Delete, Insert,
             Duplicate, Lookup, Fetch, Warm, Upsert, Recache, Peek, PeekDb, PeekWarm
    <3>2. QED
      BY <1>1, <2>2, <3>1, StepFollows
  <2>3. ASSUME \/ \E u \in User : ExpireSession(u)
               \/ \E p \in Player : ExpireProfile(p)
               \/ UNCHANGED vars
        PROVE  Tracked' /\ [Promise!Next]_(Promise!vars)
    <3>1. calm
      BY <1>3, <2>3 DEF ExpireSession, ExpireProfile, vars
    <3>2. QED
      BY <1>1, <2>3, <3>1, ExpireFollows
  <2>4. ASSUME NEW h \in Handler, Fail(h) \/ InsertLost(h) \/ UpsertLost(h)
        PROVE  FALSE
    BY <1>3, <2>4 DEF Fail, InsertLost, UpsertLost
  <2>5. ~Crash
    BY <1>3 DEF Crash
  <2>6. QED
    BY <1>1, <2>1, <2>2, <2>3, <2>4, <2>5 DEF Next
<1>4. QED
  BY <1>2, <1>3

LEMMA PromiseInit == Init => Tracked /\ Promise!Init
<1>1. SUFFICES ASSUME Init PROVE Tracked /\ Promise!Init
  OBVIOUS
<1>2. Tracked
  BY <1>1, IdleSteady DEF Init, Tracked
<1>3. Alone(Idle)
  BY <1>1, InductiveInit DEF Alone, Inductive, Init
<1>4. Games = GamesOf(Idle) /\ Tallies = TalliesOf(Idle)
  BY <1>3, ViewHolds DEF View
<1>5. Idle.draft = Nil /\ ~Owes(Idle)
  BY IdleCalm DEF Idle
<1>6. Games = [u \in User |-> Nil]
  BY <1>1, <1>4, <1>5 DEF GamesOf, GameOf, Init
<1>7. Tallies = [p \in Player |-> [e \in Uuid \X Result |-> 0]]
  <2>1. ASSUME NEW p \in Player, NEW e \in Uuid \X Result
        PROVE  Count(Idle, p, e, db[p]) = 0
    BY <1>1, <1>5 DEF Count, Init
  <2>2. QED
    BY <1>4, <2>1 DEF TalliesOf
<1>8. QED
  BY <1>1, <1>2, <1>6, <1>7 DEF Promise!Init, Init

\* SoloSession implements SoloGame: while commands come one at a time and
\* nothing fails, each of them is one step on the game it is about, though it
\* takes a dozen calls to Redis, Postgres and the engine and sessions expire in
\* between (service.go 472-948); from the first failure or overlap on, a
\* recorded result stays and counts at most once (service.go 1380-1437).
THEOREM SoloGameImplemented == Spec => ImplementsGame
<1>1. Init => Tracked /\ Promise!Init
  BY PromiseInit
<1>2. Inductive /\ Inductive' /\ Calm /\ Tracked /\ [Next]_vars
         => Tracked' /\ [Promise!Next]_(Promise!vars)
  BY PromiseStep
<1>3. QED
  BY <1>1, <1>2, SoloInvariance, CalmHolds, PTL DEF Spec, ImplementsGame, Promise!Spec
=============================================================================
