-------------------------- MODULE PvpChannelProofs --------------------------
(***************************************************************************)
(* For any number of users, rooms, codes and commands in flight: the       *)
(* types, that a channel never seats a third user, and that its rooms are  *)
(* those of everybody who plays in it.                                     *)
(***************************************************************************)
EXTENDS PvpChannel, FiniteSetTheorems, TLAPS

Locals(k) == <<pc[k], cmd[k], code[k], view[k]>>

LEMMA AnswerLocals ==
    ASSUME TypeOK, NEW h \in Handler, NEW from, Answer(h, from)
    PROVE  /\ pc' \in [Handler -> PC] /\ cmd' \in [Handler -> Command]
           /\ code' \in [Handler -> Code \cup {Nil}]
           /\ list' \in [Handler -> SUBSET Code]
           /\ view' \in [Handler -> Meta \cup {Nil}]
           /\ made' \in [Handler -> GameId \cup {Nil}]
           /\ pc'[h] = "idle"
           /\ \A k \in Handler \ {h} : Locals(k)' = Locals(k)
<1>1. NoCmd \in Command
  BY DEF NoCmd, Command
<1>2. QED
  BY <1>1 DEF TypeOK, Answer, PC, Locals

LEMMA GotoLocals ==
    ASSUME TypeOK, NEW h \in Handler, NEW from, NEW to \in PC, Goto(h, from, to)
    PROVE  /\ pc' \in [Handler -> PC] /\ cmd' = cmd
           /\ pc[h] = from /\ pc'[h] = to
           /\ \A k \in Handler \ {h} : pc'[k] = pc[k]
BY DEF TypeOK, Goto

LEMMA BusyCheckLocals ==
    ASSUME TypeOK, NEW h \in Handler, NEW u, NEW r, NEW from, NEW to \in PC,
           BusyCheck(h, u, r, from, to)
    PROVE  /\ TypeOK'
           /\ pc[h] = from
           /\ pc'[h] = "idle" \/ (pc'[h] = to /\ cmd' = cmd /\ UNCHANGED locals)
           /\ \A k \in Handler \ {h} : Locals(k)' = Locals(k)
           /\ UNCHANGED <<keys, board, dirty>>
<1>1. CASE Answer(h, from)
  BY <1>1, AnswerLocals DEF BusyCheck, TypeOK, keys, Answer
<1>2. CASE Goto(h, from, to) /\ UNCHANGED locals
  BY <1>2, GotoLocals DEF BusyCheck, TypeOK, keys, locals, Locals
<1>3. QED
  BY <1>1, <1>2 DEF BusyCheck

LEMMA TypeStep ==
    ASSUME TypeOK, \A h \in Handler : HandlerOK(h), [Next]_vars
    PROVE  TypeOK'
<1> USE DEF TypeOK
<1>1. ASSUME NEW h \in Handler, BeginMake(h) PROVE TypeOK'
  BY <1>1 DEF BeginMake, keys, locals, PC, Command
<1>2. ASSUME NEW h \in Handler, BeginJoin(h) PROVE TypeOK'
  BY <1>2 DEF BeginJoin, keys, PC, Command
<1>3. ASSUME NEW h \in Handler, Step(h) PROVE TypeOK'
  <2>1. CASE MakeBusy(h)
    BY <2>1, BusyCheckLocals DEF MakeBusy, PC
  <2>2. CASE MakeList(h)
    <3>1. pc' \in [Handler -> PC] /\ cmd' = cmd
      BY <2>2, GotoLocals DEF MakeList, PC
    <3>2. Caller(h) \in User
      BY <2>2 DEF HandlerOK, MakeList, Goto
    <3>3. QED
      BY <2>2, <3>1, <3>2 DEF MakeList, keys
  <2>3. CASE MakeCheck(h)
    <3>1. CASE Answer(h, "mkCheck")
      BY <2>3, <3>1, AnswerLocals DEF MakeCheck, keys
    <3>2. ASSUME NEW c \in list[h], Goto(h, "mkCheck", "mkCheck"),
                 list' = [list EXCEPT ![h] = @ \ {c}], UNCHANGED <<code, view, made>>
          PROVE  TypeOK'
      <4>1. pc' \in [Handler -> PC] /\ cmd' = cmd
        BY <3>2, GotoLocals DEF PC
      <4>2. QED
        BY <2>3, <3>2, <4>1 DEF MakeCheck, keys
    <3>3. QED
      BY <2>3, <3>1, <3>2 DEF MakeCheck
  <2>4. CASE MakeClaim(h)
    <3>1. pc' \in [Handler -> PC] /\ cmd' = cmd
      BY <2>4, GotoLocals DEF MakeClaim, PC
    <3>2. Blank \in Meta
      BY DEF Blank, Meta
    <3>3. QED
      BY <2>4, <3>1, <3>2 DEF MakeClaim
  <2>5. CASE MakeNoCode(h)
    BY <2>5, AnswerLocals DEF MakeNoCode, keys
  <2>6. CASE MakeMeta(h)
    <3>1. pc' \in [Handler -> PC] /\ cmd' = cmd
      BY <2>6, GotoLocals DEF MakeMeta, PC
    <3>2. Waiting(Caller(h), cmd[h].room) \in Meta
      BY <2>6 DEF HandlerOK, MakeMeta, Goto, Waiting, Meta
    <3>3. QED
      BY <2>6, <3>1, <3>2 DEF MakeMeta, locals
  <2>7. CASE MakeRoom(h)
    <3>1. pc' \in [Handler -> PC] /\ cmd' = cmd
      BY <2>7, GotoLocals DEF MakeRoom, PC
    <3>2. cmd[h].room \in Room
      BY <2>7 DEF HandlerOK, MakeRoom, Goto
    <3>3. QED
      BY <2>7, <3>1, <3>2 DEF MakeRoom, locals
  <2>8. CASE MakeMember(h)
    <3>1. pc' \in [Handler -> PC] /\ cmd' = cmd
      BY <2>8, GotoLocals DEF MakeMember, PC
    <3>2. Caller(h) \in User
      BY <2>8 DEF HandlerOK, MakeMember, Goto
    <3>3. QED
      BY <2>8, <3>1, <3>2 DEF MakeMember, locals, Touch
  <2>9. CASE MakeIndex(h)
    <3>1. pc' \in [Handler -> PC] /\ cmd' = cmd
      BY <2>9, GotoLocals DEF MakeIndex, PC
    <3>2. Caller(h) \in User /\ code[h] \in Code
      BY <2>9 DEF HandlerOK, MakeIndex, Goto, Making
    <3>3. QED
      BY <2>9, <3>1, <3>2 DEF MakeIndex, locals
  <2>10. CASE MakeLobby(h)
    <3>1. code[h] \in Code
      BY <2>10 DEF HandlerOK, MakeLobby, Answer, Making
    <3>2. QED
      BY <2>10, <3>1, AnswerLocals DEF MakeLobby
  <2>11. CASE JoinPre(h)
    BY <2>11, BusyCheckLocals DEF JoinPre, PC
  <2>12. CASE JoinLoad(h)
    <3>1. CASE Answer(h, "joLoad")
      BY <2>12, <3>1, AnswerLocals DEF JoinLoad, keys
    <3>2. CASE Goto(h, "joLoad", "joWatch") /\ UNCHANGED locals
      BY <2>12, <3>2, GotoLocals DEF JoinLoad, keys, locals, PC
    <3>3. QED
      BY <2>12, <3>1, <3>2 DEF JoinLoad
  <2>13. CASE JoinWatch(h)
    <3>1. CASE Answer(h, "joWatch")
      BY <2>13, <3>1, AnswerLocals DEF JoinWatch, keys
    <3>2. CASE Goto(h, "joWatch", "joExec") /\ UNCHANGED locals
      BY <2>13, <3>2, GotoLocals DEF JoinWatch, keys, locals, PC
    <3>3. QED
      BY <2>13, <3>1, <3>2 DEF JoinWatch
  <2>14. CASE Conflict(h)
    BY <2>14, AnswerLocals DEF Conflict, keys
  <2>15. CASE JoinExec(h)
    <3>1. pc' \in [Handler -> PC] /\ cmd' = cmd
      BY <2>15, GotoLocals DEF JoinExec, PC
    <3>2. Caller(h) \in User /\ cmd[h].room \in Room /\ code[h] \in Code
      BY <2>15 DEF HandlerOK, JoinExec, Take, Joining
    <3>3. QED
      BY <2>15, <3>1, <3>2 DEF JoinExec, Take, Seat, locals, Touch
  <2>16. CASE JoinReload(h)
    <3>1. pc' \in [Handler -> PC] /\ cmd' = cmd
      BY <2>16, GotoLocals DEF JoinReload, PC
    <3>2. cmd[h].room \in Room /\ code[h] \in Code
      BY <2>16 DEF HandlerOK, JoinReload, Goto, Joining, Seated
    <3>3. QED
      BY <2>16, <3>1, <3>2 DEF JoinReload
  <2>17. CASE JoinCount(h)
    <3>1. CASE Answer(h, "joCount")
      BY <2>17, <3>1, AnswerLocals DEF JoinCount, keys
    <3>2. CASE Goto(h, "joCount", "joBusy") /\ UNCHANGED locals
      BY <2>17, <3>2, GotoLocals DEF JoinCount, keys, locals, PC
    <3>3. QED
      BY <2>17, <3>1, <3>2 DEF JoinCount
  <2>18. CASE JoinBusy(h)
    BY <2>18, BusyCheckLocals DEF JoinBusy, PC
  <2>19. CASE JoinBusyCreator(h)
    BY <2>19, BusyCheckLocals DEF JoinBusyCreator, PC
  <2>20. CASE JoinCreate(h)
    <3>1. pc' \in [Handler -> PC] /\ cmd' = cmd
      BY <2>20, GotoLocals DEF JoinCreate, PC
    <3>2. PICK g \in GameId, p \in Pairing(h) :
              /\ Created(h, g, NewBoard(h, p[1], p[2], {p[1], p[2]}))
              /\ made' = [made EXCEPT ![h] = g]
      BY <2>20 DEF JoinCreate
    <3>3. Caller(h) \in User /\ view[h].creator \in User
             /\ cmd[h].room \in Room /\ view[h].room \in Room
      BY <2>20 DEF HandlerOK, JoinCreate, Goto, Seated, Proper
    <3>4. NewBoard(h, p[1], p[2], {p[1], p[2]}) \in Board
      BY <3>2, <3>3 DEF Pairing, NewBoard, Board
    <3>5. QED
      BY <2>20, <3>1, <3>2, <3>4 DEF JoinCreate, Created, keys
  <2>21. CASE JoinMeta(h)
    <3>1. pc' \in [Handler -> PC] /\ cmd' = cmd
      BY <2>21, GotoLocals DEF JoinMeta, PC
    <3>2. view[h] \in Meta
      BY <2>21 DEF HandlerOK, JoinMeta, Goto, Seated
    <3>3. Started(view[h], made[h]) \in Meta
      BY <3>2 DEF Started, Meta
    <3>4. QED
      BY <2>21, <3>1, <3>3 DEF JoinMeta, locals
  <2>22. CASE JoinLobby(h)
    BY <2>22, AnswerLocals DEF JoinLobby
  <2>23. QED
    BY <1>3, <2>1, <2>2, <2>3, <2>4, <2>5, <2>6, <2>7, <2>8, <2>9, <2>10, <2>11,
       <2>12, <2>13, <2>14, <2>15, <2>16, <2>17, <2>18, <2>19, <2>20, <2>21, <2>22
       DEF Step
<1>4. ASSUME NEW h \in Handler, Fail(h) PROVE TypeOK'
  BY <1>4, AnswerLocals DEF Fail, keys
<1>5. ASSUME NEW h \in Handler, CreateBroken(h) PROVE TypeOK'
  <2>1. PICK g \in GameId, p \in Pairing(h) : \E found \in SUBSET {p[1]} :
            Created(h, g, NewBoard(h, p[1], p[2], found))
    BY <1>5 DEF CreateBroken
  <2>2. PICK found \in SUBSET {p[1]} : Created(h, g, NewBoard(h, p[1], p[2], found))
    BY <2>1
  <2>3. Caller(h) \in User /\ view[h].creator \in User
           /\ cmd[h].room \in Room /\ view[h].room \in Room
    BY <1>5 DEF HandlerOK, CreateBroken, Answer, Seated, Proper
  <2>4. NewBoard(h, p[1], p[2], found) \in Board
    BY <2>1, <2>2, <2>3 DEF Pairing, NewBoard, Board
  <2>5. QED
    BY <1>5, <2>2, <2>4, AnswerLocals DEF CreateBroken, Created, keys
<1>6. ASSUME Die PROVE TypeOK'
  BY <1>6 DEF Die, keys, PC, NoCmd, Command
<1>7. ASSUME NEW g \in GameId, EndGame(g) PROVE TypeOK'
  <2>1. [board[g] EXCEPT !.active = FALSE] \in Board
    BY <1>7 DEF EndGame, Board
  <2>2. QED
    BY <1>7, <2>1 DEF EndGame, keys, locals
<1>8. ASSUME NEW c \in Code, ExpireMeta(c) \/ ExpireSeats(c) PROVE TypeOK'
  BY <1>8 DEF ExpireMeta, ExpireSeats, locals
<1>9. ASSUME NEW u \in User, ExpireIndex(u) PROVE TypeOK'
  BY <1>9 DEF ExpireIndex, locals
<1>10. CASE ExpireLobby
  BY <1>10 DEF ExpireLobby, locals
<1>11. CASE UNCHANGED vars
  BY <1>11 DEF vars, keys, locals
<1>12. QED
  BY <1>1, <1>2, <1>3, <1>4, <1>5, <1>6, <1>7, <1>8, <1>9, <1>10, <1>11
     DEF Next, JoinPanic, Crash

-----------------------------------------------------------------------------
(* The seats. *)

LEMMA IdleOK ==
    ASSUME NEW h \in Handler, pc'[h] = "idle"
    PROVE  HandlerOK(h)'
BY DEF HandlerOK, Joining, Making, Seated

\* What a step of somebody else must leave alone for a handler to stay sound.
LEMMA HandlerKept ==
    ASSUME NEW k \in Handler, HandlerOK(k), Locals(k)' = Locals(k),
           known \subseteq known',
           pc[k] \in Making => /\ code[k] \notin known'
                              /\ meta'[code[k]] = meta[code[k]]
                              /\ members'[code[k]] = members[code[k]],
           pc[k] = "joExec" /\ k \notin dirty' =>
               k \notin dirty /\ members'[code[k]] = members[code[k]]
    PROVE  HandlerOK(k)'
BY DEF HandlerOK, Locals, Caller, Full, Proper, Making

\* A step of h that writes neither metadata nor seats.
LEMMA QuietStep ==
    ASSUME Seating, NEW h \in Handler,
           UNCHANGED <<meta, members, known>>,
           \A k \in Handler \ {h} : Locals(k)' = Locals(k),
           dirty \ {h} \subseteq dirty',
           pc'[h] \in Making => pc[h] \in Making /\ code'[h] = code[h],
           HandlerOK(h)'
    PROVE  Seating'
<1>1. SeatsOK' /\ CodesOK'
  BY DEF Seating, SeatsOK, CodesOK
<1>2. OneMaker'
  BY DEF Seating, OneMaker, Locals
<1>3. ASSUME NEW k \in Handler \ {h} PROVE HandlerOK(k)'
  <2>1. pc[k] \in Making => code[k] \notin known
    BY DEF Seating, HandlerOK
  <2>2. QED
    BY <2>1, HandlerKept DEF Seating
<1>4. QED
  BY <1>1, <1>2, <1>3 DEF Seating

\* A handler that is done.
LEMMA AnswerStep ==
    ASSUME TypeOK, Seating, NEW h \in Handler, NEW from, Answer(h, from),
           UNCHANGED <<meta, members, known>>, dirty \ {h} \subseteq dirty'
    PROVE  Seating'
BY AnswerLocals, IdleOK, QuietStep DEF Making

LEMMA BusyStep ==
    ASSUME TypeOK, Seating, NEW h \in Handler, NEW u, NEW r, NEW from, NEW to \in PC,
           BusyCheck(h, u, r, from, to), to \notin Making,
           pc'[h] = to => HandlerOK(h)'
    PROVE  Seating'
<1>1. HandlerOK(h)'
  BY BusyCheckLocals, IdleOK
<1>2. QED
  BY <1>1, BusyCheckLocals, QuietStep DEF keys, Making

LEMMA QuietSteps ==
    ASSUME TypeOK, Seating, NEW h \in Handler,
           \/ BeginMake(h) \/ BeginJoin(h)
           \/ MakeBusy(h) \/ MakeList(h) \/ MakeCheck(h) \/ MakeNoCode(h)
           \/ MakeRoom(h) \/ MakeIndex(h)
           \/ JoinPre(h) \/ JoinLoad(h) \/ JoinWatch(h) \/ Conflict(h)
           \/ JoinReload(h) \/ JoinCount(h) \/ JoinBusy(h) \/ JoinBusyCreator(h)
           \/ JoinCreate(h) \/ JoinLobby(h) \/ Fail(h) \/ CreateBroken(h)
    PROVE  Seating'
<1> USE DEF TypeOK
<1>0. HandlerOK(h)
  BY DEF Seating
<1> DEFINE Stays == /\ UNCHANGED <<meta, members, known>>
                    /\ \A k \in Handler \ {h} : Locals(k)' = Locals(k)
                    /\ dirty \ {h} \subseteq dirty'
<1>1. CASE BeginMake(h)
  <2>1. Stays /\ pc'[h] = "mkBusy"
    BY <1>1 DEF BeginMake, keys, locals, Locals
  <2>2. HandlerOK(h)'
    BY <1>1, <2>1 DEF BeginMake, HandlerOK, Caller, Joining, Making, Seated
  <2>3. QED
    BY <2>1, <2>2, QuietStep DEF Making
<1>2. CASE BeginJoin(h)
  <2>1. Stays /\ pc'[h] = "joPre"
    BY <1>2 DEF BeginJoin, keys, Locals
  <2>2. HandlerOK(h)'
    BY <1>2, <2>1 DEF BeginJoin, HandlerOK, Caller, Joining, Making, Seated, keys
  <2>3. QED
    BY <2>1, <2>2, QuietStep DEF Making
<1>3. CASE MakeBusy(h)
  <2>1. pc'[h] = "mkList" => HandlerOK(h)'
    BY <1>0, <1>3, BusyCheckLocals DEF MakeBusy, HandlerOK, Caller, Joining, Making, Seated, PC
  <2>2. QED
    BY <1>3, <2>1, BusyStep DEF MakeBusy, PC, Making
<1>4. CASE MakeList(h)
  <2>1. Stays /\ pc'[h] = "mkCheck"
    BY <1>4 DEF MakeList, Goto, keys, Locals
  <2>2. HandlerOK(h)'
    BY <1>0, <1>4, <2>1 DEF MakeList, Goto, HandlerOK, Caller, Joining, Making, Seated
  <2>3. QED
    BY <2>1, <2>2, QuietStep DEF Making
<1>5. CASE MakeCheck(h)
  <2>1. CASE Answer(h, "mkCheck")
    BY <1>5, <2>1, AnswerStep DEF MakeCheck, keys
  <2>2. CASE Goto(h, "mkCheck", "mkCheck") /\ UNCHANGED <<code, view, made>>
    <3>1. Stays /\ pc'[h] = "mkCheck"
      BY <1>5, <2>2 DEF MakeCheck, Goto, keys, Locals
    <3>2. HandlerOK(h)'
      BY <1>0, <2>2, <3>1 DEF Goto, HandlerOK, Caller, Joining, Making, Seated
    <3>3. QED
      BY <3>1, <3>2, QuietStep DEF Making
  <2>3. QED
    BY <1>5, <2>1, <2>2 DEF MakeCheck
<1>6. CASE MakeNoCode(h)
  BY <1>6, AnswerStep DEF MakeNoCode, keys
<1>7. CASE MakeRoom(h)
  <2>1. Stays /\ pc[h] = "mkRoom" /\ pc'[h] = "mkMember" /\ code' = code
    BY <1>7 DEF MakeRoom, Goto, locals, Locals
  <2>2. HandlerOK(h)'
    BY <1>0, <1>7, <2>1 DEF MakeRoom, Goto, HandlerOK, Caller, Joining, Making, Seated, Proper
  <2>3. QED
    BY <2>1, <2>2, QuietStep DEF Making
<1>8. CASE MakeIndex(h)
  <2>1. Stays /\ pc[h] = "mkIndex" /\ pc'[h] = "mkLobby" /\ code' = code
    BY <1>8 DEF MakeIndex, Goto, locals, Locals
  <2>2. HandlerOK(h)'
    BY <1>0, <1>8, <2>1 DEF MakeIndex, Goto, HandlerOK, Caller, Joining, Making, Seated, Proper
  <2>3. QED
    BY <2>1, <2>2, QuietStep DEF Making
<1>9. CASE JoinPre(h)
  <2>1. pc'[h] = "joLoad" => HandlerOK(h)'
    BY <1>0, <1>9, BusyCheckLocals
       DEF JoinPre, HandlerOK, Caller, Joining, Making, Seated, PC, locals, keys
  <2>2. QED
    BY <1>9, <2>1, BusyStep DEF JoinPre, PC, Making
<1>10. CASE JoinLoad(h)
  <2>1. CASE Answer(h, "joLoad")
    BY <1>10, <2>1, AnswerStep DEF JoinLoad, keys
  <2>2. CASE Goto(h, "joLoad", "joWatch") /\ UNCHANGED locals
    <3>1. Stays /\ pc'[h] = "joWatch"
      BY <1>10, <2>2 DEF JoinLoad, Goto, keys, locals, Locals
    <3>2. HandlerOK(h)'
      BY <1>0, <2>2, <3>1 DEF Goto, HandlerOK, Caller, Joining, Making, Seated, locals
    <3>3. QED
      BY <3>1, <3>2, QuietStep DEF Making
  <2>3. QED
    BY <1>10, <2>1, <2>2 DEF JoinLoad
<1>11. CASE JoinWatch(h)
  <2>1. CASE Answer(h, "joWatch")
    BY <1>11, <2>1, AnswerStep DEF JoinWatch, keys
  <2>2. CASE ~Full(code[h]) /\ Goto(h, "joWatch", "joExec") /\ UNCHANGED locals
    <3>1. Stays /\ pc'[h] = "joExec"
      BY <1>11, <2>2 DEF JoinWatch, Goto, keys, locals, Locals
    <3>2. HandlerOK(h)'
      BY <1>0, <2>2, <3>1 DEF Goto, HandlerOK, Caller, Full, Joining, Making, Seated, locals
    <3>3. QED
      BY <3>1, <3>2, QuietStep DEF Making
  <2>3. QED
    BY <1>11, <2>1, <2>2 DEF JoinWatch
<1>12. CASE Conflict(h)
  BY <1>12, AnswerStep DEF Conflict, keys
<1>13. CASE JoinReload(h)
  <2>1. Stays /\ pc[h] = "joReload" /\ pc'[h] = "joCount"
    BY <1>13 DEF JoinReload, Goto, Locals
  <2>2. view'[h] = meta[code[h]] /\ Proper(meta[code[h]])
    BY <1>0, <1>13, <2>1 DEF JoinReload, HandlerOK, Joining, Seated, Seating, CodesOK
  <2>3. HandlerOK(h)'
    BY <1>0, <1>13, <2>1, <2>2
       DEF JoinReload, Goto, HandlerOK, Caller, Joining, Making, Seated, Proper
  <2>4. QED
    BY <2>1, <2>3, QuietStep DEF Making
<1>14. CASE JoinCount(h)
  <2>1. CASE Answer(h, "joCount")
    BY <1>14, <2>1, AnswerStep DEF JoinCount, keys
  <2>2. CASE Goto(h, "joCount", "joBusy") /\ UNCHANGED locals
    <3>1. Stays /\ pc'[h] = "joBusy"
      BY <1>14, <2>2 DEF JoinCount, Goto, keys, locals, Locals
    <3>2. HandlerOK(h)'
      BY <1>0, <1>14, <2>2, <3>1
         DEF JoinCount, Goto, HandlerOK, Caller, Joining, Making, Seated, Proper, locals
    <3>3. QED
      BY <3>1, <3>2, QuietStep DEF Making
  <2>3. QED
    BY <1>14, <2>1, <2>2 DEF JoinCount
<1>15. CASE JoinBusy(h)
  <2>1. pc'[h] = "joBusyCreator" => HandlerOK(h)'
    BY <1>0, <1>15, BusyCheckLocals
       DEF JoinBusy, HandlerOK, Caller, Joining, Making, Seated, Proper, PC, locals, keys
  <2>2. QED
    BY <1>15, <2>1, BusyStep DEF JoinBusy, PC, Making
<1>16. CASE JoinBusyCreator(h)
  <2>1. pc'[h] = "joCreate" => HandlerOK(h)'
    BY <1>0, <1>16, BusyCheckLocals
       DEF JoinBusyCreator, HandlerOK, Caller, Joining, Making, Seated, Proper, PC, locals, keys
  <2>2. QED
    BY <1>16, <2>1, BusyStep DEF JoinBusyCreator, PC, Making
<1>17. CASE JoinCreate(h)
  <2>1. Stays /\ pc[h] = "joCreate" /\ pc'[h] = "joMeta" /\ UNCHANGED <<cmd, code, view>>
    BY <1>17 DEF JoinCreate, Goto, keys, Locals
  <2>2. HandlerOK(h)'
    BY <1>0, <2>1 DEF HandlerOK, Caller, Joining, Making, Seated, Proper
  <2>3. QED
    BY <2>1, <2>2, QuietStep DEF Making
<1>18. CASE JoinLobby(h)
  BY <1>18, AnswerStep DEF JoinLobby
<1>19. CASE Fail(h)
  BY <1>19, AnswerStep DEF Fail, keys
<1>20. CASE CreateBroken(h)
  BY <1>20, AnswerStep DEF CreateBroken, keys
<1>21. QED
  BY <1>1, <1>2, <1>3, <1>4, <1>5, <1>6, <1>7, <1>8, <1>9, <1>10, <1>11, <1>12,
     <1>13, <1>14, <1>15, <1>16, <1>17, <1>18, <1>19, <1>20

LEMMA ClaimStep ==
    ASSUME TypeOK, Seating, NEW h \in Handler, MakeClaim(h)
    PROVE  Seating'
<1> USE DEF TypeOK
<1>1. PICK c \in Code : Free(c) /\ meta' = [meta EXCEPT ![c] = Blank]
                                /\ code' = [code EXCEPT ![h] = c]
  BY DEF MakeClaim
<1>2. meta[c] = Nil /\ members[c] = {} /\ c \notin known
  BY <1>1 DEF Free
<1>3. ASSUME NEW k \in Handler \ {h}
      PROVE  Locals(k)' = Locals(k) /\ (pc[k] \in Making => code[k] # c)
  BY <1>1, <1>2 DEF MakeClaim, Goto, Locals, Seating, HandlerOK
<1>4. pc[h] = "mkCheck" /\ pc'[h] = "mkMeta" /\ code'[h] = c /\ cmd' = cmd
         /\ UNCHANGED <<members, known, dirty>>
  BY <1>1 DEF MakeClaim, Goto
<1>5. meta'[c] = Blank /\ Blank # Nil
  <2>1. Blank # Nil
    <3>1. Blank \in Meta
      BY DEF Blank, Meta
    <3>2. QED
      BY <3>1, NilAssumption
  <2>2. QED
    BY <1>1, <2>1
<1>6. SeatsOK' /\ CodesOK'
  BY <1>1, <1>2, <1>4 DEF Seating, SeatsOK, CodesOK
<1>7. OneMaker'
  BY <1>3, <1>4 DEF Seating, OneMaker, Locals
<1>8. HandlerOK(h)'
  BY <1>2, <1>4, <1>5 DEF Seating, HandlerOK, Caller, Joining, Making, Seated
<1>9. ASSUME NEW k \in Handler \ {h} PROVE HandlerOK(k)'
  <2>1. pc[k] \in Making => code[k] \in Code \ known
    BY DEF Seating, HandlerOK
  <2>2. pc[k] \in Making => meta'[code[k]] = meta[code[k]]
    BY <1>1, <1>3, <2>1
  <2>3. QED
    BY <1>3, <1>4, <2>1, <2>2, HandlerKept DEF Seating
<1>10. QED
  BY <1>6, <1>7, <1>8, <1>9 DEF Seating

LEMMA MetaStep ==
    ASSUME TypeOK, Seating, NEW h \in Handler, MakeMeta(h)
    PROVE  Seating'
<1> USE DEF TypeOK
<1>1. /\ pc[h] = "mkMeta" /\ pc'[h] = "mkRoom" /\ UNCHANGED <<cmd, code, view>>
      /\ UNCHANGED <<members, known, dirty>>
      /\ meta' = [meta EXCEPT ![code[h]] = Waiting(Caller(h), cmd[h].room)]
  BY DEF MakeMeta, Goto, locals
<1>2. \A k \in Handler \ {h} : Locals(k)' = Locals(k)
  BY <1>1 DEF MakeMeta, Goto, Locals
<1>3. code[h] \in Code \ known
  BY <1>1 DEF Seating, HandlerOK, Making
<1>4. Waiting(Caller(h), cmd[h].room) # Nil /\ Proper(Waiting(Caller(h), cmd[h].room))
  <2>1. Waiting(Caller(h), cmd[h].room).creator \in User
           /\ Waiting(Caller(h), cmd[h].room).room \in Room
    BY <1>1 DEF Seating, HandlerOK, Waiting
  <2>2. Waiting(Caller(h), cmd[h].room) # Nil
    <3>1. Waiting(Caller(h), cmd[h].room) \in Meta
      BY <2>1 DEF Waiting, Meta
    <3>2. QED
      BY <3>1, NilAssumption
  <2>3. QED
    BY <2>1, <2>2 DEF Proper
<1>5. SeatsOK' /\ CodesOK'
  BY <1>1, <1>3 DEF Seating, SeatsOK, CodesOK
<1>6. OneMaker'
  BY <1>1, <1>2 DEF Seating, OneMaker, Locals, Making
<1>7. HandlerOK(h)'
  BY <1>1, <1>3, <1>4 DEF Seating, HandlerOK, Caller, Joining, Making, Seated
<1>8. ASSUME NEW k \in Handler \ {h} PROVE HandlerOK(k)'
  <2>1. pc[k] \in Making => code[k] \in Code \ known /\ code[k] # code[h]
    BY <1>1 DEF Seating, HandlerOK, OneMaker, Making
  <2>2. QED
    BY <1>1, <1>2, <2>1, HandlerKept DEF Seating
<1>9. QED
  BY <1>5, <1>6, <1>7, <1>8 DEF Seating

LEMMA MemberStep ==
    ASSUME TypeOK, Seating, NEW h \in Handler, MakeMember(h)
    PROVE  Seating'
<1> USE DEF TypeOK
<1>1. /\ pc[h] = "mkMember" /\ pc'[h] = "mkIndex" /\ UNCHANGED <<cmd, code, view>>
      /\ UNCHANGED <<meta, known>>
      /\ members' = [members EXCEPT ![code[h]] = @ \cup {Caller(h)}]
      /\ dirty \subseteq dirty'
  BY DEF MakeMember, Goto, locals, Touch
<1>2. \A k \in Handler \ {h} : Locals(k)' = Locals(k)
  BY <1>1 DEF MakeMember, Goto, Locals
<1>3. code[h] \in Code \ known /\ members[code[h]] = {}
  BY <1>1 DEF Seating, HandlerOK, Making
<1>4. IsFiniteSet({Caller(h)}) /\ Cardinality({Caller(h)}) = 1
  BY FS_Singleton
<1>5. SeatsOK'
  BY <1>1, <1>3, <1>4 DEF Seating, SeatsOK
<1>6. CodesOK'
  BY <1>1 DEF Seating, CodesOK
<1>7. OneMaker'
  BY <1>1, <1>2 DEF Seating, OneMaker, Locals, Making
<1>8. HandlerOK(h)'
  BY <1>1 DEF Seating, HandlerOK, Caller, Joining, Making, Seated
<1>9. ASSUME NEW k \in Handler \ {h} PROVE HandlerOK(k)'
  <2>1. pc[k] \in Making => code[k] \in Code \ known /\ code[k] # code[h]
    BY <1>1 DEF Seating, HandlerOK, OneMaker, Making
  <2>2. pc[k] = "joExec" => code[k] \in known
    BY DEF Seating, HandlerOK, Joining
  <2>3. QED
    BY <1>1, <1>2, <1>3, <2>1, <2>2, HandlerKept DEF Seating
<1>10. QED
  BY <1>5, <1>6, <1>7, <1>8, <1>9 DEF Seating

LEMMA LobbyStep ==
    ASSUME TypeOK, Seating, NEW h \in Handler, MakeLobby(h)
    PROVE  Seating'
<1> USE DEF TypeOK
<1>1. /\ pc[h] = "mkLobby" /\ pc'[h] = "idle"
      /\ UNCHANGED <<meta, members, dirty>>
      /\ known' = known \cup {code[h]}
      /\ \A k \in Handler \ {h} : Locals(k)' = Locals(k)
  BY AnswerLocals DEF MakeLobby, Answer
<1>2. code[h] \in Code /\ Proper(meta[code[h]])
  BY <1>1 DEF Seating, HandlerOK, Making
<1>3. SeatsOK' /\ CodesOK'
  BY <1>1, <1>2 DEF Seating, SeatsOK, CodesOK
<1>4. OneMaker'
  BY <1>1 DEF Seating, OneMaker, Locals, Making
<1>5. HandlerOK(h)'
  BY <1>1, IdleOK
<1>6. ASSUME NEW k \in Handler \ {h} PROVE HandlerOK(k)'
  <2>1. pc[k] \in Making => code[k] \in Code \ known /\ code[k] # code[h]
    BY <1>1 DEF Seating, HandlerOK, OneMaker, Making
  <2>2. QED
    BY <1>1, <2>1, HandlerKept DEF Seating
<1>7. QED
  BY <1>3, <1>4, <1>5, <1>6 DEF Seating

\* EXEC: nobody has written the seats since they were counted, so the new one
\* is at most the second; whoever else watches them is told.
LEMMA TakeStep ==
    ASSUME TypeOK, Seating, NEW h \in Handler, JoinExec(h)
    PROVE  Seating'
<1> USE DEF TypeOK
<1>1. /\ pc[h] = "joExec" /\ pc'[h] = "joReload" /\ UNCHANGED <<cmd, code, view>>
      /\ UNCHANGED <<meta, known>> /\ h \notin dirty
      /\ members' = [members EXCEPT ![code[h]] = @ \cup {Caller(h)}]
  BY DEF JoinExec, Take, Seat, Goto, locals
<1>2. \A k \in Handler \ {h} : Locals(k)' = Locals(k)
  BY <1>1 DEF JoinExec, Goto, Locals
<1>3. code[h] \in known /\ ~Full(code[h])
  BY <1>1 DEF Seating, HandlerOK, Joining, Seated
<1>4. SeatsOK'
  <2> DEFINE S == members[code[h]]
  <2>1. IsFiniteSet(S) /\ Cardinality(S) \in Nat /\ Cardinality(S) < 2
    <3>1. IsFiniteSet(S)
      BY <1>3 DEF Seating, SeatsOK
    <3>2. QED
      BY <1>3, <3>1, FS_CardinalityType DEF Full
  <2>2. IsFiniteSet(S \cup {Caller(h)}) /\ Cardinality(S \cup {Caller(h)}) <= 2
    <3>1. IsFiniteSet(S \cup {Caller(h)})
             /\ \/ Cardinality(S \cup {Caller(h)}) = Cardinality(S)
                \/ Cardinality(S \cup {Caller(h)}) = Cardinality(S) + 1
      BY <2>1, FS_AddElement
    <3>2. QED
      BY <2>1, <3>1
  <2>3. QED
    BY <1>1, <1>3, <2>2 DEF Seating, SeatsOK
<1>5. CodesOK'
  BY <1>1 DEF Seating, CodesOK
<1>6. OneMaker'
  BY <1>1, <1>2 DEF Seating, OneMaker, Locals, Making
<1>7. HandlerOK(h)'
  BY <1>1 DEF Seating, HandlerOK, Caller, Joining, Making, Seated
<1>8. ASSUME NEW k \in Handler \ {h} PROVE HandlerOK(k)'
  <2>1. pc[k] \in Making => code[k] \in Code \ known /\ code[k] # code[h]
    BY <1>3 DEF Seating, HandlerOK
  <2>2. pc[k] = "joExec" /\ k \notin dirty' => k \notin dirty /\ code[k] # code[h]
    BY <1>1 DEF JoinExec, Take, Touch
  <2>3. QED
    BY <1>1, <1>2, <1>3, <2>1, <2>2, HandlerKept DEF Seating
<1>9. QED
  BY <1>4, <1>5, <1>6, <1>7, <1>8 DEF Seating

LEMMA StartStep ==
    ASSUME TypeOK, Seating, NEW h \in Handler, JoinMeta(h)
    PROVE  Seating'
<1> USE DEF TypeOK
<1>1. /\ pc[h] = "joMeta" /\ pc'[h] = "joLobby" /\ UNCHANGED <<cmd, code, view>>
      /\ UNCHANGED <<members, known, dirty>>
      /\ meta' = [meta EXCEPT ![code[h]] = Started(view[h], made[h])]
  BY DEF JoinMeta, Goto, locals
<1>2. \A k \in Handler \ {h} : Locals(k)' = Locals(k)
  BY <1>1 DEF JoinMeta, Goto, Locals
<1>3. code[h] \in known /\ view[h] \in Meta /\ Proper(view[h])
  BY <1>1 DEF Seating, HandlerOK, Joining, Seated
<1>4. Proper(Started(view[h], made[h]))
  <2>1. view[h] # Nil
    BY <1>1 DEF Seating, HandlerOK, Seated
  <2>2. QED
    BY <1>3, <2>1 DEF Proper, Started, Meta
<1>5. SeatsOK' /\ CodesOK'
  BY <1>1, <1>3, <1>4 DEF Seating, SeatsOK, CodesOK, Proper
<1>6. OneMaker'
  BY <1>1, <1>2 DEF Seating, OneMaker, Locals, Making
<1>7. HandlerOK(h)'
  BY <1>1 DEF Seating, HandlerOK, Caller, Joining, Making, Seated
<1>8. ASSUME NEW k \in Handler \ {h} PROVE HandlerOK(k)'
  <2>1. pc[k] \in Making => code[k] \in Code \ known /\ code[k] # code[h]
    BY <1>3 DEF Seating, HandlerOK
  <2>2. QED
    BY <1>1, <1>2, <1>3, <2>1, HandlerKept DEF Seating
<1>9. QED
  BY <1>5, <1>6, <1>7, <1>8 DEF Seating

\* Keys expire, but none of those a handler has just written.
LEMMA ExpiryStep ==
    ASSUME TypeOK, Seating, NEW c \in Code, ExpireMeta(c) \/ ExpireSeats(c)
    PROVE  Seating'
<1> USE DEF TypeOK
<1>1. /\ UNCHANGED <<pc, cmd, code, view, known>>
      /\ dirty \subseteq dirty'
      /\ meta' = meta \/ (meta' = [meta EXCEPT ![c] = Nil] /\ ~Writing(c, Making))
      /\ \/ members' = members
         \/ /\ members' = [members EXCEPT ![c] = {}]
            /\ meta[c] = Nil
            /\ \A k \in Handler : pc[k] = "joExec" /\ code[k] = c => k \in dirty'
  BY DEF ExpireMeta, ExpireSeats, locals, Writing
<1>2. SeatsOK'
  <2>1. IsFiniteSet({}) /\ Cardinality({}) = 0
    BY FS_EmptySet
  <2>2. ASSUME NEW d \in Code
        PROVE  IsFiniteSet(members'[d]) /\ Cardinality(members'[d]) <= 2
    <3>1. members'[d] = members[d] \/ members'[d] = {}
      BY <1>1
    <3>2. IsFiniteSet(members[d]) /\ Cardinality(members[d]) <= 2
      BY DEF Seating, SeatsOK
    <3>3. CASE members'[d] = {}
      BY <2>1, <3>3
    <3>4. QED
      BY <3>1, <3>2, <3>3
  <2>3. QED
    BY <2>2 DEF SeatsOK
<1>3. CodesOK'
  BY <1>1 DEF Seating, CodesOK, Proper
<1>4. OneMaker'
  BY <1>1 DEF Seating, OneMaker
<1>5. ASSUME NEW k \in Handler PROVE HandlerOK(k)'
  <2>1. Locals(k)' = Locals(k)
    BY <1>1 DEF Locals
  <2>2. pc[k] \in Making => /\ code[k] \in Code \ known
                            /\ meta[code[k]] # Nil
    BY DEF Seating, HandlerOK
  <2>3. pc[k] \in Making => /\ meta'[code[k]] = meta[code[k]]
                            /\ members'[code[k]] = members[code[k]]
    BY <1>1, <2>2 DEF Writing
  <2>4. pc[k] = "joExec" /\ k \notin dirty' =>
            k \notin dirty /\ members'[code[k]] = members[code[k]]
    <3>1. pc[k] = "joExec" => code[k] \in Code
      BY DEF Seating, HandlerOK, Joining
    <3>2. QED
      BY <1>1, <3>1
  <2>5. QED
    BY <1>1, <2>1, <2>2, <2>3, <2>4, HandlerKept DEF Seating
<1>6. QED
  BY <1>2, <1>3, <1>4, <1>5 DEF Seating

\* Nothing of what Seating speaks of changes.
LEMMA UntouchedStep ==
    ASSUME Seating, UNCHANGED <<pc, cmd, code, view, meta, members, known, dirty>>
    PROVE  Seating'
BY DEF Seating, SeatsOK, CodesOK, OneMaker, HandlerOK, Caller, Full, Proper

LEMMA SeatingStep ==
    ASSUME TypeOK, Seating, [Next]_vars
    PROVE  Seating'
<1>1. ASSUME NEW h \in Handler,
             BeginMake(h) \/ BeginJoin(h) \/ Step(h) \/ Fail(h) \/ CreateBroken(h)
      PROVE  Seating'
  BY <1>1, QuietSteps, ClaimStep, MetaStep, MemberStep, LobbyStep, TakeStep, StartStep
     DEF Step
<1>2. ASSUME Die PROVE Seating'
  <2>1. SeatsOK' /\ CodesOK'
    BY <1>2 DEF Die, keys, Seating, SeatsOK, CodesOK
  <2>2. OneMaker'
    BY <1>2 DEF Die, OneMaker, Making
  <2>3. \A h \in Handler : HandlerOK(h)'
    BY <1>2, IdleOK DEF Die
  <2>4. QED
    BY <2>1, <2>2, <2>3 DEF Seating
<1>3. ASSUME NEW c \in Code, ExpireMeta(c) \/ ExpireSeats(c) PROVE Seating'
  BY <1>3, ExpiryStep
<1>4. ASSUME NEW u \in User, ExpireIndex(u) PROVE Seating'
  BY <1>4, UntouchedStep DEF ExpireIndex, locals
<1>5. ASSUME NEW g \in GameId, EndGame(g) PROVE Seating'
  BY <1>5, UntouchedStep DEF EndGame, keys, locals
<1>6. CASE ExpireLobby
  BY <1>6, UntouchedStep DEF ExpireLobby, locals
<1>7. CASE UNCHANGED vars
  BY <1>7, UntouchedStep DEF vars, keys, locals
<1>8. QED
  BY <1>1, <1>2, <1>3, <1>4, <1>5, <1>6, <1>7 DEF Next, JoinPanic, Crash

-----------------------------------------------------------------------------
(* The theorems. *)

\* The invariant is inductive: whatever the commands in flight have read, what
\* they still rely on holds (Make and Join, internal/pvpchan/manager.go 25-179).
THEOREM ChannelInvariance == Spec => []Inductive
<1>1. Init => Inductive
  <2>1. ASSUME Init PROVE TypeOK
    BY <2>1 DEF Init, TypeOK, PC, Command, NoCmd
  <2>2. ASSUME Init PROVE Seating
    <3>1. IsFiniteSet({}) /\ Cardinality({}) = 0
      BY FS_EmptySet
    <3>2. SeatsOK
      BY <2>2, <3>1 DEF Init, SeatsOK
    <3>3. QED
      BY <2>2, <3>2
         DEF Init, Seating, CodesOK, OneMaker, HandlerOK, Making, Joining, Seated
  <2>3. QED
    BY <2>1, <2>2 DEF Inductive
<1>2. Inductive /\ [Next]_vars => Inductive'
  BY TypeStep, SeatingStep DEF Inductive, Seating
<1>3. QED
  BY <1>1, <1>2, PTL DEF Spec

\* The metadata, the seats, the indexes and the local variables of every
\* command stay within their types, through faults and expiry.
THEOREM ChannelTypeCorrect == Spec => []TypeOK
<1>1. Inductive => TypeOK
  BY DEF Inductive
<1>2. QED
  BY <1>1, ChannelInvariance, PTL

\* However many users race for the last seat of a channel, the transaction of
\* Join (manager.go 101-123) lets one of them have it.
THEOREM NoThirdSeat == Spec => []AtMostTwo
<1>1. Inductive => AtMostTwo
  BY DEF Inductive, Seating, SeatsOK, AtMostTwo
<1>2. QED
  BY <1>1, ChannelInvariance, PTL

-----------------------------------------------------------------------------
(***************************************************************************)
(* That everything said about a game reaches all rooms of its channel      *)
(* (FanOutComplete), for any users, rooms, codes, games and commands.      *)
(*                                                                         *)
(* A join works from a copy of the metadata and writes it back whole, two  *)
(* joins may start a game each, and keys expire one by one.  What keeps    *)
(* the channel and its game together is what a join has done before it     *)
(* writes: it has a seat, its room and its index (SeatHeld), its copy      *)
(* names a creator with a seat (ViewOK), and its game is nobody else's     *)
(* (MadeOK, OneMade).                                                      *)
(***************************************************************************)

\* Game g is between the creator m names and a holder of a seat of c.
Fits(c, m, g) ==
    /\ g \in GameId
    /\ board[g] # Nil
    /\ m.creator \in Players(board[g])
    /\ Players(board[g]) \subseteq members[c]
    /\ board[g].rooms \subseteq rooms[c]

\* The creator has a seat; who joined last can be found by his index.
ChannelOK(c) ==
    c \in known /\ meta[c] # Nil =>
        /\ meta[c].creator \in members[c] /\ meta[c].room \in rooms[c]
        /\ meta[c].state = "ACTIVE" =>
              /\ Fits(c, meta[c], meta[c].game)
              /\ \A u \in Latest(c) : c \in codes[u]

\* Only a channel that was shown to somebody has a game.
GameOK(c) ==
    meta[c] # Nil =>
        /\ meta[c].state = "ACTIVE" => c \in known
        /\ meta[c].state # "ACTIVE" => meta[c].game = Nil

\* No two channels have one game.
OneChannel ==
    \A c, d \in Code : meta[c] # Nil /\ meta[d] # Nil /\ meta[c].game # Nil
                          /\ meta[c].game = meta[d].game => c = d

SeatHeld(h) ==
    pc[h] \in Seated =>
        /\ Caller(h) \in members[code[h]]
        /\ cmd[h].room \in rooms[code[h]]
        /\ code[h] \in codes[Caller(h)]

ViewOK(h) ==
    pc[h] \in Seated \ {"joReload"} /\ view[h] # Nil =>
        view[h].creator \in members[code[h]] /\ view[h].room \in rooms[code[h]]

\* The game a join has created, before the channel names it.
MadeOK(h) ==
    pc[h] = "joMeta" =>
        /\ made[h] \in GameId
        /\ board[made[h]] # Nil
        /\ Players(board[made[h]]) = {view[h].creator, Caller(h)}
        /\ board[made[h]].rooms = {view[h].room, cmd[h].room}
        /\ \A c \in Code : meta[c] # Nil => meta[c].game # made[h]

OneMade == \A h, k \in Handler :
              pc[h] = "joMeta" /\ pc[k] = "joMeta" /\ made[h] = made[k] => h = k

\* A channel that is being made, step by step.
MakerOK(h) ==
    /\ pc[h] \in Making \ {"mkMeta"} => meta[code[h]] = Waiting(Caller(h), cmd[h].room)
    /\ pc[h] \in {"mkMember", "mkIndex", "mkLobby"} => cmd[h].room \in rooms[code[h]]
    /\ pc[h] \in {"mkIndex", "mkLobby"} => Caller(h) \in members[code[h]]
    /\ pc[h] = "mkMeta" => meta[code[h]] = Blank

Belongs(h) == SeatHeld(h) /\ ViewOK(h) /\ MadeOK(h) /\ MakerOK(h)

Together ==
    /\ \A c \in Code : ChannelOK(c) /\ GameOK(c)
    /\ OneChannel
    /\ OneMade
    /\ \A h \in Handler : Belongs(h)

-----------------------------------------------------------------------------
\* What a handler knows by itself.
Mine(k) == <<pc[k], cmd[k], code[k], view[k], made[k]>>

\* Games are only added, and keep their players and rooms.
BoardKept ==
    \A g \in GameId : board[g] # Nil =>
        /\ board'[g] # Nil
        /\ Players(board'[g]) = Players(board[g])
        /\ board'[g].rooms = board[g].rooms

LEMMA IdleBelongs ==
    ASSUME NEW h \in Handler, pc'[h] \in PC \ (Seated \cup Making)
    PROVE  Belongs(h)'
BY DEF Belongs, SeatHeld, ViewOK, MadeOK, MakerOK, Seated, Making

\* What a step of somebody else must leave to a handler.
LEMMA BelongsKept ==
    ASSUME NEW k \in Handler, Belongs(k), Mine(k)' = Mine(k), BoardKept,
           pc[k] \in Seated \cup Making =>
               /\ members[code[k]] \subseteq members'[code[k]]
               /\ rooms[code[k]] \subseteq rooms'[code[k]],
           pc[k] \in Seated => codes[Caller(k)] \subseteq codes'[Caller(k)],
           pc[k] \in Making => meta'[code[k]] = meta[code[k]],
           pc[k] = "joMeta" =>
               \A c \in Code : meta'[c] # Nil => meta'[c].game # made[k]
    PROVE  Belongs(k)'
<1>1. SeatHeld(k)'
  BY DEF Belongs, SeatHeld, Mine, Caller
<1>2. ViewOK(k)'
  BY DEF Belongs, ViewOK, Mine
<1>3. MadeOK(k)'
  BY DEF Belongs, MadeOK, Mine, Caller, BoardKept
<1>4. MakerOK(k)'
  BY DEF Belongs, MakerOK, Mine, Caller, Making
<1>5. QED
  BY <1>1, <1>2, <1>3, <1>4 DEF Belongs

LEMMA ChannelKept ==
    ASSUME TypeOK, NEW c \in Code, ChannelOK(c), BoardKept,
           meta'[c] = meta[c], c \in known' => c \in known,
           c \in known /\ meta[c] # Nil =>
               /\ members[c] \subseteq members'[c]
               /\ rooms[c] \subseteq rooms'[c]
               /\ \A u \in Latest(c) : c \in codes[u] => c \in codes'[u]
    PROVE  ChannelOK(c)'
<1> SUFFICES ASSUME c \in known, meta[c] # Nil,
                    meta[c].state = "ACTIVE"
             PROVE  /\ Fits(c, meta[c], meta[c].game)'
                    /\ \A u \in Latest(c)' : c \in codes'[u]
  BY DEF ChannelOK
<1>1. Fits(c, meta[c], meta[c].game)
  BY DEF ChannelOK
<1>2. Fits(c, meta[c], meta[c].game)'
  BY <1>1 DEF Fits, BoardKept
<1>3. Latest(c)' = Latest(c)
  BY <1>1 DEF Latest, Fits, BoardKept
<1>4. QED
  BY <1>2, <1>3 DEF ChannelOK

\* A step that leaves the metadata alone and takes nothing away.
LEMMA GrowStep ==
    ASSUME TypeOK, Together, BoardKept, UNCHANGED <<meta, known>>,
           \A c \in Code : /\ members[c] \subseteq members'[c]
                           /\ rooms[c] \subseteq rooms'[c],
           \A u \in User : codes[u] \subseteq codes'[u],
           \A k \in Handler : pc[k] # "idle" => Caller(k) \in User,
           \A k \in Handler : pc[k] \in Seated \cup Making => code[k] \in Code,
           \A k \in Handler :
               \/ Mine(k)' = Mine(k)
               \/ /\ Belongs(k)'
                  /\ pc'[k] = "joMeta" =>
                         /\ board[made'[k]] = Nil
                         /\ \A j \in Handler \ {k} : Mine(j)' = Mine(j)
    PROVE  Together'
<1>1. ASSUME NEW c \in Code PROVE ChannelOK(c)'
  <2>1. ChannelOK(c)
    BY DEF Together
  <2>2. c \in known /\ meta[c] # Nil =>
            \A u \in Latest(c) : c \in codes[u] => c \in codes'[u]
    <3>1. SUFFICES ASSUME c \in known, meta[c] # Nil, NEW u \in Latest(c)
                   PROVE  u \in User
      BY <3>1
    <3>2. CASE meta[c].state # "ACTIVE"
      <4>1. meta[c].creator \in members[c]
        BY <3>1, <2>1 DEF ChannelOK
      <4>2. QED
        BY <3>1, <3>2, <4>1 DEF Latest, TypeOK
    <3>3. CASE meta[c].state = "ACTIVE"
      <4>1. Fits(c, meta[c], meta[c].game)
        BY <3>1, <3>3, <2>1 DEF ChannelOK
      <4>2. u \in Players(board[meta[c].game])
        BY <3>1, <3>3, <4>1 DEF Latest, Fits
      <4>3. QED
        BY <4>1, <4>2 DEF Fits, TypeOK
    <3>4. QED
      BY <3>2, <3>3
  <2>3. QED
    BY <2>1, <2>2, ChannelKept
<1>2. (\A c \in Code : GameOK(c))' /\ OneChannel'
  BY DEF Together, GameOK, OneChannel
<1>3. ASSUME NEW k \in Handler PROVE Belongs(k)'
  <2>1. CASE Mine(k)' = Mine(k)
    <3>1. Belongs(k) /\ MadeOK(k)
      BY DEF Together, Belongs
    <3>2. pc[k] = "joMeta" =>
              \A c \in Code : meta'[c] # Nil => meta'[c].game # made[k]
      BY <3>1 DEF MadeOK
    <3>3. pc[k] \in Seated => codes[Caller(k)] \subseteq codes'[Caller(k)]
      BY DEF Seated
    <3>4. QED
      BY <2>1, <3>1, <3>2, <3>3, BelongsKept
  <2>2. QED
    BY <2>1
<1>4. OneMade'
  <2> SUFFICES ASSUME NEW h \in Handler, NEW k \in Handler,
                      pc'[h] = "joMeta", pc'[k] = "joMeta",
                      made'[h] = made'[k], h # k
               PROVE  FALSE
    BY DEF OneMade
  <2>1. \A j \in Handler : pc[j] = "joMeta" => board[made[j]] # Nil
    BY DEF Together, Belongs, MadeOK
  <2>2. CASE Mine(h)' = Mine(h) /\ Mine(k)' = Mine(k)
    BY <2>2 DEF Together, OneMade, Mine
  <2>3. CASE Mine(h)' # Mine(h)
    BY <2>1, <2>3 DEF Mine
  <2>4. CASE Mine(k)' # Mine(k)
    BY <2>1, <2>4 DEF Mine
  <2>5. QED
    BY <2>2, <2>3, <2>4
<1>5. QED
  BY <1>1, <1>2, <1>3, <1>4 DEF Together

\* What Seating gives every step.
LEMMA Owners ==
    ASSUME Seating
    PROVE  /\ \A k \in Handler : pc[k] # "idle" =>
                  Caller(k) \in User /\ cmd[k].room \in Room
           /\ \A k \in Handler : pc[k] \in Making =>
                  code[k] \in Code \ known /\ meta[code[k]] # Nil
           /\ \A k \in Handler : pc[k] \in Joining => code[k] \in known
           /\ \A j, k \in Handler : pc[j] \in Making /\ pc[k] \in Making
                                       /\ code[j] = code[k] => j = k
           /\ \A k \in Handler : pc[k] \in Seated \ {"joReload", "joCount"} =>
                  view[k] # Nil
BY DEF Seating, HandlerOK, OneMaker

\* A step of handler h that leaves the metadata alone and takes nothing away.
LEMMA HandlerGrow ==
    ASSUME TypeOK, Seating, Together, NEW h \in Handler,
           BoardKept, UNCHANGED <<meta, known>>,
           \A c \in Code : /\ members[c] \subseteq members'[c]
                           /\ rooms[c] \subseteq rooms'[c],
           \A u \in User : codes[u] \subseteq codes'[u],
           \A k \in Handler \ {h} : Mine(k)' = Mine(k),
           Belongs(h)',
           pc'[h] = "joMeta" => board[made'[h]] = Nil
    PROVE  Together'
<1>1. \A k \in Handler : pc[k] # "idle" => Caller(k) \in User
  BY Owners
<1>2. \A k \in Handler : pc[k] \in Seated \cup Making => code[k] \in Code
  <2>1. Seated \subseteq Joining /\ known \subseteq Code
    BY DEF Joining, TypeOK
  <2>2. QED
    BY <2>1, Owners
<1>3. QED
  BY <1>1, <1>2, GrowStep

LEMMA SameBoard == ASSUME board' = board PROVE BoardKept
BY DEF BoardKept

LEMMA NewBoardKept ==
    ASSUME TypeOK, NEW h, NEW g \in GameId, NEW b, Created(h, g, b)
    PROVE  BoardKept
BY DEF Created, BoardKept, TypeOK

LEMMA AnswerMine ==
    ASSUME TypeOK, NEW h \in Handler, NEW from, Answer(h, from)
    PROVE  pc'[h] = "idle" /\ Belongs(h)'
              /\ \A k \in Handler \ {h} : Mine(k)' = Mine(k)
<1>1. pc'[h] = "idle" /\ \A k \in Handler \ {h} : Mine(k)' = Mine(k)
  BY DEF TypeOK, Answer, Mine
<1>2. QED
  BY <1>1, IdleBelongs DEF PC, Seated, Making

LEMMA GotoMine ==
    ASSUME TypeOK, NEW h \in Handler, NEW from, NEW to, Goto(h, from, to),
           UNCHANGED <<code, view, made>>
    PROVE  /\ pc[h] = from /\ pc'[h] = to
           /\ UNCHANGED <<cmd, code, view, made>>
           /\ \A k \in Handler \ {h} : Mine(k)' = Mine(k)
BY DEF TypeOK, Goto, Mine

\* A handler that is done, or moves on, having written nothing.
LEMMA AnswerTogether ==
    ASSUME TypeOK, Seating, Together, NEW h \in Handler, NEW from, Answer(h, from),
           BoardKept, UNCHANGED <<meta, members, rooms, codes, known>>
    PROVE  Together'
BY AnswerMine, HandlerGrow

LEMMA GotoTogether ==
    ASSUME TypeOK, Seating, Together, NEW h \in Handler, NEW from, NEW to,
           Goto(h, from, to), UNCHANGED <<code, view, made>>,
           UNCHANGED <<meta, members, rooms, codes, known, board>>,
           \/ from \notin Seated \cup Making /\ to \in PC \ (Seated \cup Making)
           \/ from \in Seated \ {"joReload", "joMeta"} /\ to \in Seated \ {"joReload", "joMeta"}
    PROVE  Together'
<1>1. /\ pc[h] = from /\ pc'[h] = to
      /\ UNCHANGED <<cmd, code, view, made>>
      /\ \A k \in Handler \ {h} : Mine(k)' = Mine(k)
  BY GotoMine
<1>2. Belongs(h)'
  <2>1. CASE to \in PC \ (Seated \cup Making)
    BY <1>1, <2>1, IdleBelongs
  <2>2. CASE /\ from \in Seated \ {"joReload", "joMeta"}
             /\ to \in Seated \ {"joReload", "joMeta"}
    <3>1. Belongs(h)
      BY DEF Together
    <3>2. to \notin Making
      BY <2>2 DEF Seated, Making
    <3>3. SeatHeld(h)' /\ ViewOK(h)'
      BY <1>1, <2>2, <3>1 DEF Belongs, SeatHeld, ViewOK, Caller
    <3>4. MadeOK(h)' /\ MakerOK(h)'
      BY <1>1, <2>2, <3>2 DEF MadeOK, MakerOK, Making
    <3>5. QED
      BY <3>3, <3>4 DEF Belongs
  <2>3. QED
    BY <2>1, <2>2
<1>3. pc'[h] # "joMeta"
  BY <1>1 DEF Seated
<1>4. QED
  BY <1>1, <1>2, <1>3, HandlerGrow, SameBoard

LEMMA BusyTogether ==
    ASSUME TypeOK, Seating, Together, NEW h \in Handler, NEW u, NEW r, NEW from, NEW to,
           BusyCheck(h, u, r, from, to),
           \/ from \notin Seated \cup Making /\ to \in PC \ (Seated \cup Making)
           \/ from \in Seated \ {"joReload", "joMeta"} /\ to \in Seated \ {"joReload", "joMeta"}
    PROVE  Together'
BY AnswerTogether, GotoTogether, SameBoard DEF BusyCheck, keys, locals

\* The steps before a join has its seat, those between its seat and its game,
\* and the last.
LEMMA PlainSteps ==
    ASSUME TypeOK, Seating, Together, NEW h \in Handler,
           \/ BeginMake(h) \/ BeginJoin(h)
           \/ MakeBusy(h) \/ MakeList(h) \/ MakeCheck(h) \/ MakeNoCode(h)
           \/ JoinPre(h) \/ JoinLoad(h) \/ JoinWatch(h) \/ Conflict(h)
           \/ JoinCount(h) \/ JoinBusy(h) \/ JoinBusyCreator(h)
           \/ JoinLobby(h) \/ Fail(h)
    PROVE  Together'
<1> USE SameBoard
<1>1. CASE BeginMake(h) \/ BeginJoin(h)
  <2>1. /\ pc'[h] \in PC \ (Seated \cup Making)
        /\ \A k \in Handler \ {h} : Mine(k)' = Mine(k)
        /\ UNCHANGED <<meta, members, rooms, codes, known, board>>
    BY <1>1 DEF BeginMake, BeginJoin, TypeOK, Mine, PC, Seated, Making, keys, locals
  <2>2. Belongs(h)' /\ pc'[h] # "joMeta"
    BY <2>1, IdleBelongs DEF Seated
  <2>3. QED
    BY <2>1, <2>2, HandlerGrow
<1>2. CASE MakeBusy(h)
  BY <1>2, BusyTogether DEF MakeBusy, PC, Seated, Making
<1>3. CASE MakeList(h)
  BY <1>3, GotoTogether DEF MakeList, keys, PC, Seated, Making
<1>4. CASE MakeCheck(h)
  BY <1>4, AnswerTogether, GotoTogether DEF MakeCheck, keys, PC, Seated, Making
<1>5. CASE MakeNoCode(h)
  BY <1>5, AnswerTogether DEF MakeNoCode, keys
<1>6. CASE JoinPre(h)
  BY <1>6, BusyTogether DEF JoinPre, PC, Seated, Making
<1>7. CASE JoinLoad(h)
  BY <1>7, AnswerTogether, GotoTogether DEF JoinLoad, keys, locals, PC, Seated, Making
<1>8. CASE JoinWatch(h)
  BY <1>8, AnswerTogether, GotoTogether DEF JoinWatch, keys, locals, PC, Seated, Making
<1>9. CASE Conflict(h)
  BY <1>9, AnswerTogether DEF Conflict, keys
<1>10. CASE JoinCount(h)
  BY <1>10, AnswerTogether, GotoTogether DEF JoinCount, keys, locals, Seated
<1>11. CASE JoinBusy(h)
  BY <1>11, BusyTogether DEF JoinBusy, Seated
<1>12. CASE JoinBusyCreator(h)
  BY <1>12, BusyTogether DEF JoinBusyCreator, Seated
<1>13. CASE JoinLobby(h)
  BY <1>13, AnswerTogether DEF JoinLobby
<1>14. CASE Fail(h)
  BY <1>14, AnswerTogether DEF Fail, keys
<1>15. QED
  BY <1>1, <1>2, <1>3, <1>4, <1>5, <1>6, <1>7, <1>8, <1>9, <1>10, <1>11, <1>12,
     <1>13, <1>14

\* Make adds its room, its seat and its index.
LEMMA MakerSteps ==
    ASSUME TypeOK, Seating, Together, NEW h \in Handler,
           MakeRoom(h) \/ MakeMember(h) \/ MakeIndex(h)
    PROVE  Together'
<1>1. Belongs(h) /\ MakerOK(h)
  BY DEF Together, Belongs
<1>2. \E from, to : /\ Goto(h, from, to)
                    /\ from \in {"mkRoom", "mkMember", "mkIndex"}
                    /\ to \in {"mkMember", "mkIndex", "mkLobby"}
  BY DEF MakeRoom, MakeMember, MakeIndex
<1>3. UNCHANGED <<meta, known, board, code, view, made>>
  BY DEF MakeRoom, MakeMember, MakeIndex, locals
<1>4. /\ pc[h] \in {"mkRoom", "mkMember", "mkIndex"}
      /\ pc'[h] \in {"mkMember", "mkIndex", "mkLobby"}
      /\ cmd' = cmd
      /\ \A k \in Handler \ {h} : Mine(k)' = Mine(k)
  BY <1>2, <1>3, GotoMine
<1>5. code[h] \in Code /\ Caller(h) \in User
  BY <1>4, Owners DEF Making
<1>6. /\ \A c \in Code : members[c] \subseteq members'[c] /\ rooms[c] \subseteq rooms'[c]
      /\ \A u \in User : codes[u] \subseteq codes'[u]
  BY DEF MakeRoom, MakeMember, MakeIndex, TypeOK
<1>7. MakerOK(h)'
  <2>1. CASE MakeRoom(h)
    BY <1>1, <1>3, <1>4, <1>5, <2>1 DEF MakeRoom, Goto, MakerOK, Making, Caller, TypeOK
  <2>2. CASE MakeMember(h)
    BY <1>1, <1>3, <1>4, <1>5, <2>2 DEF MakeMember, Goto, MakerOK, Making, Caller, TypeOK
  <2>3. CASE MakeIndex(h)
    BY <1>1, <1>3, <1>4, <1>5, <2>3 DEF MakeIndex, Goto, MakerOK, Making, Caller, TypeOK
  <2>4. QED
    BY <2>1, <2>2, <2>3
<1>8. Belongs(h)'
  BY <1>4, <1>7 DEF Belongs, SeatHeld, ViewOK, MadeOK, Seated
<1>9. QED
  BY <1>3, <1>4, <1>6, <1>8, HandlerGrow, SameBoard

LEMMA TakeTogether ==
    ASSUME TypeOK, Seating, Together, NEW h \in Handler, JoinExec(h)
    PROVE  Together'
<1>1. /\ pc[h] = "joExec" /\ pc'[h] = "joReload"
      /\ UNCHANGED <<meta, known, board, cmd, code, view, made>>
      /\ \A k \in Handler \ {h} : Mine(k)' = Mine(k)
  BY GotoMine DEF JoinExec, Take, locals
<1>2. code[h] \in Code /\ Caller(h) \in User
  BY <1>1, Owners DEF Joining, TypeOK
<1>3. /\ members' = [members EXCEPT ![code[h]] = @ \cup {Caller(h)}]
      /\ rooms'   = [rooms   EXCEPT ![code[h]] = @ \cup {cmd[h].room}]
      /\ codes'   = [codes   EXCEPT ![Caller(h)] = @ \cup {code[h]}]
  BY DEF JoinExec, Take, Seat
<1>4. /\ \A c \in Code : members[c] \subseteq members'[c] /\ rooms[c] \subseteq rooms'[c]
      /\ \A u \in User : codes[u] \subseteq codes'[u]
  BY <1>3 DEF TypeOK
<1>5. SeatHeld(h)'
  BY <1>1, <1>2, <1>3 DEF SeatHeld, Caller, TypeOK
<1>6. Belongs(h)'
  BY <1>1, <1>5 DEF Belongs, ViewOK, MadeOK, MakerOK, Making
<1>7. QED
  BY <1>1, <1>4, <1>6, HandlerGrow, SameBoard

LEMMA ReloadTogether ==
    ASSUME TypeOK, Seating, Together, NEW h \in Handler, JoinReload(h)
    PROVE  Together'
<1>1. /\ pc[h] = "joReload" /\ pc'[h] = "joCount"
      /\ UNCHANGED <<meta, members, codes, known, board, cmd, code, made>>
      /\ view'[h] = meta[code[h]]
      /\ rooms' = [rooms EXCEPT ![code[h]] = @ \cup {cmd[h].room}]
      /\ \A k \in Handler \ {h} : Mine(k)' = Mine(k)
  BY DEF JoinReload, Goto, TypeOK, Mine
<1>2. code[h] \in known /\ code[h] \in Code
  BY <1>1, Owners DEF Joining, Seated, TypeOK
<1>3. \A c \in Code : rooms[c] \subseteq rooms'[c]
  BY <1>1 DEF TypeOK
<1>4. SeatHeld(h)'
  BY <1>1, <1>2, <1>3 DEF Together, Belongs, SeatHeld, Seated, Caller
<1>5. ViewOK(h)'
  BY <1>1, <1>2, <1>3 DEF Together, ChannelOK, ViewOK
<1>6. Belongs(h)'
  BY <1>1, <1>4, <1>5 DEF Belongs, MadeOK, MakerOK, Making
<1>7. QED
  BY <1>1, <1>3, <1>6, HandlerGrow, SameBoard

\* A game is created: nobody else has its id.
LEMMA CreateTogether ==
    ASSUME TypeOK, Seating, Together, NEW h \in Handler,
           JoinCreate(h) \/ CreateBroken(h)
    PROVE  Together'
<1>1. CASE CreateBroken(h)
  <2>1. BoardKept
    BY <1>1, NewBoardKept DEF CreateBroken
  <2>2. QED
    BY <1>1, <2>1, AnswerTogether DEF CreateBroken, keys
<1>2. CASE JoinCreate(h)
  <2>1. PICK g \in GameId, q \in Pairing(h) :
           /\ Created(h, g, NewBoard(h, q[1], q[2], {q[1], q[2]}))
           /\ made' = [made EXCEPT ![h] = g]
    BY <1>2 DEF JoinCreate
  <2> DEFINE b == NewBoard(h, q[1], q[2], {q[1], q[2]})
  <2>2. /\ pc[h] = "joCreate" /\ pc'[h] = "joMeta"
        /\ UNCHANGED <<meta, members, rooms, codes, known, cmd, code, view>>
        /\ made'[h] = g /\ board'[g] = b /\ board[g] = Nil
        /\ \A k \in Handler \ {h} : Mine(k)' = Mine(k)
    BY <1>2, <2>1 DEF JoinCreate, Goto, keys, Created, TypeOK, Mine
  <2>3. BoardKept
    BY <2>1, NewBoardKept
  <2>4. /\ Caller(h) \in User /\ cmd[h].room \in Room
        /\ view[h] # Nil /\ Proper(view[h])
    BY <2>2 DEF Seating, HandlerOK, Seated
  <2>5. /\ Players(b) = {view[h].creator, Caller(h)}
        /\ b.rooms = {view[h].room, cmd[h].room}
    BY DEF Pairing, NewBoard, Players
  <2>6. b # Nil
    <3>1. b \in Board
      BY <2>4 DEF Pairing, NewBoard, Board, Proper
    <3>2. QED
      BY <3>1, NilAssumption
  <2>7. \A c \in Code : meta[c] # Nil => meta[c].game # g
    <3> SUFFICES ASSUME NEW c \in Code, meta[c] # Nil, meta[c].game = g
                 PROVE  FALSE
      OBVIOUS
    <3>1. g # Nil
      BY NilAssumption
    <3>2. meta[c].state = "ACTIVE" /\ c \in known
      BY <3>1 DEF Together, GameOK
    <3>3. board[g] # Nil
      BY <3>2 DEF Together, ChannelOK, Fits
    <3>4. QED
      BY <2>2, <3>3
  <2>8. MadeOK(h)'
    BY <2>2, <2>5, <2>6, <2>7 DEF MadeOK, Caller
  <2>9. SeatHeld(h)' /\ ViewOK(h)'
    BY <2>2 DEF Together, Belongs, SeatHeld, ViewOK, Seated, Caller
  <2>10. Belongs(h)'
    BY <2>2, <2>8, <2>9 DEF Belongs, MakerOK, Making
  <2>11. QED
    BY <2>2, <2>3, <2>10, HandlerGrow
<1>3. QED
  BY <1>1, <1>2

\* Make writes the metadata of a channel nobody knows.
LEMMA MakeTogether ==
    ASSUME TypeOK, Seating, Together, NEW h \in Handler, NEW c \in Code, NEW m \in Meta,
           meta' = [meta EXCEPT ![c] = m], c \notin known, m.game = Nil,
           m.state # "ACTIVE", UNCHANGED <<members, rooms, codes, known, board>>,
           \A k \in Handler \ {h} :
               Mine(k)' = Mine(k) /\ (pc[k] \in Making => code[k] # c),
           MakerOK(h)', pc'[h] \in Making
    PROVE  Together'
<1>1. meta'[c] = m /\ \A d \in Code \ {c} : meta'[d] = meta[d]
  BY DEF TypeOK
<1>2. m # Nil
  BY NilAssumption
<1>3. ASSUME NEW d \in Code PROVE ChannelOK(d)' /\ GameOK(d)'
  <2>1. CASE d = c
    BY <1>1, <1>2, <2>1 DEF ChannelOK, GameOK
  <2>2. CASE d # c
    <3>1. ChannelOK(d)'
      BY <1>1, <2>2, ChannelKept, SameBoard DEF Together
    <3>2. GameOK(d)'
      BY <1>1, <2>2 DEF Together, GameOK
    <3>3. QED
      BY <3>1, <3>2
  <2>3. QED
    BY <2>1, <2>2
<1>4. OneChannel'
  BY <1>1 DEF Together, OneChannel
<1>5. pc'[h] # "joMeta" /\ pc'[h] \notin Seated
  BY DEF Making, Seated
<1>6. OneMade'
  BY <1>5 DEF Together, OneMade, Mine
<1>7. ASSUME NEW k \in Handler \ {h} PROVE Belongs(k)'
  <2>1. Belongs(k) /\ MadeOK(k)
    BY DEF Together, Belongs
  <2>2. pc[k] \in Making => meta'[code[k]] = meta[code[k]]
    BY <1>1, Owners
  <2>3. pc[k] = "joMeta" =>
            \A d \in Code : meta'[d] # Nil => meta'[d].game # made[k]
    BY <1>1, <2>1, NilAssumption DEF MadeOK
  <2>4. QED
    BY <2>1, <2>2, <2>3, BelongsKept, SameBoard
<1>8. Belongs(h)'
  BY <1>5 DEF Belongs, SeatHeld, ViewOK, MadeOK
<1>9. QED
  BY <1>3, <1>4, <1>6, <1>7, <1>8 DEF Together

LEMMA ClaimTogether ==
    ASSUME TypeOK, Seating, Together, NEW h \in Handler, MakeClaim(h)
    PROVE  Together'
<1>1. PICK c \in Code : Free(c) /\ meta' = [meta EXCEPT ![c] = Blank]
                                /\ code' = [code EXCEPT ![h] = c]
  BY DEF MakeClaim
<1>2. /\ pc'[h] = "mkMeta" /\ code'[h] = c
      /\ UNCHANGED <<members, rooms, codes, known, board>>
      /\ \A k \in Handler \ {h} : Mine(k)' = Mine(k)
  BY <1>1 DEF MakeClaim, Goto, TypeOK, Mine
<1>3. meta[c] = Nil /\ c \notin known
  BY <1>1 DEF Free
<1>4. \A k \in Handler \ {h} : pc[k] \in Making => code[k] # c
  BY <1>3, Owners
<1>5. /\ Blank \in Meta /\ Blank.game = Nil /\ Blank.state # "ACTIVE"
      /\ meta'[c] = Blank
  BY <1>1 DEF Blank, Meta, TypeOK
<1>6. MakerOK(h)' /\ pc'[h] \in Making
  BY <1>2, <1>5 DEF MakerOK, Making
<1>7. QED
  BY <1>1, <1>2, <1>3, <1>4, <1>5, <1>6, MakeTogether

LEMMA MetaTogether ==
    ASSUME TypeOK, Seating, Together, NEW h \in Handler, MakeMeta(h)
    PROVE  Together'
<1> DEFINE c == code[h]
<1> DEFINE m == Waiting(Caller(h), cmd[h].room)
<1>1. /\ pc[h] = "mkMeta" /\ pc'[h] = "mkRoom"
      /\ UNCHANGED <<members, rooms, codes, known, board, cmd, code>>
      /\ meta' = [meta EXCEPT ![c] = m]
      /\ \A k \in Handler \ {h} : Mine(k)' = Mine(k)
  BY GotoMine DEF MakeMeta, locals
<1>2. /\ c \in Code /\ c \notin known
      /\ Caller(h) \in User /\ cmd[h].room \in Room
      /\ \A k \in Handler \ {h} : pc[k] \in Making => code[k] # c
  BY <1>1, Owners DEF Making
<1>3. m \in Meta /\ m.game = Nil /\ m.state # "ACTIVE"
  BY <1>2 DEF Waiting, Meta
<1>4. meta'[c] = m
  BY <1>1, <1>2 DEF TypeOK
<1>5. MakerOK(h)' /\ pc'[h] \in Making
  BY <1>1, <1>4 DEF MakerOK, Making, Caller
<1>6. QED
  BY <1>1, <1>2, <1>3, <1>5, MakeTogether

\* The code is shown: its creator has his seat and his room.
LEMMA LobbyTogether ==
    ASSUME TypeOK, Seating, Together, NEW h \in Handler, MakeLobby(h)
    PROVE  Together'
<1> DEFINE c == code[h]
<1>1. /\ pc[h] = "mkLobby" /\ pc'[h] = "idle" /\ Belongs(h)'
      /\ UNCHANGED <<meta, members, rooms, codes, board>>
      /\ known' = known \cup {c}
      /\ \A k \in Handler \ {h} : Mine(k)' = Mine(k)
  BY AnswerMine DEF MakeLobby, Answer
<1>2. /\ meta[c] = Waiting(Caller(h), cmd[h].room)
      /\ cmd[h].room \in rooms[c] /\ Caller(h) \in members[c]
  BY <1>1 DEF Together, Belongs, MakerOK, Making
<1>3. ASSUME NEW d \in Code PROVE ChannelOK(d)'
  <2>1. CASE d = c
    BY <1>1, <1>2, <2>1 DEF ChannelOK, Waiting
  <2>2. CASE d # c
    BY <1>1, <2>2, ChannelKept, SameBoard DEF Together
  <2>3. QED
    BY <2>1, <2>2
<1>4. (\A d \in Code : GameOK(d))' /\ OneChannel'
  BY <1>1 DEF Together, GameOK, OneChannel
<1>5. OneMade'
  BY <1>1 DEF Together, OneMade, Mine
<1>6. ASSUME NEW k \in Handler \ {h} PROVE Belongs(k)'
  <2>1. Belongs(k) /\ MadeOK(k)
    BY DEF Together, Belongs
  <2>2. QED
    BY <1>1, <2>1, BelongsKept, SameBoard DEF MadeOK
<1>7. QED
  BY <1>1, <1>3, <1>4, <1>5, <1>6 DEF Together

\* The copy with the game in it is written over whatever is there.
LEMMA StartTogether ==
    ASSUME TypeOK, Seating, Together, NEW h \in Handler, JoinMeta(h)
    PROVE  Together'
<1>0. PICK c \in Code, v \in Meta, g \in GameId : c = code[h] /\ v = view[h] /\ g = made[h]
  <2>1. pc[h] = "joMeta"
    BY DEF JoinMeta, Goto
  <2>2. code[h] \in Code /\ view[h] \in Meta
    BY <2>1, Owners DEF Joining, Seated, TypeOK
  <2>3. made[h] \in GameId
    BY <2>1 DEF Together, Belongs, MadeOK
  <2>4. QED
    BY <2>2, <2>3
<1>1. /\ pc[h] = "joMeta" /\ pc'[h] = "joLobby"
      /\ UNCHANGED <<members, rooms, codes, known, board>>
      /\ meta' = [meta EXCEPT ![c] = Started(v, g)]
      /\ \A k \in Handler \ {h} : Mine(k)' = Mine(k)
  BY <1>0, GotoMine DEF JoinMeta, locals
<1>2. /\ c \in known /\ c \in Code /\ v \in Meta
  BY <1>0, <1>1, Owners DEF Joining, Seated, TypeOK
<1>3. /\ SeatHeld(h) /\ ViewOK(h) /\ MadeOK(h)
  BY DEF Together, Belongs
<1>4. /\ g \in GameId /\ g # Nil /\ board[g] # Nil
      /\ Players(board[g]) = {v.creator, Caller(h)}
      /\ board[g].rooms = {v.room, cmd[h].room}
      /\ \A d \in Code : meta[d] # Nil => meta[d].game # g
  BY <1>0, <1>1, <1>3, NilAssumption DEF MadeOK
<1>5. /\ Caller(h) \in members[c] /\ cmd[h].room \in rooms[c] /\ c \in codes[Caller(h)]
      /\ v.creator \in members[c] /\ v.room \in rooms[c]
  BY <1>0, <1>1, <1>2, <1>3, NilAssumption DEF SeatHeld, ViewOK, Seated
<1>6. /\ meta'[c] = Started(v, g)
      /\ \A d \in Code \ {c} : meta'[d] = meta[d]
  BY <1>1, <1>2 DEF TypeOK
<1>7. /\ Started(v, g).state = "ACTIVE" /\ Started(v, g).game = g
      /\ Started(v, g).creator = v.creator /\ Started(v, g).room = v.room
      /\ Started(v, g) # Nil
  <2>1. Started(v, g) \in Meta
    BY <1>2, <1>4 DEF Started, Meta
  <2>2. QED
    BY <1>2, <1>4, <2>1, NilAssumption DEF Started, Meta
<1>8. ChannelOK(c)'
  <2>1. \A u \in Latest(c)' : u = Caller(h)
    BY <1>1, <1>4, <1>6, <1>7 DEF Latest
  <2>2. Fits(c, meta[c], meta[c].game)'
    BY <1>1, <1>4, <1>5, <1>6, <1>7 DEF Fits
  <2>3. QED
    BY <1>1, <1>5, <1>6, <1>7, <2>1, <2>2 DEF ChannelOK
<1>9. ASSUME NEW d \in Code PROVE ChannelOK(d)' /\ GameOK(d)'
  <2>1. CASE d = c
    BY <1>1, <1>2, <1>6, <1>7, <1>8, <2>1 DEF GameOK
  <2>2. CASE d # c
    <3>1. ChannelOK(d)'
      BY <1>1, <1>6, <2>2, ChannelKept, SameBoard DEF Together
    <3>2. GameOK(d)'
      BY <1>1, <1>6, <2>2 DEF Together, GameOK
    <3>3. QED
      BY <3>1, <3>2
  <2>3. QED
    BY <2>1, <2>2
<1>10. OneChannel'
  BY <1>4, <1>6, <1>7 DEF Together, OneChannel
<1>11. OneMade'
  BY <1>1 DEF Together, OneMade, Mine
<1>12. ASSUME NEW k \in Handler \ {h} PROVE Belongs(k)'
  <2>1. Belongs(k) /\ MadeOK(k)
    BY DEF Together, Belongs
  <2>2. pc[k] \in Making => code[k] \in Code \ {c}
    BY <1>2, Owners
  <2>3. pc[k] = "joMeta" => made[k] # g
    BY <1>0, <1>1 DEF Together, OneMade
  <2>4. pc[k] = "joMeta" =>
            \A d \in Code : meta'[d] # Nil => meta'[d].game # made[k]
    BY <1>6, <1>7, <2>1, <2>3 DEF MadeOK
  <2>5. QED
    BY <1>1, <1>6, <2>1, <2>2, <2>4, BelongsKept, SameBoard
<1>13. Belongs(h)'
  BY <1>1, IdleBelongs DEF PC, Seated, Making
<1>14. QED
  BY <1>9, <1>10, <1>11, <1>12, <1>13 DEF Together

\* Keys expire.
LEMMA ExpiryTogether ==
    ASSUME TypeOK, Seating, Together, NEW c \in Code, ExpireMeta(c) \/ ExpireSeats(c)
    PROVE  Together'
<1>1. /\ UNCHANGED <<codes, known, board, pc, cmd, code, view, made>>
      /\ \A d \in Code \ {c} : /\ meta'[d] = meta[d]
                               /\ members'[d] = members[d]
                               /\ rooms'[d] = rooms[d]
      /\ meta'[c] = Nil
      /\ \/ /\ members' = members /\ rooms' = rooms
            /\ ~Writing(c, Making)
         \/ /\ meta[c] = Nil
            /\ ~Writing(c, Seated)
  BY DEF ExpireMeta, ExpireSeats, locals, Writing, TypeOK
<1>2. ASSUME NEW d \in Code PROVE ChannelOK(d)' /\ GameOK(d)'
  <2>1. CASE d = c
    BY <1>1, <2>1 DEF ChannelOK, GameOK
  <2>2. CASE d # c
    <3>1. ChannelOK(d)'
      BY <1>1, <2>2, ChannelKept, SameBoard DEF Together
    <3>2. GameOK(d)'
      BY <1>1, <2>2 DEF Together, GameOK
    <3>3. QED
      BY <3>1, <3>2
  <2>3. QED
    BY <2>1, <2>2
<1>3. OneChannel'
  BY <1>1 DEF Together, OneChannel
<1>4. OneMade'
  BY <1>1 DEF Together, OneMade
<1>5. ASSUME NEW k \in Handler PROVE Belongs(k)'
  <2>1. Belongs(k) /\ MadeOK(k)
    BY DEF Together, Belongs
  <2>2. /\ pc[k] \in Making => code[k] \in Code \ {c}
    BY <1>1, Owners DEF Writing
  <2>3. pc[k] \in Seated => code[k] \in Code
    BY Owners DEF Joining, TypeOK
  <2>4. pc[k] \in Seated \cup Making =>
            /\ members[code[k]] \subseteq members'[code[k]]
            /\ rooms[code[k]] \subseteq rooms'[code[k]]
    BY <1>1, <2>2, <2>3 DEF Writing
  <2>5. pc[k] = "joMeta" =>
            \A d \in Code : meta'[d] # Nil => meta'[d].game # made[k]
    BY <1>1, <2>1 DEF MadeOK
  <2>6. Mine(k)' = Mine(k)
    BY <1>1 DEF Mine
  <2>7. QED
    BY <1>1, <2>1, <2>2, <2>4, <2>5, <2>6, BelongsKept, SameBoard
<1>6. QED
  BY <1>2, <1>3, <1>4, <1>5 DEF Together

LEMMA IndexTogether ==
    ASSUME TypeOK, Seating, Together, NEW u \in User, ExpireIndex(u)
    PROVE  Together'
<1>1. /\ UNCHANGED <<meta, members, rooms, known, board, pc, cmd, code, view, made>>
      /\ codes' = [codes EXCEPT ![u] = {}]
      /\ \A c \in codes[u] : u \notin Latest(c)
      /\ \A h \in Handler : Caller(h) = u => pc[h] \notin Seated
  BY DEF ExpireIndex, locals
<1>2. ASSUME NEW c \in Code PROVE ChannelOK(c)'
  <2>1. \A w \in Latest(c) : c \in codes[w] => w # u
    BY <1>1
  <2>2. \A w : w # u => codes'[w] = codes[w]
    BY <1>1 DEF TypeOK
  <2>3. QED
    BY <1>1, <2>1, <2>2, ChannelKept, SameBoard DEF Together
<1>3. (\A c \in Code : GameOK(c))' /\ OneChannel' /\ OneMade'
  BY <1>1 DEF Together, GameOK, OneChannel, OneMade
<1>4. ASSUME NEW k \in Handler PROVE Belongs(k)'
  <2>1. Belongs(k) /\ MadeOK(k)
    BY DEF Together, Belongs
  <2>2. pc[k] \in Seated => codes'[Caller(k)] = codes[Caller(k)]
    <3>1. pc[k] \in Seated => Caller(k) \in User \ {u}
      BY <1>1, Owners DEF Seated
    <3>2. QED
      BY <1>1, <3>1 DEF TypeOK
  <2>3. Mine(k)' = Mine(k)
    BY <1>1 DEF Mine
  <2>4. QED
    BY <1>1, <2>1, <2>2, <2>3, BelongsKept, SameBoard DEF MadeOK
<1>5. QED
  BY <1>2, <1>3, <1>4 DEF Together

\* The rest changes nothing the invariant speaks of, or ends all handlers.
LEMMA OtherSteps ==
    ASSUME TypeOK, Seating, Together,
           \/ Die \/ ExpireLobby \/ UNCHANGED vars
           \/ \E g \in GameId : EndGame(g)
    PROVE  Together'
<1>1. UNCHANGED <<meta, members, rooms, codes, known>>
  BY DEF Die, ExpireLobby, EndGame, vars, keys
<1>2. BoardKept
  <2>1. CASE Die \/ ExpireLobby \/ UNCHANGED vars
    BY <2>1, SameBoard DEF Die, ExpireLobby, vars
  <2>2. ASSUME NEW g \in GameId, EndGame(g) PROVE BoardKept
    <3>1. board[g] \in Board /\ board' = [board EXCEPT ![g].active = FALSE]
      BY <2>2 DEF EndGame, TypeOK
    <3>2. /\ board'[g] \in Board
          /\ board'[g].white = board[g].white /\ board'[g].black = board[g].black
          /\ board'[g].rooms = board[g].rooms
          /\ \A f \in GameId \ {g} : board'[f] = board[f]
      BY <3>1 DEF Board, TypeOK
    <3>3. QED
      BY <3>2, NilAssumption DEF BoardKept, Players
  <2>3. QED
    BY <2>1, <2>2
<1>3. \A k \in Handler : Mine(k)' = Mine(k) \/ (Belongs(k)' /\ pc'[k] # "joMeta")
  <2>1. CASE Die
    BY <2>1, IdleBelongs DEF Die, PC, Seated, Making
  <2>2. CASE ~Die
    BY <2>2 DEF ExpireLobby, EndGame, vars, locals, Mine
  <2>3. QED
    BY <2>1, <2>2
<1>4. \A k \in Handler : pc[k] \in Seated \cup Making => code[k] \in Code
  <2>1. Seated \subseteq Joining /\ known \subseteq Code
    BY DEF Joining, TypeOK
  <2>2. QED
    BY <2>1, Owners
<1>5. QED
  BY <1>1, <1>2, <1>3, <1>4, Owners, GrowStep

\* A channel and its game stay together, whatever races and expires
\* (Make and Join, internal/pvpchan/manager.go 25-179).
THEOREM TogetherAlways == Spec => []Together
<1>1. Init => Together
  BY DEF Init, Together, ChannelOK, GameOK, OneChannel, OneMade, Belongs, SeatHeld,
         ViewOK, MadeOK, MakerOK, Seated, Making
<1>2. Inductive /\ Together /\ [Next]_vars => Together'
  <2> SUFFICES ASSUME TypeOK, Seating, Together, [Next]_vars PROVE Together'
    BY DEF Inductive
  <2>1. ASSUME NEW h \in Handler,
               BeginMake(h) \/ BeginJoin(h) \/ Step(h) \/ Fail(h) \/ CreateBroken(h)
        PROVE  Together'
    BY <2>1, PlainSteps, MakerSteps, TakeTogether, ReloadTogether, CreateTogether,
       ClaimTogether, MetaTogether, LobbyTogether, StartTogether DEF Step
  <2>2. ASSUME NEW c \in Code, ExpireMeta(c) \/ ExpireSeats(c) PROVE Together'
    BY <2>2, ExpiryTogether
  <2>3. ASSUME NEW u \in User, ExpireIndex(u) PROVE Together'
    BY <2>3, IndexTogether
  <2>4. QED
    BY <2>1, <2>2, <2>3, OtherSteps DEF Next, JoinPanic, Crash
<1>3. QED
  BY <1>1, <1>2, ChannelInvariance, PTL DEF Spec

\* What is said about a game reaches every room somebody made or joined its
\* channel from, whoever else joined, whatever has expired
\* (MetaByGame, manager.go:181; fanoutRooms, cmd/chess-bot/main.go:1150).
THEOREM EveryRoomTold == Spec => []FanOutComplete
<1>1. ASSUME TypeOK, Together PROVE FanOutComplete
  <2> SUFFICES ASSUME NEW c \in Code, Underway(c)
               PROVE  LET g == meta[c].game IN
                      /\ g # Nil /\ board[g] # Nil
                      /\ meta[c].creator \in Players(board[g])
                      /\ Players(board[g]) \subseteq members[c]
                      /\ MetaByGame(g) = {c}
                      /\ FanOut(g) = rooms[c]
    BY DEF FanOutComplete
  <2> DEFINE g == meta[c].game
  <2>1. /\ meta[c] # Nil /\ meta[c].state = "ACTIVE" /\ c \in known
    BY <1>1 DEF Underway, Together, GameOK
  <2>2. /\ Fits(c, meta[c], g)
        /\ \A u \in Latest(c) : c \in codes[u]
    BY <1>1, <2>1 DEF Together, ChannelOK
  <2>3. g \in GameId /\ g # Nil /\ board[g] # Nil
    BY <2>2, NilAssumption DEF Fits
  <2>4. \E u \in Players(board[g]) : c \in codes[u]
    <3>1. \E u \in Latest(c) : u \in Players(board[g])
      BY <2>1, <2>2 DEF Latest, Fits
    <3>2. QED
      BY <2>2, <3>1
  <2>5. \A d \in UNION {codes[u] : u \in Players(board[g])} : d \in Code
    BY <1>1, <2>3 DEF TypeOK, Board, Players
  <2>6. MetaByGame(g) = {c}
    <3>1. \A d \in MetaByGame(g) : d = c
      BY <1>1, <2>1, <2>3, <2>5 DEF MetaByGame, Together, OneChannel
    <3>2. c \in MetaByGame(g)
      BY <2>1, <2>4 DEF MetaByGame
    <3>3. QED
      BY <3>1, <3>2
  <2>7. FanOut(g) = rooms[c]
    BY <2>2, <2>6 DEF FanOut, Fits
  <2>8. QED
    BY <2>2, <2>3, <2>6, <2>7 DEF Fits
<1>2. Inductive => TypeOK
  BY DEF Inductive
<1>3. QED
  BY <1>1, <1>2, ChannelInvariance, TogetherAlways, PTL

=============================================================================
