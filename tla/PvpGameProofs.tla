--------------------------- MODULE PvpGameProofs ---------------------------
(***************************************************************************)
(* Theorems about PvpGame for any number of users, rooms, games, handlers  *)
(* and moves, with every fault enabled.                                    *)
(***************************************************************************)
EXTENDS PvpGame, TLAPS

-----------------------------------------------------------------------------
(* What the steps on one record return. *)

\* A fresh game is a game record.
LEMMA NewGameType ==
    ASSUME NEW w \in User, NEW b \in User, NEW rooms \in SUBSET Room
    PROVE  NewGame(w, b, rooms) \in GameRecord
  BY DEF NewGame, GameRecord, Status, Color, White, Black, Ply

\* Whatever the library makes of the position, a legal move leads from game
\* records to game records.
LEMMA PlayedType ==
    ASSUME NEW r \in GameRecord, NEW u \in User, NEW end \in Endings
    PROVE  Played(r, u, end) \in GameRecord
  <1> DEFINE next == [r EXCEPT !.moves = Append(@, [by |-> u, legal |-> TRUE]),
                               !.turn  = SideAfter(Len(r.moves) + 1)]
             mover == SideAfter(Len(r.moves))
  <1>1. mover \in Color /\ SideAfter(Len(r.moves) + 1) \in Color
    BY DEF SideAfter, Color
  <1>2. Append(r.moves, [by |-> u, legal |-> TRUE]) \in Seq(Ply)
    <2>1. r.moves \in Seq(Ply)
      BY DEF GameRecord
    <2>2. [by |-> u, legal |-> TRUE] \in Ply
      BY DEF Ply
    <2> QED
      BY <2>1, <2>2
  <1>3. next \in GameRecord
    BY <1>1, <1>2 DEF GameRecord
  <1>4. PlayerOf(r, mover) \in User
    BY DEF PlayerOf, GameRecord
  <1>5. CASE end = "open"
    BY <1>3, <1>5 DEF Played
  <1>6. CASE end = "mate"
    <2>1. Played(r, u, end) = [next EXCEPT !.status  = "FINISHED",
                                           !.winner  = PlayerOf(r, mover),
                                           !.outcome = mover]
      BY <1>6 DEF Played
    <2>2. mover \in {"", "white", "black", "draw", "resign"}
      BY <1>1 DEF Color, White, Black
    <2> HIDE DEF next, mover
    <2> QED
      BY <1>3, <1>4, <2>1, <2>2 DEF GameRecord, Status
  <1>7. CASE end = "draw"
    <2>1. Played(r, u, end) = [next EXCEPT !.status = "DRAW", !.outcome = "draw"]
      BY <1>7 DEF Played
    <2> HIDE DEF next
    <2> QED
      BY <1>3, <2>1 DEF GameRecord, Status
  <1> QED
    BY <1>5, <1>6, <1>7 DEF Endings

\* The same for an entry the position does not allow.
LEMMA MisplayedType ==
    ASSUME NEW r \in GameRecord, NEW u \in User
    PROVE  Misplayed(r, u) \in GameRecord
  <1>1. SideAfter(Len(r.moves)) \in Color
    BY DEF SideAfter, Color
  <1>2. Append(r.moves, [by |-> u, legal |-> FALSE]) \in Seq(Ply)
    <2>1. r.moves \in Seq(Ply)
      BY DEF GameRecord
    <2>2. [by |-> u, legal |-> FALSE] \in Ply
      BY DEF Ply
    <2> QED
      BY <2>1, <2>2
  <1> QED
    BY <1>1, <1>2 DEF Misplayed, GameRecord

\* The same for a resignation, by whomever.
LEMMA ResignedType ==
    ASSUME NEW r \in GameRecord, NEW u
    PROVE  Resigned(r, u) \in GameRecord
  <1>1. OpponentID(r, u) \in User \cup {NoOne}
    BY DEF OpponentID, GameRecord
  <1> QED
    BY <1>1 DEF Resigned, GameRecord, Status

\* Every game record has a row.
LEMMA RowType ==
    ASSUME NEW r \in GameRecord
    PROVE  RowOf(r) \in ResultRow
  <1>1. Result(r) \in {"", "white", "black", "draw"}
    BY DEF Result, GameRecord, White, Black
  <1> QED
    BY <1>1 DEF RowOf, ResultRow, GameRecord

-----------------------------------------------------------------------------
(* Types, and the locals a handler has at each of its steps. *)

\* The step that makes a draft keeps types and locals, whatever game record
\* the draft is.
LEMMA DraftBasic ==
    ASSUME NEW h \in Handler, NEW r \in GameRecord,
           TypeOK, LocalsOK, Draft(h, r)
    PROVE  TypeOK' /\ LocalsOK'
  <1>1. r # Nil
    BY NilAssumption
  <1>2. TypeOK'
    BY DEF TypeOK, Draft, Goto, stores, PC
  <1>3. LocalsOK'
    BY <1>1 DEF LocalsOK, TypeOK, Draft, Goto, stores
  <1> QED
    BY <1>2, <1>3

\* Types and locals are kept by every step of the system, faults included.
LEMMA BasicStep ==
    ASSUME TypeOK, LocalsOK, [Next]_vars
    PROVE  TypeOK' /\ LocalsOK'
  <1> USE DEF PC, Reply
  <1>1. ASSUME NEW h \in Handler, Begin(h)
        PROVE  TypeOK' /\ LocalsOK'
    <2>1. TypeOK'
      BY <1>1 DEF TypeOK, LocalsOK, Begin, Goto, Op, Command, stores
    <2>2. LocalsOK'
      BY <1>1 DEF TypeOK, LocalsOK, Begin, Goto, Op, Command, stores
    <2> QED
      BY <2>1, <2>2
  <1>2. ASSUME NEW h \in Handler, Challenge(h)
        PROVE  TypeOK' /\ LocalsOK'
    <2>1. PICK w \in User, b \in User, o \in Room, r \in Room :
              draft' = [draft EXCEPT ![h] = NewGame(w, b, {o, r})]
      BY <1>2 DEF Challenge
    <2>2. /\ NewGame(w, b, {o, r}) \in GameRecord
          /\ NewGame(w, b, {o, r}).white = w
          /\ NewGame(w, b, {o, r}).black = b
      BY NewGameType DEF NewGame
    <2>3. NewGame(w, b, {o, r}) # Nil
      BY <2>2, NilAssumption
    <2>4. TypeOK'
      BY <1>2, <2>1, <2>2 DEF TypeOK, Challenge, Goto, stores
    <2>5. LocalsOK'
      <3>1. {o, r} \in SUBSET Room
        OBVIOUS
      <3> QED
        BY <1>2, <2>1, <2>2, <2>3, <3>1 DEF TypeOK, LocalsOK, Challenge, Goto, stores
    <2> QED
      BY <2>4, <2>5
  <1>3. ASSUME NEW h \in Handler, SaveGame(h)
        PROVE  TypeOK' /\ LocalsOK'
    <2>1. TypeOK'
      <3>1. PICK g \in GameId \ used :
                /\ game'   = [game EXCEPT ![g] = draft[h]]
                /\ used'   = used \cup {g}
                /\ target' = [target EXCEPT ![h] = g]
        BY <1>3 DEF SaveGame
      <3>2. draft[h] \in GameRecord \cup {Nil}
        BY DEF TypeOK
      <3> QED
        BY <1>3, <3>1, <3>2 DEF TypeOK, SaveGame, Goto
    <2>2. LocalsOK'
      BY <1>3, NilAssumption DEF TypeOK, LocalsOK, SaveGame, Goto
    <2> QED
      BY <2>1, <2>2
  <1>4. ASSUME NEW h \in Handler, IndexWhite(h)
        PROVE  TypeOK' /\ LocalsOK'
    <2>1. TypeOK'
      BY <1>4 DEF TypeOK, LocalsOK, IndexWhite, IndexPlayer, Continue, Goto, GameRecord
    <2>2. LocalsOK'
      BY <1>4 DEF TypeOK, LocalsOK, IndexWhite, IndexPlayer, Continue, Goto, GameRecord
    <2> QED
      BY <2>1, <2>2
  <1>5. ASSUME NEW h \in Handler, IndexBlack(h)
        PROVE  TypeOK' /\ LocalsOK'
    <2>1. TypeOK'
      BY <1>5 DEF TypeOK, LocalsOK, IndexBlack, IndexPlayer, Answer, Goto, GameRecord
    <2>2. LocalsOK'
      BY <1>5 DEF TypeOK, LocalsOK, IndexBlack, IndexPlayer, Answer, Goto, GameRecord
    <2> QED
      BY <2>1, <2>2
  <1>6. ASSUME NEW h \in Handler, List(h)
        PROVE  TypeOK' /\ LocalsOK'
    <2>1. TypeOK'
      BY <1>6 DEF TypeOK, LocalsOK, List, Goto, stores
    <2>2. LocalsOK'
      BY <1>6 DEF TypeOK, LocalsOK, List, Goto, stores
    <2> QED
      BY <2>1, <2>2
  <1>7. ASSUME NEW h \in Handler, Select(h)
        PROVE  TypeOK' /\ LocalsOK'
    <2>1. TypeOK'
      <3>1. PICK g \in found[h] :
                /\ game[g] # Nil
                /\ target' = [target EXCEPT ![h] = g]
                /\ seen'   = [seen EXCEPT ![h] = Len(game[g].moves)]
        BY <1>7 DEF Select, Candidate
      <3>2. g \in GameId
        BY DEF TypeOK
      <3>3. game[g].moves \in Seq(Ply)
        BY <3>1, <3>2 DEF TypeOK, GameRecord
      <3>4. Len(game[g].moves) \in Nat
        BY <3>3
      <3> QED
        BY <1>7, <3>1, <3>2, <3>4 DEF TypeOK, Select, Goto, stores
    <2>2. LocalsOK'
      <3>1. PICK g \in found[h] : target' = [target EXCEPT ![h] = g]
        BY <1>7 DEF Select
      <3>2. g \in GameId /\ g # Nil
        BY NilAssumption DEF TypeOK
      <3> QED
        BY <1>7, <3>1, <3>2 DEF TypeOK, LocalsOK, Select, Goto, stores
    <2> QED
      BY <2>1, <2>2
  <1>8. ASSUME NEW h \in Handler, NoneFound(h)
        PROVE  TypeOK' /\ LocalsOK'
    <2>1. TypeOK'
      BY <1>8 DEF TypeOK, LocalsOK, NoneFound, Answer, Goto, stores
    <2>2. LocalsOK'
      BY <1>8 DEF TypeOK, LocalsOK, NoneFound, Answer, Goto, stores
    <2> QED
      BY <2>1, <2>2
  <1>9. ASSUME NEW h \in Handler, Watch(h)
        PROVE  TypeOK' /\ LocalsOK'
    <2>1. TypeOK'
      BY <1>9 DEF TypeOK, LocalsOK, Watch, Goto, stores
    <2>2. LocalsOK'
      BY <1>9 DEF TypeOK, LocalsOK, Watch, Goto, stores
    <2> QED
      BY <2>1, <2>2
  <1>10. ASSUME NEW h \in Handler, RefuseMove(h)
        PROVE  TypeOK' /\ LocalsOK'
    <2>1. TypeOK'
      BY <1>10 DEF TypeOK, LocalsOK, RefuseMove, Refuse, Answer, Goto, stores
    <2>2. LocalsOK'
      BY <1>10 DEF TypeOK, LocalsOK, RefuseMove, Refuse, Answer, Goto, stores
    <2> QED
      BY <2>1, <2>2
  <1>11. ASSUME NEW h \in Handler, DraftMove(h)
        PROVE  TypeOK' /\ LocalsOK'
    <2> DEFINE r == Current(h)
    <2>1. r \in GameRecord /\ cmd[h].user \in User
      BY <1>11 DEF TypeOK, LocalsOK, DraftMove, Current
    <2>2. ASSUME NEW end \in Endings, Draft(h, Played(r, cmd[h].user, end))
          PROVE  TypeOK' /\ LocalsOK'
      BY <2>1, <2>2, PlayedType, DraftBasic
    <2>3. CASE Draft(h, Misplayed(r, cmd[h].user))
      BY <2>1, <2>3, MisplayedType, DraftBasic
    <2> QED
      BY <1>11, <2>2, <2>3 DEF DraftMove
  <1>12. ASSUME NEW h \in Handler, RefuseResign(h)
        PROVE  TypeOK' /\ LocalsOK'
    <2>1. TypeOK'
      BY <1>12 DEF TypeOK, LocalsOK, RefuseResign, Refuse, Answer, Goto, stores
    <2>2. LocalsOK'
      BY <1>12 DEF TypeOK, LocalsOK, RefuseResign, Refuse, Answer, Goto, stores
    <2> QED
      BY <2>1, <2>2
  <1>13. ASSUME NEW h \in Handler, DraftResign(h)
        PROVE  TypeOK' /\ LocalsOK'
    <2>1. Current(h) \in GameRecord
      BY <1>13 DEF TypeOK, LocalsOK, DraftResign, Current
    <2> QED
      BY <1>13, <2>1, ResignedType, DraftBasic DEF DraftResign
  <1>14. ASSUME NEW h \in Handler, Conflict(h)
        PROVE  TypeOK' /\ LocalsOK'
    <2>1. TypeOK'
      BY <1>14 DEF TypeOK, LocalsOK, Conflict, Answer, Goto, stores
    <2>2. LocalsOK'
      BY <1>14 DEF TypeOK, LocalsOK, Conflict, Answer, Goto, stores
    <2> QED
      BY <2>1, <2>2
  <1>15. ASSUME NEW h \in Handler, Exec(h)
        PROVE  TypeOK' /\ LocalsOK'
    <2>1. TypeOK'
      BY <1>15 DEF TypeOK, LocalsOK, Exec, Commit, Touch, Continue, Answer, Goto
    <2>2. LocalsOK'
      BY <1>15 DEF TypeOK, LocalsOK, Exec, Commit, Touch, Continue, Answer, Goto
    <2> QED
      BY <2>1, <2>2
  <1>16. ASSUME NEW h \in Handler, Persist(h)
        PROVE  TypeOK' /\ LocalsOK'
    <2>1. TypeOK'
      BY <1>16, RowType DEF TypeOK, LocalsOK, Persist, Answer, Goto
    <2>2. LocalsOK'
      BY <1>16 DEF TypeOK, LocalsOK, Persist, Answer, Goto
    <2> QED
      BY <2>1, <2>2
  <1>17. ASSUME NEW h \in Handler, Return(h)
        PROVE  TypeOK' /\ LocalsOK'
    <2>1. TypeOK'
      BY <1>17 DEF TypeOK, LocalsOK, Return, Goto, NoCmd, Op, Command, stores
    <2>2. LocalsOK'
      BY <1>17 DEF TypeOK, LocalsOK, Return, Goto, NoCmd, Op, Command, stores
    <2> QED
      BY <2>1, <2>2
  <1>18. ASSUME NEW h \in Handler, Fail(h)
        PROVE  TypeOK' /\ LocalsOK'
    <2>1. TypeOK'
      BY <1>18 DEF TypeOK, LocalsOK, Fail, Answer, Goto, stores
    <2>2. LocalsOK'
      BY <1>18 DEF TypeOK, LocalsOK, Fail, Answer, Goto, stores
    <2> QED
      BY <2>1, <2>2
  <1>19. ASSUME NEW h \in Handler, ExecLost(h)
        PROVE  TypeOK' /\ LocalsOK'
    <2>1. TypeOK'
      BY <1>19 DEF TypeOK, LocalsOK, ExecLost, Commit, Touch, Answer, Goto
    <2>2. LocalsOK'
      BY <1>19 DEF TypeOK, LocalsOK, ExecLost, Commit, Touch, Answer, Goto
    <2> QED
      BY <2>1, <2>2
  <1>20. ASSUME NEW h \in Handler, PersistFail(h)
        PROVE  TypeOK' /\ LocalsOK'
    <2>1. TypeOK'
      BY <1>20 DEF TypeOK, LocalsOK, PersistFail, Answer, Goto, stores
    <2>2. LocalsOK'
      BY <1>20 DEF TypeOK, LocalsOK, PersistFail, Answer, Goto, stores
    <2> QED
      BY <2>1, <2>2
  <1>21. CASE Crash
    BY <1>21 DEF TypeOK, LocalsOK, Crash, NoCmd, Op, Command, stores
  <1>22. ASSUME NEW g \in GameId, ExpireGame(g)
        PROVE  TypeOK' /\ LocalsOK'
    BY <1>22 DEF TypeOK, LocalsOK, ExpireGame
  <1>23. ASSUME NEW u \in User, ExpireIndex(u)
        PROVE  TypeOK' /\ LocalsOK'
    BY <1>23 DEF TypeOK, LocalsOK, ExpireIndex
  <1>24. CASE UNCHANGED vars
    BY <1>24 DEF TypeOK, LocalsOK, vars
  <1> QED
    BY <1>1, <1>2, <1>3, <1>4, <1>5, <1>6, <1>7, <1>8, <1>9, <1>10, <1>11, <1>12, <1>13, <1>14, <1>15, <1>16, <1>17, <1>18, <1>19, <1>20, <1>21, <1>22, <1>23, <1>24 DEF Next, Step

\* Every state of the program has its type, and the initial state is one.
THEOREM TypeCorrect == Spec => []TypeOK
  <1>1. Init => TypeOK /\ LocalsOK
    BY DEF Init, TypeOK, LocalsOK, PC, Reply, Op, Command, NoCmd
  <1>2. TypeOK /\ LocalsOK /\ [Next]_vars => (TypeOK /\ LocalsOK)'
    BY BasicStep
  <1> QED
    BY <1>1, <1>2, PTL DEF Spec

-----------------------------------------------------------------------------
(* What a handler may write over a sound record is a sound record. *)

Sound(r) == InTurns(r) /\ JustVerdict(r) /\ TurnOK(r)

\* A move or an entry of the player to move keeps the order of the moves.
LEMMA AppendInTurns ==
    ASSUME NEW r \in GameRecord, NEW u \in User, NEW legal \in BOOLEAN,
           NEW d \in GameRecord,
           Match!MayMove(r, u), InTurns(r),
           d.moves = Append(r.moves, [by |-> u, legal |-> legal]),
           d.white = r.white, d.black = r.black
    PROVE  /\ InTurns(d)
           /\ Len(d.moves) = Len(r.moves) + 1
           /\ d.moves[Len(d.moves)] = [by |-> u, legal |-> legal]
           /\ Len(r.moves) \in Nat
  <1>1. r.moves \in Seq(Ply) /\ Len(r.moves) \in Nat
    <2>1. r.moves \in Seq(Ply)
      BY DEF GameRecord
    <2> QED
      BY <2>1
  <1>2. [by |-> u, legal |-> legal] \in Ply
    BY DEF Ply
  <1>3. /\ Len(d.moves) = Len(r.moves) + 1
        /\ d.moves[Len(d.moves)] = [by |-> u, legal |-> legal]
        /\ \A i \in 1..Len(r.moves) : d.moves[i] = r.moves[i]
    BY <1>1, <1>2
  <1>4. ASSUME NEW i \in 1..Len(d.moves)
        PROVE  /\ d.moves[i].by = PlayerOf(d, SideAfter(i - 1))
               /\ i < Len(d.moves) => d.moves[i].legal
    <2>1. CASE i = Len(d.moves)
      <3>1. i - 1 = Len(r.moves)
        BY <1>1, <1>3, <2>1
      <3>2. u = PlayerOf(r, SideAfter(i - 1))
        BY <3>1 DEF Match!MayMove, Match!PlayerOf, Match!SideAfter, Match!White,
                    Match!Black, PlayerOf, SideAfter, White, Black
      <3> QED
        BY <1>3, <2>1, <3>2 DEF PlayerOf
    <2>2. CASE i # Len(d.moves)
      <3>1. i \in 1..Len(r.moves)
        BY <1>1, <1>3, <2>2
      <3>2. r.moves[i].by = PlayerOf(r, SideAfter(i - 1))
        BY <3>1 DEF InTurns
      <3>3. r.moves[i].legal
        BY <3>1 DEF Match!MayMove, Match!Replayable, Replayable
      <3> QED
        BY <1>3, <3>1, <3>2, <3>3 DEF PlayerOf
    <2> QED
      BY <2>1, <2>2
  <1> QED
    BY <1>1, <1>3, <1>4 DEF InTurns

\* A legal move by the player to move leaves a sound record, with the same
\* players, whatever the library says of the new position.
LEMMA PlayedSound ==
    ASSUME NEW r \in GameRecord, NEW u \in User, NEW end \in Endings,
           Match!MayMove(r, u), Sound(r)
    PROVE  /\ Sound(Played(r, u, end))
           /\ Played(r, u, end).white = r.white
           /\ Played(r, u, end).black = r.black
  <1> DEFINE d == Played(r, u, end)
             mover == SideAfter(Len(r.moves))
  <1>1. d \in GameRecord
    BY PlayedType
  <1>2. /\ d.moves = Append(r.moves, [by |-> u, legal |-> TRUE])
        /\ d.turn = SideAfter(Len(r.moves) + 1)
        /\ d.white = r.white /\ d.black = r.black
    BY DEF Played, Endings, GameRecord
  <1>3. /\ end = "open" => d.status = r.status /\ d.winner = r.winner
        /\ end = "draw" => d.status = "DRAW" /\ d.winner = r.winner
        /\ end = "mate" => d.status = "FINISHED" /\ d.winner = PlayerOf(r, mover)
    BY DEF Played, GameRecord
  <1>4. Active(r) /\ r.winner = NoOne /\ u = PlayerOf(r, mover)
    BY DEF Match!MayMove, Match!Active, Active, Match!PlayerOf, Match!SideAfter,
           Match!White, Match!Black, PlayerOf, SideAfter, White, Black,
           Sound, JustVerdict
  <1> HIDE DEF d, mover
  <1>5. /\ InTurns(d)
        /\ Len(d.moves) = Len(r.moves) + 1
        /\ d.moves[Len(d.moves)] = [by |-> u, legal |-> TRUE]
        /\ Len(r.moves) \in Nat
    BY <1>1, <1>2, AppendInTurns DEF Sound
  <1>6. JustVerdict(d)
    <2>1. d.moves[Len(d.moves)].by = u
      BY <1>5
    <2>2. Len(d.moves) > 0
      BY <1>5
    <2> QED
      BY <1>3, <1>4, <2>1, <2>2 DEF JustVerdict, Active, Endings
  <1>7. TurnOK(d)
    BY <1>2, <1>5 DEF TurnOK
  <1> QED
    BY <1>2, <1>5, <1>6, <1>7 DEF Sound, d

\* An entry the position does not allow keeps the record sound, too: it can
\* no longer be replayed, so its turn means nothing.
LEMMA MisplayedSound ==
    ASSUME NEW r \in GameRecord, NEW u \in User,
           Match!MayMove(r, u), Sound(r)
    PROVE  /\ Sound(Misplayed(r, u))
           /\ Misplayed(r, u).white = r.white
           /\ Misplayed(r, u).black = r.black
  <1> DEFINE d == Misplayed(r, u)
  <1>1. d \in GameRecord
    BY MisplayedType
  <1>2. /\ d.moves = Append(r.moves, [by |-> u, legal |-> FALSE])
        /\ d.white = r.white /\ d.black = r.black
        /\ d.status = r.status /\ d.winner = r.winner
    BY DEF Misplayed, GameRecord
  <1>3. Active(r)
    BY DEF Match!MayMove, Match!Active, Active
  <1> HIDE DEF d
  <1>4. /\ InTurns(d)
        /\ Len(d.moves) = Len(r.moves) + 1
        /\ d.moves[Len(d.moves)] = [by |-> u, legal |-> FALSE]
        /\ Len(r.moves) \in Nat
    BY <1>1, <1>2, AppendInTurns DEF Sound
  <1>5. JustVerdict(d)
    BY <1>2, <1>3 DEF JustVerdict, Active, Sound
  <1>6. ~Replayable(d)
    <2>1. Len(d.moves) \in 1..Len(d.moves)
      BY <1>4
    <2>2. ~d.moves[Len(d.moves)].legal
      BY <1>4
    <2> QED
      BY <2>1, <2>2 DEF Replayable
  <1> QED
    BY <1>2, <1>4, <1>5, <1>6 DEF Sound, TurnOK, d

\* A resignation by one of the players gives the game to one of the players.
LEMMA ResignedSound ==
    ASSUME NEW r \in GameRecord, NEW u, u \in Players(r), Sound(r)
    PROVE  /\ Sound(Resigned(r, u))
           /\ Resigned(r, u).white = r.white
           /\ Resigned(r, u).black = r.black
  <1> DEFINE d == Resigned(r, u)
  <1>1. /\ d.moves = r.moves /\ d.white = r.white /\ d.black = r.black
        /\ d.status = "RESIGNED" /\ d.winner = OpponentID(r, u)
    BY DEF Resigned, GameRecord
  <1>2. OpponentID(r, u) \in {r.white, r.black}
    BY DEF OpponentID, Players
  <1> HIDE DEF d
  <1>3. InTurns(d)
    BY <1>1 DEF InTurns, Sound, PlayerOf
  <1>4. JustVerdict(d)
    BY <1>1, <1>2 DEF JustVerdict, Players
  <1>5. TurnOK(d)
    BY <1>1 DEF TurnOK, Active
  <1> QED
    BY <1>1, <1>3, <1>4, <1>5 DEF Sound, d

\* The three together: a transaction that commits starts from an ACTIVE
\* record and leaves a sound one with the same players.
LEMMA SuccessorSound ==
    ASSUME NEW h \in Handler, NEW r \in GameRecord, NEW d,
           cmd[h].user \in User, Successor(h, r, d), Sound(r)
    PROVE  /\ d \in GameRecord /\ Sound(d) /\ Active(r)
           /\ d.white = r.white /\ d.black = r.black
  <1>1. ASSUME NEW end \in Endings, d = Played(r, cmd[h].user, end),
               Match!MayMove(r, cmd[h].user)
        PROVE  /\ d \in GameRecord /\ Sound(d) /\ Active(r)
               /\ d.white = r.white /\ d.black = r.black
    BY <1>1, PlayedType, PlayedSound DEF Match!MayMove, Match!Active, Active
  <1>2. ASSUME d = Misplayed(r, cmd[h].user), Match!MayMove(r, cmd[h].user)
        PROVE  /\ d \in GameRecord /\ Sound(d) /\ Active(r)
               /\ d.white = r.white /\ d.black = r.black
    BY <1>2, MisplayedType, MisplayedSound DEF Match!MayMove, Match!Active, Active
  <1>3. ASSUME Active(r), cmd[h].user \in Players(r), d = Resigned(r, cmd[h].user)
        PROVE  /\ d \in GameRecord /\ Sound(d) /\ Active(r)
               /\ d.white = r.white /\ d.black = r.black
    BY <1>3, ResignedType, ResignedSound
  <1> QED
    BY <1>1, <1>2, <1>3 DEF Successor

-----------------------------------------------------------------------------
(* The inductive invariant.                                                 *)
(*                                                                          *)
(* Most steps of a handler touch its own locals only: for those it is       *)
(* enough to look at the handler itself (OwnStep).  The steps that write a  *)
(* game, an index or a row are looked at one by one.                        *)

\* What step of h leaves alone: the stores, and the other handlers.
Own(h) == /\ UNCHANGED stores
          /\ \A k \in Handler \ {h} :
                /\ pc'[k] = pc[k] /\ cmd'[k] = cmd[k] /\ found'[k] = found[k]
                /\ target'[k] = target[k] /\ draft'[k] = draft[k]
                /\ k \in dirty' <=> k \in dirty

\* A handler on which nothing changes, in stores that do not change, is as it
\* was.
LEMMA HandlerKept ==
    ASSUME NEW k \in Handler, HandlerOK(k), UNCHANGED stores,
           pc'[k] = pc[k], cmd'[k] = cmd[k], found'[k] = found[k],
           target'[k] = target[k], draft'[k] = draft[k], k \in dirty' <=> k \in dirty
    PROVE  HandlerOK(k)'
  <1>1. game' = game /\ used' = used
    BY DEF stores
  <1>2. Live(target[k])' <=> Live(target[k])
    BY <1>1 DEF Live
  <1>3. \A g : Live(g)' <=> Live(g)
    BY <1>1 DEF Live
  <1>4. Successor(k, game[target[k]], draft[k])' <=> Successor(k, game[target[k]], draft[k])
    BY <1>1 DEF Successor
  <1> QED
    BY <1>1, <1>2, <1>3, <1>4 DEF HandlerOK

\* A step in which a handler changes its locals only keeps the stores and the
\* other handlers.
LEMMA OwnStep ==
    ASSUME NEW h \in Handler, StoresOK, ArchiveAgrees,
           \A k \in Handler : HandlerOK(k),
           Own(h), HandlerOK(h)'
    PROVE  StoresOK' /\ ArchiveAgrees' /\ \A k \in Handler : HandlerOK(k)'
  <1>1. game' = game /\ idx' = idx /\ used' = used /\ db' = db
    BY DEF Own, stores
  <1>2. StoresOK'
    BY <1>1 DEF StoresOK, Live
  <1>3. ArchiveAgrees'
    BY <1>1 DEF ArchiveAgrees, Live
  <1>4. ASSUME NEW k \in Handler PROVE HandlerOK(k)'
    <2>1. CASE k = h
      BY <2>1
    <2>2. CASE k # h
      BY <2>2, HandlerKept DEF Own
    <2> QED
      BY <2>1, <2>2
  <1> QED
    BY <1>2, <1>3, <1>4

\* A handler that gives up, answers or starts over has nothing left to watch
\* or to write.
LEMMA Released ==
    ASSUME NEW h \in Handler, TypeOK, HandlerOK(h), UNCHANGED stores,
           pc'[h] \in {"idle", "list", "save", "done"},
           target'[h] \in {target[h], Nil}, found'[h] \in {found[h], {}}
    PROVE  HandlerOK(h)'
  <1>1. used' = used
    BY DEF stores
  <1> QED
    BY <1>1 DEF HandlerOK

\* The other side of a committed write, for a handler that did not make it:
\* its snapshot is dirty if it was of the key written, and no result was on
\* its way for a game that was still running.
LEMMA WrittenUnder ==
    ASSUME NEW k \in Handler, NEW t \in GameId, NEW d \in GameRecord,
           TypeOK, LocalsOK, HandlerOK(k),
           Live(t), Active(game[t]),
           d.white = game[t].white, d.black = game[t].black,
           game' = [game EXCEPT ![t] = d], used' = used,
           pc'[k] = pc[k], cmd'[k] = cmd[k], found'[k] = found[k],
           target'[k] = target[k], draft'[k] = draft[k],
           k \in dirty => k \in dirty',
           pc[k] \in Watching /\ target[k] = t => k \in dirty'
    PROVE  HandlerOK(k)'
  <1>1. \A g \in GameId : g # t => game'[g] = game[g]
    BY DEF TypeOK
  <1>2. game'[t] = d /\ d # Nil
    BY NilAssumption DEF TypeOK
  <1>3. ASSUME NEW g \in GameId
        PROVE  /\ Live(g)' <=> Live(g)
               /\ Live(g) => /\ game'[g].white = game[g].white
                             /\ game'[g].black = game[g].black
    BY <1>1, <1>2 DEF Live
  <1>4. found[k] \subseteq GameId
    BY DEF TypeOK
  <1>5. pc[k] \in {"watch", "read", "exec", "persist", "indexWhite", "indexBlack"}
            => target[k] \in GameId
    BY DEF TypeOK, LocalsOK
  <1>6. found'[k] \subseteq used' /\ (target'[k] # Nil => target'[k] \in used')
    BY DEF HandlerOK
  <1>7. pc[k] = "select" =>
            \A g \in found[k] : Live(g)' => cmd[k].user \in Players(game'[g])
    BY <1>3, <1>4 DEF HandlerOK, Players
  <1>8. pc[k] \in {"watch", "read", "exec"} =>
            (Live(target[k])' => cmd[k].user \in Players(game'[target[k]]))
    BY <1>3, <1>5 DEF HandlerOK, Players
  <1>9. pc[k] \in {"indexWhite", "indexBlack"} =>
            (Live(target[k])' => /\ draft[k].white = game'[target[k]].white
                                 /\ draft[k].black = game'[target[k]].black)
    BY <1>3, <1>5 DEF HandlerOK
  <1>10. ASSUME pc[k] = "exec", k \notin dirty'
         PROVE  Live(target[k])' /\ Successor(k, game[target[k]], draft[k])'
    <2>1. target[k] # t /\ k \notin dirty /\ target[k] \in GameId
      BY <1>5, <1>10 DEF Watching
    <2>2. game'[target[k]] = game[target[k]]
      BY <1>1, <2>1
    <2>3. Live(target[k]) /\ Successor(k, game[target[k]], draft[k])
      BY <1>10, <2>1 DEF HandlerOK
    <2> QED
      BY <2>2, <2>3 DEF Live, Successor
  <1>11. ASSUME pc[k] = "persist"
         PROVE  /\ Live(target[k])' /\ Over(game'[target[k]])
                /\ game'[target[k]] = draft[k]
    <2>1. Live(target[k]) /\ Over(game[target[k]]) /\ game[target[k]] = draft[k]
      BY <1>11 DEF HandlerOK
    <2>2. target[k] # t
      BY <2>1 DEF Over, Active
    <2> QED
      BY <1>1, <1>5, <1>11, <2>1, <2>2 DEF Live
  <1> QED
    BY <1>6, <1>7, <1>8, <1>9, <1>10, <1>11 DEF HandlerOK

\* EXEC, with or without its reply: the snapshot the draft was made from is
\* still what the key holds, so one whole move or resignation is applied.
LEMMA CommitStep ==
    ASSUME NEW h \in Handler, TypeOK, LocalsOK, StoresOK, ArchiveAgrees,
           \A k \in Handler : HandlerOK(k), Commit(h),
           pc'[h] = "done" \/ (pc'[h] = "persist" /\ Over(draft[h]) /\ draft'[h] = draft[h]),
           found'[h] \in {found[h], {}},
           \A k \in Handler \ {h} : /\ pc'[k] = pc[k] /\ found'[k] = found[k]
                                    /\ draft'[k] = draft[k]
    PROVE  StoresOK' /\ ArchiveAgrees' /\ \A k \in Handler : HandlerOK(k)'
  <1> DEFINE t == target[h]
             d == draft[h]
  <1>1. t \in GameId /\ cmd[h].user \in User
    BY DEF Commit, TypeOK, LocalsOK
  <1>2. Live(t) /\ Successor(h, game[t], d) /\ t \in used
    BY <1>1, NilAssumption DEF Commit, HandlerOK
  <1>3. game[t] \in GameRecord /\ Sound(game[t])
    BY <1>1, <1>2 DEF TypeOK, Live, StoresOK, Sound
  <1>4. /\ d \in GameRecord /\ Sound(d) /\ Active(game[t])
        /\ d.white = game[t].white /\ d.black = game[t].black
    BY <1>1, <1>2, <1>3, SuccessorSound
  <1>5. game' = [game EXCEPT ![t] = d] /\ idx' = idx /\ used' = used /\ db' = db
    BY DEF Commit
  <1> HIDE DEF d, t
  <1>6. game'[t] = d /\ d # Nil /\ \A g \in GameId : g # t => game'[g] = game[g]
    BY <1>1, <1>4, <1>5, NilAssumption DEF TypeOK
  <1>7. StoresOK'
    <2> SUFFICES ASSUME NEW g \in GameId
                 PROVE  /\ Live(g)' \/ db'[g] # Nil => g \in used'
                        /\ Live(g)' => /\ InTurns(game'[g]) /\ JustVerdict(game'[g])
                                       /\ TurnOK(game'[g])
                        /\ \A u \in User : g \in idx'[u] =>
                              g \in used' /\ (Live(g)' => u \in Players(game'[g]))
      BY DEF StoresOK
    <2>1. CASE g = t
      BY <1>2, <1>4, <1>5, <1>6, <2>1 DEF StoresOK, Live, Sound, Players
    <2>2. CASE g # t
      BY <1>5, <1>6, <2>2 DEF StoresOK, Live
    <2> QED
      BY <2>1, <2>2
  <1>8. ArchiveAgrees'
    <2>1. db[t] = Nil
      BY <1>1, <1>2, <1>4 DEF ArchiveAgrees, Over, Active
    <2> QED
      BY <1>5, <1>6, <2>1 DEF ArchiveAgrees, Live
  <1>9. ASSUME NEW k \in Handler PROVE HandlerOK(k)'
    <2>1. CASE k = h
      <3>1. target'[h] = t
        BY DEF Commit, t
      <3>2. found[h] \subseteq used
        BY DEF HandlerOK
      <3>3. CASE pc'[h] = "done"
        BY <1>2, <1>5, <2>1, <3>1, <3>2, <3>3 DEF HandlerOK
      <3>4. CASE pc'[h] = "persist" /\ Over(d) /\ draft'[h] = d
        BY <1>2, <1>5, <1>6, <2>1, <3>1, <3>2, <3>4 DEF HandlerOK, Live
      <3> QED
        BY <3>3, <3>4 DEF d
    <2>2. CASE k # h
      <3>1. k \in dirty => k \in dirty'
        BY DEF Commit, Touch
      <3>2. pc[k] \in Watching /\ target[k] = t => k \in dirty'
        BY <2>2 DEF Commit, Touch, t
      <3>3. cmd'[k] = cmd[k] /\ target'[k] = target[k]
        BY DEF Commit
      <3> QED
        BY <1>1, <1>2, <1>4, <1>5, <2>2, <3>1, <3>2, <3>3, WrittenUnder
    <2> QED
      BY <2>1, <2>2
  <1> QED
    BY <1>7, <1>8, <1>9

\* SADD to the index of one of the players of the game just stored.
LEMMA IndexStep ==
    ASSUME NEW h \in Handler, NEW u \in User, TypeOK, LocalsOK, StoresOK, ArchiveAgrees,
           \A k \in Handler : HandlerOK(k),
           pc[h] \in {"indexWhite", "indexBlack"},
           u \in {draft[h].white, draft[h].black},
           IndexPlayer(h, u),
           \/ pc'[h] = "done"
           \/ pc'[h] \in {"indexWhite", "indexBlack"} /\ draft'[h] = draft[h],
           found'[h] \in {found[h], {}},
           \A k \in Handler \ {h} : /\ pc'[k] = pc[k] /\ found'[k] = found[k]
                                    /\ draft'[k] = draft[k]
    PROVE  StoresOK' /\ ArchiveAgrees' /\ \A k \in Handler : HandlerOK(k)'
  <1> DEFINE t == target[h]
  <1>1. /\ idx' = [idx EXCEPT ![u] = @ \cup {t}]
        /\ game' = game /\ used' = used /\ db' = db
        /\ cmd' = cmd /\ target' = target /\ dirty' = dirty
    BY DEF IndexPlayer
  <1>2. t \in GameId /\ t \in used /\ (Live(t) => u \in Players(game[t]))
    BY NilAssumption DEF HandlerOK, TypeOK, LocalsOK, Players
  <1>3. \A v \in User : idx'[v] \subseteq idx[v] \cup (IF v = u THEN {t} ELSE {})
    BY <1>1 DEF TypeOK
  <1> HIDE DEF t
  <1>4. StoresOK'
    BY <1>1, <1>2, <1>3 DEF StoresOK, Live
  <1>5. ArchiveAgrees'
    BY <1>1 DEF ArchiveAgrees, Live
  <1>6. ASSUME NEW k \in Handler PROVE HandlerOK(k)'
    BY <1>1 DEF HandlerOK, Live, Successor
  <1> QED
    BY <1>4, <1>5, <1>6

\* SET of a new game: its id is unknown to every store and every handler.
LEMMA SaveStep ==
    ASSUME NEW h \in Handler, TypeOK, LocalsOK, StoresOK, ArchiveAgrees,
           \A k \in Handler : HandlerOK(k), SaveGame(h)
    PROVE  StoresOK' /\ ArchiveAgrees' /\ \A k \in Handler : HandlerOK(k)'
  <1> DEFINE d == draft[h]
  <1>1. PICK g \in GameId \ used : /\ game'   = [game EXCEPT ![g] = d]
                                   /\ used'   = used \cup {g}
                                   /\ target' = [target EXCEPT ![h] = g]
    BY DEF SaveGame
  <1>2. PICK w, b, rooms : d = NewGame(w, b, rooms)
    BY DEF SaveGame, Goto, LocalsOK
  <1>3. d \in GameRecord /\ d # Nil
    BY DEF TypeOK, LocalsOK, SaveGame, Goto
  <1> HIDE DEF d
  <1>4. /\ d.moves = << >> /\ d.status = "ACTIVE" /\ d.winner = NoOne /\ d.turn = White
    BY <1>2 DEF NewGame
  <1>5. Sound(d)
    BY <1>4 DEF Sound, InTurns, JustVerdict, TurnOK, SideAfter
  <1>6. /\ game'[g] = d /\ \A f \in GameId : f # g => game'[f] = game[f]
        /\ idx' = idx /\ db' = db /\ cmd' = cmd /\ found' = found
        /\ draft' = draft /\ dirty' = dirty
        /\ pc'[h] = "indexWhite" /\ \A k \in Handler \ {h} : pc'[k] = pc[k]
        /\ target'[h] = g /\ \A k \in Handler \ {h} : target'[k] = target[k]
    BY <1>1 DEF SaveGame, Goto, TypeOK
  <1>7. ~Live(g) /\ db[g] = Nil /\ \A u \in User : g \notin idx[u]
    BY <1>1 DEF StoresOK
  <1>8. StoresOK'
    <2> SUFFICES ASSUME NEW f \in GameId
                 PROVE  /\ Live(f)' \/ db'[f] # Nil => f \in used'
                        /\ Live(f)' => /\ InTurns(game'[f]) /\ JustVerdict(game'[f])
                                       /\ TurnOK(game'[f])
                        /\ \A u \in User : f \in idx'[u] =>
                              f \in used' /\ (Live(f)' => u \in Players(game'[f]))
      BY DEF StoresOK
    <2>1. CASE f = g
      BY <1>1, <1>5, <1>6, <1>7, <2>1 DEF StoresOK, Live, Sound
    <2>2. CASE f # g
      BY <1>1, <1>6, <2>2 DEF StoresOK, Live
    <2> QED
      BY <2>1, <2>2
  <1>9. ArchiveAgrees'
    BY <1>6, <1>7 DEF ArchiveAgrees, Live
  <1>10. ASSUME NEW k \in Handler PROVE HandlerOK(k)'
    <2>1. found[k] \subseteq used /\ found[k] \subseteq GameId
      BY DEF HandlerOK, TypeOK
    <2>2. CASE k = h
      BY <1>1, <1>6, <2>1, <2>2 DEF HandlerOK, d
    <2>3. CASE k # h
      <3>1. /\ pc'[k] = pc[k] /\ target'[k] = target[k] /\ cmd'[k] = cmd[k]
            /\ found'[k] = found[k] /\ draft'[k] = draft[k]
            /\ k \in dirty' <=> k \in dirty
        BY <1>6, <2>3
      <3>2. \A f \in found[k] : game'[f] = game[f]
        BY <1>1, <1>6, <2>1
      <3>3. target[k] \in GameId => game'[target[k]] = game[target[k]]
        BY <1>1, <1>6, NilAssumption DEF HandlerOK
      <3>4. pc[k] \in {"watch", "read", "exec", "persist", "indexWhite", "indexBlack"}
                => target[k] \in GameId
        BY DEF TypeOK, LocalsOK
      <3>5. pc[k] \in {"watch", "read", "exec", "persist", "indexWhite", "indexBlack"}
                => /\ game'[target[k]] = game[target[k]]
                   /\ Live(target[k])' <=> Live(target[k])
        BY <3>1, <3>3, <3>4 DEF Live
      <3> QED
        BY <1>1, <3>1, <3>2, <3>5 DEF HandlerOK, Live, Successor
    <2> QED
      BY <2>2, <2>3
  <1> QED
    BY <1>8, <1>9, <1>10

\* A game key expires: snapshots of it are dirty, and no result of it is on
\* its way.
LEMMA ExpireStep ==
    ASSUME NEW t \in GameId, TypeOK, LocalsOK, StoresOK, ArchiveAgrees,
           \A k \in Handler : HandlerOK(k), ExpireGame(t)
    PROVE  StoresOK' /\ ArchiveAgrees' /\ \A k \in Handler : HandlerOK(k)'
  <1>1. /\ game'[t] = Nil /\ \A g \in GameId : g # t => game'[g] = game[g]
        /\ idx' = idx /\ used' = used /\ db' = db /\ pc' = pc /\ cmd' = cmd
        /\ found' = found /\ target' = target /\ draft' = draft
    BY DEF ExpireGame, TypeOK
  <1>2. ~Live(t)' /\ \A g \in GameId : Live(g)' => Live(g) /\ game'[g] = game[g]
    BY <1>1 DEF Live
  <1>3. StoresOK'
    BY <1>1, <1>2 DEF StoresOK
  <1>4. ArchiveAgrees'
    BY <1>1, <1>2 DEF ArchiveAgrees
  <1>5. ASSUME NEW k \in Handler PROVE HandlerOK(k)'
    <2>1. found[k] \subseteq GameId
      BY DEF TypeOK
    <2>2. pc[k] \in {"watch", "read", "exec", "persist", "indexWhite", "indexBlack"}
              => target[k] \in GameId
      BY DEF TypeOK, LocalsOK
    <2>3. pc[k] = "select" =>
              \A g \in found[k] : Live(g)' => cmd[k].user \in Players(game'[g])
      BY <1>2, <2>1 DEF HandlerOK
    <2>4. pc[k] \in {"watch", "read", "exec"} =>
              (Live(target[k])' => cmd[k].user \in Players(game'[target[k]]))
      BY <1>1, <1>2, <2>2 DEF HandlerOK, Live
    <2>5. pc[k] \in {"indexWhite", "indexBlack"} =>
              (Live(target[k])' => /\ draft[k].white = game'[target[k]].white
                                   /\ draft[k].black = game'[target[k]].black)
      BY <1>1, <1>2, <2>2 DEF HandlerOK, Live
    <2>6. ASSUME pc[k] = "exec", k \notin dirty'
          PROVE  Live(target[k])' /\ Successor(k, game[target[k]], draft[k])'
      <3>1. target[k] # t /\ k \notin dirty
        BY <2>6 DEF ExpireGame, Watching
      <3>2. game'[target[k]] = game[target[k]]
        BY <1>1, <2>2, <2>6, <3>1
      <3>3. Live(target[k]) /\ Successor(k, game[target[k]], draft[k])
        BY <2>6, <3>1 DEF HandlerOK
      <3> QED
        BY <1>1, <3>2, <3>3 DEF Live, Successor
    <2>7. ASSUME pc[k] = "persist"
          PROVE  /\ Live(target[k])' /\ Over(game'[target[k]])
                 /\ game'[target[k]] = draft[k]
      <3>1. target[k] # t
        BY <2>7 DEF ExpireGame
      <3>2. game'[target[k]] = game[target[k]]
        BY <1>1, <2>2, <2>7, <3>1
      <3> QED
        BY <1>1, <2>7, <3>2 DEF HandlerOK, Live
    <2> QED
      BY <1>1, <2>3, <2>4, <2>5, <2>6, <2>7 DEF HandlerOK
  <1> QED
    BY <1>3, <1>4, <1>5

\* SaveResult writes the row of the game that is in Redis.
LEMMA PersistStep ==
    ASSUME NEW h \in Handler, TypeOK, LocalsOK, StoresOK, ArchiveAgrees,
           \A k \in Handler : HandlerOK(k), Persist(h)
    PROVE  StoresOK' /\ ArchiveAgrees' /\ \A k \in Handler : HandlerOK(k)'
  <1> DEFINE t == target[h]
  <1>1. /\ Live(t) /\ Over(game[t]) /\ game[t] = draft[h]
        /\ t \in GameId /\ t \in used
    BY NilAssumption DEF Persist, Answer, Goto, HandlerOK, TypeOK, LocalsOK
  <1>2. /\ game' = game /\ idx' = idx /\ used' = used /\ cmd' = cmd
        /\ target' = target /\ dirty' = dirty
        /\ db'[t] = RowOf(draft[h]) /\ \A g \in GameId : g # t => db'[g] = db[g]
    BY <1>1 DEF Persist, TypeOK
  <1>3. /\ pc'[h] = "done" /\ found'[h] = {}
        /\ \A k \in Handler \ {h} : /\ pc'[k] = pc[k] /\ found'[k] = found[k]
                                    /\ draft'[k] = draft[k]
    BY DEF Persist, Answer, Goto, TypeOK
  <1> HIDE DEF t
  <1>4. StoresOK'
    BY <1>1, <1>2 DEF StoresOK, Live
  <1>5. ArchiveAgrees'
    BY <1>1, <1>2 DEF ArchiveAgrees, Live
  <1>6. ASSUME NEW k \in Handler PROVE HandlerOK(k)'
    <2>1. CASE k = h
      BY <1>1, <1>2, <1>3, <2>1 DEF HandlerOK, t
    <2>2. CASE k # h
      BY <1>2, <1>3, <2>2 DEF HandlerOK, Live, Successor
    <2> QED
      BY <2>1, <2>2
  <1> QED
    BY <1>4, <1>5, <1>6

\* A refusal, a reply, an error or a new command ends what the handler knew.
LEMMA ReleaseSteps ==
    ASSUME NEW h \in Handler, TypeOK, LocalsOK, HandlerOK(h),
           \/ Begin(h) \/ Challenge(h) \/ NoneFound(h) \/ RefuseMove(h)
           \/ RefuseResign(h) \/ Conflict(h) \/ Return(h) \/ Fail(h) \/ PersistFail(h)
    PROVE  Own(h) /\ HandlerOK(h)'
  <1> DEFINE Gone == /\ pc'[h] \in {"idle", "list", "save", "done"}
                     /\ target'[h] \in {target[h], Nil}
                     /\ found'[h] \in {found[h], {}}
  <1>1. CASE Begin(h)
    <2>1. Own(h)
      BY <1>1 DEF Own, Begin, Goto, TypeOK
    <2>2. Gone
      BY <1>1 DEF Begin, Goto, TypeOK
    <2> QED
      BY <2>1, <2>2, Released DEF Own
  <1>2. CASE Challenge(h)
    <2>1. Own(h)
      BY <1>2 DEF Own, Challenge, Goto, TypeOK
    <2>2. Gone
      BY <1>2 DEF Challenge, Goto, TypeOK
    <2> QED
      BY <2>1, <2>2, Released DEF Own
  <1>3. CASE NoneFound(h)
    <2>1. Own(h)
      BY <1>3 DEF Own, NoneFound, Answer, Goto, TypeOK
    <2>2. Gone
      BY <1>3 DEF NoneFound, Answer, Goto, TypeOK
    <2> QED
      BY <2>1, <2>2, Released DEF Own
  <1>4. CASE RefuseMove(h)
    <2>1. Own(h)
      BY <1>4 DEF Own, RefuseMove, Refuse, Answer, Goto, TypeOK
    <2>2. Gone
      BY <1>4 DEF RefuseMove, Refuse, Answer, Goto, TypeOK
    <2> QED
      BY <2>1, <2>2, Released DEF Own
  <1>5. CASE RefuseResign(h)
    <2>1. Own(h)
      BY <1>5 DEF Own, RefuseResign, Refuse, Answer, Goto, TypeOK
    <2>2. Gone
      BY <1>5 DEF RefuseResign, Refuse, Answer, Goto, TypeOK
    <2> QED
      BY <2>1, <2>2, Released DEF Own
  <1>6. CASE Conflict(h)
    <2>1. Own(h)
      BY <1>6 DEF Own, Conflict, Answer, Goto, TypeOK
    <2>2. Gone
      BY <1>6 DEF Conflict, Answer, Goto, TypeOK
    <2> QED
      BY <2>1, <2>2, Released DEF Own
  <1>7. CASE Return(h)
    <2>1. Own(h)
      BY <1>7 DEF Own, Return, Goto, TypeOK
    <2>2. Gone
      BY <1>7 DEF Return, Goto, TypeOK
    <2> QED
      BY <2>1, <2>2, Released DEF Own
  <1>8. CASE Fail(h)
    <2>1. Own(h)
      BY <1>8 DEF Own, Fail, Answer, Goto, TypeOK
    <2>2. Gone
      BY <1>8 DEF Fail, Answer, Goto, TypeOK
    <2> QED
      BY <2>1, <2>2, Released DEF Own
  <1>9. CASE PersistFail(h)
    <2>1. Own(h)
      BY <1>9 DEF Own, PersistFail, Answer, Goto, TypeOK
    <2>2. Gone
      BY <1>9 DEF PersistFail, Answer, Goto, TypeOK
    <2> QED
      BY <2>1, <2>2, Released DEF Own
  <1> QED
    BY <1>1, <1>2, <1>3, <1>4, <1>5, <1>6, <1>7, <1>8, <1>9

\* The lookup and the WATCH find a game of the user's own.
LEMMA LookupSteps ==
    ASSUME NEW h \in Handler, TypeOK, LocalsOK, StoresOK, HandlerOK(h),
           List(h) \/ Select(h) \/ Watch(h)
    PROVE  Own(h) /\ HandlerOK(h)'
  <1>1. CASE List(h)
    <2>1. Own(h)
      BY <1>1 DEF Own, List, Goto, TypeOK
    <2>2. /\ pc'[h] = "select" /\ found'[h] = idx[cmd[h].user] /\ cmd' = cmd
          /\ target' = target /\ game' = game /\ used' = used
          /\ cmd[h].user \in User
      BY <1>1 DEF List, Goto, TypeOK, LocalsOK, stores
    <2>3. idx[cmd[h].user] \subseteq GameId
      BY <2>2 DEF TypeOK
    <2>4. \A g \in idx[cmd[h].user] :
              g \in used /\ (Live(g) => cmd[h].user \in Players(game[g]))
      BY <2>2, <2>3 DEF StoresOK
    <2> QED
      BY <2>1, <2>2, <2>4 DEF HandlerOK, Live
  <1>2. CASE Select(h)
    <2>1. Own(h)
      BY <1>2 DEF Own, Select, Goto, TypeOK
    <2>2. PICK g \in found[h] : target' = [target EXCEPT ![h] = g]
      BY <1>2 DEF Select
    <2>3. /\ pc[h] = "select" /\ pc'[h] = "watch" /\ found'[h] = {} /\ cmd' = cmd
          /\ target'[h] = g /\ game' = game /\ used' = used
      BY <1>2, <2>2 DEF Select, Goto, TypeOK, stores
    <2>4. g \in used /\ (Live(g) => cmd[h].user \in Players(game[g]))
      BY <2>2, <2>3 DEF HandlerOK
    <2> QED
      BY <2>1, <2>3, <2>4 DEF HandlerOK, Live
  <1>3. CASE Watch(h)
    <2>1. Own(h)
      BY <1>3 DEF Own, Watch, Goto, TypeOK
    <2>2. /\ pc[h] = "watch" /\ pc'[h] = "read" /\ found' = found /\ cmd' = cmd
          /\ target' = target /\ game' = game /\ used' = used
      BY <1>3 DEF Watch, Goto, TypeOK, stores
    <2> QED
      BY <2>1, <2>2 DEF HandlerOK, Live
  <1> QED
    BY <1>1, <1>2, <1>3

\* The stored turn, checked against the colour of the user, is enough to let
\* only the player to move draft a move.
LEMMA OnTurnMayMove ==
    ASSUME NEW h \in Handler, NEW r \in GameRecord,
           ~Stale(h, r), Fits(h, r), OnTurn(h, r), Replayable(r), TurnOK(r)
    PROVE  Match!MayMove(r, cmd[h].user)
  <1> DEFINE u == cmd[h].user
  <1>1. Active(r) /\ u \in {r.white, r.black} /\ r.turn = SideAfter(Len(r.moves))
    BY DEF Stale, Fits, TurnOK, Players
  <1>2. r.turn = PlayerColor(r, u)
    BY DEF OnTurn
  <1>3. r # Nil
    BY NilAssumption
  <1>4. u = PlayerOf(r, SideAfter(Len(r.moves)))
    BY <1>1, <1>2 DEF PlayerOf, PlayerColor, White, Black
  <1> QED
    BY <1>1, <1>3, <1>4 DEF Match!MayMove, Match!Active, Active, Match!Replayable,
       Replayable, Match!PlayerOf, PlayerOf, Match!SideAfter, SideAfter,
       Match!White, White, Match!Black, Black

\* The draft is made from what the key holds now.
LEMMA DraftSteps ==
    ASSUME NEW h \in Handler, TypeOK, LocalsOK, StoresOK, HandlerOK(h),
           DraftMove(h) \/ DraftResign(h)
    PROVE  Own(h) /\ HandlerOK(h)'
  <1> DEFINE r == Current(h)
             u == cmd[h].user
  <1>1. /\ pc[h] = "read" /\ r # Nil /\ target[h] \in GameId /\ u \in User
    BY DEF DraftMove, DraftResign, Draft, Goto, TypeOK, LocalsOK
  <1>2. r \in GameRecord /\ Live(target[h]) /\ Sound(r) /\ u \in Players(r)
    BY <1>1 DEF Current, TypeOK, Live, StoresOK, Sound, HandlerOK
  <1>3. ASSUME NEW d, Draft(h, d), Successor(h, r, d)
        PROVE  Own(h) /\ HandlerOK(h)'
    <2>1. Own(h)
      BY <1>3 DEF Own, Draft, Goto, TypeOK
    <2>2. /\ pc'[h] = "exec" /\ draft'[h] = d /\ found' = found /\ cmd' = cmd
          /\ target' = target /\ game' = game /\ used' = used /\ dirty' = dirty
      BY <1>3 DEF Draft, Goto, TypeOK, stores
    <2>3. Successor(h, game[target[h]], draft[h])'
      BY <1>3, <2>2 DEF Successor, Current
    <2> QED
      BY <1>1, <1>2, <2>1, <2>2, <2>3 DEF HandlerOK, Live, Current
  <1>4. CASE DraftMove(h)
    <2>1. /\ cmd[h].op = "move"
          /\ ~Stale(h, r) /\ Fits(h, r) /\ OnTurn(h, r) /\ Replayable(r)
      BY <1>4 DEF DraftMove
    <2>2. Match!MayMove(r, u)
      BY <1>2, <2>1, OnTurnMayMove DEF Sound
    <2>3. ASSUME NEW end \in Endings, Draft(h, Played(r, u, end))
          PROVE  Own(h) /\ HandlerOK(h)'
      BY <1>3, <2>1, <2>2, <2>3 DEF Successor
    <2>4. CASE Draft(h, Misplayed(r, u))
      BY <1>3, <2>1, <2>2, <2>4 DEF Successor
    <2> QED
      BY <1>4, <2>3, <2>4 DEF DraftMove
  <1>5. CASE DraftResign(h)
    <2>1. cmd[h].op = "resign" /\ Active(r) /\ Draft(h, Resigned(r, u))
      BY <1>5 DEF DraftResign, MayResign
    <2> QED
      BY <1>2, <1>3, <2>1 DEF Successor
  <1> QED
    BY <1>4, <1>5

\* Every step keeps what the stores and the handlers promise one another.
LEMMA InductiveStep ==
    ASSUME Inductive, [Next]_vars
    PROVE  Inductive'
  <1> USE DEF Inductive
  <1>1. TypeOK' /\ LocalsOK'
    BY BasicStep
  <1>2. ASSUME NEW h \in Handler,
               \/ Begin(h) \/ Challenge(h) \/ NoneFound(h) \/ RefuseMove(h)
               \/ RefuseResign(h) \/ Conflict(h) \/ Return(h) \/ Fail(h) \/ PersistFail(h)
        PROVE  Inductive'
    BY <1>1, <1>2, ReleaseSteps, OwnStep
  <1>3. ASSUME NEW h \in Handler, List(h) \/ Select(h) \/ Watch(h)
        PROVE  Inductive'
    BY <1>1, <1>3, LookupSteps, OwnStep
  <1>4. ASSUME NEW h \in Handler, DraftMove(h) \/ DraftResign(h)
        PROVE  Inductive'
    BY <1>1, <1>4, DraftSteps, OwnStep
  <1>5. ASSUME NEW h \in Handler, SaveGame(h)
        PROVE  Inductive'
    BY <1>1, <1>5, SaveStep
  <1>6. ASSUME NEW h \in Handler, IndexWhite(h)
        PROVE  Inductive'
    <2>1. draft[h].white \in User
      BY <1>6 DEF IndexWhite, Continue, Goto, TypeOK, LocalsOK, GameRecord
    <2>2. pc'[h] = "indexBlack" /\ \A k \in Handler \ {h} : pc'[k] = pc[k]
      BY <1>6 DEF IndexWhite, Continue, Goto, TypeOK
    <2>3. found' = found /\ draft' = draft
      BY <1>6 DEF IndexWhite, Continue
    <2> QED
      BY <1>1, <1>6, <2>1, <2>2, <2>3, IndexStep DEF IndexWhite, Continue, Goto
  <1>7. ASSUME NEW h \in Handler, IndexBlack(h)
        PROVE  Inductive'
    <2>1. draft[h].black \in User
      BY <1>7 DEF IndexBlack, Answer, Goto, TypeOK, LocalsOK, GameRecord
    <2>2. pc'[h] = "done" /\ found'[h] = {}
      BY <1>7 DEF IndexBlack, Answer, Goto, TypeOK
    <2>3. \A k \in Handler \ {h} : /\ pc'[k] = pc[k] /\ found'[k] = found[k]
                                    /\ draft'[k] = draft[k]
      BY <1>7 DEF IndexBlack, Answer, Goto, TypeOK
    <2> QED
      BY <1>1, <1>7, <2>1, <2>2, <2>3, IndexStep DEF IndexBlack, Answer, Goto
  <1>8. ASSUME NEW h \in Handler, Exec(h)
        PROVE  Inductive'
    <2>1. \A k \in Handler \ {h} : /\ pc'[k] = pc[k] /\ found'[k] = found[k]
                                    /\ draft'[k] = draft[k]
      BY <1>8 DEF Exec, Answer, Continue, Goto, TypeOK
    <2>2. found'[h] \in {found[h], {}}
      BY <1>8 DEF Exec, Answer, Continue, Goto, TypeOK
    <2>3. pc'[h] = "done" \/ (pc'[h] = "persist" /\ Over(draft[h]) /\ draft'[h] = draft[h])
      BY <1>8 DEF Exec, Answer, Continue, Goto, TypeOK, ToRecord, Over
    <2> QED
      BY <1>1, <1>8, <2>1, <2>2, <2>3, CommitStep DEF Exec
  <1>9. ASSUME NEW h \in Handler, ExecLost(h)
        PROVE  Inductive'
    <2>1. /\ pc'[h] = "done" /\ found'[h] = {}
          /\ \A k \in Handler \ {h} : /\ pc'[k] = pc[k] /\ found'[k] = found[k]
                                       /\ draft'[k] = draft[k]
      BY <1>9 DEF ExecLost, Answer, Goto, TypeOK
    <2> QED
      BY <1>1, <1>9, <2>1, CommitStep DEF ExecLost
  <1>10. ASSUME NEW h \in Handler, Persist(h)
         PROVE  Inductive'
    BY <1>1, <1>10, PersistStep
  <1>11. CASE Crash
    <2>1. game' = game /\ idx' = idx /\ used' = used /\ db' = db
      BY <1>11 DEF Crash, stores
    <2>2. StoresOK' /\ ArchiveAgrees'
      BY <2>1 DEF StoresOK, ArchiveAgrees, Live
    <2>3. \A k \in Handler : HandlerOK(k)'
      BY <1>11 DEF Crash, HandlerOK
    <2> QED
      BY <1>1, <2>2, <2>3
  <1>12. ASSUME NEW g \in GameId, ExpireGame(g)
         PROVE  Inductive'
    BY <1>1, <1>12, ExpireStep
  <1>13. ASSUME NEW u \in User, ExpireIndex(u)
         PROVE  Inductive'
    <2>1. /\ game' = game /\ used' = used /\ db' = db /\ pc' = pc /\ cmd' = cmd
          /\ found' = found /\ target' = target /\ draft' = draft /\ dirty' = dirty
      BY <1>13 DEF ExpireIndex
    <2>2. \A v \in User : idx'[v] \subseteq idx[v]
      BY <1>13 DEF ExpireIndex, TypeOK
    <2>3. StoresOK' /\ ArchiveAgrees'
      BY <2>1, <2>2 DEF StoresOK, ArchiveAgrees, Live
    <2>4. \A k \in Handler : HandlerOK(k)'
      BY <2>1 DEF HandlerOK, Live, Successor
    <2> QED
      BY <1>1, <2>3, <2>4
  <1>14. CASE UNCHANGED vars
    <2>1. StoresOK' /\ ArchiveAgrees'
      BY <1>14 DEF vars, StoresOK, ArchiveAgrees, Live
    <2>2. \A k \in Handler : HandlerOK(k)'
      BY <1>14 DEF vars, HandlerOK, Live, Successor
    <2> QED
      BY <1>1, <2>1, <2>2
  <1> QED
    BY <1>2, <1>3, <1>4, <1>5, <1>6, <1>7, <1>8, <1>9, <1>10, <1>11, <1>12, <1>13,
       <1>14 DEF Next, Step

LEMMA InitInductive == Init => Inductive
  BY DEF Init, Inductive, TypeOK, LocalsOK, StoresOK, ArchiveAgrees, HandlerOK, Live,
         PC, Reply, Op, Command, NoCmd

\* The invariant everything else is read off from.
THEOREM Invariance == Spec => []Inductive
  BY InitInductive, InductiveStep, PTL DEF Spec

\* White and Black alternate in every stored game, however the commands of
\* their handlers interleave, fail and are cut short.
THEOREM TurnsAlternate == Spec => []TurnOrder
  <1>1. Inductive => TurnOrder
    BY DEF Inductive, StoresOK, TurnOrder
  <1> QED
    BY <1>1, Invariance, PTL

\* The verdict stored with a game is the one its moves call for.
THEOREM VerdictsSound == Spec => []VerdictSound
  <1>1. Inductive => VerdictSound
    BY DEF Inductive, StoresOK, VerdictSound
  <1> QED
    BY <1>1, Invariance, PTL

\* Redis and Postgres never disagree about a finished game.
THEOREM ArchiveConsistent == Spec => []ArchiveAgrees
  <1>1. Inductive => ArchiveAgrees
    BY DEF Inductive
  <1> QED
    BY <1>1, Invariance, PTL

-----------------------------------------------------------------------------
(* PvpGame implements PvpMatch: every step is one turn, one resignation, one *)
(* new or forgotten game or one archived result on the boards, or none.      *)

\* The operators on records are those of the boards.
LEMMA SameRules ==
    /\ \A r, u, end : Match!Played(r, u, end) = Played(r, u, end)
    /\ \A r, u : Match!Misplayed(r, u) = Misplayed(r, u)
    /\ \A r, u : Match!Resigned(r, u) = Resigned(r, u)
    /\ \A r : Match!RowOf(r) = RowOf(r)
    /\ \A r : Match!Active(r) <=> Active(r)
    /\ \A r : Match!Over(r) <=> Over(r)
    /\ \A r : Match!Players(r) = Players(r)
    /\ \A w, b, rooms : Match!NewGame(w, b, rooms) = NewGame(w, b, rooms)
    /\ Match!Endings = Endings
  BY DEF Match!Played, Played, Match!Misplayed, Misplayed, Match!Resigned, Resigned,
         Match!RowOf, RowOf, Match!Result, Result, Match!Active, Active, Match!Over, Over,
         Match!Players, Players, Match!NewGame, NewGame, Match!Endings, Endings,
         Match!OpponentID, OpponentID, Match!PlayerOf, PlayerOf, Match!SideAfter,
         SideAfter, Match!White, White, Match!Black, Black

\* A committed transaction is one move, one entry or one resignation.
LEMMA CommitImplements ==
    ASSUME NEW h \in Handler, Inductive, Commit(h)
    PROVE  Match!Next
  <1> DEFINE t == target[h]
             u == cmd[h].user
  <1>1. t \in GameId /\ u \in User
    BY DEF Commit, Inductive, TypeOK, LocalsOK
  <1>2. Live(t) /\ Successor(h, game[t], draft[h])
    BY DEF Commit, Inductive, HandlerOK
  <1>3. game' = [game EXCEPT ![t] = draft[h]] /\ db' = db
    BY DEF Commit
  <1>4. game[t] # Nil
    BY <1>2 DEF Live
  <1>5. ASSUME NEW end \in Endings, draft[h] = Played(game[t], u, end),
               Match!MayMove(game[t], u)
        PROVE  Match!Move(t, u)
    BY <1>3, <1>5, SameRules DEF Match!Move
  <1>6. ASSUME draft[h] = Misplayed(game[t], u), Match!MayMove(game[t], u)
        PROVE  Match!Spoil(t, u)
    BY <1>3, <1>6, SameRules DEF Match!Spoil
  <1>7. ASSUME Active(game[t]), u \in Players(game[t]), draft[h] = Resigned(game[t], u)
        PROVE  Match!Resign(t, u)
    BY <1>3, <1>4, <1>7, SameRules DEF Match!Resign
  <1>8. Match!Move(t, u) \/ Match!Spoil(t, u) \/ Match!Resign(t, u)
    BY <1>2, <1>5, <1>6, <1>7 DEF Successor
  <1> QED
    BY <1>1, <1>8 DEF Match!Next

\* Every other step opens, forgets or archives one game, or touches no board.
LEMMA StepImplements ==
    ASSUME Inductive, [Next]_vars
    PROVE  [Match!Next]_(Match!vars)
  <1>1. ASSUME NEW h \in Handler, Exec(h) \/ ExecLost(h)
        PROVE  Match!Next
    BY <1>1, CommitImplements DEF Exec, ExecLost
  <1>2. ASSUME NEW h \in Handler, SaveGame(h)
        PROVE  Match!Next
    <2>1. PICK g \in GameId \ used : game' = [game EXCEPT ![g] = draft[h]]
      BY <1>2 DEF SaveGame
    <2>2. game[g] = Nil /\ db[g] = Nil
      BY <2>1 DEF Inductive, StoresOK, Live
    <2>3. PICK rooms \in SUBSET Room :
              draft[h] = NewGame(draft[h].white, draft[h].black, rooms)
      BY <1>2 DEF SaveGame, Goto, Inductive, LocalsOK
    <2>4. draft[h].white \in User /\ draft[h].black \in User
      BY <1>2 DEF SaveGame, Goto, Inductive, LocalsOK, TypeOK, GameRecord
    <2>5. \E w, b \in User, rs \in SUBSET Room :
              game' = [game EXCEPT ![g] = NewGame(w, b, rs)]
      BY <2>1, <2>3, <2>4
    <2>6. db' = db
      BY <1>2 DEF SaveGame
    <2>7. Match!Open(g)
      BY <2>2, <2>5, <2>6, SameRules DEF Match!Open
    <2> QED
      BY <2>7 DEF Match!Next
  <1>3. ASSUME NEW h \in Handler, Persist(h)
        PROVE  Match!Next \/ UNCHANGED Match!vars
    <2> DEFINE t == target[h]
    <2>1. t \in GameId /\ Live(t) /\ Over(game[t]) /\ game[t] = draft[h]
      BY <1>3 DEF Persist, Answer, Goto, Inductive, HandlerOK, TypeOK, LocalsOK
    <2>2. game' = game /\ db' = [db EXCEPT ![t] = RowOf(game[t])]
      BY <1>3, <2>1 DEF Persist
    <2>3. CASE db[t] = Nil
      <3>1. Match!Archive(t)
        BY <2>1, <2>2, <2>3, SameRules DEF Match!Archive, Live
      <3> QED
        BY <2>1, <3>1 DEF Match!Next
    <2>4. CASE db[t] # Nil
      <3>1. db[t] = RowOf(game[t])
        BY <2>1, <2>4 DEF Inductive, ArchiveAgrees
      <3>2. db' = db
        BY <2>1, <2>2, <3>1 DEF Inductive, TypeOK
      <3> QED
        BY <2>2, <3>2 DEF Match!vars
    <2> QED
      BY <2>3, <2>4
  <1>4. ASSUME NEW g \in GameId, ExpireGame(g)
        PROVE  Match!Next
    BY <1>4 DEF ExpireGame, Match!Forget, Match!Next
  <1>5. ASSUME NEW h \in Handler,
               \/ Begin(h) \/ Challenge(h) \/ NoneFound(h) \/ RefuseMove(h)
               \/ RefuseResign(h) \/ Conflict(h) \/ Return(h) \/ Fail(h) \/ PersistFail(h)
        PROVE  UNCHANGED Match!vars
    BY <1>5, ReleaseSteps DEF Inductive, Own, stores, Match!vars
  <1>6. ASSUME NEW h \in Handler, List(h) \/ Select(h) \/ Watch(h)
        PROVE  UNCHANGED Match!vars
    BY <1>6, LookupSteps DEF Inductive, Own, stores, Match!vars
  <1>7. ASSUME NEW h \in Handler, DraftMove(h) \/ DraftResign(h)
        PROVE  UNCHANGED Match!vars
    BY <1>7, DraftSteps DEF Inductive, Own, stores, Match!vars
  <1>8. ASSUME NEW h \in Handler, IndexWhite(h) \/ IndexBlack(h)
        PROVE  UNCHANGED Match!vars
    BY <1>8 DEF IndexWhite, IndexBlack, IndexPlayer, Match!vars
  <1>9. ASSUME Crash \/ (\E u \in User : ExpireIndex(u)) \/ UNCHANGED vars
        PROVE  UNCHANGED Match!vars
    BY <1>9 DEF Crash, ExpireIndex, vars, stores, Match!vars
  <1> QED
    BY <1>1, <1>2, <1>3, <1>4, <1>5, <1>6, <1>7, <1>8, <1>9 DEF Next, Step

\* Handlers, snapshots, faults and all: the manager plays on boards.
THEOREM Refinement == Spec => ImplementsMatch
  <1>1. Init => Match!Init
    BY DEF Init, Match!Init
  <1>2. Inductive /\ [Next]_vars => [Match!Next]_(Match!vars)
    BY StepImplements
  <1> QED
    BY <1>1, <1>2, Invariance, PTL DEF Spec, ImplementsMatch, Match!Spec

-----------------------------------------------------------------------------
(* What a step may never do, read off from the boards. *)

\* Nothing but expiry touches a game that is over.
THEOREM VerdictsFinal == Spec => FinalIsFinal
  <1>1. ASSUME Inductive, [Next]_vars, NEW g \in GameId, Live(g), Over(game[g])
        PROVE  game'[g] \in {game[g], Nil}
    <2> USE DEF Inductive, TypeOK
    <2>1. ~Active(game[g]) /\ game[g] # Nil
      BY <1>1 DEF Over, Active, Live
    <2>2. CASE UNCHANGED Match!vars
      BY <2>2 DEF Match!vars
    <2>3. ASSUME NEW t \in GameId, Match!Open(t) \/ Match!Forget(t) \/ Match!Archive(t)
          PROVE  game'[g] \in {game[g], Nil}
      BY <1>1, <2>1, <2>3 DEF Match!Open, Match!Forget, Match!Archive
    <2>4. ASSUME NEW t \in GameId, NEW u \in User,
                 Match!Move(t, u) \/ Match!Spoil(t, u) \/ Match!Resign(t, u)
          PROVE  game'[g] \in {game[g], Nil}
      <3>1. Active(game[t])
        BY <2>4, SameRules DEF Match!Move, Match!Spoil, Match!Resign, Match!MayMove
      <3> QED
        BY <1>1, <2>1, <2>4, <3>1 DEF Match!Move, Match!Spoil, Match!Resign
    <2> QED
      BY <1>1, <2>2, <2>3, <2>4, StepImplements DEF Match!Next
  <1>2. Inductive /\ [Next]_vars =>
            \A g \in GameId : Live(g) /\ Over(game[g]) => game'[g] \in {game[g], Nil}
    BY <1>1
  <1> QED
    BY <1>2, Invariance, PTL DEF Spec, FinalIsFinal

\* What a move, an entry or a resignation adds to the moves of a game.
LEMMA OneMoveMore ==
    ASSUME NEW r \in GameRecord, NEW u \in User, NEW d \in GameRecord,
           \/ \E end \in Endings : d = Played(r, u, end)
           \/ d = Misplayed(r, u)
           \/ d = Resigned(r, u)
    PROVE  /\ Players(d) = Players(r)
           /\ Len(d.moves) \in {Len(r.moves), Len(r.moves) + 1}
           /\ SubSeq(d.moves, 1, Len(r.moves)) = r.moves
  <1>1. r.moves \in Seq(Ply)
    BY DEF GameRecord
  <1>2. d.white = r.white /\ d.black = r.black
    BY DEF Played, Misplayed, Resigned, Endings, GameRecord
  <1>3. \/ d.moves = r.moves
        \/ \E legal \in BOOLEAN : d.moves = Append(r.moves, [by |-> u, legal |-> legal])
    BY DEF Played, Misplayed, Resigned, Endings, GameRecord
  <1>4. CASE d.moves = r.moves
    BY <1>1, <1>2, <1>4 DEF Players
  <1>5. ASSUME NEW legal \in BOOLEAN,
               d.moves = Append(r.moves, [by |-> u, legal |-> legal])
        PROVE  /\ Len(d.moves) = Len(r.moves) + 1
               /\ SubSeq(d.moves, 1, Len(r.moves)) = r.moves
    <2>1. [by |-> u, legal |-> legal] \in Ply
      BY DEF Ply
    <2> DEFINE e == [by |-> u, legal |-> legal]
    <2> HIDE DEF e
    <2>2. d.moves = Append(r.moves, e) /\ e \in Ply
      BY <1>5, <2>1 DEF e
    <2> QED
      BY <1>1, <2>2
  <1> QED
    BY <1>2, <1>3, <1>4, <1>5 DEF Players

\* A committed move stays, and comes with no second one.
THEOREM MovesKept == Spec => NoMoveLost
  <1> DEFINE Kept(g) == /\ Players(game'[g]) = Players(game[g])
                        /\ Len(game'[g].moves) \in {Len(game[g].moves), Len(game[g].moves) + 1}
                        /\ SubSeq(game'[g].moves, 1, Len(game[g].moves)) = game[g].moves
  <1>1. ASSUME Inductive, [Next]_vars, NEW g \in GameId, Live(g), Live(g)'
        PROVE  Kept(g)
    <2>1. game[g] \in GameRecord /\ game'[g] \in GameRecord
      BY <1>1, InductiveStep DEF Inductive, TypeOK, Live
    <2>2. ASSUME game'[g] = game[g] PROVE Kept(g)
      <3>1. game[g].moves \in Seq(Ply)
        BY <2>1 DEF GameRecord
      <3>2. SubSeq(game[g].moves, 1, Len(game[g].moves)) = game[g].moves
        BY <3>1
      <3> QED
        BY <2>2, <3>2
    <2>3. CASE UNCHANGED Match!vars
      BY <2>2, <2>3 DEF Match!vars
    <2>4. ASSUME NEW t \in GameId, Match!Open(t) \/ Match!Forget(t) \/ Match!Archive(t)
          PROVE  Kept(g)
      <3>1. game'[g] = game[g]
        BY <1>1, <2>4 DEF Inductive, TypeOK, Live, Match!Open, Match!Forget, Match!Archive
      <3> QED
        BY <2>2, <3>1
    <2>5. ASSUME NEW t \in GameId, NEW u \in User,
                 Match!Move(t, u) \/ Match!Spoil(t, u) \/ Match!Resign(t, u)
          PROVE  Kept(g)
      <3> DEFINE Turn(r, d) == \/ \E end \in Endings : d = Played(r, u, end)
                               \/ d = Misplayed(r, u)
                               \/ d = Resigned(r, u)
      <3> HIDE DEF Kept
      <3>1. \E d : Turn(game[t], d) /\ game' = [game EXCEPT ![t] = d]
        <4>1. CASE Match!Move(t, u)
          BY <4>1, SameRules DEF Match!Move
        <4>2. CASE Match!Spoil(t, u)
          BY <4>2, SameRules DEF Match!Spoil
        <4>3. CASE Match!Resign(t, u)
          BY <4>3, SameRules DEF Match!Resign
        <4> QED
          BY <2>5, <4>1, <4>2, <4>3
      <3>2. PICK d : Turn(game[t], d) /\ game' = [game EXCEPT ![t] = d]
        BY <3>1
      <3>3. CASE t = g
        <4>1. game'[g] = d
          BY <1>1, <3>2, <3>3 DEF Inductive, TypeOK
        <4> QED
          BY <2>1, <3>2, <3>3, <4>1, OneMoveMore DEF Kept
      <3>4. CASE t # g
        <4>1. game'[g] = game[g]
          BY <1>1, <3>2, <3>4 DEF Inductive, TypeOK
        <4> QED
          BY <2>2, <4>1
      <3> QED
        BY <3>3, <3>4
    <2> HIDE DEF Kept
    <2> QED
      BY <1>1, <2>3, <2>4, <2>5, StepImplements DEF Match!Next
  <1>2. Inductive /\ [Next]_vars =>
            \A g \in GameId : Live(g) /\ Live(g)' => Kept(g)
    BY <1>1
  <1> QED
    BY <1>2, Invariance, PTL DEF Spec, NoMoveLost
=============================================================================
