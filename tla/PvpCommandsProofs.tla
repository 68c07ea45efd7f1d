------------------------- MODULE PvpCommandsProofs -------------------------
(***************************************************************************)
(* For any number of users, rooms, commands and moves, and whatever fails: *)
(* what both chats of a game get to see of it, and in which order.         *)
(***************************************************************************)
EXTENDS PvpCommands, TLAPS

(***************************************************************************)
(* The inductive invariant.                                                *)
(***************************************************************************)

\* A record that says how its game ended.
EndOK(g) ==
    /\ g.white # g.black
    /\ g.status = "FINISHED" => g.outcome \in Color /\ g.winner = PlayerOf(g, g.outcome)
    /\ g.status = "RESIGNED" => g.winner \in Players(g)

\* The game is between those who took the seats, in the rooms they did it in.
SeatsOK ==
    /\ chan # Nil => /\ seat # Nil
                     /\ chan.creator = seat.creator /\ chan.room = seat.room
    /\ board # Nil => /\ seat # Nil
                      /\ seat.joiner \in User /\ seat.joined \in Room
                      /\ Players(board) = {seat.creator, seat.joiner}
                      /\ board.rooms = {seat.room, seat.joined}
                      /\ EndOK(board)

\* Without a fault the channel of a game names it, until it is forgotten.
NamedOK == calm /\ board # Nil /\ chan # Nil => chan.state = "ACTIVE"

Busy(k)  == at[k].pc # "idle"
Fans(k)  == at[k].pc = "fan"
Draws(k) == Fans(k) /\ at[k].kind # "resign"

\* Records of one game.
Same(g, b) == g.white = b.white /\ g.black = b.black /\ g.rooms = b.rooms

LooksOK(k) == at[k].pc = "relook" => at[k].len <= Len(board.moves)

\* The second lookup sees no fewer moves than the first.
CommitsOK(k) ==
    at[k].pc = "commit" => /\ at[k].len <= Len(at[k].game.moves)
                           /\ Active(at[k].game) /\ Same(at[k].game, board)

\* What is announced as over is over, and the sides are told apart by the
\* channel as long as it is known.
FansOK(k) ==
    Fans(k) => /\ Same(at[k].game, board)
               /\ Over(at[k].game) => at[k].game = board
               /\ at[k].kind = "resign" => Over(at[k].game)
               /\ at[k].meta # Nil => /\ at[k].meta.creator = seat.creator
                                      /\ at[k].meta.room = seat.room
               /\ calm /\ at[k].meta = Nil => chan = Nil

HandlerOK(k) ==
    Busy(k) => /\ board # Nil /\ at[k].user \in Players(board)
               /\ LooksOK(k) /\ CommitsOK(k) /\ FansOK(k)

HandlersOK == \A k \in Handler : HandlerOK(k)

\* Every position has been shown in a room or is on its way there.
PositionsOK ==
    calm /\ board # Nil =>
        \A n \in 1..Len(board.moves), r \in board.rooms :
            (\A i \in 1..n : board.moves[i].legal) =>
                \/ <<r, n>> \in shown
                \/ \E k \in Handler : /\ Draws(k) /\ r \in at[k].todo
                                      /\ Len(at[k].game.moves) = n

\* What a fan-out says about the end of the game.
Says(l, r) == IF l.kind = "resign" THEN {Word(l, r)} ELSE MoveText(l)

\* What a chat may have been told.
Right(r) == IF Over(board) THEN {Ending(r)} ELSE {}

WordsOK ==
    /\ board = Nil => \A r \in Room : told[r] = {}
    /\ calm /\ board # Nil /\ chan # Nil => \A r \in board.rooms :
          /\ \A v \in Right(r) :
                \/ v \in told[r]
                \/ \E k \in Handler : Fans(k) /\ r \in at[k].todo /\ v \in Says(at[k], r)
          /\ ~raced => /\ told[r] \subseteq Right(r)
                       /\ \A k \in Handler : Fans(k) => Says(at[k], r) \subseteq Right(r)

\* Who will put a board into a chat of the game, as far as users are polite.
Moves(k)   == at[k].pc \in {"relook", "commit"} /\ at[k].op = "move"
Pending(k) == \/ at[k].pc = "started"
              \/ Draws(k) /\ at[k].todo \cap board.rooms # {}

\* A polite user moves in his room, on the board he sees, and nobody else does.
MoverOK(k) ==
    Moves(k) => /\ at[k].len = Len(board.moves)
                /\ at[k].user = PlayerOf(board, board.turn)
                /\ Seated(at[k].user, at[k].room)
                /\ at[k].pc = "commit" => Len(at[k].game.moves) = at[k].len

\* A board on its way is the latest; the room of a move is served first.
DrawerOK(k) ==
    Draws(k) /\ Pending(k) =>
        /\ Len(at[k].game.moves) = Len(board.moves)
        /\ at[k].kind = "move" =>
              /\ Seated(at[k].user, at[k].room)
              /\ at[k].room \in at[k].todo => board.rooms \subseteq at[k].todo
              /\ \A r \in at[k].todo \cap board.rooms : last[r] < Len(board.moves)

OrderOK ==
    /\ board = Nil => \A r \in Room : last[r] = 0
    /\ polite /\ board # Nil =>
        /\ \A r \in board.rooms : last[r] <= Len(board.moves)
        /\ \A k \in Handler : MoverOK(k) /\ DrawerOK(k)
        /\ \A j, k \in Handler : (Moves(j) \/ Pending(j)) /\ (Moves(k) \/ Pending(k)) => j = k

IInv == /\ TypeOK /\ SeatsOK /\ NamedOK /\ HandlersOK
        /\ PositionsOK /\ WordsOK /\ OrderOK

-----------------------------------------------------------------------------
(* What the steps on one record return. *)

LEMMA NewGameType ==
    ASSUME NEW w \in User, NEW b \in User, NEW rooms \in SUBSET Room
    PROVE  NewGame(w, b, rooms) \in GameRecord
  BY DEF NewGame, GameRecord, Status, Color, White, Black, Ply

LEMMA NewGameFacts ==
    ASSUME NEW w \in User, NEW b \in User, w # b, NEW rooms \in SUBSET Room, NEW g,
           g = NewGame(w, b, rooms)
    PROVE  /\ g \in GameRecord /\ EndOK(g)
           /\ Players(g) = {w, b} /\ g.rooms = rooms
           /\ g.moves = << >> /\ Active(g) /\ ~Over(g)
  <1>1. g \in GameRecord
    BY NewGameType
  <1>2. /\ g.white = w /\ g.black = b /\ g.rooms = rooms /\ g.moves = << >>
        /\ g.status = "ACTIVE"
    BY DEF NewGame
  <1>3. QED
    BY <1>1, <1>2 DEF EndOK, Players, Active, Over

\* A move that is written is one more, and the rest stays; a legal one is
\* replayable if all before it were.
LEMMA MoveFacts ==
    ASSUME NEW g \in GameRecord, EndOK(g), NEW u \in User, NEW b,
           b \in {Played(g, u, end) : end \in Endings} \cup {Misplayed(g, u)}
    PROVE  /\ b \in GameRecord /\ EndOK(b) /\ Same(b, g)
           /\ Len(b.moves) = Len(g.moves) + 1
           /\ \A i \in 1..Len(g.moves) : b.moves[i] = g.moves[i]
           /\ b.status # "RESIGNED" \/ b.status = g.status
  <1>1. /\ g.moves \in Seq(Ply) /\ Len(g.moves) \in Nat
        /\ SideAfter(Len(g.moves)) \in Color /\ SideAfter(Len(g.moves) + 1) \in Color
    <2>1. g.moves \in Seq(Ply)
      BY DEF GameRecord
    <2>2. SideAfter(Len(g.moves)) \in Color /\ SideAfter(Len(g.moves) + 1) \in Color
      BY DEF SideAfter, Color
    <2>3. QED
      BY <2>1, <2>2
  <1>2. \A legal \in BOOLEAN :
           LET s == Append(g.moves, [by |-> u, legal |-> legal]) IN
           /\ s \in Seq(Ply) /\ Len(s) = Len(g.moves) + 1
           /\ \A i \in 1..Len(g.moves) : s[i] = g.moves[i]
    <2>1. \A legal \in BOOLEAN : [by |-> u, legal |-> legal] \in Ply
      BY DEF Ply
    <2>2. QED
      BY <1>1, <2>1
  <1>3. CASE b = Misplayed(g, u)
    <2>1. /\ b.moves = Append(g.moves, [by |-> u, legal |-> FALSE])
          /\ Same(b, g) /\ b.status = g.status /\ b.outcome = g.outcome
          /\ b.winner = g.winner
      BY <1>3 DEF Misplayed, GameRecord, Same
    <2>2. b \in GameRecord
      BY <1>1, <1>2, <1>3 DEF Misplayed, GameRecord
    <2>3. EndOK(b)
      BY <2>1 DEF EndOK, Same, PlayerOf, Players
    <2>4. QED
      BY <1>2, <2>1, <2>2, <2>3
  <1>4. ASSUME NEW end \in Endings, b = Played(g, u, end)
        PROVE  /\ b \in GameRecord /\ EndOK(b) /\ Same(b, g)
               /\ b.moves = Append(g.moves, [by |-> u, legal |-> TRUE])
               /\ b.status # "RESIGNED" \/ b.status = g.status
    <2> DEFINE next  == [g EXCEPT !.moves = Append(@, [by |-> u, legal |-> TRUE]),
                                  !.turn  = SideAfter(Len(g.moves) + 1)]
               mover == SideAfter(Len(g.moves))
    <2>1. /\ next \in GameRecord /\ Same(next, g)
          /\ next.moves = Append(g.moves, [by |-> u, legal |-> TRUE])
          /\ next.status = g.status /\ next.outcome = g.outcome /\ next.winner = g.winner
      BY <1>1, <1>2 DEF GameRecord, Same
    <2>2. mover \in Color /\ mover \in {"", "white", "black", "draw", "resign"}
          /\ PlayerOf(g, mover) \in User
      BY <1>1 DEF Color, White, Black, PlayerOf, GameRecord
    <2>3. \/ b = next
          \/ b = [next EXCEPT !.status = "FINISHED", !.winner = PlayerOf(g, mover),
                              !.outcome = mover]
          \/ b = [next EXCEPT !.status = "DRAW", !.outcome = "draw"]
      BY <1>4 DEF Played, Endings
    <2> HIDE DEF next, mover
    <2>4. CASE b = next
      BY <2>1, <2>4 DEF EndOK, Same, PlayerOf, Players
    <2>5. CASE b = [next EXCEPT !.status = "FINISHED", !.winner = PlayerOf(g, mover),
                                !.outcome = mover]
      <3>1. b \in GameRecord
        <4>1. /\ next \in GameRecord /\ PlayerOf(g, mover) \in User \cup {NoOne}
              /\ "FINISHED" \in Status
          BY <2>1, <2>2 DEF Status
        <4>2. QED
          BY <2>2, <2>5, <4>1 DEF GameRecord
      <3>2. /\ Same(b, g) /\ b.moves = next.moves /\ b.status = "FINISHED"
            /\ b.outcome = mover /\ b.winner = PlayerOf(g, mover)
        BY <2>1, <2>5 DEF GameRecord, Same
      <3>3. EndOK(b)
        BY <2>2, <3>2 DEF EndOK, Same, PlayerOf
      <3>4. QED
        BY <2>1, <3>1, <3>2, <3>3
    <2>6. CASE b = [next EXCEPT !.status = "DRAW", !.outcome = "draw"]
      <3>1. b \in GameRecord
        BY <2>1, <2>6 DEF GameRecord, Status
      <3>2. /\ Same(b, g) /\ b.moves = next.moves /\ b.status = "DRAW"
        BY <2>1, <2>6 DEF GameRecord, Same
      <3>3. EndOK(b)
        BY <3>2 DEF EndOK, Same
      <3>4. QED
        BY <2>1, <3>1, <3>2, <3>3
    <2>7. QED
      BY <2>3, <2>4, <2>5, <2>6
  <1>5. QED
    BY <1>2, <1>3, <1>4

LEMMA ResignFacts ==
    ASSUME NEW g \in GameRecord, EndOK(g), NEW u \in Players(g), NEW b,
           b = Resigned(g, u)
    PROVE  /\ b \in GameRecord /\ EndOK(b) /\ Same(b, g)
           /\ b.moves = g.moves /\ b.turn = g.turn
           /\ b.status = "RESIGNED" /\ b.winner \in Players(g) /\ b.winner # u
  <1>1. OpponentID(g, u) \in Players(g) \ {u} /\ OpponentID(g, u) \in User \cup {NoOne}
    <2>1. g.white # g.black /\ g.white \in User /\ g.black \in User
      BY DEF EndOK, GameRecord
    <2>2. u = g.white \/ u = g.black
      BY DEF Players
    <2>3. QED
      BY <2>1, <2>2 DEF OpponentID, Players
  <1>2. QED
    BY <1>1 DEF Resigned, GameRecord, Status, EndOK, Same, Players

LEMMA RecordFacts ==
    ASSUME NEW g \in GameRecord
    PROVE  /\ g # Nil
           /\ g.white \in User /\ g.black \in User /\ g.rooms \in SUBSET Room
           /\ g.moves \in Seq(Ply) /\ Len(g.moves) \in Nat
           /\ Active(g) <=> ~Over(g)
  <1>1. g # Nil
    BY NilCommandAssumption
  <1>2. /\ g.white \in User /\ g.black \in User /\ g.rooms \in SUBSET Room
        /\ g.moves \in Seq(Ply) /\ g.status \in Status
    BY DEF GameRecord
  <1>3. QED
    BY <1>1, <1>2 DEF Active, Over, Status

-----------------------------------------------------------------------------
(* What the goroutines remember. *)

LEMMA LocalFacts ==
    ASSUME NEW l \in Local
    PROVE  /\ l.pc \in {"idle", "relook", "commit", "lost", "started", "fan"}
           /\ l.pc # "idle" => l.user \in User /\ l.room \in Room
           /\ l.pc \in {"relook", "commit"} => l.op \in {"move", "resign"} /\ l.len \in Nat
           /\ l.pc \in {"commit", "fan"} => l.game \in GameRecord
           /\ l.pc = "fan" => /\ l.kind \in Kind /\ l.meta \in Channel \cup {Nil}
                              /\ l.todo \in SUBSET Room
  BY DEF Local

LEMMA LocalForms ==
    /\ Idle \in Local /\ Idle.pc = "idle"
    /\ \A op \in {"move", "resign"}, u \in User, r \in Room, n \in Nat :
          /\ [pc |-> "relook", op |-> op, user |-> u, room |-> r, len |-> n] \in Local
          /\ \A g \in GameRecord : [pc |-> "commit", op |-> op, user |-> u, room |-> r,
                                    len |-> n, game |-> g] \in Local
    /\ \A pc \in {"lost", "started"}, u \in User, r \in Room :
          [pc |-> pc, user |-> u, room |-> r] \in Local
    /\ \A kind \in Kind, u \in User, r \in Room, g \in GameRecord,
          m \in Channel \cup {Nil}, todo \in SUBSET Room :
          [pc |-> "fan", kind |-> kind, user |-> u, room |-> r, game |-> g,
           meta |-> m, todo |-> todo] \in Local
  BY DEF Local, Idle

\* One room less.
LEMMA FanLess ==
    ASSUME NEW l \in Local, l.pc = "fan", NEW r, NEW m, m = [l EXCEPT !.todo = @ \ {r}]
    PROVE  /\ m \in Local /\ m.pc = "fan" /\ m.kind = l.kind /\ m.user = l.user
           /\ m.room = l.room /\ m.game = l.game /\ m.meta = l.meta
           /\ m.todo = l.todo \ {r}
  BY DEF Local

LEMMA GotoFacts ==
    ASSUME TypeOK, NEW k \in Handler, NEW l \in Local, Goto(k, l)
    PROVE  /\ at' \in [Handler -> Local] /\ at'[k] = l
           /\ \A j \in Handler \ {k} : at'[j] = at[j]
  BY DEF TypeOK, Goto

\* A fan-out of a game starts with all its rooms, and with the channel as it is.
LEMMA FanOutFacts ==
    ASSUME TypeOK, NEW k \in Handler, NEW kind \in Kind, NEW u \in User, NEW r \in Room,
           NEW g \in GameRecord, FanOut(k, kind, u, r, g)
    PROVE  /\ at' \in [Handler -> Local]
           /\ \A j \in Handler \ {k} : at'[j] = at[j]
           /\ at'[k].pc = "fan" /\ at'[k].kind = kind /\ at'[k].user = u
           /\ at'[k].room = r /\ at'[k].game = g /\ at'[k].meta = MetaByGame
           /\ g.rooms \subseteq at'[k].todo
  <1> DEFINE l == [pc |-> "fan", kind |-> kind, user |-> u, room |-> r, game |-> g,
                   meta |-> MetaByGame, todo |-> FanRooms(g, MetaByGame, r)]
  <1>1. MetaByGame \in Channel \cup {Nil}
    BY DEF MetaByGame, TypeOK
  <1>2. FanRooms(g, MetaByGame, r) \in SUBSET Room /\ g.rooms \subseteq FanRooms(g, MetaByGame, r)
    <2>1. g.rooms \in SUBSET Room
      BY DEF GameRecord
    <2>2. MetaByGame # Nil => MetaByGame.rooms \in SUBSET Room
      BY <1>1 DEF Channel
    <2>3. QED
      BY <2>1, <2>2 DEF FanRooms
  <1>3. l \in Local
    BY <1>1, <1>2, LocalForms
  <1>4. Goto(k, l)
    BY DEF FanOut
  <1>5. at' \in [Handler -> Local] /\ at'[k] = l /\ \A j \in Handler \ {k} : at'[j] = at[j]
    <2> HIDE DEF l
    <2>1. QED
      BY <1>3, <1>4, GotoFacts
  <1>6. QED
    BY <1>2, <1>5

LEMMA DoneFacts ==
    ASSUME TypeOK, NEW k \in Handler, Done(k)
    PROVE  /\ at' \in [Handler -> Local] /\ at'[k].pc = "idle"
           /\ \A j \in Handler \ {k} : at'[j] = at[j]
  BY GotoFacts, LocalForms DEF Done

-----------------------------------------------------------------------------
(* Types, who plays where, and what goroutines remember of the game. *)

Base == TypeOK /\ SeatsOK /\ NamedOK /\ HandlersOK

\* The game is as it was, or it was on and has been written.
Grown == \/ board' = board
         \/ /\ board # Nil /\ Active(board)
            /\ board' \in GameRecord /\ EndOK(board') /\ Same(board', board)
            /\ Len(board'.moves) >= Len(board.moves)

LEMMA BoardFacts ==
    ASSUME Base, board # Nil
    PROVE  /\ board \in GameRecord /\ EndOK(board)
           /\ seat # Nil /\ seat \in Seat /\ seat.creator # seat.joiner
           /\ Players(board) = {seat.creator, seat.joiner}
           /\ board.rooms = {seat.room, seat.joined}
           /\ board.moves \in Seq(Ply) /\ Len(board.moves) \in Nat
  <1>1. board \in GameRecord /\ EndOK(board) /\ seat # Nil /\ seat \in Seat
    BY DEF Base, TypeOK, SeatsOK
  <1>2. Players(board) = {seat.creator, seat.joiner} /\ board.rooms = {seat.room, seat.joined}
    BY DEF Base, SeatsOK
  <1>3. board.white # board.black
    BY <1>1 DEF EndOK
  <1>4. board.moves \in Seq(Ply)
    BY <1>1 DEF GameRecord
  <1>5. QED
    BY <1>1, <1>2, <1>3, <1>4 DEF Players

LEMMA HandlerFacts ==
    ASSUME Base, NEW k \in Handler, at[k].pc # "idle"
    PROVE  /\ at[k] \in Local /\ at[k].user \in User /\ at[k].room \in Room
           /\ board # Nil /\ board \in GameRecord /\ EndOK(board)
           /\ at[k].user \in Players(board)
           /\ LooksOK(k) /\ CommitsOK(k) /\ FansOK(k)
  <1>1. at[k] \in Local /\ HandlerOK(k)
    BY DEF Base, TypeOK, HandlersOK
  <1>2. board # Nil /\ at[k].user \in Players(board) /\ LooksOK(k) /\ CommitsOK(k) /\ FansOK(k)
    BY <1>1 DEF HandlerOK, Busy
  <1>3. QED
    BY <1>1, <1>2, BoardFacts, LocalFacts

LEMMA SeatsKept ==
    ASSUME Base, Grown, seat' = seat, chan' = chan \/ chan' = Nil
    PROVE  SeatsOK'
  <1>1. board' # Nil => board # Nil
    BY DEF Grown
  <1>2. board' # Nil => EndOK(board') /\ Players(board') = Players(board)
                        /\ board'.rooms = board.rooms
    BY <1>1, BoardFacts DEF Grown, Same, Players
  <1>3. QED
    BY <1>1, <1>2 DEF Base, SeatsOK

LEMMA HandlerKept ==
    ASSUME Base, Grown, seat' = seat, chan' = chan \/ chan' = Nil, calm' => calm,
           NEW j \in Handler, at'[j] = at[j]
    PROVE  HandlerOK(j)'
  <1> SUFFICES ASSUME at[j].pc # "idle"
               PROVE  /\ board' # Nil /\ at[j].user \in Players(board')
                      /\ LooksOK(j)' /\ CommitsOK(j)' /\ FansOK(j)'
    BY DEF HandlerOK, Busy
  <1>1. /\ board # Nil /\ at[j].user \in Players(board) /\ board \in GameRecord
        /\ LooksOK(j) /\ CommitsOK(j) /\ FansOK(j) /\ at[j] \in Local
    BY HandlerFacts
  <1>2. CASE board' = board
    BY <1>1, <1>2 DEF LooksOK, CommitsOK, FansOK, Fans
  <1>3. CASE /\ Active(board) /\ board' \in GameRecord /\ Same(board', board)
             /\ Len(board'.moves) >= Len(board.moves)
    <2>1. board' # Nil /\ Players(board') = Players(board)
      BY <1>3, RecordFacts DEF Same, Players
    <2>2. LooksOK(j)'
      <3>1. at[j].pc = "relook" => at[j].len \in Nat /\ at[j].len <= Len(board.moves)
        BY <1>1, LocalFacts DEF LooksOK
      <3>2. Len(board.moves) \in Nat /\ Len(board'.moves) \in Nat
        BY <1>1, <1>3, RecordFacts
      <3>3. QED
        BY <1>3, <3>1, <3>2 DEF LooksOK
    <2>3. CommitsOK(j)'
      BY <1>1, <1>3 DEF CommitsOK, Same
    <2>4. FansOK(j)'
      <3>1. Fans(j) => ~Over(at[j].game)
        BY <1>1, <1>3, RecordFacts DEF FansOK
      <3>2. QED
        BY <1>1, <1>3, <3>1 DEF FansOK, Fans, Same
    <2>5. QED
      BY <1>1, <2>1, <2>2, <2>3, <2>4
  <1>4. QED
    BY <1>2, <1>3 DEF Grown

\* A step after which nothing but the solo games, the channel and the
\* observers have changed.
LEMMA StillBase ==
    ASSUME Base, TypeOK', at' = at, board' = board, seat' = seat,
           chan' = chan \/ chan' = Nil, calm' => calm
    PROVE  Base'
  <1>1. Grown
    BY DEF Grown
  <1>2. NamedOK'
    BY DEF Base, NamedOK
  <1>3. HandlersOK'
    BY <1>1, HandlerKept DEF HandlersOK
  <1>4. QED
    BY <1>1, <1>2, <1>3, SeatsKept DEF Base

\* A step of goroutine k that leaves it with what it may have.
LEMMA HandlerBase ==
    ASSUME Base, TypeOK', Grown, seat' = seat, chan' = chan, calm' => calm,
           NEW k \in Handler, \A j \in Handler \ {k} : at'[j] = at[j], HandlerOK(k)'
    PROVE  Base'
  <1>1. board' # Nil => board # Nil
    BY DEF Grown
  <1>2. NamedOK'
    BY <1>1 DEF Base, NamedOK
  <1>3. HandlersOK'
    BY HandlerKept DEF HandlersOK
  <1>4. QED
    BY <1>2, <1>3, SeatsKept DEF Base

\* A goroutine that has ended.
LEMMA EndedBase ==
    ASSUME Base, TypeOK', Grown, seat' = seat, chan' = chan, calm' => calm,
           NEW k \in Handler, Done(k)
    PROVE  Base'
  <1>1. at'[k].pc = "idle" /\ \A j \in Handler \ {k} : at'[j] = at[j]
    BY DoneFacts DEF Base
  <1>2. HandlerOK(k)'
    BY <1>1 DEF HandlerOK, Busy
  <1>3. QED
    BY <1>1, <1>2, HandlerBase

\* What a fan-out of a record of the game may say.
LEMMA FanOutOK ==
    ASSUME Base, board' # Nil, seat' = seat, chan' = chan, calm' => calm,
           calm => NamedOK',
           NEW k \in Handler, NEW kind \in Kind, NEW u \in Players(board'), NEW r \in Room,
           NEW g \in GameRecord, FanOut(k, kind, u, r, g),
           u \in User, Same(g, board'), Over(g) => g = board',
           kind = "resign" => Over(g), SeatsOK'
    PROVE  HandlerOK(k)'
  <1>1. /\ at'[k].pc = "fan" /\ at'[k].kind = kind /\ at'[k].user = u
        /\ at'[k].game = g /\ at'[k].meta = MetaByGame
    BY FanOutFacts DEF Base
  <1>2. MetaByGame # Nil => MetaByGame = chan /\ chan # Nil
    BY DEF MetaByGame
  <1>3. MetaByGame # Nil => /\ MetaByGame.creator = seat'.creator
                            /\ MetaByGame.room = seat'.room
    BY <1>2 DEF SeatsOK
  <1>4. calm' /\ MetaByGame = Nil => chan' = Nil
    BY NilCommandAssumption DEF MetaByGame, NamedOK
  <1>5. QED
    BY <1>1, <1>3, <1>4 DEF HandlerOK, Busy, LooksOK, CommitsOK, FansOK, Fans

\* Boards are fanned out, or nothing can be drawn.
LEMMA ShowBase ==
    ASSUME Base, TypeOK', Grown, board # Nil, seat' = seat, chan' = chan, calm' => calm,
           NEW k \in Handler, NEW kind \in Kind \ {"resign"}, NEW u \in Players(board),
           NEW r \in Room, NEW g \in GameRecord, ShowBoards(k, kind, u, r, g),
           Same(g, board'), Over(g) => g = board'
    PROVE  Base'
  <1>1. CASE Done(k)
    BY <1>1, EndedBase
  <1>2. CASE FanOut(k, kind, u, r, g)
    <2>1. board' # Nil /\ Players(board') = Players(board) /\ u \in User
      BY BoardFacts, RecordFacts DEF Grown, Same, Players
    <2>2. NamedOK' /\ SeatsOK'
      BY SeatsKept DEF Base, NamedOK
    <2>3. HandlerOK(k)'
      BY <1>2, <2>1, <2>2, FanOutOK
    <2>4. \A j \in Handler \ {k} : at'[j] = at[j]
      BY <1>2, <2>1, FanOutFacts DEF Base
    <2>5. QED
      BY <2>3, <2>4, HandlerBase
  <1>3. QED
    BY <1>1, <1>2 DEF ShowBoards

LEMMA FaultTypes ==
    ASSUME Fault
    PROVE  /\ calm' \in BOOLEAN /\ ~calm' /\ calm /\ raced' \in BOOLEAN
           /\ shown' = {} /\ shown' \in SUBSET (Room \X Nat)
           /\ told' \in [Room -> SUBSET Verdict]
  BY DEF Fault

LEMMA OpenSteps ==
    ASSUME Base, NEW u \in User, NEW r \in Room, Make(u, r) \/ JoinOwn(u, r)
    PROVE  Base'
  <1> USE DEF Base
  <1>1. CASE Make(u, r)
    <2>1. /\ chan' = [state |-> "LOBBY", creator |-> u, room |-> r, rooms |-> {r}]
          /\ seat' = [creator |-> u, room |-> r, joiner |-> NoOne, joined |-> Nil]
          /\ board = Nil /\ UNCHANGED <<solo, board, at, last, polite, sight, calm>>
      BY <1>1 DEF Make
    <2>2. chan' \in Channel /\ seat' \in Seat /\ seat' # Nil
      BY <2>1, NilCommandAssumption DEF Channel, Seat
    <2>3. TypeOK'
      BY <2>1, <2>2 DEF TypeOK, sight
    <2>4. SeatsOK' /\ NamedOK'
      BY <2>1, <2>2 DEF SeatsOK, NamedOK
    <2>5. \A k \in Handler : at[k].pc = "idle"
      BY <2>1 DEF HandlersOK, HandlerOK, Busy
    <2>6. QED
      BY <2>1, <2>3, <2>4, <2>5 DEF HandlersOK, HandlerOK, Busy
  <1>2. CASE JoinOwn(u, r)
    <2>1. /\ chan # Nil /\ chan' = [chan EXCEPT !.rooms = @ \cup {r}]
          /\ board = Nil /\ UNCHANGED <<solo, board, at, watch, calm>>
      BY <1>2 DEF JoinOwn
    <2>2. chan \in Channel
      BY <2>1 DEF TypeOK
    <2>3. chan' \in Channel /\ chan'.creator = chan.creator /\ chan'.room = chan.room
      BY <2>1, <2>2 DEF Channel
    <2>4. TypeOK'
      BY <2>1, <2>3 DEF TypeOK, watch, sight
    <2>5. SeatsOK' /\ NamedOK'
      BY <2>1, <2>3 DEF SeatsOK, NamedOK, watch
    <2>6. \A k \in Handler : at[k].pc = "idle"
      BY <2>1 DEF HandlersOK, HandlerOK, Busy
    <2>7. QED
      BY <2>1, <2>4, <2>5, <2>6 DEF HandlersOK, HandlerOK, Busy
  <1>3. QED
    BY <1>1, <1>2

\* The game that a join starts.
LEMMA StartFacts ==
    ASSUME Base, NEW k \in Handler, NEW u \in User, NEW r \in Room, JoinStarts(k, u, r)
    PROVE  /\ board = Nil /\ board' # Nil /\ board' \in GameRecord /\ EndOK(board')
           /\ board'.moves = << >> /\ ~Over(board') /\ board'.rooms = {chan.room, r}
           /\ Players(board') = {chan.creator, u} /\ chan.creator # u
           /\ chan \in Channel /\ chan # Nil /\ seat \in Seat /\ seat # Nil
           /\ chan.creator = seat.creator /\ chan.room = seat.room
           /\ seat' \in Seat /\ seat' # Nil /\ seat'.creator = seat.creator
           /\ seat'.room = seat.room /\ seat'.joiner = u /\ seat'.joined = r
           /\ \A j \in Handler : at[j].pc = "idle"
  <1>1. /\ board = Nil /\ chan # Nil /\ chan.creator # u
        /\ seat' = [seat EXCEPT !.joiner = u, !.joined = r]
        /\ \/ board' = NewGame(chan.creator, u, {chan.room, r})
           \/ board' = NewGame(u, chan.creator, {chan.room, r})
    BY DEF JoinStarts
  <1>2. chan \in Channel /\ seat \in Seat /\ seat # Nil
        /\ chan.creator = seat.creator /\ chan.room = seat.room
    BY <1>1 DEF Base, TypeOK, SeatsOK
  <1>3. chan.creator \in User /\ {chan.room, r} \in SUBSET Room
    BY <1>2 DEF Channel
  <1>4. /\ board' \in GameRecord /\ EndOK(board') /\ ~Over(board')
        /\ Players(board') = {chan.creator, u} /\ board'.rooms = {chan.room, r}
        /\ board'.moves = << >>
    BY <1>1, <1>3, NewGameFacts
  <1>5. /\ seat' \in Seat /\ seat'.creator = seat.creator
        /\ seat'.room = seat.room /\ seat'.joiner = u /\ seat'.joined = r
    BY <1>1, <1>2 DEF Seat
  <1>6. board' # Nil /\ seat' # Nil
    BY <1>4, <1>5, NilCommandAssumption
  <1>7. \A j \in Handler : at[j].pc = "idle"
    BY <1>1 DEF Base, HandlersOK, HandlerOK, Busy
  <1>8. QED
    BY <1>1, <1>2, <1>4, <1>5, <1>6, <1>7

LEMMA StartStep ==
    ASSUME Base, NEW k \in Handler, NEW u \in User, NEW r \in Room, JoinStarts(k, u, r)
    PROVE  Base'
  <1> DEFINE l == [pc |-> "started", user |-> u, room |-> r]
  <1>1. /\ UNCHANGED <<solo, last, polite>>
        /\ \/ /\ chan' = [chan EXCEPT !.state = "ACTIVE", !.rooms = @ \cup {r}]
              /\ Goto(k, l) /\ UNCHANGED <<sight, calm>>
           \/ /\ chan' = [chan EXCEPT !.rooms = @ \cup {r}]
              /\ Fault /\ UNCHANGED at
    BY DEF JoinStarts
  <1>2. l \in Local
    BY LocalForms
  <1> HIDE DEF l
  <1>3. /\ chan' \in Channel /\ chan' # Nil
        /\ chan'.creator = chan.creator /\ chan'.room = chan.room
    <2>1. chan \in Channel
      BY StartFacts
    <2>2. chan.rooms \cup {r} \in SUBSET Room
      BY <2>1 DEF Channel
    <2>3. /\ chan' \in Channel
          /\ chan'.creator = chan.creator /\ chan'.room = chan.room
      BY <1>1, <2>1, <2>2 DEF Channel
    <2>4. QED
      BY <2>3, NilCommandAssumption
  <1>4. /\ at' \in [Handler -> Local]
        /\ \A j \in Handler \ {k} : at'[j] = at[j]
        /\ at'[k] = l \/ at'[k] = at[k]
    BY <1>1, <1>2, GotoFacts DEF Base, TypeOK
  <1>5. TypeOK'
    BY <1>1, <1>3, <1>4, StartFacts, FaultTypes DEF Base, TypeOK, sight
  <1>6. SeatsOK'
    BY <1>3, StartFacts DEF SeatsOK
  <1>7. NamedOK'
    BY <1>1, StartFacts, FaultTypes DEF NamedOK, Channel
  <1>8. HandlersOK'
    <2>1. l.pc = "started" /\ l.user = u /\ u \in Players(board')
      BY StartFacts DEF l
    <2>2. board' # Nil /\ \A j \in Handler : at[j].pc = "idle"
      BY StartFacts
    <2>3. ASSUME NEW j \in Handler
          PROVE  at'[j].pc = "idle" \/ at'[j] = l
      <3>1. CASE j = k
        BY <1>4, <2>2, <3>1
      <3>2. CASE j # k
        BY <1>4, <2>2, <3>2
      <3>3. QED
        BY <3>1, <3>2
    <2>4. QED
      BY <2>1, <2>2, <2>3 DEF HandlersOK, HandlerOK, Busy, LooksOK, CommitsOK, FansOK, Fans
  <1>9. QED
    BY <1>5, <1>6, <1>7, <1>8 DEF Base

LEMMA FoundFacts ==
    ASSUME Base, NEW u \in User, NEW r \in Room, Found(u, r)
    PROVE  /\ board # Nil /\ board \in GameRecord /\ Active(board) /\ ~Over(board)
           /\ u \in Players(board) /\ r \in board.rooms
           /\ Len(board.moves) \in Nat /\ Same(board, board)
  BY RecordFacts, BoardFacts DEF Found, Same

\* How users behave changes nothing but what is observed of it.
LEMMA BehavesTypes ==
    ASSUME Base, NEW p \in BOOLEAN, Behaves(p)
    PROVE  /\ polite' \in BOOLEAN /\ last' \in [Room -> Nat]
           /\ polite' => polite /\ p /\ last' = last
  BY DEF Behaves, Base, TypeOK

LEMMA ShownTypes ==
    ASSUME Base, NEW k \in Handler, NEW kind \in Kind, NEW u \in User, NEW r \in Room,
           NEW g \in GameRecord, ShowBoards(k, kind, u, r, g)
    PROVE  at' \in [Handler -> Local] /\ \A j \in Handler \ {k} : at'[j] = at[j]
  BY FanOutFacts, DoneFacts DEF ShowBoards, Base

LEMMA LookupSteps ==
    ASSUME Base, NEW k \in Handler, NEW u \in User, NEW r \in Room,
           ShowStatus(k, u, r) \/ BeginMove(k, u, r) \/ BeginResign(k, u, r)
    PROVE  Base'
  <1> USE DEF Base
  <1>1. CASE ShowStatus(k, u, r)
    <2>1. /\ Found(u, r) /\ ShowBoards(k, "status", u, r, board)
          /\ Behaves(InFlight = {}) /\ UNCHANGED <<solo, chan, board, seat, sight, calm>>
      BY <1>1 DEF ShowStatus
    <2>2. at' \in [Handler -> Local]
      BY <2>1, FoundFacts, ShownTypes DEF Kind
    <2>3. TypeOK'
      BY <2>1, <2>2, BehavesTypes DEF TypeOK, sight
    <2>4. QED
      BY <2>1, <2>3, FoundFacts, ShowBase DEF Grown, Kind, sight
  <1>2. CASE BeginMove(k, u, r) \/ BeginResign(k, u, r)
    <2>1. PICK op \in {"move", "resign"} : BeginCall(k, op, u, r)
      BY <1>2 DEF BeginMove, BeginResign
    <2>2. /\ UNCHANGED <<solo, chan, board, seat, sight, calm>>
          /\ polite' \in BOOLEAN /\ last' \in [Room -> Nat]
      <3>1. CASE BeginMove(k, u, r)
        <4>1. MovesPolitely(u, r) \in BOOLEAN
          BY DEF MovesPolitely
        <4>2. QED
          BY <3>1, <4>1, BehavesTypes DEF BeginMove
      <3>2. CASE BeginResign(k, u, r)
        BY <3>2 DEF BeginResign, TypeOK, watch
      <3>3. QED
        BY <1>2, <3>1, <3>2
    <2> DEFINE l == [pc |-> "relook", op |-> op, user |-> u, room |-> r,
                     len |-> LenSeen(board)]
    <2>3. Found(u, r) /\ Goto(k, l) /\ LenSeen(board) = Len(board.moves)
      BY <2>1 DEF BeginCall, LenSeen
    <2>4. l \in Local
      BY <2>3, FoundFacts, LocalForms
    <2>5. l.pc = "relook" /\ l.user = u /\ l.len = Len(board.moves)
      BY <2>3
    <2> HIDE DEF l
    <2>6. at' \in [Handler -> Local] /\ at'[k] = l /\ \A j \in Handler \ {k} : at'[j] = at[j]
      BY <2>3, <2>4, GotoFacts
    <2>7. TypeOK'
      BY <2>2, <2>6 DEF TypeOK, sight
    <2>8. HandlerOK(k)'
      BY <2>2, <2>3, <2>5, <2>6, FoundFacts
         DEF HandlerOK, Busy, LooksOK, CommitsOK, FansOK, Fans
    <2>9. QED
      BY <2>2, <2>6, <2>7, <2>8, HandlerBase DEF Grown
  <1>3. QED
    BY <1>1, <1>2

LEMMA AnnounceStep ==
    ASSUME Base, NEW k \in Handler, Announce(k)
    PROVE  Base'
  <1> USE DEF Base
  <1>1. at[k].pc = "started" /\ UNCHANGED <<solo, chan, board, watch, calm>>
    BY DEF Announce
  <1>2. /\ board # Nil /\ board \in GameRecord /\ at[k].user \in User
        /\ at[k].user \in Players(board) /\ at[k].room \in Room
    BY <1>1, HandlerFacts
  <1>3. \/ Done(k)
        \/ Active(board) /\ ShowBoards(k, "start", at[k].user, at[k].room, board)
    BY DEF Announce
  <1>4. at' \in [Handler -> Local]
    BY <1>2, <1>3, ShownTypes, DoneFacts DEF Kind
  <1>5. TypeOK'
    BY <1>1, <1>4 DEF TypeOK, watch, sight
  <1>6. Grown /\ seat' = seat /\ chan' = chan /\ (calm' => calm) /\ Same(board, board')
    BY <1>1 DEF Grown, watch, Same
  <1>7. CASE Done(k)
    BY <1>5, <1>6, <1>7, EndedBase
  <1>8. CASE ShowBoards(k, "start", at[k].user, at[k].room, board)
    BY <1>1, <1>2, <1>5, <1>6, <1>8, ShowBase DEF Kind
  <1>9. QED
    BY <1>3, <1>7, <1>8

LEMMA SoloSteps ==
    ASSUME Base, NEW u \in User, NEW r \in Room, SoloMove(u, r) \/ SoloResign(u, r)
    PROVE  Base'
  <1>1. /\ solo' = solo \ {<<u, r>>}
        /\ UNCHANGED <<chan, board, at, seat, last, polite>>
        /\ UNCHANGED <<sight, calm>> \/ Fault
    BY DEF SoloMove, SoloResign, watch
  <1>2. TypeOK'
    BY <1>1, FaultTypes DEF Base, TypeOK, sight
  <1>3. calm' => calm
    BY <1>1, FaultTypes
  <1>4. QED
    BY <1>1, <1>2, <1>3, StillBase

LEMMA ForgetStep ==
    ASSUME Base, ForgetChannel
    PROVE  Base'
  <1>1. chan' = Nil /\ UNCHANGED <<solo, board, at, watch, calm>>
    BY DEF ForgetChannel
  <1>2. TypeOK'
    BY <1>1 DEF Base, TypeOK, watch, sight
  <1>3. QED
    BY <1>1, <1>2, StillBase DEF watch

LEMMA CrashStep ==
    ASSUME Base, Crash
    PROVE  Base'
  <1>1. /\ at' = [k \in Handler |-> Idle] /\ Fault
        /\ UNCHANGED <<solo, chan, board, seat, last, polite>>
    BY DEF Crash
  <1>2. TypeOK'
    BY <1>1, FaultTypes, LocalForms DEF Base, TypeOK
  <1>3. SeatsOK' /\ NamedOK'
    BY <1>1, FaultTypes DEF Base, SeatsOK, NamedOK
  <1>4. HandlersOK'
    BY <1>1, LocalForms DEF HandlersOK, HandlerOK, Busy
  <1>5. QED
    BY <1>2, <1>3, <1>4 DEF Base

LEMMA RelookStep ==
    ASSUME Base, NEW k \in Handler, Relook(k)
    PROVE  Base'
  <1> USE DEF Base
  <1> DEFINE l == at[k]
             c == [pc |-> "commit", op |-> l.op, user |-> l.user, room |-> l.room,
                   len |-> l.len, game |-> board]
             g == [pc |-> "lost", user |-> l.user, room |-> l.room]
  <1>1. /\ l.pc = "relook" /\ UNCHANGED <<solo, chan, board, watch, calm>>
        /\ \/ Found(l.user, l.room) /\ Goto(k, c)
           \/ Done(k)
           \/ Goto(k, g)
    BY DEF Relook
  <1>2. /\ l \in Local /\ l.op \in {"move", "resign"} /\ l.len \in Nat
        /\ l.user \in User /\ l.room \in Room /\ l.user \in Players(board)
        /\ board # Nil /\ board \in GameRecord /\ l.len <= Len(board.moves)
    BY <1>1, HandlerFacts, LocalFacts DEF LooksOK
  <1>3. c \in Local /\ g \in Local /\ Idle \in Local
    BY <1>2, LocalForms
  <1>4. /\ c.pc = "commit" /\ c.user = l.user /\ c.len = l.len /\ c.game = board
        /\ g.pc = "lost" /\ g.user = l.user /\ Idle.pc = "idle"
    BY DEF Idle
  <1>5. Same(board, board)
    BY DEF Same
  <1> HIDE DEF c, g
  <1>6. /\ at' \in [Handler -> Local] /\ \A j \in Handler \ {k} : at'[j] = at[j]
        /\ \/ Found(l.user, l.room) /\ at'[k] = c
           \/ at'[k] = Idle
           \/ at'[k] = g
    BY <1>1, <1>3, GotoFacts DEF Done
  <1>7. TypeOK'
    BY <1>1, <1>6 DEF TypeOK, watch, sight
  <1>8. HandlerOK(k)'
    <2>1. CASE at'[k] = c /\ Active(board)
      BY <1>1, <1>2, <1>4, <1>5, <2>1
         DEF HandlerOK, Busy, LooksOK, CommitsOK, FansOK, Fans
    <2>2. CASE at'[k] = Idle \/ at'[k] = g
      BY <1>1, <1>2, <1>4, <2>2 DEF HandlerOK, Busy, LooksOK, CommitsOK, FansOK, Fans
    <2>3. QED
      BY <1>6, <2>1, <2>2 DEF Found
  <1>9. QED
    BY <1>1, <1>6, <1>7, <1>8, HandlerBase DEF Grown, watch

\* What goroutine k has in hand when it calls the manager.
LEMMA CommitFacts ==
    ASSUME Base, NEW k \in Handler, at[k].pc = "commit"
    PROVE  /\ at[k] \in Local /\ at[k].user \in User /\ at[k].room \in Room
           /\ board # Nil /\ board \in GameRecord /\ EndOK(board)
           /\ at[k].user \in Players(board)
           /\ at[k].game \in GameRecord /\ at[k].len \in Nat
           /\ at[k].op \in {"move", "resign"}
           /\ at[k].len <= Len(at[k].game.moves) /\ ~Over(at[k].game)
           /\ Same(at[k].game, board)
           /\ Len(at[k].game.moves) \in Nat /\ Len(board.moves) \in Nat
  BY HandlerFacts, LocalFacts, RecordFacts DEF CommitsOK

\* What is written when goroutine k moves.
LEMMA WriteFacts ==
    ASSUME Base, NEW k \in Handler, at[k].pc = "commit", ~Stale(at[k]),
           board' \in {Played(board, at[k].user, end) : end \in Endings}
                      \cup {Misplayed(board, at[k].user)}
    PROVE  /\ Active(board) /\ board' \in GameRecord /\ board' # Nil /\ EndOK(board')
           /\ Same(board', board) /\ Players(board') = Players(board)
           /\ Len(board'.moves) = Len(board.moves) + 1
           /\ \A i \in 1..Len(board.moves) : board'.moves[i] = board.moves[i]
           /\ board'.status # "RESIGNED"
           /\ at[k].len <= Len(board.moves) /\ at[k].len < Len(board'.moves)
           /\ Len(at[k].game.moves) = Len(board.moves)
           /\ Grown
  <1>1. Active(board) /\ Len(at[k].game.moves) = Len(board.moves)
    BY DEF Stale
  <1>2. /\ board' \in GameRecord /\ EndOK(board') /\ Same(board', board)
        /\ Len(board'.moves) = Len(board.moves) + 1
        /\ \A i \in 1..Len(board.moves) : board'.moves[i] = board.moves[i]
        /\ board'.status # "RESIGNED" \/ board'.status = board.status
    BY CommitFacts, MoveFacts
  <1>3. board'.status # "RESIGNED"
    BY <1>1, <1>2 DEF Active
  <1>4. at[k].len <= Len(board.moves) /\ at[k].len < Len(board'.moves)
    BY <1>1, <1>2, CommitFacts
  <1>5. board' # Nil /\ Players(board') = Players(board)
    BY <1>2, RecordFacts DEF Same, Players
  <1>6. Grown
    BY <1>1, <1>2, CommitFacts DEF Grown
  <1>7. QED
    BY <1>1, <1>2, <1>3, <1>4, <1>5, <1>6

LEMMA MoveStep ==
    ASSUME Base, NEW k \in Handler, CommitMove(k)
    PROVE  Base'
  <1> USE DEF Base
  <1> DEFINE l == at[k]
  <1>1. l.pc = "commit" /\ UNCHANGED <<solo, chan, watch, calm>>
    BY DEF CommitMove
  <1>2. \/ AnswerMove(k, l, l.game) /\ UNCHANGED board
        \/ Done(k) /\ UNCHANGED board
        \/ /\ ~Stale(l)
           /\ board' \in {Played(board, l.user, end) : end \in Endings}
                         \cup {Misplayed(board, l.user)}
           /\ AnswerMove(k, l, board')
    BY DEF CommitMove
  <1>3. PICK g : /\ g \in GameRecord /\ Same(g, board') /\ (Over(g) => g = board')
                 /\ Done(k) \/ ShowBoards(k, "move", l.user, l.room, g)
                 /\ Grown /\ board' \in GameRecord
    <2>1. CASE AnswerMove(k, l, l.game) /\ UNCHANGED board
      <3>1. Same(l.game, board') /\ l.game \in GameRecord /\ ~Over(l.game)
            /\ board' \in GameRecord
        BY <1>1, <2>1, CommitFacts DEF Same
      <3>2. QED
        BY <2>1, <3>1 DEF AnswerMove, Grown
    <2>2. CASE Done(k) /\ UNCHANGED board
      BY <1>1, <2>2, CommitFacts DEF Grown, Same
    <2>3. CASE /\ ~Stale(l)
               /\ board' \in {Played(board, l.user, end) : end \in Endings}
                             \cup {Misplayed(board, l.user)}
               /\ AnswerMove(k, l, board')
      <3>1. board' \in GameRecord /\ Same(board', board') /\ Grown
        BY <1>1, <2>3, WriteFacts DEF Same
      <3>2. QED
        BY <2>3, <3>1 DEF AnswerMove
    <2>4. QED
      BY <1>2, <2>1, <2>2, <2>3
  <1>4. l.user \in User /\ l.room \in Room /\ l.user \in Players(board) /\ board # Nil
    BY <1>1, CommitFacts
  <1>5. at' \in [Handler -> Local]
    BY <1>3, <1>4, ShownTypes, DoneFacts DEF Kind
  <1>6. TypeOK'
    BY <1>1, <1>3, <1>5 DEF TypeOK, watch, sight
  <1>7. CASE Done(k)
    BY <1>1, <1>3, <1>6, <1>7, EndedBase DEF watch
  <1>8. CASE ShowBoards(k, "move", l.user, l.room, g)
    BY <1>1, <1>3, <1>4, <1>6, <1>8, ShowBase DEF Kind, watch
  <1>9. QED
    BY <1>3, <1>7, <1>8

\* A resignation that is announced.
LEMMA ToldBase ==
    ASSUME Base, TypeOK', Grown, board # Nil, seat' = seat, chan' = chan, calm' => calm,
           NEW k \in Handler, NEW u \in Players(board), NEW r \in Room,
           board' \in GameRecord, Over(board'), FanOut(k, "resign", u, r, board')
    PROVE  Base'
  <1>1. board' # Nil /\ Players(board') = Players(board) /\ u \in User
        /\ Same(board', board')
    BY BoardFacts, RecordFacts DEF Grown, Same, Players
  <1>2. NamedOK' /\ SeatsOK'
    BY SeatsKept DEF Base, NamedOK
  <1>3. HandlerOK(k)'
    BY <1>1, <1>2, FanOutOK DEF Kind
  <1>4. \A j \in Handler \ {k} : at'[j] = at[j]
    BY <1>1, FanOutFacts DEF Base, Kind
  <1>5. QED
    BY <1>3, <1>4, HandlerBase

LEMMA GiveUpBase ==
    ASSUME Base, TypeOK', Grown, seat' = seat, chan' = chan, calm' => calm,
           NEW k \in Handler, at[k].pc # "idle", GiveUp(k, at[k])
    PROVE  Base'
  <1> DEFINE g == [pc |-> "lost", user |-> at[k].user, room |-> at[k].room]
  <1>1. board # Nil /\ at[k].user \in Players(board) /\ g \in Local
    BY HandlerFacts, LocalForms
  <1>2. board' # Nil /\ Players(board') = Players(board)
    BY <1>1, RecordFacts DEF Grown, Same, Players
  <1>3. g.pc = "lost" /\ g.user = at[k].user /\ Goto(k, g)
    BY DEF GiveUp
  <1> HIDE DEF g
  <1>4. at'[k] = g /\ \A j \in Handler \ {k} : at'[j] = at[j]
    BY <1>1, <1>3, GotoFacts DEF Base
  <1>5. HandlerOK(k)'
    BY <1>1, <1>2, <1>3, <1>4 DEF HandlerOK, Busy, LooksOK, CommitsOK, FansOK, Fans
  <1>6. QED
    BY <1>4, <1>5, HandlerBase

LEMMA GiveUpTypes ==
    ASSUME Base, NEW k \in Handler, at[k].pc # "idle", GiveUp(k, at[k])
    PROVE  /\ at' \in [Handler -> Local]
           /\ \A j \in Handler \ {k} : at'[j] = at[j]
           /\ at'[k].pc = "lost"
  <1> DEFINE g == [pc |-> "lost", user |-> at[k].user, room |-> at[k].room]
  <1>1. g \in Local /\ Goto(k, g) /\ g.pc = "lost"
    BY HandlerFacts, LocalForms DEF GiveUp
  <1> HIDE DEF g
  <1>2. QED
    BY <1>1, GotoFacts DEF Base

LEMMA ResignStep ==
    ASSUME Base, NEW k \in Handler, CommitResign(k)
    PROVE  Base'
  <1> USE DEF Base
  <1> DEFINE l == at[k]
  <1>1. l.pc = "commit" /\ UNCHANGED <<solo, chan, watch, calm>>
    BY DEF CommitResign
  <1>2. /\ l.user \in User /\ l.room \in Room /\ l.user \in Players(board)
        /\ board # Nil /\ board \in GameRecord /\ EndOK(board)
    BY <1>1, CommitFacts
  <1>3. CASE /\ Active(board)
             /\ board' = Resigned(board, l.user)
             /\ FanOut(k, "resign", l.user, l.room, board')
    <2>1. /\ board' \in GameRecord /\ EndOK(board') /\ Same(board', board)
          /\ board'.moves = board.moves /\ Over(board')
      BY <1>2, <1>3, ResignFacts DEF Over
    <2>2. Grown
      <3>1. Len(board.moves) \in Nat
        BY <1>2, RecordFacts
      <3>2. Len(board'.moves) >= Len(board.moves)
        BY <2>1, <3>1
      <3>3. QED
        BY <1>2, <1>3, <2>1, <3>2 DEF Grown
    <2>3. at' \in [Handler -> Local]
      BY <1>2, <1>3, <2>1, FanOutFacts DEF Kind
    <2>4. TypeOK'
      BY <1>1, <2>1, <2>3 DEF TypeOK, watch, sight
    <2>5. QED
      BY <1>1, <1>2, <1>3, <2>1, <2>2, <2>4, ToldBase DEF watch
  <1>4. CASE GiveUp(k, l) /\ UNCHANGED board
    <2>1. at' \in [Handler -> Local]
      BY <1>1, <1>4, GiveUpTypes
    <2>2. TypeOK'
      BY <1>1, <1>4, <2>1 DEF TypeOK, watch, sight
    <2>3. QED
      BY <1>1, <1>4, <2>2, GiveUpBase DEF Grown, watch
  <1>5. QED
    BY <1>3, <1>4 DEF CommitResign

LEMMA LostStep ==
    ASSUME Base, NEW k \in Handler, Lost(k)
    PROVE  Base'
  <1> USE DEF Base
  <1> DEFINE l == at[k]
  <1>1. /\ l.pc = "lost"
        /\ UNCHANGED <<solo, chan, board, seat, last, polite, shown, told, calm>>
        /\ \/ Over(board) /\ FanOut(k, "resign", l.user, l.room, board)
           \/ Done(k)
        /\ raced' \in BOOLEAN
    BY DEF Lost, TypeOK
  <1>2. /\ l.user \in User /\ l.room \in Room /\ l.user \in Players(board)
        /\ board # Nil /\ board \in GameRecord
    BY <1>1, HandlerFacts
  <1>3. at' \in [Handler -> Local]
    BY <1>1, <1>2, FanOutFacts, DoneFacts DEF Kind
  <1>4. TypeOK'
    BY <1>1, <1>3 DEF TypeOK
  <1>5. CASE Over(board) /\ FanOut(k, "resign", l.user, l.room, board)
    <2>1. FanOut(k, "resign", l.user, l.room, board') /\ board' \in GameRecord /\ Over(board')
      BY <1>1, <1>2, <1>5
    <2>2. QED
      BY <1>1, <1>2, <1>4, <2>1, ToldBase DEF Grown
  <1>6. CASE Done(k)
    BY <1>1, <1>4, <1>6, EndedBase DEF Grown
  <1>7. QED
    BY <1>1, <1>5, <1>6

-----------------------------------------------------------------------------
(* Sends and faults. *)

\* A goroutine in a fan-out, and the room it serves next.
LEMMA FanFacts ==
    ASSUME Base, NEW k \in Handler, at[k].pc = "fan"
    PROVE  /\ at[k] \in Local /\ at[k].user \in User /\ at[k].room \in Room
           /\ at[k].game \in GameRecord /\ at[k].kind \in Kind
           /\ at[k].meta \in Channel \cup {Nil} /\ at[k].todo \in SUBSET Room
           /\ NextRoom(at[k]) \subseteq at[k].todo
           /\ board # Nil /\ board \in GameRecord /\ EndOK(board)
           /\ at[k].user \in Players(board)
           /\ Same(at[k].game, board) /\ FansOK(k)
           /\ Len(at[k].game.moves) \in Nat
           /\ at[k].game.outcome \in {"", "white", "black", "draw", "resign"}
  <1>1. /\ at[k] \in Local /\ at[k].user \in User /\ at[k].room \in Room
        /\ at[k].game \in GameRecord /\ at[k].kind \in Kind
        /\ at[k].meta \in Channel \cup {Nil} /\ at[k].todo \in SUBSET Room
    BY HandlerFacts, LocalFacts
  <1>2. NextRoom(at[k]) \subseteq at[k].todo
    BY DEF NextRoom
  <1>3. /\ board # Nil /\ board \in GameRecord /\ EndOK(board)
        /\ at[k].user \in Players(board)
        /\ Same(at[k].game, board) /\ FansOK(k)
    BY HandlerFacts DEF FansOK, Fans
  <1>4. /\ Len(at[k].game.moves) \in Nat
        /\ at[k].game.outcome \in {"", "white", "black", "draw", "resign"}
    <2>1. at[k].game \in GameRecord
      BY <1>1
    <2>2. at[k].game.outcome \in {"", "white", "black", "draw", "resign"}
      BY <2>1 DEF GameRecord
    <2>3. QED
      BY <2>1, <2>2, RecordFacts
  <1>5. QED
    BY <1>1, <1>2, <1>3, <1>4

\* What is left of a fan-out after a send.
LEMMA DeliveredFacts ==
    ASSUME Base, NEW k \in Handler, at[k].pc = "fan", NEW r \in NextRoom(at[k]),
           Delivered(k, at[k], r)
    PROVE  /\ at' \in [Handler -> Local]
           /\ \A j \in Handler \ {k} : at'[j] = at[j]
           /\ \/ at'[k].pc = "idle" /\ at[k].todo = {r}
              \/ /\ at'[k].pc = "fan" /\ at'[k].kind = at[k].kind
                 /\ at'[k].user = at[k].user /\ at'[k].room = at[k].room
                 /\ at'[k].game = at[k].game /\ at'[k].meta = at[k].meta
                 /\ at'[k].todo = at[k].todo \ {r}
  <1> DEFINE m == [at[k] EXCEPT !.todo = @ \ {r}]
  <1>1. at[k] \in Local
    BY FanFacts
  <1>2. /\ m \in Local /\ m.pc = "fan" /\ m.kind = at[k].kind /\ m.user = at[k].user
        /\ m.room = at[k].room /\ m.game = at[k].game /\ m.meta = at[k].meta
        /\ m.todo = at[k].todo \ {r}
    BY <1>1, FanLess
  <1>3. \/ at[k].todo = {r} /\ Goto(k, Idle)
        \/ Goto(k, m)
    BY DEF Delivered
  <1> HIDE DEF m
  <1>4. CASE at[k].todo = {r} /\ Goto(k, Idle)
    BY <1>4, GotoFacts, LocalForms DEF Base
  <1>5. CASE Goto(k, m)
    BY <1>2, <1>5, GotoFacts DEF Base
  <1>6. QED
    BY <1>3, <1>4, <1>5

\* What the observers see of a send is of their types.
LEMMA SeesTypes ==
    ASSUME Base, NEW r \in Room, NEW texts \in SUBSET Verdict, NEW boards \in SUBSET Nat,
           Fault \/ Sees(r, texts, boards)
    PROVE  /\ shown' \in SUBSET (Room \X Nat) /\ told' \in [Room -> SUBSET Verdict]
           /\ raced' \in BOOLEAN /\ calm' \in BOOLEAN /\ (calm' => calm)
  <1>1. /\ shown \in SUBSET (Room \X Nat) /\ told \in [Room -> SUBSET Verdict]
        /\ raced \in BOOLEAN /\ calm \in BOOLEAN
    BY DEF Base, TypeOK
  <1>2. CASE Fault
    BY <1>2, FaultTypes
  <1>3. CASE Sees(r, texts, boards)
    <2>1. told' \in [Room -> SUBSET Verdict] /\ raced' = raced /\ calm' = calm
      BY <1>1, <1>3 DEF Sees
    <2>2. {r} \X boards \in SUBSET (Room \X Nat)
      OBVIOUS
    <2>3. shown' \in SUBSET (Room \X Nat)
      BY <1>1, <1>3, <2>2 DEF Sees
    <2>4. QED
      BY <1>1, <2>1, <2>3
  <1>4. QED
    BY <1>2, <1>3

LEMMA TextTypes ==
    ASSUME Base, NEW k \in Handler, at[k].pc = "fan"
    PROVE  /\ MoveText(at[k]) \in SUBSET Verdict
           /\ \A r \in Room : Word(at[k], r) \in {"winner", "loser"}
           /\ \A r \in Room : Says(at[k], r) \in SUBSET Verdict
  <1>1. at[k].game.status = "FINISHED" => at[k].game.outcome \in Color
    BY FanFacts DEF FansOK, Fans, Over, EndOK
  <1>2. MoveText(at[k]) \in SUBSET Verdict
    BY <1>1 DEF MoveText, Verdict, Color, White, Black
  <1>3. \A r \in Room : Word(at[k], r) \in {"winner", "loser"}
    BY DEF Word
  <1>4. QED
    BY <1>2, <1>3 DEF Says, Verdict

\* A send changes what is left to do, and what is seen.
LEMMA SentBase ==
    ASSUME Base, TypeOK', UNCHANGED <<solo, chan, board, seat, polite>>, calm' => calm,
           NEW k \in Handler, at[k].pc = "fan", NEW r \in NextRoom(at[k]),
           Delivered(k, at[k], r)
    PROVE  Base'
  <1>1. Grown /\ seat' = seat /\ chan' = chan /\ board' = board
    BY DEF Grown
  <1>2. HandlerOK(k)'
    <2>1. CASE at'[k].pc = "idle"
      BY <2>1 DEF HandlerOK, Busy
    <2>2. CASE at'[k].pc # "idle"
      <3>1. /\ at'[k].pc = "fan" /\ at'[k].kind = at[k].kind
            /\ at'[k].user = at[k].user
            /\ at'[k].game = at[k].game /\ at'[k].meta = at[k].meta
        BY <2>2, DeliveredFacts
      <3>2. board # Nil /\ at[k].user \in Players(board) /\ FansOK(k)
        BY FanFacts
      <3>3. FansOK(k)'
        BY <1>1, <3>1, <3>2 DEF FansOK, Fans
      <3>4. QED
        BY <1>1, <3>1, <3>2, <3>3 DEF HandlerOK, Busy, LooksOK, CommitsOK
    <2>3. QED
      BY <2>1, <2>2
  <1>3. \A j \in Handler \ {k} : at'[j] = at[j]
    BY DeliveredFacts
  <1>4. QED
    BY <1>1, <1>2, <1>3, HandlerBase

\* A board that is sent: what becomes of the room that comes next.
LEMMA SendBoardFacts ==
    ASSUME Base, NEW k \in Handler, SendBoard(k)
    PROVE  /\ at[k].pc = "fan" /\ at[k].kind # "resign"
           /\ UNCHANGED <<solo, chan, board, seat, polite>>
           /\ \E r \in NextRoom(at[k]) :
                 /\ Delivered(k, at[k], r)
                 /\ last' \in [Room -> Nat]
                 /\ \A s \in Room \ {r} : last'[s] = last[s]
                 /\ last'[r] = last[r] \/ last'[r] = Len(at[k].game.moves)
                 /\ \/ Fault
                    \/ Sees(r, MoveText(at[k]),
                            IF OwnSide(at[k], r) THEN {Len(at[k].game.moves)} ELSE {})
  <1> DEFINE l    == at[k]
             text == MoveText(l)
             ply  == Len(l.game.moves)
  <1>1. /\ l.pc = "fan" /\ l.kind # "resign"
        /\ UNCHANGED <<solo, chan, board, seat, polite>>
    BY DEF SendBoard
  <1>2. PICK r \in NextRoom(l), o \in Board(text # {}) :
           /\ Delivered(k, l, r)
           /\ last' = [last EXCEPT ![r] = IF polite /\ o.boards > 0 THEN ply ELSE @]
           /\ IF o.boards = 0 \/ (text # {} /\ o.texts = 0) THEN Fault
              ELSE Sees(r, text, IF OwnSide(l, r) THEN {ply} ELSE {})
    BY DEF SendBoard
  <1>3. ply \in Nat /\ r \in Room /\ last \in [Room -> Nat]
    BY <1>1, FanFacts DEF Base, TypeOK
  <1> HIDE DEF text, ply
  <1>5. /\ last' \in [Room -> Nat]
        /\ \A s \in Room \ {r} : last'[s] = last[s]
        /\ last'[r] = last[r] \/ last'[r] = ply
    BY <1>2, <1>3
  <1>6. \/ Fault
        \/ Sees(r, text, IF OwnSide(l, r) THEN {ply} ELSE {})
    BY <1>2
  <1>7. QED
    BY <1>1, <1>2, <1>5, <1>6 DEF text, ply

LEMMA BoardStep ==
    ASSUME Base, NEW k \in Handler, SendBoard(k)
    PROVE  Base'
  <1> DEFINE l      == at[k]
             Drawn(r) == IF OwnSide(l, r) THEN {Len(l.game.moves)} ELSE {}
  <1>1. l.pc = "fan" /\ UNCHANGED <<solo, chan, board, seat, polite>>
    BY SendBoardFacts
  <1>2. PICK r \in NextRoom(l) : /\ Delivered(k, l, r) /\ last' \in [Room -> Nat]
                                 /\ Fault \/ Sees(r, MoveText(l), Drawn(r))
    BY SendBoardFacts
  <1>3. r \in Room /\ Drawn(r) \in SUBSET Nat /\ MoveText(l) \in SUBSET Verdict
    BY <1>1, FanFacts, TextTypes
  <1> HIDE DEF Drawn
  <1>4. /\ shown' \in SUBSET (Room \X Nat) /\ told' \in [Room -> SUBSET Verdict]
        /\ raced' \in BOOLEAN /\ calm' \in BOOLEAN /\ (calm' => calm)
    BY <1>2, <1>3, SeesTypes
  <1>5. at' \in [Handler -> Local]
    BY <1>1, <1>2, DeliveredFacts
  <1>6. TypeOK'
    BY <1>1, <1>2, <1>4, <1>5 DEF Base, TypeOK
  <1>7. QED
    BY <1>1, <1>2, <1>4, <1>6, SentBase

\* A resignation that is sent.
LEMMA SendResignationFacts ==
    ASSUME Base, NEW k \in Handler, SendResignation(k)
    PROVE  /\ at[k].pc = "fan" /\ at[k].kind = "resign"
           /\ UNCHANGED <<solo, chan, board, seat, last, polite>>
           /\ \E r \in NextRoom(at[k]) :
                 /\ Delivered(k, at[k], r)
                 /\ Fault \/ Sees(r, {Word(at[k], r)}, {})
  BY DEF SendResignation

LEMMA ResignationStep ==
    ASSUME Base, NEW k \in Handler, SendResignation(k)
    PROVE  Base'
  <1> DEFINE l == at[k]
  <1>1. l.pc = "fan" /\ UNCHANGED <<solo, chan, board, seat, last, polite>>
    BY SendResignationFacts
  <1>2. PICK r \in NextRoom(l) : Delivered(k, l, r) /\ (Fault \/ Sees(r, {Word(l, r)}, {}))
    BY SendResignationFacts
  <1>3. r \in Room /\ {Word(l, r)} \in SUBSET Verdict
    BY <1>1, FanFacts, TextTypes DEF Verdict
  <1>4. /\ shown' \in SUBSET (Room \X Nat) /\ told' \in [Room -> SUBSET Verdict]
        /\ raced' \in BOOLEAN /\ calm' \in BOOLEAN /\ (calm' => calm)
    BY <1>2, <1>3, SeesTypes
  <1>5. at' \in [Handler -> Local]
    BY <1>1, <1>2, DeliveredFacts
  <1>6. TypeOK'
    BY <1>1, <1>4, <1>5 DEF Base, TypeOK
  <1>7. QED
    BY <1>1, <1>2, <1>4, <1>6, SentBase

LEMMA FailSteps ==
    ASSUME Base, NEW k \in Handler,
           LookupFails(k) \/ CommitFails(k) \/ RenderFails(k)
    PROVE  Base'
  <1> USE DEF Base
  <1> DEFINE l == at[k]
  <1>1. /\ at[k].pc # "idle" /\ Fault /\ UNCHANGED <<solo, chan, seat, last, polite>>
        /\ GiveUp(k, l) \/ Done(k)
    BY DEF LookupFails, CommitFails, RenderFails
  <1>2. Grown /\ board' \in GameRecord
    <2>1. CASE UNCHANGED board
      BY <1>1, <2>1, HandlerFacts DEF Grown
    <2>2. CASE /\ l.pc = "commit" /\ Active(board) /\ board' = Resigned(board, l.user)
      <3>1. /\ board' \in GameRecord /\ EndOK(board') /\ Same(board', board)
            /\ board'.moves = board.moves
        BY <2>2, CommitFacts, ResignFacts
      <3>2. Len(board.moves) \in Nat /\ board # Nil
        BY <2>2, CommitFacts
      <3>3. QED
        BY <2>2, <3>1, <3>2 DEF Grown
    <2>3. CASE /\ l.pc = "commit" /\ ~Stale(l)
               /\ board' \in {Played(board, l.user, end) : end \in Endings}
      BY <2>3, WriteFacts
    <2>4. QED
      BY <2>1, <2>2, <2>3 DEF LookupFails, CommitFails, RenderFails
  <1>3. at' \in [Handler -> Local]
    BY <1>1, GiveUpTypes, DoneFacts
  <1>4. TypeOK'
    BY <1>1, <1>2, <1>3, FaultTypes DEF TypeOK
  <1>5. calm' => calm
    BY <1>1, FaultTypes
  <1>6. QED
    BY <1>1, <1>2, <1>4, <1>5, EndedBase, GiveUpBase

LEMMA BaseInit == Init => Base
  <1> SUFFICES ASSUME Init PROVE Base
    OBVIOUS
  <1>1. TypeOK
    BY LocalForms DEF Init, TypeOK
  <1>2. SeatsOK /\ NamedOK
    BY DEF Init, SeatsOK, NamedOK
  <1>3. HandlersOK
    BY LocalForms DEF Init, HandlersOK, HandlerOK, Busy
  <1>4. QED
    BY <1>1, <1>2, <1>3 DEF Base

LEMMA BaseStep == Base /\ [Next]_vars => Base'
  <1> SUFFICES ASSUME Base, [Next]_vars PROVE Base'
    OBVIOUS
  <1>1. CASE UNCHANGED vars
    <2>1. /\ at' = at /\ board' = board /\ seat' = seat /\ chan' = chan /\ calm' = calm
          /\ solo' = solo /\ shown' = shown /\ last' = last /\ told' = told
          /\ raced' = raced /\ polite' = polite
      BY <1>1 DEF vars, watch, sight
    <2>2. TypeOK'
      BY <2>1 DEF Base, TypeOK
    <2>3. QED
      BY <2>1, <2>2, StillBase
  <1>2. ASSUME NEW u \in User, NEW r \in Room,
               \/ Make(u, r) \/ JoinOwn(u, r) \/ SoloMove(u, r) \/ SoloResign(u, r)
               \/ \E k \in Handler :
                     \/ JoinStarts(k, u, r)
                     \/ ShowStatus(k, u, r) \/ BeginMove(k, u, r) \/ BeginResign(k, u, r)
        PROVE  Base'
    BY <1>2, OpenSteps, SoloSteps, StartStep, LookupSteps
  <1>3. ASSUME NEW k \in Handler,
               \/ Announce(k)
               \/ Relook(k) \/ CommitMove(k) \/ CommitResign(k) \/ Lost(k)
               \/ SendBoard(k) \/ SendResignation(k)
               \/ LookupFails(k) \/ CommitFails(k) \/ RenderFails(k)
        PROVE  Base'
    BY <1>3, AnnounceStep, RelookStep, MoveStep, ResignStep, LostStep, BoardStep,
       ResignationStep, FailSteps
  <1>4. QED
    BY <1>1, <1>2, <1>3, CrashStep, ForgetStep DEF Next

-----------------------------------------------------------------------------
(* Every position is shown in both rooms, or on its way there. *)

\* A step of goroutine k is a step of no other.
LEMMA OthersKept ==
    ASSUME Base, NEW k \in Handler, NEW u, NEW r,
           \/ JoinStarts(k, u, r) \/ ShowStatus(k, u, r)
           \/ BeginMove(k, u, r) \/ BeginResign(k, u, r)
           \/ Announce(k) \/ Relook(k) \/ CommitMove(k) \/ CommitResign(k) \/ Lost(k)
           \/ SendBoard(k) \/ SendResignation(k)
    PROVE  \A j \in Handler \ {k} : at'[j] = at[j]
  <1>1. at \in [Handler -> Local]
    BY DEF Base, TypeOK
  <1>2. ASSUME NEW l, Goto(k, l)
        PROVE  \A j \in Handler \ {k} : at'[j] = at[j]
    BY <1>1, <1>2 DEF Goto
  <1>3. ASSUME NEW kind, NEW v, NEW s, NEW g, ShowBoards(k, kind, v, s, g)
        PROVE  \A j \in Handler \ {k} : at'[j] = at[j]
    BY <1>2, <1>3 DEF ShowBoards, FanOut, Done
  <1>4. CASE JoinStarts(k, u, r)
    BY <1>2, <1>4 DEF JoinStarts
  <1>5. CASE ShowStatus(k, u, r) \/ Announce(k)
    BY <1>2, <1>3, <1>5 DEF ShowStatus, Announce, Done
  <1>6. CASE BeginMove(k, u, r) \/ BeginResign(k, u, r)
    BY <1>2, <1>6 DEF BeginMove, BeginResign, BeginCall
  <1>7. CASE Relook(k) \/ Lost(k)
    BY <1>2, <1>7 DEF Relook, Lost, FanOut, Done
  <1>8. CASE CommitMove(k)
    BY <1>2, <1>3, <1>8 DEF CommitMove, AnswerMove, Done
  <1>9. CASE CommitResign(k)
    BY <1>2, <1>9 DEF CommitResign, FanOut, GiveUp
  <1>10. CASE SendBoard(k) \/ SendResignation(k)
    BY <1>2, <1>10 DEF SendBoard, SendResignation, Delivered
  <1>11. QED
    BY <1>4, <1>5, <1>6, <1>7, <1>8, <1>9, <1>10

\* A step that draws nothing, writes no move and hides nothing.
LEMMA PositionsFrame ==
    ASSUME PositionsOK, calm' => calm /\ shown \subseteq shown',
           board' # Nil => /\ board # Nil /\ board'.moves = board.moves
                           /\ board'.rooms = board.rooms,
           \A j \in Handler : Draws(j) => at'[j] = at[j]
    PROVE  PositionsOK'
  <1> SUFFICES ASSUME calm', board' # Nil,
                      NEW n \in 1..Len(board'.moves), NEW r \in board'.rooms,
                      \A i \in 1..n : board'.moves[i].legal
               PROVE  \/ <<r, n>> \in shown'
                      \/ \E k \in Handler : /\ Draws(k)' /\ r \in at'[k].todo
                                            /\ Len(at'[k].game.moves) = n
    BY DEF PositionsOK
  <1>1. \/ <<r, n>> \in shown
        \/ \E k \in Handler : /\ Draws(k) /\ r \in at[k].todo
                              /\ Len(at[k].game.moves) = n
    BY DEF PositionsOK
  <1>2. ASSUME NEW k \in Handler, Draws(k)
        PROVE  Draws(k)' /\ at'[k] = at[k]
    BY <1>2 DEF Draws, Fans
  <1>3. QED
    BY <1>1, <1>2

\* The sides are told apart by the channel.
LEMMA ViewerFacts ==
    ASSUME Base, NEW k \in Handler, Fans(k), at[k].meta # Nil
    PROVE  \A r : Viewer(at[k].game, at[k].meta, r) = RoomOwner(r)
  <1>1. /\ at[k].meta.creator = seat.creator /\ at[k].meta.room = seat.room
        /\ Same(at[k].game, board) /\ board # Nil
    BY FanFacts DEF FansOK, Fans
  <1>2. /\ {at[k].game.white, at[k].game.black} = {seat.creator, seat.joiner}
        /\ seat.creator # seat.joiner
    BY <1>1, BoardFacts DEF Same, Players
  <1>3. QED
    BY <1>1, <1>2 DEF Viewer, RoomOwner

LEMMA PositionsKept ==
    ASSUME Base, PositionsOK, NEW u \in User, NEW r \in Room, NEW k \in Handler,
           \/ ShowStatus(k, u, r) \/ BeginMove(k, u, r) \/ BeginResign(k, u, r)
           \/ Announce(k) \/ Relook(k) \/ CommitResign(k) \/ Lost(k) \/ SendResignation(k)
    PROVE  PositionsOK'
  <1>1. \A j \in Handler \ {k} : at'[j] = at[j]
    BY OthersKept
  <1>2. ~Draws(k)
    BY DEF Draws, Fans, ShowStatus, BeginMove, BeginResign, BeginCall, Announce, Relook,
           CommitResign, Lost, SendResignation
  <1>3. \A j \in Handler : Draws(j) => at'[j] = at[j]
    BY <1>1, <1>2
  <1>4. calm' => calm /\ shown \subseteq shown'
    <2>1. CASE SendResignation(k)
      BY <2>1, FaultTypes DEF SendResignation, Sees
    <2>2. CASE ~SendResignation(k)
      BY <2>2 DEF ShowStatus, BeginMove, BeginResign, Announce, Relook,
                  CommitResign, Lost, watch, sight
    <2>3. QED
      BY <2>1, <2>2
  <1>5. board' = board \/ CommitResign(k)
    BY DEF ShowStatus, BeginMove, BeginResign, Announce, Relook, Lost, SendResignation
  <1>6. CommitResign(k) => board # Nil /\ board'.moves = board.moves
                           /\ board'.rooms = board.rooms
    <2> SUFFICES ASSUME CommitResign(k)
                 PROVE  board # Nil /\ board'.moves = board.moves
                        /\ board'.rooms = board.rooms
      OBVIOUS
    <2>1. /\ board # Nil /\ board \in GameRecord /\ EndOK(board)
          /\ at[k].user \in Players(board)
      BY CommitFacts DEF CommitResign
    <2>2. board' = board \/ board' = Resigned(board, at[k].user)
      BY DEF CommitResign
    <2>3. QED
      BY <2>1, <2>2, ResignFacts DEF Same
  <1>7. QED
    BY <1>3, <1>4, <1>5, <1>6, PositionsFrame

LEMMA PositionsMoved ==
    ASSUME Base, PositionsOK, NEW k \in Handler, CommitMove(k)
    PROVE  PositionsOK'
  <1> DEFINE l == at[k]
  <1>1. l.pc = "commit" /\ UNCHANGED <<solo, chan, watch, calm>>
    BY DEF CommitMove
  <1>2. calm' = calm /\ shown' = shown /\ ~Draws(k)
    BY <1>1 DEF watch, sight, Draws, Fans
  <1>3. \A j \in Handler \ {k} : at'[j] = at[j]
    BY OthersKept
  <1>4. CASE UNCHANGED board
    BY <1>2, <1>3, <1>4, PositionsFrame
  <1>5. CASE /\ ~Stale(l)
             /\ board' \in {Played(board, l.user, end) : end \in Endings}
                           \cup {Misplayed(board, l.user)}
             /\ AnswerMove(k, l, board')
    <2>1. /\ board' \in GameRecord /\ board'.rooms = board.rooms
          /\ Len(board'.moves) = Len(board.moves) + 1 /\ l.len < Len(board'.moves)
          /\ \A i \in 1..Len(board.moves) : board'.moves[i] = board.moves[i]
      BY <1>1, <1>5, WriteFacts DEF Same
    <2>2. board # Nil /\ Len(board.moves) \in Nat /\ l.user \in User /\ l.room \in Room
          /\ l.len \in Nat
      BY <1>1, CommitFacts
    <2> SUFFICES ASSUME calm', NEW n \in 1..Len(board'.moves), NEW r \in board'.rooms,
                        \A i \in 1..n : board'.moves[i].legal
                 PROVE  \/ <<r, n>> \in shown'
                        \/ \E j \in Handler : /\ Draws(j)' /\ r \in at'[j].todo
                                              /\ Len(at'[j].game.moves) = n
      BY DEF PositionsOK
    <2>3. CASE n <= Len(board.moves)
      <3>1. n \in 1..Len(board.moves) /\ \A i \in 1..n : board.moves[i].legal
        BY <2>1, <2>2, <2>3
      <3>2. \/ <<r, n>> \in shown
            \/ \E j \in Handler : /\ Draws(j) /\ r \in at[j].todo
                                  /\ Len(at[j].game.moves) = n
        BY <1>2, <2>1, <2>2, <3>1 DEF PositionsOK
      <3>3. ASSUME NEW j \in Handler, Draws(j)
            PROVE  Draws(j)' /\ at'[j] = at[j]
        BY <1>2, <1>3, <3>3 DEF Draws, Fans
      <3>4. QED
        BY <1>2, <3>2, <3>3
    <2>4. CASE n = Len(board'.moves)
      <3>1. Replayable(board')
        BY <2>4 DEF Replayable
      <3>2. FanOut(k, "move", l.user, l.room, board')
        BY <1>5, <2>1, <2>2, <3>1 DEF AnswerMove, ShowBoards
      <3>3. /\ at'[k].pc = "fan" /\ at'[k].kind = "move" /\ at'[k].game = board'
            /\ board'.rooms \subseteq at'[k].todo
        BY <2>1, <2>2, <3>2, FanOutFacts DEF Base, Kind
      <3>4. QED
        BY <2>4, <3>3 DEF Draws, Fans
    <2>5. QED
      BY <2>1, <2>2, <2>3, <2>4
  <1>6. QED
    BY <1>4, <1>5 DEF CommitMove

LEMMA PositionsSent ==
    ASSUME Base, PositionsOK, NEW k \in Handler, SendBoard(k)
    PROVE  PositionsOK'
  <1> DEFINE l        == at[k]
             Drawn(r) == IF OwnSide(l, r) THEN {Len(l.game.moves)} ELSE {}
  <1>1. l.pc = "fan" /\ l.kind # "resign" /\ UNCHANGED <<solo, chan, board, seat, polite>>
    BY SendBoardFacts
  <1>2. PICK s \in NextRoom(l) : /\ Delivered(k, l, s)
                                 /\ Fault \/ Sees(s, MoveText(l), Drawn(s))
    BY SendBoardFacts
  <1> SUFFICES ASSUME calm', board' # Nil,
                      NEW n \in 1..Len(board'.moves), NEW r \in board'.rooms,
                      \A i \in 1..n : board'.moves[i].legal
               PROVE  \/ <<r, n>> \in shown'
                      \/ \E j \in Handler : /\ Draws(j)' /\ r \in at'[j].todo
                                            /\ Len(at'[j].game.moves) = n
    BY DEF PositionsOK
  <1>3. calm /\ shown' = shown \cup ({s} \X Drawn(s))
    BY <1>2, FaultTypes DEF Sees
  <1>4. \/ <<r, n>> \in shown
        \/ \E j \in Handler : /\ Draws(j) /\ r \in at[j].todo
                              /\ Len(at[j].game.moves) = n
    BY <1>1, <1>3 DEF PositionsOK
  <1>5. CASE <<r, n>> \in shown
    BY <1>3, <1>5
  <1>6. ASSUME NEW j \in Handler, Draws(j), r \in at[j].todo, Len(at[j].game.moves) = n,
               j # k
        PROVE  Draws(j)' /\ r \in at'[j].todo /\ Len(at'[j].game.moves) = n
    BY <1>6, OthersKept DEF Draws, Fans
  <1>7. CASE r \in l.todo /\ Len(l.game.moves) = n
    <2>1. CASE r = s
      <3>1. OwnSide(l, s)
        <4>1. l.meta = Nil => chan = Nil
          BY <1>1, <1>3, FanFacts DEF FansOK, Fans
        <4>2. l.meta # Nil => Viewer(l.game, l.meta, s) = RoomOwner(s)
          BY <1>1, ViewerFacts DEF Fans
        <4>3. QED
          BY <4>1, <4>2 DEF OwnSide
      <3>2. QED
        BY <1>3, <1>7, <2>1, <3>1
    <2>2. CASE r # s
      <3>1. /\ at'[k].pc = "fan" /\ at'[k].kind = l.kind /\ at'[k].game = l.game
            /\ at'[k].todo = l.todo \ {s}
        <4>1. l.todo # {s}
          BY <1>7, <2>2
        <4>2. QED
          BY <1>1, <1>2, <4>1, DeliveredFacts
      <3>2. QED
        BY <1>1, <1>7, <2>2, <3>1 DEF Draws, Fans
    <2>3. QED
      BY <2>1, <2>2
  <1>8. QED
    BY <1>4, <1>5, <1>6, <1>7

\* The steps outside the goroutines, and those in which something fails.
LEMMA PositionsElsewhere ==
    ASSUME Base, PositionsOK,
           \/ \E u \in User, r \in Room :
                 \/ Make(u, r) \/ JoinOwn(u, r) \/ SoloMove(u, r) \/ SoloResign(u, r)
                 \/ \E k \in Handler : JoinStarts(k, u, r)
           \/ \E k \in Handler : LookupFails(k) \/ CommitFails(k) \/ RenderFails(k)
           \/ Crash \/ ForgetChannel \/ UNCHANGED vars
    PROVE  PositionsOK'
  <1>1. CASE ~calm'
    BY <1>1 DEF PositionsOK
  <1>2. CASE board' = Nil
    BY <1>2 DEF PositionsOK
  <1>3. CASE \E u \in User, r \in Room, k \in Handler : JoinStarts(k, u, r)
    <2>1. Len(board'.moves) = 0
      BY <1>3, StartFacts
    <2>2. QED
      BY <2>1 DEF PositionsOK
  <1>4. CASE calm' = calm /\ shown' = shown /\ board' = board /\ at' = at
    BY <1>4, PositionsFrame
  <1>5. ASSUME NEW u \in User, NEW r \in Room,
               Make(u, r) \/ JoinOwn(u, r) \/ SoloMove(u, r) \/ SoloResign(u, r)
        PROVE  ~calm' \/ board' = Nil
               \/ (calm' = calm /\ shown' = shown /\ board' = board /\ at' = at)
    BY <1>5 DEF Make, JoinOwn, SoloMove, SoloResign, Fault, watch, sight
  <1>6. CASE \E k \in Handler : LookupFails(k) \/ CommitFails(k) \/ RenderFails(k)
    BY <1>1, <1>6 DEF LookupFails, CommitFails, RenderFails, Fault
  <1>7. CASE Crash \/ ForgetChannel \/ UNCHANGED vars
    BY <1>1, <1>4, <1>7 DEF Crash, ForgetChannel, vars, Fault, watch, sight
  <1>8. QED
    BY <1>1, <1>2, <1>3, <1>4, <1>5, <1>6, <1>7

LEMMA PositionsStep == Base /\ PositionsOK /\ [Next]_vars => PositionsOK'
  <1> SUFFICES ASSUME Base, PositionsOK, [Next]_vars PROVE PositionsOK'
    OBVIOUS
  <1>1. ASSUME NEW u \in User, NEW r \in Room, NEW k \in Handler,
               ShowStatus(k, u, r) \/ BeginMove(k, u, r) \/ BeginResign(k, u, r)
        PROVE  PositionsOK'
    BY <1>1, PositionsKept
  <1>2. ASSUME NEW k \in Handler,
               Announce(k) \/ Relook(k) \/ CommitResign(k) \/ Lost(k) \/ SendResignation(k)
        PROVE  PositionsOK'
    <2>1. PICK u \in User, r \in Room : TRUE
      BY <1>2, HandlerFacts DEF Announce, Relook, CommitResign, Lost, SendResignation
    <2>2. QED
      BY <1>2, <2>1, PositionsKept
  <1>3. ASSUME NEW k \in Handler, CommitMove(k) \/ SendBoard(k)
        PROVE  PositionsOK'
    BY <1>3, PositionsMoved, PositionsSent
  <1>4. QED
    BY <1>1, <1>2, <1>3, PositionsElsewhere DEF Next

-----------------------------------------------------------------------------
(* How a game has ended is told in both rooms, or on its way there. *)

\* With the sides of the channel every room is told what its player needs.
LEMMA ViewerIs ==
    ASSUME NEW g, NEW m, m # Nil, NEW s, s.creator # s.joiner,
           Players(g) = {s.creator, s.joiner},
           m.creator = s.creator, m.room = s.room
    PROVE  \A r : Viewer(g, m, r) = IF r = s.room THEN s.creator ELSE s.joiner
  BY DEF Viewer, Players

LEMMA SaysSame ==
    ASSUME NEW l, NEW m, l.kind = m.kind, l.user = m.user, l.game = m.game, l.meta = m.meta
    PROVE  \A r : Says(l, r) = Says(m, r)
  BY DEF Says, Word, MoveText

\* What is said at the end of a move is how the game has ended.
LEMMA MoveTextIs ==
    ASSUME board' \in GameRecord, EndOK(board'), board'.status # "RESIGNED",
           NEW l, l.kind = "move", l.game = board', NEW r
    PROVE  Says(l, r) = Right(r)'
  <1>1. /\ board'.white # board'.black
        /\ board'.status \in {"ACTIVE", "FINISHED", "DRAW"}
    BY DEF EndOK, GameRecord, Status
  <1>2. Says(l, r) = MoveText(l)
    BY DEF Says
  <1>3. CASE board'.status = "ACTIVE"
    BY <1>2, <1>3 DEF MoveText, Right, Over
  <1>4. CASE board'.status = "DRAW"
    BY <1>2, <1>4 DEF MoveText, Right, Over, Ending
  <1>5. CASE board'.status = "FINISHED"
    <2>1. board'.outcome \in {"white", "black"}
          /\ board'.winner = PlayerOf(board', board'.outcome)
      BY <1>5 DEF EndOK, Color, White, Black
    <2>2. Ending(r)' = board'.outcome
      BY <1>1, <1>5, <2>1 DEF Ending, PlayerOf, White, Black
    <2>3. QED
      BY <1>2, <1>5, <2>2 DEF MoveText, Right, Over
  <1>6. QED
    BY <1>1, <1>3, <1>4, <1>5

\* A move that ends the game can be drawn.
LEMMA LastMoveDrawn ==
    ASSUME NEW g \in GameRecord, EndOK(g), Active(g), Replayable(g), NEW u \in User, NEW b,
           b \in {Played(g, u, end) : end \in Endings} \cup {Misplayed(g, u)}, Over(b)
    PROVE  Replayable(b)
  <1>1. g.moves \in Seq(Ply) /\ Len(g.moves) \in Nat /\ g.status = "ACTIVE"
    BY RecordFacts DEF Active
  <1>2. b # Misplayed(g, u)
    <2>1. Misplayed(g, u).status = "ACTIVE"
      BY <1>1 DEF Misplayed, GameRecord
    <2>2. QED
      BY <2>1 DEF Over
  <1>3. PICK end \in Endings : b = Played(g, u, end)
    BY <1>2
  <1>4. b.moves = Append(g.moves, [by |-> u, legal |-> TRUE])
    BY <1>3 DEF Played, Endings, GameRecord
  <1>5. [by |-> u, legal |-> TRUE] \in Ply
    BY DEF Ply
  <1>6. /\ Len(b.moves) = Len(g.moves) + 1
        /\ b.moves[Len(g.moves) + 1] = [by |-> u, legal |-> TRUE]
        /\ \A i \in 1..Len(g.moves) : b.moves[i] = g.moves[i]
    BY <1>1, <1>4, <1>5
  <1>7. QED
    BY <1>1, <1>6 DEF Replayable

\* A step that leaves the game as it is and tells nobody anything: a goroutine
\* that starts to say something says what is right.
LEMMA WordsFrame ==
    ASSUME WordsOK, board' = board, seat' = seat, chan' = chan \/ chan' = Nil,
           told' = told \/ told' = [r \in Room |-> {}],
           calm' => calm /\ told' = told /\ (~raced' => ~raced),
           \A j \in Handler : Fans(j) => at'[j] = at[j],
           \A j \in Handler, r \in board.rooms :
              /\ calm' /\ ~raced' /\ board # Nil /\ chan # Nil
              /\ Fans(j)' /\ ~Fans(j)
              => Says(at'[j], r) \subseteq Right(r)
    PROVE  WordsOK'
  <1>1. board' = Nil => \A r \in Room : told'[r] = {}
    BY DEF WordsOK
  <1> SUFFICES ASSUME calm', board' # Nil, chan' # Nil, NEW r \in board'.rooms
               PROVE  /\ \A v \in Right(r)' :
                           \/ v \in told'[r]
                           \/ \E k \in Handler : /\ Fans(k)' /\ r \in at'[k].todo
                                                 /\ v \in Says(at'[k], r)
                      /\ ~raced' => /\ told'[r] \subseteq Right(r)'
                                    /\ \A k \in Handler :
                                          Fans(k)' => Says(at'[k], r) \subseteq Right(r)'
    BY <1>1 DEF WordsOK
  <1>2. Right(r)' = Right(r)
    BY DEF Right, Ending, RoomOwner
  <1>3. \A j \in Handler : Fans(j) => Fans(j)' /\ at'[j] = at[j]
    BY DEF Fans
  <1>4. /\ \A v \in Right(r) :
             \/ v \in told[r]
             \/ \E k \in Handler : Fans(k) /\ r \in at[k].todo /\ v \in Says(at[k], r)
        /\ ~raced => /\ told[r] \subseteq Right(r)
                     /\ \A k \in Handler : Fans(k) => Says(at[k], r) \subseteq Right(r)
    BY DEF WordsOK
  <1>5. \A v \in Right(r) :
           \/ v \in told'[r]
           \/ \E k \in Handler : /\ Fans(k)' /\ r \in at'[k].todo
                                 /\ v \in Says(at'[k], r)
    BY <1>3, <1>4
  <1>6. ASSUME ~raced'
        PROVE  /\ told'[r] \subseteq Right(r)
               /\ \A k \in Handler : Fans(k)' => Says(at'[k], r) \subseteq Right(r)
    BY <1>3, <1>4, <1>6
  <1>7. QED
    BY <1>2, <1>5, <1>6

\* Boards without a word.
LEMMA WordsKept ==
    ASSUME Base, WordsOK, NEW u \in User, NEW r \in Room, NEW k \in Handler,
           \/ ShowStatus(k, u, r) \/ BeginMove(k, u, r) \/ BeginResign(k, u, r)
           \/ Announce(k) \/ Relook(k)
           \/ CommitMove(k) /\ UNCHANGED board
           \/ CommitResign(k) /\ UNCHANGED board
    PROVE  WordsOK'
  <1>1. \A j \in Handler \ {k} : at'[j] = at[j]
    BY OthersKept
  <1>2. ~Fans(k)
    BY DEF Fans, ShowStatus, BeginMove, BeginResign, BeginCall, Announce, Relook,
           CommitMove, CommitResign
  <1>3. /\ board' = board /\ seat' = seat /\ chan' = chan /\ told' = told
        /\ raced' = raced /\ calm' = calm
    BY DEF ShowStatus, BeginMove, BeginResign, Announce, Relook, CommitMove, CommitResign,
           watch, sight
  <1>4. ASSUME NEW kind \in Kind \ {"resign"}, NEW v \in User, NEW s \in Room,
               NEW g \in GameRecord, kind # "move" \/ Active(g), ShowBoards(k, kind, v, s, g)
        PROVE  Fans(k)' => \A q : Says(at'[k], q) = {}
    <2>1. CASE FanOut(k, kind, v, s, g)
      <3>1. at'[k].kind = kind /\ at'[k].game = g
        BY <2>1, FanOutFacts DEF Base
      <3>2. QED
        BY <1>4, <3>1 DEF Says, MoveText, Active
    <2>2. CASE Done(k)
      BY <2>2, DoneFacts DEF Fans, Base
    <2>3. QED
      BY <1>4, <2>1, <2>2 DEF ShowBoards
  <1>5. ASSUME NEW l \in Local, l.pc # "fan", Goto(k, l)
        PROVE  ~Fans(k)'
    BY <1>5, GotoFacts DEF Fans, Base
  <1>6. Done(k) => ~Fans(k)'
    BY DoneFacts DEF Fans, Base
  <1>7. Fans(k)' => \A q : Says(at'[k], q) = {}
    <2>1. CASE ShowStatus(k, u, r)
      BY <1>4, <2>1, FoundFacts DEF ShowStatus, Kind
    <2>2. CASE BeginMove(k, u, r) \/ BeginResign(k, u, r)
      <3>1. PICK op \in {"move", "resign"} : BeginCall(k, op, u, r)
        BY <2>2 DEF BeginMove, BeginResign
      <3>2. LenSeen(board) \in Nat
        BY <3>1, FoundFacts DEF BeginCall, LenSeen
      <3>3. QED
        BY <1>5, <3>1, <3>2, LocalForms DEF BeginCall
    <2>3. CASE Announce(k)
      <3>1. at[k].user \in User /\ at[k].room \in Room /\ board \in GameRecord
        BY <2>3, HandlerFacts DEF Announce
      <3>2. QED
        BY <1>4, <1>6, <2>3, <3>1 DEF Announce, Kind
    <2>4. CASE Relook(k)
      <3>1. /\ at[k].user \in User /\ at[k].room \in Room /\ board \in GameRecord
            /\ at[k].op \in {"move", "resign"} /\ at[k].len \in Nat
        BY <2>4, HandlerFacts, LocalFacts DEF Relook
      <3>2. QED
        BY <1>5, <1>6, <2>4, <3>1, LocalForms DEF Relook
    <2>5. CASE CommitMove(k) /\ UNCHANGED board
      <3>1. /\ at[k].pc = "commit"
            /\ \/ AnswerMove(k, at[k], at[k].game)
               \/ Done(k)
               \/ /\ ~Stale(at[k])
                  /\ board' \in {Played(board, at[k].user, end) : end \in Endings}
                                \cup {Misplayed(board, at[k].user)}
        BY <2>5 DEF CommitMove
      <3>2. /\ at[k].user \in User /\ at[k].room \in Room /\ at[k].game \in GameRecord
            /\ Active(at[k].game) /\ Len(board.moves) \in Nat
        BY <3>1, CommitFacts, RecordFacts
      <3>3. CASE AnswerMove(k, at[k], at[k].game)
        BY <1>4, <1>6, <3>2, <3>3 DEF AnswerMove, Kind
      <3>4. CASE /\ ~Stale(at[k])
                 /\ board' \in {Played(board, at[k].user, end) : end \in Endings}
                               \cup {Misplayed(board, at[k].user)}
        <4>1. Len(board'.moves) = Len(board.moves) + 1
          BY <3>1, <3>4, WriteFacts
        <4>2. QED
          BY <2>5, <3>2, <4>1
      <3>5. QED
        BY <1>6, <3>1, <3>3, <3>4
    <2>6. CASE CommitResign(k) /\ UNCHANGED board
      <3>1. /\ at[k].pc = "commit"
            /\ \/ Active(board) /\ board' = Resigned(board, at[k].user)
               \/ GiveUp(k, at[k])
        BY <2>6 DEF CommitResign
      <3>2. /\ board \in GameRecord /\ EndOK(board) /\ at[k].user \in Players(board)
        BY <3>1, CommitFacts
      <3>3. GiveUp(k, at[k])
        BY <2>6, <3>1, <3>2, ResignFacts DEF Active
      <3>4. QED
        BY <3>1, <3>3, GiveUpTypes DEF Fans
    <2>7. QED
      BY <2>1, <2>2, <2>3, <2>4, <2>5, <2>6
  <1>8. \A j \in Handler : Fans(j) => at'[j] = at[j]
    BY <1>1, <1>2
  <1>9. \A j \in Handler, s \in board.rooms :
           Fans(j)' /\ ~Fans(j) => Says(at'[j], s) \subseteq Right(s)
    BY <1>1, <1>7 DEF Fans
  <1>10. QED
    BY <1>3, <1>8, <1>9, WordsFrame

\* The game is written, and what is said is what has become of it.
LEMMA WordsWritten ==
    ASSUME WordsOK, board # Nil, ~Over(board), board' # Nil, board'.rooms = board.rooms,
           seat' = seat, chan' = chan, calm' = calm, told' = told, raced' = raced,
           NEW k \in Handler, ~Fans(k), \A j \in Handler \ {k} : at'[j] = at[j],
           \A r \in board.rooms : calm /\ chan # Nil =>
               \/ Fans(k)' /\ r \in at'[k].todo /\ Says(at'[k], r) = Right(r)'
               \/ ~Fans(k)' /\ Right(r)' = {}
    PROVE  WordsOK'
  <1> SUFFICES ASSUME calm', chan' # Nil, NEW r \in board'.rooms
               PROVE  /\ \A v \in Right(r)' :
                           \/ v \in told'[r]
                           \/ \E j \in Handler : /\ Fans(j)' /\ r \in at'[j].todo
                                                 /\ v \in Says(at'[j], r)
                      /\ ~raced' => /\ told'[r] \subseteq Right(r)'
                                    /\ \A j \in Handler :
                                          Fans(j)' => Says(at'[j], r) \subseteq Right(r)'
    BY DEF WordsOK
  <1>1. Right(r) = {}
    BY DEF Right
  <1>2. ~raced => /\ told[r] = {}
                  /\ \A j \in Handler : Fans(j) => Says(at[j], r) = {}
    BY <1>1 DEF WordsOK
  <1>3. \/ Fans(k)' /\ r \in at'[k].todo /\ Says(at'[k], r) = Right(r)'
        \/ ~Fans(k)' /\ Right(r)' = {}
    OBVIOUS
  <1>4. \A v \in Right(r)' : Fans(k)' /\ r \in at'[k].todo /\ v \in Says(at'[k], r)
    BY <1>3
  <1>5. ASSUME ~raced', NEW j \in Handler, Fans(j)'
        PROVE  Says(at'[j], r) \subseteq Right(r)'
    <2>1. CASE j = k
      BY <1>3, <1>5, <2>1
    <2>2. CASE j # k
      BY <1>2, <1>5, <2>2 DEF Fans
    <2>3. QED
      BY <2>1, <2>2
  <1>6. QED
    BY <1>2, <1>4, <1>5

LEMMA WordsMoved ==
    ASSUME Base, WordsOK, NEW k \in Handler, CommitMove(k), board' # board
    PROVE  WordsOK'
  <1> DEFINE l == at[k]
  <1>1. /\ l.pc = "commit" /\ UNCHANGED <<solo, chan, watch, calm>>
        /\ ~Stale(l) /\ Replayable(board)
        /\ board' \in {Played(board, l.user, end) : end \in Endings}
                      \cup {Misplayed(board, l.user)}
        /\ AnswerMove(k, l, board')
    BY DEF CommitMove
  <1>2. /\ board \in GameRecord /\ EndOK(board) /\ board # Nil
        /\ l.user \in User /\ l.room \in Room /\ l.len \in Nat
    BY <1>1, CommitFacts
  <1>3. /\ Active(board) /\ board' \in GameRecord /\ board' # Nil /\ EndOK(board')
        /\ board'.rooms = board.rooms /\ board'.status # "RESIGNED"
        /\ l.len < Len(board'.moves)
    BY <1>1, WriteFacts DEF Same
  <1>4. Len(board'.moves) \in Nat /\ ~Over(board)
    BY <1>2, <1>3, RecordFacts
  <1>5. ShowBoards(k, "move", l.user, l.room, board')
    BY <1>1, <1>2, <1>3, <1>4 DEF AnswerMove
  <1>6. ASSUME NEW r \in board.rooms
        PROVE  \/ Fans(k)' /\ r \in at'[k].todo /\ Says(at'[k], r) = Right(r)'
               \/ ~Fans(k)' /\ Right(r)' = {}
    <2>1. CASE Replayable(board')
      <3>1. FanOut(k, "move", l.user, l.room, board')
        BY <1>5, <2>1 DEF ShowBoards
      <3>2. /\ at'[k].pc = "fan" /\ at'[k].kind = "move" /\ at'[k].game = board'
            /\ board'.rooms \subseteq at'[k].todo
        BY <1>2, <1>3, <3>1, FanOutFacts DEF Base, Kind
      <3>3. Says(at'[k], r) = Right(r)'
        BY <1>3, <3>2, MoveTextIs
      <3>4. QED
        BY <1>3, <3>2, <3>3 DEF Fans
    <2>2. CASE ~Replayable(board')
      <3>1. ~Over(board')
        BY <1>1, <1>2, <1>3, <2>2, LastMoveDrawn
      <3>2. Done(k)
        BY <1>5, <2>2 DEF ShowBoards
      <3>3. QED
        BY <3>1, <3>2, DoneFacts DEF Fans, Right, Base
    <2>3. QED
      BY <2>1, <2>2
  <1>7. ~Fans(k)
    BY <1>1 DEF Fans
  <1>8. \A j \in Handler \ {k} : at'[j] = at[j]
    BY OthersKept
  <1>9. /\ seat' = seat /\ chan' = chan /\ calm' = calm /\ told' = told
        /\ raced' = raced
    BY <1>1 DEF watch, sight
  <1>10. QED
    BY <1>2, <1>3, <1>4, <1>6, <1>7, <1>8, <1>9, WordsWritten

\* The word of a resignation is how the game has ended, when the other one won.
LEMMA ResignedWord ==
    ASSUME Base, board # Nil, board' \in GameRecord, Same(board', board), seat' = seat,
           board'.status = "RESIGNED", NEW u \in Players(board), u # board'.winner,
           board'.winner \in Players(board),
           NEW l, l.kind = "resign", l.user = u, l.game = board', l.meta = chan,
           chan # Nil, NEW r
    PROVE  Says(l, r) = Right(r)'
  <1>1. chan.creator = seat.creator /\ chan.room = seat.room
    BY DEF Base, SeatsOK
  <1>2. /\ Players(board') = {seat.creator, seat.joiner}
        /\ Players(board) = {seat.creator, seat.joiner}
        /\ seat.creator # seat.joiner
    BY BoardFacts DEF Same, Players
  <1>3. Viewer(board', chan, r) = RoomOwner(r)
    BY <1>1, <1>2, ViewerIs DEF RoomOwner
  <1>4. RoomOwner(r) = u <=> RoomOwner(r) # board'.winner
    BY <1>2 DEF RoomOwner
  <1>5. Word(l, r) = Ending(r)'
    BY <1>3, <1>4 DEF Word, Ending, RoomOwner
  <1>6. QED
    BY <1>5 DEF Says, Right, Over

LEMMA WordsResigned ==
    ASSUME Base, WordsOK, NEW k \in Handler, CommitResign(k), board' # board
    PROVE  WordsOK'
  <1> DEFINE l == at[k]
  <1>1. /\ l.pc = "commit" /\ UNCHANGED <<solo, chan, watch, calm>>
        /\ Active(board) /\ board' = Resigned(board, l.user)
        /\ FanOut(k, "resign", l.user, l.room, board')
    BY DEF CommitResign
  <1>2. /\ board \in GameRecord /\ EndOK(board) /\ board # Nil
        /\ l.user \in User /\ l.room \in Room /\ l.user \in Players(board)
    BY <1>1, CommitFacts
  <1>3. /\ board' \in GameRecord /\ Same(board', board) /\ board'.status = "RESIGNED"
        /\ board'.winner \in Players(board) /\ board'.winner # l.user
    BY <1>1, <1>2, ResignFacts
  <1>4. board' # Nil /\ ~Over(board) /\ board'.rooms = board.rooms
    BY <1>1, <1>2, <1>3, RecordFacts DEF Same
  <1>5. /\ at'[k].pc = "fan" /\ at'[k].kind = "resign" /\ at'[k].game = board'
        /\ at'[k].user = l.user /\ at'[k].meta = MetaByGame
        /\ board'.rooms \subseteq at'[k].todo
    BY <1>1, <1>2, <1>3, FanOutFacts DEF Base, Kind
  <1>6. ASSUME NEW r \in board.rooms, calm, chan # Nil
        PROVE  Fans(k)' /\ r \in at'[k].todo /\ Says(at'[k], r) = Right(r)'
    <2>1. MetaByGame = chan
      BY <1>2, <1>6 DEF MetaByGame, Base, NamedOK
    <2>2. seat' = seat
      BY <1>1 DEF watch
    <2>3. Says(at'[k], r) = Right(r)'
      BY <1>2, <1>3, <1>5, <1>6, <2>1, <2>2, ResignedWord
    <2>4. QED
      BY <1>4, <1>5, <2>3 DEF Fans
  <1>7. ~Fans(k)
    BY <1>1 DEF Fans
  <1>8. \A j \in Handler \ {k} : at'[j] = at[j]
    BY OthersKept
  <1>9. /\ seat' = seat /\ chan' = chan /\ calm' = calm /\ told' = told
        /\ raced' = raced
    BY <1>1 DEF watch, sight
  <1>10. QED
    BY <1>2, <1>4, <1>6, <1>7, <1>8, <1>9, WordsWritten

LEMMA WordsLost ==
    ASSUME Base, WordsOK, NEW k \in Handler, Lost(k)
    PROVE  WordsOK'
  <1> DEFINE l == at[k]
  <1>1. /\ l.pc = "lost"
        /\ UNCHANGED <<solo, chan, board, seat, last, polite, shown, told, calm>>
    BY DEF Lost
  <1>2. \/ /\ Over(board)
           /\ FanOut(k, "resign", l.user, l.room, board)
           /\ raced' = \/ raced
                       \/ calm /\ board.status # "RESIGNED"
                       \/ calm /\ board.winner = l.user
        \/ Done(k) /\ raced' = raced
    BY DEF Lost
  <1>3. /\ board \in GameRecord /\ EndOK(board) /\ board # Nil
        /\ l.user \in User /\ l.room \in Room /\ l.user \in Players(board)
    BY <1>1, HandlerFacts
  <1>4. \A j \in Handler \ {k} : at'[j] = at[j]
    BY OthersKept
  <1>5. ~Fans(k)
    BY <1>1 DEF Fans
  <1>6. raced \in BOOLEAN /\ calm \in BOOLEAN
    BY DEF Base, TypeOK
  <1>7. ~raced' => ~raced
    BY <1>2, <1>6
  <1>8. ASSUME NEW r \in board.rooms, calm', ~raced', chan # Nil, Fans(k)'
        PROVE  Says(at'[k], r) \subseteq Right(r)
    <2>1. /\ Over(board) /\ FanOut(k, "resign", l.user, l.room, board)
          /\ board.status = "RESIGNED" /\ board.winner # l.user
      BY <1>1, <1>2, <1>6, <1>8, DoneFacts DEF Fans, Base
    <2>2. /\ at'[k].kind = "resign" /\ at'[k].game = board
          /\ at'[k].user = l.user /\ at'[k].meta = MetaByGame
      BY <1>3, <2>1, FanOutFacts DEF Base, Kind
    <2>3. MetaByGame = chan
      BY <1>1, <1>3, <1>8 DEF MetaByGame, Base, NamedOK
    <2>4. board.winner \in Players(board)
      BY <1>3, <2>1 DEF EndOK
    <2>5. Same(board', board) /\ board' = board /\ seat' = seat
      BY <1>1 DEF Same
    <2>6. Says(at'[k], r) = Right(r)'
      BY <1>3, <1>8, <2>1, <2>2, <2>3, <2>4, <2>5, ResignedWord
    <2>7. Right(r)' = Right(r)
      BY <2>5 DEF Right, Ending, RoomOwner
    <2>8. QED
      BY <2>6, <2>7
  <1>9. \A j \in Handler : Fans(j) => at'[j] = at[j]
    BY <1>4, <1>5
  <1>10. \A j \in Handler, r \in board.rooms :
            calm' /\ ~raced' /\ board # Nil /\ chan # Nil /\ Fans(j)' /\ ~Fans(j)
            => Says(at'[j], r) \subseteq Right(r)
    BY <1>4, <1>8 DEF Fans
  <1>11. QED
    BY <1>1, <1>7, <1>9, <1>10, WordsFrame

\* A send tells one room what it has to say there, and leaves the rest.
LEMMA WordsSent ==
    ASSUME Base, WordsOK, NEW k \in Handler, SendBoard(k) \/ SendResignation(k)
    PROVE  WordsOK'
  <1> DEFINE l == at[k]
  <1>1. l.pc = "fan" /\ UNCHANGED <<solo, chan, board, seat, polite>>
    BY DEF SendBoard, SendResignation
  <1>2. PICK s \in NextRoom(l) : /\ Delivered(k, l, s)
                                 /\ Fault \/ \E b : Sees(s, Says(l, s), b)
    <2>1. CASE SendBoard(k)
      BY <2>1, SendBoardFacts DEF Says
    <2>2. CASE SendResignation(k)
      BY <2>2, SendResignationFacts DEF Says
    <2>3. QED
      BY <2>1, <2>2
  <1>3. CASE Fault
    <2>1. board' # Nil /\ ~calm'
      BY <1>1, <1>3, FanFacts, FaultTypes
    <2>2. QED
      BY <2>1 DEF WordsOK
  <1>4. CASE \E b : Sees(s, Says(l, s), b)
    <2>1. /\ told' = [told EXCEPT ![s] = IF calm THEN @ \cup Says(l, s) ELSE @]
          /\ raced' = raced /\ calm' = calm
      BY <1>4 DEF Sees
    <2>2. s \in Room /\ board # Nil /\ board.rooms \in SUBSET Room
      BY <1>1, FanFacts, RecordFacts
    <2>3. told \in [Room -> SUBSET Verdict]
      BY DEF Base, TypeOK
    <2> SUFFICES ASSUME calm', chan' # Nil, NEW r \in board'.rooms
                 PROVE  /\ \A v \in Right(r)' :
                             \/ v \in told'[r]
                             \/ \E j \in Handler : /\ Fans(j)' /\ r \in at'[j].todo
                                                   /\ v \in Says(at'[j], r)
                        /\ ~raced' => /\ told'[r] \subseteq Right(r)'
                                      /\ \A j \in Handler :
                                            Fans(j)' => Says(at'[j], r) \subseteq Right(r)'
      BY <1>1, <2>2 DEF WordsOK
    <2>4. Right(r)' = Right(r)
      BY <1>1 DEF Right, Ending, RoomOwner
    <2>5. /\ \A v \in Right(r) :
               \/ v \in told[r]
               \/ \E j \in Handler : Fans(j) /\ r \in at[j].todo /\ v \in Says(at[j], r)
          /\ ~raced => /\ told[r] \subseteq Right(r)
                       /\ \A j \in Handler : Fans(j) => Says(at[j], r) \subseteq Right(r)
      BY <1>1, <2>1, <2>2 DEF WordsOK
    <2>6. told'[r] = IF r = s THEN told[r] \cup Says(l, s) ELSE told[r]
      BY <1>1, <2>1, <2>2, <2>3
    <2>7. \A j \in Handler \ {k} : at'[j] = at[j]
      BY OthersKept
    <2>8. \/ at'[k].pc = "idle" /\ l.todo = {s}
          \/ /\ at'[k].pc = "fan" /\ at'[k].todo = l.todo \ {s}
             /\ \A q : Says(at'[k], q) = Says(l, q)
      BY <1>1, <1>2, DeliveredFacts, SaysSame
    <2>9. ASSUME NEW v \in Right(r)
          PROVE  \/ v \in told'[r]
                 \/ \E j \in Handler : /\ Fans(j)' /\ r \in at'[j].todo
                                       /\ v \in Says(at'[j], r)
      <3>1. CASE v \in told[r]
        BY <2>6, <3>1
      <3>2. ASSUME NEW j \in Handler, j # k, Fans(j), r \in at[j].todo, v \in Says(at[j], r)
            PROVE  Fans(j)' /\ r \in at'[j].todo /\ v \in Says(at'[j], r)
        BY <2>7, <3>2 DEF Fans
      <3>3. CASE r \in l.todo /\ v \in Says(l, r)
        BY <2>6, <2>8, <3>3 DEF Fans
      <3>4. QED
        BY <2>5, <3>1, <3>2, <3>3
    <2>10. ASSUME ~raced'
           PROVE  /\ told'[r] \subseteq Right(r)
                  /\ \A j \in Handler : Fans(j)' => Says(at'[j], r) \subseteq Right(r)
      <3>1. Fans(k)
        BY <1>1 DEF Fans
      <3>2. told'[r] \subseteq Right(r)
        BY <2>1, <2>5, <2>6, <2>10, <3>1
      <3>3. ASSUME NEW j \in Handler, Fans(j)'
            PROVE  Says(at'[j], r) \subseteq Right(r)
        <4>1. CASE j = k
          BY <2>1, <2>5, <2>8, <2>10, <3>1, <3>3, <4>1 DEF Fans
        <4>2. CASE j # k
          BY <2>1, <2>5, <2>7, <2>10, <3>3, <4>2 DEF Fans
        <4>3. QED
          BY <4>1, <4>2
      <3>4. QED
        BY <3>2, <3>3
    <2>11. QED
      BY <2>4, <2>9, <2>10
  <1>5. QED
    BY <1>2, <1>3, <1>4

LEMMA WordsElsewhere ==
    ASSUME Base, WordsOK,
           \/ \E u \in User, r \in Room :
                 \/ Make(u, r) \/ JoinOwn(u, r) \/ SoloMove(u, r) \/ SoloResign(u, r)
                 \/ \E k \in Handler : JoinStarts(k, u, r)
           \/ \E k \in Handler : LookupFails(k) \/ CommitFails(k) \/ RenderFails(k)
           \/ Crash \/ ForgetChannel \/ UNCHANGED vars
    PROVE  WordsOK'
  <1>1. CASE ~calm' /\ told' = [r \in Room |-> {}]
    BY <1>1 DEF WordsOK
  <1>2. CASE board = Nil /\ board' = Nil /\ told' = told
    BY <1>2 DEF WordsOK
  <1>3. ASSUME NEW k \in Handler, NEW u \in User, NEW r \in Room, JoinStarts(k, u, r),
               calm'
        PROVE  WordsOK'
    <2>1. /\ board = Nil /\ board' # Nil /\ ~Over(board') /\ board'.rooms = {chan.room, r}
          /\ chan \in Channel /\ \A j \in Handler : at[j].pc = "idle"
      BY <1>3, StartFacts
    <2>2. told' = told /\ Goto(k, [pc |-> "started", user |-> u, room |-> r])
      BY <1>3, FaultTypes DEF JoinStarts, sight
    <2>3. \A q \in board'.rooms : told'[q] = {}
      BY <2>1, <2>2 DEF WordsOK, Channel
    <2>4. \A j \in Handler : ~Fans(j)'
      <3>1. at'[k].pc = "started" /\ \A j \in Handler \ {k} : at'[j] = at[j]
        BY <2>2, LocalForms, GotoFacts DEF Base
      <3>2. QED
        BY <2>1, <3>1 DEF Fans
    <2>5. \A q : Right(q)' = {}
      BY <2>1 DEF Right
    <2>6. QED
      BY <2>1, <2>3, <2>4, <2>5 DEF WordsOK
  <1>4. ASSUME NEW k \in Handler, NEW u \in User, NEW r \in Room, JoinStarts(k, u, r),
               ~calm'
        PROVE  WordsOK'
    BY <1>4, StartFacts DEF WordsOK
  <1>5. CASE /\ calm' = calm /\ told' = told /\ raced' = raced /\ board' = board
             /\ seat' = seat /\ at' = at /\ (chan' = chan \/ chan' = Nil)
    BY <1>5, WordsFrame DEF Fans
  <1>6. ASSUME NEW u \in User, NEW r \in Room, Make(u, r) \/ JoinOwn(u, r)
        PROVE  board = Nil /\ board' = Nil /\ told' = told
    BY <1>6 DEF Make, JoinOwn, watch, sight
  <1>7. ASSUME NEW u \in User, NEW r \in Room, SoloMove(u, r) \/ SoloResign(u, r)
        PROVE  WordsOK'
    BY <1>1, <1>5, <1>7, FaultTypes DEF SoloMove, SoloResign, watch, sight, Fault
  <1>8. CASE \E k \in Handler : LookupFails(k) \/ CommitFails(k) \/ RenderFails(k)
    BY <1>1, <1>8 DEF LookupFails, CommitFails, RenderFails, Fault
  <1>9. CASE Crash \/ ForgetChannel \/ UNCHANGED vars
    BY <1>1, <1>5, <1>9 DEF Crash, ForgetChannel, vars, Fault, watch, sight
  <1>10. QED
    BY <1>2, <1>3, <1>4, <1>6, <1>7, <1>8, <1>9

LEMMA WordsStep == Base /\ WordsOK /\ [Next]_vars => WordsOK'
  <1> SUFFICES ASSUME Base, WordsOK, [Next]_vars PROVE WordsOK'
    OBVIOUS
  <1>1. ASSUME NEW u \in User, NEW r \in Room, NEW k \in Handler,
               ShowStatus(k, u, r) \/ BeginMove(k, u, r) \/ BeginResign(k, u, r)
        PROVE  WordsOK'
    BY <1>1, WordsKept
  <1>2. ASSUME NEW k \in Handler, \/ Announce(k) \/ Relook(k)
                                  \/ CommitMove(k) /\ UNCHANGED board
                                  \/ CommitResign(k) /\ UNCHANGED board
        PROVE  WordsOK'
    <2>1. PICK u \in User, r \in Room : TRUE
      BY <1>2, HandlerFacts DEF Announce, Relook, CommitMove, CommitResign
    <2>2. QED
      BY <1>2, <2>1, WordsKept
  <1>3. ASSUME NEW k \in Handler, \/ CommitMove(k) /\ board' # board
                                  \/ CommitResign(k) /\ board' # board
                                  \/ Lost(k) \/ SendBoard(k) \/ SendResignation(k)
        PROVE  WordsOK'
    BY <1>3, WordsMoved, WordsResigned, WordsLost, WordsSent
  <1>4. QED
    BY <1>1, <1>2, <1>3, WordsElsewhere DEF Next

-----------------------------------------------------------------------------
(* Boards come in order while users are polite. *)

\* A step of goroutine k that writes no move and shows nothing.
LEMMA OrderFrame ==
    ASSUME OrderOK, board # Nil, board' # Nil, Same(board', board),
           board'.moves = board.moves, board'.turn = board.turn, seat' = seat,
           polite' => polite /\ last' = last,
           NEW k \in Handler, \A j \in Handler \ {k} : at'[j] = at[j],
           polite' /\ (Moves(k)' \/ Pending(k)') =>
              /\ MoverOK(k)' /\ DrawerOK(k)'
              /\ \A j \in Handler \ {k} : ~Moves(j) /\ ~Pending(j)
    PROVE  OrderOK'
  <1> SUFFICES ASSUME polite'
               PROVE  /\ \A r \in board'.rooms : last'[r] <= Len(board'.moves)
                      /\ \A j \in Handler : MoverOK(j)' /\ DrawerOK(j)'
                      /\ \A i, j \in Handler :
                            /\ Moves(i)' \/ Pending(i)'
                            /\ Moves(j)' \/ Pending(j)'
                            => i = j
    BY DEF OrderOK
  <1>1. /\ \A r \in board.rooms : last[r] <= Len(board.moves)
        /\ \A j \in Handler : MoverOK(j) /\ DrawerOK(j)
        /\ \A i, j \in Handler : (Moves(i) \/ Pending(i)) /\ (Moves(j) \/ Pending(j)) => i = j
        /\ last' = last /\ board'.rooms = board.rooms
        /\ PlayerOf(board', board'.turn) = PlayerOf(board, board.turn)
    BY DEF OrderOK, Same, PlayerOf
  <1>2. ASSUME NEW j \in Handler, j # k
        PROVE  /\ MoverOK(j)' /\ DrawerOK(j)'
               /\ Moves(j)' => Moves(j)
               /\ Pending(j)' => Pending(j)
    <2>1. at'[j] = at[j] /\ MoverOK(j) /\ DrawerOK(j)
      BY <1>1, <1>2
    <2>2. (Moves(j)' <=> Moves(j)) /\ (Pending(j)' <=> Pending(j)) /\ (Draws(j)' <=> Draws(j))
      BY <1>1, <2>1 DEF Moves, Pending, Draws, Fans
    <2>3. MoverOK(j)'
      BY <1>1, <2>1, <2>2 DEF MoverOK, Seated
    <2>4. DrawerOK(j)'
      BY <1>1, <2>1, <2>2 DEF DrawerOK, Seated
    <2>5. QED
      BY <2>2, <2>3, <2>4
  <1>3. MoverOK(k)' /\ DrawerOK(k)'
    BY DEF MoverOK, DrawerOK
  <1>4. \A j \in Handler : MoverOK(j)' /\ DrawerOK(j)'
    BY <1>2, <1>3
  <1>5. ASSUME NEW i \in Handler, NEW j \in Handler,
               Moves(i)' \/ Pending(i)', Moves(j)' \/ Pending(j)'
        PROVE  i = j
    <2>1. CASE i # k /\ j # k
      BY <1>1, <1>2, <1>5, <2>1
    <2>2. CASE i = k \/ j = k
      BY <1>2, <1>5, <2>2
    <2>3. QED
      BY <2>1, <2>2
  <1>6. QED
    BY <1>1, <1>4, <1>5

\* Goroutine k moves, and nobody else is about to.
LEMMA OrderWritten ==
    ASSUME OrderOK, board # Nil, board' # Nil, Same(board', board),
           Len(board.moves) \in Nat, Len(board'.moves) = Len(board.moves) + 1,
           \A r \in board.rooms : last[r] \in Nat,
           seat' = seat, polite' = polite, last' = last,
           NEW k \in Handler, Moves(k), \A j \in Handler \ {k} : at'[j] = at[j],
           polite => ~Moves(k)' /\ DrawerOK(k)'
    PROVE  OrderOK'
  <1> SUFFICES ASSUME polite
               PROVE  /\ \A r \in board'.rooms : last'[r] <= Len(board'.moves)
                      /\ \A j \in Handler : MoverOK(j)' /\ DrawerOK(j)'
                      /\ \A i, j \in Handler :
                            /\ Moves(i)' \/ Pending(i)'
                            /\ Moves(j)' \/ Pending(j)'
                            => i = j
    BY DEF OrderOK
  <1>1. /\ \A r \in board.rooms : last[r] <= Len(board.moves)
        /\ \A j \in Handler \ {k} : ~Moves(j) /\ ~Pending(j)
        /\ board'.rooms = board.rooms
    BY DEF OrderOK, Same
  <1>2. \A j \in Handler \ {k} : ~Moves(j)' /\ ~Pending(j)'
    BY <1>1 DEF Moves, Pending, Draws, Fans
  <1>3. \A j \in Handler : MoverOK(j)' /\ DrawerOK(j)'
    BY <1>2 DEF MoverOK, DrawerOK
  <1>4. \A r \in board'.rooms : last'[r] <= Len(board'.moves)
    BY <1>1
  <1>5. QED
    BY <1>2, <1>3, <1>4

\* A goroutine that neither moves nor draws from here on.
LEMMA OrderEnded ==
    ASSUME Base, OrderOK, board # Nil, board' # Nil, Same(board', board),
           board'.moves = board.moves, board'.turn = board.turn, seat' = seat,
           polite' = polite, last' = last,
           NEW k \in Handler, \A j \in Handler \ {k} : at'[j] = at[j],
           \/ at'[k].pc \in {"idle", "lost"}
           \/ at'[k].pc = "relook" /\ at'[k].op = "resign"
           \/ at'[k].pc = "commit" /\ at'[k].op = "resign"
           \/ at'[k].pc = "fan" /\ at'[k].kind = "resign"
    PROVE  OrderOK'
  <1>1. ~Moves(k)' /\ ~Pending(k)'
    BY DEF Moves, Pending, Draws, Fans
  <1>2. QED
    BY <1>1, OrderFrame

LEMMA OrderResigns ==
    ASSUME Base, OrderOK, NEW u \in User, NEW r \in Room, NEW k \in Handler,
           \/ BeginResign(k, u, r) \/ CommitResign(k) \/ Lost(k) \/ SendResignation(k)
           \/ Relook(k) /\ at[k].op = "resign"
    PROVE  OrderOK'
  <1>1. \A j \in Handler \ {k} : at'[j] = at[j]
    BY OthersKept
  <1>2. seat' = seat /\ polite' = polite /\ last' = last
    BY DEF BeginResign, CommitResign, Lost, SendResignation, Relook, watch
  <1>3. /\ board # Nil /\ board' # Nil /\ Same(board', board)
        /\ board'.moves = board.moves /\ board'.turn = board.turn
    <2>1. board # Nil /\ board \in GameRecord /\ EndOK(board)
      BY FoundFacts, HandlerFacts, BoardFacts
         DEF BeginResign, BeginCall, CommitResign, Lost, SendResignation, Relook
    <2>2. CASE board' = board
      BY <2>1, <2>2 DEF Same
    <2>3. CASE board' # board
      <3>1. at[k].pc = "commit" /\ board' = Resigned(board, at[k].user)
        BY <2>3 DEF BeginResign, CommitResign, Lost, SendResignation, Relook
      <3>2. at[k].user \in Players(board)
        BY <3>1, CommitFacts
      <3>3. QED
        BY <2>1, <3>1, <3>2, ResignFacts, NilCommandAssumption
    <2>4. QED
      BY <2>2, <2>3
  <1>4. \/ at'[k].pc \in {"idle", "lost"}
        \/ at'[k].pc = "relook" /\ at'[k].op = "resign"
        \/ at'[k].pc = "commit" /\ at'[k].op = "resign"
        \/ at'[k].pc = "fan" /\ at'[k].kind = "resign"
    <2>1. CASE BeginResign(k, u, r)
      <3> DEFINE l == [pc |-> "relook", op |-> "resign", user |-> u, room |-> r,
                       len |-> LenSeen(board)]
      <3>1. Found(u, r) /\ Goto(k, l) /\ LenSeen(board) = Len(board.moves)
        BY <2>1 DEF BeginResign, BeginCall, LenSeen
      <3>2. l \in Local /\ l.pc = "relook" /\ l.op = "resign"
        BY <3>1, FoundFacts, LocalForms
      <3> HIDE DEF l
      <3>3. QED
        BY <3>1, <3>2, GotoFacts DEF Base
    <2>2. CASE CommitResign(k)
      <3>1. at[k].pc = "commit" /\ at[k].user \in User /\ at[k].room \in Room
        BY <2>2, CommitFacts DEF CommitResign
      <3>2. CASE GiveUp(k, at[k])
        BY <3>1, <3>2, GiveUpTypes
      <3>3. CASE FanOut(k, "resign", at[k].user, at[k].room, board')
                 /\ board' = Resigned(board, at[k].user)
        <4>1. board' \in GameRecord
          BY <3>1, <3>3, CommitFacts, ResignFacts
        <4>2. QED
          BY <3>1, <3>3, <4>1, FanOutFacts DEF Base, Kind
      <3>4. QED
        BY <2>2, <3>2, <3>3 DEF CommitResign
    <2>3. CASE Lost(k)
      <3>1. /\ at[k].user \in User /\ at[k].room \in Room /\ board \in GameRecord
            /\ FanOut(k, "resign", at[k].user, at[k].room, board) \/ Done(k)
        BY <2>3, HandlerFacts DEF Lost
      <3>2. QED
        BY <3>1, FanOutFacts, DoneFacts DEF Base, Kind
    <2>4. CASE SendResignation(k)
      BY <2>4, SendResignationFacts, DeliveredFacts
    <2>5. CASE Relook(k) /\ at[k].op = "resign"
      <3>1. at[k].pc = "relook" /\ at[k] \in Local
        BY <2>5, HandlerFacts DEF Relook
      <3> DEFINE c == [pc |-> "commit", op |-> "resign", user |-> at[k].user,
                       room |-> at[k].room, len |-> at[k].len, game |-> board]
                 g == [pc |-> "lost", user |-> at[k].user, room |-> at[k].room]
      <3>2. Goto(k, c) \/ Goto(k, g)
        BY <2>5 DEF Relook
      <3>3. c \in Local /\ g \in Local
        BY <3>1, HandlerFacts, LocalFacts, LocalForms
      <3>4. c.pc = "commit" /\ c.op = "resign" /\ g.pc = "lost"
        OBVIOUS
      <3> HIDE DEF c, g
      <3>5. QED
        BY <3>2, <3>3, <3>4, GotoFacts DEF Base
    <2>6. QED
      BY <2>1, <2>2, <2>3, <2>4, <2>5
  <1>5. QED
    BY <1>1, <1>2, <1>3, <1>4, OrderEnded

\* Who moves or draws is the only one, as far as users are polite.
LEMMA OnlyOne ==
    ASSUME Base, OrderOK, polite, NEW k \in Handler, Moves(k) \/ Pending(k)
    PROVE  /\ board # Nil /\ MoverOK(k) /\ DrawerOK(k)
           /\ \A j \in Handler \ {k} : ~Moves(j) /\ ~Pending(j)
           /\ \A r \in board.rooms : last[r] <= Len(board.moves)
  <1>1. board # Nil
    BY HandlerFacts DEF Moves, Pending, Draws, Fans
  <1>2. QED
    BY <1>1 DEF OrderOK

LEMMA OrderRelooks ==
    ASSUME Base, OrderOK, NEW k \in Handler, Relook(k), at[k].op = "move"
    PROVE  OrderOK'
  <1> DEFINE c == [pc |-> "commit", op |-> "move", user |-> at[k].user,
                   room |-> at[k].room, len |-> at[k].len, game |-> board]
  <1>1. /\ at[k].pc = "relook" /\ UNCHANGED <<solo, chan, board, watch, calm>>
        /\ Goto(k, c) \/ Done(k)
    BY DEF Relook
  <1>2. /\ at[k].user \in User /\ at[k].room \in Room /\ at[k].len \in Nat
        /\ board # Nil /\ board \in GameRecord
    BY <1>1, HandlerFacts, LocalFacts
  <1>3. /\ c \in Local /\ c.pc = "commit" /\ c.op = "move" /\ c.user = at[k].user
        /\ c.room = at[k].room /\ c.len = at[k].len /\ c.game = board
    BY <1>2, LocalForms
  <1> HIDE DEF c
  <1>4. at'[k] = c \/ at'[k].pc = "idle"
    BY <1>1, <1>3, GotoFacts, DoneFacts DEF Base
  <1>5. /\ board' = board /\ seat' = seat /\ polite' = polite /\ last' = last
        /\ Same(board', board) /\ board'.moves = board.moves
        /\ board'.turn = board.turn /\ board' # Nil
    BY <1>1, <1>2 DEF watch, Same
  <1>6. Moves(k)
    BY <1>1 DEF Moves
  <1>7. ASSUME polite', Moves(k)' \/ Pending(k)'
        PROVE  /\ MoverOK(k)' /\ DrawerOK(k)'
               /\ \A j \in Handler \ {k} : ~Moves(j) /\ ~Pending(j)
    <2>1. at'[k] = c
      BY <1>4, <1>7 DEF Moves, Pending, Draws, Fans
    <2>2. MoverOK(k) /\ \A j \in Handler \ {k} : ~Moves(j) /\ ~Pending(j)
      BY <1>5, <1>6, <1>7, OnlyOne
    <2>3. DrawerOK(k)'
      BY <1>3, <2>1 DEF DrawerOK, Draws, Fans
    <2>4. MoverOK(k)'
      BY <1>3, <1>5, <1>6, <2>1, <2>2 DEF MoverOK, Seated
    <2>5. QED
      BY <2>2, <2>3, <2>4
  <1>8. \A j \in Handler \ {k} : at'[j] = at[j]
    BY OthersKept
  <1>9. QED
    BY <1>2, <1>5, <1>7, <1>8, OrderFrame

\* A board that is drawn as it is, while nobody moves or draws.
LEMMA DrawnOK ==
    ASSUME Base, board # Nil, NEW k \in Handler, NEW kind \in {"start", "status"},
           NEW u \in User, NEW r \in Room, board' = board,
           ShowBoards(k, kind, u, r, board) \/ Done(k)
    PROVE  MoverOK(k)' /\ DrawerOK(k)'
  <1>1. board \in GameRecord
    BY BoardFacts
  <1>2. CASE FanOut(k, kind, u, r, board)
    <2>1. at'[k].pc = "fan" /\ at'[k].kind = kind /\ at'[k].game = board
      BY <1>1, <1>2, FanOutFacts DEF Base, Kind
    <2>2. QED
      BY <2>1 DEF MoverOK, DrawerOK, Moves
  <1>3. CASE Done(k)
    BY <1>3, DoneFacts DEF Base, MoverOK, DrawerOK, Moves, Draws, Fans
  <1>4. QED
    BY <1>2, <1>3 DEF ShowBoards

LEMMA OrderDraws ==
    ASSUME Base, OrderOK, NEW u \in User, NEW r \in Room, NEW k \in Handler,
           ShowStatus(k, u, r) \/ Announce(k)
    PROVE  OrderOK'
  <1>1. \A j \in Handler \ {k} : at'[j] = at[j]
    BY OthersKept
  <1>2. board' = board /\ seat' = seat
    BY DEF ShowStatus, Announce, watch
  <1>3. CASE ShowStatus(k, u, r)
    <2>1. /\ Found(u, r) /\ ShowBoards(k, "status", u, r, board) /\ Behaves(InFlight = {})
      BY <1>3 DEF ShowStatus
    <2>2. board # Nil
      BY <2>1 DEF Found
    <2>3. polite' => polite /\ InFlight = {} /\ last' = last
      BY <2>1, BehavesTypes
    <2>4. InFlight = {} => \A j \in Handler : ~Moves(j) /\ ~Pending(j)
      BY DEF InFlight, Moves, Pending, Draws, Fans
    <2>5. MoverOK(k)' /\ DrawerOK(k)'
      BY <1>2, <2>1, <2>2, DrawnOK
    <2>6. QED
      BY <1>1, <1>2, <2>2, <2>3, <2>4, <2>5, OrderFrame DEF Same
  <1>4. CASE Announce(k)
    <2>1. /\ at[k].pc = "started" /\ UNCHANGED watch
          /\ ShowBoards(k, "start", at[k].user, at[k].room, board) \/ Done(k)
      BY <1>4 DEF Announce
    <2>2. board # Nil /\ at[k].user \in User /\ at[k].room \in Room
      BY <2>1, HandlerFacts
    <2>3. polite' = polite /\ last' = last
      BY <2>1 DEF watch
    <2>4. polite => \A j \in Handler \ {k} : ~Moves(j) /\ ~Pending(j)
      BY <2>1, OnlyOne DEF Pending
    <2>5. MoverOK(k)' /\ DrawerOK(k)'
      BY <1>2, <2>1, <2>2, DrawnOK
    <2>6. QED
      BY <1>1, <1>2, <2>2, <2>3, <2>4, <2>5, OrderFrame DEF Same
  <1>5. QED
    BY <1>3, <1>4

\* Who moves politely is the only one who does, and everything is drawn: his
\* own room, which sees the latest board, would have been drawn last.
LEMMA PolitelyAlone ==
    ASSUME Base, OrderOK, polite, NEW u \in User, NEW r \in Room, Found(u, r),
           MovesPolitely(u, r), NEW j \in Handler
    PROVE  ~Moves(j) /\ ~Pending(j)
  <1> SUFFICES ASSUME Moves(j) \/ Pending(j)
               PROVE  FALSE
    OBVIOUS
  <1>1. /\ Seated(u, r) /\ last[r] = Len(board.moves)
        /\ u = PlayerOf(board, board.turn)
        /\ ~Drawing /\ \A l \in InFlight : l.user # u
    BY DEF MovesPolitely
  <1>2. at[j] \in InFlight
    BY DEF Moves, Pending, Draws, Fans, InFlight
  <1>3. board # Nil /\ MoverOK(j) /\ DrawerOK(j) /\ u \in Players(board)
    BY OnlyOne, FoundFacts
  <1>4. ~Moves(j)
    BY <1>1, <1>2, <1>3 DEF MoverOK
  <1>5. at[j].pc # "started"
    BY <1>1, <1>2 DEF Drawing
  <1>6. Draws(j) /\ at[j].kind = "move" /\ at[j].todo \cap board.rooms # {}
    <2>1. Draws(j) /\ at[j].todo \cap board.rooms # {}
      BY <1>4, <1>5 DEF Pending
    <2>2. at[j].kind \in Kind
      BY <2>1, FanFacts DEF Draws, Fans
    <2>3. at[j].kind \notin {"start", "status"}
      BY <1>1, <1>2, <2>1 DEF Drawing, Draws, Fans
    <2>4. QED
      BY <2>1, <2>2, <2>3 DEF Draws, Kind
  <1>7. /\ Seated(at[j].user, at[j].room)
        /\ at[j].room \in at[j].todo => board.rooms \subseteq at[j].todo
        /\ \A s \in at[j].todo \cap board.rooms : last[s] < Len(board.moves)
    BY <1>3, <1>6 DEF DrawerOK, Pending
  <1>8. board.rooms = {r, at[j].room}
    <2>1. /\ board.rooms = {seat.room, seat.joined} /\ seat.creator # seat.joiner
          /\ Players(board) = {seat.creator, seat.joiner} /\ at[j].user \in Players(board)
      BY <1>3, <1>6, BoardFacts, FanFacts DEF Draws, Fans
    <2>2. at[j].user # u
      BY <1>1, <1>2
    <2>3. QED
      BY <1>1, <1>3, <1>7, <2>1, <2>2 DEF Seated
  <1>9. r \in at[j].todo \cap board.rooms
    BY <1>6, <1>7, <1>8
  <1>10. Len(board.moves) \in Nat
    BY <1>3, BoardFacts
  <1>11. QED
    BY <1>1, <1>7, <1>9, <1>10

LEMMA OrderBegins ==
    ASSUME Base, OrderOK, NEW u \in User, NEW r \in Room, NEW k \in Handler,
           BeginMove(k, u, r)
    PROVE  OrderOK'
  <1> DEFINE l == [pc |-> "relook", op |-> "move", user |-> u, room |-> r,
                   len |-> LenSeen(board)]
  <1>1. /\ Found(u, r) /\ Goto(k, l) /\ LenSeen(board) = Len(board.moves)
        /\ Behaves(MovesPolitely(u, r)) /\ board' = board /\ seat' = seat
    BY DEF BeginMove, BeginCall, LenSeen
  <1>2. /\ l \in Local /\ l.pc = "relook" /\ l.op = "move" /\ l.user = u /\ l.room = r
        /\ l.len = Len(board.moves)
    BY <1>1, FoundFacts, LocalForms
  <1> HIDE DEF l
  <1>3. at'[k] = l /\ \A j \in Handler \ {k} : at'[j] = at[j]
    BY <1>1, <1>2, GotoFacts DEF Base
  <1>4. MovesPolitely(u, r) \in BOOLEAN
    BY DEF MovesPolitely
  <1>5. polite' => polite /\ MovesPolitely(u, r) /\ last' = last
    BY <1>1, <1>4, BehavesTypes
  <1>6. DrawerOK(k)'
    BY <1>2, <1>3 DEF DrawerOK, Draws, Fans
  <1>7. MovesPolitely(u, r) => MoverOK(k)'
    BY <1>1, <1>2, <1>3 DEF MoverOK, MovesPolitely, Seated
  <1>8. polite' => \A j \in Handler : ~Moves(j) /\ ~Pending(j)
    BY <1>1, <1>5, PolitelyAlone
  <1>9. board # Nil
    BY <1>1 DEF Found
  <1>10. QED
    BY <1>1, <1>3, <1>5, <1>6, <1>7, <1>8, <1>9, OrderFrame DEF Same

LEMMA OrderMoved ==
    ASSUME Base, OrderOK, NEW k \in Handler, CommitMove(k)
    PROVE  OrderOK'
  <1> DEFINE l == at[k]
  <1>1. /\ l.pc = "commit" /\ l.op = "move" /\ UNCHANGED <<solo, chan, watch, calm>>
    BY DEF CommitMove
  <1>2. /\ board # Nil /\ board \in GameRecord /\ EndOK(board) /\ l.user \in User
        /\ l.room \in Room /\ l.len \in Nat /\ l.game \in GameRecord
        /\ Len(board.moves) \in Nat /\ board.rooms \in SUBSET Room
    BY <1>1, CommitFacts, RecordFacts
  <1>3. seat' = seat /\ polite' = polite /\ last' = last
    BY <1>1 DEF watch
  <1>4. Moves(k) /\ (polite => MoverOK(k))
    BY <1>1, OnlyOne DEF Moves
  <1>5. \A j \in Handler \ {k} : at'[j] = at[j]
    BY OthersKept
  <1>6. CASE UNCHANGED board
    <2>1. polite => Done(k)
      <3>1. polite => Len(l.game.moves) = l.len
        BY <1>1, <1>4 DEF MoverOK
      <3>2. \/ AnswerMove(k, l, l.game)
            \/ Done(k)
            \/ /\ ~Stale(l)
               /\ board' \in {Played(board, l.user, end) : end \in Endings}
                             \cup {Misplayed(board, l.user)}
        BY DEF CommitMove
      <3>3. CASE /\ ~Stale(l)
                 /\ board' \in {Played(board, l.user, end) : end \in Endings}
                               \cup {Misplayed(board, l.user)}
        <4>1. Len(board'.moves) = Len(board.moves) + 1
          BY <1>1, <3>3, WriteFacts
        <4>2. QED
          BY <1>2, <1>6, <4>1
      <3>4. QED
        BY <1>2, <3>1, <3>2, <3>3 DEF AnswerMove
    <2>2. Done(k) => ~Moves(k)' /\ ~Pending(k)'
      BY DoneFacts DEF Base, Moves, Pending, Draws, Fans
    <2>3. QED
      BY <1>2, <1>3, <1>5, <1>6, <2>1, <2>2, OrderFrame DEF Same
  <1>7. CASE /\ ~Stale(l)
             /\ board' \in {Played(board, l.user, end) : end \in Endings}
                           \cup {Misplayed(board, l.user)}
             /\ AnswerMove(k, l, board')
    <2>1. /\ board' \in GameRecord /\ board' # Nil /\ Same(board', board)
          /\ Len(board'.moves) = Len(board.moves) + 1
      BY <1>1, <1>7, WriteFacts
    <2>2. board'.rooms = board.rooms /\ \A r \in board.rooms : last[r] \in Nat
      BY <1>2, <2>1 DEF Same, Base, TypeOK
    <2>3. polite => ~Moves(k)' /\ DrawerOK(k)'
      <3>1. CASE Done(k)
        BY <3>1, DoneFacts DEF Base, Moves, DrawerOK, Draws, Fans
      <3>2. CASE FanOut(k, "move", l.user, l.room, board')
        <4>1. /\ at'[k].pc = "fan" /\ at'[k].kind = "move" /\ at'[k].game = board'
              /\ at'[k].user = l.user /\ at'[k].room = l.room
              /\ board'.rooms \subseteq at'[k].todo
          BY <1>2, <2>1, <3>2, FanOutFacts DEF Base, Kind
        <4>2. polite => Seated(l.user, l.room)
          BY <1>4 DEF MoverOK
        <4>3. polite => \A r \in board.rooms : last[r] <= Len(board.moves)
          BY <1>2 DEF OrderOK
        <4>4. polite => \A r \in board'.rooms : last'[r] < Len(board'.moves)
          BY <1>2, <1>3, <2>1, <2>2, <4>3
        <4>5. ~Moves(k)'
          BY <4>1 DEF Moves
        <4>6. polite => Seated(at[k].user, at[k].room)'
          BY <1>3, <4>1, <4>2 DEF Seated
        <4>7. QED
          BY <4>1, <4>4, <4>5, <4>6 DEF DrawerOK, Seated
      <3>3. QED
        BY <1>7, <3>1, <3>2 DEF AnswerMove, ShowBoards
    <2>4. QED
      BY <1>2, <1>3, <1>4, <1>5, <2>1, <2>2, <2>3, OrderWritten
  <1>8. CASE Done(k) /\ UNCHANGED board
    BY <1>6, <1>8
  <1>9. QED
    BY <1>6, <1>7, <1>8 DEF CommitMove

\* A board arrives: it is the latest, and it was the only one on its way.
LEMMA OrderSent ==
    ASSUME Base, OrderOK, NEW k \in Handler, SendBoard(k)
    PROVE  /\ OrderOK'
           /\ polite' => polite /\ \A r \in board.rooms : last'[r] >= last[r]
  <1> DEFINE l == at[k]
  <1>1. l.pc = "fan" /\ l.kind # "resign" /\ UNCHANGED <<solo, chan, board, seat, polite>>
    BY SendBoardFacts
  <1>2. PICK s \in NextRoom(l) :
                 /\ Delivered(k, l, s)
                 /\ \A r \in Room \ {s} : last'[r] = last[r]
                 /\ last'[s] = last[s] \/ last'[s] = Len(l.game.moves)
    BY SendBoardFacts
  <1>3. /\ s \in l.todo /\ board # Nil /\ board.rooms \in SUBSET Room
        /\ Len(board.moves) \in Nat /\ Draws(k) /\ last \in [Room -> Nat]
    BY <1>1, FanFacts, RecordFacts DEF Draws, Fans, Base, TypeOK
  <1>4. /\ \A j \in Handler \ {k} : at'[j] = at[j]
        /\ \/ at'[k].pc = "idle"
           \/ /\ at'[k].pc = "fan" /\ at'[k].kind = l.kind
              /\ at'[k].user = l.user /\ at'[k].room = l.room
              /\ at'[k].game = l.game /\ at'[k].todo = l.todo \ {s}
    BY <1>1, <1>2, DeliveredFacts
  <1>5. CASE ~polite
    BY <1>1, <1>3, <1>5 DEF OrderOK
  <1>6. CASE polite
    <2>1. /\ \A r \in board.rooms : last[r] <= Len(board.moves)
          /\ \A j \in Handler : MoverOK(j) /\ DrawerOK(j)
          /\ \A i, j \in Handler :
                (Moves(i) \/ Pending(i)) /\ (Moves(j) \/ Pending(j)) => i = j
      BY <1>3, <1>6 DEF OrderOK
    <2>2. s \in board.rooms =>
             /\ Pending(k) /\ Len(l.game.moves) = Len(board.moves)
             /\ \A j \in Handler \ {k} : ~Moves(j) /\ ~Pending(j)
      BY <1>3, <2>1 DEF Pending, DrawerOK
    <2>3. \A r \in board.rooms : last'[r] >= last[r] /\ last'[r] <= Len(board.moves)
      BY <1>2, <1>3, <2>1, <2>2
    <2>4. ASSUME NEW j \in Handler
          PROVE  /\ MoverOK(j)' /\ DrawerOK(j)'
                 /\ Moves(j)' => Moves(j)
                 /\ Pending(j)' => Pending(j)
      <3>1. CASE j # k
        <4>1. at'[j] = at[j] /\ MoverOK(j) /\ DrawerOK(j)
          BY <1>4, <2>1, <3>1
        <4>2. (Moves(j)' <=> Moves(j)) /\ (Pending(j)' <=> Pending(j))
              /\ (Draws(j)' <=> Draws(j))
          BY <1>1, <4>1 DEF Moves, Pending, Draws, Fans
        <4>3. MoverOK(j)'
          BY <1>1, <4>1, <4>2 DEF MoverOK, Seated
        <4>4. DrawerOK(j)'
          <5>1. CASE s \in board.rooms
            BY <2>2, <3>1, <4>2, <5>1 DEF DrawerOK
          <5>2. CASE s \notin board.rooms
            <6>1. \A r \in board.rooms : last'[r] = last[r]
              BY <1>2, <1>3, <5>2
            <6>2. QED
              BY <1>1, <4>1, <4>2, <6>1 DEF DrawerOK, Seated
          <5>3. QED
            BY <5>1, <5>2
        <4>5. QED
          BY <4>2, <4>3, <4>4
      <3>2. CASE j = k
        <4>1. ~Moves(k)'
          BY <1>4 DEF Moves
        <4>2. Pending(k)' => Pending(k)
          BY <1>1, <1>3, <1>4 DEF Pending, Draws, Fans
        <4>3. DrawerOK(k)'
          <5> SUFFICES ASSUME Draws(k)', Pending(k)'
                       PROVE  /\ Len(at'[k].game.moves) = Len(board'.moves)
                              /\ at'[k].kind = "move" =>
                                    /\ Seated(at[k].user, at[k].room)'
                                    /\ at'[k].room \in at'[k].todo =>
                                          board'.rooms \subseteq at'[k].todo
                                    /\ \A r \in at'[k].todo \cap board'.rooms :
                                          last'[r] < Len(board'.moves)
            BY DEF DrawerOK, Seated
          <5>1. /\ at'[k].kind = l.kind /\ at'[k].user = l.user /\ at'[k].room = l.room
                /\ at'[k].game = l.game /\ at'[k].todo = l.todo \ {s}
            BY <1>4 DEF Draws, Fans
          <5>2. /\ Len(l.game.moves) = Len(board.moves)
                /\ l.kind = "move" =>
                      /\ Seated(l.user, l.room)
                      /\ \A r \in l.todo \cap board.rooms : last[r] < Len(board.moves)
            BY <1>3, <2>1, <4>2 DEF DrawerOK
          <5>3. at'[k].room \notin at'[k].todo
            BY <1>2, <5>1 DEF NextRoom
          <5>4. Seated(at[k].user, at[k].room)' <=> Seated(l.user, l.room)
            BY <1>1, <5>1 DEF Seated
          <5>5. \A r \in at'[k].todo \cap board.rooms :
                   r \in l.todo \cap board.rooms /\ last'[r] = last[r]
            BY <1>2, <1>3, <5>1
          <5>6. QED
            BY <1>1, <5>1, <5>2, <5>3, <5>4, <5>5
        <4>4. QED
          BY <3>2, <4>1, <4>2, <4>3 DEF MoverOK
      <3>3. QED
        BY <3>1, <3>2
    <2>5. \A i, j \in Handler :
             (Moves(i)' \/ Pending(i)') /\ (Moves(j)' \/ Pending(j)') => i = j
      BY <2>1, <2>4
    <2>6. OrderOK'
      BY <1>1, <1>3, <2>3, <2>4, <2>5 DEF OrderOK
    <2>7. QED
      BY <1>6, <2>3, <2>6
  <1>7. QED
    BY <1>5, <1>6

\* A step in which something fails in goroutine k, or that starts the game.
LEMMA OrderFails ==
    ASSUME Base, OrderOK, NEW k \in Handler,
           LookupFails(k) \/ CommitFails(k) \/ RenderFails(k)
    PROVE  OrderOK'
  <1> DEFINE l == at[k]
  <1>1. /\ at[k].pc # "idle" /\ seat' = seat /\ last' = last /\ polite' = polite
        /\ GiveUp(k, l) \/ Done(k)
    BY DEF LookupFails, CommitFails, RenderFails
  <1>2. at'[k].pc \in {"idle", "lost"} /\ \A j \in Handler \ {k} : at'[j] = at[j]
    BY <1>1, GiveUpTypes, DoneFacts DEF Base
  <1>3. /\ board # Nil /\ board \in GameRecord /\ EndOK(board)
        /\ Len(board.moves) \in Nat /\ board.rooms \in SUBSET Room
    BY <1>1, HandlerFacts, RecordFacts
  <1>4. CASE UNCHANGED board
    BY <1>1, <1>2, <1>3, <1>4, OrderEnded DEF Same
  <1>5. CASE l.pc = "commit" /\ Active(board) /\ board' = Resigned(board, l.user)
    <2>1. l.user \in Players(board)
      BY <1>5, CommitFacts
    <2>2. /\ board' \in GameRecord /\ Same(board', board)
          /\ board'.moves = board.moves /\ board'.turn = board.turn
      BY <1>3, <1>5, <2>1, ResignFacts
    <2>3. board' # Nil
      BY <2>2, NilCommandAssumption
    <2>4. QED
      BY <1>1, <1>2, <1>3, <2>2, <2>3, OrderEnded
  <1>6. CASE /\ l.pc = "commit" /\ l.op = "move" /\ ~Stale(l)
             /\ board' \in {Played(board, l.user, end) : end \in Endings}
    <2>1. /\ board' # Nil /\ Same(board', board)
          /\ Len(board'.moves) = Len(board.moves) + 1
      BY <1>6, WriteFacts
    <2>2. Moves(k) /\ ~Moves(k)' /\ DrawerOK(k)'
      BY <1>2, <1>6 DEF Moves, DrawerOK, Draws, Fans
    <2>3. \A r \in board.rooms : last[r] \in Nat
      BY <1>3 DEF Base, TypeOK
    <2>4. QED
      BY <1>1, <1>2, <1>3, <2>1, <2>2, <2>3, OrderWritten
  <1>7. QED
    BY <1>4, <1>5, <1>6 DEF LookupFails, CommitFails, RenderFails

LEMMA OrderStarts ==
    ASSUME Base, OrderOK, NEW k \in Handler, NEW u \in User, NEW r \in Room,
           JoinStarts(k, u, r)
    PROVE  OrderOK'
  <1>1. /\ board = Nil /\ board' # Nil /\ board'.rooms = {chan.room, r}
        /\ Len(board'.moves) = 0 /\ chan \in Channel
        /\ \A j \in Handler : at[j].pc = "idle"
    BY StartFacts
  <1>2. last' = last /\ polite' = polite
    BY DEF JoinStarts
  <1>3. \A q \in board'.rooms : last'[q] <= Len(board'.moves)
    BY <1>1, <1>2 DEF OrderOK, Channel
  <1>4. /\ \A j \in Handler \ {k} : at'[j].pc = "idle"
        /\ at'[k].pc \in {"idle", "started"}
    <2>1. \A j \in Handler \ {k} : at'[j].pc = "idle"
      BY <1>1, OthersKept
    <2>2. at'[k].pc \in {"idle", "started"}
      <3>1. CASE UNCHANGED at
        BY <1>1, <3>1
      <3>2. CASE Goto(k, [pc |-> "started", user |-> u, room |-> r])
        BY <3>2, LocalForms, GotoFacts DEF Base
      <3>3. QED
        BY <3>1, <3>2 DEF JoinStarts
    <2>3. QED
      BY <2>1, <2>2
  <1>5. \A j \in Handler : at'[j].pc \in {"idle", "started"} /\ ~Moves(j)' /\ ~Draws(j)'
    BY <1>4 DEF Moves, Draws, Fans
  <1>6. \A j \in Handler : MoverOK(j)' /\ DrawerOK(j)'
    BY <1>5 DEF MoverOK, DrawerOK
  <1>7. \A j \in Handler : Pending(j)' => j = k
    BY <1>4 DEF Pending, Draws, Fans
  <1>8. QED
    BY <1>1, <1>3, <1>5, <1>6, <1>7 DEF OrderOK

LEMMA OrderElsewhere ==
    ASSUME Base, OrderOK,
           \/ \E u \in User, r \in Room :
                 Make(u, r) \/ JoinOwn(u, r) \/ SoloMove(u, r) \/ SoloResign(u, r)
           \/ Crash \/ ForgetChannel \/ UNCHANGED vars
    PROVE  OrderOK'
  <1>1. /\ board' = board /\ last' = last /\ polite' = polite
        /\ board = Nil \/ (seat' = seat /\ (at' = at \/ Crash))
    BY DEF Make, JoinOwn, SoloMove, SoloResign, Crash, ForgetChannel, vars, watch
  <1>2. CASE board = Nil
    BY <1>1, <1>2 DEF OrderOK
  <1>3. CASE seat' = seat /\ at' = at
    BY <1>1, <1>3 DEF OrderOK, MoverOK, DrawerOK, Moves, Pending, Draws, Fans, Seated
  <1>4. CASE Crash /\ board # Nil
    <2>1. \A j \in Handler : at'[j].pc = "idle"
      BY <1>4, LocalForms DEF Crash
    <2>2. \A j \in Handler : ~Moves(j)' /\ ~Pending(j)' /\ ~Draws(j)'
      BY <2>1 DEF Moves, Pending, Draws, Fans
    <2>3. QED
      BY <1>1, <1>4, <2>2 DEF OrderOK, MoverOK, DrawerOK
  <1>5. QED
    BY <1>1, <1>2, <1>3, <1>4

LEMMA OrderStep == Base /\ OrderOK /\ [Next]_vars => OrderOK'
  <1> SUFFICES ASSUME Base, OrderOK, [Next]_vars PROVE OrderOK'
    OBVIOUS
  <1>1. ASSUME NEW u \in User, NEW r \in Room, NEW k \in Handler,
               \/ JoinStarts(k, u, r) \/ ShowStatus(k, u, r)
               \/ BeginMove(k, u, r) \/ BeginResign(k, u, r)
        PROVE  OrderOK'
    BY <1>1, OrderStarts, OrderDraws, OrderBegins, OrderResigns
  <1>2. ASSUME NEW k \in Handler, \/ Announce(k) \/ Relook(k) \/ CommitResign(k)
                                  \/ Lost(k) \/ SendResignation(k)
        PROVE  OrderOK'
    <2>1. PICK u \in User, r \in Room : TRUE
      BY <1>2, HandlerFacts DEF Announce, Relook, CommitResign, Lost, SendResignation
    <2>2. CASE Relook(k)
      <3>1. at[k].op \in {"move", "resign"}
        BY <2>2, HandlerFacts, LocalFacts DEF Relook
      <3>2. QED
        BY <2>1, <2>2, <3>1, OrderRelooks, OrderResigns
    <2>3. QED
      BY <1>2, <2>1, <2>2, OrderDraws, OrderResigns
  <1>3. ASSUME NEW k \in Handler, \/ CommitMove(k) \/ SendBoard(k)
                                  \/ LookupFails(k) \/ CommitFails(k) \/ RenderFails(k)
        PROVE  OrderOK'
    BY <1>3, OrderMoved, OrderSent, OrderFails
  <1>4. QED
    BY <1>1, <1>2, <1>3, OrderElsewhere DEF Next

-----------------------------------------------------------------------------
(* The theorems. *)

LEMMA IInvBase == IInv => Base
  BY DEF IInv, Base

\* The inductive invariant holds throughout.
LEMMA CommandsInvariant == Spec => []IInv
  <1>1. Init => IInv
    <2> SUFFICES ASSUME Init PROVE IInv
      OBVIOUS
    <2>1. Base
      BY BaseInit
    <2>2. PositionsOK /\ WordsOK /\ OrderOK
      BY DEF Init, PositionsOK, WordsOK, OrderOK
    <2>3. QED
      BY <2>1, <2>2 DEF Base, IInv
  <1>2. IInv /\ [Next]_vars => IInv'
    <2> SUFFICES ASSUME IInv, [Next]_vars PROVE IInv'
      OBVIOUS
    <2>1. Base /\ PositionsOK /\ WordsOK /\ OrderOK
      BY IInvBase DEF IInv
    <2>2. Base' /\ PositionsOK' /\ WordsOK' /\ OrderOK'
      BY <2>1, BaseStep, PositionsStep, WordsStep, OrderStep
    <2>3. QED
      BY <2>2 DEF Base, IInv
  <1>3. QED
    BY <1>1, <1>2, PTL DEF Spec

(* The locals of every command goroutine of main.go, the channel, the game  *)
(* and what its chats have seen stay well-formed, whatever fails.           *)
THEOREM CommandsTypeCorrect == Spec => []TypeOK
  <1>1. IInv => TypeOK
    BY DEF IInv
  <1>2. QED
    BY <1>1, CommandsInvariant, PTL

\* Nothing is under way.
LEMMA QuietFacts == Quiet => calm /\ \A k \in Handler : ~Fans(k)
  BY DEF Quiet, InFlight, Fans

(* Once every command has been answered and nothing has failed, both rooms  *)
(* of a game have seen every position it has gone through, from the side of *)
(* the player the room belongs to (fanoutRooms, main.go:1108-1136): the     *)
(* goroutine that writes a move draws it for every room, and no other       *)
(* command can take that from it.                                           *)
THEOREM BothChatsSeeEveryMove == Spec => []EveryMoveShown
  <1>1. IInv => EveryMoveShown
    <2> SUFFICES ASSUME IInv, Quiet, board # Nil,
                        NEW n \in 1..Len(board.moves),
                        \A i \in 1..n : board.moves[i].legal,
                        NEW r \in board.rooms
                 PROVE  <<r, n>> \in shown
      BY DEF EveryMoveShown
    <2>1. calm /\ \A k \in Handler : ~Draws(k)
      BY QuietFacts DEF Draws
    <2>2. QED
      BY <2>1 DEF IInv, PositionsOK
  <1>2. QED
    BY <1>1, CommandsInvariant, PTL

(* Once every command has been answered and nothing has failed, both rooms  *)
(* of a game that is over have been told how it ended, each for its own     *)
(* player, and nothing else unless a game that was over was resigned        *)
(* (main.go:797-940, 1090-1106).                                            *)
THEOREM BothChatsToldTheEnd == Spec => []VerdictTold
  <1>1. IInv => VerdictTold
    <2> SUFFICES ASSUME IInv, Quiet, board # Nil, chan # Nil, Over(board),
                        NEW r \in board.rooms
                 PROVE  Ending(r) \in told[r] /\ (raced \/ told[r] = {Ending(r)})
      BY DEF VerdictTold
    <2>1. calm /\ \A k \in Handler : ~Fans(k)
      BY QuietFacts
    <2>2. Right(r) = {Ending(r)}
      BY DEF Right
    <2>3. /\ \A v \in Right(r) :
               \/ v \in told[r]
               \/ \E k \in Handler : Fans(k) /\ r \in at[k].todo /\ v \in Says(at[k], r)
          /\ ~raced => told[r] \subseteq Right(r)
      BY <2>1 DEF IInv, WordsOK
    <2>4. QED
      BY <2>1, <2>2, <2>3
  <1>2. QED
    BY <1>1, CommandsInvariant, PTL

(* While users play politely no chat of a game ever goes back to an older   *)
(* position (main.go:1196-1215): there is one move or board under way at a  *)
(* time, since a player cannot see the latest board in his room, and so not *)
(* answer it, before the other room has it.                                 *)
THEOREM BoardsInOrder == Spec => InOrder
  <1>1. IInv /\ [Next]_vars =>
           [polite' /\ board # Nil => \A r \in board.rooms : last'[r] >= last[r]]_vars
    <2> SUFFICES ASSUME IInv, [Next]_vars, polite', board # Nil, NEW r \in board.rooms
                 PROVE  last'[r] >= last[r]
      OBVIOUS
    <2>1. Base /\ OrderOK
      BY IInvBase DEF IInv
    <2>2. last[r] \in Nat
      BY <2>1, BoardFacts, RecordFacts DEF Base, TypeOK
    <2>3. CASE last' = last
      BY <2>2, <2>3
    <2>4. CASE \E k \in Handler : SendBoard(k)
      BY <2>1, <2>4, OrderSent
    <2>5. ASSUME NEW k \in Handler, NEW u \in User, NEW s \in Room,
                 ShowStatus(k, u, s) \/ BeginMove(k, u, s)
          PROVE  last' = last
      <3>1. PICK p \in BOOLEAN : Behaves(p)
        BY <2>5 DEF ShowStatus, BeginMove, MovesPolitely
      <3>2. QED
        BY <2>1, <3>1, BehavesTypes
    <2>6. ASSUME NEW k \in Handler,
                 \/ Announce(k) \/ Relook(k) \/ CommitMove(k) \/ CommitResign(k) \/ Lost(k)
                 \/ SendResignation(k)
                 \/ LookupFails(k) \/ CommitFails(k) \/ RenderFails(k)
          PROVE  last' = last
      BY <2>6 DEF Announce, Relook, CommitMove, CommitResign, Lost, SendResignation,
                  LookupFails, CommitFails, RenderFails, watch
    <2>7. ASSUME NEW u \in User, NEW s \in Room,
                 \/ Make(u, s) \/ JoinOwn(u, s) \/ SoloMove(u, s) \/ SoloResign(u, s)
                 \/ \E k \in Handler : JoinStarts(k, u, s) \/ BeginResign(k, u, s)
          PROVE  last' = last
      BY <2>7 DEF Make, JoinOwn, SoloMove, SoloResign, JoinStarts, BeginResign, watch
    <2>8. Crash \/ ForgetChannel \/ UNCHANGED vars => last' = last
      BY DEF Crash, ForgetChannel, vars, watch
    <2>9. QED
      BY <2>3, <2>4, <2>5, <2>6, <2>7, <2>8 DEF Next
  <1>2. QED
    BY <1>1, CommandsInvariant, PTL DEF Spec, InOrder
=============================================================================
