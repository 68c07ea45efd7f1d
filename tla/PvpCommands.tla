---------------------------- MODULE PvpCommands ----------------------------
(***************************************************************************)
(* The commands of a PvP game as the chats see them: handleCommand and     *)
(* handlePvPMove of cmd/chess-bot/main.go.  Every command is a goroutine   *)
(* (a Handler); it looks the game up, calls a manager, and tells the rooms *)
(* of the game, one send after the other, what came of it.                 *)
(*                                                                         *)
(* The managers are seen through what the commands use of them: the inner  *)
(* lookup of PlayMoveByRoom and ResignByRoom and their transaction are one *)
(* step each (PvpGame has the inside), Make and Join are one (PvpChannel). *)
(* The solo game is there as far as commands are routed to it              *)
(* (SoloSession).  Sends have the outcomes of IrisEgress.                  *)
(*                                                                         *)
(* Bounds.  One channel and its game.  A command that only gets a text for *)
(* an answer (help, the list of lobbies, a refusal, an error) changes      *)
(* nothing and is left out, as is that text.  Reading the metadata of the  *)
(* channel is one step with what comes before it, since they are not       *)
(* written any more.  At most one fault per behaviour (calm in the guards).*)
(***************************************************************************)
EXTENDS PvpRules, IrisEgress, FiniteSets

CONSTANTS Handler,  \* command goroutines that may be in flight together
          MaxPly    \* bound: length of the longest game explored

ASSUME CommandAssumption == MaxPly \in Nat

VARIABLES
    solo,   \* who has a solo session, in which room
    chan,   \* the channel: metadata and rooms
    board,  \* the game
    at,     \* the goroutines
    seat,   \* who plays, in which room he took his seat        (observer)
    shown,  \* plies of which a room has seen the board, from the
            \* side of the player it belongs to                 (observer)
    last,   \* the ply of the latest board in a room            (observer)
    told,   \* how a room was told that the game has ended      (observer)
    raced,  \* somebody tried to resign a game that was over    (observer)
    polite, \* how users have used their commands               (observer)
    calm    \* nothing has failed so far                        (observer)

sight == <<shown, told, raced>>
watch == <<seat, last, polite, sight>>
vars  == <<solo, chan, board, at, watch, calm>>

Channel == [state : {"LOBBY", "ACTIVE"}, creator : User, room : Room,
            rooms : SUBSET Room]

Seat == [creator : User, room : Room, joiner : User \cup {NoOne}, joined : Room \cup {Nil}]

ASSUME NilCommandAssumption == Nil \notin GameRecord \cup Channel \cup Seat \cup Room

Verdict == {"white", "black", "draw", "winner", "loser"}

Kind == {"start", "status", "move", "resign"}

\* The locals of a goroutine.
Local ==
    [pc : {"idle"}]
    \cup [pc : {"relook"}, op : {"move", "resign"}, user : User, room : Room, len : Nat]
    \cup [pc : {"commit"}, op : {"move", "resign"}, user : User, room : Room, len : Nat,
          game : GameRecord]
    \cup [pc : {"lost", "started"}, user : User, room : Room]
    \cup [pc : {"fan"}, kind : Kind, user : User, room : Room, game : GameRecord,
          meta : Channel \cup {Nil}, todo : SUBSET Room]

Idle == [pc |-> "idle"]

TypeOK ==
    /\ solo \in SUBSET (User \X Room)
    /\ chan \in Channel \cup {Nil}
    /\ board \in GameRecord \cup {Nil}
    /\ at \in [Handler -> Local]
    /\ seat \in Seat \cup {Nil}
    /\ shown \in SUBSET (Room \X Nat)
    /\ last \in [Room -> Nat]
    /\ told \in [Room -> SUBSET Verdict]
    /\ raced \in BOOLEAN
    /\ polite \in BOOLEAN
    /\ calm \in BOOLEAN

\* Bound: at most one solo session.
Init ==
    /\ solo \in {{}} \cup {{s} : s \in User \X Room}
    /\ chan = Nil
    /\ board = Nil
    /\ at = [k \in Handler |-> Idle]
    /\ seat = Nil
    /\ shown = {}
    /\ last = [r \in Room |-> 0]
    /\ told = [r \in Room |-> {}]
    /\ raced = FALSE
    /\ polite = TRUE
    /\ calm = TRUE

-----------------------------------------------------------------------------
(* GetActiveGameByUserInRoom *)
Found(u, r) == /\ board # Nil
               /\ Active(board)
               /\ u \in Players(board)
               /\ r \in board.rooms

Goto(k, l) == at' = [at EXCEPT ![k] = l]

Done(k) == Goto(k, Idle)

(* Something fails, for the first time.  Bound: what chats see is not       *)
(* watched after that.                                                      *)
Fault == /\ calm /\ calm' = FALSE
         /\ shown' = {} /\ told' = [r \in Room |-> {}] /\ raced' = FALSE

\* The number of moves a handler remembers from its first lookup.
\* Mutant: what it must grow to.
LenBefore(g) == Len(g.moves) - 1
LenSeen(g)   == Len(g.moves)

-----------------------------------------------------------------------------
(* What is sent where. *)

\* MetaByGame: the metadata that name the game.
MetaByGame == IF chan # Nil /\ chan.state = "ACTIVE" THEN chan ELSE Nil

\* fanoutRooms, mergeFanoutRooms
FanRooms(g, meta, here) == {here} \cup g.rooms \cup (IF meta = Nil THEN {} ELSE meta.rooms)

(* Mutant: in order of the rooms of the game, the room of the command last. *)
OthersFirst(l) == IF l.todo = {l.room} THEN l.todo ELSE l.todo \ {l.room}

\* prioritizeRooms: the room of the command is the first; the others come in
\* the order of a Go map.
NextRoom(l) == IF l.room \in l.todo THEN {l.room} ELSE l.todo

\* Mutant: the sides are mixed up.
ViewerSwapped(g, meta, r) ==
    IF meta = Nil THEN g.white
    ELSE IF r # meta.room THEN meta.creator
    ELSE IF meta.creator = g.white THEN g.black ELSE g.white

\* The player for whom a room is drawn and addressed.
Viewer(g, meta, r) ==
    IF meta = Nil THEN g.white
    ELSE IF r = meta.room THEN meta.creator
    ELSE IF meta.creator = g.white THEN g.black ELSE g.white

FanOut(k, kind, u, r, g) ==
    Goto(k, [pc |-> "fan", kind |-> kind, user |-> u, room |-> r, game |-> g,
             meta |-> MetaByGame, todo |-> FanRooms(g, MetaByGame, r)])

(* Boards need a DTO for both sides, which fails when the moves cannot be   *)
(* replayed; then only a text goes to the room of the command.              *)
ShowBoards(k, kind, u, r, g) ==
    IF Replayable(g) THEN FanOut(k, kind, u, r, g) ELSE Done(k)

-----------------------------------------------------------------------------
(* "방 생성", "방생성", and "참가". *)

\* Busy in the room with either kind of game?
Free(u, r) == ~Found(u, r) /\ <<u, r>> \notin solo

Make(u, r) ==
    /\ Free(u, r)
    /\ chan = Nil /\ board = Nil     \* bound
    /\ chan' = [state |-> "LOBBY", creator |-> u, room |-> r, rooms |-> {r}]
    /\ seat' = [creator |-> u, room |-> r, joiner |-> NoOne, joined |-> Nil]
    /\ UNCHANGED <<solo, board, at, last, polite, sight, calm>>

\* The creator takes his own seat again: his room joins the channel.
JoinOwn(u, r) ==
    /\ Free(u, r)
    /\ chan # Nil /\ chan.state = "LOBBY" /\ chan.creator = u
    /\ board = Nil                   \* bound
    /\ chan' = [chan EXCEPT !.rooms = @ \cup {r}]
    /\ UNCHANGED <<solo, board, at, watch, calm>>

(* The second seat starts the game: the colours are drawn, then the         *)
(* metadata name it.  When an error comes before that, the game is there    *)
(* and nobody is told.                                                      *)
JoinStarts(k, u, r) ==
    /\ at[k].pc = "idle"
    /\ Free(u, r)
    /\ chan # Nil /\ chan.state = "LOBBY" /\ chan.creator # u
    /\ board = Nil
    /\ board' \in {NewGame(chan.creator, u, {chan.room, r}),
                   NewGame(u, chan.creator, {chan.room, r})}
    /\ seat' = [seat EXCEPT !.joiner = u, !.joined = r]
    /\ \/ /\ chan' = [chan EXCEPT !.state = "ACTIVE", !.rooms = @ \cup {r}]
          /\ Goto(k, [pc |-> "started", user |-> u, room |-> r])
          /\ UNCHANGED <<sight, calm>>
       \/ /\ Fault
          /\ chan' = [chan EXCEPT !.rooms = @ \cup {r}]
          /\ UNCHANGED at
    /\ UNCHANGED <<solo, last, polite>>

(* The game that is announced is looked up anew, by the user alone.  Its    *)
(* viewers are told apart by the metadata Join has returned.                *)
Announce(k) ==
    /\ at[k].pc = "started"
    /\ IF Active(board)
       THEN ShowBoards(k, "start", at[k].user, at[k].room, board)
       ELSE Done(k)
    /\ UNCHANGED <<solo, chan, board, watch, calm>>

-----------------------------------------------------------------------------
(* How the users behave (observer).  A polite user types in the room he     *)
(* took his seat in; he moves when it is his turn on the board that is      *)
(* shown there, and not while an earlier command of his or the start is     *)
(* under way; nobody asks for the board while a command is under way or     *)
(* plays on while it is drawn.                                              *)

InFlight == {at[k] : k \in {h \in Handler : at[h].pc # "idle"}}

Drawing == \E l \in InFlight :
              \/ l.pc = "started"
              \/ l.pc = "fan" /\ l.kind \in {"start", "status"}

Seated(u, r) == \/ u = seat.creator /\ r = seat.room
                \/ u = seat.joiner /\ r = seat.joined

MovesPolitely(u, r) ==
    /\ Seated(u, r)
    /\ last[r] = Len(board.moves)
    /\ u = PlayerOf(board, board.turn)
    /\ ~Drawing
    /\ \A l \in InFlight : l.user # u

\* Bound: the latest boards are not watched when users are not polite.
Behaves(p) == /\ polite' = (polite /\ p)
              /\ last' = [r \in Room |-> IF polite' THEN last[r] ELSE 0]

-----------------------------------------------------------------------------
(* "현황": the board, for every room of the game. *)
ShowStatus(k, u, r) ==
    /\ at[k].pc = "idle"
    /\ Found(u, r)
    /\ ShowBoards(k, "status", u, r, board)
    /\ Behaves(InFlight = {})
    /\ UNCHANGED <<solo, chan, board, seat, sight, calm>>

(* A move or "기권" in a room where the user has a game: the first lookup.  *)
BeginCall(k, op, u, r) ==
    /\ at[k].pc = "idle"
    /\ Found(u, r)
    /\ Goto(k, [pc |-> "relook", op |-> op, user |-> u, room |-> r,
                len |-> LenSeen(board)])

BeginMove(k, u, r) ==
    /\ BeginCall(k, "move", u, r)
    /\ Behaves(MovesPolitely(u, r))
    /\ UNCHANGED <<solo, chan, board, seat, sight, calm>>

BeginResign(k, u, r) ==
    /\ BeginCall(k, "resign", u, r)
    /\ UNCHANGED <<solo, chan, board, watch, calm>>

(* A move or "기권" where he has none, or, for "기권", where the lookup     *)
(* fails: it is for the solo game.                                          *)
SoloMove(u, r) ==
    /\ <<u, r>> \in solo
    /\ ~Found(u, r)
    /\ solo' = solo \ {<<u, r>>}      \* the game may end with it
    /\ UNCHANGED <<chan, board, at, watch, calm>>

SoloResign(u, r) ==
    /\ <<u, r>> \in solo
    /\ \/ ~Found(u, r) /\ UNCHANGED <<sight, calm>>
       \/ Found(u, r) /\ Fault
    /\ solo' = solo \ {<<u, r>>}
    /\ UNCHANGED <<chan, board, at, seat, last, polite>>

-----------------------------------------------------------------------------
(* PlayMoveByRoom and ResignByRoom look the game up again. *)
Relook(k) ==
    LET l == at[k] IN
    /\ l.pc = "relook"
    /\ IF Found(l.user, l.room)
       THEN Goto(k, [pc |-> "commit", op |-> l.op, user |-> l.user, room |-> l.room,
                     len |-> l.len, game |-> board])
       ELSE IF l.op = "move" THEN Done(k)
       ELSE Goto(k, [pc |-> "lost", user |-> l.user, room |-> l.room])
    /\ UNCHANGED <<solo, chan, board, watch, calm>>

(* What the manager returns for a move is taken for applied, and drawn, when *)
(* it has more moves than the first lookup saw.  A refused command returns   *)
(* what the second lookup saw.                                               *)
AnswerMove(k, l, g) ==
    IF Len(g.moves) > l.len THEN ShowBoards(k, "move", l.user, l.room, g) ELSE Done(k)

Stale(l)  == ~Active(board) \/ Len(board.moves) # Len(l.game.moves)
OnTurn(l) == board.turn = PlayerColor(board, l.user)

CommitMove(k) ==
    LET l == at[k] IN
    /\ l.pc = "commit" /\ l.op = "move"
    /\ \/ \* a lost race, not his turn, or no move at all
          /\ Stale(l) \/ ~OnTurn(l) \/ Replayable(board)
          /\ AnswerMove(k, l, l.game)
          /\ UNCHANGED board
       \/ \* the position cannot be rebuilt: an error
          /\ ~Stale(l) /\ OnTurn(l) /\ ~Replayable(board)
          /\ Done(k)
          /\ UNCHANGED board
       \/ /\ ~Stale(l) /\ OnTurn(l) /\ Replayable(board)
          /\ Len(board.moves) < MaxPly
          /\ board' \in {Played(board, l.user, end) : end \in Endings}
                       \cup {Misplayed(board, l.user)}
          /\ AnswerMove(k, l, board')
    /\ UNCHANGED <<solo, chan, watch, calm>>

GiveUp(k, l) == Goto(k, [pc |-> "lost", user |-> l.user, room |-> l.room])

\* EXEC fails when the game was written since; then it may still be on.
CommitResign(k) ==
    LET l == at[k] IN
    /\ l.pc = "commit" /\ l.op = "resign"
    /\ \/ /\ Active(board)
          /\ board' = Resigned(board, l.user)
          /\ FanOut(k, "resign", l.user, l.room, board')
       \/ /\ board # l.game
          /\ GiveUp(k, l)
          /\ UNCHANGED board
    /\ UNCHANGED <<solo, chan, watch, calm>>

(* Without a resignation of its own the handler loads the game once more:   *)
(* if it is over by now it announces the resignation all the same.          *)
Lost(k) ==
    LET l == at[k] IN
    /\ l.pc = "lost"
    /\ IF Over(board)
       THEN /\ FanOut(k, "resign", l.user, l.room, board)
            /\ raced' = \/ raced
                        \/ calm /\ board.status # "RESIGNED"
                        \/ calm /\ board.winner = l.user
       ELSE Done(k) /\ UNCHANGED raced
    /\ UNCHANGED <<solo, chan, board, seat, last, polite, shown, told, calm>>

-----------------------------------------------------------------------------
(* A send, to the next room. *)

\* Mutant: whoever reads it where it was typed has lost.
WordByRoom(l, r) == IF r = l.room THEN "loser" ELSE "winner"

\* A resignation is told by who typed it, whatever the game says.
Word(l, r) == IF Viewer(l.game, l.meta, r) = l.user THEN "loser" ELSE "winner"

\* finish.checkmate names the winner by colour.
MoveText(l) ==
    IF l.kind # "move" THEN {}
    ELSE CASE l.game.status = "FINISHED" -> {l.game.outcome}
           [] l.game.status = "DRAW"     -> {"draw"}
           [] OTHER                      -> {}

RoomOwner(r) == IF r = seat.room THEN seat.creator ELSE seat.joiner

Delivered(k, l, r) ==
    Goto(k, IF l.todo = {r} THEN Idle ELSE [l EXCEPT !.todo = @ \ {r}])

OwnSide(l, r) == Viewer(l.game, l.meta, r) = RoomOwner(r) \/ chan = Nil

\* What the chat in room r sees, as long as it is watched.
Sees(r, texts, boards) ==
    /\ told'  = [told EXCEPT ![r] = IF calm THEN @ \cup texts ELSE @]
    /\ shown' = IF calm THEN shown \cup ({r} \X boards) ELSE shown
    /\ UNCHANGED <<raced, calm>>

\* Bound: one loss per behaviour.  What arrived twice, or arrived over HTTP
\* after the socket had failed, is no loss.
SendBoard(k) ==
    LET l    == at[k]
        text == MoveText(l)
        ply  == Len(l.game.moves)
    IN  /\ l.pc = "fan" /\ l.kind # "resign"
        /\ \E r \in NextRoom(l), o \in Board(text # {}) :
              /\ Delivered(k, l, r)
              /\ last' = [last EXCEPT ![r] = IF polite /\ o.boards > 0 THEN ply ELSE @]
              /\ IF o.boards = 0 \/ (text # {} /\ o.texts = 0) THEN Fault
                 ELSE Sees(r, text, IF OwnSide(l, r) THEN {ply} ELSE {})
    /\ UNCHANGED <<solo, chan, board, seat, polite>>

SendResignation(k) ==
    LET l == at[k] IN
    /\ l.pc = "fan" /\ l.kind = "resign"
    /\ \E r \in NextRoom(l), o \in Sent :
          /\ Delivered(k, l, r)
          /\ IF o.copies = 0 THEN Fault ELSE Sees(r, {Word(l, r)}, {})
    /\ UNCHANGED <<solo, chan, board, seat, last, polite>>

-----------------------------------------------------------------------------
(* Faults. *)

\* The inner lookup or the load of a lost resignation fails.
LookupFails(k) ==
    LET l == at[k] IN
    /\ l.pc \in {"relook", "lost"}
    /\ Fault
    /\ IF l.pc = "relook" /\ l.op = "resign" THEN GiveUp(k, l) ELSE Done(k)
    /\ UNCHANGED <<solo, chan, board, seat, last, polite>>

\* The transaction fails; its write may have been carried out.
CommitFails(k) ==
    LET l == at[k] IN
    /\ l.pc = "commit"
    /\ Fault
    /\ IF l.op = "resign" THEN GiveUp(k, l) ELSE Done(k)
    /\ \/ UNCHANGED board
       \/ /\ l.op = "resign" /\ Active(board)
          /\ board' = Resigned(board, l.user)
       \/ /\ l.op = "move"
          /\ ~Stale(l) /\ OnTurn(l) /\ Replayable(board)
          /\ Len(board.moves) < MaxPly
          /\ board' \in {Played(board, l.user, end) : end \in Endings}
    /\ UNCHANGED <<solo, chan, seat, last, polite>>

\* No picture of the board: a text for the room of the command.
RenderFails(k) ==
    LET l == at[k] IN
    /\ l.pc = "fan" /\ l.kind # "resign" /\ l.room \in l.todo
    /\ Fault
    /\ Done(k)
    /\ UNCHANGED <<solo, chan, board, seat, last, polite>>

Crash ==
    /\ InFlight # {}
    /\ Fault
    /\ at' = [k \in Handler |-> Idle]
    /\ UNCHANGED <<solo, chan, board, seat, last, polite>>

\* The keys of the channel expire 24 h after the start; those of the game,
\* 24 h after its last move.
ForgetChannel ==
    /\ chan # Nil
    /\ InFlight = {}
    /\ chan' = Nil
    /\ UNCHANGED <<solo, board, at, watch, calm>>

Next ==
    \/ \E u \in User, r \in Room :
          \/ Make(u, r) \/ JoinOwn(u, r) \/ SoloMove(u, r) \/ SoloResign(u, r)
          \/ \E k \in Handler :
                \/ JoinStarts(k, u, r)
                \/ ShowStatus(k, u, r) \/ BeginMove(k, u, r) \/ BeginResign(k, u, r)
    \/ \E k \in Handler :
          \/ Announce(k)
          \/ Relook(k) \/ CommitMove(k) \/ CommitResign(k) \/ Lost(k)
          \/ SendBoard(k) \/ SendResignation(k)
          \/ LookupFails(k) \/ CommitFails(k) \/ RenderFails(k)
    \/ Crash
    \/ ForgetChannel

Spec == Init /\ [][Next]_vars

-----------------------------------------------------------------------------
Quiet == calm /\ InFlight = {}

(* Both chats of a game see every position it has gone through, the last    *)
(* one included, from the side of the player the chat belongs to: through   *)
(* races of moves, resignations and status commands, and through a socket   *)
(* whose sends go over HTTP in the end (fanoutRooms and the loops of        *)
(* main.go:1108-1136).  A move the rules forbid ends what can be drawn.     *)
EveryMoveShown ==
    Quiet /\ board # Nil =>
        \A n \in 1..Len(board.moves) :
            (\A i \in 1..n : board.moves[i].legal) => board.rooms \X {n} \subseteq shown

Ending(r) ==
    CASE board.status = "FINISHED" -> IF board.winner = board.white THEN White ELSE Black
      [] board.status = "DRAW"     -> "draw"
      [] board.status = "RESIGNED" -> IF RoomOwner(r) = board.winner THEN "winner"
                                      ELSE "loser"

(* When a game is over both chats have been told how it ended, each from    *)
(* its player's side while the channel is known, and nothing else unless    *)
(* somebody resigned a game that was just ending (main.go:797-940,          *)
(* 1090-1106).                                                              *)
VerdictTold ==
    Quiet /\ board # Nil /\ chan # Nil /\ Over(board) =>
        \A r \in board.rooms :
            /\ Ending(r) \in told[r]
            /\ raced \/ told[r] = {Ending(r)}

(* A chat never goes back to an older position when users play politely:    *)
(* the room of the command is served first (main.go:1196-1215), so whoever  *)
(* can answer a move has seen it after everyone whose board came earlier.   *)
InOrder ==
    [][polite' /\ board # Nil => \A r \in board.rooms : last'[r] >= last[r]]_vars
=============================================================================
