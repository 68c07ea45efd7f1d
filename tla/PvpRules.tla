------------------------------ MODULE PvpRules ------------------------------
(***************************************************************************)
(* The record kept for one PvP game (internal/pvpchess/types.go) and the   *)
(* pure steps that turn one record into the next: the part of              *)
(* internal/pvpchess/manager.go that runs between the GET and the SET of a *)
(* transaction, and the row internal/pvpchess/repository.go derives.       *)
(*                                                                         *)
(* Abstractions.  A move is the user who typed it and whether the rules of *)
(* chess allow it: which squares it names is told apart by no property.    *)
(* How a position is judged after a legal move (open, mate, draw) is the   *)
(* chess library's answer, chosen freely by the caller of Played.  Names,  *)
(* FEN, SAN and time stamps are left out.                                  *)
(***************************************************************************)
EXTENDS Naturals, Sequences

CONSTANTS User,   \* user ids seen in chat messages
          Room,   \* chat room ids
          NoOne,  \* the empty user id ""
          Nil     \* an absent key, row or local variable

ASSUME EmptyIdAssumption == NoOne \notin User

White == "white"
Black == "black"
Color == {White, Black}
Other(c) == IF c = White THEN Black ELSE White

\* StatusAborted is declared in types.go and assigned nowhere.
Status == {"ACTIVE", "FINISHED", "RESIGNED", "DRAW"}

Ply == [by : User, legal : BOOLEAN]

GameRecord ==
    [white   : User,
     black   : User,
     rooms   : SUBSET Room,               \* {OriginRoom, ResolveRoom}
     turn    : Color,
     moves   : Seq(Ply),
     status  : Status,
     winner  : User \cup {NoOne},
     outcome : {"", "white", "black", "draw", "resign"}]

NewGame(w, b, rooms) ==
    [white |-> w, black |-> b, rooms |-> rooms, turn |-> White,
     moves |-> << >>, status |-> "ACTIVE", winner |-> NoOne, outcome |-> ""]

Players(g) == {g.white, g.black}
Active(g)  == g.status = "ACTIVE"
Over(g)    == g.status \in {"FINISHED", "RESIGNED", "DRAW"}

\* playerColor: WhiteID is compared first, so a user who sits on both sides
\* of a board always plays white.
PlayerColor(g, u) == IF u = g.white THEN White ELSE Black
PlayerOf(g, c)    == IF c = White THEN g.white ELSE g.black

\* opponentID: "" for a user who is not on the board.
OpponentID(g, u) ==
    IF u = g.white THEN g.black ELSE IF u = g.black THEN g.white ELSE NoOne

\* The side to move in the position that n legal moves from the start lead to.
SideAfter(n) == IF n % 2 = 0 THEN White ELSE Black

\* reconstruct replays MovesUCI from the start position and gives up at the
\* first move the library refuses.
Replayable(g) == \A i \in 1..Len(g.moves) : g.moves[i].legal

-----------------------------------------------------------------------------
(* The library's verdict on the position a legal move leads to. *)
Endings == {"open", "mate", "draw"}

\* Mutant: the winner of a mate is looked up by the turn after the move.
PlayedForTheOther(g, u, end) ==
    LET next  == [g EXCEPT !.moves = Append(@, [by |-> u, legal |-> TRUE]),
                           !.turn  = SideAfter(Len(g.moves) + 1)]
    IN  CASE end = "open" -> next
          [] end = "mate" -> [next EXCEPT !.status  = "FINISHED",
                                          !.winner  = PlayerOf(g, next.turn),
                                          !.outcome = next.turn]
          [] end = "draw" -> [next EXCEPT !.status  = "DRAW",
                                          !.outcome = "draw"]

\* What a legal move makes of the record.  The winner is the side that moved
\* in the replayed position, whatever the stored Turn says.
Played(g, u, end) ==
    LET mover == SideAfter(Len(g.moves))
        next  == [g EXCEPT !.moves = Append(@, [by |-> u, legal |-> TRUE]),
                           !.turn  = SideAfter(Len(g.moves) + 1)]
    IN  CASE end = "open" -> next
          [] end = "mate" -> [next EXCEPT !.status  = "FINISHED",
                                          !.winner  = PlayerOf(g, mover),
                                          !.outcome = mover]
          [] end = "draw" -> [next EXCEPT !.status  = "DRAW",
                                          !.outcome = "draw"]

(* What a move that reads as UCI but that the position does not allow makes *)
(* of it: UCINotation.Decode accepts it, the error of game.Move is dropped, *)
(* so the move list grows while FEN, Turn and Status stay where they were.  *)
Misplayed(g, u) ==
    [g EXCEPT !.moves = Append(@, [by |-> u, legal |-> FALSE]),
              !.turn  = SideAfter(Len(g.moves))]

\* Mutant: the side that is not to move wins, whoever resigned.
ResignedByTurn(g, u) ==
    [g EXCEPT !.status  = "RESIGNED",
              !.winner  = PlayerOf(g, Other(g.turn)),
              !.outcome = "resign"]

Resigned(g, u) ==
    [g EXCEPT !.status  = "RESIGNED",
              !.winner  = OpponentID(g, u),
              !.outcome = "resign"]

-----------------------------------------------------------------------------
(* The row of pvp_games SaveResult writes. *)

\* Mutant: the outcome is stored as it stands.
ResultAsIs(g) == g.outcome

\* A resignation is turned into the colour of the winner.
Result(g) ==
    IF g.outcome # "resign" THEN g.outcome
    ELSE IF g.winner = g.white THEN White
    ELSE IF g.winner = g.black THEN Black ELSE ""

ResultRow == [white : User, black : User, moves : Seq(Ply),
              result : {"", "white", "black", "draw"}]

RowOf(g) == [white |-> g.white, black |-> g.black, moves |-> g.moves,
             result |-> Result(g)]
=============================================================================
