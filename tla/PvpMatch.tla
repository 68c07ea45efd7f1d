------------------------------ MODULE PvpMatch ------------------------------
(***************************************************************************)
(* What the PvP manager promises, with no handlers, no transactions and no *)
(* snapshots: a set of boards on which one player at a time acts, each on  *)
(* the current state of the board, and an archive that receives the result *)
(* of a finished board.  PvpGame is shown to implement it.                 *)
(***************************************************************************)
EXTENDS PvpRules

CONSTANT GameId

VARIABLES board,    \* game id -> record, or Nil when Redis holds no such key
          archive   \* game id -> row of pvp_games, or Nil

vars == <<board, archive>>

Init == /\ board   = [g \in GameId |-> Nil]
        /\ archive = [g \in GameId |-> Nil]

Open(g) ==
    /\ board[g] = Nil /\ archive[g] = Nil
    /\ \E w, b \in User, rooms \in SUBSET Room :
          board' = [board EXCEPT ![g] = NewGame(w, b, rooms)]
    /\ UNCHANGED archive

\* Only the player whose turn it is moves, and only on a live board whose
\* moves can be replayed.
MayMove(r, u) ==
    /\ r # Nil
    /\ Active(r)
    /\ Replayable(r)
    /\ u = PlayerOf(r, SideAfter(Len(r.moves)))

Move(g, u) ==
    /\ MayMove(board[g], u)
    /\ \E end \in Endings :
          board' = [board EXCEPT ![g] = Played(board[g], u, end)]
    /\ UNCHANGED archive

\* The promise the code does keep for an entry that is not a legal move: it
\* is recorded once, by the player to move, and the board is not judged.
Spoil(g, u) ==
    /\ MayMove(board[g], u)
    /\ board' = [board EXCEPT ![g] = Misplayed(board[g], u)]
    /\ UNCHANGED archive

Resign(g, u) ==
    /\ board[g] # Nil
    /\ Active(board[g])
    /\ u \in Players(board[g])
    /\ board' = [board EXCEPT ![g] = Resigned(board[g], u)]
    /\ UNCHANGED archive

Forget(g) ==
    /\ board[g] # Nil
    /\ board' = [board EXCEPT ![g] = Nil]
    /\ UNCHANGED archive

\* A result is archived once, and from the board as it ended.
Archive(g) ==
    /\ board[g] # Nil
    /\ Over(board[g])
    /\ archive[g] = Nil
    /\ archive' = [archive EXCEPT ![g] = RowOf(board[g])]
    /\ UNCHANGED board

Next == \E g \in GameId :
          \/ Open(g)
          \/ Forget(g)
          \/ Archive(g)
          \/ \E u \in User : Move(g, u) \/ Spoil(g, u) \/ Resign(g, u)

Spec == Init /\ [][Next]_vars
=============================================================================
