------------------------------ MODULE SoloGame ------------------------------
(***************************************************************************)
(* What internal/service/chess promises its users, with no goroutines, no  *)
(* caches and no rows that wait for one another: as long as nothing fails  *)
(* and nobody's command overlaps another, a command is one step on the     *)
(* game it is about; and a game that ends is recorded and counted in that  *)
(* same step.  SoloSession is shown to implement it.                       *)
(***************************************************************************)
EXTENDS Naturals

CONSTANTS User, Player, Uuid, Result, Nil

VARIABLES game,    \* per user: the game that can be played on, or Nil
          drawn,   \* uuids of games there have been
          record,  \* uuid -> player and result of a finished game
          tally,   \* per player: how often a game counts with a result
          calm

vars == <<game, drawn, record, tally, calm>>

Init ==
    /\ game   = [u \in User |-> Nil]
    /\ drawn  = {}
    /\ record = [g \in Uuid |-> Nil]
    /\ tally  = [p \in Player |-> [e \in Uuid \X Result |-> 0]]
    /\ calm   = TRUE

Start(u) ==
    /\ game[u] = Nil
    /\ \E g \in Uuid \ drawn :
          /\ game'  = [game EXCEPT ![u] = [uuid |-> g, ply |-> 0]]
          /\ drawn' = drawn \cup {g}
    /\ UNCHANGED <<record, tally, calm>>

\* A move and its reply are made together or not at all.
Turn(u) ==
    /\ game[u] # Nil
    /\ game' = [game EXCEPT ![u] = [uuid |-> game[u].uuid, ply |-> game[u].ply + 2]]
    /\ UNCHANGED <<drawn, record, tally, calm>>

TakeBack(u) ==
    /\ game[u] # Nil
    /\ game[u].ply >= 2
    /\ game' = [game EXCEPT ![u] = [uuid |-> game[u].uuid, ply |-> game[u].ply - 2]]
    /\ UNCHANGED <<drawn, record, tally, calm>>

\* By either side's move or by resignation, for the name the user has now.
Finish(u, p, r) ==
    /\ game[u] # Nil
    /\ record[game[u].uuid] = Nil
    /\ game'   = [game EXCEPT ![u] = Nil]
    /\ record' = [record EXCEPT ![game[u].uuid] = [player |-> p, result |-> r]]
    /\ tally'  = [tally EXCEPT ![p] = [tally[p] EXCEPT ![<<game[u].uuid, r>>] =
                                         tally[p][<<game[u].uuid, r>>] + 1]]
    /\ UNCHANGED <<drawn, calm>>

Forget(u) ==
    /\ game[u] # Nil
    /\ game' = [game EXCEPT ![u] = Nil]
    /\ UNCHANGED <<drawn, record, tally, calm>>

(* From the first failure or overlap on, a game may be lost or go on after  *)
(* its end, and a result may be missing from a profile.  But what is        *)
(* recorded stays, and counts at most once, for its player.                 *)
Disturbed ==
    /\ ~calm'
    /\ drawn \subseteq drawn'
    /\ \A g \in Uuid : record[g] # Nil => record'[g] = record[g]
    /\ \A p \in Player, g \in Uuid, r \in Result :
          tally'[p][<<g, r>>] <= IF record'[g] = [player |-> p, result |-> r] THEN 1 ELSE 0

Next ==
    \/ calm /\ \E u \in User :
          \/ Start(u) \/ Turn(u) \/ TakeBack(u) \/ Forget(u)
          \/ \E p \in Player, r \in Result : Finish(u, p, r)
    \/ Disturbed

Spec == Init /\ [][Next]_vars
=============================================================================
