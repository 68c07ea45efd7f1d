------------------------------ MODULE PvpGame ------------------------------
(***************************************************************************)
(* internal/pvpchess/manager.go and repository.go as the bot runs them:    *)
(* every chat command is a goroutine (a Handler) of its own that talks to  *)
(* Redis one command at a time and, after a game has ended, to Postgres.   *)
(*                                                                         *)
(* A handler looks its game up outside any transaction, then WATCHes the   *)
(* game key, reads it again, decides, and writes with MULTI/SET/EXEC; EXEC *)
(* fails when the watched key was written in between.  Any command may     *)
(* fail, the process may die between any two of them, and keys expire.     *)
(*                                                                         *)
(* Which of several candidate games is the most recently updated one is    *)
(* left open (Select takes any), as no property depends on it.             *)
(***************************************************************************)
EXTENDS PvpRules, FiniteSets

CONSTANTS GameId,    \* ids handed out by CreateGameFromChallenge, never reused
          Handler,   \* command goroutines that may be in flight together
          AnyRoom,   \* scope of PlayMove and Resign, which take no room
          MaxPly,    \* bound: length of the longest game explored
          MayFail    \* whether commands fail, processes die and keys expire

ASSUME ScopeAssumption == AnyRoom \notin Room
ASSUME BoundAssumption == MaxPly \in Nat
ASSUME NilAssumption   == Nil \notin GameRecord \cup ResultRow \cup GameId
ASSUME FaultAssumption == MayFail \in BOOLEAN

VARIABLES game,    \* Redis pvp:game:<id>
          idx,     \* Redis pvp:index:user:<id>
          used,    \* ids that have been handed out
          db,      \* Postgres pvp_games
          pc, cmd, found, target, seen, draft, reply,   \* per handler
          dirty    \* handlers whose watched key has been written since

stores == <<game, idx, used, db>>
vars   == <<game, idx, used, db, pc, cmd, found, target, seen, draft, reply, dirty>>

Op      == {"move", "resign", "create"}
Command == [op : Op, user : User \cup {NoOne}, room : Room \cup {AnyRoom}]
NoCmd   == [op |-> "create", user |-> NoOne, room |-> AnyRoom]

PC == {"idle", "list", "select", "watch", "read", "exec", "persist",
       "save", "indexWhite", "indexBlack", "done"}

\* What the manager hands back: the move or the resignation was applied, the
\* transaction was lost, the wrong side, no legal move, no active game, error.
Reply == {"none", "applied", "retry", "noturn", "illegal", "nogame", "error"}

TypeOK ==
    /\ game   \in [GameId -> GameRecord \cup {Nil}]
    /\ idx    \in [User -> SUBSET GameId]
    /\ used   \in SUBSET GameId
    /\ db     \in [GameId -> ResultRow \cup {Nil}]
    /\ pc     \in [Handler -> PC]
    /\ cmd    \in [Handler -> Command]
    /\ found  \in [Handler -> SUBSET GameId]
    /\ target \in [Handler -> GameId \cup {Nil}]
    /\ seen   \in [Handler -> Nat]
    /\ draft  \in [Handler -> GameRecord \cup {Nil}]
    /\ reply  \in [Handler -> Reply]
    /\ dirty  \in SUBSET Handler

Init ==
    /\ game   = [g \in GameId |-> Nil]
    /\ idx    = [u \in User |-> {}]
    /\ used   = {}
    /\ db     = [g \in GameId |-> Nil]
    /\ pc     = [h \in Handler |-> "idle"]
    /\ cmd    = [h \in Handler |-> NoCmd]
    /\ found  = [h \in Handler |-> {}]
    /\ target = [h \in Handler |-> Nil]
    /\ seen   = [h \in Handler |-> 0]
    /\ draft  = [h \in Handler |-> Nil]
    /\ reply  = [h \in Handler |-> "none"]
    /\ dirty  = {}

-----------------------------------------------------------------------------
Goto(h, from, to) == /\ pc[h] = from
                     /\ pc' = [pc EXCEPT ![h] = to]

\* The manager returns r; its locals go out of scope.
Answer(h, from, r) == /\ Goto(h, from, "done")
                      /\ reply' = [reply EXCEPT ![h] = r]
                      /\ found' = [found EXCEPT ![h] = {}]
                      /\ seen'  = [seen  EXCEPT ![h] = 0]
                      /\ draft' = [draft EXCEPT ![h] = Nil]
Continue(h, from, to) == Goto(h, from, to) /\ UNCHANGED <<reply, found, seen, draft>>

\* GetActiveGameByUser(InRoom): the record counts when it is still there,
\* ACTIVE and, for a command with a room, belongs to that room.
InScope(r, room) == room = AnyRoom \/ room \in r.rooms
Candidate(g, c)  == game[g] # Nil /\ Active(game[g]) /\ InScope(game[g], c.room)

Watching == {"read", "exec"}

\* Mutant: the write is not noticed by those who watch the key.
TouchNobody(g, h) == dirty' = dirty

\* Redis marks every connection that watches g, but the writer's own.
Touch(g, h) ==
    dirty' = dirty \cup {k \in Handler \ {h} : pc[k] \in Watching /\ target[k] = g}

-----------------------------------------------------------------------------
(* Commands come in, and answers go out. *)

Begin(h) ==
    /\ Goto(h, "idle", "list")
    /\ \E op \in {"move", "resign"}, u \in User, room \in Room \cup {AnyRoom} :
          cmd' = [cmd EXCEPT ![h] = [op |-> op, user |-> u, room |-> room]]
    /\ UNCHANGED <<stores, found, target, seen, draft, reply, dirty>>

Return(h) ==
    /\ Goto(h, "done", "idle")
    /\ cmd'    = [cmd    EXCEPT ![h] = NoCmd]
    /\ target' = [target EXCEPT ![h] = Nil]
    /\ reply'  = [reply  EXCEPT ![h] = "none"]
    /\ dirty'  = dirty \ {h}
    /\ UNCHANGED <<stores, found, seen, draft>>

-----------------------------------------------------------------------------
(* CreateGameFromChallenge: SET the game, then SADD it to one index per     *)
(* player.  Any pair of users can come out of the colour assignment.        *)

\* Bound: every creation in flight finds an id of its own.
IdLeft == Cardinality(used) + Cardinality({k \in Handler : pc[k] = "save"})
             < Cardinality(GameId)

Challenge(h) ==
    /\ Goto(h, "idle", "save")
    /\ IdLeft
    /\ \E w, b \in User, o, r \in Room :
          draft' = [draft EXCEPT ![h] = NewGame(w, b, {o, r})]
    /\ UNCHANGED <<stores, cmd, found, target, seen, reply, dirty>>

SaveGame(h) ==
    /\ Goto(h, "save", "indexWhite")
    /\ \E g \in GameId \ used :
          /\ game'   = [game EXCEPT ![g] = draft[h]]
          /\ used'   = used \cup {g}
          /\ target' = [target EXCEPT ![h] = g]
    /\ UNCHANGED <<idx, db, cmd, found, seen, draft, reply, dirty>>

IndexPlayer(h, u) ==
    /\ idx' = [idx EXCEPT ![u] = @ \cup {target[h]}]
    /\ UNCHANGED <<game, used, db, cmd, target, dirty>>

IndexWhite(h) == /\ Continue(h, "indexWhite", "indexBlack")
                 /\ IndexPlayer(h, draft[h].white)

IndexBlack(h) == /\ Answer(h, "indexBlack", "applied")
                 /\ IndexPlayer(h, draft[h].black)

-----------------------------------------------------------------------------
(* The lookup: SMEMBERS of the user's index, then a GET per id.  A game that *)
(* was no candidate when it was read is none later (it stays over, in the    *)
(* same rooms), so the GETs that find nothing are one step.                  *)

List(h) ==
    /\ Goto(h, "list", "select")
    /\ found' = [found EXCEPT ![h] = idx[cmd[h].user]]
    /\ UNCHANGED <<stores, cmd, target, seen, draft, reply, dirty>>

Select(h) ==
    /\ Goto(h, "select", "watch")
    /\ \E g \in found[h] :
          /\ Candidate(g, cmd[h])
          /\ target' = [target EXCEPT ![h] = g]
          /\ seen'   = [seen EXCEPT ![h] = Len(game[g].moves)]
    /\ found' = [found EXCEPT ![h] = {}]
    /\ UNCHANGED <<stores, cmd, draft, reply, dirty>>

\* A GET that fails leaves its game out, as if it were over.
NoneFound(h) ==
    /\ Answer(h, "select", "nogame")
    /\ MayFail \/ \A g \in found[h] : ~Candidate(g, cmd[h])
    /\ UNCHANGED <<stores, cmd, target, dirty>>

Watch(h) ==
    /\ Goto(h, "watch", "read")
    /\ dirty' = dirty \ {h}
    /\ UNCHANGED <<stores, cmd, found, target, seen, draft, reply>>

-----------------------------------------------------------------------------
(* PlayMove and PlayMoveByRoom between GET and EXEC. *)

\* The key under the target, read inside the transaction.
Current(h) == game[target[h]]

\* Mutant: only the number of moves is compared.
StaleByLength(h, r) == Len(r.moves) # seen[h]

\* A record the transaction gives up on with TxFailedErr.
Stale(h, r) == ~Active(r) \/ Len(r.moves) # seen[h]

\* The command may act on r at all.
Fits(h, r) == InScope(r, cmd[h].room) /\ cmd[h].user \in Players(r)

\* Mutant: no turn check.
OnTurnAlways(h, r) == TRUE

OnTurn(h, r) == r.turn = PlayerColor(r, cmd[h].user)

Refuse(h, r) == /\ Answer(h, "read", r)
                /\ UNCHANGED <<stores, cmd, target, dirty>>

RefuseMove(h) ==
    /\ pc[h] = "read" /\ cmd[h].op = "move"
    /\ LET r == Current(h) IN
       \/ /\ r = Nil
          /\ Refuse(h, "error")
       \/ /\ r # Nil /\ Stale(h, r)
          /\ Refuse(h, "retry")
       \/ /\ r # Nil /\ ~Stale(h, r) /\ ~Fits(h, r)
          /\ Refuse(h, "error")
       \/ /\ r # Nil /\ ~Stale(h, r) /\ Fits(h, r) /\ ~OnTurn(h, r)
          /\ Refuse(h, "noturn")
       \/ /\ r # Nil /\ ~Stale(h, r) /\ Fits(h, r) /\ OnTurn(h, r) /\ ~Replayable(r)
          /\ Refuse(h, "error")
       \/ /\ r # Nil /\ ~Stale(h, r) /\ Fits(h, r) /\ OnTurn(h, r) /\ Replayable(r)
          /\ Refuse(h, "illegal")        \* neither UCI nor SAN

Draft(h, r) == /\ Goto(h, "read", "exec")
               /\ draft' = [draft EXCEPT ![h] = r]
               /\ UNCHANGED <<stores, cmd, found, target, seen, reply, dirty>>

DraftMove(h) ==
    LET r == Current(h) IN
    /\ pc[h] = "read" /\ cmd[h].op = "move"
    /\ r # Nil /\ ~Stale(h, r) /\ Fits(h, r) /\ OnTurn(h, r) /\ Replayable(r)
    /\ Len(r.moves) < MaxPly
    /\ \/ \E end \in Endings : Draft(h, Played(r, cmd[h].user, end))
       \/ Draft(h, Misplayed(r, cmd[h].user))

-----------------------------------------------------------------------------
(* Resign and ResignByRoom: no turn and no length to check, and the user is *)
(* taken to be on the board.                                                *)

\* Mutant: the status is not looked at again inside the transaction.
MayAlwaysResign(h, r) == TRUE

MayResign(h, r) == Active(r)

RefuseResign(h) ==
    /\ pc[h] = "read" /\ cmd[h].op = "resign"
    /\ LET r == Current(h) IN
       \/ /\ r = Nil
          /\ Refuse(h, "error")
       \/ /\ r # Nil /\ ~MayResign(h, r)
          /\ Refuse(h, "retry")
       \/ /\ r # Nil /\ MayResign(h, r) /\ ~InScope(r, cmd[h].room)
          /\ Refuse(h, "error")

DraftResign(h) ==
    LET r == Current(h) IN
    /\ pc[h] = "read" /\ cmd[h].op = "resign"
    /\ r # Nil /\ MayResign(h, r) /\ InScope(r, cmd[h].room)
    /\ Draft(h, Resigned(r, cmd[h].user))

-----------------------------------------------------------------------------
(* MULTI, SET, EXEC; then SaveResult when the game is over. *)

Conflict(h) ==
    /\ h \in dirty
    /\ Answer(h, "exec", "retry")
    /\ UNCHANGED <<stores, cmd, target, dirty>>

Commit(h) ==
    /\ pc[h] = "exec"
    /\ h \notin dirty
    /\ game' = [game EXCEPT ![target[h]] = draft[h]]
    /\ Touch(target[h], h)
    /\ UNCHANGED <<idx, used, db, cmd, target>>

\* Mutant: resignations are left out of persistIfFinal.
DecidedByMove(r) == r.status \in {"FINISHED", "DRAW"}

\* persistIfFinal
ToRecord(r) == r.status \in {"FINISHED", "RESIGNED", "DRAW"}

Exec(h) ==
    /\ Commit(h)
    /\ IF ToRecord(draft[h])
       THEN Continue(h, "exec", "persist")
       ELSE Answer(h, "exec", "applied")

Persist(h) ==
    /\ Answer(h, "persist", "applied")
    /\ db' = [db EXCEPT ![target[h]] = RowOf(draft[h])]
    /\ UNCHANGED <<game, idx, used, cmd, target, dirty>>

-----------------------------------------------------------------------------
(* Faults.  An error of any other Redis command ends the handler with an    *)
(* error, whether or not the command took effect: EXEC may be carried out   *)
(* and its reply lost.  An error of SaveResult is logged and dropped.       *)

Fail(h) ==
    /\ MayFail
    /\ pc[h] \in {"list", "watch", "read", "exec", "save", "indexWhite", "indexBlack"}
    /\ Answer(h, pc[h], "error")
    /\ UNCHANGED <<stores, cmd, target, dirty>>

ExecLost(h) ==
    /\ MayFail
    /\ Commit(h)
    /\ Answer(h, "exec", "error")

PersistFail(h) ==
    /\ MayFail
    /\ Answer(h, "persist", "applied")
    /\ UNCHANGED <<stores, cmd, target, dirty>>

\* The process dies: every goroutine is gone, Redis and Postgres are not.
Crash ==
    /\ MayFail
    /\ pc     # [h \in Handler |-> "idle"]
    /\ pc'     = [h \in Handler |-> "idle"]
    /\ cmd'    = [h \in Handler |-> NoCmd]
    /\ found'  = [h \in Handler |-> {}]
    /\ target' = [h \in Handler |-> Nil]
    /\ seen'   = [h \in Handler |-> 0]
    /\ draft'  = [h \in Handler |-> Nil]
    /\ reply'  = [h \in Handler |-> "none"]
    /\ dirty'  = {}
    /\ UNCHANGED stores

\* 24 hours without a write.  A handler that has just written the key and is
\* about to use what it wrote is milliseconds away from that write.
ExpireGame(g) ==
    /\ MayFail
    /\ game[g] # Nil
    /\ \A h \in Handler : target[h] = g =>
          pc[h] \notin {"persist", "indexWhite", "indexBlack"}
    /\ game' = [game EXCEPT ![g] = Nil]
    /\ dirty' = dirty \cup {k \in Handler : pc[k] \in Watching /\ target[k] = g}
    /\ UNCHANGED <<idx, used, db, pc, cmd, found, target, seen, draft, reply>>

\* The index key lives 24 hours from the last game its user started; moves
\* do not renew it.
ExpireIndex(u) ==
    /\ MayFail
    /\ idx[u] # {}
    /\ idx' = [idx EXCEPT ![u] = {}]
    /\ UNCHANGED <<game, used, db, pc, cmd, found, target, seen, draft, reply, dirty>>

-----------------------------------------------------------------------------
\* What a handler does once its command has arrived, faults aside.
Step(h) == \/ SaveGame(h) \/ IndexWhite(h) \/ IndexBlack(h)
           \/ List(h) \/ Select(h) \/ NoneFound(h) \/ Watch(h)
           \/ RefuseMove(h) \/ DraftMove(h) \/ RefuseResign(h) \/ DraftResign(h)
           \/ Conflict(h) \/ Exec(h) \/ Persist(h) \/ Return(h)

Next == \/ \E h \in Handler : \/ Begin(h) \/ Challenge(h)
                              \/ Step(h)
                              \/ Fail(h) \/ ExecLost(h) \/ PersistFail(h)
        \/ Crash
        \/ \E g \in GameId : ExpireGame(g)
        \/ \E u \in User : ExpireIndex(u)

Spec == Init /\ [][Next]_vars

\* A goroutine that runs gets its answers: the Go scheduler is fair and every
\* Redis and Postgres call returns.  Nothing makes users send commands.
FairSpec == Spec /\ \A h \in Handler : WF_vars(Step(h))

-----------------------------------------------------------------------------
(* Safety. *)

Live(g) == game[g] # Nil

InTurns(r) ==
    \A i \in 1..Len(r.moves) :
        /\ r.moves[i].by = PlayerOf(r, SideAfter(i - 1))
        /\ i < Len(r.moves) => r.moves[i].legal

JustVerdict(r) ==
    /\ r.status \in {"ACTIVE", "DRAW"} => r.winner = NoOne
    /\ r.status = "FINISHED" => /\ Len(r.moves) > 0
                                /\ r.winner = r.moves[Len(r.moves)].by
    /\ r.status = "RESIGNED" => r.winner \in Players(r)

\* The moves of a stored game were typed by White and Black in turn, and what
\* is no legal move can only be the last of them, although handlers of both
\* players (and several of the same player) decide on snapshots of the game.
TurnOrder == \A g \in GameId : Live(g) => InTurns(game[g])

\* The verdict stored with a game is the one its moves and its resigner call
\* for: no winner while it runs or is drawn, the last mover after a mate, one
\* of the two players after a resignation.
VerdictSound == \A g \in GameId : Live(g) => JustVerdict(game[g])

\* A row of pvp_games is about a game that is over, and says what the game
\* in Redis says for as long as both exist.
ArchiveAgrees ==
    \A g \in GameId : Live(g) /\ db[g] # Nil =>
        Over(game[g]) /\ db[g] = RowOf(game[g])

\* Once a game is over its record never changes: a resignation that loses the
\* race against a mate, or the other way round, leaves the verdict alone.
FinalIsFinal ==
    [][\A g \in GameId : Live(g) /\ Over(game[g]) => game'[g] \in {game[g], Nil}]_vars

\* No committed move is ever lost to a writer that had read an older record,
\* no step adds two moves, and the players of a board stay the same.
NoMoveLost ==
    [][\A g \in GameId : Live(g) /\ Live(g)' =>
          /\ Players(game'[g]) = Players(game[g])
          /\ Len(game'[g].moves) \in {Len(game[g].moves), Len(game[g].moves) + 1}
          /\ SubSeq(game'[g].moves, 1, Len(game[g].moves)) = game[g].moves]_vars

\* The handlers with their snapshots implement boards that change one whole
\* turn, resignation or archived result at a time.
Match == INSTANCE PvpMatch WITH board <- game, archive <- db
ImplementsMatch == Match!Spec

-----------------------------------------------------------------------------
(* The inductive invariant the theorems of PvpGameProofs rest on.           *)

\* A handler past a step has the locals that step gave it.
LocalsOK ==
    \A h \in Handler :
        /\ pc[h] \in {"list", "select", "watch", "read", "exec", "persist"} =>
              cmd[h].user \in User /\ cmd[h].op \in {"move", "resign"}
        /\ pc[h] \in {"watch", "read", "exec", "persist", "indexWhite", "indexBlack"} =>
              target[h] # Nil
        /\ pc[h] \in {"exec", "persist", "save", "indexWhite", "indexBlack"} =>
              draft[h] # Nil
        /\ pc[h] = "save" =>
              \E rooms \in SUBSET Room :
                  draft[h] = NewGame(draft[h].white, draft[h].black, rooms)

\* The stored turn is the turn of the position, while there is one.
TurnOK(r) == Active(r) /\ Replayable(r) => r.turn = SideAfter(Len(r.moves))

\* Nothing mentions an id before it was handed out, and the index of a user
\* names games that user is a player of only.
StoresOK ==
    \A g \in GameId :
        /\ Live(g) \/ db[g] # Nil => g \in used
        /\ Live(g) => InTurns(game[g]) /\ JustVerdict(game[g]) /\ TurnOK(game[g])
        /\ \A u \in User : g \in idx[u] =>
              g \in used /\ (Live(g) => u \in Players(game[g]))

\* What a handler may write over r.
Successor(h, r, d) ==
    \/ /\ cmd[h].op = "move"
       /\ Match!MayMove(r, cmd[h].user)
       /\ \/ \E end \in Endings : d = Played(r, cmd[h].user, end)
          \/ d = Misplayed(r, cmd[h].user)
    \/ /\ cmd[h].op = "resign"
       /\ Active(r)
       /\ cmd[h].user \in Players(r)
       /\ d = Resigned(r, cmd[h].user)

\* What a handler remembers of the stores still holds.  As long as nobody has
\* written the key it watches, its draft was made from what the key holds; and
\* a result on its way to Postgres is that of the game in Redis.
HandlerOK(h) ==
    LET t == target[h] IN
    /\ found[h] \subseteq used
    /\ t # Nil => t \in used
    /\ pc[h] = "select" =>
          \A g \in found[h] : Live(g) => cmd[h].user \in Players(game[g])
    /\ pc[h] \in {"watch", "read", "exec"} =>
          (Live(t) => cmd[h].user \in Players(game[t]))
    /\ pc[h] \in {"indexWhite", "indexBlack"} =>
          (Live(t) => draft[h].white = game[t].white /\ draft[h].black = game[t].black)
    /\ pc[h] = "exec" /\ h \notin dirty =>
          Live(t) /\ Successor(h, game[t], draft[h])
    /\ pc[h] = "persist" =>
          Live(t) /\ Over(game[t]) /\ game[t] = draft[h]

Inductive == /\ TypeOK /\ LocalsOK /\ StoresOK /\ ArchiveAgrees
             /\ \A h \in Handler : HandlerOK(h)

-----------------------------------------------------------------------------
(* Liveness. *)

\* The result of every game that ends reaches pvp_games.
FinalRecorded ==
    \A g \in GameId : (Live(g) /\ Over(game[g])) ~> (db[g] # Nil)

-----------------------------------------------------------------------------
(* What comments and tests of the repository say and the code does not do.  *)

\* main.go:1056 counts an illegal entry among the moves that are not applied
\* ("차례 아님/불법수/경합"): every move of a stored game is a legal one.
IllegalNotApplied ==
    \A g \in GameId : Live(g) => Replayable(game[g])
=============================================================================
