---------------------------- MODULE SoloSession ----------------------------
(***************************************************************************)
(* internal/service/chess: games of one user against the engine.  The      *)
(* session of a user lives in Redis, finished games and the profiles in    *)
(* Postgres, and a copy of each profile in Redis.  A command is a          *)
(* goroutine that takes one call to Redis, Postgres or the engine per step *)
(* and holds no lock.                                                      *)
(*                                                                         *)
(* The session belongs to the user's id, the profile to the display name   *)
(* the message carries (deriveIdentity), which users change and share: a   *)
(* command comes from any user under any name.  A profile is the tally of  *)
(* the games it counts; games_played, wins, losses and draws are sums of it. *)
(***************************************************************************)
EXTENDS Naturals

CONSTANTS User,     \* room and user id: keys of chess:sessions
          Player,   \* player_hash and room_hash: keys of profiles
          Uuid,     \* session uuids that can be drawn
          Result,   \* ways a game can end
          Handler,  \* goroutines
          MaxPly,   \* longest game, for TLC
          MayFail,  \* whether calls fail and processes die
          Nil

ASSUME ResultAssumption == /\ Result \subseteq {"win", "loss", "draw"}
                           /\ "loss" \in Result
ASSUME PlyAssumption  == MaxPly \in Nat
ASSUME FailAssumption == MayFail \in BOOLEAN

VARIABLES session,  \* chess:sessions:<user>
          used,     \* uuids drawn so far
          archive,  \* table chess_games
          db,       \* table chess_profiles
          cache,    \* chess:profile:<player>
          cmd,      \* what each goroutine is doing
          calm      \* no call failed, and no two commands overlapped

vars == <<session, used, archive, db, cache, cmd, calm>>

Payload == [uuid : Uuid, ply : Nat, end : Result \cup {"open"}]
Row     == [player : Player, result : Result]
Tally   == [Uuid \X Result -> Nat]

Finishing == {"play", "resign"}
Op == Finishing \cup {"start", "status", "undo", "profile", "prefer"}
PC == {"idle", "load", "think", "insert", "lookup", "fetch", "warm", "upsert",
       "recache", "peek", "peekdb", "peekwarm", "create", "save", "delete"}

ASSUME NilAssumption == /\ Nil \notin Payload /\ Nil \notin Row /\ Nil \notin Tally
                        /\ Nil \notin Op /\ Nil \notin [uuid : Uuid, ply : Nat]

\* draft is the loaded payload with the game replayed from it; prof a profile
\* that was read.
Idle    == [pc |-> "idle", op |-> Nil, user |-> Nil, player |-> Nil,
            draft |-> Nil, prof |-> Nil]
Command == [pc : PC \ {"idle"}, op : Op, user : User, player : Player,
            draft : Payload \cup {Nil}, prof : Tally \cup {Nil}]

TypeOK ==
    /\ session \in [User -> Payload \cup {Nil}]
    /\ used    \in SUBSET Uuid
    /\ archive \in [Uuid -> Row \cup {Nil}]
    /\ db      \in [Player -> Tally \cup {Nil}]
    /\ cache   \in [Player -> Tally \cup {Nil}]
    /\ cmd     \in [Handler -> Command \cup {Idle}]
    /\ calm    \in BOOLEAN

Init ==
    /\ session = [u \in User |-> Nil]
    /\ used    = {}
    /\ archive = [g \in Uuid |-> Nil]
    /\ db      = [p \in Player |-> Nil]
    /\ cache   = [p \in Player |-> Nil]
    /\ cmd     = [h \in Handler |-> Idle]
    /\ calm    = TRUE

-----------------------------------------------------------------------------
At(h, pc)    == cmd[h].pc = pc
Is(h, op)    == cmd[h].op = op
Stored(h)    == session[cmd[h].user]
Go(h, to)    == cmd' = [cmd EXCEPT ![h].pc = to]
Draft(h, to, payload) == cmd' = [cmd EXCEPT ![h].pc = to, ![h].draft = payload]
Return(h)    == cmd' = [cmd EXCEPT ![h] = Idle]

\* A chess command of main.go:1265 reaches the service.
Begin(h, op, u, p) ==
    /\ At(h, "idle")
    /\ calm' = (calm /\ \A i \in Handler : At(i, "idle"))
    /\ cmd' = [cmd EXCEPT ![h] =
         [pc |-> CASE op = "profile" -> "peek"
                   [] op = "prefer"  -> "fetch"
                   [] OTHER          -> "load",
          op |-> op, user |-> u, player |-> p, draft |-> Nil, prof |-> Nil]]
    /\ UNCHANGED <<session, used, archive, db, cache>>

(* loadSession and what each operation makes of it *)

LoadMiss(h) ==
    /\ At(h, "load") /\ Stored(h) = Nil
    /\ IF Is(h, "start") THEN Go(h, "fetch") ELSE Return(h)
    /\ UNCHANGED <<session, used, archive, db, cache, calm>>

Resume(h) ==
    /\ At(h, "load") /\ Stored(h) # Nil
    /\ cmd[h].op \in {"start", "status"}
    /\ Go(h, "peek")
    /\ UNCHANGED <<session, used, archive, db, cache, calm>>

\* Mutant: Undo takes back the engine's move only.
OnePlyBack(payload) == [payload EXCEPT !.ply = @ - 1, !.end = "open"]

TakeBack(payload) == [payload EXCEPT !.ply = @ - 2, !.end = "open"]

\* Mutant: a game that has just begun is not excepted.
TooFewNever(payload) == FALSE

TooFew(payload) == payload.ply < 2

Undo(h) ==
    /\ At(h, "load") /\ Stored(h) # Nil
    /\ Is(h, "undo")
    /\ IF TooFew(Stored(h)) THEN Return(h)
                            ELSE Draft(h, "peek", TakeBack(Stored(h)))
    /\ UNCHANGED <<session, used, archive, db, cache, calm>>

Resign(h) ==
    /\ At(h, "load") /\ Stored(h) # Nil
    /\ Is(h, "resign")
    /\ Draft(h, "insert", [Stored(h) EXCEPT !.end = "loss"])
    /\ UNCHANGED <<session, used, archive, db, cache, calm>>

\* The position after one more ply is open or the game is over.
Plied(payload, end) == [payload EXCEPT !.ply = @ + 1, !.end = end]

PlayRefused(h) ==
    /\ At(h, "load") /\ Stored(h) # Nil
    /\ Is(h, "play")
    /\ Return(h)
    /\ UNCHANGED <<session, used, archive, db, cache, calm>>

PlayerMoves(h) ==
    /\ At(h, "load") /\ Stored(h) # Nil
    /\ Is(h, "play")
    /\ Stored(h).end = "open" /\ Stored(h).ply < MaxPly
    /\ \E end \in {"open"} \cup (Result \ {"loss"}) :
          Draft(h, IF end = "open" THEN "think" ELSE "insert", Plied(Stored(h), end))
    /\ UNCHANGED <<session, used, archive, db, cache, calm>>

\* Mutant: the player's move is saved before the engine is asked.
EngineFailsKeeps(h) ==
    /\ At(h, "think")
    /\ session' = [session EXCEPT ![cmd[h].user] = cmd[h].draft]
    /\ Return(h)
    /\ UNCHANGED <<used, archive, db, cache, calm>>

\* Play returns and has saved nothing: the player's move is not kept either.
EngineFails(h) ==
    /\ At(h, "think")
    /\ Return(h)
    /\ UNCHANGED <<session, used, archive, db, cache, calm>>

EngineMoves(h) ==
    /\ At(h, "think")
    /\ \E end \in {"open"} \cup (Result \ {"win"}) :
          Draft(h, IF end = "open" THEN "save" ELSE "insert",
                Plied(cmd[h].draft, end))
    /\ UNCHANGED <<session, used, archive, db, cache, calm>>

(* saveSession and deleteSession *)

Create(h) ==
    /\ At(h, "create")
    /\ \E g \in Uuid \ used :
          /\ used'    = used \cup {g}
          /\ session' = [session EXCEPT ![cmd[h].user] =
                            [uuid |-> g, ply |-> 0, end |-> "open"]]
    /\ Return(h)
    /\ UNCHANGED <<archive, db, cache, calm>>

\* The preset asked for does not exist.
CreateRefused(h) ==
    /\ At(h, "create")
    /\ Return(h)
    /\ UNCHANGED <<session, used, archive, db, cache, calm>>

Save(h) ==
    /\ At(h, "save")
    /\ session' = [session EXCEPT ![cmd[h].user] = cmd[h].draft]
    /\ Return(h)
    /\ UNCHANGED <<used, archive, db, cache, calm>>

Delete(h) ==
    /\ At(h, "delete")
    /\ session' = [session EXCEPT ![cmd[h].user] = Nil]
    /\ Return(h)
    /\ UNCHANGED <<used, archive, db, cache, calm>>

(* persistFinishedGame *)

\* Mutant: a conflicting row is overwritten and counts as inserted.
TakenNever(g) == FALSE

Taken(g) == archive[g] # Nil

Game(h)  == cmd[h].draft.uuid
RowOf(h) == [player |-> cmd[h].player, result |-> cmd[h].draft.end]

Insert(h) ==
    /\ At(h, "insert") /\ ~Taken(Game(h))
    /\ archive' = [archive EXCEPT ![Game(h)] = RowOf(h)]
    /\ Go(h, "fetch")
    /\ UNCHANGED <<session, used, db, cache, calm>>

Duplicate(h) ==
    /\ At(h, "insert") /\ Taken(Game(h))
    /\ Go(h, "lookup")
    /\ UNCHANGED <<session, used, archive, db, cache, calm>>

\* The game is looked up under the name the player has now.
Lookup(h) ==
    /\ At(h, "lookup")
    /\ IF archive[Game(h)].player = cmd[h].player THEN Go(h, "peek") ELSE Return(h)
    /\ UNCHANGED <<session, used, archive, db, cache, calm>>

Zero == [e \in Uuid \X Result |-> 0]

\* With the profile at hand: make a session, store the preference, or count
\* the game.
Fetched(h) == IF Is(h, "start") THEN "create" ELSE "upsert"

\* fetchProfile without the cache.
Fetch(h) ==
    /\ At(h, "fetch")
    /\ IF db[cmd[h].player] = Nil
       THEN cmd' = [cmd EXCEPT ![h].pc = Fetched(h), ![h].prof = Zero]
       ELSE cmd' = [cmd EXCEPT ![h].pc = "warm", ![h].prof = db[cmd[h].player]]
    /\ UNCHANGED <<session, used, archive, db, cache, calm>>

CacheProfile(h) == cache' = [cache EXCEPT ![cmd[h].player] = cmd[h].prof]

Warm(h) ==
    /\ At(h, "warm")
    /\ CacheProfile(h)
    /\ Go(h, Fetched(h))
    /\ UNCHANGED <<session, used, archive, db, calm>>

\* applyGameResult; a preference leaves the counters alone.
Counted(h) ==
    IF cmd[h].op \in Finishing
    THEN [cmd[h].prof EXCEPT ![<<Game(h), cmd[h].draft.end>>] = @ + 1]
    ELSE cmd[h].prof

Upsert(h) ==
    /\ At(h, "upsert")
    /\ db'  = [db EXCEPT ![cmd[h].player] = Counted(h)]
    /\ cmd' = [cmd EXCEPT ![h].pc = "recache", ![h].prof = Counted(h)]
    /\ UNCHANGED <<session, used, archive, cache, calm>>

\* Mutant: the session of a finished game is left to expire.
UpsertedKeeps(h) == Return(h)

Upserted(h) == IF cmd[h].op \in Finishing THEN Go(h, "delete") ELSE Return(h)

Recache(h) ==
    /\ At(h, "recache")
    /\ CacheProfile(h)
    /\ Upserted(h)
    /\ UNCHANGED <<session, used, archive, db, calm>>

(* fetchProfile with the cache: the profile is shown, never written back *)

Shown(h) ==
    \/ /\ Is(h, "start")
       /\ cmd' = [cmd EXCEPT ![h].op = "status", ![h].pc = "load", ![h].prof = Nil]
    \/ cmd[h].op \in {"status", "profile"} /\ Return(h)
    \/ Is(h, "undo") /\ Go(h, "save")
    \/ cmd[h].op \in Finishing /\ Go(h, "delete")

Peek(h) ==
    /\ At(h, "peek")
    /\ IF cache[cmd[h].player] # Nil THEN Shown(h) ELSE Go(h, "peekdb")
    /\ UNCHANGED <<session, used, archive, db, cache, calm>>

PeekDb(h) ==
    /\ At(h, "peekdb")
    /\ IF db[cmd[h].player] = Nil
       THEN Shown(h)
       ELSE cmd' = [cmd EXCEPT ![h].pc = "peekwarm", ![h].prof = db[cmd[h].player]]
    /\ UNCHANGED <<session, used, archive, db, cache, calm>>

PeekWarm(h) ==
    /\ At(h, "peekwarm")
    /\ CacheProfile(h)
    /\ Shown(h)
    /\ UNCHANGED <<session, used, archive, db, calm>>

-----------------------------------------------------------------------------
(* What can go wrong *)

\* A call fails.  Only the calls about the cache of profiles are not fatal.
Fail(h) ==
    /\ MayFail /\ calm' = FALSE
    /\ \/ /\ cmd[h].pc \in {"load", "insert", "lookup", "fetch", "upsert", "create",
                            "save", "delete"}
          /\ Return(h)
       \/ /\ cmd[h].pc \in {"peek", "peekdb"}
          /\ IF cmd[h].op \in Finishing THEN Return(h) ELSE Shown(h)
       \/ At(h, "peekwarm") /\ Shown(h)
       \/ At(h, "warm") /\ Go(h, Fetched(h))
       \/ At(h, "recache") /\ Upserted(h)
    /\ UNCHANGED <<session, used, archive, db, cache>>

\* The statement is carried out and its reply is lost.
InsertLost(h) ==
    /\ MayFail /\ calm' = FALSE
    /\ At(h, "insert") /\ ~Taken(Game(h))
    /\ archive' = [archive EXCEPT ![Game(h)] = RowOf(h)]
    /\ Return(h)
    /\ UNCHANGED <<session, used, db, cache>>

UpsertLost(h) ==
    /\ MayFail /\ calm' = FALSE
    /\ At(h, "upsert")
    /\ db' = [db EXCEPT ![cmd[h].player] = Counted(h)]
    /\ Return(h)
    /\ UNCHANGED <<session, used, archive, cache>>

Crash ==
    /\ MayFail /\ calm' = FALSE
    /\ \E h \in Handler : ~At(h, "idle")
    /\ cmd' = [h \in Handler |-> Idle]
    /\ UNCHANGED <<session, used, archive, db, cache>>

ExpireSession(u) ==
    /\ session[u] # Nil
    /\ session' = [session EXCEPT ![u] = Nil]
    /\ UNCHANGED <<used, archive, db, cache, cmd, calm>>

ExpireProfile(p) ==
    /\ cache[p] # Nil
    /\ cache' = [cache EXCEPT ![p] = Nil]
    /\ UNCHANGED <<session, used, archive, db, cmd, calm>>

-----------------------------------------------------------------------------
Step(h) ==
    \/ LoadMiss(h) \/ Resume(h) \/ Undo(h) \/ Resign(h) \/ PlayRefused(h)
    \/ PlayerMoves(h) \/ EngineFails(h) \/ EngineMoves(h)
    \/ Create(h) \/ CreateRefused(h) \/ Save(h) \/ Delete(h)
    \/ Insert(h) \/ Duplicate(h) \/ Lookup(h)
    \/ Fetch(h) \/ Warm(h) \/ Upsert(h) \/ Recache(h)
    \/ Peek(h) \/ PeekDb(h) \/ PeekWarm(h)

Next ==
    \/ \E h \in Handler :
          \/ \E op \in Op, u \in User, p \in Player : Begin(h, op, u, p)
          \/ Step(h)
          \/ Fail(h) \/ InsertLost(h) \/ UpsertLost(h)
    \/ Crash
    \/ \E u \in User : ExpireSession(u)
    \/ \E p \in Player : ExpireProfile(p)

Spec == Init /\ [][Next]_vars

-----------------------------------------------------------------------------
\* A tally of player p counts games of p, with their results, once.
Backed(t, p) ==
    \A g \in Uuid, r \in Result :
        t[<<g, r>>] <= IF archive[g] = [player |-> p, result |-> r] THEN 1 ELSE 0

\* No game counts twice for the rating of its player, and none that was not
\* played: however often a command that ends it is repeated, fails half-way or
\* races with another one (service.go 1407-1436).
CountsBacked ==
    \A p \in Player : /\ db[p]    # Nil => Backed(db[p], p)
                      /\ cache[p] # Nil => Backed(cache[p], p)

\* A stored session is open and it is the player's turn: whoever saves one has
\* both plies or none (service.go 657-854).
PlayersTurn ==
    \A u \in User : session[u] # Nil =>
        session[u].end = "open" /\ session[u].ply % 2 = 0

\* As long as one command ran at a time and no call failed, every recorded game
\* is counted, cannot be played on, and the cache tells what Postgres knows.
SettledWhenCalm ==
    (calm /\ \A h \in Handler : At(h, "idle")) =>
        /\ \A g \in Uuid : archive[g] # Nil =>
              /\ db[archive[g].player] # Nil
              /\ db[archive[g].player][<<g, archive[g].result>>] = 1
              /\ \A u \in User : session[u] # Nil => session[u].uuid # g
        /\ \A p \in Player : cache[p] \in {Nil, db[p]}

\* Why games count once.  A goroutine that has recorded a game and not yet
\* counted it is the only one, and no copy of any profile knows the game.
Owes(c) == c.op \in Finishing /\ c.pc \in {"fetch", "warm", "upsert"}
Owing   == {h \in Handler : Owes(cmd[h])}

Unknown(t, g) == \A r \in Result : t[<<g, r>>] = 0

Debts ==
    \A h \in Owing :
        /\ archive[Game(h)] = RowOf(h)
        /\ \A i \in Owing : Game(i) = Game(h) => i = h
        /\ \A p \in Player : /\ db[p]    # Nil => Unknown(db[p], Game(h))
                             /\ cache[p] # Nil => Unknown(cache[p], Game(h))
        /\ \A i \in Handler : cmd[i].prof # Nil => Unknown(cmd[i].prof, Game(h))

Copies ==
    \A h \in Handler : cmd[h].prof # Nil => Backed(cmd[h].prof, cmd[h].player)

\* What a goroutine has in its hands at each place.
Holds(c) ==
    /\ c.op \in Finishing /\ c.pc \notin {"load", "think", "save"} =>
          c.draft # Nil /\ c.draft.end \in Result
    /\ c.pc = "think" =>
          c.op = "play" /\ c.draft # Nil /\ c.draft.ply % 2 = 1
    /\ c.pc = "save" \/ (c.op = "undo" /\ c.pc # "load") =>
          c.draft # Nil /\ c.draft.end = "open" /\ c.draft.ply % 2 = 0
    /\ c.pc \in {"insert", "lookup"}   => c.op \in Finishing
    /\ c.pc \in {"fetch", "warm"}      => c.op \in Finishing \cup {"start", "prefer"}
    /\ c.pc \in {"upsert", "recache"}  => c.op \in Finishing \cup {"prefer"}
    /\ c.pc \in {"warm", "upsert", "recache", "peekwarm"} => c.prof # Nil

Hands == \A h \in Handler : Holds(cmd[h])

Inductive ==
    TypeOK /\ CountsBacked /\ PlayersTurn /\ Debts /\ Copies /\ Hands

-----------------------------------------------------------------------------
(* SoloGame: one command, one step.  A game somebody has loaded is, until it *)
(* is recorded, the game as it was loaded, also when it expires meanwhile; a *)
(* game that is recorded is over and counted, though its session is still    *)
(* there and its profile is not yet written.                                 *)

LoadedPly(c) == CASE c.op = "undo"   -> c.draft.ply + 2
                  [] c.op = "resign" -> c.draft.ply
                  [] OTHER           -> IF c.draft.ply % 2 = 1 THEN c.draft.ply - 1
                                        ELSE c.draft.ply - 2

InHand(u) == {h \in Handler : /\ cmd[h].user = u /\ cmd[h].draft # Nil
                              /\ archive[cmd[h].draft.uuid] = Nil}

InRedis(u) == IF session[u] = Nil \/ archive[session[u].uuid] # Nil THEN Nil
              ELSE [uuid |-> session[u].uuid, ply |-> session[u].ply]

Games == [u \in User |->
    IF InHand(u) = {} THEN InRedis(u)
    ELSE LET c == cmd[CHOOSE h \in InHand(u) : TRUE]
         IN  [uuid |-> c.draft.uuid, ply |-> LoadedPly(c)]]

Tallies == [p \in Player |-> [e \in Uuid \X Result |->
    (IF db[p] = Nil THEN 0 ELSE db[p][e])
    + (IF \E h \in Owing : cmd[h].player = p /\ <<Game(h), cmd[h].draft.end>> = e
       THEN 1 ELSE 0)]]

Promise == INSTANCE SoloGame WITH game <- Games, drawn <- used, record <- archive,
                                  tally <- Tallies

\* While commands come one at a time and nothing fails, each is one step on
\* the game it is about; what the goroutine writes one by one (row, profile,
\* session: service.go 1380-1437) appears at once, and with every failure and
\* overlap a record is kept and counts at most once.
ImplementsGame == Promise!Spec
=============================================================================
