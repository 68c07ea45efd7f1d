----------------------------- MODULE PvpChannel -----------------------------
(***************************************************************************)
(* internal/pvpchan: a user makes a channel and is handed its code, another *)
(* user joins with that code, and the second seat starts a game.  Every     *)
(* "방 생성" and "참가" command is a goroutine (a Handler) that sends Redis *)
(* one command at a time; only the seats are taken in a transaction.        *)
(*                                                                          *)
(* The game manager is seen through what the channels use of it: which      *)
(* games run, between whom, in which rooms, and who finds them in his       *)
(* index.  PvpGame has the inside of CreateGameFromChallenge, here one step. *)
(* Game ids, codes and colours are drawn at random; a code is drawn anew    *)
(* when it is taken.                                                        *)
(***************************************************************************)
EXTENDS Naturals, FiniteSets

CONSTANTS User, Room,
          Code,      \* channel codes CH-xxxxxx
          GameId,    \* bound: games that can be created
          Handler,   \* command goroutines that may be in flight together
          NoOne,     \* the empty user id of a channel that is being made
          Nil,       \* an absent key, game or local variable
          MayFail    \* whether commands fail, processes die and keys expire

ASSUME EmptyIdAssumption == NoOne \notin User
ASSUME FaultAssumption   == MayFail \in BOOLEAN

VARIABLES meta,      \* ch:<code>
          members,   \* ch:<code>:participants
          rooms,     \* ch:<code>:rooms
          codes,     \* ch:index:user:<id>
          lobby,     \* ch:lobby
          known,     \* codes that have been shown to somebody
          board,     \* games of the game manager
          pc, cmd, code, list, view, made,   \* per handler
          dirty      \* handlers whose watched seats have been written since

keys   == <<meta, members, rooms, codes, lobby, known>>
locals == <<code, list, view, made>>
vars   == <<keys, board, pc, cmd, locals, dirty>>

\* ChannelMeta; SETNX claims a code with "{}", which reads as Blank.
Meta == [state   : {"", "LOBBY", "ACTIVE"},
         creator : User \cup {NoOne},
         room    : Room \cup {Nil},
         game    : GameId \cup {Nil}]

Blank       == [state |-> "", creator |-> NoOne, room |-> Nil, game |-> Nil]
Waiting(u, r) == [state |-> "LOBBY", creator |-> u, room |-> r, game |-> Nil]

\* found holds the players in whose index the game is.
Board == [white : User, black : User, rooms : SUBSET Room,
          active : BOOLEAN, found : SUBSET User]

ASSUME NilAssumption == Nil \notin Code \cup Room \cup GameId \cup Meta \cup Board

Players(b) == {b.white, b.black}

Command == [op : {"none", "make", "join"}, user : User \cup {NoOne}, room : Room \cup {Nil}]
NoCmd   == [op |-> "none", user |-> NoOne, room |-> Nil]

PC == {"idle",
       "mkBusy", "mkList", "mkCheck", "mkMeta", "mkRoom", "mkMember", "mkIndex", "mkLobby",
       "joPre", "joLoad", "joWatch", "joExec", "joReload", "joCount",
       "joBusy", "joBusyCreator", "joCreate", "joMeta", "joLobby"}

TypeOK ==
    /\ meta    \in [Code -> Meta \cup {Nil}]
    /\ members \in [Code -> SUBSET User]
    /\ rooms   \in [Code -> SUBSET Room]
    /\ codes   \in [User -> SUBSET Code]
    /\ lobby   \in SUBSET Code
    /\ known   \in SUBSET Code
    /\ board   \in [GameId -> Board \cup {Nil}]
    /\ pc      \in [Handler -> PC]
    /\ cmd     \in [Handler -> Command]
    /\ code    \in [Handler -> Code \cup {Nil}]
    /\ list    \in [Handler -> SUBSET Code]
    /\ view    \in [Handler -> Meta \cup {Nil}]
    /\ made    \in [Handler -> GameId \cup {Nil}]
    /\ dirty   \in SUBSET Handler

Init ==
    /\ meta    = [c \in Code |-> Nil]
    /\ members = [c \in Code |-> {}]
    /\ rooms   = [c \in Code |-> {}]
    /\ codes   = [u \in User |-> {}]
    /\ lobby   = {}
    /\ known   = {}
    /\ board   = [g \in GameId |-> Nil]
    /\ pc      = [h \in Handler |-> "idle"]
    /\ cmd     = [h \in Handler |-> NoCmd]
    /\ code    = [h \in Handler |-> Nil]
    /\ list    = [h \in Handler |-> {}]
    /\ view    = [h \in Handler |-> Nil]
    /\ made    = [h \in Handler |-> Nil]
    /\ dirty   = {}

-----------------------------------------------------------------------------
Goto(h, from, to) == /\ pc[h] = from
                     /\ pc' = [pc EXCEPT ![h] = to]
                     /\ UNCHANGED cmd

\* The manager returns, the answer is sent, and the goroutine is over.
Answer(h, from) == /\ pc[h] = from
                   /\ pc'   = [pc   EXCEPT ![h] = "idle"]
                   /\ cmd'  = [cmd  EXCEPT ![h] = NoCmd]
                   /\ code' = [code EXCEPT ![h] = Nil]
                   /\ list' = [list EXCEPT ![h] = {}]
                   /\ view' = [view EXCEPT ![h] = Nil]
                   /\ made' = [made EXCEPT ![h] = Nil]

Caller(h) == cmd[h].user

\* GetActiveGameByUserInRoom
Busy(u, r) == \E g \in GameId : /\ board[g] # Nil
                                /\ board[g].active
                                /\ u \in board[g].found
                                /\ r \in board[g].rooms

\* Every busy check drops the error of the lookup and goes on as if the user
\* were free.
BusyCheck(h, u, r, from, to) ==
    /\ pc[h] = from
    /\ \/ Busy(u, r) /\ Answer(h, from)   \* ErrPlayerBusyInRoom
       \/ (MayFail \/ ~Busy(u, r)) /\ Goto(h, from, to) /\ UNCHANGED locals
    /\ UNCHANGED <<keys, board, dirty>>

\* Mutant: a write to the seats is not noticed by those who watch them.
TouchNobody(c, h) == dirty' = dirty

\* Redis marks every connection that watches the seats of c, but the writer's.
Touch(c, h) ==
    dirty' = dirty \cup {k \in Handler \ {h} : pc[k] = "joExec" /\ code[k] = c}

-----------------------------------------------------------------------------
(* Commands come in. *)

BeginMake(h) ==
    /\ pc[h] = "idle"
    /\ pc' = [pc EXCEPT ![h] = "mkBusy"]
    /\ \E u \in User, r \in Room :
          cmd' = [cmd EXCEPT ![h] = [op |-> "make", user |-> u, room |-> r]]
    /\ UNCHANGED <<keys, board, locals, dirty>>

BeginJoin(h) ==
    /\ pc[h] = "idle"
    /\ pc' = [pc EXCEPT ![h] = "joPre"]
    /\ \E u \in User, r \in Room, c \in known :
          /\ cmd'  = [cmd  EXCEPT ![h] = [op |-> "join", user |-> u, room |-> r]]
          /\ code' = [code EXCEPT ![h] = c]
    /\ UNCHANGED <<keys, board, list, view, made, dirty>>

-----------------------------------------------------------------------------
(* Make *)

MakeBusy(h) == BusyCheck(h, Caller(h), cmd[h].room, "mkBusy", "mkList")

\* CodesByUser; its error, too, reads as "no lobby yet".
MakeList(h) ==
    /\ Goto(h, "mkList", "mkCheck")
    /\ \/ list' = [list EXCEPT ![h] = codes[Caller(h)]]
       \/ MayFail /\ UNCHANGED list
    /\ UNCHANGED <<keys, board, code, view, made, dirty>>

Open(c)        == meta[c] # Nil /\ meta[c].state = "LOBBY"
OwnLobby(c, u) == Open(c) /\ meta[c].creator = u

MakeCheck(h) ==
    /\ \E c \in list[h] :
          \/ OwnLobby(c, Caller(h)) /\ Answer(h, "mkCheck")   \* ErrCreatorHasLobby
          \/ /\ MayFail \/ ~OwnLobby(c, Caller(h))
             /\ Goto(h, "mkCheck", "mkCheck")
             /\ list' = [list EXCEPT ![h] = @ \ {c}]
             /\ UNCHANGED <<code, view, made>>
    /\ UNCHANGED <<keys, board, dirty>>

\* One code out of 36^6 is drawn: one whose seats outlive its metadata, or
\* that was shown to somebody before it expired, is not drawn again.
Free(c) == meta[c] = Nil /\ members[c] \cup rooms[c] = {} /\ c \notin known

\* SETNX
MakeClaim(h) ==
    /\ Goto(h, "mkCheck", "mkMeta")
    /\ list[h] = {}
    /\ \E c \in Code :
          /\ Free(c)
          /\ meta' = [meta EXCEPT ![c] = Blank]
          /\ code' = [code EXCEPT ![h] = c]
    /\ UNCHANGED <<members, rooms, codes, lobby, known, board, list, view, made, dirty>>

\* Five draws in vain.
MakeNoCode(h) ==
    /\ Answer(h, "mkCheck")
    /\ list[h] = {}
    /\ \A c \in Code : ~Free(c)
    /\ UNCHANGED <<keys, board, dirty>>

MakeMeta(h) ==
    /\ Goto(h, "mkMeta", "mkRoom")
    /\ meta' = [meta EXCEPT ![code[h]] = Waiting(Caller(h), cmd[h].room)]
    /\ UNCHANGED <<members, rooms, codes, lobby, known, board, locals, dirty>>

MakeRoom(h) ==
    /\ Goto(h, "mkRoom", "mkMember")
    /\ rooms' = [rooms EXCEPT ![code[h]] = @ \cup {cmd[h].room}]
    /\ UNCHANGED <<meta, members, codes, lobby, known, board, locals, dirty>>

MakeMember(h) ==
    /\ Goto(h, "mkMember", "mkIndex")
    /\ members' = [members EXCEPT ![code[h]] = @ \cup {Caller(h)}]
    /\ Touch(code[h], h)
    /\ UNCHANGED <<meta, rooms, codes, lobby, known, board, locals>>

MakeIndex(h) ==
    /\ Goto(h, "mkIndex", "mkLobby")
    /\ codes' = [codes EXCEPT ![Caller(h)] = @ \cup {code[h]}]
    /\ UNCHANGED <<meta, members, rooms, lobby, known, board, locals, dirty>>

\* From here on the code is in the list of rooms and in the reply to Make.
MakeLobby(h) ==
    /\ Answer(h, "mkLobby")
    /\ lobby' = lobby \cup {code[h]}
    /\ known' = known \cup {code[h]}
    /\ UNCHANGED <<meta, members, rooms, codes, board, dirty>>

-----------------------------------------------------------------------------
(* Join; the command handler has a busy check of its own in front of it. *)

JoinPre(h) == BusyCheck(h, Caller(h), cmd[h].room, "joPre", "joLoad")

JoinLoad(h) ==
    LET m == meta[code[h]] IN
    /\ pc[h] = "joLoad"
    /\ \/ m = Nil /\ Answer(h, "joLoad")   \* ErrChannelGone
       \/ m # Nil /\ m.state # "LOBBY" /\ Answer(h, "joLoad")   \* ErrChannelActive
       \/ m # Nil /\ m.state = "LOBBY" /\ Goto(h, "joLoad", "joWatch") /\ UNCHANGED locals
    /\ UNCHANGED <<keys, board, dirty>>

Full(c) == Cardinality(members[c]) >= 2

\* WATCH and SCARD
JoinWatch(h) ==
    /\ pc[h] = "joWatch"
    /\ \/ Full(code[h]) /\ Answer(h, "joWatch")   \* ErrFull
       \/ ~Full(code[h]) /\ Goto(h, "joWatch", "joExec") /\ UNCHANGED locals
    /\ dirty' = dirty \ {h}
    /\ UNCHANGED <<keys, board>>

Conflict(h) ==
    /\ h \in dirty
    /\ Answer(h, "joExec")   \* redis.TxFailedErr
    /\ dirty' = dirty \ {h}
    /\ UNCHANGED <<keys, board>>

\* Mutant: the channel is left out of the index of the user who joins.
SeatUnindexed(c, u, r) ==
    /\ members' = [members EXCEPT ![c] = @ \cup {u}]
    /\ rooms'   = [rooms   EXCEPT ![c] = @ \cup {r}]
    /\ UNCHANGED codes

Seat(c, u, r) ==
    /\ members' = [members EXCEPT ![c] = @ \cup {u}]
    /\ rooms'   = [rooms   EXCEPT ![c] = @ \cup {r}]
    /\ codes'   = [codes   EXCEPT ![u] = @ \cup {c}]

Take(h) ==
    /\ pc[h] = "joExec"
    /\ h \notin dirty
    /\ Seat(code[h], Caller(h), cmd[h].room)
    /\ Touch(code[h], h)
    /\ UNCHANGED <<meta, lobby, known, board>>

JoinExec(h) == Take(h) /\ Goto(h, "joExec", "joReload") /\ UNCHANGED locals

\* AddRoom once more, then the metadata as they are now.
JoinReload(h) ==
    /\ Goto(h, "joReload", "joCount")
    /\ rooms' = [rooms EXCEPT ![code[h]] = @ \cup {cmd[h].room}]
    /\ view'  = [view  EXCEPT ![h] = meta[code[h]]]
    /\ UNCHANGED <<meta, members, codes, lobby, known, board, code, list, made, dirty>>

\* Mutant: off by one.
AloneUpToTwo(h) == Cardinality(members[code[h]]) <= 2

Alone(h) == Cardinality(members[code[h]]) < 2

\* A failed count reads as zero.
JoinCount(h) ==
    /\ pc[h] = "joCount"
    /\ view[h] # Nil
    /\ \/ (MayFail \/ Alone(h) \/ view[h].game # Nil) /\ Answer(h, "joCount")   \* not started
       \/ /\ ~Alone(h) /\ view[h].game = Nil
          /\ Goto(h, "joCount", "joBusy") /\ UNCHANGED locals
    /\ UNCHANGED <<keys, board, dirty>>

JoinBusy(h) == BusyCheck(h, Caller(h), cmd[h].room, "joBusy", "joBusyCreator")
JoinBusyCreator(h) == pc[h] = "joBusyCreator" /\ BusyCheck(h, view[h].creator, view[h].room, "joBusyCreator", "joCreate")

\* CreateGameFromChallenge between the creator and the caller, in either
\* colour; a broken creation has a game that not both players find.
NewBoard(h, w, b, found) ==
    [white |-> w, black |-> b, rooms |-> {view[h].room, cmd[h].room},
     active |-> TRUE, found |-> found]

Created(h, g, b) == /\ board[g] = Nil
                    /\ board' = [board EXCEPT ![g] = b]

Pairing(h) == {<<view[h].creator, Caller(h)>>, <<Caller(h), view[h].creator>>}

JoinCreate(h) ==
    /\ Goto(h, "joCreate", "joMeta")
    /\ \E g \in GameId, p \in Pairing(h) :
          /\ Created(h, g, NewBoard(h, p[1], p[2], {p[1], p[2]}))
          /\ made' = [made EXCEPT ![h] = g]
    /\ UNCHANGED <<keys, code, list, view, dirty>>

Started(m, g) == [m EXCEPT !.state = "ACTIVE", !.game = g]

\* The metadata loaded before the game was created are written back whole.
JoinMeta(h) ==
    /\ Goto(h, "joMeta", "joLobby")
    /\ meta' = [meta EXCEPT ![code[h]] = Started(view[h], made[h])]
    /\ UNCHANGED <<members, rooms, codes, lobby, known, board, locals, dirty>>

\* An error of RemoveLobby is dropped.
JoinLobby(h) ==
    /\ Answer(h, "joLobby")
    /\ \/ lobby' = lobby \ {code[h]}
       \/ MayFail /\ UNCHANGED lobby
    /\ UNCHANGED <<meta, members, rooms, codes, known, board, dirty>>

-----------------------------------------------------------------------------
(* Games end by a move, a resignation or their expiry. *)

EndGame(g) ==
    /\ board[g] # Nil
    /\ board[g].active
    /\ board' = [board EXCEPT ![g].active = FALSE]
    /\ UNCHANGED <<keys, pc, cmd, locals, dirty>>

-----------------------------------------------------------------------------
(* Faults.  A command that fails ends the handler, whether the command took *)
(* effect (its reply is lost, the next step has not begun) or not.          *)

Fail(h) ==
    /\ MayFail
    /\ pc[h] \in {"mkCheck", "mkMeta", "mkRoom", "mkMember", "mkIndex", "mkLobby",
                  "joLoad", "joWatch", "joExec", "joReload", "joCreate", "joMeta", "joLobby"}
    /\ Answer(h, pc[h])
    /\ dirty' = dirty \ {h}
    /\ UNCHANGED <<keys, board>>

CreateBroken(h) ==
    /\ MayFail
    /\ Answer(h, "joCreate")
    /\ \E g \in GameId, p \in Pairing(h) : \E found \in SUBSET {p[1]} :
          Created(h, g, NewBoard(h, p[1], p[2], found))
    /\ UNCHANGED <<keys, dirty>>

\* The process dies: every goroutine is gone, Redis is not.
Die ==
    /\ pc'    = [h \in Handler |-> "idle"]
    /\ cmd'   = [h \in Handler |-> NoCmd]
    /\ code'  = [h \in Handler |-> Nil]
    /\ list'  = [h \in Handler |-> {}]
    /\ view'  = [h \in Handler |-> Nil]
    /\ made'  = [h \in Handler |-> Nil]
    /\ dirty' = {}
    /\ UNCHANGED <<keys, board>>

Crash == MayFail /\ pc # [h \in Handler |-> "idle"] /\ Die

\* The metadata that are loaded once more are not checked for nil: when they
\* have expired since the first load, Join panics and nobody recovers.
JoinPanic(h) == pc[h] = "joCount" /\ view[h] = Nil /\ Die

(* Keys expire 24 hours after they were last written, in the order of these *)
(* writes; a handler's own steps are milliseconds apart, so no key expires   *)
(* under a handler that has just written it.                                *)
Writing(c, pcs) == \E h \in Handler : code[h] = c /\ pc[h] \in pcs

Making == {"mkMeta", "mkRoom", "mkMember", "mkIndex", "mkLobby"}
Seated == {"joReload", "joCount", "joBusy", "joBusyCreator", "joCreate", "joMeta"}

ExpireMeta(c) ==
    /\ MayFail
    /\ meta[c] # Nil
    /\ ~Writing(c, Making \cup {"joLobby"})
    /\ meta' = [meta EXCEPT ![c] = Nil]
    /\ UNCHANGED <<members, rooms, codes, lobby, known, board, pc, cmd, locals, dirty>>

\* The seats and rooms are renewed whenever the metadata are.
ExpireSeats(c) ==
    /\ MayFail
    /\ meta[c] = Nil
    /\ members[c] \cup rooms[c] # {}
    /\ ~Writing(c, Seated)
    /\ members' = [members EXCEPT ![c] = {}]
    /\ rooms'   = [rooms   EXCEPT ![c] = {}]
    /\ dirty'   = dirty \cup {h \in Handler : pc[h] = "joExec" /\ code[h] = c}
    /\ UNCHANGED <<meta, codes, lobby, known, board, pc, cmd, locals>>

\* Whose index was written together with the metadata of c: its creator's
\* when it was made, that of the user who joined when it started.
Latest(c) ==
    LET m == meta[c] IN
    IF m = Nil THEN {}
    ELSE IF m.state # "ACTIVE" THEN {m.creator}
    ELSE IF Players(board[m.game]) = {m.creator} THEN {m.creator}
    ELSE Players(board[m.game]) \ {m.creator}

\* The index of a creator is not renewed when somebody joins him.
ExpireIndex(u) ==
    /\ MayFail
    /\ codes[u] # {}
    /\ \A c \in codes[u] : u \notin Latest(c)
    /\ \A h \in Handler : Caller(h) = u => pc[h] \notin Making \cup Seated
    /\ codes' = [codes EXCEPT ![u] = {}]
    /\ UNCHANGED <<meta, members, rooms, lobby, known, board, pc, cmd, locals, dirty>>

ExpireLobby ==
    /\ MayFail
    /\ lobby # {}
    /\ \A c \in lobby : ~Open(c)
    /\ lobby' = {}
    /\ UNCHANGED <<meta, members, rooms, codes, known, board, pc, cmd, locals, dirty>>

-----------------------------------------------------------------------------
\* What a handler does once its command has arrived, faults aside.
Step(h) == \/ MakeBusy(h) \/ MakeList(h) \/ MakeCheck(h) \/ MakeClaim(h) \/ MakeNoCode(h)
           \/ MakeMeta(h) \/ MakeRoom(h) \/ MakeMember(h) \/ MakeIndex(h) \/ MakeLobby(h)
           \/ JoinPre(h) \/ JoinLoad(h) \/ JoinWatch(h) \/ Conflict(h) \/ JoinExec(h)
           \/ JoinReload(h) \/ JoinCount(h) \/ JoinBusy(h) \/ JoinBusyCreator(h)
           \/ JoinCreate(h) \/ JoinMeta(h) \/ JoinLobby(h)

Next == \/ \E h \in Handler : \/ BeginMake(h) \/ BeginJoin(h)
                              \/ Step(h)
                              \/ Fail(h) \/ CreateBroken(h) \/ JoinPanic(h)
        \/ Crash \/ ExpireLobby
        \/ \E g \in GameId : EndGame(g)
        \/ \E c \in Code : ExpireMeta(c) \/ ExpireSeats(c)
        \/ \E u \in User : ExpireIndex(u)

Spec == Init /\ [][Next]_vars

\* The Go scheduler is fair and every Redis call returns; users may stay away.
FairSpec == Spec /\ \A h \in Handler : WF_vars(Step(h))

-----------------------------------------------------------------------------
(* Safety. *)

Underway(c) == meta[c] # Nil /\ meta[c].state = "ACTIVE"

\* A third user never gets a seat, however many joins race for the last one.
AtMostTwo == \A c \in Code : Cardinality(members[c]) <= 2

\* What the bot finds for a game: MetaByGame looks through the indexes of its
\* players, fanoutRooms adds the rooms of the channel to those of the game.
MetaByGame(g) ==
    {c \in UNION {codes[u] : u \in Players(board[g])} :
        meta[c] # Nil /\ meta[c].game = g}

FanOut(g) == board[g].rooms \cup UNION {rooms[c] : c \in MetaByGame(g)}

\* A channel that has started belongs to one game, between its creator and
\* another holder of a seat, and is the only one the bot finds for that game;
\* so boards go to every room somebody made or joined the channel from.
FanOutComplete ==
    \A c \in Code : Underway(c) =>
        LET g == meta[c].game IN
        /\ g # Nil /\ board[g] # Nil
        /\ meta[c].creator \in Players(board[g])
        /\ Players(board[g]) \subseteq members[c]
        /\ MetaByGame(g) = {c}
        /\ FanOut(g) = rooms[c]

-----------------------------------------------------------------------------
(* The inductive invariant the theorems of PvpChannelProofs rest on.        *)

Joining == {"joPre", "joLoad", "joWatch", "joExec", "joLobby"} \cup Seated

\* Metadata that were written by Make, not only claimed by it.
Proper(m) == m # Nil => m.creator \in User /\ m.room \in Room

SeatsOK == \A c \in Code : IsFiniteSet(members[c]) /\ Cardinality(members[c]) <= 2

CodesOK == \A c \in known : Proper(meta[c])

\* No two handlers make the same channel.
OneMaker ==
    \A h, k \in Handler :
        pc[h] \in Making /\ pc[k] \in Making /\ code[h] = code[k] => h = k

\* Nobody joins a channel that is being made, so its seats are empty until its
\* creator takes one; and as long as the seats a handler watches have not been
\* written, there is room for it.
HandlerOK(h) ==
    /\ pc[h] # "idle" => Caller(h) \in User /\ cmd[h].room \in Room
    /\ pc[h] \in Joining => code[h] \in known
    /\ pc[h] \in Making => code[h] \in Code \ known /\ meta[code[h]] # Nil
    /\ pc[h] \in Making \ {"mkMeta"} => Proper(meta[code[h]])
    /\ pc[h] \in {"mkMeta", "mkRoom", "mkMember"} => members[code[h]] = {}
    /\ pc[h] = "joExec" /\ h \notin dirty => ~Full(code[h])
    /\ pc[h] \in Seated \ {"joReload", "joCount"} => view[h] # Nil
    /\ pc[h] \in Seated \ {"joReload"} => Proper(view[h])

Seating == /\ SeatsOK /\ CodesOK /\ OneMaker
           /\ \A h \in Handler : HandlerOK(h)

Inductive == TypeOK /\ Seating

-----------------------------------------------------------------------------
(* Liveness. *)

\* A join that has taken the second seat starts the game, or somebody else
\* does, unless a holder of a seat turns out to be playing in one of the rooms
\* already.  (That is checked after the seat is taken: such a channel stays
\* full and never starts.)
FullStarts ==
    \A c \in Code, h \in Handler :
        (pc[h] = "joReload" /\ code[h] = c /\ Full(c))
            ~> \/ Underway(c)
               \/ \E u \in members[c], r \in rooms[c] : Busy(u, r)

-----------------------------------------------------------------------------
(* What comments of the repository say and the code does not do; no         *)
(* configuration checks these two, README.md tells how they fail.           *)

\* manager.go:142: a game is started between two participants ("Two
\* participants"), the caller and the creator.
TwoPlayers == \A g \in GameId : board[g] # Nil => board[g].white # board[g].black

\* manager.go:149: no user has two running games in one room ("방 기준 중복
\* 대국 금지"), here two games of two channels.
OneGamePerRoom ==
    \A c, d \in Code :
        LET Running(e) == Underway(e) /\ board[meta[e].game].active
        IN  (c # d /\ Running(c) /\ Running(d)) =>
                LET g == board[meta[c].game]
                    f == board[meta[d].game]
                IN  Players(g) \cap Players(f) = {} \/ g.rooms \cap f.rooms = {}
=============================================================================
