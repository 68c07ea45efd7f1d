---------------------------- MODULE MessageIntake ----------------------------
(***************************************************************************)
(* The intake of chat messages (cmd/chess-bot/main.go, the callback of     *)
(* ws.OnMessage): from the frames the gateway sends for a message to the   *)
(* goroutine that carries out the command.                                 *)
(*                                                                         *)
(* The gateway sends a message as a minimal frame (room and sender by      *)
(* name) and as a frame with JSON (user id and room id), in either order,  *)
(* to every connection.  A callback runs in the goroutine that listens on  *)
(* a connection, one frame at a time; connections are of one process or of *)
(* two (LeaderLock, IrisSocket).  Its steps are what happens up to the     *)
(* SETNX, the SETNX, and the local map.                                    *)
(*                                                                         *)
(* Abstractions.  A key is a room and a sanitised text with the prefix of  *)
(* commands; frames without text, room or prefix end in the callback and   *)
(* are left out.  Time stamps are kept as the time they still count, in    *)
(* units of which Ttl is the 2 s of the three windows.                     *)
(***************************************************************************)
EXTENDS Naturals

CONSTANTS Post,      \* messages users write
          Author,    \* who writes, by display name
          Ignored,   \* cfg.IgnoreSenders
          Key,       \* room and text
          Listener,  \* connections that are listened on
          Process,
          Ttl,       \* life of a dedupe key, of a processed entry, of a name
          Spread,    \* the frames of a message arrive within this time
          Nil

ASSUME WindowAssumption == /\ Ttl \in Nat \ {0}
                           /\ Spread \in Nat
                           /\ Spread <= Ttl
ASSUME AuthorAssumption == Ignored \subseteq Author

\* A message, with the keys its JSON frames and its minimal frames have.
Written == [by : Author, key : Key, alias : Key, age : 0..Spread]

ASSUME NilPostAssumption == Nil \notin Written

\* A frame without a user id and room id, and one with them.
Kind == {"minimal", "json"}

VARIABLES
    roomFilter, \* cfg.AllowedRooms is set, and names the rooms of all posts
    home,       \* the process a connection belongs to
    post,       \* what was written, and how long ago
    read,       \* the frames a listener has read
    at,         \* where the callback of a listener is, and with which frame
    claimed,    \* Redis: how long the dedupe key will live
    processed,  \* the local map: how long an entry counts
    runs,       \* commands started for a post, counted up to two   (observer)
    bare,       \* posts that ran in the name of a minimal frame     (observer)
    since,      \* time since a command with this key was started   (observer)
    shadowed,   \* posts refused because of another with their key, and
                \* not started                                      (observer)
    calm        \* no call has failed, no process has died          (observer)

config == <<roomFilter, home>>
watch  == <<runs, bare, since, shadowed>>
vars   == <<config, post, read, at, claimed, processed, watch, calm>>

Frame == [post : Post, kind : Kind]
Place == [pc : {"idle"}] \cup [pc : {"local"}, frame : Frame]
Idle  == [pc |-> "idle"]

Long    == 2 * Ttl   \* "so long ago that it does not matter", and never

TypeOK ==
    /\ roomFilter \in BOOLEAN
    /\ home \in [Listener -> Process]
    /\ post \in [Post -> Written \cup {Nil}]
    /\ read \in [Listener -> SUBSET Frame]
    /\ at \in [Listener -> Place]
    /\ claimed \in [Key -> 0..Ttl]
    /\ processed \in [Process -> [Key -> 0..(Ttl + 1)]]
    /\ runs \in [Post -> 0..2]
    /\ bare \in SUBSET Post
    /\ since \in [Key -> 0..Long]
    /\ shadowed \in SUBSET Post
    /\ calm \in BOOLEAN

Init ==
    /\ roomFilter \in BOOLEAN
    /\ home \in [Listener -> Process]
    /\ post = [m \in Post |-> Nil]
    /\ read = [l \in Listener |-> {}]
    /\ at = [l \in Listener |-> Idle]
    /\ claimed = [k \in Key |-> 0]
    /\ processed = [p \in Process |-> [k \in Key |-> 0]]
    /\ runs = [m \in Post |-> 0]
    /\ bare = {}
    /\ since = [k \in Key |-> Long]
    /\ shadowed = {}
    /\ calm = TRUE

-----------------------------------------------------------------------------
(* The key of a frame.  extractRoomID prefers the room id of the JSON part; *)
(* for a minimal frame it takes what digits the room's name has, or the     *)
(* name, which need not be the id.                                          *)
KeyOf(f) == IF f.kind = "json" THEN post[f.post].key ELSE post[f.post].alias

\* A user writes a message.
Write(m, by, key, alias) ==
    /\ post[m] = Nil
    /\ post' = [post EXCEPT ![m] = [by |-> by, key |-> key, alias |-> alias,
                                    age |-> 0]]
    /\ UNCHANGED <<config, read, at, claimed, processed, watch, calm>>

(* What senderCache of process p may hold under the key of a frame: a       *)
(* minimal frame leaves its sender's name under room and text, for the JSON *)
(* frame of the same message, and the name is forgotten in time.            *)
CachedNames(p, f) ==
    {post[m].by : m \in {m \in Post : \E l \in Listener :
                            /\ home[l] = p
                            /\ [post |-> m, kind |-> "minimal"] \in read[l]
                            /\ post[m].alias = KeyOf(f)}}

(* isIgnoredSender, for the names a frame may be shown under.  A minimal    *)
(* frame has put its own name into the cache.  For a JSON frame it is the   *)
(* cached name, its sender, or the user id if it comes without a sender.    *)
MayIgnore(p, f) ==
    \/ post[f.post].by \in Ignored
    \/ f.kind = "json" /\ CachedNames(p, f) \cap Ignored # {}

MayAccept(f) == f.kind = "json" \/ post[f.post].by \notin Ignored

\* roomAllowed refuses what has no JSON part.
Filtered(f) == roomFilter /\ f.kind = "minimal"

\* Some command with key k was started not long ago, or is about to be.
Shadow(l, k) ==
    \/ since[k] < Long
    \/ \E o \in Listener \ {l} : at[o].pc = "local" /\ KeyOf(at[o].frame) = k

Refuse(l, f) == shadowed' = IF Shadow(l, KeyOf(f)) /\ runs[f.post] = 0 /\ calm
                            THEN shadowed \cup {f.post} ELSE shadowed

\* Mutant: SET instead of SETNX.
AlwaysFree(k) == TRUE

Free(k) == claimed[k] = 0

Set(k) == [claimed EXCEPT ![k] = Ttl]

\* A frame arrives that was not read yet, while its connection is idle.
Arrives(l, f) ==
    /\ at[l].pc = "idle"
    /\ post[f.post] # Nil
    /\ post[f.post].age < Spread
    /\ f \notin read[l]
    /\ read' = [read EXCEPT ![l] = @ \cup {f}]

Passes(f) == MayAccept(f) /\ ~Filtered(f)

\* A frame the filters drop leaves nothing but the name.
Drop(l, f) ==
    /\ Arrives(l, f)
    /\ MayIgnore(home[l], f) \/ Filtered(f)
    /\ UNCHANGED <<config, post, at, claimed, processed, watch, calm>>

\* The callback up to the SETNX of the dedupe key.
Claim(l, f) ==
    /\ Arrives(l, f)
    /\ Passes(f)
    /\ IF Free(KeyOf(f))
       THEN /\ claimed' = Set(KeyOf(f))
            /\ at' = [at EXCEPT ![l] = [pc |-> "local", frame |-> f]]
            /\ UNCHANGED shadowed
       ELSE /\ Refuse(l, f)
            /\ UNCHANGED <<claimed, at>>
    /\ UNCHANGED <<config, post, processed, runs, bare, since, calm>>

(* Bound: one fault per behaviour, after which only what HandledOnce looks  *)
(* at is observed.                                                          *)
Fault == /\ calm /\ calm' = FALSE
         /\ since' = [k \in Key |-> Long] /\ shadowed' = {}

(* The error of the SETNX is dropped and its zero value reads as "seen      *)
(* before", whether the key was set or not.                                 *)
ClaimFails(l, f) ==
    /\ Fault
    /\ Arrives(l, f)
    /\ Passes(f)
    /\ \/ UNCHANGED claimed
       \/ /\ Free(KeyOf(f))
          /\ claimed' = Set(KeyOf(f))
    /\ UNCHANGED <<config, post, at, processed, runs, bare>>

Fresh(p, k) == processed[p][k] > 0

\* The local map, and the goroutine of the command.
Start(l) ==
    /\ at[l].pc = "local"
    /\ LET f == at[l].frame
           k == KeyOf(f)
       IN  IF Fresh(home[l], k)
           THEN /\ Refuse(l, f)
                /\ UNCHANGED <<processed, runs, bare, since>>
           ELSE /\ processed' = [processed EXCEPT ![home[l]][k] = Ttl + 1]
                /\ runs' = [runs EXCEPT ![f.post] = IF @ = 0 THEN 1 ELSE 2]
                /\ bare' = IF f.kind = "minimal" THEN bare \cup {f.post} ELSE bare
                /\ since' = [since EXCEPT ![k] = IF calm THEN 0 ELSE @]
                /\ shadowed' = shadowed \ {f.post}
    /\ at' = [at EXCEPT ![l] = Idle]
    /\ UNCHANGED <<config, post, read, claimed, calm>>

\* The process of these connections dies and starts again.
Crash(p) ==
    /\ Fault
    /\ at' = [l \in Listener |-> IF home[l] = p THEN Idle ELSE at[l]]
    /\ processed' = [processed EXCEPT ![p] = [k \in Key |-> 0]]
    /\ UNCHANGED <<config, post, read, claimed, runs, bare>>

\* Mutant: a key that is set without its expiry.
NoExpiry(n) == n

Less(n) == IF n = 0 THEN 0 ELSE n - 1

(* A unit of time passes.  A callback takes milliseconds and a unit is a    *)
(* second: none is under way.                                               *)
Tick ==
    /\ \A l \in Listener : at[l].pc = "idle"
    /\ post' = [m \in Post |->
                  IF post[m] = Nil THEN Nil
                  ELSE IF post[m].age = Spread THEN post[m]
                  ELSE [post[m] EXCEPT !.age = @ + 1]]
    /\ claimed' = [k \in Key |-> Less(claimed[k])]
    /\ processed' = [p \in Process |-> [k \in Key |-> Less(processed[p][k])]]
    /\ since' = [k \in Key |-> IF since[k] = Long THEN Long ELSE since[k] + 1]
    /\ UNCHANGED <<config, read, at, runs, bare, shadowed, calm>>

Next ==
    \/ \E m \in Post, by \in Author, key, alias \in Key : Write(m, by, key, alias)
    \/ \E l \in Listener :
          \/ \E f \in Frame : Drop(l, f) \/ Claim(l, f) \/ ClaimFails(l, f)
          \/ Start(l)
    \/ \E p \in Process : Crash(p)
    \/ Tick

Spec == Init /\ [][Next]_vars

-----------------------------------------------------------------------------
HasJson(m) == \E l \in Listener : [post |-> m, kind |-> "json"] \in read[l]

(* Nobody on cfg.IgnoreSenders wrote something that shares a key with m. *)
Undisturbed(m) ==
    \A o \in Post : post[o] # Nil =>
        \/ {post[o].key, post[o].alias} \cap {post[m].key, post[m].alias} = {}
        \/ post[o].by \notin Ignored

(* A message is carried out at most once, however many frames, connections *)
(* and processes brought it, and with a room filter in the name of the user *)
(* id that wrote it: the dedupe keys of main.go:339-367.  Without a room    *)
(* filter the room of the minimal frame must be the room id.                *)
HandledOnce ==
    \A m \in Post :
        /\ post[m] # Nil /\ (roomFilter \/ post[m].alias = post[m].key)
              => runs[m] <= 1
        /\ roomFilter => m \notin bare

(* A message whose JSON frame was read is carried out, unless the same      *)
(* command was carried out in the room not long ago: no filter of           *)
(* main.go:238-367 eats a command by what it did with another frame of it.  *)
NotLost ==
    calm /\ (\A l \in Listener : at[l] = Idle) =>
        \A m \in Post :
            HasJson(m) /\ Undisturbed(m) => runs[m] > 0 \/ m \in shadowed
=============================================================================
