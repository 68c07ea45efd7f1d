------------------------ MODULE MessageIntakeProofs ------------------------
(***************************************************************************)
(* That a message is carried out at most once (HandledOnce) and, when      *)
(* nothing fails, that it is carried out (NotLost), for any messages,      *)
(* keys, connections and processes.                                        *)
(*                                                                         *)
(* HandledOnce is not inductive: nothing in it keeps a second callback     *)
(* from being past the SETNX with a frame of a message that ran already.   *)
(* Claimed and Alone say that who is past it holds the key, alone, for a   *)
(* message that did not run; Spent says that the key of a message that ran *)
(* outlives the time in which its frames arrive.                           *)
(***************************************************************************)
EXTENDS MessageIntake, TLAPS

\* All frames of the message that pass the room filter have one key.
OneKey(m) == roomFilter \/ post[m].alias = post[m].key

\* The callback of l is between the SETNX and the local map.
InLocal(l) == at[l].pc = "local"

\* What is not written was not carried out.
Unwritten == \A m \in Post : post[m] = Nil => runs[m] = 0

\* Who is past the SETNX has the key, for a message that did not run.
Claimed ==
    \A l \in Listener : InLocal(l) =>
        /\ post[at[l].frame.post] # Nil
        /\ claimed[KeyOf(at[l].frame)] = Ttl
        /\ roomFilter => at[l].frame.kind = "json"
        /\ OneKey(at[l].frame.post) => runs[at[l].frame.post] = 0

\* No two callbacks are past the SETNX with one key.
Alone ==
    \A l, o \in Listener :
        InLocal(l) /\ InLocal(o) /\ l # o
            => KeyOf(at[l].frame) # KeyOf(at[o].frame)

\* The key of a message that ran lives as long as its frames arrive.
Spent ==
    \A m \in Post : post[m] # Nil /\ OneKey(m) =>
        /\ runs[m] <= 1
        /\ runs[m] = 1 /\ post[m].age < Spread
              => claimed[post[m].key] + post[m].age >= Ttl

NoneBare == roomFilter => bare = {}

IInv ==
    /\ TypeOK
    /\ Unwritten
    /\ Claimed
    /\ Alone
    /\ Spent
    /\ NoneBare

-----------------------------------------------------------------------------
\* What the type invariant says of a message, a frame and a callback.
LEMMA Types ==
    ASSUME TypeOK
    PROVE  /\ \A m \in Post : post[m] # Nil =>
                 /\ post[m] \in Written
                 /\ post[m].by \in Author
                 /\ post[m].key \in Key
                 /\ post[m].alias \in Key
                 /\ post[m].age \in 0..Spread
           /\ \A f \in Frame : /\ f.post \in Post
                               /\ f.kind \in Kind
                               /\ post[f.post] # Nil => KeyOf(f) \in Key
           /\ \A l \in Listener : InLocal(l) => at[l].frame \in Frame
           /\ \A m \in Post : runs[m] \in 0..2
<1>1. \A m \in Post : post[m] # Nil => post[m] \in Written
  BY DEF TypeOK
<1>2. \A w \in Written : /\ w.by \in Author
                        /\ w.key \in Key
                        /\ w.alias \in Key
                        /\ w.age \in 0..Spread
  BY DEF Written
<1>3. \A f \in Frame : f.post \in Post /\ f.kind \in Kind
  BY DEF Frame
<1>4. \A l \in Listener : InLocal(l) => at[l].frame \in Frame
  BY DEF TypeOK, Place, InLocal
<1>5. \A m \in Post : runs[m] \in 0..2
  BY DEF TypeOK
<1>6. QED
  BY <1>1, <1>2, <1>3, <1>4, <1>5 DEF KeyOf

LEMMA InitInv == Init => IInv
<1> SUFFICES ASSUME Init PROVE IInv
  OBVIOUS
<1> USE WindowAssumption DEF Init
<1>1. TypeOK
  BY DEF TypeOK, Place, Idle, Long
<1>2. \A l \in Listener : ~InLocal(l)
  BY DEF InLocal, Idle
<1>3. Unwritten /\ Spent /\ NoneBare
  BY DEF Unwritten, Spent, NoneBare
<1>4. QED
  BY <1>1, <1>2, <1>3 DEF IInv, Claimed, Alone

LEMMA WriteInv ==
    ASSUME IInv, NEW m \in Post, NEW by \in Author, NEW key \in Key,
           NEW alias \in Key, Write(m, by, key, alias)
    PROVE  IInv'
<1> DEFINE w == [by |-> by, key |-> key, alias |-> alias, age |-> 0]
<1> USE WindowAssumption, NilPostAssumption
<1>1. post' = [post EXCEPT ![m] = w] /\ w \in Written /\ w # Nil
  BY DEF Write, Written
<1>2. /\ UNCHANGED <<roomFilter, home, read, at, claimed, processed>>
      /\ UNCHANGED <<runs, bare, since, shadowed, calm>>
      /\ post[m] = Nil
  BY DEF Write, config, watch
<1>3. TypeOK'
  BY <1>1, <1>2 DEF IInv, TypeOK
<1>4. \A o \in Post \ {m} : post'[o] = post[o]
  BY <1>1 DEF IInv, TypeOK
<1>5. post'[m] = w /\ runs[m] = 0
  BY <1>1, <1>2 DEF IInv, TypeOK, Unwritten
<1>6. \A l \in Listener : InLocal(l) =>
          /\ at[l].frame.post \in Post \ {m}
          /\ KeyOf(at[l].frame)' = KeyOf(at[l].frame)
          /\ OneKey(at[l].frame.post)' = OneKey(at[l].frame.post)
  <2> SUFFICES ASSUME NEW l \in Listener, InLocal(l)
               PROVE  /\ at[l].frame.post \in Post \ {m}
                      /\ KeyOf(at[l].frame)' = KeyOf(at[l].frame)
                      /\ OneKey(at[l].frame.post)' = OneKey(at[l].frame.post)
    OBVIOUS
  <2>1. at[l].frame.post \in Post \ {m}
    BY <1>2, Types DEF IInv, Claimed
  <2>2. QED
    BY <2>1, <1>2, <1>4 DEF KeyOf, OneKey
<1>7. Unwritten'
  BY <1>1, <1>2, <1>4, <1>5 DEF IInv, Unwritten
<1>8. Claimed'
  BY <1>2, <1>4, <1>6 DEF IInv, Claimed, InLocal
<1>9. Alone'
  BY <1>2, <1>6 DEF IInv, Alone, InLocal
<1>10. Spent'
  BY <1>2, <1>4, <1>5 DEF IInv, Spent, OneKey
<1>11. NoneBare'
  BY <1>2 DEF IInv, NoneBare
<1>12. QED
  BY <1>3, <1>7, <1>8, <1>9, <1>10, <1>11 DEF IInv

LEMMA DropInv ==
    ASSUME IInv, NEW l \in Listener, NEW f \in Frame, Drop(l, f)
    PROVE  IInv'
<1>1. /\ UNCHANGED <<roomFilter, home, post, at, claimed, processed>>
      /\ UNCHANGED <<runs, bare, since, shadowed, calm>>
      /\ read' = [read EXCEPT ![l] = @ \cup {f}]
  BY DEF Drop, Arrives, config, watch
<1>2. TypeOK'
  <2>1. read' \in [Listener -> SUBSET Frame]
    BY <1>1 DEF IInv, TypeOK
  <2>2. QED
    BY <1>1, <2>1 DEF IInv, TypeOK
<1>3. (Unwritten /\ Claimed /\ Alone /\ Spent /\ NoneBare)'
  BY <1>1 DEF IInv, Unwritten, Claimed, Alone, Spent, NoneBare, InLocal,
              KeyOf, OneKey
<1>4. QED
  BY <1>2, <1>3 DEF IInv

\* A frame that arrives at a free key is that of a message that did not run.
LEMMA FreeMeansNew ==
    ASSUME IInv, NEW l \in Listener, NEW f \in Frame,
           Arrives(l, f), Passes(f), Free(KeyOf(f)), OneKey(f.post)
    PROVE  runs[f.post] = 0
<1>1. /\ f.post \in Post
      /\ post[f.post] # Nil
      /\ post[f.post].age < Spread
      /\ post[f.post].age \in 0..Spread
      /\ runs[f.post] \in 0..2
  BY Types DEF IInv, Arrives
<1>2. KeyOf(f) = post[f.post].key
  BY <1>1, Types DEF IInv, KeyOf, OneKey, Passes, Filtered, Kind
<1>3. claimed[post[f.post].key] = 0
  BY <1>2 DEF Free
<1>4. /\ runs[f.post] <= 1
      /\ runs[f.post] = 1 => 0 + post[f.post].age >= Ttl
  BY <1>1, <1>3 DEF IInv, Spent
<1>5. QED
  BY <1>1, <1>4, WindowAssumption

LEMMA ClaimInv ==
    ASSUME IInv, NEW l \in Listener, NEW f \in Frame, Claim(l, f)
    PROVE  IInv'
<1> DEFINE k == KeyOf(f)
<1>1. /\ UNCHANGED <<roomFilter, home, post, processed, runs, bare, since, calm>>
      /\ read' = [read EXCEPT ![l] = @ \cup {f}]
      /\ Arrives(l, f)
      /\ Passes(f)
      /\ f.post \in Post
      /\ post[f.post] # Nil
  BY Types DEF IInv, Claim, Arrives, config
<1>2. k \in Key
  BY <1>1, Types DEF IInv
<1>3. Ttl \in 0..Ttl
  BY WindowAssumption
<1>4. read' \in [Listener -> SUBSET Frame]
  BY <1>1 DEF IInv, TypeOK
<1>5. (Unwritten /\ NoneBare)'
  BY <1>1 DEF IInv, Unwritten, NoneBare
<1>6. CASE Free(k)
  <2> DEFINE spot == [pc |-> "local", frame |-> f]
  <2>1. /\ claimed' = [claimed EXCEPT ![k] = Ttl]
        /\ at' = [at EXCEPT ![l] = spot]
        /\ shadowed' = shadowed
    BY <1>6 DEF Claim, Set
  <2>2. TypeOK'
    <3>1. spot \in Place
      BY DEF Place
    <3>2. at' \in [Listener -> Place]
      BY <2>1, <3>1 DEF IInv, TypeOK
    <3>3. claimed' \in [Key -> 0..Ttl]
      BY <2>1, <1>3 DEF IInv, TypeOK
    <3>4. QED
      BY <3>2, <3>3, <1>1, <1>4, <2>1 DEF IInv, TypeOK
  <2>3. at'[l] = spot /\ (\A o \in Listener \ {l} : at'[o] = at[o])
    BY <2>1 DEF IInv, TypeOK
  <2>4. /\ claimed'[k] = Ttl
        /\ \A j \in Key \ {k} : claimed'[j] = claimed[j]
    BY <2>1, <1>2 DEF IInv, TypeOK
  <2>5. /\ \A g : KeyOf(g)' = KeyOf(g)
        /\ \A m : OneKey(m)' = OneKey(m)
    BY <1>1 DEF KeyOf, OneKey
  <2>6. \A o \in Listener : InLocal(o) =>
            KeyOf(at[o].frame) \in Key \ {k}
    <3> SUFFICES ASSUME NEW o \in Listener, InLocal(o)
                 PROVE  KeyOf(at[o].frame) \in Key \ {k}
      OBVIOUS
    <3>1. KeyOf(at[o].frame) \in Key
      BY Types DEF IInv, Claimed
    <3>2. claimed[KeyOf(at[o].frame)] = Ttl
      BY DEF IInv, Claimed
    <3>3. claimed[k] = 0
      BY <1>6 DEF Free
    <3>4. QED
      BY <3>1, <3>2, <3>3, WindowAssumption
  <2>7. Claimed'
    <3> SUFFICES ASSUME NEW o \in Listener, InLocal(o)'
                 PROVE  (/\ post[at[o].frame.post] # Nil
                         /\ claimed[KeyOf(at[o].frame)] = Ttl
                         /\ roomFilter => at[o].frame.kind = "json"
                         /\ OneKey(at[o].frame.post)
                               => runs[at[o].frame.post] = 0)'
      BY DEF Claimed
    <3>1. CASE o = l
      <4>1. at'[o].frame = f
        BY <3>1, <2>3
      <4>2. roomFilter => f.kind = "json"
        BY <1>1, Types DEF IInv, Passes, Filtered, Kind
      <4>3. OneKey(f.post) => runs[f.post] = 0
        BY <1>1, <1>6, FreeMeansNew
      <4>4. QED
        BY <4>1, <4>2, <4>3, <1>1, <2>4, <2>5
    <3>2. CASE o # l
      <4>1. at'[o] = at[o] /\ InLocal(o)
        BY <3>2, <2>3 DEF InLocal
      <4>2. claimed'[KeyOf(at[o].frame)] = claimed[KeyOf(at[o].frame)]
        BY <4>1, <2>4, <2>6
      <4>3. QED
        BY <4>1, <4>2, <1>1, <2>5 DEF IInv, Claimed
    <3>3. QED
      BY <3>1, <3>2
  <2>8. Alone'
    <3>1. ASSUME NEW o \in Listener, InLocal(o)', o # l
          PROVE  InLocal(o) /\ KeyOf(at'[o].frame) # k
      BY <3>1, <2>3, <2>6 DEF InLocal
    <3>2. KeyOf(at'[l].frame) = k
      BY <2>3
    <3>3. ASSUME NEW o \in Listener, NEW p \in Listener,
                 InLocal(o)', InLocal(p)', o # p
          PROVE  KeyOf(at'[o].frame) # KeyOf(at'[p].frame)
      <4>1. CASE o = l
        BY <4>1, <3>1, <3>2, <3>3
      <4>2. CASE p = l
        BY <4>2, <3>1, <3>2, <3>3
      <4>3. CASE o # l /\ p # l
        <5>1. at'[o] = at[o] /\ at'[p] = at[p] /\ InLocal(o) /\ InLocal(p)
          BY <4>3, <3>1, <3>3, <2>3
        <5>2. QED
          BY <5>1, <3>3 DEF IInv, Alone
      <4>4. QED
        BY <4>1, <4>2, <4>3
    <3>4. QED
      BY <3>3, <2>5 DEF Alone
  <2>9. Spent'
    <3> SUFFICES ASSUME NEW m \in Post, post[m] # Nil, OneKey(m)
                 PROVE  /\ runs[m] <= 1
                        /\ runs[m] = 1 /\ post[m].age < Spread
                             => claimed'[post[m].key] + post[m].age >= Ttl
      BY <1>1, <2>5 DEF Spent
    <3>1. /\ runs[m] <= 1
          /\ runs[m] = 1 /\ post[m].age < Spread
               => claimed[post[m].key] + post[m].age >= Ttl
      BY DEF IInv, Spent
    <3>2. post[m].age \in 0..Spread /\ post[m].key \in Key
      BY Types DEF IInv
    <3>3. CASE post[m].key = k
      BY <3>1, <3>2, <3>3, <2>4, WindowAssumption
    <3>4. CASE post[m].key # k
      BY <3>1, <3>2, <3>4, <2>4
    <3>5. QED
      BY <3>3, <3>4
  <2>10. QED
    BY <1>5, <2>2, <2>7, <2>8, <2>9 DEF IInv
<1>7. CASE ~Free(k)
  <2>1. UNCHANGED <<claimed, at>> /\ shadowed' \in SUBSET Post
    BY <1>1, <1>7 DEF Claim, Refuse, IInv, TypeOK
  <2>2. TypeOK'
    BY <1>1, <1>4, <2>1 DEF IInv, TypeOK
  <2>3. (Claimed /\ Alone /\ Spent)'
    BY <1>1, <2>1 DEF IInv, Claimed, Alone, Spent, InLocal, KeyOf, OneKey
  <2>4. QED
    BY <1>5, <2>2, <2>3 DEF IInv
<1>8. QED
  BY <1>6, <1>7

\* What is observed no longer.
LEMMA FaultTypes ==
    ASSUME Fault
    PROVE  calm' \in BOOLEAN /\ since' \in [Key -> 0..Long] /\ shadowed' \in SUBSET Post
<1>1. Long \in 0..Long
  BY WindowAssumption DEF Long
<1>2. QED
  BY <1>1 DEF Fault

LEMMA ClaimFailsInv ==
    ASSUME IInv, NEW l \in Listener, NEW f \in Frame, ClaimFails(l, f)
    PROVE  IInv'
<1> DEFINE k == KeyOf(f)
<1>1. /\ UNCHANGED <<roomFilter, home, post, at, processed>>
      /\ UNCHANGED <<runs, bare>>
      /\ calm' \in BOOLEAN /\ since' \in [Key -> 0..Long] /\ shadowed' \in SUBSET Post
      /\ read' = [read EXCEPT ![l] = @ \cup {f}]
      /\ \/ claimed' = claimed
         \/ claimed[k] = 0 /\ claimed' = [claimed EXCEPT ![k] = Ttl]
  <2>1. calm' \in BOOLEAN /\ since' \in [Key -> 0..Long] /\ shadowed' \in SUBSET Post
    BY FaultTypes DEF ClaimFails
  <2>2. QED
    BY <2>1 DEF ClaimFails, Arrives, config, Free, Set
<1>2. \A j \in Key : /\ claimed'[j] \in 0..Ttl
                     /\ claimed'[j] >= claimed[j]
  BY <1>1, WindowAssumption DEF IInv, TypeOK
<1>3. TypeOK'
  <2>1. read' \in [Listener -> SUBSET Frame]
    BY <1>1 DEF IInv, TypeOK
  <2>2. claimed' \in [Key -> 0..Ttl]
    BY <1>1, WindowAssumption DEF IInv, TypeOK
  <2>3. QED
    BY <1>1, <2>1, <2>2 DEF IInv, TypeOK
<1>4. (Unwritten /\ NoneBare /\ Alone)'
  BY <1>1 DEF IInv, Unwritten, NoneBare, Alone, InLocal, KeyOf
<1>5. Claimed'
  <2>1. \A o \in Listener : InLocal(o) =>
          /\ KeyOf(at[o].frame) \in Key
          /\ claimed'[KeyOf(at[o].frame)] = Ttl
    <3> SUFFICES ASSUME NEW o \in Listener, InLocal(o)
                 PROVE  /\ KeyOf(at[o].frame) \in Key
                        /\ claimed'[KeyOf(at[o].frame)] = Ttl
      OBVIOUS
    <3>1. /\ KeyOf(at[o].frame) \in Key
          /\ claimed[KeyOf(at[o].frame)] = Ttl
      BY Types DEF IInv, Claimed
    <3>2. QED
      BY <3>1, <1>2, WindowAssumption
  <2>2. QED
    BY <1>1, <2>1 DEF IInv, Claimed, InLocal, KeyOf, OneKey
<1>6. Spent'
  <2> SUFFICES ASSUME NEW m \in Post, post[m] # Nil, OneKey(m)
               PROVE  /\ runs[m] <= 1
                      /\ runs[m] = 1 /\ post[m].age < Spread
                           => claimed'[post[m].key] + post[m].age >= Ttl
    BY <1>1 DEF Spent, OneKey
  <2>1. /\ runs[m] <= 1
        /\ runs[m] = 1 /\ post[m].age < Spread
             => claimed[post[m].key] + post[m].age >= Ttl
    BY DEF IInv, Spent
  <2>2. /\ post[m].age \in 0..Spread
        /\ post[m].key \in Key
        /\ claimed[post[m].key] \in 0..Ttl
    BY Types DEF IInv, TypeOK
  <2>3. QED
    BY <2>1, <2>2, <1>2, WindowAssumption
<1>7. QED
  BY <1>3, <1>4, <1>5, <1>6 DEF IInv

LEMMA StartInv ==
    ASSUME IInv, NEW l \in Listener, Start(l)
    PROVE  IInv'
<1> DEFINE f == at[l].frame
<1> DEFINE k == KeyOf(f)
<1>1. /\ UNCHANGED <<roomFilter, home, post, read, claimed, calm>>
      /\ at' = [at EXCEPT ![l] = Idle]
      /\ InLocal(l)
  BY DEF Start, config, InLocal
<1>2. /\ f \in Frame
      /\ f.post \in Post
      /\ post[f.post] # Nil
      /\ k \in Key
      /\ claimed[k] = Ttl
      /\ roomFilter => f.kind = "json"
      /\ OneKey(f.post) => runs[f.post] = 0
  BY <1>1, Types DEF IInv, Claimed
<1>3. /\ ~InLocal(l)'
      /\ \A o \in Listener \ {l} : at'[o] = at[o]
  BY <1>1 DEF IInv, TypeOK, InLocal, Idle
<1>4. /\ \A g : KeyOf(g)' = KeyOf(g)
      /\ \A m : OneKey(m)' = OneKey(m)
  BY <1>1 DEF KeyOf, OneKey
<1>5. Alone'
  BY <1>3, <1>4 DEF IInv, Alone, InLocal
<1>6. at' \in [Listener -> Place]
  BY <1>1 DEF IInv, TypeOK, Place, Idle
<1>7. CASE Fresh(home[l], k)
  <2>1. UNCHANGED <<processed, runs, bare, since>> /\ shadowed' \in SUBSET Post
    BY <1>2, <1>7 DEF Start, Refuse, IInv, TypeOK
  <2>2. TypeOK'
    BY <1>1, <1>6, <2>1 DEF IInv, TypeOK
  <2>3. Claimed'
    BY <1>1, <1>3, <1>4, <2>1 DEF IInv, Claimed, InLocal
  <2>4. (Unwritten /\ Spent /\ NoneBare)'
    BY <1>1, <2>1 DEF IInv, Unwritten, Spent, NoneBare, OneKey
  <2>5. QED
    BY <1>5, <2>2, <2>3, <2>4 DEF IInv
<1>8. CASE ~Fresh(home[l], k)
  <2>1. /\ processed' = [processed EXCEPT ![home[l]][k] = Ttl + 1]
        /\ runs' = [runs EXCEPT ![f.post] = IF @ = 0 THEN 1 ELSE 2]
        /\ bare' = IF f.kind = "minimal" THEN bare \cup {f.post} ELSE bare
        /\ since' = [since EXCEPT ![k] = IF calm THEN 0 ELSE @]
        /\ shadowed' = shadowed \ {f.post}
    BY <1>8 DEF Start
  <2>2. TypeOK'
    <3>1. processed' \in [Process -> [Key -> 0..(Ttl + 1)]]
      BY <1>1, <1>2, <2>1, WindowAssumption DEF IInv, TypeOK
    <3>2. runs' \in [Post -> 0..2]
      BY <1>2, <2>1 DEF IInv, TypeOK
    <3>3. bare' \in SUBSET Post /\ shadowed' \in SUBSET Post
      BY <1>2, <2>1 DEF IInv, TypeOK
    <3>4. since' \in [Key -> 0..Long]
      BY <1>2, <2>1, WindowAssumption DEF IInv, TypeOK, Long
    <3>5. QED
      BY <3>1, <3>2, <3>3, <3>4, <1>1, <1>6 DEF IInv, TypeOK
  <2>3. /\ \A m \in Post \ {f.post} : runs'[m] = runs[m]
        /\ OneKey(f.post) => runs'[f.post] = 1
    BY <1>2, <2>1 DEF IInv, TypeOK
  <2>4. Unwritten'
    BY <1>1, <1>2, <2>3 DEF IInv, Unwritten
  <2>5. ASSUME NEW o \in Listener, InLocal(o)'
        PROVE  /\ InLocal(o)
               /\ at'[o] = at[o]
               /\ OneKey(at[o].frame.post) => at[o].frame.post # f.post
    <3>1. o # l /\ at'[o] = at[o] /\ InLocal(o)
      BY <2>5, <1>3 DEF InLocal
    <3>2. KeyOf(at[o].frame) # k
      BY <3>1, <1>1 DEF IInv, Alone
    <3>3. roomFilter => at[o].frame.kind = "json"
      BY <3>1 DEF IInv, Claimed
    <3>4. QED
      BY <3>1, <3>2, <3>3, <1>2 DEF KeyOf, OneKey
  <2>6. Claimed'
    <3> SUFFICES ASSUME NEW o \in Listener, InLocal(o)'
                 PROVE  (/\ post[at[o].frame.post] # Nil
                         /\ claimed[KeyOf(at[o].frame)] = Ttl
                         /\ roomFilter => at[o].frame.kind = "json"
                         /\ OneKey(at[o].frame.post)
                               => runs[at[o].frame.post] = 0)'
      BY DEF Claimed
    <3>1. /\ post[at[o].frame.post] # Nil
          /\ claimed[KeyOf(at[o].frame)] = Ttl
          /\ roomFilter => at[o].frame.kind = "json"
          /\ OneKey(at[o].frame.post) => runs[at[o].frame.post] = 0
          /\ at[o].frame.post \in Post
      BY <2>5, Types DEF IInv, Claimed
    <3>2. OneKey(at[o].frame.post)
            => runs'[at[o].frame.post] = runs[at[o].frame.post]
      BY <3>1, <2>3, <2>5
    <3>3. QED
      BY <3>1, <3>2, <2>5, <1>1, <1>4
  <2>7. Spent'
    <3> SUFFICES ASSUME NEW m \in Post, post[m] # Nil, OneKey(m)
                 PROVE  /\ runs'[m] <= 1
                        /\ runs'[m] = 1 /\ post[m].age < Spread
                             => claimed[post[m].key] + post[m].age >= Ttl
      BY <1>1, <1>4 DEF Spent
    <3>1. CASE m = f.post
      <4>1. k = post[m].key
        BY <3>1, <1>2 DEF KeyOf, OneKey
      <4>2. post[m].age \in 0..Spread
        BY Types DEF IInv
      <4>3. QED
        BY <4>1, <4>2, <3>1, <1>2, <2>3, WindowAssumption
    <3>2. CASE m # f.post
      BY <3>2, <2>3 DEF IInv, Spent
    <3>3. QED
      BY <3>1, <3>2
  <2>8. NoneBare'
    BY <1>1, <1>2, <2>1 DEF IInv, NoneBare
  <2>9. QED
    BY <1>5, <2>2, <2>4, <2>6, <2>7, <2>8 DEF IInv
<1>9. QED
  BY <1>7, <1>8

LEMMA CrashInv ==
    ASSUME IInv, NEW p \in Process, Crash(p)
    PROVE  IInv'
<1>1. /\ UNCHANGED <<roomFilter, home, post, read, claimed>>
      /\ UNCHANGED <<runs, bare>>
      /\ calm' \in BOOLEAN /\ since' \in [Key -> 0..Long] /\ shadowed' \in SUBSET Post
      /\ at' = [l \in Listener |-> IF home[l] = p THEN Idle ELSE at[l]]
      /\ processed' = [processed EXCEPT ![p] = [k \in Key |-> 0]]
  <2>1. calm' \in BOOLEAN /\ since' \in [Key -> 0..Long] /\ shadowed' \in SUBSET Post
    BY FaultTypes DEF Crash
  <2>2. QED
    BY <2>1 DEF Crash, config
<1>2. \A l \in Listener : InLocal(l)' => InLocal(l) /\ at'[l] = at[l]
  BY <1>1 DEF InLocal, Idle
<1>3. TypeOK'
  <2>1. at' \in [Listener -> Place]
    BY <1>1 DEF IInv, TypeOK, Place, Idle
  <2>2. processed' \in [Process -> [Key -> 0..(Ttl + 1)]]
    BY <1>1, WindowAssumption DEF IInv, TypeOK
  <2>3. QED
    BY <1>1, <2>1, <2>2 DEF IInv, TypeOK
<1>4. Claimed'
  BY <1>1, <1>2 DEF IInv, Claimed, KeyOf, OneKey
<1>5. Alone'
  BY <1>1, <1>2 DEF IInv, Alone, KeyOf
<1>6. (Unwritten /\ Spent /\ NoneBare)'
  BY <1>1 DEF IInv, Unwritten, Spent, NoneBare, OneKey
<1>7. QED
  BY <1>3, <1>4, <1>5, <1>6 DEF IInv

LEMMA TickInv ==
    ASSUME IInv, Tick
    PROVE  IInv'
<1> USE WindowAssumption
<1>1. /\ UNCHANGED <<roomFilter, home, read, at, runs, bare, shadowed, calm>>
      /\ \A l \in Listener : ~InLocal(l)
      /\ claimed' = [k \in Key |-> Less(claimed[k])]
      /\ processed' = [p \in Process |-> [k \in Key |-> Less(processed[p][k])]]
      /\ since' = [k \in Key |-> IF since[k] = Long THEN Long ELSE since[k] + 1]
  BY DEF Tick, config, InLocal
<1>2. ASSUME NEW m \in Post
      PROVE  /\ post[m] = Nil => post'[m] = Nil
             /\ post[m] # Nil =>
                   /\ post'[m] \in Written
                   /\ post'[m].key = post[m].key
                   /\ post'[m].alias = post[m].alias
                   /\ post'[m].age = IF post[m].age = Spread THEN Spread
                                     ELSE post[m].age + 1
  <2>1. post'[m] = IF post[m] = Nil THEN Nil
                   ELSE IF post[m].age = Spread THEN post[m]
                   ELSE [post[m] EXCEPT !.age = @ + 1]
    BY DEF Tick
  <2>2. CASE post[m] = Nil
    BY <2>1, <2>2
  <2>3. CASE post[m] # Nil
    <3>1. post[m] \in Written /\ post[m].age \in 0..Spread
      BY <2>3, Types DEF IInv
    <3>2. post[m].age # Spread => post[m].age + 1 \in 0..Spread
      BY <3>1
    <3>3. QED
      BY <2>1, <2>3, <3>1, <3>2 DEF Written
  <2>4. QED
    BY <2>2, <2>3
<1>3. \A m \in Post : post'[m] # Nil <=> post[m] # Nil
  BY <1>2, NilPostAssumption
<1>4. TypeOK'
  <2>1. post' \in [Post -> Written \cup {Nil}]
    <3>1. post' = [m \in Post |-> post'[m]]
      BY DEF Tick
    <3>2. \A m \in Post : post'[m] \in Written \cup {Nil}
      BY <1>2
    <3>3. QED
      BY <3>1, <3>2
  <2>2. claimed' \in [Key -> 0..Ttl]
    <3>1. \A k \in Key : claimed[k] \in 0..Ttl
      BY DEF IInv, TypeOK
    <3>2. \A n \in 0..Ttl : Less(n) \in 0..Ttl
      BY DEF Less
    <3>3. \A k \in Key : Less(claimed[k]) \in 0..Ttl
      BY <3>1, <3>2
    <3>4. QED
      BY <1>1, <3>3
  <2>3. processed' \in [Process -> [Key -> 0..(Ttl + 1)]]
    <3>1. \A p \in Process, k \in Key : processed[p][k] \in 0..(Ttl + 1)
      BY DEF IInv, TypeOK
    <3>2. \A n \in 0..(Ttl + 1) : Less(n) \in 0..(Ttl + 1)
      BY DEF Less
    <3>3. \A p \in Process, k \in Key : Less(processed[p][k]) \in 0..(Ttl + 1)
      BY <3>1, <3>2
    <3>4. QED
      BY <1>1, <3>3
  <2>4. since' \in [Key -> 0..Long]
    <3>1. Long \in Nat
      BY DEF Long
    <3>2. \A k \in Key : since[k] \in 0..Long
      BY DEF IInv, TypeOK
    <3>3. \A k \in Key :
            (IF since[k] = Long THEN Long ELSE since[k] + 1) \in 0..Long
      BY <3>1, <3>2
    <3>4. QED
      BY <1>1, <3>3
  <2>5. QED
    BY <1>1, <2>1, <2>2, <2>3, <2>4 DEF IInv, TypeOK
<1>5. (Claimed /\ Alone)'
  BY <1>1 DEF Claimed, Alone, InLocal
<1>6. Unwritten'
  BY <1>1, <1>3 DEF IInv, Unwritten
<1>7. Spent'
  <2> SUFFICES ASSUME NEW m \in Post, post[m] # Nil, OneKey(m)
               PROVE  /\ runs[m] <= 1
                      /\ runs[m] = 1 /\ post'[m].age < Spread
                           => claimed'[post'[m].key] + post'[m].age >= Ttl
    BY <1>1, <1>2, <1>3 DEF Spent, OneKey
  <2>1. /\ runs[m] <= 1
        /\ runs[m] = 1 /\ post[m].age < Spread
             => claimed[post[m].key] + post[m].age >= Ttl
    BY DEF IInv, Spent
  <2>2. /\ post[m].age \in 0..Spread
        /\ post[m].key \in Key
        /\ claimed[post[m].key] \in 0..Ttl
    BY Types DEF IInv, TypeOK
  <2>3. /\ post'[m].key = post[m].key
        /\ post'[m].age = IF post[m].age = Spread THEN Spread ELSE post[m].age + 1
    BY <1>2
  <2>4. claimed'[post[m].key] = IF claimed[post[m].key] = 0 THEN 0
                                ELSE claimed[post[m].key] - 1
    BY <1>1, <2>2 DEF Less
  <2>5. QED
    BY <2>1, <2>2, <2>3, <2>4
<1>8. NoneBare'
  BY <1>1 DEF IInv, NoneBare
<1>9. QED
  BY <1>4, <1>5, <1>6, <1>7, <1>8 DEF IInv

\* IInv holds in every state, for any messages, keys and processes
\* (main.go 238-391).
THEOREM IntakeInvariance == Spec => []IInv
<1>1. Init => IInv
  BY InitInv
<1>2. IInv /\ [Next]_vars => IInv'
  <2> SUFFICES ASSUME IInv, [Next]_vars PROVE IInv'
    OBVIOUS
  <2>1. ASSUME NEW m \in Post, NEW by \in Author, NEW key \in Key,
               NEW alias \in Key, Write(m, by, key, alias)
        PROVE  IInv'
    BY <2>1, WriteInv
  <2>2. ASSUME NEW l \in Listener, NEW f \in Frame, Drop(l, f)
        PROVE  IInv'
    BY <2>2, DropInv
  <2>3. ASSUME NEW l \in Listener, NEW f \in Frame, Claim(l, f)
        PROVE  IInv'
    BY <2>3, ClaimInv
  <2>4. ASSUME NEW l \in Listener, NEW f \in Frame, ClaimFails(l, f)
        PROVE  IInv'
    BY <2>4, ClaimFailsInv
  <2>5. ASSUME NEW l \in Listener, Start(l)
        PROVE  IInv'
    BY <2>5, StartInv
  <2>6. ASSUME NEW p \in Process, Crash(p)
        PROVE  IInv'
    BY <2>6, CrashInv
  <2>7. CASE Tick
    BY <2>7, TickInv
  <2>8. CASE UNCHANGED vars
    BY <2>8 DEF vars, config, watch, IInv, TypeOK, Unwritten, Claimed, Alone,
                Spent, NoneBare, InLocal, KeyOf, OneKey
  <2>9. QED
    BY <2>1, <2>2, <2>3, <2>4, <2>5, <2>6, <2>7, <2>8 DEF Next
<1>3. QED
  BY <1>1, <1>2, PTL DEF Spec

\* Every variable stays within its type, whatever fails.
THEOREM IntakeTypeCorrect == Spec => []TypeOK
<1>1. IInv => TypeOK
  BY DEF IInv
<1>2. QED
  BY <1>1, IntakeInvariance, PTL

\* A message is carried out at most once, by however many processes and
\* connections its frames came in, with a failing SETNX or a crash in between
\* (main.go 339-391).
THEOREM CarriedOutOnce == Spec => []HandledOnce
<1>1. IInv => HandledOnce
  BY DEF IInv, Spent, NoneBare, OneKey, HandledOnce
<1>2. QED
  BY <1>1, IntakeInvariance, PTL

-----------------------------------------------------------------------------
(* Why no command is lost: what refuses a frame has a reason that is still  *)
(* told by since or by a callback that is under way.                        *)

\* Frames are those of messages that were written.
Real == \A l \in Listener : \A f \in read[l] : post[f.post] # Nil

\* A callback past the SETNX is to carry out a command with key k.
Underway(k) == \E l \in Listener : InLocal(l) /\ KeyOf(at[l].frame) = k

\* Without a fault a key in Redis or in a local map is left by a command that
\* was started lately, or that is about to be started.
Reasons ==
    calm => \A k \in Key :
        /\ claimed[k] > 0 => Underway(k) \/ since[k] + claimed[k] <= Long
        /\ \A p \in Process : processed[p][k] > 0 => since[k] + processed[p][k] <= Ttl + 1

\* Without a fault the JSON frame of a message led somewhere.
Answered ==
    calm => \A m \in Post : HasJson(m) /\ Undisturbed(m) =>
        \/ runs[m] > 0
        \/ m \in shadowed
        \/ \E l \in Listener : InLocal(l) /\ at[l].frame.post = m

Told == Real /\ Reasons /\ Answered

LEMMA ToldInit == Init => Told
<1> SUFFICES ASSUME Init PROVE Told
  OBVIOUS
<1>1. Real
  BY DEF Init, Real
<1>2. Reasons
  BY DEF Init, Reasons
<1>3. Answered
  BY DEF Init, Answered, HasJson
<1>4. QED
  BY <1>1, <1>2, <1>3 DEF Told

\* A message written now has no frames yet, and can only disturb.
LEMMA ToldWrite ==
    ASSUME IInv, Told, NEW m \in Post, NEW by \in Author, NEW key \in Key,
           NEW alias \in Key, Write(m, by, key, alias)
    PROVE  Told'
<1> DEFINE w == [by |-> by, key |-> key, alias |-> alias, age |-> 0]
<1>1. /\ post' = [post EXCEPT ![m] = w] /\ post[m] = Nil /\ w # Nil
      /\ UNCHANGED <<read, at, claimed, processed, runs, since, shadowed, calm>>
  <2>1. w \in Written
    BY WindowAssumption DEF Written
  <2>2. QED
    BY <2>1, NilPostAssumption DEF Write, watch
<1>2. \A o \in Post : post[o] # Nil => post'[o] = post[o] /\ o # m
  BY <1>1 DEF IInv, TypeOK
<1>3. \A l \in Listener, f \in Frame : f \in read[l] => post'[f.post] = post[f.post]
  BY <1>2, Types DEF IInv, Told, Real
<1>4. Real'
  BY <1>1, <1>3 DEF IInv, TypeOK, Told, Real
<1>5. \A l \in Listener : InLocal(l) => KeyOf(at[l].frame)' = KeyOf(at[l].frame)
  BY <1>1, <1>2, Types DEF IInv, Claimed, KeyOf
<1>6. Reasons'
  BY <1>1, <1>5 DEF Told, Reasons, Underway, InLocal
<1>7. Answered'
  <2> SUFFICES ASSUME calm, NEW o \in Post, HasJson(o)', Undisturbed(o)'
               PROVE  runs[o] > 0 \/ o \in shadowed
                      \/ \E l \in Listener : InLocal(l) /\ at[l].frame.post = o
    BY <1>1 DEF Answered, InLocal
  <2>1. HasJson(o) /\ post[o] # Nil
    BY <1>1 DEF HasJson, Told, Real
  <2>2. Undisturbed(o)
    BY <1>2, <2>1 DEF Undisturbed
  <2>3. QED
    BY <2>1, <2>2 DEF Told, Answered
<1>8. QED
  BY <1>4, <1>6, <1>7 DEF Told

\* Frames that arrive are of written messages.
LEMMA RealArrives ==
    ASSUME Told, NEW l \in Listener, NEW f \in Frame, Arrives(l, f), TypeOK, post' = post
    PROVE  Real'
  BY DEF Told, Real, Arrives, TypeOK

\* Nothing drops the JSON frame of a message nobody disturbs.
LEMMA NotDropped ==
    ASSUME IInv, Told, NEW l \in Listener, NEW f \in Frame, Drop(l, f),
           f.kind = "json"
    PROVE  ~Undisturbed(f.post)
<1> SUFFICES ASSUME Undisturbed(f.post) PROVE FALSE
  OBVIOUS
<1>1. f.post \in Post /\ post[f.post] # Nil /\ KeyOf(f) = post[f.post].key
  BY Types DEF IInv, Drop, Arrives, KeyOf
<1>2. post[f.post].by \notin Ignored
  BY <1>1 DEF Undisturbed
<1>3. CachedNames(home[l], f) \cap Ignored # {}
  BY <1>2 DEF Drop, MayIgnore, Filtered
<1>4. PICK m \in Post :
        /\ post[m].by \in Ignored /\ post[m].alias = KeyOf(f)
        /\ \E o \in Listener : [post |-> m, kind |-> "minimal"] \in read[o]
  BY <1>3 DEF CachedNames
<1>5. post[m] # Nil
  BY <1>4 DEF Told, Real
<1>6. QED
  BY <1>1, <1>4, <1>5 DEF Undisturbed

LEMMA ToldDrop ==
    ASSUME IInv, Told, NEW l \in Listener, NEW f \in Frame, Drop(l, f)
    PROVE  Told'
<1>1. /\ read' = [read EXCEPT ![l] = @ \cup {f}] /\ Arrives(l, f)
      /\ UNCHANGED <<post, at, claimed, processed, runs, since, shadowed, calm>>
  BY DEF Drop, Arrives, watch
<1>2. Real'
  BY <1>1, RealArrives DEF IInv
<1>3. Reasons'
  BY <1>1 DEF Told, Reasons, Underway, InLocal, KeyOf
<1>4. Answered'
  <2> SUFFICES ASSUME calm, NEW m \in Post, HasJson(m)', Undisturbed(m)'
               PROVE  runs[m] > 0 \/ m \in shadowed
                      \/ \E o \in Listener : InLocal(o) /\ at[o].frame.post = m
    BY <1>1 DEF Answered, InLocal
  <2>1. Undisturbed(m)
    BY <1>1 DEF Undisturbed
  <2>2. f # [post |-> m, kind |-> "json"]
    BY <2>1, NotDropped
  <2>3. HasJson(m)
    BY <1>1, <2>2 DEF HasJson, IInv, TypeOK
  <2>4. QED
    BY <2>1, <2>3 DEF Told, Answered
<1>5. QED
  BY <1>2, <1>3, <1>4 DEF Told

LEMMA ToldClaim ==
    ASSUME IInv, Told, NEW l \in Listener, NEW f \in Frame, Claim(l, f)
    PROVE  Told'
<1> DEFINE k == KeyOf(f)
<1>1. /\ read' = [read EXCEPT ![l] = @ \cup {f}] /\ Arrives(l, f)
      /\ UNCHANGED <<post, processed, runs, since, calm>>
      /\ f.post \in Post /\ post[f.post] # Nil /\ k \in Key
      /\ TypeOK /\ ~InLocal(l)
  BY Types DEF IInv, Claim, Arrives, InLocal
<1>2. Real'
  BY <1>1, RealArrives
<1>3. \A m : Undisturbed(m)' = Undisturbed(m)
  BY <1>1 DEF Undisturbed
<1>4. \A g : KeyOf(g)' = KeyOf(g)
  BY <1>1 DEF KeyOf
<1>5. ASSUME NEW m \in Post, HasJson(m)', m # f.post
      PROVE  HasJson(m)
  BY <1>1, <1>5 DEF HasJson, TypeOK
<1>6. CASE Free(k)
  <2>1. /\ claimed' = [claimed EXCEPT ![k] = Ttl] /\ shadowed' = shadowed
        /\ at' = [at EXCEPT ![l] = [pc |-> "local", frame |-> f]]
    BY <1>6 DEF Claim, Set
  <2>2. /\ InLocal(l)' /\ at'[l].frame = f
        /\ \A o \in Listener : InLocal(o) => InLocal(o)' /\ at'[o] = at[o]
    BY <1>1, <2>1 DEF InLocal, TypeOK
  <2>3. Reasons'
    <3> SUFFICES ASSUME calm, NEW j \in Key
                 PROVE  /\ claimed'[j] > 0 => Underway(j)' \/ since[j] + claimed'[j] <= Long
                        /\ \A p \in Process : processed[p][j] > 0
                              => since[j] + processed[p][j] <= Ttl + 1
      BY <1>1 DEF Reasons
    <3>1. Underway(j) => Underway(j)'
      BY <1>4, <2>2 DEF Underway
    <3>2. CASE j = k
      <4>1. Underway(j)'
        BY <1>4, <2>2, <3>2 DEF Underway
      <4>2. QED
        BY <4>1 DEF Told, Reasons
    <3>3. CASE j # k
      BY <1>1, <2>1, <3>1, <3>3 DEF Told, Reasons, TypeOK
    <3>4. QED
      BY <3>2, <3>3
  <2>4. Answered'
    <3> SUFFICES ASSUME calm, NEW m \in Post, HasJson(m)', Undisturbed(m)
                 PROVE  \/ runs[m] > 0 \/ m \in shadowed
                        \/ \E o \in Listener : InLocal(o)' /\ at'[o].frame.post = m
      BY <1>1, <1>3, <2>1 DEF Answered
    <3>1. CASE m = f.post
      BY <2>2, <3>1
    <3>2. CASE m # f.post
      BY <1>5, <2>2, <3>2 DEF Told, Answered
    <3>3. QED
      BY <3>1, <3>2
  <2>5. QED
    BY <1>2, <2>3, <2>4 DEF Told
<1>7. CASE ~Free(k)
  <2>1. /\ UNCHANGED <<claimed, at>> /\ Refuse(l, f)
        /\ shadowed \subseteq shadowed'
    BY <1>7 DEF Claim, Refuse
  <2>2. Reasons'
    BY <1>1, <1>4, <2>1 DEF Told, Reasons, Underway, InLocal
  <2>3. calm => runs[f.post] > 0 \/ f.post \in shadowed'
    <3> SUFFICES ASSUME calm, ~(runs[f.post] > 0) PROVE f.post \in shadowed'
      OBVIOUS
    <3>1. claimed[k] > 0 /\ claimed[k] \in 0..Ttl /\ since[k] \in 0..Long
      BY <1>1, <1>7 DEF Free, TypeOK
    <3>2. Underway(k) \/ since[k] < Long
      BY <1>1, <3>1, WindowAssumption DEF Told, Reasons, Long
    <3>3. Shadow(l, k)
      BY <1>1, <3>2 DEF Underway, Shadow, InLocal
    <3>4. runs[f.post] = 0
      BY <1>1, Types
    <3>5. QED
      BY <2>1, <3>3, <3>4 DEF Refuse
  <2>4. Answered'
    BY <1>1, <1>3, <1>5, <2>1, <2>3 DEF Told, Answered, InLocal
  <2>5. QED
    BY <1>2, <2>2, <2>4 DEF Told
<1>8. QED
  BY <1>6, <1>7

LEMMA ToldFaults ==
    ASSUME IInv, Told,
           \/ \E l \in Listener, f \in Frame : ClaimFails(l, f)
           \/ \E p \in Process : Crash(p)
    PROVE  Told'
<1>1. ~calm'
  BY DEF ClaimFails, Crash, Fault
<1>2. Real'
  <2>1. ASSUME NEW l \in Listener, NEW f \in Frame, ClaimFails(l, f)
        PROVE  Real'
    BY <2>1, RealArrives DEF IInv, ClaimFails
  <2>2. ASSUME NEW p \in Process, Crash(p)
        PROVE  Real'
    BY <2>2 DEF Told, Real, Crash
  <2>3. QED
    BY <2>1, <2>2
<1>3. QED
  BY <1>1, <1>2 DEF Told, Reasons, Answered

LEMMA ToldStart ==
    ASSUME IInv, Told, NEW l \in Listener, Start(l)
    PROVE  Told'
<1> DEFINE f == at[l].frame
           k == KeyOf(f)
<1>1. /\ InLocal(l) /\ at' = [at EXCEPT ![l] = Idle] /\ TypeOK
      /\ UNCHANGED <<home, post, read, claimed, calm>>
      /\ f \in Frame /\ f.post \in Post /\ k \in Key /\ claimed[k] = Ttl
      /\ home[l] \in Process
  BY Types DEF IInv, Start, InLocal, Claimed, config, TypeOK
<1>2. /\ \A g : KeyOf(g)' = KeyOf(g)
      /\ \A m : HasJson(m)' = HasJson(m) /\ Undisturbed(m)' = Undisturbed(m)
  BY <1>1 DEF KeyOf, HasJson, Undisturbed
<1>3. \A o \in Listener : o # l /\ InLocal(o) => InLocal(o)' /\ at'[o] = at[o]
  BY <1>1 DEF InLocal, TypeOK
<1>4. Real'
  BY <1>1 DEF Told, Real
<1>5. \A j \in Key : Underway(j) /\ j # k => Underway(j)'
  BY <1>2, <1>3 DEF Underway
<1>6. Ttl \in Nat \ {0} /\ Long = 2 * Ttl
  BY WindowAssumption DEF Long
<1>7. CASE Fresh(home[l], k)
  <2>1. UNCHANGED <<processed, runs, since>> /\ Refuse(l, f) /\ shadowed \subseteq shadowed'
    BY <1>7 DEF Start, Refuse
  <2>2. /\ processed[home[l]][k] > 0 /\ processed[home[l]][k] \in 0..(Ttl + 1)
        /\ since[k] \in 0..Long
    BY <1>1, <1>7 DEF Fresh, TypeOK
  <2>3. calm => since[k] <= Ttl
    BY <1>1, <1>6, <2>2 DEF Told, Reasons
  <2>4. Reasons'
    <3> SUFFICES ASSUME calm, NEW j \in Key
                 PROVE  /\ claimed[j] > 0 => Underway(j)' \/ since[j] + claimed[j] <= Long
                        /\ \A p \in Process : processed[p][j] > 0
                              => since[j] + processed[p][j] <= Ttl + 1
      BY <1>1, <2>1 DEF Reasons
    <3>1. j = k => since[j] + claimed[j] <= Long
      BY <1>1, <1>6, <2>2, <2>3
    <3>2. QED
      BY <1>5, <3>1 DEF Told, Reasons
  <2>5. calm => runs[f.post] > 0 \/ f.post \in shadowed'
    <3> SUFFICES ASSUME calm, ~(runs[f.post] > 0) PROVE f.post \in shadowed'
      OBVIOUS
    <3>1. Shadow(l, k)
      BY <1>6, <2>2, <2>3 DEF Shadow
    <3>2. runs[f.post] = 0
      BY <1>1, Types
    <3>3. QED
      BY <2>1, <3>1, <3>2 DEF Refuse
  <2>6. Answered'
    BY <1>1, <1>2, <1>3, <2>1, <2>5 DEF Told, Answered
  <2>7. QED
    BY <1>4, <2>4, <2>6 DEF Told
<1>8. CASE ~Fresh(home[l], k)
  <2>1. /\ processed' = [processed EXCEPT ![home[l]][k] = Ttl + 1]
        /\ runs' = [runs EXCEPT ![f.post] = IF @ = 0 THEN 1 ELSE 2]
        /\ since' = [since EXCEPT ![k] = IF calm THEN 0 ELSE @]
        /\ shadowed' = shadowed \ {f.post}
    BY <1>8 DEF Start
  <2>2. /\ runs'[f.post] > 0
        /\ \A m \in Post : runs[m] > 0 => runs'[m] > 0
    BY <1>1, <2>1, Types DEF TypeOK
  <2>3. Reasons'
    <3> SUFFICES ASSUME calm, NEW j \in Key
                 PROVE  /\ claimed[j] > 0 => Underway(j)' \/ since'[j] + claimed[j] <= Long
                        /\ \A p \in Process : processed'[p][j] > 0
                              => since'[j] + processed'[p][j] <= Ttl + 1
      BY <1>1 DEF Reasons
    <3>1. CASE j = k
      <4>1. since'[j] = 0
        BY <1>1, <2>1, <3>1 DEF TypeOK
      <4>2. \A p \in Process : processed'[p][j] \in 0..(Ttl + 1)
        BY <1>1, <1>6, <2>1 DEF TypeOK
      <4>3. QED
        BY <1>1, <1>6, <3>1, <4>1, <4>2
    <3>2. CASE j # k
      <4>1. /\ since'[j] = since[j]
            /\ \A p \in Process : processed'[p][j] = processed[p][j]
        BY <1>1, <2>1, <3>2 DEF TypeOK
      <4>2. QED
        BY <1>5, <3>2, <4>1 DEF Told, Reasons
    <3>3. QED
      BY <3>1, <3>2
  <2>4. Answered'
    BY <1>1, <1>2, <1>3, <2>1, <2>2 DEF Told, Answered
  <2>5. QED
    BY <1>4, <2>3, <2>4 DEF Told
<1>9. QED
  BY <1>7, <1>8

LEMMA ToldTick ==
    ASSUME IInv, Told, Tick
    PROVE  Told'
<1>1. /\ UNCHANGED <<read, at, runs, shadowed, calm>> /\ TypeOK
      /\ \A l \in Listener : ~InLocal(l)
      /\ claimed' = [k \in Key |-> Less(claimed[k])]
      /\ processed' = [p \in Process |-> [k \in Key |-> Less(processed[p][k])]]
      /\ since' = [k \in Key |-> IF since[k] = Long THEN Long ELSE since[k] + 1]
  BY DEF Tick, InLocal, IInv, watch
<1>2. \A m \in Post : post[m] # Nil =>
         /\ post'[m] # Nil /\ post'[m].by = post[m].by
         /\ post'[m].key = post[m].key /\ post'[m].alias = post[m].alias
  <2> SUFFICES ASSUME NEW m \in Post, post[m] # Nil
               PROVE  /\ post'[m] # Nil /\ post'[m].by = post[m].by
                      /\ post'[m].key = post[m].key /\ post'[m].alias = post[m].alias
    OBVIOUS
  <2>1. post[m] \in Written /\ post[m].age \in 0..Spread
    BY Types DEF IInv
  <2>2. post'[m] = IF post[m].age = Spread THEN post[m]
                   ELSE [post[m] EXCEPT !.age = @ + 1]
    BY DEF Tick
  <2>3. post[m].age # Spread => post[m].age + 1 \in 0..Spread
    BY <2>1, WindowAssumption
  <2>4. post'[m] \in Written
    BY <2>1, <2>2, <2>3 DEF Written
  <2>5. QED
    BY <2>1, <2>2, <2>4, NilPostAssumption DEF Written
<1>3. Real'
  BY <1>1, <1>2, Types DEF IInv, Told, Real, TypeOK
<1>4. Reasons'
  <2> SUFFICES ASSUME calm, NEW k \in Key
               PROVE  /\ claimed'[k] > 0 => since'[k] + claimed'[k] <= Long
                      /\ \A p \in Process : processed'[p][k] > 0
                            => since'[k] + processed'[p][k] <= Ttl + 1
    BY <1>1 DEF Reasons
  <2>1. Ttl \in Nat \ {0} /\ Long = 2 * Ttl
    BY WindowAssumption DEF Long
  <2>2. /\ claimed[k] \in 0..Ttl /\ since[k] \in 0..Long
        /\ \A p \in Process : processed[p][k] \in 0..(Ttl + 1)
    BY <1>1 DEF TypeOK
  <2>3. /\ claimed'[k] = IF claimed[k] = 0 THEN 0 ELSE claimed[k] - 1
        /\ since'[k] = IF since[k] = Long THEN Long ELSE since[k] + 1
        /\ \A p \in Process : processed'[p][k] =
              IF processed[p][k] = 0 THEN 0 ELSE processed[p][k] - 1
    BY <1>1 DEF Less
  <2>4. /\ claimed[k] > 0 => since[k] + claimed[k] <= Long
        /\ \A p \in Process : processed[p][k] > 0 => since[k] + processed[p][k] <= Ttl + 1
    BY <1>1 DEF Told, Reasons, Underway
  <2>5. claimed'[k] > 0 => since'[k] + claimed'[k] <= Long
    BY <2>1, <2>2, <2>3, <2>4
  <2>6. \A p \in Process : processed'[p][k] > 0
                              => since'[k] + processed'[p][k] <= Ttl + 1
    BY <2>1, <2>2, <2>3, <2>4
  <2>7. QED
    BY <2>5, <2>6
<1>5. Answered'
  <2> SUFFICES ASSUME calm, NEW m \in Post, HasJson(m)', Undisturbed(m)'
               PROVE  runs[m] > 0 \/ m \in shadowed
    BY <1>1 DEF Answered
  <2>1. HasJson(m) /\ post[m] # Nil
    BY <1>1 DEF HasJson, Told, Real
  <2>2. Undisturbed(m)
    BY <1>2, <2>1 DEF Undisturbed
  <2>3. QED
    BY <1>1, <2>1, <2>2 DEF Told, Answered
<1>6. QED
  BY <1>3, <1>4, <1>5 DEF Told

LEMMA ToldStep == IInv /\ Told /\ [Next]_vars => Told'
<1> SUFFICES ASSUME IInv, Told, [Next]_vars PROVE Told'
  OBVIOUS
<1>1. CASE UNCHANGED vars
  BY <1>1 DEF vars, config, watch, Told, Real, Reasons, Answered, Underway, InLocal,
              KeyOf, HasJson, Undisturbed
<1>2. QED
  BY <1>1, ToldWrite, ToldDrop, ToldClaim, ToldFaults, ToldStart, ToldTick DEF Next

LEMMA ToldHolds == Spec => []Told
  BY IntakeInvariance, ToldInit, ToldStep, PTL DEF Spec

\* A message whose JSON frame was read is carried out, or the same command was
\* not long ago, as long as nothing fails: for any number of messages, keys,
\* connections and processes, and any life of a key (main.go 238-391).
THEOREM CarriedOut == Spec => []NotLost
<1>1. Told => NotLost
  BY DEF Told, Answered, NotLost, InLocal, Idle
<1>2. QED
  BY <1>1, ToldHolds, PTL

=============================================================================
