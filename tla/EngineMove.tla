----------------------------- MODULE EngineMove -----------------------------
(***************************************************************************)
(* How the engine of a solo game comes by its move: Evaluate of            *)
(* internal/chess/engine.go with preset.go, humanizer.go, limits.go and    *)
(* openingbook/, and the part of Play (internal/service/chess/service.go)  *)
(* that makes the move.  The opening catalogue is asked first, then the    *)
(* book, then the engine, whose candidates the opening preferences of the  *)
(* preset rearrange.                                                       *)
(*                                                                         *)
(* Abstractions.  Which moves a position allows is chosen freely, except   *)
(* that the lines of the catalogue and of the preferences are chess        *)
(* (Replies).  A draw by weight is any choice whose weight is positive.    *)
(* Evaluations in centipawns, the order of a catalogue result and the      *)
(* limits of a search are left out; UciSession's and the pool's part is in *)
(* EnginePool.                                                             *)
(***************************************************************************)
EXTENDS Naturals, SequencesExt

CONSTANTS WhiteMove, BlackMove,   \* in UCI notation
          Prefs,        \* sequence of OpeningPreference
          Catalog,      \* set of [eco, lines]: catalog.json
          Style,        \* CHESS_OPENING_DEFAULT_STYLE: a set of groups, which
                        \* are sets of ECO codes
          CatalogFile,  \* "read", "none" or "broken"
          MinWeight, OpeningPly, MaxWeight,
          MultiPV, Primary, Weights,      \* of the preset
          MaxPly,       \* bound: plies of a game
          NoReply

Move == WhiteMove \cup BlackMove

Preference == [white : Seq(WhiteMove), black : Seq(BlackMove),
               force : BOOLEAN, factor : Nat \ {0}]

\* validateOpeningPreference
ValidPreference(p) == p.white # << >> /\ p.black # << >>

(* ValidatePreset, which SelectCandidate and BuildGoCommand ask again for    *)
(* each move.                                                               *)
ValidPreset ==
    /\ MultiPV \in Nat /\ Primary \in 1..MultiPV
    /\ Weights \in Seq(Nat) /\ Len(Weights) >= Primary
    /\ \E i \in 1..Primary : Weights[i] > 0
    /\ Prefs \in Seq(Preference)
    /\ \A i \in DOMAIN Prefs : ValidPreference(Prefs[i])

ASSUME PresetAssumption == ValidPreset

\* A string of four or five characters.
ASSUME MoveAssumption == IsFiniteSet(Move)

ASSUME CatalogAssumption ==
    /\ CatalogFile \in {"read", "none", "broken"}
    /\ \A e \in Catalog : \A line \in e.lines :
          /\ line \in Seq([move : Move, weight : Nat])
          /\ \A i \in DOMAIN line :
                line[i].move \in IF i % 2 = 1 THEN WhiteMove ELSE BlackMove
    /\ \A d, e \in Catalog : d.eco = e.eco => d = e
    /\ MinWeight \in Nat \ {0} /\ MaxWeight \in Nat /\ MaxWeight >= MinWeight
    /\ OpeningPly \in Nat

VARIABLES history,  \* payload.Moves
          shared,   \* CandidateWeights of the preset in DefaultPresets
          reply     \* the latest evaluation, what it was asked and gave (observer)

moveVars == <<history, shared, reply>>

Candidate == [move : Move, forced : BOOLEAN]
Source    == {"catalog", "book", "engine"}

Evaluation == [asked : Seq(Move), legal : SUBSET Move, source : Source,
               cands : Seq(Candidate), chosen : Move]

MoveTypeOK ==
    /\ history \in Seq(Move)
    /\ shared \in Seq(Nat)
    /\ reply \in Evaluation \cup {NoReply}

MoveInit ==
    /\ history = << >>
    /\ shared = Weights
    /\ reply = NoReply

-----------------------------------------------------------------------------
(* splitMovesByColor *)
OfWhite(h) == [i \in 1..((Len(h) + 1) \div 2) |-> h[2 * i - 1]]
OfBlack(h) == [i \in 1..(Len(h) \div 2) |-> h[2 * i]]

Cand(m, f) == [move |-> m, forced |-> f]

Lesser(a, b) == IF a < b THEN a ELSE b
SumOf(f)     == FoldFunction(LAMBDA a, b : a + b, 0, f)

-----------------------------------------------------------------------------
(* The opening catalogue. *)

\* SetPresetOpeningStyle: the ECO codes of all groups that are named.
Tokens == UNION Style

MoveAfter(line, h) == Len(line) > Len(h) /\ \A i \in DOMAIN h : line[i].move = h[i]

(* LookupCatalog, for the color "black" that a configuration without one    *)
(* has: the moves of an entry's lines after h, their weights added up to a  *)
(* uint16.                                                                  *)
LookupCatalog(h, e) ==
    LET lines == IF Len(h) % 2 = 0 THEN {}
                 ELSE {l \in e.lines : MoveAfter(l, h) /\ l[Len(h) + 1].weight > 0}
        of(m) == {l \in lines : l[Len(h) + 1].move = m}
    IN  [m \in {l[Len(h) + 1].move : l \in lines} |->
           Lesser(MaxWeight, SumOf([l \in of(m) |-> l[Len(h) + 1].weight]))]

\* aggregateCatalogMoves
CatalogMoves(h) ==
    LET found    == [e \in {d \in Catalog : d.eco \in Tokens} |-> LookupCatalog(h, e)]
        with(m)  == {e \in DOMAIN found : m \in DOMAIN found[e]}
        total(m) == SumOf([e \in with(m) |-> found[e][m]])
    IN  {m \in UNION {DOMAIN found[e] : e \in DOMAIN found} : total(m) >= MinWeight}

\* applyPolyglotMove: the drawn move comes first and is forced.
Polyglot(moves, m) ==
    <<Cand(m, TRUE)>> \o [i \in 1..(Cardinality(moves) - 1) |->
                            Cand(SetToSeq(moves \ {m})[i], FALSE)]

-----------------------------------------------------------------------------
(* The opening preferences. *)

\* Mutant: Black's own moves are not compared.
MatchedByWhite(p, h) ==
    /\ Len(h) % 2 = 1
    /\ \A i \in 1..Lesser(Len(OfWhite(h)), Len(p.white)) : OfWhite(h)[i] = p.white[i]
    /\ Len(OfBlack(h)) < Len(p.black)

(* White has played the moves of the preference as far as both go, Black    *)
(* all he has played, and there is one more.                                *)
Matched(p, h) ==
    /\ Len(h) % 2 = 1
    /\ \A i \in 1..Lesser(Len(OfWhite(h)), Len(p.white)) : OfWhite(h)[i] = p.white[i]
    /\ Len(OfBlack(h)) < Len(p.black)
    /\ IsPrefix(OfBlack(h), p.black)

NextMove(p, h) == p.black[Len(OfBlack(h)) + 1]

IndexOf(cands, m) == CHOOSE i \in DOMAIN cands :
                        /\ cands[i].move = m
                        /\ \A j \in 1..(i - 1) : cands[j].move # m

Lists(cands, m) == \E i \in DOMAIN cands : cands[i].move = m

\* A preference is appended to the candidates, or marks its own.
Propose(cands, p, h) ==
    LET m == NextMove(p, h) IN
    IF ~Lists(cands, m) THEN Append(cands, Cand(m, p.force))
    ELSE [cands EXCEPT ![IndexOf(cands, m)].forced = @ \/ p.force]

\* Mutant: marked where it is, not moved to the front.
MarkOnly(cands, p, h) ==
    [cands EXCEPT ![IndexOf(cands, NextMove(p, h))].forced = @ \/ p.force]

\* The drawn preference changes places with the first candidate.
PutFirst(cands, p, h) ==
    LET i     == IndexOf(cands, NextMove(p, h))
        swapped == [cands EXCEPT ![1] = cands[i], ![i] = cands[1]]
        freed   == IF i # 1 /\ p.force THEN [swapped EXCEPT ![i].forced = FALSE]
                   ELSE swapped
    IN  [freed EXCEPT ![1].forced = @ \/ p.force]

\* The candidates after all preferences that match have been proposed.
Proposed(cands, h) ==
    LET list[n \in 0..Len(Prefs)] ==
            IF n = 0 THEN cands
            ELSE IF Matched(Prefs[n], h) THEN Propose(list[n - 1], Prefs[n], h)
            ELSE list[n - 1]
    IN  list[Len(Prefs)]

\* Which candidates and weights applyOpeningPreferences may leave.
Preferred(cands, weights, h) ==
    LET all    == {i \in DOMAIN Prefs : Matched(Prefs[i], h)}
        forced == {i \in all : Prefs[i].force}
        by(p)  == IF weights[1] = 0 THEN p.factor ELSE weights[1] * p.factor
    IN  IF all = {} THEN {[cands |-> cands, weights |-> weights]}
        ELSE {[cands   |-> PutFirst(Proposed(cands, h), Prefs[i], h),
               weights |-> [weights EXCEPT ![1] = by(Prefs[i])]] :
                 i \in IF forced # {} THEN forced ELSE all}

-----------------------------------------------------------------------------
(* SelectCandidate: the first forced one among the primary choices, else    *)
(* one drawn by weight; threshold 0 makes it the first, whatever it weighs. *)
Chosen(cands, weights) ==
    LET primary == 1..Lesser(Primary, Len(cands))
        forced  == {i \in primary : cands[i].forced}
        first   == {i \in forced : \A j \in forced : i <= j}
        weighed == {i \in primary : weights[i] > 0}
    IN  {cands[i].move : i \in IF forced # {} THEN first
                               ELSE IF weighed = {} THEN {} ELSE {1} \cup weighed}

-----------------------------------------------------------------------------
(* The replies the rules of chess may allow to h: any, but what a line of   *)
(* the catalogue or a preference that has been followed so far goes on with *)
(* is legal.                                                                *)
InLine(p, h) == Matched(p, h) /\ Len(OfWhite(h)) <= Len(p.white)

Lines(h) ==
    {Prefs[i].black[Len(OfBlack(h)) + 1] : i \in {j \in DOMAIN Prefs :
        /\ Len(h) % 2 = 1
        /\ IsPrefix(OfWhite(h), Prefs[j].white)
        /\ IsPrefix(OfBlack(h), Prefs[j].black)
        /\ Len(OfBlack(h)) < Len(Prefs[j].black)}}
    \cup UNION {{l[Len(h) + 1].move : l \in {k \in e.lines : MoveAfter(k, h)}} : e \in Catalog}

Own(h)     == IF Len(h) % 2 = 1 THEN BlackMove ELSE WhiteMove
Replies(h) == {s \in SUBSET Own(h) : s # {} /\ Lines(h) \cap Own(h) \subseteq s}

(* The moves a search lists, best first. *)
Listed(legal) ==
    {s \in UNION {[1..n -> legal] : n \in 1..MultiPV} :
        \A i, j \in DOMAIN s : s[i] = s[j] => i = j}

\* tryOpeningMove gets as far as the catalogue and the book.
InOpening(h) == Len(h) < OpeningPly

FromCatalog(h) == InOpening(h) /\ CatalogFile = "read" /\ CatalogMoves(h) # {}

\* An error of the catalogue goes past the book; so does a move of the book
\* the position does not allow.
Broken == Tokens # {} /\ CatalogFile = "broken"

Result(h, legal, source, cands, m) ==
    [asked |-> h, legal |-> legal, source |-> source, cands |-> cands, chosen |-> m]

(* Evaluate, with the weights it leaves behind in its copy of the preset. *)
Evaluations(h, legal) ==
    LET answer(source, cands, weights) ==
            {[out |-> Result(h, legal, source, cands, m), weights |-> weights] :
                m \in Chosen(cands, weights)}
        catalog == UNION {answer("catalog", Polyglot(CatalogMoves(h), m), shared) :
                            m \in CatalogMoves(h)}
        book    == UNION {answer("book", <<Cand(m, TRUE)>>, shared) :
                            m \in IF Len(h) % 2 = 1 THEN legal ELSE {}}
        search  == UNION {answer("engine", p.cands, p.weights) :
                            p \in UNION {Preferred([i \in DOMAIN s |-> Cand(s[i], FALSE)],
                                                   shared, h) : s \in Listed(legal)}}
    IN  IF FromCatalog(h) THEN catalog
        ELSE IF InOpening(h) /\ ~Broken THEN book \cup search
        ELSE search

\* Mutant: the preset's own weights are multiplied.
Multiplied(e) == e.weights

\* Evaluate multiplies the weights of a copy.
Kept(e) == shared

\* A move of the player and the engine's reply.  When the reply cannot be
\* made, Play ends with an error and the session is as before.
Play(w) ==
    /\ Len(history) % 2 = 0 /\ Len(history) < MaxPly
    /\ LET h == Append(history, w) IN
       \E legal \in Replies(h) : \E e \in Evaluations(h, legal) :
          /\ reply' = e.out
          /\ shared' = Kept(e)
          /\ history' = IF e.out.chosen \in legal THEN Append(h, e.out.chosen) ELSE history

(* Assist: White asks for a move; nothing is played.  What is shown is the  *)
(* best move of the evaluation, which need not be the chosen one.           *)
Assist ==
    /\ Len(history) < MaxPly
    /\ \E legal \in Replies(history) : \E e \in Evaluations(history, legal) :
          /\ reply' = e.out
          /\ shared' = Kept(e)
    /\ UNCHANGED history

\* A new game under the same preset.
Restart == history' = << >> /\ UNCHANGED <<shared, reply>>

MoveNext == Assist \/ Restart \/ \E w \in WhiteMove : Play(w)

MoveSpec == MoveInit /\ [][MoveNext]_moveVars

-----------------------------------------------------------------------------
(* The reply can be made on the board, but for one case: White has moved on *)
(* past the end of a preference that still has moves for Black, and one is  *)
(* proposed whatever White played (engine.go:378-400; five of the built-in  *)
(* preferences are that short).                                             *)
LegalReply ==
    reply # NoReply => \/ reply.chosen \in reply.legal
                   \/ \E i \in DOMAIN Prefs :
                         /\ Matched(Prefs[i], reply.asked)
                         /\ ~InLine(Prefs[i], reply.asked)
                         /\ NextMove(Prefs[i], reply.asked) = reply.chosen

(* A forced preference the game is in beats the engine's own order and      *)
(* every preference that is not forced, also when the engine did not list   *)
(* its move or listed it beyond the primary choices (engine.go:402-500,     *)
(* humanizer.go:28-37).                                                     *)
ForcedHonoured ==
    reply # NoReply /\ reply.source = "engine" =>
        LET forced == {i \in DOMAIN Prefs : /\ Prefs[i].force
                                            /\ Matched(Prefs[i], reply.asked)}
        IN  forced # {} => reply.chosen \in {NextMove(Prefs[i], reply.asked) : i \in forced}

(* What one game multiplies is not seen by the next: the preset is shared   *)
(* by all games of the process, its weights are copied for each evaluation  *)
(* (engine.go:89-92), and the copy is what is written (engine.go:492-498).  *)
WeightsKept == shared = Weights
=============================================================================
