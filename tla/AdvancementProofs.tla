-------------------------- MODULE AdvancementProofs --------------------------
(***************************************************************************)
(* How winners move through the bracket, for every field and every order   *)
(* of chunks and results: brackets of one lane, drawn by the seed, at a    *)
(* PDA that is created once.                                               *)
(*                                                                         *)
(* While a bracket is being drawn every match is as its descriptor says    *)
(* (AsDrawn), which only fits together because no two entrants share a     *)
(* join number (NumbersDiffer) and the seed cannot change any more         *)
(* (DrawnMeansSealed).  From then on every slot mirrors its feeder.  With  *)
(* the counters (Tallied) and the final that stays undecided (FinalIsOpen) *)
(* it follows that an Active bracket always has a match to play.           *)
(***************************************************************************)
EXTENDS MoneyProofs

OneLane == \E lane : Lanes = {lane}

Slot(next, left) == IF left THEN node[next].player_a ELSE node[next].player_b

Mirrored ==
    \A m, next \in OpenNodes :
        FeedsInto(m, next) => node[m].winner = Slot(next, IsLeftChild(m))

\* A match waits until both its slots are taken; only a first-round one may be a
\* bye, and no first-round one waits.
SoundMatch(n, round) ==
    /\ n.status \in {"Pending", "Active"} =>
         /\ n.winner = NoOne /\ ~n.bye
         /\ n.status = "Active" <=> (n.player_a # NoOne /\ n.player_b # NoOne)
    /\ n.status = "Pending" => round # 0
    /\ n.status = "Completed" =>
         /\ n.winner # NoOne
         /\ \/ n.bye /\ round = 0
            \/ ~n.bye /\ n.player_a # NoOne /\ n.player_b # NoOne

Sound == \A m \in OpenNodes : SoundMatch(node[m], m.round)

NumbersDiffer ==
    \A p, q \in OpenParticipants : participant[p].seed_index = participant[q].seed_index => p = q

NumbersTaken ==
    status = "Registration" =>
        \A p \in OpenParticipants : participant[p].seed_index < participant_count

NoLeftovers == incarnation = 0 \/ status = "Registration" => OpenNodes = {}

InBracket ==
    status \in {"PendingBracketInit", "Active"} =>
        bracket_size \in PowersOfTwo /\ OpenNodes \subseteq MatchIds(Lanes, bracket_size)

DrawnNodes(m, size, seed) ==
    {NewNode(d) : d \in SeededDescriptors(m, size, SeedPermutation(seed, participant_count))}

AsDrawn ==
    status = "PendingBracketInit" =>
        \A m \in OpenNodes : node[m] \in DrawnNodes(m, bracket_size, seed_hash)

Field == NumbersDiffer /\ NumbersTaken /\ NoLeftovers /\ InBracket /\ AsDrawn

BracketInv == Field /\ Sound /\ Mirrored

\* The draw of the tournament that exists, if any, is seeded (DrawIsSeeded).
Validated == incarnation > 0 /\ settlement_mode = "OrganizerOnly" => FreeEntrants = {}

\* What the bracket needs of the entrants' accounts, whatever the vault holds.
Enrolled == TypeOK /\ UnbornIsEmpty /\ NobodyClosedEarly

LEMMA SeededIsValidated == DrawIsSeeded => Validated
BY DEF DrawIsSeeded, Validated

(***************************************************************************)
(* Geometry                                                                *)
(***************************************************************************)
LEMMA MatchTypes ==
  ASSUME NEW m \in Matches
  PROVE  /\ m = [lane |-> m.lane, round |-> m.round, index |-> m.index]
         /\ m.lane \in Lanes /\ m.round \in Nat /\ m.index \in Nat
<1>1. BracketSize(MaxParticipants) \in PowersOfTwo
  BY ParametersAssumption, BracketSizeFits
<1>2. QED  BY <1>1, MatchFields DEF Matches

\* In one lane a match feeds one other, and a slot has one feeder.
LEMMA OneFeeder ==
  ASSUME OneLane, NEW a \in Matches, NEW b \in Matches, NEW c \in Matches
  PROVE  /\ FeedsInto(a, b) /\ FeedsInto(a, c) => b = c
         /\ FeedsInto(a, c) /\ FeedsInto(b, c) /\ (IsLeftChild(a) <=> IsLeftChild(b)) => a = b
         /\ FeedsInto(a, b) => a # b /\ ~FeedsInto(b, a) /\ b.round > 0
<1>2. PICK lane : Lanes = {lane}  BY DEF OneLane
<1>3. /\ a \in [lane : {lane}, round : Nat, index : Nat]
      /\ b \in [lane : {lane}, round : Nat, index : Nat]
      /\ c \in [lane : {lane}, round : Nat, index : Nat]
  BY <1>2, MatchTypes
<1>4. QED  BY <1>3, OneWayUp

LEMMA OneFinal ==
  ASSUME OneLane, NEW a \in Matches, NEW b \in Matches, NEW size,
         IsFinal(a, size), IsFinal(b, size)
  PROVE  a = b
<1>1. a.lane = b.lane  BY MatchTypes DEF OneLane
<1>2. a.round = b.round /\ a.index = b.index  BY MatchTypes DEF IsFinal
<1>3. QED  BY <1>1, <1>2, MatchTypes

\* The final feeds no match of the bracket.
LEMMA FinalIsLast ==
  ASSUME NEW size \in PowersOfTwo, NEW m \in MatchIds(Lanes, size),
         NEW next \in MatchIds(Lanes, size), IsFinal(m, size)
  PROVE  ~FeedsInto(m, next)
<1>1. next.round < MaxRound(size) /\ next.round \in Nat /\ m.round \in Nat  BY MatchFields
<1>2. QED  BY <1>1 DEF IsFinal, FeedsInto

(***************************************************************************)
(* The draw                                                                *)
(***************************************************************************)
LEMMA DescriptorFields ==
  ASSUME NEW A, NEW B, NEW C, NEW d \in [player_a : A, player_b : B, bye : C]
  PROVE  d.player_a \in A /\ d.player_b \in B /\ d.bye \in C
OBVIOUS

\* The descriptors of the later rounds.
LEMMA NotABye ==
  ASSUME NEW A, NEW B, NEW d \in [player_a : A, player_b : B, bye : {FALSE}]
  PROVE  d.player_a \in A /\ d.player_b \in B /\ d.bye = FALSE
<1>1. d.player_a \in A /\ d.player_b \in B /\ d.bye \in {FALSE}
  BY DescriptorFields
<1>2. QED  BY <1>1, Zenon

\* What the validation of a descriptor leaves of a match that is not played.
LEMMA DrawnShape ==
  ASSUME NEW m \in Matches, NEW size, NEW seed, NEW n \in DrawnNodes(m, size, seed),
         NEW perm, perm = SeedPermutation(seed, participant_count)
  PROVE  /\ SoundMatch(n, m.round)
         /\ (n.status = "Completed") <=> n.bye
         /\ n.bye => m.round = 0 /\ IsBye(m.index, size, participant_count)
         /\ m.round = 0 =>
              n.winner \in (IF IsBye(m.index, size, participant_count)
                            THEN Holders(perm, m.index) ELSE {NoOne})
         /\ m.round # 0 => n.winner = NoOne
         /\ m.round = 1 =>
              /\ n.player_a \in SeededRound1Slot(2 * m.index, size, perm)
              /\ n.player_b \in SeededRound1Slot(2 * m.index + 1, size, perm)
         /\ m.round > 1 => n.player_a = NoOne /\ n.player_b = NoOne
<1> m.round \in Nat  BY MatchTypes
<1>1. PICK d \in SeededDescriptors(m, size, perm) : n = NewNode(d)
  BY DEF DrawnNodes
<1>2. \A rank : NoOne \notin Holders(perm, rank)
  BY PartiesAssumption, WalletTypes DEF Holders, OpenParticipants
<1>3. /\ n.status = IF d.bye THEN "Completed"
                    ELSE IF d.player_a # NoOne /\ d.player_b # NoOne THEN "Active" ELSE "Pending"
      /\ n.player_a = d.player_a /\ n.player_b = (IF d.bye THEN NoOne ELSE d.player_b)
      /\ n.winner = (IF d.bye THEN d.player_a ELSE NoOne)
      /\ n.bye = d.bye
  BY <1>1 DEF NewNode
<1>4. CASE m.round = 0
  <2>1. SeededDescriptors(m, size, perm) = SeededRound0(m.index, size, perm)
    BY <1>4 DEF SeededDescriptors
  <2>2. /\ d.bye = IsBye(m.index, size, participant_count)
        /\ d.player_a \in Holders(perm, m.index)
        /\ ~IsBye(m.index, size, participant_count) =>
             d.player_b \in Holders(perm, OpponentRank(m.index, size))
    BY <1>1, <2>1 DEF SeededRound0
  <2>3. IsBye(m.index, size, participant_count) \in BOOLEAN  BY DEF IsBye
  <2>4. /\ d.player_a # NoOne
        /\ ~IsBye(m.index, size, participant_count) => d.player_b # NoOne
    BY <1>2, <2>2
  <2>5. CASE d.bye = TRUE  BY <1>3, <1>4, <2>2, <2>4, <2>5 DEF SoundMatch
  <2>6. CASE d.bye = FALSE
    <3>1. ~IsBye(m.index, size, participant_count)  BY <2>2, <2>6
    <3>2. /\ d.player_b # NoOne
          /\ n.status = "Active" /\ n.bye = FALSE /\ n.winner = NoOne
          /\ n.player_a # NoOne /\ n.player_b # NoOne
      BY <1>3, <2>4, <2>6, <3>1
    <3>3. QED  BY <1>4, <3>1, <3>2 DEF SoundMatch
  <2>7. QED  BY <2>2, <2>3, <2>5, <2>6
<1>5. CASE m.round = 1
  <2>1. /\ d.bye = FALSE
        /\ d.player_a \in SeededRound1Slot(2 * m.index, size, perm)
        /\ d.player_b \in SeededRound1Slot(2 * m.index + 1, size, perm)
    <3>1. SeededDescriptors(m, size, perm) =
            [player_a : SeededRound1Slot(2 * m.index, size, perm),
             player_b : SeededRound1Slot(2 * m.index + 1, size, perm),
             bye      : {FALSE}]
      BY <1>5, 1 # 0, Zenon DEF SeededDescriptors
    <3>2. QED  BY <1>1, <3>1, NotABye, Zenon
  <2>2. QED  BY <1>3, <1>5, <2>1 DEF SoundMatch
<1>6. CASE m.round > 1
  <2>1. d.bye = FALSE /\ d.player_a = NoOne /\ d.player_b = NoOne
    <3>1. SeededDescriptors(m, size, perm) =
            [player_a : {NoOne}, player_b : {NoOne}, bye : {FALSE}]
      <4>1. m.round # 0 /\ m.round # 1  BY <1>6
      <4>2. QED  BY <4>1, Zenon DEF SeededDescriptors
    <3>2. d.bye = FALSE /\ d.player_a \in {NoOne} /\ d.player_b \in {NoOne}
      BY <1>1, <3>1, NotABye, Zenon
    <3>3. QED  BY <3>2, Zenon
  <2>2. QED  BY <1>3, <1>6, <2>1 DEF SoundMatch
<1>7. QED  BY <1>4, <1>5, <1>6

\* A bye and the slot it waits in are given to the one holder of a rank.
LEMMA DrawnMirrors ==
  ASSUME NumbersDiffer, NEW m \in Matches, NEW next \in Matches, FeedsInto(m, next),
         NEW size, NEW seed,
         NEW n \in DrawnNodes(m, size, seed), NEW o \in DrawnNodes(next, size, seed)
  PROVE  n.winner = IF IsLeftChild(m) THEN o.player_a ELSE o.player_b
<1> DEFINE perm == SeedPermutation(seed, participant_count)
           rank == m.index
<1>1. /\ m.round \in Nat /\ next.round = m.round + 1
      /\ rank \in Nat /\ next.index = rank \div 2 /\ next.index \in Nat
  BY MatchTypes DEF FeedsInto
<1>2. \A x, y \in Holders(perm, rank) : x = y
  BY DEF NumbersDiffer, Holders
<1> HIDE DEF perm
<1>3. CASE m.round = 0
  <2>1. n.winner \in SeededRound1Slot(rank, size, perm)
    BY <1>3, DrawnShape DEF SeededRound1Slot, perm
  <2>2. /\ o.player_a \in SeededRound1Slot(2 * next.index, size, perm)
        /\ o.player_b \in SeededRound1Slot(2 * next.index + 1, size, perm)
    BY <1>1, <1>3, DrawnShape DEF perm
  <2>3. rank = (IF IsLeftChild(m) THEN 2 * next.index ELSE 2 * next.index + 1)
    <3>1. \A x \in Nat : x = IF x % 2 = 0 THEN 2 * (x \div 2) ELSE 2 * (x \div 2) + 1
      BY SMT
    <3>2. QED  BY <1>1, <3>1 DEF IsLeftChild
  <2>4. (IF IsLeftChild(m) THEN o.player_a ELSE o.player_b) \in SeededRound1Slot(rank, size, perm)
    BY <2>2, <2>3
  <2>5. \A x, y \in SeededRound1Slot(rank, size, perm) : x = y
    BY <1>2 DEF SeededRound1Slot
  <2>6. QED  BY <2>1, <2>4, <2>5
<1>4. CASE m.round # 0
  <2>1. n.winner = NoOne /\ o.player_a = NoOne /\ o.player_b = NoOne
    BY <1>1, <1>4, DrawnShape
  <2>2. QED  BY <2>1
<1>5. QED  BY <1>3, <1>4

(***************************************************************************)
(* The instructions that write no match                                    *)
(***************************************************************************)
SameField ==
    /\ UNCHANGED <<participant_count, bracket_size, incarnation>>
    /\ \A p \in Players : /\ participant'[p].account = participant[p].account
                          /\ participant'[p].seed_index = participant[p].seed_index

LEMMA SameFieldSameDraw ==
  ASSUME SameField, NEW m, NEW size, NEW seed
  PROVE  /\ OpenParticipants' = OpenParticipants
         /\ DrawnNodes(m, size, seed)' = DrawnNodes(m, size, seed)
<1>1. OpenParticipants' = OpenParticipants  BY DEF SameField, OpenParticipants
<1>2. \A perm, rank : Holders(perm, rank)' = Holders(perm, rank)
  BY <1>1 DEF Holders, SameField, OpenParticipants
<1> DEFINE perm == SeedPermutation(seed, participant_count)
<1>3. participant_count' = participant_count  BY DEF SameField
<1>4. perm' = perm  BY <1>3
<1> HIDE DEF perm
<1>5. SeededDescriptors(m, size, perm)' = SeededDescriptors(m, size, perm)
  BY <1>2, <1>3, <1>4 DEF SeededDescriptors, SeededRound0, SeededRound1Slot
<1>6. QED  BY <1>1, <1>5 DEF DrawnNodes, perm

LEMMA QuietKeepsBracket ==
  ASSUME BracketInv, SameField, UNCHANGED node,
         status' = status \/ status' \in TerminalStatus,
         seed_hash' = seed_hash \/ status # "PendingBracketInit"
  PROVE  BracketInv'
<1>1. OpenNodes' = OpenNodes  BY DEF OpenNodes
<1>2. OpenParticipants' = OpenParticipants  BY SameFieldSameDraw
<1>3. NumbersDiffer'
  BY <1>2 DEF BracketInv, Field, NumbersDiffer, SameField, OpenParticipants
<1>4. NumbersTaken'
  BY <1>2 DEF BracketInv, Field, NumbersTaken, SameField, OpenParticipants, TerminalStatus
<1>5. NoLeftovers' /\ InBracket'
  BY <1>1 DEF BracketInv, Field, NoLeftovers, InBracket, SameField, TerminalStatus
<1>6. AsDrawn'
  <2> SUFFICES ASSUME status' = "PendingBracketInit", NEW m \in OpenNodes
               PROVE  node'[m] \in DrawnNodes(m, bracket_size, seed_hash)'
    BY <1>1 DEF AsDrawn
  <2>1. status = "PendingBracketInit" /\ seed_hash' = seed_hash /\ bracket_size' = bracket_size
    BY DEF TerminalStatus, SameField
  <2>2. node[m] \in DrawnNodes(m, bracket_size, seed_hash)
    BY <2>1 DEF BracketInv, Field, AsDrawn
  <2>3. DrawnNodes(m, bracket_size, seed_hash)' = DrawnNodes(m, bracket_size, seed_hash)
    BY <2>1, SameFieldSameDraw DEF DrawnNodes
  <2>4. QED  BY <2>2, <2>3
<1>7. Sound'  BY <1>1 DEF BracketInv, Sound, SoundMatch
<1>8. Mirrored'  BY <1>1 DEF BracketInv, Mirrored, Slot
<1>9. QED  BY <1>3, <1>4, <1>5, <1>6, <1>7, <1>8 DEF BracketInv, Field

\* create_tournament finds nothing at a PDA that was never used.
LEMMA CreateBracket ==
  ASSUME MaxIncarnations <= 1, Enrolled, BracketInv,
         NEW mode, NEW preset, CreateTournament(mode, preset)
  PROVE  BracketInv'
<1>1. incarnation = 0  BY ParametersAssumption DEF CreateTournament, Enrolled, TypeOK
<1>2. UNCHANGED node /\ status' = "Registration"  BY DEF CreateTournament, matches
<1>3. OpenNodes' = {}  BY <1>1, <1>2 DEF BracketInv, Field, NoLeftovers, OpenNodes
<1>4. OpenParticipants' = {}
  BY <1>1 DEF Enrolled, UnbornIsEmpty, CreateTournament, NoParticipant, OpenParticipants
<1>5. QED
  BY <1>2, <1>3, <1>4
  DEF BracketInv, Field, NumbersDiffer, NumbersTaken, NoLeftovers, InBracket, AsDrawn,
      Sound, Mirrored

\* join_tournament hands out the next number.
LEMMA JoinBracket ==
  ASSUME Enrolled, BracketInv, NEW p \in Players, JoinTournament(p)
  PROVE  BracketInv'
<1>1. /\ status = "Registration" /\ status' = "Registration" /\ UNCHANGED <<node, incarnation>>
      /\ participant_count \in Nat /\ participant_count' = participant_count + 1
  BY DEF JoinTournament, matches, Enrolled, TypeOK
<1>2. OpenNodes' = {}  BY <1>1 DEF BracketInv, Field, NoLeftovers, OpenNodes
<1>3. /\ participant'[p].seed_index = participant_count
      /\ \A q \in Players \ {p} : participant'[q] = participant[q]
  BY DEF JoinTournament, NoParticipant, Enrolled, TypeOK
<1>4. OpenParticipants' \subseteq OpenParticipants \cup {p} /\ p \notin OpenParticipants
  BY <1>3 DEF OpenParticipants, JoinTournament
<1>5. \A q \in OpenParticipants :
        /\ participant'[q] = participant[q] /\ q \in Players
        /\ participant[q].seed_index < participant_count /\ participant[q].seed_index \in Nat
  BY <1>1, <1>3, <1>4
  DEF BracketInv, Field, NumbersTaken, OpenParticipants, Enrolled, TypeOK, Participant
<1>6. NumbersDiffer'
  BY <1>1, <1>3, <1>4, <1>5 DEF BracketInv, Field, NumbersDiffer
<1>7. NumbersTaken'
  BY <1>1, <1>3, <1>4, <1>5 DEF NumbersTaken
<1>8. QED
  BY <1>1, <1>2, <1>6, <1>7
  DEF BracketInv, Field, NoLeftovers, InBracket, AsDrawn, Sound, Mirrored

(***************************************************************************)
(* start_tournament: whatever chunk is written, the bracket drawn so far   *)
(* is the one its seed stands for.                                         *)
(***************************************************************************)
LEMMA StartBracket ==
  ASSUME Validated, Enrolled, BracketInv,
         NEW ids \in SUBSET Matches, NEW size \in PowersOfTwo, NEW seed \in Seeds,
         StartTournament(ids, size, seed)
  PROVE  BracketInv'
<1>1. PICK draw \in SeededDraws(ids, size, seed) :
        node' = [m \in Matches |-> IF m \in ids THEN NewNode(draw[m]) ELSE node[m]]
  <2>1. incarnation > 0
    BY DEF StartTournament, DrawBracket, Enrolled, UnbornIsEmpty, TypeOK
  <2>2. Draws(ids, size, seed) = SeededDraws(ids, size, seed)
    BY <2>1 DEF Draws, Validated
  <2>3. QED  BY <2>2 DEF StartTournament
<1>2. /\ UNCHANGED <<participant, participant_count, incarnation>>
      /\ bracket_size' = size /\ seed_hash' = seed
      /\ status \in {"Registration", "PendingBracketInit"}
      /\ status' \in {"Active", "PendingBracketInit"}
      /\ ids \subseteq MatchIds(Lanes, size)
      /\ status = "PendingBracketInit" => size = bracket_size /\ seed = seed_hash
  BY DEF StartTournament, DrawBracket
<1>3. incarnation # 0  BY <1>2 DEF Enrolled, UnbornIsEmpty
<1>4. SameField \/ bracket_size' # bracket_size  BY <1>2 DEF SameField
<1>5. /\ OpenParticipants' = OpenParticipants
      /\ \A m : DrawnNodes(m, size, seed)' = DrawnNodes(m, size, seed)
  <2>1. OpenParticipants' = OpenParticipants  BY <1>2 DEF OpenParticipants
  <2>2. \A perm, rank : Holders(perm, rank)' = Holders(perm, rank)
    BY <1>2, <2>1 DEF Holders
  <2>3. \A m, perm : SeededDescriptors(m, size, perm)' = SeededDescriptors(m, size, perm)
    BY <1>2, <2>2 DEF SeededDescriptors, SeededRound0, SeededRound1Slot
  <2>4. QED  BY <1>2, <2>1, <2>3 DEF DrawnNodes
<1>6. \A m \in ids : node'[m] \in DrawnNodes(m, size, seed)
  BY <1>1 DEF SeededDraws, DrawnNodes
<1>7. \A m \in OpenNodes : node[m] \in DrawnNodes(m, size, seed)
  BY <1>2 DEF BracketInv, Field, NoLeftovers, AsDrawn
<1>8. OpenNodes' \subseteq OpenNodes \cup ids /\ OpenNodes' \subseteq Matches
  BY <1>1 DEF OpenNodes
<1>9. \A m \in OpenNodes' : node'[m] \in DrawnNodes(m, size, seed)
  BY <1>1, <1>6, <1>7, <1>8
<1>10. Sound'
  BY <1>8, <1>9, DrawnShape DEF Sound, SoundMatch
<1>11. Mirrored'
  <2> SUFFICES ASSUME NEW m \in OpenNodes', NEW next \in OpenNodes', FeedsInto(m, next)
               PROVE  node'[m].winner = Slot(next, IsLeftChild(m))'
    BY DEF Mirrored, FeedsInto
  <2>1. NumbersDiffer  BY DEF BracketInv, Field
  <2>2. m \in Matches /\ next \in Matches  BY <1>8
  <2>3. node'[m].winner = IF IsLeftChild(m) THEN node'[next].player_a ELSE node'[next].player_b
    BY <1>9, <2>1, <2>2, DrawnMirrors
  <2>4. QED  BY <2>3 DEF Slot, IsLeftChild
<1>12. InBracket'
  <2>1. OpenNodes \subseteq MatchIds(Lanes, size)
    BY <1>2 DEF BracketInv, Field, NoLeftovers, InBracket
  <2>2. QED  BY <1>2, <1>8, <2>1 DEF InBracket
<1>13. AsDrawn'
  BY <1>2, <1>5, <1>9 DEF AsDrawn, DrawnNodes
<1>14. NumbersDiffer' /\ NumbersTaken' /\ NoLeftovers'
  BY <1>2, <1>3, <1>5 DEF BracketInv, Field, NumbersDiffer, NumbersTaken, NoLeftovers
<1>15. QED  BY <1>10, <1>11, <1>12, <1>13, <1>14 DEF BracketInv, Field

(***************************************************************************)
(* finalize_match                                                          *)
(***************************************************************************)
\* A match that is playable has its two players and its slot is waiting.
LEMMA PlayableIsOpen ==
  ASSUME OneLane, Enrolled, BracketInv, NEW m \in Matches, Playable(m)
  PROVE  /\ m \in OpenNodes /\ node[m].winner = NoOne /\ ~node[m].bye
         /\ NoOne \notin PlayersOf(m)
         /\ \A next \in OpenNodes : FeedsInto(m, next) =>
              /\ node[next].status = "Pending" /\ node[next].winner = NoOne /\ ~node[next].bye
              /\ Slot(next, IsLeftChild(m)) = NoOne
<1>1. m \in OpenNodes  BY DEF Playable, OpenNodes
<1>2. node[m].winner = NoOne /\ ~node[m].bye /\ NoOne \notin PlayersOf(m)
  BY <1>1 DEF BracketInv, Sound, SoundMatch, PlayersOf, Playable
<1>3. ASSUME NEW next \in OpenNodes, FeedsInto(m, next)
      PROVE  /\ node[next].status = "Pending" /\ node[next].winner = NoOne /\ ~node[next].bye
             /\ Slot(next, IsLeftChild(m)) = NoOne
  <2>1. Slot(next, IsLeftChild(m)) = NoOne
    BY <1>1, <1>2, <1>3 DEF BracketInv, Mirrored
  <2>2. node[next].player_a = NoOne \/ node[next].player_b = NoOne
    BY <2>1 DEF Slot
  <2>3. next \in Matches /\ next.round > 0
    BY <1>3, OneFeeder DEF OpenNodes
  <2>4. node[next].status \in {"Pending", "Active", "Completed"}
    BY <2>3 DEF Enrolled, TypeOK, MatchNode, OpenNodes
  <2>5. SoundMatch(node[next], next.round)  BY DEF BracketInv, Sound
  <2>6. node[next].status = "Pending"
    BY <2>2, <2>3, <2>4, <2>5 DEF SoundMatch
  <2>7. QED  BY <2>1, <2>5, <2>6 DEF SoundMatch
<1>4. QED  BY <1>1, <1>2, <1>3

LEMMA FinalizeBracket ==
  ASSUME OneLane, Enrolled, BracketInv, TypeOK',
         NEW m \in Matches, NEW winner, NEW trusted, NEW signer,
         FinalizeMatch(m, winner, trusted, signer)
  PROVE  /\ OpenNodes' = OpenNodes /\ Sound' /\ Mirrored'
         /\ \A n \in Matches : node[n].status = "Completed" => node'[n] = node[n]
<1>1. /\ m \in OpenNodes /\ node[m].winner = NoOne /\ ~node[m].bye
      /\ node[m].status = "Active" /\ NoOne \notin PlayersOf(m) /\ winner \in PlayersOf(m)
      /\ status = "Active"
  BY PlayableIsOpen DEF FinalizeMatch, Playable
<1>2. TypeOK /\ node \in [Matches -> MatchNode]  BY DEF Enrolled, TypeOK
<1>3. /\ Decided(node[m], winner).status = "Completed"
      /\ Decided(node[m], winner).player_a = node[m].player_a
      /\ Decided(node[m], winner).player_b = node[m].player_b
      /\ Decided(node[m], winner).winner = winner
      /\ Decided(node[m], winner).bye = node[m].bye
  BY <1>2 DEF Decided, MatchNode
<1>4. SoundMatch(Decided(node[m], winner), m.round)
  BY <1>1, <1>3 DEF SoundMatch, PlayersOf
<1>5. OpenNodes \subseteq Matches  BY DEF OpenNodes
<1>6. CASE IsFinal(m, bracket_size) /\ CompleteTournament(m, winner, trusted)
  <2>1. node' = [node EXCEPT ![m] = Decided(@, winner)]
    BY <1>6 DEF CompleteTournament
  <2>2. node'[m] = Decided(node[m], winner) /\ \A n \in Matches \ {m} : node'[n] = node[n]
    BY <1>2, <2>1
  <2>3. OpenNodes' = OpenNodes
    BY <1>1, <1>3, <2>2 DEF OpenNodes
  <2>4. Sound'
    BY <1>4, <1>5, <2>2, <2>3 DEF BracketInv, Sound, SoundMatch
  <2>5. \A next \in OpenNodes : ~FeedsInto(m, next)
    BY <1>1, <1>6, FinalIsLast DEF BracketInv, Field, InBracket
  <2>6. Mirrored'
    <3> SUFFICES ASSUME NEW a \in OpenNodes, NEW b \in OpenNodes, FeedsInto(a, b)
                 PROVE  node'[a].winner = Slot(b, IsLeftChild(a))'
      BY <2>3 DEF Mirrored, FeedsInto
    <3>1. a # m  BY <2>5
    <3>2. node'[a] = node[a]  BY <1>5, <2>2, <3>1
    <3>3. node'[b].player_a = node[b].player_a /\ node'[b].player_b = node[b].player_b
      BY <1>3, <1>5, <2>2
    <3>4. QED  BY <3>2, <3>3 DEF BracketInv, Mirrored, Slot, IsLeftChild
  <2>7. QED  BY <1>1, <2>2, <2>3, <2>4, <2>6
<1>7. CASE AdvanceWinner(m, winner)
  <2>1. PICK next \in OpenNodes :
          /\ FeedsInto(m, next)
          /\ node' = [node EXCEPT ![m] = Decided(@, winner),
                                  ![next] = Seated(@, IsLeftChild(m), winner)]
    BY <1>7 DEF AdvanceWinner
  <2>2. /\ node[next].status = "Pending" /\ node[next].winner = NoOne /\ ~node[next].bye
        /\ Slot(next, IsLeftChild(m)) = NoOne
    BY <2>1, PlayableIsOpen DEF FinalizeMatch
  <2>3. next # m /\ next \in Matches  BY <1>1, <1>5, <2>2
  <2>4. /\ node'[m] = Decided(node[m], winner)
        /\ node'[next] = Seated(node[next], IsLeftChild(m), winner)
        /\ \A n \in Matches \ {m, next} : node'[n] = node[n]
    BY <1>2, <2>1, <2>3
  <2>5. /\ node'[next].status \in {"Pending", "Active"}
        /\ node'[next].winner = NoOne /\ ~node'[next].bye
        /\ Slot(next, IsLeftChild(m))' = winner
        /\ Slot(next, ~IsLeftChild(m))' = Slot(next, ~IsLeftChild(m))
        /\ (node'[next].status = "Active") <=>
             (node'[next].player_a # NoOne /\ node'[next].player_b # NoOne)
    BY <1>2, <2>2, <2>3, <2>4 DEF Seated, Slot, MatchNode, IsLeftChild
  <2>6. OpenNodes' = OpenNodes
    <3>1. node'[m].status # "Absent"  BY <1>3, <2>4
    <3>2. node'[next].status # "Absent" /\ next \in OpenNodes  BY <2>1, <2>5
    <3>3. \A n \in Matches : (node'[n].status # "Absent") <=> (node[n].status # "Absent")
      BY <1>1, <2>2, <2>4, <3>1, <3>2
    <3>4. QED  BY <3>3 DEF OpenNodes
  <2>7. Sound'
    <3>1. SoundMatch(node'[next], next.round)
      <4>1. next.round # 0  BY <2>1, <2>3, OneFeeder, MatchTypes
      <4>2. QED  BY <2>5, <4>1 DEF SoundMatch
    <3>2. \A n \in OpenNodes : SoundMatch(node'[n], n.round)
      BY <1>4, <1>5, <2>4, <3>1 DEF BracketInv, Sound
    <3>3. QED  BY <2>6, <3>2 DEF Sound, SoundMatch
  <2>8. Mirrored'
    <3> SUFFICES ASSUME NEW a \in OpenNodes, NEW b \in OpenNodes, FeedsInto(a, b)
                 PROVE  node'[a].winner = Slot(b, IsLeftChild(a))'
      BY <2>6 DEF Mirrored, FeedsInto
    <3> a \in Matches /\ b \in Matches  BY <1>5
    <3>1. node[a].winner = Slot(b, IsLeftChild(a))  BY DEF BracketInv, Mirrored
    <3>2. CASE a = m
      <4>1. b = next  BY <2>1, <2>3, <3>2, OneFeeder
      <4>2. QED  BY <1>3, <2>4, <2>5, <3>2, <4>1 DEF IsLeftChild
    <3>3. CASE a # m /\ b = next
      <4>1. ~(IsLeftChild(a) <=> IsLeftChild(m))
        BY <2>1, <2>3, <3>3, OneFeeder
      <4>2. a # next  BY <3>3, OneFeeder
      <4>3. node'[a] = node[a]  BY <2>4, <3>3, <4>2
      <4>4. Slot(next, IsLeftChild(a))' = Slot(next, IsLeftChild(a))
        BY <2>5, <4>1 DEF Slot, IsLeftChild
      <4>5. QED  BY <3>1, <3>3, <4>3, <4>4
    <3>4. CASE a # m /\ b # next
      <4>1. node'[a].winner = node[a].winner  BY <2>2, <2>4, <2>5, <3>4
      <4>2. node'[b].player_a = node[b].player_a /\ node'[b].player_b = node[b].player_b
        BY <1>3, <2>4, <3>4
      <4>3. QED  BY <3>1, <4>1, <4>2 DEF Slot, IsLeftChild
    <3>5. QED  BY <3>2, <3>3, <3>4
  <2>9. QED  BY <1>1, <2>2, <2>4, <2>6, <2>7, <2>8
<1>8. QED  BY <1>6, <1>7 DEF FinalizeMatch

\* The stats credited with a result renumber nobody.
LEMMA DecidedBracket ==
  ASSUME OneLane, Enrolled, BracketInv, TypeOK',
         NEW m \in Matches, NEW winner, NEW trusted, NEW signer,
         FinalizeMatch(m, winner, trusted, signer),
         UNCHANGED participant \/ CreditMatchStats(m, winner)
  PROVE  BracketInv' /\ \A n \in Matches : node[n].status = "Completed" => KeptOrClosed(n)
<1>1. /\ OpenNodes' = OpenNodes /\ Sound' /\ Mirrored'
      /\ \A n \in Matches : node[n].status = "Completed" => node'[n] = node[n]
  BY FinalizeBracket
<1>2. /\ UNCHANGED <<participant_count, bracket_size, incarnation>>
      /\ status = "Active" /\ status' \in {"Active", "Completed"}
  BY FinalizeWrites DEF FinalizeMatch, Enrolled
<1>3. \A p \in Players : /\ participant'[p].account = participant[p].account
                         /\ participant'[p].seed_index = participant[p].seed_index
  BY DEF CreditMatchStats, Enrolled, TypeOK, Participant
<1>4. SameField  BY <1>2, <1>3 DEF SameField
<1>5. OpenParticipants' = OpenParticipants  BY <1>3 DEF OpenParticipants
<1>6. NumbersDiffer' /\ NumbersTaken'
  BY <1>2, <1>3, <1>5 DEF BracketInv, Field, NumbersDiffer, NumbersTaken, OpenParticipants
<1>7. NoLeftovers' /\ InBracket' /\ AsDrawn'
  BY <1>1, <1>2 DEF BracketInv, Field, NoLeftovers, InBracket, AsDrawn
<1>8. QED  BY <1>1, <1>6, <1>7 DEF BracketInv, Field, KeptOrClosed

LEMMA SettlementBracket ==
  ASSUME OneLane, Enrolled, BracketInv, TypeOK', NEW m \in Matches, SettlementStep(m)
  PROVE  BracketInv' /\ \A n \in Matches : node[n].status = "Completed" => KeptOrClosed(n)
<1>1. CASE \/ \E w \in Wallets : ReportResult(m, w)
           \/ \E p \in Players : ConfirmResult(m, p)
           \/ \E w \in Players : ResolveDispute(m, w)
           \/ ClaimResult(m) \/ ForceClaimDisputed(m) \/ SettleFinal(m)
  <2>1. \E winner, trusted, signer :
          /\ FinalizeMatch(m, winner, trusted, signer)
          /\ UNCHANGED participant \/ CreditMatchStats(m, winner)
    BY <1>1 DEF ReportResult, ConfirmResult, ResolveDispute, ClaimResult,
                ForceClaimDisputed, SettleFinal, Settle
  <2>2. QED  BY <2>1, DecidedBracket
<1>2. CASE \/ \E p, w \in Players : ProposeResult(m, p, w)
           \/ \E w \in Signers : DisputeResult(m, w)
           \/ CommitMatchLobby(m) \/ BindMatchFeed(m)
           \/ \E relayer \in Signers, value \in FeedValues :
                 ProposeResultOracle(m, relayer, value)
  <2>1. UNCHANGED <<tournament, participant, node, incarnation>>
    BY <1>2 DEF ProposeResult, ProposeResultOracle, Propose, DisputeResult,
                CommitMatchLobby, BindMatchFeed
  <2>2. SameField /\ status' = status /\ seed_hash' = seed_hash
    BY <2>1 DEF SameField, tournament, counters, seeding
  <2>3. QED  BY <2>1, <2>2, QuietKeepsBracket DEF KeptOrClosed
<1>3. QED  BY <1>1, <1>2 DEF SettlementStep

\* close_tournament takes matches and entrants away, and no numbers.
LEMMA CloseBracket ==
  ASSUME Enrolled, BracketInv, NEW players, NEW nodes \in SUBSET Matches, NEW closeRoot,
         CloseTournament(players, nodes, closeRoot)
  PROVE  BracketInv' /\ \A n \in Matches : KeptOrClosed(n)
<1>1. /\ \A m \in nodes : node'[m] = NoNode
      /\ \A m \in Matches \ nodes : node'[m] = node[m]
  BY CloseWrites DEF Enrolled
<1>2. OpenNodes' = OpenNodes \ nodes
  BY <1>1 DEF OpenNodes, NoNode
<1>3. \A m \in OpenNodes' : m \in OpenNodes /\ node'[m] = node[m]
  BY <1>1, <1>2 DEF OpenNodes
<1>4. /\ status \in TerminalStatus /\ status' \in TerminalStatus \cup {"None"}
      /\ incarnation' = incarnation
  BY DEF CloseTournament, NoTournament
<1>5. \A p \in OpenParticipants' :
        p \in OpenParticipants /\ participant'[p].seed_index = participant[p].seed_index
  BY DEF CloseTournament, CloseChildren, OpenParticipants, Enrolled, TypeOK, Participant
<1>6. NumbersDiffer'
  BY <1>5 DEF BracketInv, Field, NumbersDiffer
<1>7. NumbersTaken' /\ NoLeftovers' /\ InBracket' /\ AsDrawn'
  BY <1>2, <1>4
  DEF BracketInv, Field, NumbersTaken, NoLeftovers, InBracket, AsDrawn, TerminalStatus
<1>8. Sound'  BY <1>3 DEF BracketInv, Sound, SoundMatch
<1>9. Mirrored'  BY <1>3 DEF BracketInv, Mirrored, Slot, FeedsInto, IsLeftChild
<1>10. QED  BY <1>1, <1>6, <1>7, <1>8, <1>9 DEF BracketInv, Field, KeptOrClosed

LEMMA LifecycleBracket ==
  ASSUME MaxIncarnations <= 1, Validated, Enrolled, DrawnMeansSealed, BracketInv,
         LifecycleStep
  PROVE  BracketInv' /\ \A n \in Matches : node[n].status = "Completed" => KeptOrClosed(n)
<1>1. CASE \/ \E mode \in Modes, preset \in Presets : CreateTournament(mode, preset)
           \/ \E p \in Players : JoinTournament(p)
  <2>1. UNCHANGED node  BY <1>1 DEF CreateTournament, JoinTournament, matches
  <2>2. QED  BY <1>1, <2>1, CreateBracket, JoinBracket DEF KeptOrClosed
<1>2. CASE RequestSeed \/ \E seed \in Seeds : RevealSeed(seed)
  <2>1. SameField /\ UNCHANGED <<node, status>>
    BY <1>2 DEF RequestSeed, RevealSeed, SameField, counters, matches
  <2>2. seed_hash' = seed_hash \/ status # "PendingBracketInit"
    <3>1. status = "PendingBracketInit" => bracket_size # 0
      BY PowersListed DEF BracketInv, Field, InBracket
    <3>2. QED  BY <1>2, <3>1 DEF RequestSeed, RevealSeed, DrawnMeansSealed
  <2>3. QED  BY <2>1, <2>2, QuietKeepsBracket DEF KeptOrClosed
<1>3. ASSUME NEW ids \in SUBSET Matches, NEW size \in PowersOfTwo, NEW seed \in Seeds,
             StartTournament(ids, size, seed)
      PROVE  BracketInv' /\ \A n \in Matches : node[n].status = "Completed" => KeptOrClosed(n)
  <2>1. \A n \in Matches : node[n].status = "Completed" => KeptOrClosed(n)
    BY <1>3, StartWrites DEF Enrolled, KeptOrClosed
  <2>2. QED  BY <1>3, <2>1, StartBracket
<1>4. CASE \/ PartialCancelTournament
           \/ \E chunk \in SUBSET Players, withDeposit \in BOOLEAN :
                 \/ \E caller \in {Organizer, Relayer} :
                       CancelTournament(caller, chunk, withDeposit)
                 \/ PartialRefundChunk(chunk, withDeposit)
  <2>1. /\ UNCHANGED <<node, participant_count, bracket_size, seed_hash, incarnation>>
        /\ status' \in TerminalStatus
    BY <1>4 DEF PartialCancelTournament, CancelTournament, PartialRefundChunk, tournament,
                counters, seeding, matches, TerminalStatus
  <2>2. \A p \in Players : /\ participant'[p].account = participant[p].account
                           /\ participant'[p].seed_index = participant[p].seed_index
    <3>1. UNCHANGED participant \/ \E chunk, withDeposit : RefundChunk(chunk, withDeposit)
      BY <1>4 DEF PartialCancelTournament, CancelTournament, PartialRefundChunk
    <3>2. QED  BY <3>1 DEF RefundChunk, Enrolled, TypeOK, Participant
  <2>3. SameField  BY <2>1, <2>2 DEF SameField
  <2>4. QED  BY <2>1, <2>3, QuietKeepsBracket DEF KeptOrClosed
<1>5. ASSUME NEW players \in SUBSET Players, NEW nodes \in SUBSET Matches, NEW closeRoot \in BOOLEAN,
             CloseTournament(players, nodes, closeRoot)
      PROVE  BracketInv' /\ \A n \in Matches : node[n].status = "Completed" => KeptOrClosed(n)
  BY <1>5, CloseBracket
<1>6. QED  BY <1>1, <1>2, <1>3, <1>4, <1>5 DEF LifecycleStep

LEMMA StepBracket ==
  ASSUME MaxIncarnations <= 1, Validated, OneLane,
         Enrolled, DrawnMeansSealed, BracketInv, TypeOK', [Next]_vars
  PROVE  BracketInv' /\ \A n \in Matches : node[n].status = "Completed" => KeptOrClosed(n)
<1>1. CASE Tick \/ UNCHANGED vars
  <2>1. SameField /\ UNCHANGED <<node, status, seed_hash>>
    BY <1>1 DEF Tick, vars, tournament, matches, counters, seeding, SameField
  <2>2. QED  BY <2>1, QuietKeepsBracket DEF KeptOrClosed
<1>2. CASE LifecycleStep  BY <1>2, LifecycleBracket
<1>3. CASE \E m \in Matches : SettlementStep(m)  BY <1>3, SettlementBracket
<1>4. QED  BY <1>1, <1>2, <1>3 DEF Next

LEMMA InitBracket == Init => BracketInv
<1> SUFFICES ASSUME Init  PROVE BracketInv
  OBVIOUS
<1>1. OpenNodes = {}  BY DEF Init, OpenNodes, NoNode
<1>2. OpenParticipants = {}  BY DEF Init, OpenParticipants, NoParticipant
<1>3. status = "None"  BY DEF Init
<1>4. QED
  BY <1>1, <1>2, <1>3
  DEF BracketInv, Field, NumbersDiffer, NumbersTaken, NoLeftovers, InBracket, AsDrawn,
      Sound, Mirrored

\* No instruction changes the mode of a tournament, so it was validated before.
LEMMA ValidatedBefore ==
  ASSUME MaxIncarnations <= 1, TypeOK, [Next]_vars, Validated'
  PROVE  Validated
<1> SUFFICES ASSUME incarnation > 0, settlement_mode = "OrganizerOnly"
             PROVE  FreeEntrants = {}
  BY DEF Validated
<1>1. incarnation \in Nat  BY DEF TypeOK
<1>2. UNCHANGED <<terms, incarnation>>
  <2>1. CASE Tick \/ UNCHANGED vars  BY <2>1 DEF Tick, vars, tournament
  <2>2. CASE LifecycleStep
    BY <1>1, <2>2, ParametersAssumption
    DEF LifecycleStep, CreateTournament, JoinTournament, RequestSeed, RevealSeed, StartTournament,
        PartialCancelTournament, CancelTournament, PartialRefundChunk, CloseTournament, tournament
  <2>3. CASE \E m \in Matches : SettlementStep(m)
    <3>1. PICK m \in Matches : SettlementStep(m)  BY <2>3
    <3>2. CASE \E winner, trusted, signer : FinalizeMatch(m, winner, trusted, signer)
      BY <3>2, FinalizeWrites DEF FinalizeMatch
    <3>3. CASE UNCHANGED <<tournament, incarnation>>  BY <3>3 DEF tournament
    <3>4. QED
      BY <3>1, <3>2, <3>3
      DEF SettlementStep, ReportResult, ConfirmResult, ResolveDispute, ClaimResult,
          ForceClaimDisputed, SettleFinal, Settle, ProposeResult, ProposeResultOracle,
          DisputeResult, CommitMatchLobby, BindMatchFeed
  <2>4. QED  BY <2>1, <2>2, <2>3 DEF Next
<1>3. QED  BY <1>2 DEF terms, Validated

(***************************************************************************)
(* In a bracket of one lane, drawn by the seed, every slot holds its       *)
(* feeder's winner and every match waits for exactly the players it lacks, *)
(* for every field, seed, order of chunks and order of results.            *)
(***************************************************************************)
THEOREM BracketInvariant ==
  ASSUME MaxIncarnations <= 1, OneLane
  PROVE  Spec => [](Enrolled /\ DrawnMeansSealed /\ (Validated => BracketInv))
<1>1. Init => BracketInv /\ DrawnMeansSealed
  <2>1. Init => DrawnMeansSealed  BY Zenon DEF Init, DrawnMeansSealed
  <2>2. QED  BY <2>1, InitBracket
<1>2. TypeOK /\ DrawnMeansSealed /\ [Next]_vars => DrawnMeansSealed'
  BY StepDraw
<1>3. Validated /\ Enrolled /\ DrawnMeansSealed /\ BracketInv /\ TypeOK' /\ [Next]_vars
        => BracketInv'
  BY StepBracket
<1>4. MoneyInv => Enrolled  BY DEF MoneyInv, Enrolled
<1>5. TypeOK /\ [Next]_vars /\ Validated' => Validated  BY ValidatedBefore
<1>6. QED  BY <1>1, <1>2, <1>3, <1>4, <1>5, TypeCorrect, MoneyInvariant, PTL DEF Spec

LEMMA SlotsMirror ==
  ASSUME Enrolled, BracketInv
  PROVE  SlotsMirrorFeeders
<1>1. \A m, next \in OpenNodes :
        FeedsInto(m, next) => node[m].winner = Slot(next, IsLeftChild(m))
  BY DEF BracketInv, Mirrored
<1>2. \A m \in Undecided : node[m].status \in {"Pending", "Active"}
  BY DEF Undecided, OpenNodes, Enrolled, TypeOK, MatchNode
<1>3. \A m \in Undecided : (node[m].status = "Active") <=> (NoOne \notin PlayersOf(m))
  BY <1>2 DEF BracketInv, Sound, SoundMatch, PlayersOf, Undecided
<1>4. QED  BY <1>1, <1>3 DEF SlotsMirrorFeeders, Slot

(***************************************************************************)
(* In a started bracket a slot is empty until its feeder is decided and    *)
(* holds the feeder's winner from then on, and a match is playable exactly *)
(* when both its slots are taken.                                          *)
(***************************************************************************)
THEOREM WinnersMoveUp ==
  ASSUME MaxIncarnations <= 1, OneLane
  PROVE  Spec => []SlotsMirrorFeeders
<1>1. Enrolled /\ (Validated => BracketInv) => SlotsMirrorFeeders
  <2>1. CASE Validated  BY <2>1, SlotsMirror
  <2>2. CASE ~Validated  BY <2>2, SeededIsValidated DEF SlotsMirrorFeeders
  <2>3. QED  BY <2>1, <2>2
<1>2. QED  BY <1>1, BracketInvariant, PTL

(***************************************************************************)
(* A decided match of a seeded draw stays as it is until its account is    *)
(* closed: a slot that waits belongs to an undecided match, so no winner   *)
(* moving up lands on a decided one, though advance_winner reads neither   *)
(* slot nor status.  Seeded is every draw that start_tournament validates, *)
(* and in OrganizerOnly mode, where it validates none, that of an organizer*)
(* who sends what the SDK builds.                                          *)
(***************************************************************************)
THEOREM ResultsAreIrrevocable ==
  ASSUME MaxIncarnations <= 1, OneLane
  PROVE  Spec => ReportedIsIrrevocable
<1>1. ASSUME Enrolled, DrawnMeansSealed, Validated => BracketInv, TypeOK', [Next]_vars
      PROVE  [\A m \in Matches :
                DrawIsSeeded /\ node[m].status = "Completed" => KeptOrClosed(m)]_vars
  <2>1. CASE DrawIsSeeded
    <3>1. Validated  BY <2>1, SeededIsValidated
    <3>2. QED  BY <1>1, <3>1, StepBracket
  <2>2. CASE ~DrawIsSeeded  BY <2>2
  <2>3. QED  BY <2>1, <2>2
<1>2. QED
  BY <1>1, BracketInvariant, TypeCorrect, PTL DEF Spec, ReportedIsIrrevocable

(***************************************************************************)
(* Who places the lower places                                             *)
(***************************************************************************)
LEMMA FinalizePlaces ==
  ASSUME OneLane, TypeOK, NEW m \in Matches, NEW winner, NEW trusted \in BOOLEAN, NEW signer,
         FinalizeMatch(m, winner, trusted, signer), trusted => signer = Organizer
  PROVE  PlacesNeedTheOrganizer'
<1> SUFFICES ASSUME status' = "Completed", placement_count(payout_preset') > 1,
                    NEW n \in OpenNodes', IsFinal(n, bracket_size')
             PROVE  settledBy'[n] = Organizer
  BY DEF PlacesNeedTheOrganizer, IsFinal, MaxRound, placement_count, basis_points
<1>1. /\ UNCHANGED <<bracket_size, payout_preset>> /\ status = "Active"
      /\ settledBy'[m] = signer
  BY FinalizeWrites DEF FinalizeMatch, terms
<1>2. IsFinal(m, bracket_size) /\ CompleteTournament(m, winner, trusted)
  BY <1>1 DEF FinalizeMatch, AdvanceWinner
<1>3. trusted
  <2>1. MayPlace(trusted)  BY <1>2 DEF CompleteTournament
  <2>2. placement_count(payout_preset) > 1  BY <1>1
  <2>3. ~(placement_count(payout_preset) <= 1)
    <3>1. placement_count(payout_preset) \in Nat
      <4>1. {i \in Slots : basis_points(payout_preset)[i] > 0} \in SUBSET Slots  OBVIOUS
      <4>2. IsFiniteSet(Slots)
        <5>1. MAX_PAYOUT_SLOTS \in Int  BY DEF MAX_PAYOUT_SLOTS
        <5>2. QED  BY <5>1, FS_Interval DEF Slots
      <4>3. QED  BY <4>1, <4>2, FS_Subset, FS_CardinalityType DEF placement_count
    <3>2. QED  BY <2>2, <3>1
  <2>4. QED  BY <2>1, <2>3 DEF MayPlace
<1>4. n \in Matches /\ IsFinal(n, bracket_size)
  BY <1>1 DEF OpenNodes
<1>5. n = m  BY <1>2, <1>4, OneFinal
<1>6. QED  BY <1>1, <1>3, <1>5

LEMMA SettlementPlaces ==
  ASSUME OneLane, TypeOK, PlacesNeedTheOrganizer, NEW m \in Matches, SettlementStep(m)
  PROVE  PlacesNeedTheOrganizer'
<1>1. CASE \/ \E w \in Wallets : ReportResult(m, w)
           \/ \E w \in Players : ResolveDispute(m, w)
           \/ SettleFinal(m)
  <2>1. \E winner : FinalizeMatch(m, winner, TRUE, Organizer)
    BY <1>1 DEF ReportResult, ResolveDispute, SettleFinal, Settle
  <2>2. QED  BY <2>1, FinalizePlaces
<1>2. CASE (\E p \in Players : ConfirmResult(m, p)) \/ ClaimResult(m) \/ ForceClaimDisputed(m)
  <2>1. \E winner, signer : FinalizeMatch(m, winner, FALSE, signer)
    BY <1>2 DEF ConfirmResult, ClaimResult, ForceClaimDisputed, Settle
  <2>2. QED  BY <2>1, FinalizePlaces
<1>3. CASE \/ \E p, w \in Players : ProposeResult(m, p, w)
           \/ \E w \in Signers : DisputeResult(m, w)
           \/ CommitMatchLobby(m) \/ BindMatchFeed(m)
           \/ \E relayer \in Signers, value \in FeedValues :
                 ProposeResultOracle(m, relayer, value)
  <2>1. UNCHANGED <<status, payout_preset, bracket_size, node, settledBy>>
    BY <1>3 DEF ProposeResult, ProposeResultOracle, Propose, DisputeResult,
                CommitMatchLobby, BindMatchFeed, tournament, terms, counters
  <2>2. QED  BY <2>1 DEF PlacesNeedTheOrganizer, OpenNodes
<1>4. QED  BY <1>1, <1>2, <1>3 DEF SettlementStep

LEMMA LifecyclePlaces ==
  ASSUME TypeOK, PlacesNeedTheOrganizer, LifecycleStep
  PROVE  PlacesNeedTheOrganizer'
<1>1. CASE RequestSeed \/ \E seed \in Seeds : RevealSeed(seed)
  <2>1. UNCHANGED <<status, payout_preset, bracket_size, node, settledBy>>
    BY <1>1 DEF RequestSeed, RevealSeed, terms, counters, matches
  <2>2. QED  BY <2>1 DEF PlacesNeedTheOrganizer, OpenNodes
<1>2. CASE \/ \E mode \in Modes, preset \in Presets : CreateTournament(mode, preset)
           \/ \E p \in Players : JoinTournament(p)
           \/ \E ids \in SUBSET Matches, size \in PowersOfTwo, seed \in Seeds :
                 StartTournament(ids, size, seed)
           \/ PartialCancelTournament
           \/ \E chunk \in SUBSET Players, withDeposit \in BOOLEAN :
                 \/ \E caller \in {Organizer, Relayer} :
                       CancelTournament(caller, chunk, withDeposit)
                 \/ PartialRefundChunk(chunk, withDeposit)
  <2>1. status' # "Completed"
    BY <1>2 DEF CreateTournament, JoinTournament, StartTournament, PartialCancelTournament,
                CancelTournament, PartialRefundChunk, tournament
  <2>2. QED  BY <2>1 DEF PlacesNeedTheOrganizer
<1>3. ASSUME NEW players \in SUBSET Players, NEW nodes \in SUBSET Matches, NEW closeRoot \in BOOLEAN,
             CloseTournament(players, nodes, closeRoot)
      PROVE  PlacesNeedTheOrganizer'
  <2>1. CASE status' # "Completed"  BY <2>1 DEF PlacesNeedTheOrganizer
  <2>2. CASE status' = "Completed"
    <3>1. UNCHANGED <<status, payout_preset, bracket_size>>
      BY <1>3, <2>2 DEF CloseTournament, NoTournament, terms, counters
    <3>2. /\ OpenNodes' \subseteq OpenNodes
          /\ \A m \in OpenNodes' : settledBy'[m] = settledBy[m]
      BY <1>3 DEF CloseTournament, CloseChildren, OpenNodes, NoNode
    <3>3. QED  BY <3>1, <3>2 DEF PlacesNeedTheOrganizer
  <2>3. QED  BY <2>1, <2>2
<1>4. QED  BY <1>1, <1>2, <1>3 DEF LifecycleStep

(***************************************************************************)
(* A preset of more than one place is only ever paid out by a settlement   *)
(* the organizer or arbitrator signed, by whatever path the final gets     *)
(* there and however often the PDA is created.                             *)
(***************************************************************************)
THEOREM TheOrganizerPlaces ==
  ASSUME OneLane
  PROVE  Spec => []PlacesNeedTheOrganizer
<1>1. Init => PlacesNeedTheOrganizer
  BY DEF Init, PlacesNeedTheOrganizer
<1>2. TypeOK /\ PlacesNeedTheOrganizer /\ [Next]_vars => PlacesNeedTheOrganizer'
  <2> SUFFICES ASSUME TypeOK, PlacesNeedTheOrganizer, [Next]_vars
               PROVE  PlacesNeedTheOrganizer'
    OBVIOUS
  <2>1. CASE Tick \/ UNCHANGED vars
    <3>1. UNCHANGED <<status, payout_preset, bracket_size, node, settledBy>>
      BY <2>1 DEF Tick, vars, tournament, terms, counters, matches
    <3>2. QED  BY <3>1 DEF PlacesNeedTheOrganizer, OpenNodes
  <2>2. CASE LifecycleStep  BY <2>2, LifecyclePlaces
  <2>3. CASE \E m \in Matches : SettlementStep(m)  BY <2>3, SettlementPlaces
  <2>4. QED  BY <2>1, <2>2, <2>3 DEF Next
<1>3. QED  BY <1>1, <1>2, TypeCorrect, PTL DEF Spec

(***************************************************************************)
(* The counters, and why an Active bracket always has a match to play: its *)
(* final is undecided, so there is an undecided match of the lowest round, *)
(* and its feeders are decided and have filled its slots.                  *)
(***************************************************************************)
FieldFits == participant_count <= MaxParticipants

Counted ==
    status \in {"PendingBracketInit", "Active"} =>
        /\ matches_initialized = Cardinality(OpenNodes)
        /\ matches_reported = Cardinality(OpenNodes \ Undecided)
        /\ status = "Active" <=> OpenNodes = MatchIds(Lanes, bracket_size)

Tallied ==
    /\ status \in {"None", "Registration"} => matches_initialized = 0 /\ matches_reported = 0
    /\ Counted

FinalIsOpen ==
    status \in {"PendingBracketInit", "Active"} =>
        /\ participant_count >= 2 /\ bracket_size >= 2
        /\ \A m \in OpenNodes : IsFinal(m, bracket_size) => node[m].status # "Completed"

BoardInv == FieldFits /\ Tallied /\ FinalIsOpen

LEMMA QuietKeepsBoard ==
  ASSUME BoardInv, FieldFits',
         UNCHANGED <<node, bracket_size, matches_initialized, matches_reported>>,
         \/ status' = status /\ (participant_count' = participant_count \/ status = "Registration")
         \/ status' \in TerminalStatus
         \/ status = "None" /\ status' = "Registration"
  PROVE  BoardInv'
<1>1. OpenNodes' = OpenNodes /\ Undecided' = Undecided
  BY DEF OpenNodes, Undecided
<1>2. Tallied'
  <2>1. CASE status' \in {"PendingBracketInit", "Active"}
    <3>1. status' = status  BY <2>1 DEF TerminalStatus
    <3>2. Counted'
      BY <1>1, <2>1, <3>1 DEF BoardInv, Tallied, Counted
    <3>3. QED  BY <2>1, <3>2 DEF Tallied
  <2>2. CASE status' \notin {"PendingBracketInit", "Active"}
    BY <2>2 DEF BoardInv, Tallied, Counted, TerminalStatus
  <2>3. QED  BY <2>1, <2>2
<1>3. FinalIsOpen'
  BY <1>1 DEF BoardInv, FinalIsOpen, TerminalStatus
<1>4. QED  BY <1>2, <1>3 DEF BoardInv

LEMMA DisjointUnion ==
  ASSUME NEW S, NEW T, IsFiniteSet(S), IsFiniteSet(T), \A x \in S : x \notin T
  PROVE  Cardinality(S \cup T) = Cardinality(S) + Cardinality(T)
<1>1. S \cap T = {}  OBVIOUS
<1>2. Cardinality(S \cap T) = 0  BY <1>1, FS_EmptySet
<1>3. Cardinality(S) \in Nat /\ Cardinality(T) \in Nat  BY FS_CardinalityType
<1>4. Cardinality(S \cup T) = Cardinality(S) + Cardinality(T) - Cardinality(S \cap T)
  BY FS_Union
<1>5. QED  BY <1>2, <1>3, <1>4

LEMMA OpenNodesFinite ==
  /\ IsFiniteSet(OpenNodes) /\ Cardinality(OpenNodes) \in Nat
  /\ IsFiniteSet(OpenNodes \ Undecided) /\ Cardinality(OpenNodes \ Undecided) \in Nat
<1>1. IsFiniteSet(OpenNodes)  BY MatchesFinite, FS_Subset DEF OpenNodes
<1>2. IsFiniteSet(OpenNodes \ Undecided)  BY <1>1, FS_Subset
<1>3. QED  BY <1>1, <1>2, FS_CardinalityType

\* The final of a drawn bracket is not a bye.
LEMMA FinalIsPlayed ==
  ASSUME participant_count >= 2, participant_count \in Nat, NEW size \in PowersOfTwo,
         NEW seed, NEW m \in Matches, IsFinal(m, size), NEW n \in DrawnNodes(m, size, seed)
  PROVE  n.status # "Completed"
<1> SUFFICES ASSUME n.status = "Completed"  PROVE FALSE
  OBVIOUS
<1>1. n.bye  BY DrawnShape
<1>2. m.round = 0 /\ IsBye(m.index, size, participant_count)  BY <1>1, DrawnShape
<1>3. MaxRound(size) = 1 /\ m.index = 0  BY <1>2 DEF IsFinal
<1>4. size = 2  BY <1>3, RoundsListed DEF Pow2
<1>5. QED  BY <1>2, <1>3, <1>4 DEF IsBye, OpponentRank

LEMMA StartBoard ==
  ASSUME Validated, OneLane, Enrolled, BracketInv, BracketInv', BoardInv, TypeOK',
         NEW ids \in SUBSET Matches, NEW size \in PowersOfTwo, NEW seed \in Seeds,
         StartTournament(ids, size, seed)
  PROVE  BoardInv'
<1>1. PICK draw \in SeededDraws(ids, size, seed) :
        /\ node' = [m \in Matches |-> IF m \in ids THEN NewNode(draw[m]) ELSE node[m]]
        /\ matches_reported' = matches_reported + ByesIn(ids, draw)
  <2>1. incarnation > 0
    BY DEF StartTournament, DrawBracket, Enrolled, UnbornIsEmpty, TypeOK
  <2>2. Draws(ids, size, seed) = SeededDraws(ids, size, seed)
    BY <2>1 DEF Draws, Validated
  <2>3. QED  BY <2>2 DEF StartTournament
<1>2. /\ UNCHANGED participant_count /\ participant_count \in Nat
      /\ bracket_size' = size
      /\ status' \in {"Active", "PendingBracketInit"}
      /\ matches_initialized' = matches_initialized + Cardinality(ids)
      /\ status' = IF matches_initialized' = size - 1 THEN "Active" ELSE "PendingBracketInit"
      /\ \A m \in ids : m \notin OpenNodes
      /\ \/ status = "Registration" /\ participant_count >= 2 /\ size = BracketSize(participant_count)
         \/ status = "PendingBracketInit" /\ size = bracket_size
  BY DEF StartTournament, DrawBracket, Enrolled, TypeOK, MIN_PARTICIPANTS
<1>3. participant_count >= 2 /\ size >= 2
  <2>1. CASE status = "Registration" /\ participant_count >= 2
                                     /\ size = BracketSize(participant_count)
    <3>1. participant_count \in MIN_PARTICIPANTS..MAX_PARTICIPANTS
      BY <1>2, <2>1, ParametersAssumption
      DEF BoardInv, FieldFits, MIN_PARTICIPANTS, MAX_PARTICIPANTS
    <3>2. participant_count <= size  BY <2>1, <3>1, BracketSizeFits
    <3>3. size \in Nat  BY PowersListed
    <3>4. QED  BY <1>2, <2>1, <3>2, <3>3
  <2>2. CASE status = "PendingBracketInit" /\ size = bracket_size
    BY <2>2 DEF BoardInv, FinalIsOpen
  <2>3. QED  BY <1>2, <2>1, <2>2
<1>4. \A m \in ids : /\ draw[m].bye \in BOOLEAN
                     /\ node'[m] = NewNode(draw[m])
                     /\ node'[m] \in DrawnNodes(m, size, seed)
  <2>1. draw \in Draws(ids, size, seed)  BY <1>1 DEF Draws
  <2>2. \A m \in ids : draw[m] \in Descriptor  BY <2>1, DrawTypes DEF Enrolled
  <2>3. \A m \in ids : draw[m].bye \in BOOLEAN  BY <2>2 DEF Descriptor
  <2>4. QED  BY <1>1, <2>3 DEF SeededDraws, DrawnNodes
<1> DEFINE byes == {m \in ids : draw[m].bye}
           done == OpenNodes \ Undecided
<1>5. \A m \in ids : /\ node'[m].status # "Absent"
                     /\ (node'[m].status = "Completed") <=> draw[m].bye
  <2>1. \A d : NewNode(d).status = IF d.bye THEN "Completed"
                                  ELSE IF d.player_a # NoOne /\ d.player_b # NoOne
                                       THEN "Active" ELSE "Pending"
    BY DEF NewNode
  <2>2. QED  BY <1>4, <2>1
<1>6. \A m \in OpenNodes : m \in Matches /\ m \notin ids /\ node'[m] = node[m]
  BY <1>1, <1>2 DEF OpenNodes
<1>7. OpenNodes' = OpenNodes \cup ids
  BY <1>1, <1>5, <1>6 DEF OpenNodes
<1>8. (OpenNodes \ Undecided)' = done \cup byes
  BY <1>5, <1>6, <1>7 DEF Undecided
<1>9. /\ IsFiniteSet(ids) /\ IsFiniteSet(byes) /\ IsFiniteSet(OpenNodes) /\ IsFiniteSet(done)
  <2>1. IsFiniteSet(ids)  BY MatchesFinite, FS_Subset
  <2>2. IsFiniteSet(byes)  BY <2>1, FS_Subset
  <2>3. QED  BY <2>1, <2>2, OpenNodesFinite
<1>10. /\ Cardinality(OpenNodes') = Cardinality(OpenNodes) + Cardinality(ids)
       /\ Cardinality((OpenNodes \ Undecided)') = Cardinality(done) + Cardinality(byes)
  <2>1. \A m \in OpenNodes : m \notin ids  BY <1>6
  <2>2. \A m \in done : m \notin byes  BY <1>6
  <2> HIDE DEF byes, done
  <2>3. Cardinality(OpenNodes \cup ids) = Cardinality(OpenNodes) + Cardinality(ids)
    BY <1>9, <2>1, DisjointUnion
  <2>4. Cardinality(done \cup byes) = Cardinality(done) + Cardinality(byes)
    BY <1>9, <2>2, DisjointUnion
  <2>5. QED  BY <1>7, <1>8, <2>3, <2>4
<1>11. matches_initialized = Cardinality(OpenNodes) /\ matches_reported = Cardinality(done)
  <2>1. CASE status = "Registration"
    <3>1. OpenNodes = {}  BY <2>1 DEF BracketInv, Field, NoLeftovers
    <3>2. done = {}  BY <3>1
    <3> HIDE DEF done
    <3>3. QED  BY <2>1, <3>1, <3>2, FS_EmptySet DEF BoardInv, Tallied
  <2>2. CASE status = "PendingBracketInit"
    BY <2>2 DEF BoardInv, Tallied, Counted
  <2>3. QED  BY <1>2, <2>1, <2>2
<1>12. /\ matches_initialized' = Cardinality(OpenNodes')
       /\ matches_reported' = Cardinality((OpenNodes \ Undecided)')
  BY <1>1, <1>2, <1>10, <1>11 DEF ByesIn
<1>13. (status' = "Active") <=> (OpenNodes' = MatchIds(Lanes, size))
  <2>1. OpenNodes' \subseteq MatchIds(Lanes, size)
    BY <1>2 DEF BracketInv, Field, InBracket
  <2>2. /\ IsFiniteSet(MatchIds(Lanes, size))
        /\ Cardinality(MatchIds(Lanes, size)) = size - 1
    BY OneLessThanItsSlots DEF OneLane
  <2>3. (Cardinality(OpenNodes') = size - 1) <=> (OpenNodes' = MatchIds(Lanes, size))
    BY <2>1, <2>2, FS_Subset
  <2>4. QED  BY <1>2, <1>12, <2>3
<1>14. Tallied'
  BY <1>2, <1>12, <1>13 DEF Tallied, Counted
<1>15. FinalIsOpen'
  <2> SUFFICES ASSUME NEW m \in OpenNodes', IsFinal(m, size)
               PROVE  node'[m].status # "Completed"
    BY <1>2, <1>3 DEF FinalIsOpen, IsFinal
  <2>1. CASE m \in ids
    BY <1>2, <1>3, <1>4, <2>1, FinalIsPlayed
  <2>2. CASE m \in OpenNodes
    <3>1. status = "PendingBracketInit" /\ size = bracket_size
      BY <1>2, <2>2 DEF BracketInv, Field, NoLeftovers
    <3>2. QED  BY <1>6, <2>2, <3>1 DEF BoardInv, FinalIsOpen
  <2>3. QED  BY <1>7, <2>1, <2>2
<1>16. FieldFits'  BY <1>2 DEF BoardInv, FieldFits
<1>17. QED  BY <1>14, <1>15, <1>16 DEF BoardInv

LEMMA FinalizeBoard ==
  ASSUME OneLane, Enrolled, BracketInv, BoardInv, TypeOK',
         NEW m \in Matches, NEW winner, NEW trusted, NEW signer,
         FinalizeMatch(m, winner, trusted, signer)
  PROVE  BoardInv'
<1> DEFINE done == OpenNodes \ Undecided
<1>1. /\ OpenNodes' = OpenNodes
      /\ \A n \in Matches : node[n].status = "Completed" => node'[n] = node[n]
  BY FinalizeBracket
<1>2. TypeOK  BY DEF Enrolled
<1>3. /\ status = "Active" /\ status' \in {"Active", "Completed"}
      /\ node[m].status = "Active" /\ node'[m].status = "Completed"
      /\ \A n \in Matches \ {m} :
           node'[n] = node[n] \/ node'[n].status \in {node[n].status, "Active"}
  BY <1>2, FinalizeWrites
<1>4. UNCHANGED <<participant_count, bracket_size, matches_initialized>>
      /\ matches_reported' = matches_reported + 1
  BY DEF FinalizeMatch
<1>5. FieldFits'  BY <1>4 DEF BoardInv, FieldFits
<1>6. CASE status' = "Completed"
  BY <1>5, <1>6 DEF BoardInv, Tallied, Counted, FinalIsOpen
<1>7. CASE status' = "Active"
  <2>1. ~IsFinal(m, bracket_size)
    BY <1>7 DEF FinalizeMatch, CompleteTournament
  <2>2. \A n \in Matches \ {m} :
          (node'[n].status = "Completed") <=> (node[n].status = "Completed")
    BY <1>1, <1>3
  <2>3. m \in OpenNodes /\ m \notin done /\ OpenNodes \subseteq Matches
    BY <1>3 DEF OpenNodes, Undecided
  <2>4. (OpenNodes \ Undecided)' = done \cup {m}
    BY <1>1, <1>3, <2>2, <2>3 DEF Undecided
  <2>5. Cardinality((OpenNodes \ Undecided)') = Cardinality(done) + 1
    <3> HIDE DEF done
    <3>1. IsFiniteSet(done)  BY OpenNodesFinite DEF done
    <3>2. Cardinality(done \cup {m}) = Cardinality(done) + 1
      BY <2>3, <3>1, FS_AddElement
    <3>3. QED  BY <2>4, <3>2
  <2>6. Tallied'
    BY <1>1, <1>3, <1>4, <1>7, <2>5 DEF BoardInv, Tallied, Counted
  <2>7. FinalIsOpen'
    BY <1>1, <1>3, <1>4, <1>7, <2>1, <2>2, <2>3 DEF BoardInv, FinalIsOpen, IsFinal
  <2>8. QED  BY <1>5, <2>6, <2>7 DEF BoardInv
<1>8. QED  BY <1>3, <1>6, <1>7

LEMMA SettlementBoard ==
  ASSUME OneLane, Enrolled, BracketInv, BoardInv, TypeOK', NEW m \in Matches, SettlementStep(m)
  PROVE  BoardInv'
<1>1. CASE \/ \E w \in Wallets : ReportResult(m, w)
           \/ \E p \in Players : ConfirmResult(m, p)
           \/ \E w \in Players : ResolveDispute(m, w)
           \/ ClaimResult(m) \/ ForceClaimDisputed(m) \/ SettleFinal(m)
  <2>1. \E winner, trusted, signer : FinalizeMatch(m, winner, trusted, signer)
    BY <1>1 DEF ReportResult, ConfirmResult, ResolveDispute, ClaimResult,
                ForceClaimDisputed, SettleFinal, Settle
  <2>2. QED  BY <2>1, FinalizeBoard
<1>2. CASE \/ \E p, w \in Players : ProposeResult(m, p, w)
           \/ \E w \in Signers : DisputeResult(m, w)
           \/ CommitMatchLobby(m) \/ BindMatchFeed(m)
           \/ \E relayer \in Signers, value \in FeedValues :
                 ProposeResultOracle(m, relayer, value)
  <2>1. UNCHANGED <<status, counters, node>>
    BY <1>2 DEF ProposeResult, ProposeResultOracle, Propose, DisputeResult,
                CommitMatchLobby, BindMatchFeed, tournament
  <2>2. FieldFits'  BY <2>1 DEF counters, BoardInv, FieldFits
  <2>3. QED  BY <2>1, <2>2, QuietKeepsBoard DEF counters
<1>3. QED  BY <1>1, <1>2 DEF SettlementStep

LEMMA LifecycleBoard ==
  ASSUME Validated, OneLane, Enrolled, BracketInv, BracketInv', BoardInv, TypeOK',
         LifecycleStep
  PROVE  BoardInv'
<1>1. CASE \/ \E mode \in Modes, preset \in Presets : CreateTournament(mode, preset)
           \/ RequestSeed
           \/ \E seed \in Seeds : RevealSeed(seed)
           \/ PartialCancelTournament
           \/ \E chunk \in SUBSET Players, withDeposit \in BOOLEAN :
                 \/ \E caller \in {Organizer, Relayer} :
                       CancelTournament(caller, chunk, withDeposit)
                 \/ PartialRefundChunk(chunk, withDeposit)
  <2>1. /\ UNCHANGED <<counters, node>>
        /\ \/ status' = status
           \/ status' \in TerminalStatus
           \/ status = "None" /\ status' = "Registration"
    BY <1>1 DEF CreateTournament, RequestSeed, RevealSeed, PartialCancelTournament,
                CancelTournament, PartialRefundChunk, tournament, matches, TerminalStatus
  <2>2. FieldFits'  BY <2>1 DEF counters, BoardInv, FieldFits
  <2>3. QED  BY <2>1, <2>2, QuietKeepsBoard DEF counters
<1>2. ASSUME NEW p \in Players, JoinTournament(p)
      PROVE  BoardInv'
  <2>1. /\ UNCHANGED <<status, node, bracket_size, matches_initialized, matches_reported>>
        /\ status = "Registration"
    BY <1>2 DEF JoinTournament, matches
  <2>2. FieldFits'
    BY <1>2, ParametersAssumption DEF JoinTournament, FieldFits, Enrolled, TypeOK
  <2>3. QED  BY <2>1, <2>2, QuietKeepsBoard
<1>3. CASE \E ids \in SUBSET Matches, size \in PowersOfTwo, seed \in Seeds :
             StartTournament(ids, size, seed)
  BY <1>3, StartBoard
<1>4. CASE \E players \in SUBSET Players, nodes \in SUBSET Matches, closeRoot \in BOOLEAN :
             CloseTournament(players, nodes, closeRoot)
  <2>1. \/ NoTournament
        \/ UNCHANGED <<status, counters>> /\ status \in TerminalStatus
    BY <1>4 DEF CloseTournament
  <2>2. CASE NoTournament
    BY <2>2, ParametersAssumption
    DEF NoTournament, BoardInv, FieldFits, Tallied, Counted, FinalIsOpen,
        MIN_PARTICIPANTS
  <2>3. CASE UNCHANGED <<status, counters>> /\ status \in TerminalStatus
    BY <2>3 DEF counters, TerminalStatus, BoardInv, FieldFits, Tallied, Counted,
                FinalIsOpen
  <2>4. QED  BY <2>1, <2>2, <2>3
<1>5. QED  BY <1>1, <1>2, <1>3, <1>4 DEF LifecycleStep

LEMMA StepBoard ==
  ASSUME Validated, OneLane, Enrolled, BracketInv, BracketInv', BoardInv, TypeOK',
         [Next]_vars
  PROVE  BoardInv'
<1>1. CASE Tick \/ UNCHANGED vars
  <2>1. UNCHANGED <<status, counters, node>>
    BY <1>1 DEF Tick, vars, tournament, matches
  <2>2. FieldFits'  BY <2>1 DEF counters, BoardInv, FieldFits
  <2>3. QED  BY <2>1, <2>2, QuietKeepsBoard DEF counters
<1>2. CASE LifecycleStep  BY <1>2, LifecycleBoard
<1>3. CASE \E m \in Matches : SettlementStep(m)  BY <1>3, SettlementBoard
<1>4. QED  BY <1>1, <1>2, <1>3 DEF Next

(***************************************************************************)
(* The counters, the size of the field and the undecided final hold        *)
(* together with the bracket in every state of such a tournament.          *)
(***************************************************************************)
THEOREM BoardInvariant ==
  ASSUME MaxIncarnations <= 1, OneLane
  PROVE  Spec => [](TypeOK /\ (Validated => BracketInv /\ BoardInv))
<1>1. Init => BoardInv
  <2> SUFFICES ASSUME Init  PROVE BoardInv
    OBVIOUS
  <2>1. /\ participant_count = 0 /\ matches_initialized = 0 /\ matches_reported = 0
        /\ status = "None"
    BY DEF Init
  <2>2. QED
    BY <2>1, ParametersAssumption
    DEF BoardInv, FieldFits, Tallied, Counted, FinalIsOpen, MIN_PARTICIPANTS
<1>2. Validated /\ Enrolled /\ BracketInv /\ BracketInv' /\ BoardInv /\ TypeOK'
        /\ [Next]_vars => BoardInv'
  BY StepBoard
<1>3. TypeOK /\ [Next]_vars /\ Validated' => Validated  BY ValidatedBefore
<1>4. QED  BY <1>1, <1>2, <1>3, BracketInvariant, TypeCorrect, PTL DEF Spec

(***************************************************************************)
(* The counters start_tournament activates a tournament by and the indexer *)
(* reads agree with the accounts: matches_initialized with the matches     *)
(* there are, matches_reported with those decided, and Active with all of  *)
(* them being there, in whatever order chunks, byes and results come.      *)
(***************************************************************************)
THEOREM CountersAgree ==
  ASSUME MaxIncarnations <= 1, OneLane
  PROVE  Spec => []CountersMatchAccounts
<1>1. (Validated => BoardInv) => CountersMatchAccounts
  BY SeededIsValidated DEF BoardInv, Tallied, Counted, CountersMatchAccounts
<1>2. QED  BY <1>1, BoardInvariant, PTL

LEMMA FinalExists ==
  ASSUME OneLane, NEW size \in PowersOfTwo, size >= 2
  PROVE  \E m \in MatchIds(Lanes, size) : IsFinal(m, size)
<1>1. PICK lane : Lanes = {lane}  BY DEF OneLane
<1>2. lane \in Lanes  BY <1>1
<1>3. QED  BY <1>2, TheFinal

LEMMA LowestRound ==
  ASSUME NEW S \in SUBSET (0..6), S # {}
  PROVE  \E low \in S : \A r \in S : low <= r
<1>1. \A r \in S : r \in {0, 1, 2, 3, 4, 5, 6}  OBVIOUS
<1>2. \/ 0 \in S
      \/ 1 \in S /\ 0 \notin S
      \/ 2 \in S /\ 0 \notin S /\ 1 \notin S
      \/ 3 \in S /\ \A r \in {0, 1, 2} : r \notin S
      \/ 4 \in S /\ \A r \in {0, 1, 2, 3} : r \notin S
      \/ 5 \in S /\ \A r \in {0, 1, 2, 3, 4} : r \notin S
      \/ 6 \in S /\ \A r \in {0, 1, 2, 3, 4, 5} : r \notin S
  BY <1>1
<1>3. \E low \in {0, 1, 2, 3, 4, 5, 6} : low \in S /\ \A r \in S : low <= r
  BY <1>1, <1>2
<1>4. QED  BY <1>3

LEMMA OneIsPlayable ==
  ASSUME OneLane, TypeOK, BracketInv, BoardInv
  PROVE  SomeMatchIsPlayable
<1> SUFFICES ASSUME status = "Active"
             PROVE  \E m \in OpenNodes : Playable(m) /\ NoOne \notin PlayersOf(m)
  BY DEF SomeMatchIsPlayable
<1>1. /\ bracket_size \in PowersOfTwo /\ bracket_size >= 2
      /\ OpenNodes = MatchIds(Lanes, bracket_size)
  BY DEF BracketInv, Field, InBracket, BoardInv, Tallied, Counted, FinalIsOpen
<1>2. Undecided # {}
  <2>1. \E m \in OpenNodes : IsFinal(m, bracket_size)  BY <1>1, FinalExists
  <2>2. QED  BY <2>1 DEF BoardInv, FinalIsOpen, Undecided
<1>3. PICK m \in Undecided : \A n \in Undecided : m.round <= n.round
  <2>1. \A n \in Undecided : n.round \in 0..6
    <3>1. MaxRound(bracket_size) \in 0..7  BY <1>1, RoundsListed
    <3>2. QED  BY <1>1, <3>1, MatchFields DEF Undecided
  <2> DEFINE S == {n.round : n \in Undecided}
  <2>2. S \in SUBSET (0..6) /\ S # {}  BY <1>2, <2>1
  <2>3. \E low \in S : \A r \in S : low <= r  BY <2>2, LowestRound
  <2>4. QED  BY <2>3
<1>4. /\ m \in OpenNodes /\ m \in Matches
      /\ node[m].status \in {"Pending", "Active"}
      /\ SoundMatch(node[m], m.round)
  BY DEF Undecided, OpenNodes, TypeOK, MatchNode, BracketInv, Sound
<1>5. CASE m.round = 0
  <2>1. node[m].status = "Active"  BY <1>4, <1>5 DEF SoundMatch
  <2>2. QED  BY <1>4, <2>1 DEF SoundMatch, Playable, PlayersOf
<1>6. CASE m.round # 0
  <2>1. ASSUME NEW left \in BOOLEAN
        PROVE  Slot(m, left) # NoOne
    <3>1. PICK feeder \in OpenNodes :
            /\ FeedsInto(feeder, m) /\ (IsLeftChild(feeder) <=> left)
            /\ feeder.round < m.round
      BY <1>1, <1>4, <1>6, FeedersExist
    <3>2. feeder \notin Undecided
      <4>1. feeder.round \in Nat /\ m.round \in Nat  BY <1>4, MatchTypes DEF OpenNodes
      <4>2. QED  BY <1>3, <3>1, <4>1
    <3>3. node[feeder].status = "Completed"  BY <3>2 DEF Undecided
    <3>4. node[feeder].winner # NoOne
      BY <3>3 DEF BracketInv, Sound, SoundMatch
    <3>5. node[feeder].winner = Slot(m, IsLeftChild(feeder))
      BY <1>4, <3>1 DEF BracketInv, Mirrored
    <3>6. QED  BY <3>1, <3>4, <3>5 DEF Slot
  <2>2. node[m].player_a # NoOne /\ node[m].player_b # NoOne
    <3>1. Slot(m, TRUE) # NoOne /\ Slot(m, FALSE) # NoOne  BY <2>1
    <3>2. QED  BY <3>1 DEF Slot
  <2>3. node[m].status = "Active"  BY <1>4, <2>2 DEF SoundMatch
  <2>4. QED  BY <1>4, <2>2, <2>3 DEF Playable, PlayersOf
<1>7. QED  BY <1>5, <1>6

(***************************************************************************)
(* A bracket never stalls: for every field from 2 to 128, every seed and   *)
(* every order of results, an Active tournament has a match with both its  *)
(* players that waits for a result.                                        *)
(***************************************************************************)
THEOREM BracketsNeverStall ==
  ASSUME MaxIncarnations <= 1, OneLane
  PROVE  Spec => []SomeMatchIsPlayable
<1>1. TypeOK /\ (Validated => BracketInv /\ BoardInv) => SomeMatchIsPlayable
  <2>1. CASE Validated  BY <2>1, OneIsPlayable
  <2>2. CASE ~Validated  BY <2>2, SeededIsValidated DEF SomeMatchIsPlayable
  <2>3. QED  BY <2>1, <2>2
<1>2. QED  BY <1>1, BoardInvariant, PTL
=============================================================================
