-------------------------- MODULE EliminationProofs ---------------------------
(***************************************************************************)
(* A tournament from the draw to the prizes, for every field: everyone is  *)
(* drawn once, whoever is beaten is out, the last match to be decided is   *)
(* the final, and the prizes are those of the preset.                      *)
(*                                                                         *)
(* The draw rests on the join numbers, which are 0 .. participant_count-1, *)
(* each given once (Numbered), and on the permutation of them the seed     *)
(* stands for (FirstRoundSeeded).  That the final is last is an argument   *)
(* over the rounds: whoever wins round r won every round below it, so when *)
(* the final is decided an undecided match would have a feeder without a   *)
(* winner, down to the first round, where none waits.  The prizes rest on  *)
(* the books: the vault that is paid out is the pool (VaultIsPool).        *)
(***************************************************************************)
EXTENDS AdvancementProofs

(***************************************************************************)
(* The join numbers                                                        *)
(***************************************************************************)
\* Whoever paid in, whether or not the account was closed since.
Joined == {p \in Players : participant[p].account # "Absent"}

Numbered ==
    /\ status = "None" => participant_count = 0
    /\ status # "None" =>
         /\ Cardinality(Joined) = participant_count
         /\ \A p \in Joined : participant[p].seed_index < participant_count
    /\ \A p, q \in Joined : participant[p].seed_index = participant[q].seed_index => p = q

\* A step that leaves the numbers of the entrants alone.
SameNumbers ==
    \A p \in Players :
        /\ participant'[p].account = "Absent" <=> participant[p].account = "Absent"
        /\ participant'[p].seed_index = participant[p].seed_index

LEMMA JoinedFinite ==
  /\ IsFiniteSet(Joined) /\ Cardinality(Joined) \in Nat
  /\ OpenParticipants \subseteq Joined /\ Joined \subseteq Players
<1>1. Joined \subseteq Players  BY DEF Joined
<1>2. IsFiniteSet(Joined)  BY <1>1, PartiesAssumption, FS_Subset
<1>3. QED  BY <1>1, <1>2, FS_CardinalityType DEF Joined, OpenParticipants

LEMMA QuietNumbers ==
  ASSUME Numbered, SameNumbers,
         status' = "None" => participant_count' = 0,
         status' # "None" => status # "None" /\ participant_count' = participant_count
  PROVE  Numbered'
<1>1. Joined' = Joined  BY DEF Joined, SameNumbers
<1>2. \A p \in Joined : p \in Players /\ participant'[p].seed_index = participant[p].seed_index
  BY DEF Joined, SameNumbers
<1>3. QED  BY <1>1, <1>2 DEF Numbered

LEMMA CreateNumbers ==
  ASSUME MaxIncarnations <= 1, Enrolled, Numbered,
         NEW mode, NEW preset, CreateTournament(mode, preset)
  PROVE  Numbered'
<1>1. incarnation = 0  BY ParametersAssumption DEF Enrolled, TypeOK, CreateTournament
<1>2. \A p \in Players : participant[p].account = "Absent"
  BY <1>1 DEF Enrolled, UnbornIsEmpty
<1>3. status = "None" /\ participant_count' = participant_count /\ status' = "Registration"
  BY DEF CreateTournament, counters
<1>4. \A p \in Players : participant'[p] = NoParticipant
  BY <1>2 DEF CreateTournament
<1>5. Joined' = {}
  <2>1. \A p \in Players : participant'[p].account = "Absent"  BY <1>4 DEF NoParticipant
  <2>2. QED  BY <2>1 DEF Joined
<1>6. Cardinality({}) = 0  BY FS_EmptySet
<1>7. QED  BY <1>3, <1>5, <1>6 DEF Numbered

LEMMA JoinNumbers ==
  ASSUME Enrolled, Numbered, NEW p \in Players, JoinTournament(p)
  PROVE  /\ Numbered'
         /\ p \notin Joined /\ Joined' = Joined \cup {p}
         /\ \A q \in Joined : participant'[q] = participant[q]
         /\ participant'[p].wins = 0 /\ participant'[p].losses = 0
<1>1. /\ participant[p].account # "Open" /\ status = "Registration" /\ status' = status
      /\ participant_count' = participant_count + 1
      /\ participant' = [participant EXCEPT
           ![p] = [NoParticipant EXCEPT !.account = "Open", !.seed_index = participant_count]]
  BY DEF JoinTournament
<1>2. participant \in [Players -> Participant]  BY DEF Enrolled, TypeOK
<1>3. participant[p].account = "Absent"
  <2>1. participant[p].account # "Closed"
    BY <1>1 DEF Enrolled, NobodyClosedEarly, OpenStatus
  <2>2. participant[p].account \in {"Absent", "Open", "Closed"}  BY <1>2 DEF Participant
  <2>3. QED  BY <1>1, <2>1, <2>2
<1>4. /\ participant'[p].account = "Open" /\ participant'[p].seed_index = participant_count
      /\ participant'[p].wins = 0 /\ participant'[p].losses = 0
      /\ \A q \in Players \ {p} : participant'[q] = participant[q]
  BY <1>1, <1>2 DEF NoParticipant
<1>5. p \notin Joined /\ Joined' = Joined \cup {p}
  BY <1>3, <1>4 DEF Joined
<1>6. Cardinality(Joined \cup {p}) = Cardinality(Joined) + 1
  BY <1>5, JoinedFinite, FS_AddElement
<1>7. \A q \in Joined : participant'[q] = participant[q]
  BY <1>4, <1>5, JoinedFinite
<1>8. participant_count \in Nat  BY DEF Enrolled, TypeOK
<1>9. \A q \in Joined : /\ participant[q].seed_index \in Nat
                        /\ participant[q].seed_index < participant_count
  BY <1>1, <1>2, JoinedFinite DEF Numbered, Participant
<1>10. \A q \in Joined' : participant'[q].seed_index < participant_count'
  BY <1>1, <1>4, <1>5, <1>7, <1>8, <1>9
<1>11. \A q, r \in Joined' : participant'[q].seed_index = participant'[r].seed_index => q = r
  <2>1. \A q, r \in Joined : participant'[q].seed_index = participant'[r].seed_index => q = r
    BY <1>7 DEF Numbered
  <2>2. \A q \in Joined : participant'[q].seed_index # participant'[p].seed_index
    BY <1>4, <1>7, <1>8, <1>9
  <2>3. QED  BY <1>5, <2>1, <2>2
<1>12. Numbered'  BY <1>1, <1>5, <1>6, <1>10, <1>11 DEF Numbered
<1>13. QED  BY <1>4, <1>5, <1>7, <1>12

(***************************************************************************)
(* What an instruction does to the accounts                                *)
(***************************************************************************)
\* No instruction but create, join and close touches the numbers; start, finalize
\* and close are the ones that touch a match.
LEMMA RefundNumbers ==
  ASSUME TypeOK, NEW chunk \in SUBSET Players, NEW withDeposit, RefundChunk(chunk, withDeposit)
  PROVE  \A p \in Players : /\ participant'[p].account = participant[p].account
                            /\ participant'[p].seed_index = participant[p].seed_index
                            /\ participant'[p].wins = participant[p].wins
                            /\ participant'[p].losses = participant[p].losses
<1>1. participant \in [Players -> Participant]  BY DEF TypeOK
<1>2. PICK unpaid : participant' = [p \in Players |->
               IF p \in unpaid THEN [participant[p] EXCEPT !.refund_paid = TRUE]
               ELSE participant[p]]
  BY Zenon DEF RefundChunk
<1>3. \A p \in Players : participant[p] \in Participant  BY <1>1
<1>4. QED  BY <1>2, <1>3 DEF Participant

LEMMA CloseNumbers ==
  ASSUME TypeOK, NEW players, NEW nodes \in SUBSET Matches, CloseChildren(players, nodes)
  PROVE  /\ SameNumbers
         /\ \A p \in Players : /\ participant'[p].wins = participant[p].wins
                               /\ participant'[p].losses = participant[p].losses
                               /\ participant'[p].account = "Open" => participant[p].account = "Open"
         /\ OpenNodes' = OpenNodes \ nodes
         /\ \A m \in OpenNodes' : node'[m] = node[m]
<1>1. participant \in [Players -> Participant]  BY DEF TypeOK
<1>2. /\ participant' = [p \in Players |->
               IF p \in players THEN [participant[p] EXCEPT !.account = "Closed"]
               ELSE participant[p]]
      /\ players \subseteq OpenParticipants /\ nodes \subseteq OpenNodes
      /\ node' = [m \in Matches |-> IF m \in nodes THEN NoNode ELSE node[m]]
  BY DEF CloseChildren
<1>3. \A p \in Players : participant[p] \in Participant  BY <1>1
<1>4. \A p \in players : participant[p].account = "Open"  BY <1>2 DEF OpenParticipants
<1>5. OpenNodes' = OpenNodes \ nodes
  BY <1>2 DEF OpenNodes, NoNode
<1>6. \A m \in OpenNodes' : node'[m] = node[m]  BY <1>2, <1>5 DEF OpenNodes
<1>7. \A p \in Players : /\ participant'[p].account = "Absent" <=> participant[p].account = "Absent"
                         /\ participant'[p].seed_index = participant[p].seed_index
                         /\ participant'[p].wins = participant[p].wins
                         /\ participant'[p].losses = participant[p].losses
                         /\ participant'[p].account = "Open" => participant[p].account = "Open"
  BY <1>2, <1>3, <1>4 DEF Participant
<1>8. QED  BY <1>5, <1>6, <1>7 DEF SameNumbers

\* What start_tournament does to a field that is drawn as validated.
StartsChunk(ids, size, seed) ==
    /\ OpenNodes' = OpenNodes \cup ids /\ ids \cap OpenNodes = {}
    /\ \A m \in OpenNodes : node'[m] = node[m]
    /\ \A m \in ids : node'[m] \in DrawnNodes(m, size, seed)
    /\ ids \subseteq MatchIds(Lanes, size)
    /\ UNCHANGED <<participant, participant_count, settlement_mode, champion>>
    /\ bracket_size' = size /\ seed_hash' = seed
    /\ status \in {"Registration", "PendingBracketInit"}
    /\ status' \in {"Active", "PendingBracketInit"}
    /\ status = "Registration" =>
         /\ size = BracketSize(participant_count) /\ participant_count >= MIN_PARTICIPANTS
         /\ OpenNodes = {}
    /\ status = "PendingBracketInit" => size = bracket_size /\ seed = seed_hash

LEMMA StartNodes ==
  ASSUME Validated, Enrolled, BracketInv,
         NEW ids \in SUBSET Matches, NEW size, NEW seed, StartTournament(ids, size, seed)
  PROVE  StartsChunk(ids, size, seed)
<1>1. PICK draw \in SeededDraws(ids, size, seed) :
        node' = [m \in Matches |-> IF m \in ids THEN NewNode(draw[m]) ELSE node[m]]
  <2>1. incarnation > 0
    BY DEF StartTournament, DrawBracket, Enrolled, UnbornIsEmpty, TypeOK
  <2>2. Draws(ids, size, seed) = SeededDraws(ids, size, seed)
    BY <2>1 DEF Draws, Validated
  <2>3. QED  BY <2>2 DEF StartTournament
<1>2. \A m \in ids : node'[m] \in DrawnNodes(m, size, seed)
  BY <1>1 DEF SeededDraws, DrawnNodes
<1>3. /\ UNCHANGED <<participant, participant_count, settlement_mode, champion>>
      /\ bracket_size' = size /\ seed_hash' = seed
      /\ status \in {"Registration", "PendingBracketInit"}
      /\ status' \in {"Active", "PendingBracketInit"}
      /\ ids \subseteq MatchIds(Lanes, size) /\ ids \cap OpenNodes = {}
      /\ status = "Registration" =>
           size = BracketSize(participant_count) /\ participant_count >= MIN_PARTICIPANTS
      /\ status = "PendingBracketInit" => size = bracket_size /\ seed = seed_hash
  BY DEF StartTournament, DrawBracket, terms
<1>4. status = "Registration" => OpenNodes = {}  BY DEF BracketInv, Field, NoLeftovers
<1>5. \A m \in Matches \ ids : node'[m] = node[m]  BY <1>1
<1>6. \A m \in ids : node'[m].status # "Absent"
  BY StartWrites DEF Enrolled
<1>7. OpenNodes' = OpenNodes \cup ids  BY <1>5, <1>6 DEF OpenNodes
<1>8. \A m \in OpenNodes : node'[m] = node[m]  BY <1>3, <1>5 DEF OpenNodes
<1>9. QED  BY <1>2, <1>3, <1>4, <1>7, <1>8 DEF StartsChunk

\* What finalize_match does: m is decided, and at most a slot that waited is filled.
DecidesMatch(m, winner) ==
    /\ m \in OpenNodes /\ ~node[m].bye /\ node[m].winner = NoOne /\ m \in Undecided
    /\ NoOne \notin PlayersOf(m) /\ winner \in PlayersOf(m)
    /\ OpenNodes' = OpenNodes /\ Undecided' = Undecided \ {m}
    /\ node'[m].winner = winner
    /\ \A n \in OpenNodes :
         /\ node'[n].bye = node[n].bye
         /\ n # m => node'[n].winner = node[n].winner
         /\ n.round = 0 \/ n = m \/ node[n].status = "Completed" =>
              node'[n].player_a = node[n].player_a /\ node'[n].player_b = node[n].player_b
    /\ status = "Active" /\ status' \in {"Active", "Completed"}
    /\ status' = "Completed" => IsFinal(m, bracket_size) /\ champion' = winner
    /\ UNCHANGED <<participant_count, bracket_size, seed_hash, settlement_mode>>
    /\ matches_reported' = matches_reported + 1

LEMMA FinalizeNodes ==
  ASSUME OneLane, Enrolled, BracketInv, TypeOK',
         NEW m \in Matches, NEW winner, NEW trusted, NEW signer,
         FinalizeMatch(m, winner, trusted, signer)
  PROVE  DecidesMatch(m, winner)
<1>1. /\ m \in OpenNodes /\ node[m].winner = NoOne /\ ~node[m].bye
      /\ node[m].status = "Active" /\ NoOne \notin PlayersOf(m) /\ winner \in PlayersOf(m)
      /\ status = "Active"
  BY PlayableIsOpen DEF FinalizeMatch, Playable
<1>2. TypeOK /\ node \in [Matches -> MatchNode] /\ OpenNodes \subseteq Matches
  BY DEF Enrolled, TypeOK, OpenNodes
<1>3. /\ Decided(node[m], winner).status = "Completed"
      /\ Decided(node[m], winner).player_a = node[m].player_a
      /\ Decided(node[m], winner).player_b = node[m].player_b
      /\ Decided(node[m], winner).winner = winner
      /\ Decided(node[m], winner).bye = node[m].bye
  BY <1>2 DEF Decided, MatchNode
<1>4. /\ OpenNodes' = OpenNodes
      /\ \A n \in Matches : node[n].status = "Completed" => node'[n] = node[n]
  BY FinalizeBracket
<1>5. /\ node'[m].status = "Completed" /\ node'[m].winner = winner
      /\ \A n \in Matches \ {m} :
           \/ node'[n] = node[n]
           \/ node[n].status # "Absent" /\ node'[n].status \in {node[n].status, "Active"}
  BY <1>2, FinalizeWrites
<1>6. Undecided' = Undecided \ {m}  BY <1>2, <1>4, <1>5 DEF Undecided
<1>7. \A n \in OpenNodes :
        /\ node'[n].bye = node[n].bye
        /\ n # m => node'[n].winner = node[n].winner
        /\ n.round = 0 \/ n = m \/ node[n].status = "Completed" =>
             node'[n].player_a = node[n].player_a /\ node'[n].player_b = node[n].player_b
  <2>1. CASE CompleteTournament(m, winner, trusted)
    <3>1. node' = [node EXCEPT ![m] = Decided(@, winner)]  BY <2>1 DEF CompleteTournament
    <3>2. node'[m] = Decided(node[m], winner) /\ \A n \in Matches \ {m} : node'[n] = node[n]
      BY <1>2, <3>1
    <3>3. QED  BY <1>2, <1>3, <3>2
  <2>2. CASE AdvanceWinner(m, winner)
    <3>1. PICK next \in OpenNodes :
            /\ FeedsInto(m, next)
            /\ node' = [node EXCEPT ![m] = Decided(@, winner),
                                    ![next] = Seated(@, IsLeftChild(m), winner)]
      BY <2>2 DEF AdvanceWinner
    <3>2. node[next].status = "Pending"
      BY <3>1, PlayableIsOpen DEF FinalizeMatch
    <3>3. next # m /\ next \in Matches  BY <1>1, <1>2, <3>2
    <3>4. /\ node'[m] = Decided(node[m], winner)
          /\ node'[next] = Seated(node[next], IsLeftChild(m), winner)
          /\ \A n \in Matches \ {m, next} : node'[n] = node[n]
      BY <1>2, <3>1, <3>3
    <3>5. node'[next].bye = node[next].bye /\ node'[next].winner = node[next].winner
      BY <1>2, <3>3, <3>4 DEF Seated, MatchNode
    <3>6. next.round # 0  BY <3>1, <3>3, OneFeeder, MatchTypes
    <3>7. QED  BY <1>2, <1>3, <3>2, <3>4, <3>5, <3>6
  <2>3. QED  BY <2>1, <2>2 DEF FinalizeMatch
<1>8. /\ status' \in {"Active", "Completed"}
      /\ status' = "Completed" => IsFinal(m, bracket_size) /\ champion' = winner
      /\ UNCHANGED <<participant_count, bracket_size, seed_hash, settlement_mode>>
      /\ matches_reported' = matches_reported + 1
  BY <1>1 DEF FinalizeMatch, CompleteTournament, AdvanceWinner, terms, seeding
<1>9. m \in Undecided  BY <1>1 DEF Undecided
<1>10. QED  BY <1>1, <1>4, <1>5, <1>6, <1>7, <1>8, <1>9 DEF DecidesMatch

(***************************************************************************)
(* The first round                                                         *)
(***************************************************************************)
DrawnStatus == {"PendingBracketInit", "Active", "Completed", "PartialCancelled"}

\* The order of the join numbers that the seed stands for.
SeedOrder == SeedPermutation(seed_hash, participant_count)

\* Wallet p paid in, and seed rank `rank' is his.
HoldsRank(p, rank) == p \in Joined /\ participant[p].seed_index = SeedOrder[rank]

Paired(m) ==
    /\ HoldsRank(node[m].player_a, m.index)
    /\ IF IsBye(m.index, bracket_size, participant_count) THEN node[m].player_b = NoOne
       ELSE HoldsRank(node[m].player_b, OpponentRank(m.index, bracket_size))

FirstRoundSeeded ==
    status \in DrawnStatus =>
        /\ participant_count \in MIN_PARTICIPANTS..MaxParticipants
        /\ bracket_size = BracketSize(participant_count)
        /\ seed_hash \in Seeds
        /\ OpenNodes \subseteq MatchIds(Lanes, bracket_size)
        /\ \A m \in OpenNodes : m.round = 0 => Paired(m)

\* Steps that draw nothing and leave the draw alone.
KeepsFirstRound ==
    /\ SameNumbers
    /\ OpenNodes' \subseteq OpenNodes
    /\ \A m \in OpenNodes' : m.round = 0 =>
          node'[m].player_a = node[m].player_a /\ node'[m].player_b = node[m].player_b
    /\ status' \in DrawnStatus =>
         status \in DrawnStatus /\ UNCHANGED <<participant_count, bracket_size, seed_hash>>

LEMMA KeptFirstRound ==
  ASSUME FirstRoundSeeded, KeepsFirstRound
  PROVE  FirstRoundSeeded'
<1> SUFFICES ASSUME status' \in DrawnStatus
             PROVE  /\ participant_count' \in MIN_PARTICIPANTS..MaxParticipants
                    /\ bracket_size' = BracketSize(participant_count')
                    /\ seed_hash' \in Seeds
                    /\ OpenNodes' \subseteq MatchIds(Lanes, bracket_size')
                    /\ \A m \in OpenNodes' : m.round = 0 => Paired(m)'
  BY DEF FirstRoundSeeded
<1>1. /\ status \in DrawnStatus /\ UNCHANGED <<participant_count, bracket_size, seed_hash>>
      /\ OpenNodes' \subseteq OpenNodes
  BY DEF KeepsFirstRound
<1>2. Joined' = Joined  BY DEF Joined, KeepsFirstRound, SameNumbers
<1>3. SeedOrder' = SeedOrder  BY <1>1 DEF SeedOrder
<1>4. \A p, rank : HoldsRank(p, rank) => HoldsRank(p, rank)'
  BY <1>2, <1>3, JoinedFinite DEF HoldsRank, KeepsFirstRound, SameNumbers
<1>5. \A m \in OpenNodes' : m.round = 0 => Paired(m)'
  BY <1>1, <1>4 DEF FirstRoundSeeded, KeepsFirstRound, Paired
<1>6. QED  BY <1>1, <1>5 DEF FirstRoundSeeded

\* What the seeded validation leaves in a first-round match.
LEMMA DrawnPairs ==
  ASSUME NEW m \in Matches, m.round = 0, NEW size, NEW seed,
         NEW n \in DrawnNodes(m, size, seed),
         NEW perm, perm = SeedPermutation(seed, participant_count)
  PROVE  /\ n.player_a \in Holders(perm, m.index)
         /\ IF IsBye(m.index, size, participant_count) THEN n.player_b = NoOne
            ELSE n.player_b \in Holders(perm, OpponentRank(m.index, size))
<1>1. PICK d \in SeededDescriptors(m, size, perm) : n = NewNode(d)  BY DEF DrawnNodes
<1>2. d \in SeededRound0(m.index, size, perm)  BY <1>1 DEF SeededDescriptors
<1>3. /\ d.player_a \in Holders(perm, m.index)
      /\ d.player_b \in (IF IsBye(m.index, size, participant_count) THEN {NoOne}
                         ELSE Holders(perm, OpponentRank(m.index, size)))
      /\ d.bye \in {IsBye(m.index, size, participant_count)}
  BY <1>2, DescriptorFields, Zenon DEF SeededRound0
<1>4. n.player_a = d.player_a /\ n.player_b = (IF d.bye THEN NoOne ELSE d.player_b)
  BY <1>1 DEF NewNode
<1>5. QED  BY <1>3, <1>4

LEMMA StartFirstRound ==
  ASSUME Validated, Enrolled, BracketInv, FieldFits, FirstRoundSeeded,
         NEW ids \in SUBSET Matches, NEW size, NEW seed \in Seeds,
         StartTournament(ids, size, seed)
  PROVE  FirstRoundSeeded'
<1>1. /\ OpenNodes' = OpenNodes \cup ids
      /\ \A m \in OpenNodes : node'[m] = node[m]
      /\ \A m \in ids : node'[m] \in DrawnNodes(m, size, seed)
      /\ ids \subseteq MatchIds(Lanes, size)
      /\ UNCHANGED <<participant, participant_count>>
      /\ bracket_size' = size /\ seed_hash' = seed
      /\ status \in {"Registration", "PendingBracketInit"}
      /\ status = "Registration" =>
           /\ size = BracketSize(participant_count) /\ participant_count >= MIN_PARTICIPANTS
           /\ OpenNodes = {}
      /\ status = "PendingBracketInit" => size = bracket_size /\ seed = seed_hash
  <2>1. StartsChunk(ids, size, seed)  BY StartNodes
  <2>2. QED  BY <2>1 DEF StartsChunk
<1>2. participant_count \in Int /\ participant_count <= MaxParticipants /\ MaxParticipants \in Int
  BY ParametersAssumption DEF Enrolled, TypeOK, FieldFits, MIN_PARTICIPANTS, MAX_PARTICIPANTS
<1>3. /\ participant_count' \in MIN_PARTICIPANTS..MaxParticipants
      /\ bracket_size' = BracketSize(participant_count')
      /\ seed_hash' \in Seeds
      /\ OpenNodes' \subseteq MatchIds(Lanes, bracket_size')
  <2>1. participant_count \in MIN_PARTICIPANTS..MaxParticipants /\ size = BracketSize(participant_count)
    BY <1>1, <1>2 DEF FirstRoundSeeded, DrawnStatus, MIN_PARTICIPANTS
  <2>2. OpenNodes \subseteq MatchIds(Lanes, size)
    BY <1>1 DEF FirstRoundSeeded, DrawnStatus
  <2>3. QED  BY <1>1, <2>1, <2>2
<1>4. Joined' = Joined  BY <1>1 DEF Joined
<1>5. \A p, rank : HoldsRank(p, rank)' <=>
          p \in Joined /\ participant[p].seed_index = SeedPermutation(seed, participant_count)[rank]
  BY <1>1, <1>4 DEF HoldsRank, SeedOrder
<1>6. ASSUME NEW m \in ids, m.round = 0
      PROVE  Paired(m)'
  <2>1. PICK perm : perm = SeedPermutation(seed, participant_count)  OBVIOUS
  <2>2. /\ node'[m].player_a \in Holders(perm, m.index)
        /\ IF IsBye(m.index, size, participant_count) THEN node'[m].player_b = NoOne
           ELSE node'[m].player_b \in Holders(perm, OpponentRank(m.index, size))
    BY <1>1, <1>6, <2>1, DrawnPairs
  <2>3. \A p, rank : p \in Holders(perm, rank) => HoldsRank(p, rank)'
    BY <1>5, <2>1, JoinedFinite DEF Holders
  <2>4. QED  BY <1>1, <2>2, <2>3 DEF Paired
<1>7. ASSUME NEW m \in OpenNodes, m.round = 0
      PROVE  Paired(m)'
  <2>1. status = "PendingBracketInit" /\ size = bracket_size /\ seed = seed_hash
    BY <1>1
  <2>2. Paired(m)  BY <1>7, <2>1 DEF FirstRoundSeeded, DrawnStatus
  <2>3. \A p, rank : HoldsRank(p, rank) => HoldsRank(p, rank)'
    BY <1>5, <2>1 DEF HoldsRank, SeedOrder
  <2>4. QED  BY <1>1, <2>1, <2>2, <2>3 DEF Paired
<1>8. QED  BY <1>1, <1>3, <1>6, <1>7 DEF FirstRoundSeeded

\* The seed puts the join numbers in an order without repetition.
LEMMA SeedOrderPermutes ==
  ASSUME TypeOK, FirstRoundSeeded, status \in DrawnStatus
  PROVE  SeedOrder \in Bijection(0..(participant_count - 1), 0..(participant_count - 1))
<1>1. /\ participant_count \in Nat \ {0} /\ participant_count <= MaxParticipants
      /\ MaxParticipants \in Nat /\ seed_hash \in Seeds
  BY ParametersAssumption DEF FirstRoundSeeded, MIN_PARTICIPANTS, MAX_PARTICIPANTS
<1>2. \A k \in 1..(participant_count - 1) : seed_hash[k] \in Nat
  <2>1. \A k \in 1..(participant_count - 1) : k \in 1..(MaxParticipants - 1)  BY <1>1
  <2>2. \A k \in 1..(MaxParticipants - 1) : seed_hash[k] \in Nat  BY <1>1, SeedsAssumption
  <2>3. QED  BY <2>1, <2>2
<1>3. QED  BY <1>1, <1>2, SeedPermutationPermutes DEF SeedOrder

\* Every entrant has a seed rank of his own.
LEMMA RankOfEntrant ==
  ASSUME TypeOK, Numbered, FirstRoundSeeded, status \in DrawnStatus, NEW p \in Joined
  PROVE  \E rank \in 0..(participant_count - 1) :
            \A other \in 0..(participant_count - 1) :
              \A w : HoldsRank(w, other) => (w = p <=> other = rank)
<1>1. participant_count \in Nat  BY DEF TypeOK
<1>2. SeedOrder \in Bijection(0..(participant_count - 1), 0..(participant_count - 1))
  BY SeedOrderPermutes
<1>3. participant[p].seed_index \in 0..(participant_count - 1)
  <2>1. status # "None"  BY DEF DrawnStatus
  <2>2. participant[p].seed_index < participant_count  BY <2>1 DEF Numbered
  <2>3. participant[p].seed_index \in Nat  BY JoinedFinite DEF TypeOK, Participant
  <2>4. QED  BY <1>1, <2>2, <2>3
<1>4. PICK rank \in 0..(participant_count - 1) : SeedOrder[rank] = participant[p].seed_index
  BY <1>2, <1>3 DEF Bijection, Surjection
<1>5. ASSUME NEW other \in 0..(participant_count - 1), NEW w, HoldsRank(w, other)
      PROVE  w = p <=> other = rank
  <2>1. w \in Joined /\ participant[w].seed_index = SeedOrder[other]  BY <1>5 DEF HoldsRank
  <2>2. w = p => other = rank  BY <1>2, <1>4, <2>1 DEF Bijection, Injection, IsInjective
  <2>3. other = rank => w = p  BY <1>4, <2>1 DEF Numbered
  <2>4. QED  BY <2>2, <2>3
<1>6. QED  BY <1>5

(***************************************************************************)
(* Every entrant plays in one first-round match: of those there are, the   *)
(* one with the index that his rank has.                                   *)
(***************************************************************************)
LEMMA FirstMatch ==
  ASSUME OneLane, TypeOK, Numbered, FirstRoundSeeded, status \in DrawnStatus, NEW p \in Joined
  PROVE  \E k \in 0..(bracket_size \div 2 - 1) :
            \A m \in OpenNodes : m.round = 0 => (p \in PlayersOf(m) <=> m.index = k)
<1>1. /\ participant_count \in MIN_PARTICIPANTS..MAX_PARTICIPANTS
      /\ bracket_size = BracketSize(participant_count)
      /\ OpenNodes \subseteq MatchIds(Lanes, bracket_size)
      /\ \A m \in OpenNodes : m.round = 0 => Paired(m)
  BY ParametersAssumption DEF FirstRoundSeeded, MIN_PARTICIPANTS, MAX_PARTICIPANTS
<1>2. PICK rank \in 0..(participant_count - 1) :
        \A other \in 0..(participant_count - 1) :
          \A w : HoldsRank(w, other) => (w = p <=> other = rank)
  BY RankOfEntrant
<1>3. PICK k \in 0..(bracket_size \div 2 - 1) :
        \A other \in 0..(bracket_size \div 2 - 1) :
          (rank \in {other, OpponentRank(other, bracket_size)}) <=> (other = k)
  <2>1. \E k \in 0..(BracketSize(participant_count) \div 2 - 1) :
        \A other \in 0..(BracketSize(participant_count) \div 2 - 1) :
          (rank \in {other, OpponentRank(other, BracketSize(participant_count))}) <=> (other = k)
    BY <1>1, RankHasOneMatch, Zenon
  <2>2. QED  BY <1>1, <2>1, Zenon
<1>4. ASSUME NEW m \in OpenNodes, m.round = 0
      PROVE  p \in PlayersOf(m) <=> m.index = k
  <2>1. m.index \in 0..(bracket_size \div 2 - 1)
    BY <1>1, <1>4 DEF MatchIds
  <2>2. /\ m.index \in 0..(participant_count - 1)
        /\ OpponentRank(m.index, bracket_size) \in 0..(bracket_size - 1)
    <3>1. m.index \in 0..(BracketSize(participant_count) \div 2 - 1)  BY <1>1, <2>1, Zenon
    <3>2. QED  BY <1>1, <3>1, NoDoubleBye
  <2>3. PICK opponent : opponent = OpponentRank(m.index, bracket_size)  OBVIOUS
  <2>4. IsBye(m.index, bracket_size, participant_count) <=> opponent >= participant_count
    BY <2>3 DEF IsBye
  <2>5. node[m].player_a = p <=> m.index = rank
    BY <1>1, <1>2, <1>4, <2>2 DEF Paired
  <2>6. p # NoOne  BY PartiesAssumption, JoinedFinite, WalletTypes
  <2>7. node[m].player_b = p <=> opponent = rank
    <3>1. CASE opponent >= participant_count
      <4>1. node[m].player_b = NoOne  BY <1>1, <1>4, <2>4, <3>1 DEF Paired
      <4>2. opponent # rank  BY <1>1, <2>2, <2>3, <3>1
      <4>3. QED  BY <2>6, <4>1, <4>2
    <3>2. CASE ~(opponent >= participant_count)
      <4>1. HoldsRank(node[m].player_b, opponent)  BY <1>1, <1>4, <2>3, <2>4, <3>2 DEF Paired
      <4>2. opponent \in 0..(participant_count - 1)
        <5>1. participant_count \in Nat /\ opponent \in Nat
          BY <1>1, <2>2, <2>3 DEF MIN_PARTICIPANTS, MAX_PARTICIPANTS
        <5>2. QED  BY <3>2, <5>1
      <4>3. QED  BY <1>2, <4>1, <4>2
    <3>3. QED  BY <3>1, <3>2
  <2>8. p \in PlayersOf(m) <=> rank \in {m.index, opponent}
    BY <2>5, <2>7 DEF PlayersOf
  <2>9. QED  BY <1>3, <2>1, <2>3, <2>8
<1>5. QED  BY <1>4

\* The account of the match a rank plays in.
LEMMA MatchOfIndex ==
  ASSUME OneLane, TypeOK, FirstRoundSeeded, status \in DrawnStatus,
         OpenNodes = MatchIds(Lanes, bracket_size), NEW k \in 0..(bracket_size \div 2 - 1)
  PROVE  \E m \in OpenNodes : /\ m.round = 0 /\ m.index = k
                              /\ \A o \in OpenNodes : o.round = 0 /\ o.index = k => o = m
<1>1. PICK lane : Lanes = {lane}  BY DEF OneLane
<1>2. bracket_size \in PowersOfTwo /\ bracket_size >= 2
  <2>1. participant_count \in MIN_PARTICIPANTS..MAX_PARTICIPANTS
    BY ParametersAssumption DEF FirstRoundSeeded, MIN_PARTICIPANTS, MAX_PARTICIPANTS
  <2>2. BracketSize(participant_count) \in PowersOfTwo
    BY <2>1, BracketSizeFits
  <2>3. participant_count <= BracketSize(participant_count)
    BY <2>1, BracketSizeFits
  <2>4. bracket_size = BracketSize(participant_count)  BY DEF FirstRoundSeeded
  <2>5. bracket_size \in {1, 2, 4, 8, 16, 32, 64, 128}  BY <2>2, <2>4, PowersListed
  <2>6. QED  BY <2>1, <2>2, <2>3, <2>4, <2>5 DEF MIN_PARTICIPANTS, MAX_PARTICIPANTS
<1>3. \A id : (id \in OpenNodes /\ id.round = 0)
        <=> \E i \in 0..(bracket_size \div 2 - 1) : id = [lane |-> lane, round |-> 0, index |-> i]
  <2>1. OpenNodes = MatchIds({lane}, bracket_size)  BY <1>1
  <2>2. \A id : (id \in MatchIds({lane}, bracket_size) /\ id.round = 0)
          <=> \E i \in 0..(bracket_size \div 2 - 1) : id = [lane |-> lane, round |-> 0, index |-> i]
    BY <1>2, RoundZero, Zenon
  <2>3. QED  BY <2>1, <2>2, Zenon
<1>4. PICK m : m = [lane |-> lane, round |-> 0, index |-> k]  OBVIOUS
<1>5. m \in OpenNodes /\ m.round = 0 /\ m.index = k  BY <1>3, <1>4
<1>6. ASSUME NEW o \in OpenNodes, o.round = 0, o.index = k
      PROVE  o = m
  BY <1>3, <1>4, <1>6
<1>7. QED  BY <1>5, <1>6

LEMMA DrawnOnce ==
  ASSUME OneLane, TypeOK, Numbered, FirstRoundSeeded
  PROVE  EveryEntrantDrawnOnce
<1> SUFFICES ASSUME BracketIntact
             PROVE  /\ \A p \in OpenParticipants :
                         Cardinality({m \in {n \in OpenNodes : n.round = 0} : p \in PlayersOf(m)}) = 1
                    /\ \A m \in {n \in OpenNodes : n.round = 0} :
                         PlayersOf(m) \subseteq OpenParticipants \cup {NoOne}
  BY Zenon DEF EveryEntrantDrawnOnce
<1>1. /\ status \in DrawnStatus /\ status # "None"
      /\ OpenNodes = MatchIds(Lanes, bracket_size)
      /\ Cardinality(OpenParticipants) = participant_count
  BY DEF BracketIntact, DrawnStatus
<1>2. OpenParticipants = Joined
  <2>1. Cardinality(Joined) = participant_count  BY <1>1 DEF Numbered
  <2>2. QED  BY <1>1, <2>1, JoinedFinite, FS_Subset
<1>3. ASSUME NEW p \in OpenParticipants
      PROVE  Cardinality({m \in {n \in OpenNodes : n.round = 0} : p \in PlayersOf(m)}) = 1
  <2>1. PICK k \in 0..(bracket_size \div 2 - 1) :
           \A m \in OpenNodes : m.round = 0 => (p \in PlayersOf(m) <=> m.index = k)
    BY <1>1, <1>2, FirstMatch
  <2>2. PICK m \in OpenNodes : /\ m.round = 0 /\ m.index = k
                               /\ \A o \in OpenNodes : o.round = 0 /\ o.index = k => o = m
    BY <1>1, MatchOfIndex
  <2>3. {o \in {n \in OpenNodes : n.round = 0} : p \in PlayersOf(o)} = {m}
    BY <2>1, <2>2
  <2>4. QED  BY <2>3, FS_Singleton
<1>4. ASSUME NEW m \in OpenNodes, m.round = 0
      PROVE  PlayersOf(m) \subseteq OpenParticipants \cup {NoOne}
  <2>1. Paired(m)  BY <1>1, <1>4 DEF FirstRoundSeeded
  <2>2. QED  BY <1>2, <2>1 DEF Paired, HoldsRank, PlayersOf
<1>5. QED  BY <1>3, <1>4

(***************************************************************************)
(* What a step of the program may be                                       *)
(***************************************************************************)
\* A step that writes no match, no number and no count.
Calm ==
    /\ UNCHANGED <<node, participant_count, bracket_size, matches_reported, champion,
                   settlement_mode>>
    /\ \A p \in Players : /\ participant'[p].account = participant[p].account
                          /\ participant'[p].seed_index = participant[p].seed_index
                          /\ participant'[p].wins = participant[p].wins
                          /\ participant'[p].losses = participant[p].losses
    /\ \/ status' = status
       \/ status # "None" /\ status' = "Cancelled"
       \/ status = "Active" /\ status' = "PartialCancelled"
    /\ status \in DrawnStatus => seed_hash' = seed_hash

\* A result, and whether the two players are credited with it.
Results(m, winner, trusted, signer) ==
    /\ FinalizeMatch(m, winner, trusted, signer)
    /\ \/ settlement_mode = "OrganizerOnly" /\ UNCHANGED participant
       \/ CreditMatchStats(m, winner)

Writes ==
    \/ \E mode, preset : CreateTournament(mode, preset)
    \/ \E p \in Players : JoinTournament(p)
    \/ \E ids \in SUBSET Matches, size \in PowersOfTwo, seed \in Seeds :
          StartTournament(ids, size, seed)
    \/ \E players \in SUBSET Players, nodes \in SUBSET Matches, closeRoot \in BOOLEAN :
          CloseTournament(players, nodes, closeRoot)
    \/ \E m \in Matches : \E winner, trusted, signer : Results(m, winner, trusted, signer)

\* start_tournament drew with the sealed seed.
LEMMA SeedIsSealed ==
  ASSUME FirstRoundSeeded, status \in DrawnStatus
  PROVE  bracket_size # 0
<1>1. participant_count \in MIN_PARTICIPANTS..MAX_PARTICIPANTS
  BY ParametersAssumption DEF FirstRoundSeeded, MIN_PARTICIPANTS, MAX_PARTICIPANTS
<1>2. BracketSize(participant_count) \in PowersOfTwo  BY <1>1, BracketSizeFits
<1>3. bracket_size = BracketSize(participant_count)  BY DEF FirstRoundSeeded
<1>4. bracket_size \in {1, 2, 4, 8, 16, 32, 64, 128}  BY <1>2, <1>3, PowersListed
<1>5. QED  BY <1>4

LEMMA LifecycleKinds ==
  ASSUME TypeOK, DrawnMeansSealed, FirstRoundSeeded, LifecycleStep
  PROVE  Calm \/ Writes
<1>1. CASE RequestSeed \/ \E seed \in Seeds : RevealSeed(seed)
  <2>1. UNCHANGED <<node, participant, participant_count, bracket_size, matches_reported,
                    champion, settlement_mode, status>>
    BY <1>1 DEF RequestSeed, RevealSeed, counters, matches, terms
  <2>2. status \in DrawnStatus => seed_hash' = seed_hash
    BY <1>1, SeedIsSealed DEF RequestSeed, RevealSeed, DrawnMeansSealed
  <2>3. QED  BY <2>1, <2>2 DEF Calm
<1>2. CASE \/ PartialCancelTournament
           \/ \E chunk \in SUBSET Players, withDeposit \in BOOLEAN :
                 \/ \E caller \in {Organizer, Relayer} :
                       CancelTournament(caller, chunk, withDeposit)
                 \/ PartialRefundChunk(chunk, withDeposit)
  <2>1. /\ UNCHANGED <<node, participant_count, bracket_size, matches_reported, champion,
                       settlement_mode, seed_hash>>
        /\ \/ status' = status
           \/ status # "None" /\ status' = "Cancelled"
           \/ status = "Active" /\ status' = "PartialCancelled"
    BY <1>2 DEF PartialCancelTournament, CancelTournament, PartialRefundChunk, tournament,
                counters, seeding, matches, terms
  <2>2. UNCHANGED participant
          \/ \E chunk \in SUBSET Players : \E withDeposit : RefundChunk(chunk, withDeposit)
    BY <1>2 DEF PartialCancelTournament, CancelTournament, PartialRefundChunk
  <2>3. \A p \in Players : /\ participant'[p].account = participant[p].account
                           /\ participant'[p].seed_index = participant[p].seed_index
                           /\ participant'[p].wins = participant[p].wins
                           /\ participant'[p].losses = participant[p].losses
    BY <2>2, RefundNumbers
  <2>4. QED  BY <2>1, <2>3 DEF Calm
<1>3. QED
  <2>1. CASE \/ \E mode \in Modes, preset \in Presets : CreateTournament(mode, preset)
             \/ \E p \in Players : JoinTournament(p)
             \/ \E ids \in SUBSET Matches, size \in PowersOfTwo, seed \in Seeds :
                   StartTournament(ids, size, seed)
    BY <2>1, Zenon DEF Writes
  <2>2. CASE \E players \in SUBSET Players :
               /\ Cardinality(players) <= MaxCloseChunk
               /\ \E nodes \in SUBSET Matches, closeRoot \in BOOLEAN :
                     CloseTournament(players, nodes, closeRoot)
    BY <2>2, Zenon DEF Writes
  <2>3. QED  BY <1>1, <1>2, <2>1, <2>2 DEF LifecycleStep

LEMMA SettlementKinds ==
  ASSUME NEW m \in Matches, SettlementStep(m)
  PROVE  Calm \/ Writes
<1>1. CASE \/ \E w \in Wallets : ReportResult(m, w)
           \/ \E p \in Players : ConfirmResult(m, p)
           \/ \E w \in Players : ResolveDispute(m, w)
           \/ ClaimResult(m) \/ ForceClaimDisputed(m) \/ SettleFinal(m)
  <2>1. \E winner, trusted, signer : Results(m, winner, trusted, signer)
    BY <1>1 DEF ReportResult, ConfirmResult, ResolveDispute, ClaimResult,
                ForceClaimDisputed, SettleFinal, Settle, Results
  <2>2. QED  BY <2>1, Zenon DEF Writes
<1>2. CASE \/ \E p, w \in Players : ProposeResult(m, p, w)
           \/ \E w \in Signers : DisputeResult(m, w)
           \/ CommitMatchLobby(m) \/ BindMatchFeed(m)
           \/ \E relayer \in Signers, value \in FeedValues :
                 ProposeResultOracle(m, relayer, value)
  <2>1. UNCHANGED <<tournament, participant, node>>
    BY <1>2 DEF ProposeResult, ProposeResultOracle, Propose, DisputeResult,
                CommitMatchLobby, BindMatchFeed
  <2>2. QED  BY <2>1 DEF Calm, tournament, counters, seeding, terms
<1>3. QED  BY <1>1, <1>2 DEF SettlementStep

LEMMA StepKinds ==
  ASSUME TypeOK, DrawnMeansSealed, FirstRoundSeeded, [Next]_vars
  PROVE  Calm \/ Writes
<1>1. CASE Tick \/ UNCHANGED vars
  BY <1>1 DEF Tick, vars, tournament, matches, counters, seeding, terms, Calm
<1>2. CASE LifecycleStep  BY <1>2, LifecycleKinds
<1>3. CASE \E m \in Matches : SettlementStep(m)  BY <1>3, SettlementKinds
<1>4. QED  BY <1>1, <1>2, <1>3 DEF Next

(***************************************************************************)
(* The winner of a match is one of its players, and a bye has one player.  *)
(***************************************************************************)
WinnersPlayed ==
    \A m \in OpenNodes :
        /\ node[m].winner # NoOne => node[m].winner \in PlayersOf(m)
        /\ node[m].bye => node[m].player_b = NoOne

\* The matches that were decided by playing them, and those of a player.
PlayedOut == {m \in OpenNodes \ Undecided : ~node[m].bye}
Won(p) == {m \in PlayedOut : p \in PlayersOf(m) /\ node[m].winner = p}
Lost(p) == {m \in PlayedOut : p \in PlayersOf(m) /\ node[m].winner # p}

\* No match of the bracket is missing.
Whole == OpenNodes = MatchIds(Lanes, bracket_size)

\* When the win and loss counters still have the matches they count.
ScoresKept ==
    /\ settlement_mode # "OrganizerOnly"
    /\ \/ status \in {"Registration", "PendingBracketInit", "Active"}
       \/ status \in {"Completed", "PartialCancelled"} /\ Whole

ScoreOf(p) == /\ participant[p].wins = Cardinality(Won(p))
              /\ participant[p].losses = Cardinality(Lost(p))

Scored == ScoresKept => \A p \in Joined : ScoreOf(p)

\* A step after which the same matches have been played keeps the score.
LEMMA SameScore ==
  ASSUME PlayedOut' = PlayedOut, \A m \in PlayedOut : node'[m] = node[m],
         NEW p, ScoreOf(p),
         participant'[p].wins = participant[p].wins, participant'[p].losses = participant[p].losses
  PROVE  ScoreOf(p)'
<1>1. Won(p)' = Won(p) /\ Lost(p)' = Lost(p)  BY DEF Won, Lost, PlayersOf
<1>2. QED  BY <1>1 DEF ScoreOf

LEMMA CalmScores ==
  ASSUME Calm, Scored, WinnersPlayed
  PROVE  Scored' /\ WinnersPlayed'
<1>1. /\ OpenNodes' = OpenNodes /\ node' = node /\ PlayedOut' = PlayedOut
      /\ UNCHANGED <<bracket_size, settlement_mode>>
  BY DEF Calm, OpenNodes, Undecided, PlayedOut
<1>2. WinnersPlayed'  BY <1>1 DEF WinnersPlayed, PlayersOf
<1>3. ScoresKept' => ScoresKept
  BY <1>1 DEF ScoresKept, Whole, Calm
<1>4. Joined' = Joined /\ Joined \subseteq Players  BY DEF Calm, Joined
<1>5. ASSUME NEW p \in Joined, ScoreOf(p)  PROVE ScoreOf(p)'
  BY <1>1, <1>4, <1>5, SameScore DEF Calm
<1>6. QED  BY <1>2, <1>3, <1>4, <1>5 DEF Scored

LEMMA JoinScores ==
  ASSUME Enrolled, BracketInv, Numbered, Scored, WinnersPlayed,
         NEW p \in Players, JoinTournament(p)
  PROVE  Scored' /\ WinnersPlayed'
<1>1. /\ status = "Registration" /\ status' = status
      /\ UNCHANGED <<node, bracket_size, settlement_mode>>
  BY DEF JoinTournament, matches, terms
<1>2. OpenNodes = {}  BY <1>1 DEF BracketInv, Field, NoLeftovers
<1>3. OpenNodes' = {}  BY <1>1, <1>2 DEF OpenNodes
<1>4. PlayedOut = {} /\ PlayedOut' = {}  BY <1>2, <1>3 DEF PlayedOut
<1>5. /\ Joined' = Joined \cup {p} /\ \A q \in Joined : participant'[q] = participant[q]
      /\ participant'[p].wins = 0 /\ participant'[p].losses = 0
  BY JoinNumbers
<1>6. ScoreOf(p)'
  <2>1. Won(p)' = {} /\ Lost(p)' = {}  BY <1>4 DEF Won, Lost
  <2>2. QED  BY <1>5, <2>1, FS_EmptySet DEF ScoreOf
<1>7. ASSUME NEW q \in Joined, ScoreOf(q)  PROVE ScoreOf(q)'
  BY <1>4, <1>5, <1>7, SameScore
<1>8. ScoresKept' => ScoresKept  BY <1>1 DEF ScoresKept
<1>9. Scored'  BY <1>5, <1>6, <1>7, <1>8 DEF Scored
<1>10. QED  BY <1>3, <1>9 DEF WinnersPlayed

LEMMA CreateScores ==
  ASSUME MaxIncarnations <= 1, Enrolled, BracketInv,
         NEW mode, NEW preset, CreateTournament(mode, preset)
  PROVE  Scored' /\ WinnersPlayed'
<1>1. incarnation = 0  BY ParametersAssumption DEF Enrolled, TypeOK, CreateTournament
<1>2. \A p \in Players : participant[p].account = "Absent"
  BY <1>1 DEF Enrolled, UnbornIsEmpty
<1>3. \A p \in Players : participant'[p] = NoParticipant
  BY <1>2 DEF CreateTournament
<1>4. Joined' = {}
  <2>1. \A p \in Players : participant'[p].account = "Absent"  BY <1>3 DEF NoParticipant
  <2>2. QED  BY <2>1 DEF Joined
<1>5. OpenNodes = {}  BY <1>1 DEF BracketInv, Field, NoLeftovers
<1>6. OpenNodes' = {}  BY <1>5 DEF OpenNodes, CreateTournament, matches
<1>7. QED  BY <1>4, <1>6 DEF Scored, WinnersPlayed

\* Matches that are written undecided, or as byes, are nobody's win or loss.
LEMMA StartScores ==
  ASSUME Validated, Enrolled, BracketInv, Scored, WinnersPlayed,
         NEW ids \in SUBSET Matches, NEW size, NEW seed, StartTournament(ids, size, seed)
  PROVE  Scored' /\ WinnersPlayed'
<1>1. /\ OpenNodes' = OpenNodes \cup ids /\ ids \cap OpenNodes = {}
      /\ \A m \in OpenNodes : node'[m] = node[m]
      /\ \A m \in ids : node'[m] \in DrawnNodes(m, size, seed)
      /\ UNCHANGED <<participant, settlement_mode>>
      /\ status \in {"Registration", "PendingBracketInit"}
      /\ status' \in {"Active", "PendingBracketInit"}
  <2>1. StartsChunk(ids, size, seed)  BY StartNodes
  <2>2. QED  BY <2>1 DEF StartsChunk
<1>2. \A m \in ids : (node'[m].status = "Completed") <=> node'[m].bye
  BY <1>1, DrawnShape
<1>3. PlayedOut' = PlayedOut /\ \A m \in PlayedOut : node'[m] = node[m]
  BY <1>1, <1>2 DEF PlayedOut, Undecided
<1>4. ASSUME NEW m \in ids
      PROVE  /\ node'[m].winner # NoOne => node'[m].winner \in PlayersOf(m)'
             /\ node'[m].bye => node'[m].player_b = NoOne
  <2>1. PICK d : node'[m] = NewNode(d)  BY <1>1 DEF DrawnNodes
  <2>2. QED  BY <2>1 DEF NewNode, PlayersOf
<1>5. WinnersPlayed'  BY <1>1, <1>4 DEF WinnersPlayed, PlayersOf
<1>6. Joined' = Joined  BY <1>1 DEF Joined
<1>7. ASSUME NEW p \in Joined, ScoreOf(p)  PROVE ScoreOf(p)'
  BY <1>1, <1>3, <1>7, SameScore
<1>8. ScoresKept' => ScoresKept  BY <1>1 DEF ScoresKept
<1>9. QED  BY <1>5, <1>6, <1>7, <1>8 DEF Scored

LEMMA CloseScores ==
  ASSUME Enrolled, FirstRoundSeeded, Scored, WinnersPlayed,
         NEW players \in SUBSET Players, NEW nodes \in SUBSET Matches, NEW closeRoot,
         CloseTournament(players, nodes, closeRoot)
  PROVE  Scored' /\ WinnersPlayed'
<1>1. /\ SameNumbers
      /\ \A p \in Players : /\ participant'[p].wins = participant[p].wins
                            /\ participant'[p].losses = participant[p].losses
      /\ OpenNodes' = OpenNodes \ nodes
      /\ \A m \in OpenNodes' : node'[m] = node[m]
  BY CloseNumbers DEF Enrolled, CloseTournament
<1>2. WinnersPlayed'  BY <1>1 DEF WinnersPlayed, PlayersOf
<1>3. /\ status \in TerminalStatus /\ status' \in {status, "None"}
      /\ settlement_mode' = settlement_mode
      /\ status' # "None" => bracket_size' = bracket_size
  BY DEF CloseTournament, NoTournament, terms, counters
<1>4. Joined' = Joined /\ Joined \subseteq Players
  BY <1>1 DEF Joined, SameNumbers
<1>5. ASSUME ScoresKept'
      PROVE  ScoresKept /\ OpenNodes' = OpenNodes
  <2>1. status \in {"Completed", "PartialCancelled"} /\ Whole'
    BY <1>3, <1>5 DEF ScoresKept, TerminalStatus
  <2>2. status' # "None"  BY <1>5 DEF ScoresKept
  <2>3. OpenNodes' = MatchIds(Lanes, bracket_size)  BY <1>3, <2>1, <2>2 DEF Whole
  <2>4. OpenNodes \subseteq MatchIds(Lanes, bracket_size)
    BY <2>1 DEF FirstRoundSeeded, DrawnStatus
  <2>5. OpenNodes' = OpenNodes  BY <1>1, <2>3, <2>4
  <2>6. QED  BY <1>3, <1>5, <2>1, <2>3, <2>5 DEF ScoresKept, Whole
<1>6. ASSUME ScoresKept', NEW p \in Joined
      PROVE  ScoreOf(p)'
  <2>1. ScoreOf(p)  BY <1>5, <1>6 DEF Scored
  <2>2. PlayedOut' = PlayedOut /\ \A m \in PlayedOut : node'[m] = node[m]
    BY <1>1, <1>5, <1>6 DEF PlayedOut, Undecided
  <2>3. QED  BY <1>1, <1>4, <2>1, <2>2, SameScore
<1>7. QED  BY <1>2, <1>4, <1>6 DEF Scored

\* credit_match_stats books the match that is being decided, once on each side.
LEMMA CreditCounts ==
  ASSUME TypeOK, NEW m, NEW winner, CreditMatchStats(m, winner), winner \in PlayersOf(m)
  PROVE  \A p \in Players :
           /\ participant'[p].wins = participant[p].wins + (IF p = winner THEN 1 ELSE 0)
           /\ participant'[p].losses
                = participant[p].losses + (IF p \in PlayersOf(m) \ {winner} THEN 1 ELSE 0)
<1>1. participant \in [Players -> Participant]  BY DEF TypeOK
<1>2. participant' = [p \in Players |->
           CASE p = winner -> [participant[p] EXCEPT !.wins = @ + 1]
             [] p \in PlayersOf(m) \ {winner} -> [participant[p] EXCEPT !.losses = @ + 1]
             [] OTHER -> participant[p]]
  BY DEF CreditMatchStats
<1>3. ASSUME NEW p \in Players
      PROVE  /\ participant'[p].wins = participant[p].wins + (IF p = winner THEN 1 ELSE 0)
             /\ participant'[p].losses
                  = participant[p].losses + (IF p \in PlayersOf(m) \ {winner} THEN 1 ELSE 0)
  <2>1. participant[p] \in Participant  BY <1>1
  <2>2. participant[p].wins \in Nat /\ participant[p].losses \in Nat  BY <2>1 DEF Participant
  <2>3. CASE p = winner
    <3>1. participant'[p] = [participant[p] EXCEPT !.wins = @ + 1]  BY <1>2, <2>3
    <3>2. QED  BY <2>1, <2>2, <2>3, <3>1 DEF Participant
  <2>4. CASE p \in PlayersOf(m) \ {winner}
    <3>1. participant'[p] = [participant[p] EXCEPT !.losses = @ + 1]  BY <1>2, <2>4
    <3>2. QED  BY <2>1, <2>2, <2>4, <3>1 DEF Participant
  <2>5. CASE p \notin PlayersOf(m)
    <3>1. participant'[p] = participant[p]  BY <1>2, <2>5
    <3>2. QED  BY <2>2, <2>5, <3>1
  <2>6. QED  BY <2>3, <2>4, <2>5
<1>4. QED  BY <1>3

LEMMA PlayedFinite ==
  ASSUME NEW p
  PROVE  /\ IsFiniteSet(Won(p)) /\ Cardinality(Won(p)) \in Nat
         /\ IsFiniteSet(Lost(p)) /\ Cardinality(Lost(p)) \in Nat
<1>1. Won(p) \subseteq OpenNodes \ Undecided /\ Lost(p) \subseteq OpenNodes \ Undecided
  BY DEF Won, Lost, PlayedOut
<1>2. QED  BY <1>1, OpenNodesFinite, FS_Subset, FS_CardinalityType

\* A result is one more match played, won by its winner and lost by the other player.
LEMMA DecidedScore ==
  ASSUME Sound, NEW m, NEW winner, DecidesMatch(m, winner), NEW p
  PROVE  /\ Cardinality(Won(p)') = Cardinality(Won(p)) + (IF p = winner THEN 1 ELSE 0)
         /\ Cardinality(Lost(p)')
              = Cardinality(Lost(p)) + (IF p \in PlayersOf(m) \ {winner} THEN 1 ELSE 0)
<1>1. /\ m \in OpenNodes /\ ~node[m].bye /\ m \in Undecided /\ winner \in PlayersOf(m)
      /\ OpenNodes' = OpenNodes /\ Undecided' = Undecided \ {m}
      /\ node'[m].winner = winner
      /\ \A n \in OpenNodes :
           /\ node'[n].bye = node[n].bye
           /\ n # m => node'[n].winner = node[n].winner
           /\ n.round = 0 \/ n = m \/ node[n].status = "Completed" =>
                node'[n].player_a = node[n].player_a /\ node'[n].player_b = node[n].player_b
  BY DEF DecidesMatch
<1>2. m \notin PlayedOut /\ PlayedOut' = PlayedOut \cup {m}
  BY <1>1 DEF PlayedOut, Undecided
<1>3. /\ PlayersOf(m)' = PlayersOf(m)
      /\ \A n \in PlayedOut : /\ PlayersOf(n)' = PlayersOf(n)
                              /\ node'[n].winner = node[n].winner
  BY <1>1, <1>2 DEF PlayersOf, PlayedOut, Undecided
<1>4. /\ Won(p)' = Won(p) \cup (IF p = winner THEN {m} ELSE {})
      /\ Lost(p)' = Lost(p) \cup (IF p \in PlayersOf(m) \ {winner} THEN {m} ELSE {})
  BY <1>1, <1>2, <1>3 DEF Won, Lost
<1>5. m \notin Won(p) /\ m \notin Lost(p)  BY <1>2 DEF Won, Lost
<1>6. /\ Cardinality(Won(p) \cup {m}) = Cardinality(Won(p)) + 1
      /\ Cardinality(Lost(p) \cup {m}) = Cardinality(Lost(p)) + 1
  BY <1>5, PlayedFinite, FS_AddElement
<1>7. Cardinality(Won(p)) \in Nat /\ Cardinality(Lost(p)) \in Nat  BY PlayedFinite
<1>8. QED  BY <1>4, <1>6, <1>7

LEMMA DecidedWinners ==
  ASSUME TypeOK, Sound, WinnersPlayed, NEW m, NEW winner, DecidesMatch(m, winner)
  PROVE  WinnersPlayed'
<1>1. /\ m \in OpenNodes /\ ~node[m].bye /\ winner \in PlayersOf(m)
      /\ OpenNodes' = OpenNodes /\ node'[m].winner = winner
      /\ \A n \in OpenNodes :
           /\ node'[n].bye = node[n].bye
           /\ n # m => node'[n].winner = node[n].winner
           /\ n.round = 0 \/ n = m \/ node[n].status = "Completed" =>
                node'[n].player_a = node[n].player_a /\ node'[n].player_b = node[n].player_b
  BY DEF DecidesMatch
<1>2. \A n \in OpenNodes : node[n].status = "Completed" => PlayersOf(n)' = PlayersOf(n)
  BY <1>1 DEF PlayersOf
<1>3. PlayersOf(m)' = PlayersOf(m)  BY <1>1 DEF PlayersOf
<1>4. ASSUME NEW n \in OpenNodes, n # m
      PROVE  /\ node'[n].winner # NoOne => node'[n].winner \in PlayersOf(n)'
             /\ node'[n].bye => node'[n].player_b = NoOne
  <2>1. SoundMatch(node[n], n.round)  BY DEF Sound
  <2>2. node[n].status = "Completed" \/ (node[n].winner = NoOne /\ ~node[n].bye)
    <3>1. node[n].status \in {"Pending", "Active", "Completed"}
      BY DEF TypeOK, MatchNode, OpenNodes
    <3>2. CASE node[n].status \in {"Pending", "Active"}  BY <2>1, <3>2 DEF SoundMatch
    <3>3. QED  BY <3>1, <3>2
  <2>3. CASE node[n].status = "Completed"
    BY <1>1, <1>2, <1>4, <2>3 DEF WinnersPlayed
  <2>4. CASE node[n].winner = NoOne /\ ~node[n].bye
    BY <1>1, <1>4, <2>4
  <2>5. QED  BY <2>2, <2>3, <2>4
<1>5. QED  BY <1>1, <1>3, <1>4 DEF WinnersPlayed

LEMMA ResultScores ==
  ASSUME OneLane, Enrolled, BracketInv, Scored, WinnersPlayed, TypeOK',
         NEW m \in Matches, NEW winner, NEW trusted, NEW signer,
         Results(m, winner, trusted, signer)
  PROVE  Scored' /\ WinnersPlayed'
<1>1. DecidesMatch(m, winner)  BY FinalizeNodes DEF Results
<1>2. TypeOK /\ Sound  BY DEF Enrolled, BracketInv
<1>3. WinnersPlayed'  BY <1>1, <1>2, DecidedWinners
<1>4. status = "Active" /\ settlement_mode' = settlement_mode /\ winner \in PlayersOf(m)
  BY <1>1 DEF DecidesMatch
<1>5. ASSUME settlement_mode # "OrganizerOnly", NEW p \in Joined'
      PROVE  ScoreOf(p)'
  <2>1. CreditMatchStats(m, winner)  BY <1>5 DEF Results
  <2>2. Joined' = Joined /\ p \in Players
    <3>1. \A q \in Players : participant'[q].account = participant[q].account
      BY <1>2, <2>1 DEF CreditMatchStats, TypeOK, Participant
    <3>2. QED  BY <3>1, <1>5 DEF Joined
  <2>3. ScoreOf(p)  BY <1>4, <1>5, <2>2 DEF Scored, ScoresKept
  <2>4. /\ participant'[p].wins = participant[p].wins + (IF p = winner THEN 1 ELSE 0)
        /\ participant'[p].losses
             = participant[p].losses + (IF p \in PlayersOf(m) \ {winner} THEN 1 ELSE 0)
    BY <1>2, <1>4, <2>1, <2>2, CreditCounts
  <2>5. /\ Cardinality(Won(p)') = Cardinality(Won(p)) + (IF p = winner THEN 1 ELSE 0)
        /\ Cardinality(Lost(p)')
             = Cardinality(Lost(p)) + (IF p \in PlayersOf(m) \ {winner} THEN 1 ELSE 0)
    BY <1>1, <1>2, DecidedScore
  <2>6. QED  BY <2>3, <2>4, <2>5 DEF ScoreOf
<1>6. Scored'  BY <1>4, <1>5 DEF Scored, ScoresKept
<1>7. QED  BY <1>3, <1>6

(***************************************************************************)
(* The way of a player through a whole bracket                             *)
(***************************************************************************)
Standing ==
    /\ TypeOK /\ Numbered /\ FirstRoundSeeded /\ WinnersPlayed /\ Sound /\ Mirrored
    /\ status \in DrawnStatus /\ Whole

LEMMA WholeBracket ==
  ASSUME FirstRoundSeeded, status \in DrawnStatus
  PROVE  bracket_size \in PowersOfTwo /\ bracket_size >= 2
<1>1. participant_count \in MIN_PARTICIPANTS..MAX_PARTICIPANTS
  BY ParametersAssumption DEF FirstRoundSeeded, MIN_PARTICIPANTS, MAX_PARTICIPANTS
<1>2. BracketSize(participant_count) \in PowersOfTwo
      /\ participant_count <= BracketSize(participant_count)
  BY <1>1, BracketSizeFits
<1>3. bracket_size = BracketSize(participant_count)  BY DEF FirstRoundSeeded
<1>4. bracket_size \in {1, 2, 4, 8, 16, 32, 64, 128}  BY <1>2, <1>3, PowersListed
<1>5. QED  BY <1>1, <1>2, <1>3, <1>4 DEF MIN_PARTICIPANTS, MAX_PARTICIPANTS

\* A player of a later match won the match it is fed by.
LEMMA CameFrom ==
  ASSUME Standing, NEW b \in OpenNodes, b.round # 0, NEW p \in PlayersOf(b), p # NoOne
  PROVE  \E c \in OpenNodes : /\ FeedsInto(c, b) /\ node[c].winner = p /\ p \in PlayersOf(c)
                              /\ (IsLeftChild(c) <=> node[b].player_a = p)
<1>1. bracket_size \in PowersOfTwo /\ OpenNodes = MatchIds(Lanes, bracket_size)
  BY WholeBracket DEF Standing, Whole
<1>2. PICK left \in BOOLEAN : left <=> node[b].player_a = p  OBVIOUS
<1>3. Slot(b, left) = p  BY <1>2 DEF Slot, PlayersOf
<1>4. PICK c \in OpenNodes : FeedsInto(c, b) /\ (IsLeftChild(c) <=> left)
  BY <1>1, FeedersExist
<1>5. node[c].winner = p
  <2>1. node[c].winner = Slot(b, IsLeftChild(c))  BY <1>4 DEF Standing, Mirrored
  <2>2. Slot(b, IsLeftChild(c)) = Slot(b, left)  BY <1>4 DEF Slot
  <2>3. QED  BY <1>3, <2>1, <2>2
<1>6. p \in PlayersOf(c)  BY <1>5 DEF Standing, WinnersPlayed
<1>7. QED  BY <1>2, <1>4, <1>5, <1>6

(***************************************************************************)
(* A player has at most one match in a round, and won every earlier one.   *)
(***************************************************************************)
ClimbsTo(p, k) ==
    \A a, b \in OpenNodes :
        p \in PlayersOf(a) /\ p \in PlayersOf(b) /\ b.round = k =>
            /\ a.round = k => a = b
            /\ a.round < k => node[a].winner = p

LEMMA ClimbsFromTheFirst ==
  ASSUME OneLane, Standing, NEW p \in Joined
  PROVE  ClimbsTo(p, 0)
<1>1. PICK k \in 0..(bracket_size \div 2 - 1) :
        \A m \in OpenNodes : m.round = 0 => (p \in PlayersOf(m) <=> m.index = k)
  BY FirstMatch DEF Standing
<1>2. PICK one \in OpenNodes : \A o \in OpenNodes : o.round = 0 /\ o.index = k => o = one
  BY <1>1, MatchOfIndex DEF Standing, Whole
<1>3. \A m \in OpenNodes : m.round \in Nat  BY MatchTypes DEF OpenNodes
<1>4. QED  BY <1>1, <1>2, <1>3 DEF ClimbsTo

LEMMA ClimbsHigher ==
  ASSUME OneLane, Standing, NEW p \in Joined, NEW k \in Nat, ClimbsTo(p, k)
  PROVE  ClimbsTo(p, k + 1)
<1> SUFFICES ASSUME NEW a \in OpenNodes, NEW b \in OpenNodes,
                    p \in PlayersOf(a), p \in PlayersOf(b), b.round = k + 1
             PROVE  (a.round = k + 1 => a = b) /\ (a.round < k + 1 => node[a].winner = p)
  BY DEF ClimbsTo
<1>1. p # NoOne  BY PartiesAssumption, JoinedFinite, WalletTypes
<1>2. OpenNodes \subseteq Matches /\ \A m \in OpenNodes : m.round \in Nat
  BY MatchTypes DEF OpenNodes
<1>3. PICK c \in OpenNodes : /\ FeedsInto(c, b) /\ node[c].winner = p /\ p \in PlayersOf(c)
                            /\ (IsLeftChild(c) <=> node[b].player_a = p)
  BY <1>1, CameFrom
<1>4. c.round = k  BY <1>2, <1>3 DEF FeedsInto
<1>5. ASSUME a.round = k + 1
      PROVE  a = b
  <2>1. PICK d \in OpenNodes : /\ FeedsInto(d, a) /\ node[d].winner = p /\ p \in PlayersOf(d)
                              /\ (IsLeftChild(d) <=> node[a].player_a = p)
    BY <1>1, <1>5, CameFrom
  <2>2. d.round = k  BY <1>2, <1>5, <2>1 DEF FeedsInto
  <2>3. c = d  BY <1>3, <1>4, <2>1, <2>2 DEF ClimbsTo
  <2>4. QED  BY <1>2, <1>3, <2>1, <2>3, OneFeeder
<1>6. ASSUME a.round < k + 1
      PROVE  node[a].winner = p
  <2>1. CASE a.round = k  BY <1>3, <1>4, <2>1 DEF ClimbsTo
  <2>2. CASE a.round < k  BY <1>3, <1>4, <2>2 DEF ClimbsTo
  <2>3. QED  BY <1>2, <1>6, <2>1, <2>2
<1>7. QED  BY <1>5, <1>6

LEMMA Climbs ==
  ASSUME OneLane, Standing, NEW p \in Joined
  PROVE  \A k \in Nat : ClimbsTo(p, k)
<1>1. PICK H : H = {k \in Nat : ClimbsTo(p, k)}  OBVIOUS
<1>2. 0 \in H  BY <1>1, ClimbsFromTheFirst
<1>3. \A k \in Nat : k \in H => k + 1 \in H  BY <1>1, ClimbsHigher
<1>4. \A k \in Nat : k \in H  BY <1>2, <1>3, Counting
<1>5. QED  BY <1>1, <1>4

\* Of the matches he did not win a player has at most one.
LEMMA OneNotWon ==
  ASSUME OneLane, Standing, NEW p \in Joined, NEW a \in OpenNodes, NEW b \in OpenNodes,
         p \in PlayersOf(a), p \in PlayersOf(b), node[a].winner # p, node[b].winner # p
  PROVE  a = b
<1>1. a.round \in Nat /\ b.round \in Nat  BY MatchTypes DEF OpenNodes
<1>2. ClimbsTo(p, a.round) /\ ClimbsTo(p, b.round)  BY <1>1, Climbs
<1>3. a.round = b.round \/ a.round < b.round \/ b.round < a.round  BY <1>1
<1>4. QED  BY <1>2, <1>3 DEF ClimbsTo

LEMMA AtMostOne ==
  ASSUME NEW S, \A x, y \in S : x = y
  PROVE  IsFiniteSet(S) /\ Cardinality(S) <= 1
<1>1. CASE S = {}  BY <1>1, FS_EmptySet
<1>2. CASE S # {}
  <2>1. PICK x \in S : TRUE  BY <1>2
  <2>2. S = {x}  BY <2>1
  <2>3. IsFiniteSet({x}) /\ Cardinality({x}) = 1  BY FS_Singleton
  <2>4. QED  BY <2>2, <2>3
<1>3. QED  BY <1>1, <1>2

LEMMA Eliminated ==
  ASSUME OneLane, TypeOK, Numbered, FirstRoundSeeded, WinnersPlayed, Sound, Mirrored, Scored
  PROVE  SingleElimination
<1> SUFFICES ASSUME BracketIntact, settlement_mode # "OrganizerOnly", NEW p \in OpenParticipants,
                    NEW played, played = {m \in OpenNodes \ Undecided :
                                            p \in PlayersOf(m) /\ ~node[m].bye},
                    NEW won, won = {m \in played : node[m].winner = p},
                    NEW ahead, ahead = {m \in Undecided : p \in PlayersOf(m)}
             PROVE  /\ participant[p].wins = Cardinality(won)
                    /\ participant[p].losses = Cardinality(played \ won)
                    /\ participant[p].losses + Cardinality(ahead) <= 1
  BY DEF SingleElimination
<1>1. /\ status \in {"Active", "Completed", "PartialCancelled"} /\ status \in DrawnStatus
      /\ Whole /\ p \in Joined /\ p # NoOne
  BY PartiesAssumption, WalletTypes, JoinedFinite DEF BracketIntact, DrawnStatus, Whole
<1>2. Standing  BY <1>1 DEF Standing
<1>3. ScoreOf(p)  BY <1>1 DEF Scored, ScoresKept
<1>4. won = Won(p) /\ played \ won = Lost(p)  BY DEF Won, Lost, PlayedOut
<1>5. Undecided \subseteq OpenNodes /\ \A m \in Undecided : node[m].winner = NoOne
  <2>1. \A m \in OpenNodes : node[m].status \in {"Pending", "Active", "Completed"}
    BY DEF TypeOK, MatchNode, OpenNodes
  <2>2. QED  BY <2>1 DEF Undecided, Sound, SoundMatch
<1>6. \A a, b \in Lost(p) \cup ahead : a = b
  <2>1. \A a \in Lost(p) \cup ahead :
          a \in OpenNodes /\ p \in PlayersOf(a) /\ node[a].winner # p
    BY <1>1, <1>5 DEF Lost, PlayedOut
  <2>2. QED  BY <1>1, <1>2, <2>1, OneNotWon
<1>7. Cardinality(Lost(p) \cup ahead) <= 1  BY <1>6, AtMostOne
<1>8. IsFiniteSet(Lost(p)) /\ IsFiniteSet(ahead)
  BY <1>6, AtMostOne
<1>9. Cardinality(Lost(p) \cup ahead) = Cardinality(Lost(p)) + Cardinality(ahead)
  <2>1. \A x \in Lost(p) : x \notin ahead  BY DEF Lost, PlayedOut
  <2>2. QED  BY <1>8, <2>1, DisjointUnion
<1>10. QED  BY <1>3, <1>4, <1>7, <1>9 DEF ScoreOf

(***************************************************************************)
(* Completion                                                              *)
(***************************************************************************)
\* When the final has its two players, no other match is left to play.
LEMMA OnlyTheFinalIsLeft ==
  ASSUME OneLane, TypeOK, FirstRoundSeeded, Sound, Mirrored, status \in DrawnStatus, Whole,
         NEW m \in OpenNodes, IsFinal(m, bracket_size), NoOne \notin PlayersOf(m)
  PROVE  \A n \in OpenNodes : n # m => n \notin Undecided
<1> DEFINE Size == bracket_size
           Behind == {MaxRound(Size) - n.round : n \in Undecided \ {m}}
<1>1. Size \in PowersOfTwo /\ OpenNodes = MatchIds(Lanes, Size)  BY WholeBracket DEF Whole
<1>2. OpenNodes \subseteq Matches /\ Undecided \subseteq OpenNodes
  BY DEF OpenNodes, Undecided
<1>3. \A n \in OpenNodes : MaxRound(Size) - n.round \in Nat /\ n.round \in Nat
  BY <1>1, MatchFields, RoundsListed
<1>4. SUFFICES ASSUME Undecided \ {m} # {}  PROVE FALSE
  OBVIOUS
<1>5. PICK n \in Undecided \ {m} :
        \A o \in Undecided \ {m} : MaxRound(Size) - n.round <= MaxRound(Size) - o.round
  <2>1. Behind \in SUBSET Nat /\ Behind # {}  BY <1>2, <1>3, <1>4
  <2>2. PICK x \in Behind : \A y \in Behind : x <= y  BY <2>1, LeastNumber
  <2>3. QED  BY <2>2
<1>6. ~IsFinal(n, Size)  BY <1>2, <1>5, OneFinal
<1>7. PICK next \in OpenNodes : FeedsInto(n, next)  BY <1>1, <1>2, <1>5, <1>6, ParentExists
<1>8. next.round = n.round + 1  BY <1>7 DEF FeedsInto
<1>9. node[n].winner = NoOne
  <2>1. node[n].status \in {"Pending", "Active"}
    BY <1>2, <1>5 DEF TypeOK, MatchNode, OpenNodes, Undecided
  <2>2. QED  BY <1>2, <1>5, <2>1 DEF Sound, SoundMatch
<1>10. NoOne \in PlayersOf(next)
  <2>1. node[n].winner = Slot(next, IsLeftChild(n))  BY <1>2, <1>5, <1>7 DEF Mirrored
  <2>2. QED  BY <1>9, <2>1 DEF Slot, PlayersOf
<1>11. next # m  BY <1>10
<1>12. next \in Undecided
  <2>1. SoundMatch(node[next], next.round)  BY DEF Sound
  <2>2. next.round # 0  BY <1>3, <1>5, <1>2, <1>8
  <2>3. node[next].status # "Completed"  BY <1>10, <2>1, <2>2 DEF SoundMatch, PlayersOf
  <2>4. QED  BY <2>3 DEF Undecided
<1>13. MaxRound(Size) - n.round <= MaxRound(Size) - next.round  BY <1>5, <1>11, <1>12
<1>14. MaxRound(Size) \in Int  BY <1>1, RoundsListed
<1>15. QED  BY <1>2, <1>3, <1>5, <1>8, <1>13, <1>14

\* A player who was not beaten is in every round of a bracket that is played out.
InRound(p, k) == \E n \in OpenNodes : n.round = k /\ p \in PlayersOf(n)

LEMMA UnbeatenWinsAll ==
  ASSUME Standing, Undecided = {}, NEW p, p # NoOne, Lost(p) = {},
         NEW n \in OpenNodes, p \in PlayersOf(n)
  PROVE  node[n].winner = p
<1>1. CASE node[n].bye
  <2>1. node[n].player_b = NoOne  BY <1>1 DEF Standing, WinnersPlayed
  <2>2. node[n].player_a = p  BY <2>1 DEF PlayersOf
  <2>3. node[n].status = "Completed"  BY DEF Undecided
  <2>4. node[n].winner # NoOne  BY <2>3 DEF Standing, Sound, SoundMatch
  <2>5. node[n].winner \in PlayersOf(n)  BY <2>4 DEF Standing, WinnersPlayed
  <2>6. QED  BY <2>1, <2>2, <2>4, <2>5 DEF PlayersOf
<1>2. CASE ~node[n].bye
  BY <1>2 DEF Lost, PlayedOut
<1>3. QED  BY <1>1, <1>2

LEMMA UnbeatenGoesOn ==
  ASSUME OneLane, Standing, Undecided = {}, NEW p, p # NoOne, Lost(p) = {},
         NEW k \in Nat, k + 1 < MaxRound(bracket_size), InRound(p, k)
  PROVE  InRound(p, k + 1)
<1>1. PICK n \in OpenNodes : n.round = k /\ p \in PlayersOf(n)  BY DEF InRound
<1>2. node[n].winner = p  BY <1>1, UnbeatenWinsAll
<1>3. bracket_size \in PowersOfTwo /\ OpenNodes = MatchIds(Lanes, bracket_size)
  BY WholeBracket DEF Standing, Whole
<1>4. MaxRound(bracket_size) \in Int  BY <1>3, RoundsListed
<1>5. ~IsFinal(n, bracket_size)  BY <1>1, <1>4 DEF IsFinal
<1>6. PICK next \in OpenNodes : FeedsInto(n, next)  BY <1>3, <1>5, ParentExists
<1>7. p \in PlayersOf(next)
  <2>1. node[n].winner = Slot(next, IsLeftChild(n))  BY <1>6 DEF Standing, Mirrored
  <2>2. QED  BY <1>2, <2>1 DEF Slot, PlayersOf
<1>8. QED  BY <1>1, <1>6, <1>7 DEF FeedsInto, InRound

LEMMA UnbeatenIsEverywhere ==
  ASSUME OneLane, Standing, Undecided = {}, NEW p \in Joined, Lost(p) = {}
  PROVE  \A k \in Nat : k < MaxRound(bracket_size) => InRound(p, k)
<1>1. p # NoOne  BY PartiesAssumption, JoinedFinite, WalletTypes
<1>2. InRound(p, 0)
  <2>1. PICK k \in 0..(bracket_size \div 2 - 1) :
          \A m \in OpenNodes : m.round = 0 => (p \in PlayersOf(m) <=> m.index = k)
    BY FirstMatch DEF Standing
  <2>2. PICK one \in OpenNodes : one.round = 0 /\ one.index = k
    BY <2>1, MatchOfIndex DEF Standing, Whole
  <2>3. QED  BY <2>1, <2>2 DEF InRound
<1>3. MaxRound(bracket_size) \in Int
  <2>1. bracket_size \in PowersOfTwo  BY WholeBracket DEF Standing
  <2>2. QED  BY <2>1, RoundsListed
<1>4. PICK H : H = {k \in Nat : k < MaxRound(bracket_size) => InRound(p, k)}  OBVIOUS
<1>5. 0 \in H  BY <1>2, <1>4
<1>6. \A k \in Nat : k \in H => k + 1 \in H
  <2>1. SUFFICES ASSUME NEW k \in Nat, k \in H, k + 1 < MaxRound(bracket_size)
                 PROVE  InRound(p, k + 1)
    BY <1>4
  <2>2. InRound(p, k)  BY <1>3, <1>4, <2>1
  <2>3. QED  BY <1>1, <2>1, <2>2, UnbeatenGoesOn
<1>7. \A k \in Nat : k \in H  BY <1>5, <1>6, Counting
<1>8. QED  BY <1>4, <1>7

\* Whoever was not beaten won the final.
UnbeatenWon ==
    \A p \in Joined : Lost(p) = {} =>
        \A m \in OpenNodes : IsFinal(m, bracket_size) => node[m].winner = p

LEMMA TheUnbeatenWins ==
  ASSUME OneLane, Standing, Undecided = {}
  PROVE  UnbeatenWon
<1> SUFFICES ASSUME NEW p \in Joined, Lost(p) = {},
                    NEW m \in OpenNodes, IsFinal(m, bracket_size)
             PROVE  node[m].winner = p
  BY DEF UnbeatenWon
<1>1. p # NoOne  BY PartiesAssumption, JoinedFinite, WalletTypes
<1>2. bracket_size \in PowersOfTwo /\ OpenNodes = MatchIds(Lanes, bracket_size)
  BY WholeBracket DEF Standing, Whole
<1>3. m.round \in Nat /\ m.round < MaxRound(bracket_size)  BY <1>2, MatchFields
<1>4. PICK n \in OpenNodes : n.round = m.round /\ p \in PlayersOf(n)
  BY <1>3, UnbeatenIsEverywhere DEF InRound
<1>5. n = m
  <2>1. n.index \in Nat /\ MatchesInRound(bracket_size, n.round) = 1
    BY <1>2, <1>3, <1>4, RoundsHalve, RoundsListed, MatchFields DEF IsFinal
  <2>2. n.index < 1  BY <1>2, <2>1 DEF MatchIds
  <2>3. IsFinal(n, bracket_size)  BY <1>4, <2>1, <2>2 DEF IsFinal
  <2>4. QED  BY <2>3, OneFinal DEF OpenNodes
<1>6. QED  BY <1>1, <1>4, <1>5, UnbeatenWinsAll

NothingLeft == Undecided = {}

LEMMA UnbeatenState ==
  ASSUME OneLane
  PROVE  Standing /\ NothingLeft => UnbeatenWon
BY TheUnbeatenWins DEF NothingLeft

\* The same, of the state a step leads to.
LEMMA UnbeatenNext ==
  ASSUME OneLane
  PROVE  Standing' /\ NothingLeft' => UnbeatenWon'
BY UnbeatenState, PTL

(***************************************************************************)
(* The settlement of the final finds every other match decided and counted.*)
(***************************************************************************)
LEMMA LastResult ==
  ASSUME OneLane, Enrolled, BracketInv, BoardInv, FirstRoundSeeded,
         NEW m, NEW winner, DecidesMatch(m, winner), IsFinal(m, bracket_size)
  PROVE  /\ matches_reported' = bracket_size - 1 /\ NothingLeft' /\ Whole'
         /\ status' \in DrawnStatus
<1>1. /\ m \in OpenNodes /\ m \in Undecided /\ NoOne \notin PlayersOf(m)
      /\ status = "Active" /\ status' \in {"Active", "Completed"}
      /\ OpenNodes' = OpenNodes /\ Undecided' = Undecided \ {m}
      /\ UNCHANGED <<participant_count, bracket_size>>
      /\ matches_reported' = matches_reported + 1
  BY DEF DecidesMatch
<1>2. status \in DrawnStatus /\ status' \in DrawnStatus  BY <1>1 DEF DrawnStatus
<1>3. /\ OpenNodes = MatchIds(Lanes, bracket_size)
      /\ matches_reported = Cardinality(OpenNodes \ Undecided)
  BY <1>1 DEF BoardInv, Tallied, Counted
<1>4. Undecided = {m}
  <2>1. \A n \in OpenNodes : n # m => n \notin Undecided
    BY <1>1, <1>2, <1>3, OnlyTheFinalIsLeft DEF Enrolled, BracketInv, Whole
  <2>2. QED  BY <1>1, <2>1 DEF Undecided
<1>5. NothingLeft'  BY <1>1, <1>4 DEF NothingLeft
<1>6. PICK lane : Lanes = {lane}  BY DEF OneLane
<1>7. bracket_size \in PowersOfTwo /\ bracket_size >= 2  BY <1>2, WholeBracket
<1>8. Cardinality(OpenNodes) = bracket_size - 1 /\ IsFiniteSet(OpenNodes)
  BY <1>3, <1>6, <1>7, OneLessThanItsSlots
<1>9. Cardinality(OpenNodes \ {m}) = Cardinality(OpenNodes) - 1
  BY <1>1, <1>8, FS_RemoveElement
<1>10. bracket_size \in Nat
  <2>1. bracket_size \in {1, 2, 4, 8, 16, 32, 64, 128}  BY <1>7, PowersListed
  <2>2. QED  BY <2>1
<1>11. matches_reported' = bracket_size - 1  BY <1>1, <1>3, <1>4, <1>8, <1>9, <1>10
<1>12. Whole'  BY <1>1, <1>3 DEF Whole
<1>13. QED  BY <1>2, <1>5, <1>11, <1>12

AllDecided ==
    status = "Completed" =>
        /\ matches_reported = bracket_size - 1
        /\ Undecided = {}
        /\ settlement_mode # "OrganizerOnly" =>
             {p \in OpenParticipants : participant[p].losses = 0} \subseteq {champion}

LEMMA ResultCompletes ==
  ASSUME OneLane, Enrolled, BracketInv, BoardInv, FirstRoundSeeded,
         TypeOK', BracketInv', Numbered', FirstRoundSeeded', WinnersPlayed', Scored',
         NEW m, NEW winner, DecidesMatch(m, winner)
  PROVE  AllDecided'
<1> SUFFICES ASSUME status' = "Completed"
             PROVE  /\ matches_reported' = bracket_size' - 1
                    /\ Undecided' = {}
                    /\ settlement_mode' # "OrganizerOnly" =>
                         \A p \in OpenParticipants' : participant'[p].losses = 0 => p = champion'
  BY DEF AllDecided
<1>1. /\ m \in OpenNodes /\ OpenNodes' = OpenNodes /\ IsFinal(m, bracket_size)
      /\ champion' = winner /\ node'[m].winner = winner /\ bracket_size' = bracket_size
  BY DEF DecidesMatch
<1>2. /\ matches_reported' = bracket_size - 1 /\ NothingLeft' /\ Whole'
      /\ status' \in DrawnStatus
  BY <1>1, LastResult
<1>3. Standing'  BY <1>2 DEF Standing, BracketInv
<1>4. UnbeatenWon'  BY <1>2, <1>3, UnbeatenNext
<1>5. ASSUME settlement_mode' # "OrganizerOnly", NEW p \in OpenParticipants',
             participant'[p].losses = 0
      PROVE  p = champion'
  <2>1. p \in Joined'  BY DEF OpenParticipants, Joined
  <2>2. ScoreOf(p)'  BY <1>2, <1>5, <2>1 DEF Scored, ScoresKept
  <2>3. Cardinality(Lost(p)') = 0  BY <1>5, <2>2 DEF ScoreOf
  <2>4. IsFiniteSet(Lost(p)')
    <3>1. Lost(p)' \subseteq OpenNodes  BY <1>1 DEF Lost, PlayedOut
    <3>2. QED  BY <3>1, OpenNodesFinite, FS_Subset
  <2>5. Lost(p)' = {}  BY <2>3, <2>4, FS_EmptySet
  <2>6. \A n \in OpenNodes' : IsFinal(n, bracket_size') => node'[n].winner = p
    BY <1>4, <2>1, <2>5 DEF UnbeatenWon
  <2>7. QED  BY <1>1, <2>6
<1>6. QED  BY <1>1, <1>2, <1>5 DEF NothingLeft

LEMMA CalmCompleted ==
  ASSUME Calm, AllDecided
  PROVE  AllDecided'
<1> SUFFICES ASSUME status' = "Completed"
             PROVE  AllDecided'
  BY DEF AllDecided
<1>1. status = "Completed"  BY DEF Calm
<1>2. /\ OpenParticipants' = OpenParticipants /\ Undecided' = Undecided
      /\ \A p \in OpenParticipants : participant'[p].losses = participant[p].losses
      /\ UNCHANGED <<matches_reported, bracket_size, settlement_mode, champion>>
  BY DEF Calm, OpenParticipants, Undecided, OpenNodes
<1>3. QED  BY <1>1, <1>2 DEF AllDecided

LEMMA CloseCompleted ==
  ASSUME Enrolled, AllDecided,
         NEW players \in SUBSET Players, NEW nodes \in SUBSET Matches, NEW closeRoot,
         CloseTournament(players, nodes, closeRoot)
  PROVE  AllDecided'
<1> SUFFICES ASSUME status' = "Completed"
             PROVE  AllDecided'
  BY DEF AllDecided
<1>1. /\ \A p \in Players : /\ participant'[p].losses = participant[p].losses
                            /\ participant'[p].account = "Open" => participant[p].account = "Open"
      /\ OpenNodes' = OpenNodes \ nodes
      /\ \A m \in OpenNodes' : node'[m] = node[m]
  BY CloseNumbers DEF Enrolled, CloseTournament
<1>2. /\ status = "Completed"
      /\ UNCHANGED <<matches_reported, bracket_size, settlement_mode, champion>>
  BY DEF CloseTournament, NoTournament, terms, counters
<1>3. OpenParticipants' \subseteq OpenParticipants /\ OpenParticipants \subseteq Players
  BY <1>1 DEF OpenParticipants
<1>4. Undecided' \subseteq Undecided  BY <1>1 DEF Undecided
<1>5. QED  BY <1>1, <1>2, <1>3, <1>4 DEF AllDecided

(***************************************************************************)
(* The invariant                                                           *)
(***************************************************************************)
EliminationInv ==
    Numbered /\ FirstRoundSeeded /\ WinnersPlayed /\ Scored /\ AllDecided

\* A status that has seen no bracket yet.
LEMMA NotDrawnYet ==
  ASSUME status' \notin DrawnStatus
  PROVE  FirstRoundSeeded' /\ AllDecided'
BY DEF FirstRoundSeeded, AllDecided, DrawnStatus

LEMMA CalmElimination ==
  ASSUME Enrolled, EliminationInv, Calm
  PROVE  EliminationInv'
<1>1. SameNumbers  BY DEF Calm, SameNumbers
<1>2. Numbered'
  <2>1. status' = "None" => participant_count' = 0
    BY DEF Calm, EliminationInv, Numbered
  <2>2. status' # "None" => status # "None" /\ participant_count' = participant_count
    BY DEF Calm
  <2>3. QED  BY <1>1, <2>1, <2>2, QuietNumbers DEF EliminationInv
<1>3. FirstRoundSeeded'
  <2>1. node' = node /\ OpenNodes' = OpenNodes  BY DEF Calm, OpenNodes
  <2>2. status' \in DrawnStatus =>
          status \in DrawnStatus /\ UNCHANGED <<participant_count, bracket_size, seed_hash>>
    BY DEF Calm, DrawnStatus
  <2>3. KeepsFirstRound  BY <1>1, <2>1, <2>2 DEF KeepsFirstRound
  <2>4. QED  BY <2>3, KeptFirstRound DEF EliminationInv
<1>4. QED  BY <1>2, <1>3, CalmScores, CalmCompleted DEF EliminationInv

LEMMA WriteElimination ==
  ASSUME MaxIncarnations <= 1, Validated, OneLane,
         Enrolled, BracketInv, BoardInv, EliminationInv, TypeOK', BracketInv', Writes
  PROVE  EliminationInv'
<1>1. ASSUME NEW mode, NEW preset, CreateTournament(mode, preset)
      PROVE  EliminationInv'
  <2>1. status' \notin DrawnStatus  BY <1>1 DEF CreateTournament, DrawnStatus
  <2>2. FirstRoundSeeded' /\ AllDecided'  BY <2>1, NotDrawnYet
  <2>3. Numbered'  BY <1>1, CreateNumbers DEF EliminationInv
  <2>4. Scored' /\ WinnersPlayed'  BY <1>1, CreateScores
  <2>5. QED  BY <2>2, <2>3, <2>4 DEF EliminationInv
<1>2. ASSUME NEW p \in Players, JoinTournament(p)
      PROVE  EliminationInv'
  <2>1. status' \notin DrawnStatus  BY <1>2 DEF JoinTournament, DrawnStatus
  <2>2. FirstRoundSeeded' /\ AllDecided'  BY <2>1, NotDrawnYet
  <2>3. Numbered'  BY <1>2, JoinNumbers DEF EliminationInv
  <2>4. Scored' /\ WinnersPlayed'  BY <1>2, JoinScores DEF EliminationInv
  <2>5. QED  BY <2>2, <2>3, <2>4 DEF EliminationInv
<1>3. ASSUME NEW ids \in SUBSET Matches, NEW size \in PowersOfTwo, NEW seed \in Seeds,
             StartTournament(ids, size, seed)
      PROVE  EliminationInv'
  <2>1. /\ UNCHANGED <<participant, participant_count>>
        /\ status \in {"Registration", "PendingBracketInit"}
        /\ status' \in {"Active", "PendingBracketInit"}
    <3>1. StartsChunk(ids, size, seed)  BY <1>3, StartNodes
    <3>2. QED  BY <3>1 DEF StartsChunk
  <2>2. Numbered'
    <3>1. SameNumbers  BY <2>1 DEF SameNumbers
    <3>2. QED  BY <2>1, <3>1, QuietNumbers DEF EliminationInv
  <2>3. FirstRoundSeeded'  BY <1>3, StartFirstRound DEF EliminationInv, BoardInv
  <2>4. Scored' /\ WinnersPlayed'  BY <1>3, StartScores DEF EliminationInv
  <2>5. AllDecided'  BY <2>1 DEF AllDecided
  <2>6. QED  BY <2>2, <2>3, <2>4, <2>5 DEF EliminationInv
<1>4. ASSUME NEW players \in SUBSET Players, NEW nodes \in SUBSET Matches, NEW closeRoot \in BOOLEAN,
             CloseTournament(players, nodes, closeRoot)
      PROVE  EliminationInv'
  <2>1. /\ SameNumbers /\ OpenNodes' = OpenNodes \ nodes
        /\ \A m \in OpenNodes' : node'[m] = node[m]
    BY <1>4, CloseNumbers DEF Enrolled, CloseTournament
  <2>2. /\ status \in TerminalStatus
        /\ \/ status' = status /\ UNCHANGED <<participant_count, bracket_size, seed_hash>>
           \/ status' = "None" /\ participant_count' = 0
    BY <1>4 DEF CloseTournament, NoTournament, counters, seeding
  <2>3. Numbered'
    <3>1. status # "None"  BY <2>2 DEF TerminalStatus
    <3>2. QED  BY <2>1, <2>2, <3>1, QuietNumbers DEF EliminationInv
  <2>4. FirstRoundSeeded'
    <3>1. "None" \notin DrawnStatus  BY DEF DrawnStatus
    <3>2. KeepsFirstRound  BY <2>1, <2>2, <3>1 DEF KeepsFirstRound
    <3>3. QED  BY <3>2, KeptFirstRound DEF EliminationInv
  <2>5. Scored' /\ WinnersPlayed'  BY <1>4, CloseScores DEF EliminationInv
  <2>6. AllDecided'  BY <1>4, CloseCompleted DEF EliminationInv
  <2>7. QED  BY <2>3, <2>4, <2>5, <2>6 DEF EliminationInv
<1>5. ASSUME NEW m \in Matches, NEW winner, NEW trusted, NEW signer,
             Results(m, winner, trusted, signer)
      PROVE  EliminationInv'
  <2>1. DecidesMatch(m, winner)  BY <1>5, FinalizeNodes DEF Results
  <2>2. /\ OpenNodes' = OpenNodes /\ status = "Active" /\ status' \in {"Active", "Completed"}
        /\ \A n \in OpenNodes : n.round = 0 =>
              node'[n].player_a = node[n].player_a /\ node'[n].player_b = node[n].player_b
        /\ UNCHANGED <<participant_count, bracket_size, seed_hash>>
    BY <2>1 DEF DecidesMatch
  <2>3. SameNumbers
    <3>1. UNCHANGED participant \/ CreditMatchStats(m, winner)  BY <1>5 DEF Results
    <3>2. QED  BY <3>1 DEF CreditMatchStats, SameNumbers, Enrolled, TypeOK, Participant
  <2>4. Numbered'  BY <2>2, <2>3, QuietNumbers DEF EliminationInv
  <2>5. FirstRoundSeeded'
    <3>1. KeepsFirstRound  BY <2>2, <2>3 DEF KeepsFirstRound, DrawnStatus
    <3>2. QED  BY <3>1, KeptFirstRound DEF EliminationInv
  <2>6. Scored' /\ WinnersPlayed'  BY <1>5, ResultScores DEF EliminationInv
  <2>7. AllDecided'
    BY <2>1, <2>4, <2>5, <2>6, ResultCompletes DEF EliminationInv
  <2>8. QED  BY <2>4, <2>5, <2>6, <2>7 DEF EliminationInv
<1>6. QED  BY <1>1, <1>2, <1>3, <1>4, <1>5 DEF Writes

LEMMA StepElimination ==
  ASSUME MaxIncarnations <= 1, Validated, OneLane,
         Enrolled, DrawnMeansSealed, BracketInv, BoardInv, EliminationInv,
         TypeOK', BracketInv', [Next]_vars
  PROVE  EliminationInv'
<1>1. Calm \/ Writes  BY StepKinds DEF Enrolled, EliminationInv
<1>2. QED  BY <1>1, CalmElimination, WriteElimination

LEMMA InitElimination == Init => EliminationInv
<1> SUFFICES ASSUME Init  PROVE EliminationInv
  OBVIOUS
<1>1. OpenNodes = {}  BY DEF Init, OpenNodes, NoNode
<1>2. Joined = {}  BY DEF Init, Joined, NoParticipant
<1>3. status = "None" /\ participant_count = 0  BY DEF Init
<1>4. QED
  BY <1>1, <1>2, <1>3
  DEF EliminationInv, Numbered, FirstRoundSeeded, DrawnStatus, WinnersPlayed, Scored,
      AllDecided

(***************************************************************************)
(* The join numbers, the draw, the score of every player and what is left  *)
(* to play hold together in every state of a tournament that is drawn in   *)
(* one lane and as validated, at a PDA that is created once.               *)
(***************************************************************************)
THEOREM EliminationInvariant ==
  ASSUME MaxIncarnations <= 1, OneLane
  PROVE  Spec => [](TypeOK /\ (Validated => BracketInv /\ EliminationInv))
<1>1. Init => EliminationInv  BY InitElimination
<1>2. Validated /\ Enrolled /\ DrawnMeansSealed /\ BracketInv /\ BoardInv /\ EliminationInv
        /\ TypeOK' /\ BracketInv' /\ [Next]_vars => EliminationInv'
  BY StepElimination
<1>3. TypeOK /\ [Next]_vars /\ Validated' => Validated  BY ValidatedBefore
<1>4. QED  BY <1>1, <1>2, <1>3, TypeCorrect, BracketInvariant, BoardInvariant, PTL DEF Spec

(***************************************************************************)
(* The draw of start_tournament puts every entrant into one first-round    *)
(* match and nobody else into any: for every field from 2 to 128, every    *)
(* seed and every order of the chunks.                                     *)
(***************************************************************************)
THEOREM EveryoneIsDrawn ==
  ASSUME MaxIncarnations <= 1, OneLane
  PROVE  Spec => []EveryEntrantDrawnOnce
<1>1. TypeOK /\ (Validated => BracketInv /\ EliminationInv) => EveryEntrantDrawnOnce
  <2>1. CASE Validated  BY <2>1, DrawnOnce DEF EliminationInv
  <2>2. CASE ~Validated  BY <2>2, SeededIsValidated DEF EveryEntrantDrawnOnce
  <2>3. QED  BY <2>1, <2>2
<1>2. QED  BY <1>1, EliminationInvariant, PTL

(***************************************************************************)
(* Whoever is beaten is out: a player has at most one match ahead, none    *)
(* once beaten, and credit_match_stats counted his wins and his loss once, *)
(* whatever mix of settlement paths decided his matches.                   *)
(***************************************************************************)
THEOREM BeatenMeansOut ==
  ASSUME MaxIncarnations <= 1, OneLane
  PROVE  Spec => []SingleElimination
<1>1. TypeOK /\ (Validated => BracketInv /\ EliminationInv) => SingleElimination
  <2>1. CASE Validated  BY <2>1, Eliminated DEF EliminationInv, BracketInv
  <2>2. CASE ~Validated  BY <2>2 DEF Validated, SingleElimination
  <2>3. QED  BY <2>1, <2>2
<1>2. QED  BY <1>1, EliminationInvariant, PTL

(***************************************************************************)
(* finalize_match completes a tournament by the final alone, and looks at  *)
(* no other match; yet by then every match is decided and counted, and the *)
(* champion is the one entrant nobody beat.                                *)
(***************************************************************************)
THEOREM CompletionIsComplete ==
  ASSUME MaxIncarnations <= 1, OneLane
  PROVE  Spec => []CompletedMeansDecided
<1>1. (Validated => EliminationInv) => CompletedMeansDecided
  BY SeededIsValidated DEF EliminationInv, AllDecided, CompletedMeansDecided
<1>2. QED  BY <1>1, EliminationInvariant, PTL

(***************************************************************************)
(*                               The prizes                                *)
(***************************************************************************)
\* The prizes of all wallets, summed.
PrizeTotal == Total([w \in Wallets |-> Prize(w)], Wallets)

LEMMA WalletsFinite == IsFiniteSet(Wallets)
<1>1. \A a, b : IsFiniteSet({a, b})
  <2> SUFFICES ASSUME NEW a, NEW b  PROVE IsFiniteSet({a, b})  OBVIOUS
  <2>1. {a, b} = {a} \cup {b}  OBVIOUS
  <2>2. IsFiniteSet({a}) /\ IsFiniteSet({b})  BY FS_Singleton
  <2>3. IsFiniteSet({a} \cup {b})  BY <2>2, FS_Union
  <2>4. QED  BY <2>1, <2>3
<1>2. IsFiniteSet(Signers)  BY <1>1, PartiesAssumption, FS_Union DEF Signers
<1>3. QED  BY <1>1, <1>2, FS_Union DEF Wallets

LEMMA PrizesSummed == MapThenSumSet(Prize, Wallets) = PrizeTotal
<1> DEFINE Again(g) == g = [s \in SUBSET Wallets |->
                              IF s = {} THEN 0 ELSE Prize(AnyOf(s)) + g[s \ {AnyOf(s)}]]
           iter == CHOOSE g : Again(g)
<1>1. MapThenSumSet(Prize, Wallets) = iter[Wallets]
  BY Zenon DEF MapThenSumSet, MapThenFoldSet, AnyOf
<1>2. PICK f : f = [w \in Wallets |-> Prize(w)]  OBVIOUS
<1>3. \A s \in SUBSET Wallets : s # {} => f[AnyOf(s)] = Prize(AnyOf(s))
  BY <1>2, AnyOfIsOne
<1>4. \A g : Again(g) <=> IsSum(g, f, Wallets)
  BY <1>3 DEF IsSum
<1>5. \E g : Again(g)  BY <1>4, WalletsFinite, TotalIsSum
<1>6. Again(iter)  BY <1>5
<1>7. IsSum(iter, f, Wallets)  BY <1>4, <1>6
<1> HIDE DEF iter
<1>8. Total(f, Wallets) = iter[Wallets]  BY <1>7, WalletsFinite, TotalIsSum
<1>9. QED  BY <1>1, <1>2, <1>8 DEF PrizeTotal
(***************************************************************************)
(* What the prizes rest on: nothing was refunded by then, the preset is a  *)
(* valid split, and a match that can be played has two players.            *)
(***************************************************************************)
NothingRefundedYet ==
    status \in OpenStatus =>
        /\ organizer_deposit_refunded = FALSE
        /\ \A p \in Players : participant[p].refund_paid = FALSE

PresetValid == status # "None" => validate_custom(payout_preset)

ActiveIsFull == \A m \in Matches : node[m].status = "Active" => NoOne \notin PlayersOf(m)

\* PrizesMatchThePreset, with its parts by their names.
FairlyPlaced(placed) ==
    /\ placed[1] = champion
    /\ 2 \in DOMAIN placed => \A m \in OpenNodes :
         IsFinal(m, bracket_size) => PlayersOf(m) = {placed[1], placed[2]}
    /\ \A w \in Wallets :
         Prize(w) = PrizeOfPlaces({i \in DOMAIN placed : placed[i] = w})
                        + (IF w = Treasury THEN protocol_fee(Pool) ELSE 0)

PrizesByName ==
    status = "Completed" =>
        /\ \E placed \in [1..placement_count(payout_preset) -> Wallets] : FairlyPlaced(placed)
        /\ PrizeTotal = Pool

PrizesInv == Numbered /\ NothingRefundedYet /\ PresetValid /\ ActiveIsFull /\ PrizesByName

(***************************************************************************)
(* The kinds of steps, as the money sees them                              *)
(***************************************************************************)
SameAccounts ==
    \A p \in Players : /\ participant'[p].account = participant[p].account
                        /\ participant'[p].seed_index = participant[p].seed_index
                        /\ participant'[p].refund_paid = participant[p].refund_paid

Uneventful ==
    /\ QuietStep /\ SameAccounts
    /\ UNCHANGED <<payout_preset, participant_count>>
    /\ status = "Completed" => UNCHANGED <<node, bracket_size, champion>>

Refunds(chunk, withDeposit) ==
    /\ RefundChunk(chunk, withDeposit)
    /\ status # "None" /\ status' \in {"Cancelled", "PartialCancelled"}
    /\ UNCHANGED <<node, payout_preset, participant_count>>

PaysPrizes(m, winner, trusted) ==
    /\ Playable(m) /\ IsFinal(m, bracket_size) /\ winner \in PlayersOf(m)
    /\ CompleteTournament(m, winner, trusted)
    /\ SameAccounts
    /\ UNCHANGED <<payout_preset, participant_count, bracket_size,
                   organizer_deposit_refunded, incarnation>>

Moves ==
    \/ \E mode \in Modes, preset \in Presets : CreateTournament(mode, preset)
    \/ \E p \in Players : JoinTournament(p)
    \/ \E chunk \in SUBSET Players, withDeposit \in BOOLEAN : Refunds(chunk, withDeposit)
    \/ \E players \in SUBSET Players, nodes \in SUBSET Matches, closeRoot \in BOOLEAN :
          CloseTournament(players, nodes, closeRoot)
    \/ \E m \in Matches : \E winner, trusted : PaysPrizes(m, winner, trusted)

LEMMA LifecycleMoves ==
  ASSUME LifecycleStep
  PROVE  Uneventful \/ Moves
<1>1. CASE \/ RequestSeed
           \/ \E seed \in Seeds : RevealSeed(seed)
           \/ \E ids \in SUBSET Matches, size \in PowersOfTwo, seed \in Seeds :
                 StartTournament(ids, size, seed)
           \/ PartialCancelTournament
  <2>1. UNCHANGED <<money, participant, incarnation, payout_preset, participant_count>>
    BY <1>1 DEF RequestSeed, RevealSeed, StartTournament, PartialCancelTournament, terms, counters
  <2>2. status' # status =>
          /\ status \in OpenStatus
          /\ status' \in OpenStatus \cup {"PartialCancelled"}
    BY <1>1 DEF RequestSeed, RevealSeed, StartTournament, DrawBracket,
                PartialCancelTournament, OpenStatus
  <2>3. status = "Completed" => UNCHANGED <<node, bracket_size, champion>>
    BY <1>1 DEF RequestSeed, RevealSeed, StartTournament, DrawBracket,
                PartialCancelTournament, matches, counters
  <2>4. QED  BY <2>1, <2>2, <2>3 DEF Uneventful, QuietStep, SameAccounts, money
<1>2. ASSUME NEW chunk \in SUBSET Players, NEW withDeposit \in BOOLEAN,
             \/ \E caller \in {Organizer, Relayer} : CancelTournament(caller, chunk, withDeposit)
             \/ PartialRefundChunk(chunk, withDeposit)
      PROVE  Moves
  <2>1. Refunds(chunk, withDeposit)
    BY <1>2 DEF CancelTournament, PartialRefundChunk, tournament, matches, terms, counters, Refunds
  <2>2. QED  BY <2>1, Zenon DEF Moves
<1>3. CASE \/ \E mode \in Modes, preset \in Presets : CreateTournament(mode, preset)
           \/ \E p \in Players : JoinTournament(p)
  BY <1>3, Zenon DEF Moves
<1>4. CASE \E players \in SUBSET Players :
             /\ Cardinality(players) <= MaxCloseChunk
             /\ \E nodes \in SUBSET Matches, closeRoot \in BOOLEAN :
                   CloseTournament(players, nodes, closeRoot)
  BY <1>4, Zenon DEF Moves
<1>5. QED  BY <1>1, <1>2, <1>3, <1>4, Zenon DEF LifecycleStep

LEMMA FinalizeMoves ==
  ASSUME NEW m \in Matches, NEW winner, NEW trusted, NEW signer,
         FinalizeMatch(m, winner, trusted, signer), SameAccounts
  PROVE  Uneventful \/ Moves
<1>1. /\ Playable(m) /\ winner \in PlayersOf(m) /\ status = "Active"
      /\ UNCHANGED <<organizer_deposit_refunded, incarnation, payout_preset,
                     participant_count, bracket_size>>
  BY DEF FinalizeMatch, Playable, terms
<1>2. CASE AdvanceWinner(m, winner)
  BY <1>1, <1>2 DEF AdvanceWinner, Uneventful, QuietStep, SameAccounts
<1>3. CASE IsFinal(m, bracket_size) /\ CompleteTournament(m, winner, trusted)
  <2>1. PaysPrizes(m, winner, trusted)  BY <1>1, <1>3 DEF PaysPrizes
  <2>2. QED  BY <2>1, Zenon DEF Moves
<1>4. QED  BY <1>2, <1>3 DEF FinalizeMatch

LEMMA SettlementMoves ==
  ASSUME TypeOK, NEW m \in Matches, SettlementStep(m)
  PROVE  Uneventful \/ Moves
<1>1. CASE \/ \E w \in Wallets : ReportResult(m, w)
           \/ \E p \in Players : ConfirmResult(m, p)
           \/ \E w \in Players : ResolveDispute(m, w)
           \/ ClaimResult(m) \/ ForceClaimDisputed(m) \/ SettleFinal(m)
  <2>1. PICK winner, trusted, signer :
          /\ FinalizeMatch(m, winner, trusted, signer)
          /\ UNCHANGED participant \/ CreditMatchStats(m, winner)
    BY <1>1 DEF ReportResult, ConfirmResult, ResolveDispute, ClaimResult,
                ForceClaimDisputed, SettleFinal, Settle
  <2>2. SameAccounts
    BY <2>1 DEF SameAccounts, CreditMatchStats, TypeOK, Participant
  <2>3. QED  BY <2>1, <2>2, FinalizeMoves
<1>2. CASE \/ \E p, w \in Players : ProposeResult(m, p, w)
           \/ \E w \in Signers : DisputeResult(m, w)
           \/ CommitMatchLobby(m) \/ BindMatchFeed(m)
           \/ \E relayer \in Signers, value \in FeedValues :
                 ProposeResultOracle(m, relayer, value)
  <2>1. UNCHANGED <<tournament, money, participant, node, incarnation>>
    BY <1>2 DEF ProposeResult, ProposeResultOracle, Propose, DisputeResult,
                CommitMatchLobby, BindMatchFeed
  <2>2. QED
    BY <2>1 DEF Uneventful, QuietStep, SameAccounts, tournament, money, terms, counters
<1>3. QED  BY <1>1, <1>2 DEF SettlementStep

LEMMA MoneyKinds ==
  ASSUME TypeOK, [Next]_vars
  PROVE  Uneventful \/ Moves
<1>1. CASE Tick \/ UNCHANGED vars
  <2>1. UNCHANGED <<status, money, participant, incarnation, node, payout_preset,
                    participant_count, bracket_size, champion>>
    BY <1>1 DEF Tick, vars, tournament, matches, terms, counters
  <2>2. QED  BY <2>1 DEF Uneventful, QuietStep, SameAccounts, money
<1>2. CASE LifecycleStep  BY <1>2, LifecycleMoves
<1>3. CASE \E m \in Matches : SettlementStep(m)  BY <1>3, SettlementMoves
<1>4. QED  BY <1>1, <1>2, <1>3 DEF Next

(***************************************************************************)
(* The match accounts, drawn freely or not                                 *)
(***************************************************************************)
\* A match becomes Active once both its slots are taken, and its slots only fill.
LEMMA StartFills ==
  ASSUME ActiveIsFull, NEW ids \in SUBSET Matches, NEW size, NEW seed,
         StartTournament(ids, size, seed)
  PROVE  ActiveIsFull'
<1>1. PICK draw : node' = [m \in Matches |-> IF m \in ids THEN NewNode(draw[m]) ELSE node[m]]
  BY DEF StartTournament
<1>2. ASSUME NEW m \in Matches, node'[m].status = "Active"
      PROVE  NoOne \notin PlayersOf(m)'
  <2>1. CASE m \in ids
    BY <1>1, <1>2, <2>1 DEF NewNode, PlayersOf
  <2>2. CASE m \notin ids
    BY <1>1, <1>2, <2>2 DEF ActiveIsFull, PlayersOf
  <2>3. QED  BY <2>1, <2>2
<1>3. QED  BY <1>2 DEF ActiveIsFull

LEMMA FinalizeFills ==
  ASSUME TypeOK, ActiveIsFull, NEW m \in Matches, NEW winner, NEW trusted, NEW signer,
         FinalizeMatch(m, winner, trusted, signer)
  PROVE  ActiveIsFull'
<1>1. winner # NoOne
  BY DEF FinalizeMatch, Playable, ActiveIsFull
<1>2. \A n \in Matches : node[n] \in MatchNode  BY DEF TypeOK
<1>3. CASE CompleteTournament(m, winner, trusted)
  BY <1>2, <1>3 DEF CompleteTournament, Decided, ActiveIsFull, PlayersOf, MatchNode, TypeOK
<1>4. CASE AdvanceWinner(m, winner)
  <2>1. PICK next \in OpenNodes :
          /\ FeedsInto(m, next)
          /\ node' = [node EXCEPT ![m] = Decided(@, winner),
                                  ![next] = Seated(@, IsLeftChild(m), winner)]
    BY <1>4 DEF AdvanceWinner
  <2>2. next \in Matches /\ next # m
    BY <2>1, MatchTypes DEF OpenNodes, FeedsInto
  <2>4. ASSUME NEW n \in Matches, node'[n].status = "Active"
        PROVE  NoOne \notin PlayersOf(n)'
    <3>1. CASE n # m /\ n # next
      BY <2>1, <2>4, <3>1 DEF ActiveIsFull, PlayersOf, TypeOK
    <3>2. CASE n = m
      BY <1>2, <2>1, <2>2, <2>4, <3>2 DEF Decided, MatchNode, TypeOK
    <3>3. CASE n = next
      <4>1. node'[n] = Seated(node[n], IsLeftChild(m), winner)
        BY <2>1, <2>2, <3>3 DEF TypeOK
      <4>2. node[n].status = "Active" => node[n].player_a # NoOne /\ node[n].player_b # NoOne
        BY DEF ActiveIsFull, PlayersOf
      <4>3. node'[n].player_a # NoOne /\ node'[n].player_b # NoOne
        BY <1>1, <1>2, <2>4, <4>1, <4>2 DEF Seated, MatchNode
      <4>4. QED  BY <4>3 DEF PlayersOf
    <3>4. QED  BY <3>1, <3>2, <3>3
  <2>3. QED  BY <2>4 DEF ActiveIsFull
<1>5. QED  BY <1>3, <1>4 DEF FinalizeMatch

LEMMA StepFills ==
  ASSUME TypeOK, ActiveIsFull, [Next]_vars
  PROVE  ActiveIsFull'
<1>1. CASE node' = node
  BY <1>1 DEF ActiveIsFull, PlayersOf
<1>2. CASE \E ids \in SUBSET Matches, size \in PowersOfTwo, seed \in Seeds :
             StartTournament(ids, size, seed)
  BY <1>2, StartFills
<1>3. CASE \E players \in SUBSET Players, nodes \in SUBSET Matches, closeRoot \in BOOLEAN :
             CloseTournament(players, nodes, closeRoot)
  <2>1. \A m \in Matches : node'[m] \in {node[m], NoNode}
    BY <1>3, CloseWrites
  <2>2. QED  BY <2>1 DEF ActiveIsFull, PlayersOf, NoNode
<1>4. CASE \E m \in Matches : \E winner, trusted, signer : FinalizeMatch(m, winner, trusted, signer)
  BY <1>4, FinalizeFills
<1>5. CASE Tick \/ UNCHANGED vars
  <2>1. node' = node  BY <1>5 DEF Tick, vars, matches
  <2>2. QED  BY <1>1, <2>1
<1>6. CASE LifecycleStep
  BY <1>1, <1>2, <1>3, <1>6, LifecycleKeepsMatches DEF MatchesKept
<1>7. ASSUME NEW m \in Matches, SettlementStep(m)
      PROVE  ActiveIsFull'
  <2>1. CASE \/ \E w \in Wallets : ReportResult(m, w)
             \/ \E p \in Players : ConfirmResult(m, p)
             \/ \E w \in Players : ResolveDispute(m, w)
             \/ ClaimResult(m) \/ ForceClaimDisputed(m) \/ SettleFinal(m)
    <3>1. \E winner, trusted, signer : FinalizeMatch(m, winner, trusted, signer)
      BY <2>1 DEF ReportResult, ConfirmResult, ResolveDispute, ClaimResult,
                  ForceClaimDisputed, SettleFinal, Settle
    <3>2. QED  BY <1>4, <3>1
  <2>2. CASE \/ \E p, w \in Players : ProposeResult(m, p, w)
             \/ \E w \in Signers : DisputeResult(m, w)
             \/ CommitMatchLobby(m) \/ BindMatchFeed(m)
             \/ \E relayer \in Signers, value \in FeedValues :
                   ProposeResultOracle(m, relayer, value)
    <3>1. node' = node
      BY <2>2 DEF ProposeResult, ProposeResultOracle, Propose, DisputeResult,
                  CommitMatchLobby, BindMatchFeed
    <3>2. QED  BY <1>1, <3>1
  <2>3. QED  BY <1>7, <2>1, <2>2 DEF SettlementStep
<1>8. QED  BY <1>5, <1>6, <1>7 DEF Next

(***************************************************************************)
(* The payment: the whole vault, which is the whole pool, split.           *)
(***************************************************************************)
\* Until a tournament completes the vault is what was paid in.
LEMMA VaultIsPool ==
  ASSUME MoneyInv, Numbered, NothingRefundedYet, status \in OpenStatus
  PROVE  /\ vault = Pool /\ Pool \in Nat
         /\ protocol_fee(Pool) \in 0..Pool
<1>1. Unrefunded = Joined
  BY DEF NothingRefundedYet, Unrefunded, Joined
<1>2. DepositHeld = OrganizerDeposit  BY DEF NothingRefundedYet, DepositHeld
<1>3. status \notin {"None", "Completed"}  BY DEF OpenStatus
<1>4. vault = OrganizerDeposit + EntryFee * participant_count
  BY <1>1, <1>2, <1>3 DEF MoneyInv, VaultAccounting, Numbered
<1>5. Pool \in Nat
  <2>1. EntryFee * participant_count \in Nat
    BY NaturalProduct, ParametersAssumption DEF MoneyInv, TypeOK
  <2>2. QED  BY <2>1, ParametersAssumption DEF Pool
<1>6. protocol_fee(Pool) \in 0..Pool
  <2>1. PICK pool \in Nat : pool = Pool  BY <1>5
  <2>2. (pool * PROTOCOL_FEE_BPS) \div BPS_DENOMINATOR \in 0..pool
    BY DEF PROTOCOL_FEE_BPS, BPS_DENOMINATOR
  <2>3. QED  BY <2>1, <2>2 DEF protocol_fee
<1>7. QED  BY <1>4, <1>5, <1>6 DEF Pool

\* The stakes are as they were.
LEMMA StakesKept ==
  ASSUME TypeOK, SameAccounts, UNCHANGED <<organizer_deposit_refunded, incarnation>>
  PROVE  /\ Unrefunded' = Unrefunded
         /\ \A w : Stake(w)' = Stake(w) /\ Stake(w) \in Int
<1>1. Unrefunded' = Unrefunded  BY DEF Unrefunded, SameAccounts
<1>2. DepositHeld' = DepositHeld /\ DepositHeld \in Int
  BY ParametersAssumption DEF DepositHeld
<1>3. \A w : Stake(w)' = Stake(w)  BY <1>1, <1>2 DEF Stake
<1>4. \A w : Stake(w) \in Int  BY <1>2, ParametersAssumption DEF Stake
<1>5. QED  BY <1>1, <1>3, <1>4

\* What split_placements promises for a preset that create_tournament let through.
LEMMA Shares ==
  ASSUME NEW net \in Nat, NEW preset \in PayoutPreset, validate_custom(preset),
         NEW bps, bps = basis_points(preset), NEW count, count = placement_count(preset),
         NEW amounts, amounts = split_placements(net, bps, count)
  PROVE  /\ count \in Slots
         /\ amounts \in [Slots -> Nat] /\ SlotSum(amounts) = net
         /\ \A i \in Slots : i > count => amounts[i] = 0
<1>1. /\ bps \in [Slots -> Nat] /\ ValidSplit(bps) /\ count \in Slots
  BY GenuineSplits
<1>2. amounts \in [Slots -> Int] /\ SlotSum(amounts) = net
  <2>1. bps \in [Slots -> Int] /\ net \in Int /\ count \in Int
    BY <1>1 DEF Slots
  <2>2. QED  BY <2>1, SplitAddsUp
<1>3. amounts[1] >= FlooredShare(net, bps, count, 1)
  BY <1>1, SplitIsFair
<1>4. \A i \in Slots : FlooredShare(net, bps, count, i) \in Nat
  <2> SUFFICES ASSUME NEW i \in Slots  PROVE FlooredShare(net, bps, count, i) \in Nat
    OBVIOUS
  <2>1. net * bps[i] \in Nat  BY <1>1, NaturalProduct
  <2>2. (net * bps[i]) \div BPS_DENOMINATOR \in Nat  BY <2>1, FloorBounds
  <2>3. QED  BY <2>2 DEF FlooredShare
<1>5. \A i \in Slots : i # 1 => amounts[i] = FlooredShare(net, bps, count, i)
  BY DEF split_placements
<1>6. 1 \in Slots /\ 2 \in Slots  BY DEF Slots, MAX_PAYOUT_SLOTS
<1>7. amounts[1] \in Nat
  <2>1. amounts[1] \in Int  BY <1>2, <1>6
  <2>2. FlooredShare(net, bps, count, 1) \in Nat  BY <1>4, <1>6
  <2>3. QED  BY <1>3, <2>1, <2>2
<1>8. amounts \in [Slots -> Nat]
  <2>1. \A i \in Slots : amounts[i] \in Nat  BY <1>4, <1>5, <1>7
  <2>2. QED  BY <1>2, <2>1
<1>9. \A i \in Slots : i > count => amounts[i] = 0
  BY <1>1, <1>5 DEF FlooredShare, Slots
<1>10. QED  BY <1>1, <1>2, <1>3, <1>4, <1>5, <1>6, <1>8, <1>9

LEMMA ReceivedIsNatural ==
  ASSUME NEW amounts \in [Slots -> Nat], NEW placements, NEW w
  PROVE  Received(w, placements, amounts) \in Nat
<1>1. Slots = {1, 2, 3, 4, 5, 6, 7, 8}  BY DEF Slots, MAX_PAYOUT_SLOTS
<1>2. PICK got : got = [i \in Slots |-> IF placements[i] = w THEN amounts[i] ELSE 0]
  OBVIOUS
<1>3. \A i \in Slots : got[i] \in Nat  BY <1>2
<1>4. SlotSum(got) \in Nat  BY <1>1, <1>3 DEF SlotSum
<1>5. QED  BY <1>2, <1>3, <1>4 DEF Received

LEMMA PaymentMatches ==
  ASSUME OneLane, MoneyInv, PrizesInv, NEW m \in Matches, NEW winner, NEW trusted,
         PaysPrizes(m, winner, trusted)
  PROVE  PrizesByName'
<1>1. /\ status = "Active" /\ status \in OpenStatus /\ champion' = winner
      /\ winner \in PlayersOf(m) /\ IsFinal(m, bracket_size)
      /\ UNCHANGED <<payout_preset, participant_count, bracket_size,
                     organizer_deposit_refunded, incarnation>>
      /\ SameAccounts
  BY DEF PaysPrizes, CompleteTournament, Playable, OpenStatus
<1>2. PICK pool \in Nat : pool = Pool /\ pool = Pool' /\ pool = vault
                           /\ protocol_fee(pool) \in 0..pool
  BY <1>1, VaultIsPool DEF PrizesInv, Pool
<1>3. PICK fee \in Nat, net \in Nat : fee = protocol_fee(pool) /\ net = pool - fee
  BY <1>2
<1>4. PICK bps, count, amounts :
        /\ bps = basis_points(payout_preset) /\ count = placement_count(payout_preset)
        /\ amounts = split_placements(net, bps, count)
  OBVIOUS
<1>5. payout_preset \in PayoutPreset /\ validate_custom(payout_preset)
  BY <1>1, ParametersAssumption DEF PrizesInv, PresetValid, MoneyInv, TypeOK
<1>6. /\ count \in Slots
      /\ amounts \in [Slots -> Nat] /\ SlotSum(amounts) = net
      /\ \A i \in Slots : i > count => amounts[i] = 0
  BY <1>4, <1>5, Shares
<1>7. 1 \in Slots /\ 2 \in Slots /\ \A i \in Slots : i \in Int
  BY DEF Slots, MAX_PAYOUT_SLOTS
<1>8. PICK placements \in Placements(m, winner) : DistributePrizes(placements)
  BY DEF PaysPrizes, CompleteTournament
<1>9. \A w \in Wallets :
        wallet'[w] = wallet[w] + Received(w, placements, amounts)
                               + (IF w = Treasury THEN fee ELSE 0)
  <2>1. \A w \in Wallets : wallet'[w] = wallet[w] + Sent(w, placements, amounts, fee)
    BY <1>2, <1>3, <1>4, <1>8 DEF DistributePrizes, GrossPool
  <2>2. \A w : Sent(w, placements, amounts, fee)
                 = Received(w, placements, amounts) + (IF w = Treasury THEN fee ELSE 0)
    BY DEF Sent, Received
  <2>3. \A w : Received(w, placements, amounts) \in Nat  BY <1>6, ReceivedIsNatural
  <2>4. QED  BY <2>1, <2>2, <2>3 DEF MoneyInv, TypeOK
<1>10. \A w \in Wallets :
         Prize(w)' = Received(w, placements, amounts) + (IF w = Treasury THEN fee ELSE 0)
  <2> SUFFICES ASSUME NEW w \in Wallets
               PROVE  Prize(w)' = Received(w, placements, amounts)
                                    + (IF w = Treasury THEN fee ELSE 0)
    OBVIOUS
  <2>1. Stake(w)' = Stake(w) /\ Stake(w) \in Int  BY <1>1, StakesKept DEF MoneyInv
  <2>2. wallet[w] = -Stake(w)
    BY <1>1 DEF MoneyInv, RefundsMakeWhole
  <2>3. Received(w, placements, amounts) \in Nat  BY <1>6, ReceivedIsNatural
  <2>4. QED  BY <1>9, <2>1, <2>2, <2>3 DEF Prize
<1>11. PlayersOf(m) \subseteq Wallets /\ RunnerUp(m, winner) \in Wallets
  <2>1. NoOne \notin PlayersOf(m)
    BY DEF PaysPrizes, Playable, PrizesInv, ActiveIsFull
  <2>2. node[m] \in MatchNode  BY DEF MoneyInv, TypeOK
  <2>3. QED  BY <2>1, <2>2 DEF PlayersOf, MatchNode, RunnerUp
<1>12. /\ placements[1] = winner
       /\ count >= 2 => placements[2] = RunnerUp(m, winner)
       /\ \A i \in Slots : i <= count => placements[i] \in Wallets
       /\ \A i \in Slots : i > count => placements[i] = NoOne
  <2>1. PICK rest \in [3..count -> Wallets] :
          placements = [i \in Slots |-> CASE i = 1 -> winner
                                         [] i = 2 /\ i <= count -> RunnerUp(m, winner)
                                         [] i > 2 /\ i <= count -> rest[i]
                                         [] OTHER -> NoOne]
    BY <1>4, <1>8 DEF Placements
  <2>2. placements[1] = winner  BY <1>7, <2>1
  <2>3. count >= 2 => placements[2] = RunnerUp(m, winner)  BY <1>6, <1>7, <2>1
  <2>4. ASSUME NEW i \in Slots, i <= count
        PROVE  placements[i] \in Wallets
    <3>1. count \in Nat  BY <1>6 DEF Slots
    <3>2. CASE i = 1  BY <1>1, <1>11, <2>2, <3>2
    <3>3. CASE i = 2  BY <1>7, <1>11, <2>3, <2>4, <3>1, <3>3
    <3>4. CASE i > 2
      <4>1. i \in 3..count  BY <1>7, <2>4, <3>1, <3>4
      <4>2. placements[i] = rest[i]  BY <1>7, <2>1, <2>4, <3>4
      <4>3. QED  BY <4>1, <4>2
    <3>5. i \in Nat /\ i >= 1  BY DEF Slots
    <3>6. QED  BY <3>2, <3>3, <3>4, <3>5
  <2>5. \A i \in Slots : i > count => placements[i] = NoOne
    BY <1>6, <1>7, <2>1 DEF Slots
  <2>6. QED  BY <2>2, <2>3, <2>4, <2>5
<1>13. PrizeTotal' = pool
  <2>1. PICK prizes : prizes = [w \in Wallets |-> Prize(w)']  OBVIOUS
  <2>2. PICK got : got = [w \in Wallets |-> Received(w, placements, amounts)]  OBVIOUS
  <2>3. PICK share : share = [w \in Wallets |-> IF w = Treasury THEN fee ELSE 0]  OBVIOUS
  <2>4. got \in [Wallets -> Int] /\ Total(got, Wallets) = net
    <3>1. amounts \in [Slots -> Int]  BY <1>6
    <3>2. \A i \in Slots : placements[i] \in Wallets \/ amounts[i] = 0
      BY <1>6, <1>7, <1>12
    <3>3. QED  BY <1>6, <2>2, <3>1, <3>2, WalletsFinite, SlotTotals
  <2>5. share \in [Wallets -> Int] /\ Total(share, Wallets) = fee
    BY <2>3, WalletsFinite, WalletTypes, TotalPoint
  <2>6. \A w \in Wallets : prizes[w] = got[w] + share[w]
    BY <1>10, <2>1, <2>2, <2>3
  <2>7. prizes \in [Wallets -> Int]
    <3>1. \A w \in Wallets : prizes[w] \in Int  BY <2>4, <2>5, <2>6
    <3>2. QED  BY <2>1, <3>1
  <2>8. Total(prizes, Wallets) = net + fee
    BY <2>4, <2>5, <2>6, <2>7, WalletsFinite, TotalPlus
  <2>9. PrizeTotal' = Total(prizes, Wallets)  BY <2>1 DEF PrizeTotal
  <2>10. QED  BY <1>3, <2>8, <2>9
<1>14. \A i \in Slots : amounts[i] = PlacePrize(i)'
  BY <1>1, <1>2, <1>3, <1>4 DEF split_placements, PlacePrize
<1>15. PICK placed : placed = [i \in 1..count |-> placements[i]]  OBVIOUS
<1>16. /\ 1..count \subseteq Slots /\ 1 \in 1..count /\ DOMAIN placed = 1..count
       /\ placed \in [1..count -> Wallets]
  <2>1. 1..count \subseteq Slots /\ 1 \in 1..count
    BY <1>6 DEF Slots, MAX_PAYOUT_SLOTS
  <2>2. \A i \in 1..count : placements[i] \in Wallets  BY <1>12, <2>1
  <2>3. QED  BY <1>15, <2>1, <2>2
<1>17. ASSUME NEW w \in Wallets
       PROVE  Received(w, placements, amounts)
                = PrizeOfPlaces({i \in DOMAIN placed : placed[i] = w})'
  <2>1. \A i \in Slots : i \in {j \in DOMAIN placed : placed[j] = w} <=> placements[i] = w
    <3>1. ASSUME NEW i \in Slots, i \notin 1..count
          PROVE  placements[i] # w
      <4>1. i > count  BY <1>6, <3>1 DEF Slots
      <4>2. QED  BY <1>12, <4>1, PartiesAssumption
    <3>2. QED  BY <1>15, <1>16, <3>1
  <2>2. [i \in Slots |-> IF placements[i] = w THEN amounts[i] ELSE 0]
          = [i \in Slots |-> IF i \in {j \in DOMAIN placed : placed[j] = w}
                             THEN PlacePrize(i)' ELSE 0]
    BY <1>14, <2>1
  <2>3. QED  BY <2>2 DEF Received, PrizeOfPlaces
<1>18. FairlyPlaced(placed)'
  <2>1. \A w \in Wallets :
          Prize(w)' = PrizeOfPlaces({i \in DOMAIN placed : placed[i] = w})'
                        + (IF w = Treasury THEN protocol_fee(Pool)' ELSE 0)
    BY <1>2, <1>3, <1>10, <1>17
  <2>2. ASSUME 2 \in DOMAIN placed, NEW o \in Matches, IsFinal(o, bracket_size)'
        PROVE  PlayersOf(o)' = {placed[1], placed[2]}
    <3>1. o = m
      <4>1. IsFinal(o, bracket_size)  BY <1>1, <2>2 DEF IsFinal
      <4>2. QED  BY <1>1, <4>1, OneFinal
    <3>2. PlayersOf(m)' = PlayersOf(m)
      <4>1. node[m] \in MatchNode /\ node' = [node EXCEPT ![m] = Decided(@, winner)]
        BY DEF PaysPrizes, CompleteTournament, MoneyInv, TypeOK
      <4>2. node'[m] = Decided(node[m], winner)  BY <4>1 DEF MoneyInv, TypeOK
      <4>3. QED  BY <4>1, <4>2 DEF Decided, PlayersOf, MatchNode
    <3>3. PlayersOf(m) = {winner, RunnerUp(m, winner)}
      BY <1>1 DEF PlayersOf, RunnerUp
    <3>4. placed[1] = winner /\ placed[2] = RunnerUp(m, winner)
      <4>1. count >= 2  BY <1>6, <1>16, <2>2 DEF Slots
      <4>2. QED  BY <1>12, <1>15, <1>16, <2>2, <4>1
    <3>5. QED  BY <3>1, <3>2, <3>3, <3>4
  <2>3. OpenNodes' \subseteq Matches  BY DEF OpenNodes
  <2>4. placed[1] = champion'  BY <1>1, <1>12, <1>15, <1>16
  <2>5. QED  BY <2>1, <2>2, <2>3, <2>4 DEF FairlyPlaced
<1>19. QED
  <2>1. Pool' = pool /\ placement_count(payout_preset)' = count
    BY <1>1, <1>2, <1>4
  <2>2. QED  BY <1>13, <1>16, <1>18, <2>1 DEF PrizesByName

(***************************************************************************)
(* The steps                                                               *)
(***************************************************************************)
\* What was paid stays paid.
LEMMA SamePrizes ==
  ASSUME PrizesByName, status = "Completed",
         UNCHANGED <<wallet, organizer_deposit_refunded, incarnation, payout_preset,
                     participant_count, bracket_size, champion>>,
         Unrefunded' = Unrefunded,
         \A m \in OpenNodes' : m \in OpenNodes /\ node'[m] = node[m]
  PROVE  PrizesByName'
<1>1. \A w : Prize(w)' = Prize(w)
  BY DEF Prize, Stake, DepositHeld
<1>2. PrizeTotal' = PrizeTotal  BY <1>1 DEF PrizeTotal
<1>3. Pool' = Pool  BY DEF Pool
<1>4. \A m \in OpenNodes' : m \in OpenNodes /\ PlayersOf(m)' = PlayersOf(m)
  BY DEF PlayersOf
<1>5. \A places : PrizeOfPlaces(places)' = PrizeOfPlaces(places)
  BY <1>3 DEF PrizeOfPlaces, PlacePrize
<1>6. \A placed : FairlyPlaced(placed) => FairlyPlaced(placed)'
  BY <1>1, <1>3, <1>4, <1>5 DEF FairlyPlaced
<1>7. QED  BY <1>2, <1>3, <1>6 DEF PrizesByName

LEMMA UneventfulPrizes ==
  ASSUME TypeOK, PrizesInv, Uneventful, ActiveIsFull'
  PROVE  PrizesInv'
<1>1. /\ status' = "None" <=> status = "None"
      /\ status' \in OpenStatus => status \in OpenStatus
      /\ status' = "Completed" => status = "Completed"
  BY DEF Uneventful, QuietStep, OpenStatus
<1>2. Numbered'
  <2>1. SameNumbers  BY DEF Uneventful, SameAccounts, SameNumbers
  <2>2. QED  BY <1>1, <2>1, QuietNumbers DEF Uneventful, PrizesInv, Numbered
<1>3. NothingRefundedYet'
  BY <1>1 DEF Uneventful, SameAccounts, QuietStep, PrizesInv, NothingRefundedYet
<1>4. PresetValid'
  BY <1>1 DEF Uneventful, PrizesInv, PresetValid
<1>5. PrizesByName'
  <2>1. CASE status' = "Completed"
    <3>1. UNCHANGED <<node, bracket_size, champion>>  BY <1>1, <2>1 DEF Uneventful
    <3>2. OpenNodes' = OpenNodes  BY <3>1 DEF OpenNodes
    <3>3. Unrefunded' = Unrefunded  BY DEF Uneventful, SameAccounts, Unrefunded
    <3>4. UNCHANGED <<wallet, organizer_deposit_refunded, incarnation, payout_preset,
                      participant_count>>
      BY DEF Uneventful, QuietStep
    <3>5. QED  BY <1>1, <2>1, <3>1, <3>2, <3>3, <3>4, SamePrizes DEF PrizesInv
  <2>2. CASE status' # "Completed"  BY <2>2 DEF PrizesByName
  <2>3. QED  BY <2>1, <2>2
<1>6. QED  BY <1>2, <1>3, <1>4, <1>5 DEF PrizesInv

LEMMA CreatePrizes ==
  ASSUME MaxIncarnations <= 1, MoneyInv, PrizesInv, ActiveIsFull',
         NEW mode, NEW preset, CreateTournament(mode, preset)
  PROVE  PrizesInv'
<1>1. Numbered'  BY CreateNumbers DEF PrizesInv, MoneyInv, Enrolled
<1>2. incarnation = 0
  BY ParametersAssumption DEF CreateTournament, MoneyInv, TypeOK
<1>3. NothingRefundedYet'
  BY <1>2 DEF CreateTournament, MoneyInv, UnbornIsEmpty, NothingRefundedYet, NoParticipant
<1>4. PresetValid'  BY DEF CreateTournament, PresetValid
<1>5. PrizesByName'  BY DEF CreateTournament, PrizesByName
<1>6. QED  BY <1>1, <1>3, <1>4, <1>5 DEF PrizesInv

LEMMA JoinPrizes ==
  ASSUME MoneyInv, PrizesInv, ActiveIsFull', NEW p \in Players, JoinTournament(p)
  PROVE  PrizesInv'
<1>1. Numbered'  BY JoinNumbers DEF PrizesInv, MoneyInv, Enrolled
<1>2. status = "Registration" /\ status' = status
      /\ UNCHANGED <<payout_preset, organizer_deposit_refunded>>
  BY DEF JoinTournament, terms
<1>3. NothingRefundedYet'
  <2>1. \A q \in Players : participant'[q].refund_paid = FALSE
    <3>1. \A q \in Players \ {p} : participant'[q] = participant[q]
      BY DEF JoinTournament, MoneyInv, TypeOK
    <3>2. participant'[p].refund_paid = FALSE
      BY DEF JoinTournament, MoneyInv, TypeOK, NoParticipant
    <3>3. QED  BY <1>2, <3>1, <3>2 DEF PrizesInv, NothingRefundedYet, OpenStatus
  <2>2. QED  BY <1>2, <2>1 DEF PrizesInv, NothingRefundedYet, OpenStatus
<1>4. PresetValid'  BY <1>2 DEF PrizesInv, PresetValid
<1>5. PrizesByName'  BY <1>2 DEF PrizesByName
<1>6. QED  BY <1>1, <1>3, <1>4, <1>5 DEF PrizesInv

LEMMA RefundPrizes ==
  ASSUME TypeOK, PrizesInv, ActiveIsFull', NEW chunk \in SUBSET Players, NEW withDeposit,
         Refunds(chunk, withDeposit)
  PROVE  PrizesInv'
<1>1. status # "None" /\ status' \in {"Cancelled", "PartialCancelled"}
      /\ UNCHANGED <<payout_preset, participant_count>>
  BY DEF Refunds
<1>2. Numbered'
  <2>1. SameNumbers  BY RefundNumbers DEF Refunds, SameNumbers
  <2>2. QED  BY <1>1, <2>1, QuietNumbers DEF PrizesInv
<1>3. NothingRefundedYet' /\ PrizesByName'
  BY <1>1 DEF NothingRefundedYet, PrizesByName, OpenStatus
<1>4. PresetValid'  BY <1>1 DEF PrizesInv, PresetValid
<1>5. QED  BY <1>2, <1>3, <1>4 DEF PrizesInv

LEMMA ClosePrizes ==
  ASSUME TypeOK, PrizesInv, ActiveIsFull', NEW players \in SUBSET Players,
         NEW nodes \in SUBSET Matches, NEW closeRoot, CloseTournament(players, nodes, closeRoot)
  PROVE  PrizesInv'
<1>1. /\ status \in TerminalStatus /\ payout_preset' = payout_preset
      /\ \/ status' = "None" /\ participant_count' = 0
         \/ UNCHANGED <<status, participant_count, bracket_size, champion>>
  BY DEF CloseTournament, NoTournament, terms, counters
<1>2. /\ UNCHANGED <<wallet, organizer_deposit_refunded, incarnation>>
      /\ Unrefunded' = Unrefunded
  BY CloseForgetsNothing
<1>3. /\ SameNumbers
      /\ OpenNodes' = OpenNodes \ nodes
      /\ \A m \in OpenNodes' : node'[m] = node[m]
  BY CloseNumbers DEF CloseTournament
<1>4. Numbered'
  BY <1>1, <1>3, QuietNumbers DEF PrizesInv, TerminalStatus
<1>5. NothingRefundedYet'
  BY <1>1 DEF NothingRefundedYet, OpenStatus, TerminalStatus
<1>6. PresetValid'  BY <1>1 DEF PrizesInv, PresetValid
<1>7. PrizesByName'
  <2>1. CASE status' = "Completed"
    <3>1. UNCHANGED <<status, participant_count, bracket_size, champion>>  BY <1>1, <2>1
    <3>2. QED  BY <1>1, <1>2, <1>3, <2>1, <3>1, SamePrizes DEF PrizesInv
  <2>2. CASE status' # "Completed"  BY <2>2 DEF PrizesByName
  <2>3. QED  BY <2>1, <2>2
<1>8. QED  BY <1>4, <1>5, <1>6, <1>7 DEF PrizesInv

LEMMA PaymentPrizes ==
  ASSUME OneLane, MoneyInv, PrizesInv, ActiveIsFull', NEW m \in Matches, NEW winner, NEW trusted,
         PaysPrizes(m, winner, trusted)
  PROVE  PrizesInv'
<1>1. status = "Active" /\ status' = "Completed"
      /\ UNCHANGED <<payout_preset, participant_count>>
  BY DEF PaysPrizes, CompleteTournament, Playable
<1>2. Numbered'
  <2>1. SameNumbers  BY DEF PaysPrizes, SameAccounts, SameNumbers
  <2>2. QED  BY <1>1, <2>1, QuietNumbers DEF PrizesInv
<1>3. NothingRefundedYet'  BY <1>1 DEF NothingRefundedYet, OpenStatus
<1>4. PresetValid'  BY <1>1 DEF PrizesInv, PresetValid
<1>5. PrizesByName'  BY PaymentMatches
<1>6. QED  BY <1>2, <1>3, <1>4, <1>5 DEF PrizesInv

LEMMA StepPrizes ==
  ASSUME MaxIncarnations <= 1, OneLane, MoneyInv, PrizesInv, [Next]_vars
  PROVE  PrizesInv'
<1>1. TypeOK  BY DEF MoneyInv
<1>2. ActiveIsFull'  BY <1>1, StepFills DEF PrizesInv
<1>3. Uneventful \/ Moves  BY <1>1, MoneyKinds
<1>4. QED
  BY <1>1, <1>2, <1>3, UneventfulPrizes, CreatePrizes, JoinPrizes, RefundPrizes, ClosePrizes,
     PaymentPrizes
  DEF Moves

LEMMA InitPrizes == Init => PrizesInv
<1> SUFFICES ASSUME Init  PROVE PrizesInv
  OBVIOUS
<1>1. Joined = {}  BY DEF Init, Joined, NoParticipant
<1>2. Numbered  BY <1>1 DEF Init, Numbered
<1>3. ActiveIsFull  BY DEF Init, ActiveIsFull, NoNode
<1>4. QED
  BY <1>2, <1>3 DEF Init, PrizesInv, NothingRefundedYet, PresetValid, PrizesByName, OpenStatus

(***************************************************************************)
(* The prizes are the ones the preset promises, to the token, for every    *)
(* pool and every preset create_tournament accepts: whoever the lower      *)
(* places are given to, the vault itself included, and however the         *)
(* descriptors of the bracket were chosen, each wallet has the fixed prize *)
(* of each of its places, the treasury the fee, and together they are the  *)
(* pool.                                                                   *)
(***************************************************************************)
THEOREM PrizesAreExact ==
  ASSUME MaxIncarnations <= 1, OneLane
  PROVE  Spec => []PrizesMatchThePreset
<1>1. Init => PrizesInv  BY InitPrizes
<1>2. MoneyInv /\ PrizesInv /\ [Next]_vars => PrizesInv'  BY StepPrizes
<1>3. PrizesInv => PrizesMatchThePreset
  BY PrizesSummed DEF PrizesInv, PrizesByName, FairlyPlaced, PrizesMatchThePreset
<1>4. QED  BY <1>1, <1>2, <1>3, MoneyInvariant, PTL DEF Spec

===============================================================================
