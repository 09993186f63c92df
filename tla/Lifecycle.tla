------------------------------ MODULE Lifecycle ------------------------------
(***************************************************************************)
(* The instructions that move a tournament through its life: create, join, *)
(* seed, start, cancel, refund and close.                                  *)
(***************************************************************************)
EXTENDS TournamentState

(***************************************************************************)
(* create_tournament: the organizer opens the Tournament PDA and its vault *)
(* and pays the deposit in.  `init' fails while the PDA exists; Participant*)
(* and MatchNode accounts an earlier tournament at the same PDA left open  *)
(* are still there and still carry this tournament's key.                  *)
(***************************************************************************)
CreateTournament(mode, preset) ==
    /\ status = "None" /\ incarnation < MaxIncarnations
    /\ MIN_PARTICIPANTS <= MaxParticipants /\ MaxParticipants <= MAX_PARTICIPANTS
    /\ validate_custom(preset)
    /\ min_participants(preset) <= MaxParticipants
    /\ RegistrationPeriod > 0
    /\ vault' = OrganizerDeposit
    /\ wallet' = [wallet EXCEPT ![Organizer] = @ - OrganizerDeposit]
    /\ status' = "Registration"
    /\ settlement_mode' = mode /\ payout_preset' = preset
    /\ registration_timer' = RegistrationPeriod
    /\ incarnation' = incarnation + 1
    /\ participant' = [p \in Players |-> IF participant[p].account = "Open"
                                         THEN participant[p] ELSE NoParticipant]
    /\ organizer_deposit_refunded' = FALSE
    /\ UNCHANGED <<counters, champion, seeding, matches>>

(***************************************************************************)
(* join_tournament: `init' fails while the player's Participant PDA exists.*)
(* The SAS identity check that gates who may call it is in Deployment.     *)
(***************************************************************************)
JoinTournament(p) ==
    /\ participant[p].account # "Open"
    /\ status = "Registration"
    /\ registration_timer > 0
    /\ participant_count < MaxParticipants
    /\ vault' = vault + EntryFee
    /\ wallet' = [wallet EXCEPT ![p] = @ - EntryFee]
    /\ participant' = [participant EXCEPT
           ![p] = [NoParticipant EXCEPT !.account = "Open", !.seed_index = participant_count]]
    /\ participant_count' = participant_count + 1
    /\ UNCHANGED <<status, terms, registration_timer, bracket_size, matches_initialized,
                   matches_reported, champion, seeding, organizer_deposit_refunded,
                   matches, incarnation>>

(***************************************************************************)
(* request_seed: the organizer binds a Switchboard randomness account, or  *)
(* binds another one as long as no seed is revealed.                       *)
(***************************************************************************)
RequestSeed ==
    /\ status = "Registration"
    /\ settlement_mode # "OrganizerOnly"
    /\ ~seed_revealed
    /\ vrf_bound' = TRUE
    /\ UNCHANGED <<status, terms, registration_timer, counters, champion,
                   seed_revealed, seed_hash, money, participant, matches, incarnation>>

(***************************************************************************)
(* reveal_seed: anyone copies the bound account's value, once.  The status *)
(* is not looked at, and neither is the slot of the request.               *)
(***************************************************************************)
RevealSeed(seed) ==
    /\ status # "None"
    /\ vrf_bound
    /\ ~seed_revealed
    /\ seed_hash' = seed /\ seed_revealed' = TRUE
    /\ UNCHANGED <<status, terms, registration_timer, counters, champion, vrf_bound,
                   money, participant, matches, incarnation>>

(***************************************************************************)
(* start_tournament, one chunk of descriptors                              *)
(***************************************************************************)
Descriptor == [player_a : Wallets \cup {NoOne}, player_b : Wallets \cup {NoOne},
               bye : BOOLEAN]

(***************************************************************************)
(* Whom a seed rank stands for: a player whose Participant account carries *)
(* the join number the permutation puts there (consume_and_check).         *)
(***************************************************************************)
Holders(perm, rank) ==
    {p \in OpenParticipants : participant[p].seed_index = perm[rank]}

\* round0_expected, looked up: the players of round-0 match m.
SeededRound0(m, size, perm) ==
    LET bye == IsBye(m, size, participant_count)
    IN  [player_a : Holders(perm, m),
         player_b : IF bye THEN {NoOne} ELSE Holders(perm, OpponentRank(m, size)),
         bye      : {bye}]

SeededRound1SlotMutant(m, size, perm) == {NoOne}  \* byes do not move up

\* validate_round1_slot: the winner of a round-0 bye waits in its round-1 slot.
SeededRound1Slot(m, size, perm) ==
    IF IsBye(m, size, participant_count) THEN Holders(perm, m) ELSE {NoOne}

\* The descriptors validate_descriptor_against_seed accepts for a match: one,
\* unless two Participant accounts carry the same join number.
SeededDescriptors(id, size, perm) ==
    CASE id.round = 0 -> SeededRound0(id.index, size, perm)
      [] id.round = 1 ->
           [player_a : SeededRound1Slot(2 * id.index, size, perm),
            player_b : SeededRound1Slot(2 * id.index + 1, size, perm),
            bye      : {FALSE}]
      [] OTHER -> [player_a : {NoOne}, player_b : {NoOne}, bye : {FALSE}]

(***************************************************************************)
(* What the organizer may send for a chunk.  Only a seeded bracket is      *)
(* validated; in OrganizerOnly mode the code takes any descriptor, here    *)
(* the seeded ones the SDK builds and any over FreeEntrants.               *)
(***************************************************************************)
SeededDraws(ids, size, seed) ==
    LET accepted == [id \in ids |->
            SeededDescriptors(id, size, SeedPermutation(seed, participant_count))]
    IN  {draw \in [ids -> UNION {accepted[id] : id \in ids}] :
            \A id \in ids : draw[id] \in accepted[id]}

FreeDraws(ids) ==
    [ids -> {d \in Descriptor : {d.player_a, d.player_b} \subseteq FreeEntrants}]

Draws(ids, size, seed) ==
    SeededDraws(ids, size, seed)
        \cup (IF settlement_mode = "OrganizerOnly" /\ FreeEntrants # {}
              THEN FreeDraws(ids) ELSE {})

\* The MatchNode account the handler writes for a descriptor.
NewNode(d) ==
    [status   |-> CASE d.bye -> "Completed"
                    [] ~d.bye /\ d.player_a # NoOne /\ d.player_b # NoOne -> "Active"
                    [] OTHER -> "Pending",
     player_a |-> d.player_a,
     player_b |-> IF d.bye THEN NoOne ELSE d.player_b,
     winner   |-> IF d.bye THEN d.player_a ELSE NoOne,
     bye      |-> d.bye]

ByesInMutant(ids, draw) == 0  \* byes are not reported

\* Byes are reported the moment they are written.
ByesIn(ids, draw) == Cardinality({id \in ids : draw[id].bye})

DrawBracketMutant(size, seed) ==  \* every chunk hashes a seed of its own
    \/ /\ status = "Registration"
       /\ participant_count >= MIN_PARTICIPANTS
       /\ size = BracketSize(participant_count)
       /\ seed \in Seeds
    \/ /\ status = "PendingBracketInit"
       /\ size = bracket_size /\ seed \in Seeds

(***************************************************************************)
(* The first chunk fixes the seed and the size of the bracket.  A bound    *)
(* VRF seed must be revealed; without one only OrganizerOnly may go on,    *)
(* with a seed hashed from recent slot hashes.                             *)
(***************************************************************************)
DrawBracket(size, seed) ==
    \/ /\ status = "Registration"
       /\ participant_count >= MIN_PARTICIPANTS
       /\ size = BracketSize(participant_count)
       /\ \/ vrf_bound /\ seed_revealed /\ seed = seed_hash
          \/ ~vrf_bound /\ settlement_mode = "OrganizerOnly" /\ seed \in Seeds
    \/ /\ status = "PendingBracketInit"
       /\ size = bracket_size /\ seed = seed_hash

(***************************************************************************)
(* A chunk creates a MatchNode for each descriptor, and the transaction    *)
(* fails if one of them exists.  The lane of a descriptor is not checked.  *)
(* The chunk that brings matches_initialized to size - 1 activates the     *)
(* tournament.                                                             *)
(***************************************************************************)
StartTournament(ids, size, seed) ==
    /\ DrawBracket(size, seed)
    /\ ids \subseteq MatchIds(Lanes, size) \ OpenNodes
    /\ Cardinality(ids) <= MaxChunk
    /\ \E draw \in Draws(ids, size, seed) :
         /\ node' = [m \in Matches |-> IF m \in ids THEN NewNode(draw[m]) ELSE node[m]]
         /\ matches_reported' = matches_reported + ByesIn(ids, draw)
    /\ envelope' = [m \in Matches |-> IF m \in ids THEN EmptyEnvelope ELSE envelope[m]]
    /\ settledBy' = [m \in Matches |-> IF m \in ids THEN NoOne ELSE settledBy[m]]
    /\ committed' = committed \ ids /\ feed_bound' = feed_bound \ ids
    /\ seed_hash' = seed /\ bracket_size' = size
    /\ matches_initialized' = matches_initialized + Cardinality(ids)
    /\ status' = IF matches_initialized' = size - 1 THEN "Active" ELSE "PendingBracketInit"
    /\ UNCHANGED <<terms, registration_timer, participant_count, champion, vrf_bound,
                   seed_revealed, money, participant, incarnation>>

DepositDueMutant(withDeposit) ==  \* the flag is not read
    IF withDeposit THEN OrganizerDeposit ELSE 0

(***************************************************************************)
(* Refunds, shared by cancel_tournament and partial_refund_chunk: the      *)
(* deposit once, if the organizer's token account is passed, and the entry *)
(* fee of every participant of the chunk that has not been paid.  One      *)
(* transfer that fails, a closed Participant or a vault that is too low,   *)
(* undoes them all.                                                        *)
(***************************************************************************)
DepositDue(withDeposit) ==
    IF withDeposit /\ ~organizer_deposit_refunded THEN OrganizerDeposit ELSE 0

UnpaidMutant(chunk) == chunk  \* refund_paid is not read

Unpaid(chunk) == {p \in chunk : ~participant[p].refund_paid}

RefundChunk(chunk, withDeposit) ==
    LET unpaid == Unpaid(chunk)
        deposit == DepositDue(withDeposit)
        total == deposit + EntryFee * Cardinality(unpaid)
    IN  /\ chunk \subseteq OpenParticipants
        /\ Cardinality(chunk) <= MaxChunk
        /\ total <= vault
        /\ vault' = vault - total
        /\ wallet' = [w \in Wallets |-> wallet[w] + (IF w = Organizer THEN deposit ELSE 0)
                                                  + (IF w \in unpaid THEN EntryFee ELSE 0)]
        /\ organizer_deposit_refunded' = (organizer_deposit_refunded \/ deposit > 0)
        /\ participant' = [p \in Players |->
               IF p \in unpaid THEN [participant[p] EXCEPT !.refund_paid = TRUE]
               ELSE participant[p]]

(***************************************************************************)
(* cancel_tournament: only the organizer flips the status; the same call,  *)
(* and every later one by anyone, refunds a chunk.                         *)
(***************************************************************************)
CancelTournament(caller, chunk, withDeposit) ==
    /\ status \in {"Registration", "PendingBracketInit", "Cancelled"}
    /\ status # "Cancelled" => caller = Organizer
    /\ status' = "Cancelled"
    /\ RefundChunk(chunk, withDeposit)
    /\ UNCHANGED <<terms, registration_timer, counters, champion, seeding, matches,
                   incarnation>>

\* partial_cancel_tournament: the organizer, mid-tournament.
PartialCancelTournament ==
    /\ status = "Active"
    /\ status' = "PartialCancelled"
    /\ UNCHANGED <<terms, registration_timer, counters, champion, seeding, money,
                   participant, matches, incarnation>>

\* partial_refund_chunk: anyone, after that.
PartialRefundChunk(chunk, withDeposit) ==
    /\ status = "PartialCancelled"
    /\ RefundChunk(chunk, withDeposit)
    /\ UNCHANGED <<tournament, matches, incarnation>>

(***************************************************************************)
(* close_tournament: anyone, in a terminal status.  Closes the child       *)
(* accounts it is given whatever they hold, and with close_root and an     *)
(* empty vault the vault and the Tournament account too.                   *)
(***************************************************************************)
CloseChildren(players, nodes) ==
    /\ players \subseteq OpenParticipants /\ nodes \subseteq OpenNodes
    /\ Cardinality(players) + Cardinality(nodes) <= MaxCloseChunk
    /\ participant' = [p \in Players |->
           IF p \in players THEN [participant[p] EXCEPT !.account = "Closed"]
           ELSE participant[p]]
    /\ node' = [m \in Matches |-> IF m \in nodes THEN NoNode ELSE node[m]]
    /\ envelope' = [m \in Matches |-> IF m \in nodes THEN EmptyEnvelope ELSE envelope[m]]
    /\ settledBy' = [m \in Matches |-> IF m \in nodes THEN NoOne ELSE settledBy[m]]
    /\ committed' = committed \ nodes /\ feed_bound' = feed_bound \ nodes

NoTournament ==
    /\ status' = "None" /\ champion' = NoOne /\ registration_timer' = 0
    /\ participant_count' = 0 /\ bracket_size' = 0
    /\ matches_initialized' = 0 /\ matches_reported' = 0
    /\ vrf_bound' = FALSE /\ seed_revealed' = FALSE /\ seed_hash' = NoSeed

CloseTournament(players, nodes, closeRoot) ==
    /\ status \in TerminalStatus
    /\ CloseChildren(players, nodes)
    /\ \/ closeRoot /\ vault = 0 /\ NoTournament
       \/ ~closeRoot /\ UNCHANGED <<status, registration_timer, counters, champion, seeding>>
    /\ UNCHANGED <<terms, money, incarnation>>
=============================================================================
