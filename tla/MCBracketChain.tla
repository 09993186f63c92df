--------------------------- MODULE MCBracketChain ----------------------------
(***************************************************************************)
(* Instances of BracketChain for TLC: values the cfg syntax cannot write.  *)
(***************************************************************************)
EXTENDS Claims, TLC

\* One seed, when the order of play does not matter to the question.
OneStream == {[k \in 1..4 |-> k]}
\* Two that draw three entrants in different orders.
TwoStreams == {[k \in 1..4 |-> k], [k \in 1..4 |-> 0]}

WTAOnly == {WinnerTakesAll}
TwoWay == Custom(<<7000, 3000, 0, 0, 0, 0, 0, 0>>)
TwoWayOnly == {TwoWay}

WTAOrStandard == {WinnerTakesAll, Standard}

(***************************************************************************)
(* A tournament whose field is complete: everybody joined, in one order.   *)
(* For questions about large brackets, where the order of joining only     *)
(* renames the players.                                                    *)
(***************************************************************************)
JoinOrder ==
    CHOOSE order \in [0..(MaxParticipants - 1) -> Players] :
        \A i, j \in DOMAIN order : i # j => order[i] # order[j]

JoinNumber(p) == CHOOSE i \in DOMAIN JoinOrder : JoinOrder[i] = p

FieldComplete ==
    /\ status = "Registration" /\ champion = NoOne /\ registration_timer = 0
    /\ settlement_mode \in Modes /\ payout_preset \in Presets
    /\ participant_count = MaxParticipants /\ bracket_size = 0
    /\ matches_initialized = 0 /\ matches_reported = 0
    /\ vrf_bound = FALSE /\ seed_revealed = FALSE /\ seed_hash = NoSeed
    /\ organizer_deposit_refunded = FALSE
    /\ vault = OrganizerDeposit + EntryFee * MaxParticipants
    /\ wallet = [w \in Wallets |-> CASE w \in Players -> -EntryFee
                                     [] w = Organizer -> -OrganizerDeposit
                                     [] OTHER -> 0]
    /\ participant = [p \in Players |->
           [NoParticipant EXCEPT !.account = "Open", !.seed_index = JoinNumber(p)]]
    /\ node = [m \in Matches |-> NoNode]
    /\ envelope = [m \in Matches |-> EmptyEnvelope]
    /\ committed = {} /\ feed_bound = {}
    /\ settledBy = [m \in Matches |-> NoOne]
    /\ incarnation = 1

FieldCompleteSpec == FieldComplete /\ [][Next]_vars

\* The first round is drawn first, and by the seed; the rest at will.
FirstRoundFirst ==
    status' = "PendingBracketInit" =>
        LET first == {m \in Matches : m.round = 0}
        IN  /\ OpenNodes' = first
            /\ \A m, n \in first : m # n => (PlayersOf(m) \cap PlayersOf(n))' \subseteq {NoOne}

AtWillSpec == FieldComplete /\ [][Next /\ FirstRoundFirst]_vars

(***************************************************************************)
(* Every match is proposed by its first player, for either of the two, or  *)
(* the final by the oracle once it is committed for it; and nobody         *)
(* disputes or cancels.  What a proposal and a refund go through is the    *)
(* matter of the small instances, how the bracket fills is that of the     *)
(* large ones.  An action constraint.                                      *)
(***************************************************************************)
Harmony ==
    /\ status' \notin {"Cancelled", "PartialCancelled"}
    /\ \A m \in Matches :
        /\ ~envelope'[m].disputed
        /\ envelope'[m].source = "Player" => envelope'[m].proposer = node'[m].player_a
        /\ envelope'[m].source = "Oracle" => envelope'[m].proposer = Relayer
        /\ m \in committed' =>
               IsFinal(m, BracketSize(MaxParticipants)) /\ envelope'[m].source # "Player"

LivenessSpec == FieldCompleteSpec /\ CronFairness /\ RefundFairness

(***************************************************************************)
(* A started tournament comes to an end if, besides the crons, some player *)
(* of each playable match reports a result (settlement.rs, start_          *)
(* tournament.rs: byes and advancement leave no dead end).                 *)
(***************************************************************************)
PlayedToTheEnd == PlayFairness => BracketFinishes

PlayerSymmetry == Permutations(Players)
=============================================================================
