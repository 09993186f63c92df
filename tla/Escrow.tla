------------------------------- MODULE Escrow --------------------------------
(***************************************************************************)
(* What the vault of a tournament promises, with everything but the money  *)
(* left out: a pool that holds one deposit and one entry fee per entrant   *)
(* either is paid out whole as prizes, or goes back piece by piece to      *)
(* those who paid it in, each piece once.  A share of the prizes may be    *)
(* made out to the escrow itself; it stays in the pool, and nothing else   *)
(* does.  BracketChain implements it.                                      *)
(***************************************************************************)
EXTENDS Integers, FiniteSets

CONSTANTS Players, EntryFee, OrganizerDeposit

VARIABLES phase,      \* where the money is on its way
          paidIn,     \* the entrants that have paid their fee
          refunded,   \* those of them that have it back
          depositIn,  \* the organizer's deposit is still in the pool
          own,        \* the share of the prizes made out to the escrow itself
          pool        \* the tokens in the vault

vars == <<phase, paidIn, refunded, depositIn, own, pool>>

Phase == {"Unborn", "Open", "Refunding", "PaidOut", "Gone"}

Init ==
    /\ phase = "Unborn" /\ paidIn = {} /\ refunded = {}
    /\ depositIn = TRUE /\ own = 0 /\ pool = 0

Open ==
    /\ phase = "Unborn" /\ phase' = "Open"
    /\ pool' = OrganizerDeposit
    /\ UNCHANGED <<paidIn, refunded, depositIn, own>>

PayIn(p) ==
    /\ phase = "Open" /\ p \notin paidIn
    /\ paidIn' = paidIn \cup {p}
    /\ pool' = pool + EntryFee
    /\ UNCHANGED <<phase, refunded, depositIn, own>>

\* Once a refund is under way there is no way back to prizes.
Refund(owed, deposit) ==
    /\ phase \in {"Open", "Refunding"} /\ phase' = "Refunding"
    /\ owed \subseteq paidIn \ refunded
    /\ refunded' = refunded \cup owed
    /\ deposit => depositIn
    /\ depositIn' = (depositIn /\ ~deposit)
    /\ pool' = pool - EntryFee * Cardinality(owed)
                    - (IF deposit THEN OrganizerDeposit ELSE 0)
    /\ UNCHANGED <<paidIn, own>>

PayOut ==
    /\ phase = "Open" /\ phase' = "PaidOut"
    /\ own' \in 0..pool
    /\ pool' = own'
    /\ UNCHANGED <<paidIn, refunded, depositIn>>

Dissolve ==
    /\ phase \in {"Refunding", "PaidOut"} /\ phase' = "Gone"
    /\ pool = 0
    /\ UNCHANGED <<paidIn, refunded, depositIn, own, pool>>

Next ==
    \/ Open
    \/ \E p \in Players : PayIn(p)
    \/ \E owed \in SUBSET Players, deposit \in BOOLEAN : Refund(owed, deposit)
    \/ PayOut
    \/ Dissolve

Spec == Init /\ [][Next]_vars
=============================================================================
