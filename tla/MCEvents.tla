------------------------------ MODULE MCEvents -------------------------------
\* The instance of one match for TLC: BracketChain with its log.
EXTENDS Events

OneStream == {[k \in 1..4 |-> k]}
TwoWay == Custom(<<7000, 3000, 0, 0, 0, 0, 0, 0>>)
WTAOrTwoWay == {WinnerTakesAll, TwoWay}
\* In halves: minus one is refused, and two; the four between name a player.
FeedHalves == {-2, 0, 1, 2, 3, 4}
=============================================================================
