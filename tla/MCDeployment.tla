----------------------------- MODULE MCDeployment ----------------------------
\* An instance of Deployment for TLC.
EXTENDS Deployment, TLC

CONSTANTS p1, p2

OneStream == {[k \in 1..4 |-> k]}
WTAOnly == {WinnerTakesAll}

SomeSas == {[sas_credential |-> issuer, sas_schemas |-> [g \in IdentityGames |-> g]] :
               issuer \in {"Issuer", "Next"}}

\* The last two are refused.
SomeOracle ==
    {[switchboard_queue |-> "Queue", max_stale_slots |-> 100, min_oracle_samples |-> 2],
     [switchboard_queue |-> "Queue", max_stale_slots |-> 9001, min_oracle_samples |-> 1],
     [switchboard_queue |-> "Queue", max_stale_slots |-> 100, min_oracle_samples |-> 0]}

Attestation(nonce, credential, schema, id) ==
    [owner |-> "SAS", nonce |-> nonce, credential |-> credential, schema |-> schema,
     identity |-> id]

(***************************************************************************)
(* Both players may join under one identity, and the second also under one *)
(* of its own; that of the first expires while it plays, and it has another*)
(* of the issuer the protocol may turn to.  The others are no valid        *)
(* attestations: expired, of another game, of another program.             *)
(***************************************************************************)
Expiring == Attestation(p1, "Issuer", "Dota2", "first")
Expired == Attestation(p1, "Issuer", "Dota2", "second")
SomeAttestations ==
    {Expiring, Expired,
     Attestation(p2, "Issuer", "Dota2", "first"), Attestation(p2, "Issuer", "Dota2", "second"),
     Attestation(p1, "Next", "Dota2", "second"), Attestation(p1, "Issuer", "Cs2", "second"),
     [Attestation(p1, "Issuer", "Dota2", "second") EXCEPT !.owner = "Other"]}
SomeLifetimes == [a \in {Expiring, Expired} |-> IF a = Expiring THEN 1 ELSE 0]

SomeFeeds == {[owner |-> "OnDemand", queue |-> "Queue", feed_hash |-> "job"],
              [owner |-> "OnDemand", queue |-> "Other", feed_hash |-> "job"],
              [owner |-> "OnDemand", queue |-> "Queue", feed_hash |-> "another"],
              [owner |-> "Other", queue |-> "Queue", feed_hash |-> "job"]}
Hashes == {"job", "another"}
=============================================================================
