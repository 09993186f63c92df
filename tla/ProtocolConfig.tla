---------------------------- MODULE ProtocolConfig ----------------------------
(***************************************************************************)
(* The ProtocolConfig PDA, the one account all tournaments share, and its  *)
(* authority's instructions.  Treasury and authority are written once and  *)
(* are constants of the model.                                             *)
(***************************************************************************)
EXTENDS Naturals

CONSTANTS Unset,          \* Pubkey::default(), in a field nobody has set
          IdentityGames,  \* the games a SAS schema is kept for
          SasChoices,     \* what set_sas_config may be given
          OracleChoices   \* what set_oracle_config may be given

\* max_stale_slots is a u32.
ASSUME OracleChoicesAssumption ==
    \A choice \in OracleChoices : choice.max_stale_slots \in Nat

VARIABLE config

MIN_ORACLE_SAMPLES_FLOOR == 1
MAX_ORACLE_STALE_SLOTS_CEILING == 9000

\* "Old": the layout before V1.1, which the instructions cannot read.
NoConfig == [layout |-> "None", sas_credential |-> Unset,
             sas_schemas |-> [g \in IdentityGames |-> Unset],
             switchboard_queue |-> Unset, max_stale_slots |-> 0, min_oracle_samples |-> 0]

OldConfig == [NoConfig EXCEPT !.layout = "Old"]

ConfigReadable == config.layout = "Current"

\* initialize_protocol: once; what V1.1 and V1.2 appended stays zero.
InitializeProtocol ==
    /\ config.layout = "None"
    /\ config' = [NoConfig EXCEPT !.layout = "Current"]

\* migrate_protocol_config: grows the account, the new fields are zero.
MigrateProtocolConfig ==
    /\ config.layout = "Old"
    /\ config' = [config EXCEPT !.layout = "Current"]

SetSasConfig(choice) ==
    /\ ConfigReadable
    /\ config' = [config EXCEPT !.sas_credential = choice.sas_credential,
                                !.sas_schemas = choice.sas_schemas]

ValidBoundsMutant(choice) ==  \* the ceiling is forgotten
    choice.min_oracle_samples >= MIN_ORACLE_SAMPLES_FLOOR

ValidBounds(choice) ==
    /\ choice.min_oracle_samples >= MIN_ORACLE_SAMPLES_FLOOR
    /\ choice.max_stale_slots <= MAX_ORACLE_STALE_SLOTS_CEILING

SetOracleConfig(choice) ==
    /\ ConfigReadable
    /\ ValidBounds(choice)
    /\ config' = [config EXCEPT !.switchboard_queue = choice.switchboard_queue,
                                !.max_stale_slots = choice.max_stale_slots,
                                !.min_oracle_samples = choice.min_oracle_samples]
=============================================================================
