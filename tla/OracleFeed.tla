------------------------------ MODULE OracleFeed ------------------------------
(***************************************************************************)
(* A Switchboard On-Demand feed account as the program reads it.  Which    *)
(* oracles have sent a sample, what and how long ago is up to Switchboard: *)
(* a feed holds any sampling whenever it is read.                          *)
(***************************************************************************)
EXTENDS Integers, FiniteSets

CONSTANTS Oracles,       \* who may have sent a sample
          SampleValues,  \* what, in halves
          SampleAges     \* how many slots ago

\* A feed has room for the samples of so many oracles.
ASSUME OraclesAssumption == IsFiniteSet(Oracles)

Samplings == UNION {[who -> [value : SampleValues, age : SampleAges]] : who \in SUBSET Oracles}

FreshMutant(sampling, max_stale_slots) == DOMAIN sampling  \* the slot is not read

Fresh(sampling, max_stale_slots) ==
    {o \in DOMAIN sampling : sampling[o].age <= max_stale_slots}

\* The values in the middle: one, or for an even number of samples up to two.
Medians(sampling, who) ==
    LET below(v) == {o \in who : sampling[o].value < v}
        above(v) == {o \in who : sampling[o].value > v}
    IN  {v \in {sampling[o].value : o \in who} :
            /\ 2 * Cardinality(below(v)) <= Cardinality(who)
            /\ 2 * Cardinality(above(v)) <= Cardinality(who)}

(***************************************************************************)
(* get_value: the median of the fresh samples, if there are enough; which  *)
(* one of two is the library's choice.  No sample is never enough.         *)
(***************************************************************************)
GetValue(sampling, max_stale_slots, min_samples) ==
    LET fresh == Fresh(sampling, max_stale_slots)
    IN  {v \in Medians(sampling, fresh) : Cardinality(fresh) >= min_samples}
=============================================================================
