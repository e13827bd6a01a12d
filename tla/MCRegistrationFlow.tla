-------------------------- MODULE MCRegistrationFlow --------------------------
(***************************************************************************)
(* Small instances of RegistrationFlow for TLC.                            *)
(***************************************************************************)
EXTENDS RegistrationInvariant, TLC

CONSTANTS e1, e2, w1, w2, s1, s2, s3

Individual == [type |-> "BY_INDIVIDUAL", players |-> 1]
Pair       == [type |-> "BY_TEAM", players |-> 2]

\* An event open to both types, one that has closed, and one without teams of two.
OpenConfig   == [options |-> RegTypes, min |-> 1, max |-> 2, closeTime |-> 1]
ClosedConfig == [options |-> RegTypes, min |-> 1, max |-> 2, closeTime |-> 0]
SoloConfig   == [options |-> {"BY_INDIVIDUAL"}, min |-> 1, max |-> 1, closeTime |-> 1]

MCConfigs   == {OpenConfig, ClosedConfig, SoloConfig}
MCOneConfig == {OpenConfig}
MCTimes    == {1}

\* Each email always submits the same registration ...
MCOneShape == [e \in Emails |-> IF e = e1 THEN {Pair} ELSE {Individual}]
\* ... or may come back with another.
MCAnyShape == [e \in Emails |-> {Individual, Pair}]

MCWorkerSymmetry == Permutations(Workers)
MCSymmetry == Permutations(Workers) \cup Permutations(Sessions)
=============================================================================
