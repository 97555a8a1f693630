------------------------------ MODULE MCGuild ------------------------------
(* Instances of Guild for TLC. *)
EXTENDS Guild, TLC

MCSymmetry == Permutations(Char) \cup Permutations(GuildId)

\* Nothing is claimed of a history in which two characters went astray, or a
\* restart revived a member, or a handover was disturbed: TLC stops there.
MCBound == Cardinality(astray) <= 1 /\ ~ revived /\ ~ disturbed
=============================================================================
