------------------------------- MODULE MCLogin -------------------------------
(***************************************************************************)
(* Instances of LoginSession for TLC.                                      *)
(***************************************************************************)
EXTENDS LoginSession, TLC

CONSTANTS home

\* All players connect from one address.
OneAddress == [p \in Player |-> home]

\* Connections are interchangeable, and so are channels.
Symmetry == Permutations(Session) \cup Permutations(Channel)

=============================================================================
