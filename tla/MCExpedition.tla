---------------------------- MODULE MCExpedition ----------------------------
(* Expedition for TLC: the cfg files give every constant a model value. *)
EXTENDS Expedition, TLC

\* Without refused warps no definition and no property reads more of the
\* history than whether somebody returned.
MCView == << squadVars, battleVars, charVars, job, "returned" \in lapses >>

\* Bound: what comes after a lapse is cut off.
MCNoLapse == lapses = {}
MCSymmetry == Permutations(Player)
=============================================================================
