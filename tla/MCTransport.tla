----------------------------- MODULE MCTransport -----------------------------
(* Values of the constants of Transport for TLC. *)
EXTENDS Transport, TransportScripts

\* The lines whose passengers are all served, and the one where they are not.
ServedLines == {Boats, Trains, Flight, AirPlane, Subway}
OneGeenie == {Geenie}
=============================================================================
