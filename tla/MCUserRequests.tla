--------------------------- MODULE MCUserRequests ---------------------------
(* Small instances of UserRequests: two or three epochs.                    *)
EXTENDS UserRequests

(* The first consensus is valid from the start.                            *)
FromTheStart == <<0, 3, 4>>

(* The first consensus becomes valid after the start of the simulation.    *)
LateStart == <<1, 2>>
=============================================================================
