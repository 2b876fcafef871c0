------------------------------ MODULE NeedCover ------------------------------
(***************************************************************************)
(* What covering port needs promises (the comments of src/src/needs.rs),   *)
(* told without time, handles, counters and relays: before a request is    *)
(* looked at, CoverNum spare circuits are reserved for every port that is  *)
(* predicted; a request takes at most one circuit away, from all the ports *)
(* it was reserved for, and reserves at most one more, for its own port.   *)
(*                                                                         *)
(* CircuitManager implements this specification: there, cover is nowhere   *)
(* stored, but spread over the handles the circuits hold, and the code     *)
(* decides by the counters in the needs.                                   *)
(***************************************************************************)
EXTENDS Integers, FiniteSets

CONSTANTS Port, CoverNum

VARIABLES
  spare,  \* the circuits that have not been used
  cover,  \* for every port that is predicted, the circuits reserved for it
  stage   \* "idle", "covering", "serving" or "failed"

vars == <<spare, cover, stage>>

Init ==
  /\ spare = {}
  /\ cover = [p \in {} |-> p]
  /\ stage = "idle"

(* Circuits are closed, predictions expire, new ones are made.             *)
Housekeep ==
  /\ stage = "idle"
  /\ stage' = "covering"
  /\ spare' \subseteq spare
  /\ \E kept \in SUBSET DOMAIN cover, new \in SUBSET (Port \ DOMAIN cover) :
       cover' = [p \in kept \cup new |-> IF p \in kept THEN cover[p] \cap spare' ELSE {}]

(* A circuit is built for a port that has too few, and for no other.       *)
Build ==
  /\ stage = "covering"
  /\ \E c \in spare' \ spare, p \in DOMAIN cover :
       /\ Cardinality(cover[p]) < CoverNum
       /\ spare' = spare \cup {c}
       /\ cover' = [cover EXCEPT ![p] = @ \cup {c}]
  /\ UNCHANGED stage

Ready ==
  /\ stage = "covering"
  /\ \A p \in DOMAIN cover : Cardinality(cover[p]) = CoverNum
  /\ stage' \in {"idle", "serving"}
  /\ UNCHANGED <<spare, cover>>

(* What is left for port p when only the circuits of rest are spare.       *)
Left(p, rest) == IF p \in DOMAIN cover THEN cover[p] \cap rest ELSE {}

Serve(p) ==
  /\ stage = "serving"
  /\ stage' = "idle"
  /\ spare' \subseteq spare
  /\ \A c, d \in spare \ spare' : c = d
  /\ DOMAIN cover' = DOMAIN cover \cup {p}
  /\ \A q \in DOMAIN cover \ {p} : cover'[q] = Left(q, spare')
  /\ \/ cover'[p] = Left(p, spare')
     \/ /\ Cardinality(Left(p, spare')) < CoverNum
        /\ \E c \in spare' \ Left(p, spare') : cover'[p] = Left(p, spare') \cup {c}

(* The simulation ends, possibly after a request has taken its circuit.    *)
Fail ==
  /\ stage \in {"covering", "serving"}
  /\ stage' = "failed"
  /\ \/ UNCHANGED <<spare, cover>>
     \/ /\ stage = "serving"
        /\ \E c \in spare : /\ spare' = spare \ {c}
                            /\ cover' = [p \in DOMAIN cover |-> cover[p] \ {c}]

Next ==
  \/ Housekeep
  \/ Build
  \/ Ready
  \/ \E p \in Port : Serve(p)
  \/ Fail

Spec == Init /\ [][Next]_vars
=============================================================================
