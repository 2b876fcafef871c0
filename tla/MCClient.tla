------------------------------ MODULE MCClient ------------------------------
(* Small instances of Client: two guards, one middle, two exits.           *)
EXTENDS Client, TLC

CONSTANTS g1, g2, m, x1, x2,  \* the relays
          http, https         \* the ports 80 and 443

Relays == {g1, g2, m, x1, x2}

(* x1 exits to every port; x2 to http only, which does not earn it the     *)
(* Exit flag.                                                              *)
Policy == [r \in Relays |-> IF r = x1 THEN Port ELSE IF r = x2 THEN {http} ELSE {}]

AllUp == [listed |-> Relays, running |-> Relays, valid |-> Relays,
          guards |-> {g1, g2}, middles |-> {m}, exits |-> {x1}, policy |-> Policy]

(* The guard g1 is down, and x1 is not an exit any more: x2 takes its role.*)
Changed ==
  [AllUp EXCEPT !.running = @ \ {g1},
                !.exits = {x2},
                !.policy = [Policy EXCEPT ![x1] = {}, ![x2] = Port]]

Churn == {AllUp, Changed}
=============================================================================
