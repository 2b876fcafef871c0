-------------------------- MODULE MCCircuitManager --------------------------
(* Small instances of CircuitManager: one guard, one middle, two exits.    *)
EXTENDS CircuitManager, TLC

CONSTANTS g, m, x1, x2,      \* the relays
          http, https, ssh   \* the ports 80, 443 and (long-lived) 22

Relays == {g, m, x1, x2}

(* x1 exits to every port; x2 to http only.                                *)
Policy == [r \in Relays |-> IF r = x1 THEN Port ELSE IF r = x2 THEN {http} ELSE {}]

AllUp == [listed |-> Relays, running |-> Relays, valid |-> Relays,
          guards |-> {g}, middles |-> {m}, exits |-> {x1, x2}, policy |-> Policy]

(* x1 is not in the consensus, or is there without the Running flag.       *)
X1Gone == [AllUp EXCEPT !.listed = @ \ {x1}, !.running = @ \ {x1}, !.valid = @ \ {x1}]

X1Down == [AllUp EXCEPT !.running = @ \ {x1}]

(* The roles of the two exits are exchanged.                               *)
PolicySwap ==
  [AllUp EXCEPT !.policy = [Policy EXCEPT ![x1] = Policy[x2], ![x2] = Policy[x1]]]

(* A relay leaves the consensus or loses the Running flag, and comes back; *)
(* exit policies stay.                                                     *)
Leaving == {AllUp, X1Gone, X1Down}

(* No exit allows https.                                                   *)
NoHttps == [AllUp EXCEPT !.policy = [Policy EXCEPT ![x1] = {http}]]

(* An exit stops to allow a port, for which there is then another or none. *)
PolicyChurn == {AllUp, PolicySwap, NoHttps}
=============================================================================
