----------------------------- MODULE SignedCall -----------------------------
(***************************************************************************)
(* What a caller may rely on when it makes calls, one after the other,     *)
(* whose legs (the transactions of a request) land on chain one by one:    *)
(*   - "ok" is returned only when every leg has landed;                    *)
(*   - "refused" only when no further leg will ever land;                  *)
(*   - "raised" only when no leg landed or ever will;                      *)
(*   - after "unknown" the legs may still land, for as long as they like.  *)
(* Keeper is written against this contract; ExecBridge implements it.      *)
(***************************************************************************)
EXTENDS Naturals, Sequences

CONSTANTS Legs      \* the most legs of a request

VARIABLES
    fates,     \* by call: what its caller was told, "open" before that
    legs,      \* by call: how many legs it has
    landed     \* by call: how many of them have landed

vars == <<fates, legs, landed>>

Outcomes == {"ok", "refused", "raised", "unknown"}

Init == fates = <<>> /\ legs = <<>> /\ landed = <<>>

\* A call is made once the one before it has come back.
Call ==
    /\ \A i \in DOMAIN fates : fates[i] # "open"
    /\ \E n \in 1 .. Legs : legs' = Append(legs, n)
    /\ fates' = Append(fates, "open")
    /\ landed' = Append(landed, 0)

Land(i) ==
    /\ fates[i] \in {"open", "unknown"} /\ landed[i] < legs[i]
    /\ landed' = [landed EXCEPT ![i] = @ + 1]
    /\ UNCHANGED <<fates, legs>>

Return(i, outcome) ==
    /\ fates[i] = "open"
    /\ outcome = "ok" => landed[i] = legs[i]
    /\ outcome = "raised" => landed[i] = 0
    /\ fates' = [fates EXCEPT ![i] = outcome]
    /\ UNCHANGED <<legs, landed>>

Next ==
    \/ Call
    \/ \E i \in DOMAIN fates :
        Land(i) \/ \E outcome \in Outcomes : Return(i, outcome)

Spec == Init /\ [][Next]_vars
=============================================================================
