--------------------------- MODULE PairingService ---------------------------
(***************************************************************************)
(* What pairing promises: once a request has had the right PIN, the paired *)
(* fob's secrets are copied to the other fob as a whole.  Only when a      *)
(* message is cut off in the middle or hit by noise may a fob end up with  *)
(* less that passes for the whole, and what a fob has got it keeps.        *)
(***************************************************************************)
VARIABLES
    given,    \* a request has had the right PIN
    leaked,   \* words of the secrets have been among the rest of a message
    damaged,  \* a message has been cut off in the middle or hit by noise
    copies,   \* the fobs with the secrets
    spoilt    \* the fobs with a part of them that passes for the whole

serviceVars == <<given, leaked, damaged, copies, spoilt>>

Init == /\ given = FALSE /\ leaked = FALSE /\ damaged = FALSE
        /\ copies = {"pfob"} /\ spoilt = {}

Give == given' = TRUE /\ UNCHANGED <<leaked, damaged, copies, spoilt>>

Leak == leaked' = TRUE /\ UNCHANGED <<given, damaged, copies, spoilt>>

(* Noise may also make a PIN right.                                        *)
Damage ==
    /\ damaged' = TRUE
    /\ given' \in {given, TRUE}
    /\ UNCHANGED <<leaked, copies, spoilt>>

(* Without the PIN, only what leaked and was then taken out of step.       *)
Copy ==
    /\ given \/ (leaked /\ damaged)
    /\ "ufob" \notin spoilt
    /\ copies' = copies \cup {"ufob"}
    /\ UNCHANGED <<given, leaked, damaged, spoilt>>

Spoil ==
    /\ damaged /\ "ufob" \notin copies
    /\ spoilt' = spoilt \cup {"ufob"}
    /\ UNCHANGED <<given, leaked, damaged, copies>>

Spec == Init /\ [][Give \/ Leak \/ Damage \/ Copy \/ Spoil]_serviceVars
=============================================================================
