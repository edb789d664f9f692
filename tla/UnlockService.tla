---------------------------- MODULE UnlockService ----------------------------
(***************************************************************************)
(* What the car and its paired fob promise their owner, with no messages,  *)
(* nonces, buffers or power in sight: the button is pressed, packages are  *)
(* installed on the fob, and the car may open once for every press,        *)
(* announcing installed features only.                                     *)
(***************************************************************************)
EXTENDS Naturals, Sequences

CONSTANTS Features

VARIABLES
    presses,    \* an identifier for every press so far
    installed,  \* the features installed on the fob
    opened      \* what the car announced, in order

serviceVars == <<presses, installed, opened>>

Init == presses = {} /\ installed = {} /\ opened = <<>>

Press ==
    /\ \E n \in presses' \ presses : presses' = presses \cup {n}
    /\ UNCHANGED <<installed, opened>>

Install ==
    /\ \E x \in Features : installed' = installed \cup {x}
    /\ UNCHANGED <<presses, opened>>

(* A press not yet answered opens the car.                                 *)
Open ==
    /\ \E n \in presses, F \in SUBSET installed :
         /\ \A i \in DOMAIN opened : opened[i].press # n
         /\ opened' = Append(opened, [press |-> n, feats |-> F])
    /\ UNCHANGED <<presses, installed>>

Spec == Init /\ [][Press \/ Install \/ Open]_serviceVars
=============================================================================
