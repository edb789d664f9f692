---------------------------- MODULE FeatureStore ----------------------------
(***************************************************************************)
(* What the fob's two upload commands promise: each one takes effect as a  *)
(* whole or, when the power fails, leaves what it was writing torn and     *)
(* nothing else.  This is how Conversation sees the feature block.         *)
(***************************************************************************)
CONSTANT Features

VARIABLES
    flags,   \* the features flagged
    whole,   \* the features whose data are complete
    torn,    \* the features with part of their data
    signed   \* the set the signature is for, {} if it is none

vars == <<flags, whole, torn, signed>>

Init == flags = {} /\ whole = {} /\ torn = {} /\ signed = {}

(* handle_upload_feature. *)
Install(f) ==
    /\ flags' = flags \cup {f}
    /\ whole' = whole \cup {f} /\ torn' = torn \ {f}
    /\ UNCHANGED signed

(* handle_upload_sig. *)
Sign(S) ==
    /\ signed' = S
    /\ UNCHANGED <<flags, whole, torn>>

(* Power fails in one of them. *)
TearFeature(f) ==
    /\ flags' = flags \cup {f}
    /\ \/ UNCHANGED <<whole, torn>>
       \/ f \notin whole /\ torn' = torn \cup {f} /\ UNCHANGED whole
       \/ whole' = whole \cup {f} /\ torn' = torn \ {f}
    /\ UNCHANGED signed

TearSignature ==
    /\ signed' = {}
    /\ UNCHANGED <<flags, whole, torn>>

Next ==
    \/ \E f \in Features : Install(f) \/ TearFeature(f)
    \/ \E S \in SUBSET Features : Sign(S)
    \/ TearSignature

Spec == Init /\ [][Next]_vars
=============================================================================
