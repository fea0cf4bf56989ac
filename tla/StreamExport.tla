---------------------------- MODULE StreamExport ----------------------------
(***************************************************************************)
(* What the multipart upload of gce_export promises its caller: the object *)
(* at the target appears in one step, it then holds every slice the caller *)
(* wrote exactly once, and Close reports success only after that.  With    *)
(* Ordered the slices are also in the order in which they were written.    *)
(***************************************************************************)
EXTENDS Integers, FiniteSets, Sequences

CONSTANT Ordered  \* whether the order of the slices is part of the promise

VARIABLES
    accepted,   \* number of slices Write has accepted
    published,  \* the target object exists
    object,     \* the slices it holds
    outcome     \* "open" until Close returns or the export is abandoned

vars == <<accepted, published, object, outcome>>

Complete(s, n) ==
    /\ Len(s) = n
    /\ {s[i] : i \in DOMAIN s} = 1..n
    /\ Ordered => \A i \in DOMAIN s : s[i] = i

Init ==
    /\ accepted = 0
    /\ published = FALSE /\ object = <<>>
    /\ outcome = "open"

Accept ==
    /\ outcome = "open" /\ ~published
    /\ accepted' = accepted + 1
    /\ UNCHANGED <<published, object, outcome>>

Publish ==
    /\ outcome = "open" /\ ~published
    /\ published' = TRUE
    /\ Complete(object', accepted)
    /\ UNCHANGED <<accepted, outcome>>

Succeed ==
    /\ outcome = "open" /\ published
    /\ outcome' = "closed"
    /\ UNCHANGED <<accepted, published, object>>

Abandon ==
    /\ outcome = "open"
    /\ outcome' = "abandoned"
    /\ UNCHANGED <<accepted, published, object>>

Next == Accept \/ Publish \/ Succeed \/ Abandon

Spec == Init /\ [][Next]_vars
=============================================================================
