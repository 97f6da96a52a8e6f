------------------------------ MODULE FileSync ------------------------------
(***************************************************************************)
(* What a sync against a publisher that may work at the same time          *)
(* promises: it fails, or it delivers one version of the file, whole, and  *)
(* that is the version on offer at the moment the sync chose it.           *)
(***************************************************************************)
CONSTANTS
  Versions,  \* the versions there may be
  None       \* not one of them

VARIABLES
  offered,   \* the version on offer, None while there is none
  chosen,    \* the version the sync has decided for
  delivered, \* what it has handed over
  failed

vars == <<offered, chosen, delivered, failed>>

Init == offered = None /\ chosen = None /\ delivered = None /\ failed = FALSE

\* The publisher offers a version, another one, or none for a while.
Publish ==
  /\ offered' \in Versions \cup {None}
  /\ UNCHANGED <<chosen, delivered, failed>>

Choose ==
  /\ chosen = None /\ ~failed
  /\ offered # None
  /\ chosen' = offered
  /\ UNCHANGED <<offered, delivered, failed>>

Deliver ==
  /\ chosen # None /\ delivered = None /\ ~failed
  /\ delivered' = chosen
  /\ UNCHANGED <<offered, chosen, failed>>

Fail ==
  /\ delivered = None
  /\ failed' = TRUE
  /\ UNCHANGED <<offered, chosen, delivered>>

Next == Publish \/ Choose \/ Deliver \/ Fail

Spec == Init /\ [][Next]_vars
=============================================================================
