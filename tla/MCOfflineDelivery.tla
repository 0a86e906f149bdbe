--------------------------- MODULE MCOfflineDelivery ---------------------------
(* Instances of OfflineDelivery for TLC. *)
EXTENDS OfflineDelivery

CONSTANTS a, b, s1, s2, m1, m2

OneHome == [s \in Sockets |-> a]
TwoHomes == [s \in Sockets |-> IF s = s1 THEN a ELSE b]

\* Bound: two messages for one socket, or one message for two sockets.  It
\* stops requests only, no step that is assumed to happen.
OneOfEach == call[m2] = "none" \/ opening[s2] = "new"
================================================================================
