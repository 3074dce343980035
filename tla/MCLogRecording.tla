--------------------------- MODULE MCLogRecording ---------------------------
(* Instances of LogRecording for TLC.                                      *)
EXTENDS LogRecording, TLC

CONSTANTS p1, p2, n1, n2

TwoNamespaces == p1 :> n1 @@ p2 :> n2
OnePod == p1 :> n1
=============================================================================
