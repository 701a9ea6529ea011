--------------------------- MODULE MCForwardPath ---------------------------
(* ForwardPath for TLC: requests and keys are interchangeable.             *)
EXTENDS ForwardPath, TLC

=============================================================================
