--------------------------- MODULE MCFlowControl ---------------------------
(* Instances of FlowControl for TLC.  Each .cfg picks the constructs, sites *)
(* and jumps a family of programs is built from.                           *)
EXTENDS FlowControl
=============================================================================
