---------------------------- MODULE MCDynScope ----------------------------
(* Instances of DynScope for TLC: each .cfg picks which names are declared *)
(* with my and our, referenced and localized, and the packages.            *)
EXTENDS DynScope
=============================================================================
