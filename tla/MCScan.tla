------------------------------- MODULE MCScan -------------------------------
(***************************************************************************)
(* Instances of ScanPipeline for TLC.  Each definition is the value of a   *)
(* CONSTANT of the .cfg files.                                             *)
(***************************************************************************)
EXTENDS ScanProperties, TLC

CONSTANTS j1, k1, k2, headers, tls, p1, p2, w1, w2, scan, files

OneJob  == [k \in {k1, k2} |-> j1]
TwoTests == [k \in {k1, k2} |-> IF k = k1 THEN headers ELSE tls]

OneQueue == [w \in Workers |-> scan]

(* Every image has both modules. *)
Full == {[t \in Tests |-> scan]}

(* A deployment under way: one image has both modules, one has neither. *)
Rolling == {[t \in Tests |-> scan], [t \in Tests |-> NoQueue]}

Alike == Permutations({p1, p2}) \cup Permutations({w1, w2})
=============================================================================
