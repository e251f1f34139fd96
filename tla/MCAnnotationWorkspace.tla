------------------------ MODULE MCAnnotationWorkspace ------------------------
(* Instances of AnnotationWorkspace for TLC.                                 *)
EXTENDS AnnotationWorkspace, TLC

CONSTANTS a, b, s1, s2

(* Where a second kind of race has happened little is claimed any more.      *)
OneRace == Cardinality(seen) <= 1

(* The shapes are interchangeable; the images are listed in an order.        *)
Symmetric == Permutations(Shapes)
=============================================================================
