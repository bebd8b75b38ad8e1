------------------------------ MODULE MCWarehouse ------------------------------
(* Instances of Warehouse for TLC: assets of two units, slips and cases that *)
(* are interchangeable, one project to begin with and one for the wizard.    *)
EXTENDS Warehouse, TLC

CONSTANTS mic, light, p1, p2, s1, s2, c1, c2

OneProject == {p1}

Interchangeable == Permutations(Slips) \cup Permutations(Cases) \cup Permutations(Assets)
===============================================================================
