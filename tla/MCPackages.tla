------------------------------- MODULE MCPackages -------------------------------
(* Small instances of Packages for TLC.                                      *)
EXTENDS Packages, Registry

(* 1.8, 1.9 and 1.10: as a string the third comes first.                     *)
MCText(v) == (v % 3)

(* The package aa is named as the package a with a hyphen and more.          *)
MCLonger(n) == IF n = "a" THEN {"aa"} ELSE {}

MCPackage(n, v, needs) == [name |-> n, version |-> v, needs |-> needs]
MCNeed(n, versions) == [name |-> n, versions |-> versions]

(* A package that needs another, at a version that is not the highest; two   *)
(* that need each other; one that needs what there is not, and more.         *)
MCIndexes ==
    { { MCPackage("aa", 1, <<MCNeed("a", {1})>>), MCPackage("a", 1, <<>>), MCPackage("a", 2, <<>>) },
      { MCPackage("aa", 1, <<MCNeed("a", {1, 2})>>), MCPackage("a", 1, <<MCNeed("aa", {1})>>) },
      { MCPackage("a", 2, <<MCNeed("aa", {2}), MCNeed("a", {1})>>), MCPackage("aa", 1, <<>>) } }

MCResolved == PlansOf(MCIndexes, Names, Versions)

(* What resolve promises of every plan: before a package comes, at a version *)
(* its constraint allows, each package it needs.                             *)
ASSUME PlansAreClosed ==
    \A plan \in MCResolved : \A i \in DOMAIN plan : \A k \in DOMAIN plan[i].needs :
        \E j \in 1..i - 1 : /\ plan[j].name = plan[i].needs[k].name
                            /\ plan[j].version \in plan[i].needs[k].versions
=============================================================================
