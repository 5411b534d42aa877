------------------------------ MODULE SortedSets -------------------------------
(***************************************************************************)
(* The places in which a regular expression matches a path, in order       *)
(* (FindAllStringSubmatch, in openapi/openapi_v2_resource.go).             *)
(***************************************************************************)
EXTENDS Naturals, FiniteSets

\* The numbers of a finite set, the least first.
Ascending(S) ==
    [k \in 1..Cardinality(S) |->
        CHOOSE i \in S : Cardinality({j \in S : j <= i}) = k]
================================================================================
