-------------------------------- MODULE Registry --------------------------------
(***************************************************************************)
(* What a registry resolves the name of a package to (resolve of           *)
(* src/registry.c): a plan, a package after the packages it needs.         *)
(* Operators only.                                                         *)
(***************************************************************************)
EXTENDS Integers, Sequences, FiniteSets, SequencesExt

Refused == [ok |-> FALSE, plan |-> <<>>]

InPlan(plan, name) == {i \in DOMAIN plan : plan[i].name = name}

(* The highest version the constraint allows.                                *)
Selected(index, name, allowed) ==
    LET fit == {p \in index : p.name = name /\ p.version \in allowed}
    IN {p \in fit : \A q \in fit : q.version <= p.version}

RECURSIVE Resolve(_, _, _, _, _)
Resolve(index, so, name, allowed, stack) ==
    LET found == InPlan(so.plan, name)
        best == Selected(index, name, allowed)
    IN CASE ~so.ok -> so
         [] so.ok /\ found # {} ->
              IF \A i \in found : so.plan[i].version \in allowed THEN so ELSE Refused
         [] so.ok /\ found = {} /\ (name \in stack \/ best = {}) -> Refused
         [] OTHER ->
              LET p == CHOOSE p \in best : TRUE
                  needed == FoldLeft(LAMBDA r, need : Resolve(index, r, need.name, need.versions, stack \cup {name}),
                                     so, p.needs)
              IN IF needed.ok THEN [needed EXCEPT !.plan = Append(@, p)] ELSE Refused

(* The plans of some registries for some names and any of their versions.    *)
PlansOf(indexes, names, versions) ==
    { r.plan : r \in {q \in {Resolve(i, [ok |-> TRUE, plan |-> <<>>], n, versions, {}) :
                                i \in indexes, n \in names} : q.ok} }
=============================================================================
