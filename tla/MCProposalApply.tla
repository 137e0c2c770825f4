--------------------------- MODULE MCProposalApply ---------------------------
(* Proposals of each kind, for TLC. *)
EXTENDS ProposalApplyProps, TLC

CONSTANTS run, scale, again, attach

(* A run, two scalings of one fan, and a file. *)
MCKind == [p \in Proposals |-> CASE p = run -> "startRun"
                                 [] p = attach -> "attachFile"
                                 [] OTHER -> "scaleFanCurve"]
MCRow == [p \in Proposals |-> IF p = attach THEN "file" ELSE "fan"]

(* No property tells one call, or one scaling, from another.                *)
Symmetry == {f @@ g : f \in Permutations(Calls), g \in Permutations({scale, again})}
=============================================================================
