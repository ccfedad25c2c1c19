-------------------------- MODULE MCDevEnvOperator --------------------------
(***************************************************************************)
(* Instances of DevEnvOperator for TLC.                                    *)
(***************************************************************************)
EXTENDS DevEnvOperator, TLC

CONSTANTS e1, e2, e3, s1, s2   \* model values for Envs and Specs

(* Environments for the cfgs: e1 and e2 live in one namespace, e3 has the  *)
(* name of e1 in another.                                                  *)
MCNameOf == [e \in Envs |-> IF e \in {e1, e3} THEN "web" ELSE "api"]
MCNamespaceOf == [e \in Envs |-> IF e = e3 THEN "staging" ELSE "dev"]

(* Names and namespaces are only compared, so the two environments of an   *)
(* instance may be swapped; so may specs if none leaves out the database.  *)
(* Not for the runs with liveness.                                         *)
MCSwapEnvs == Permutations(Envs)
MCSwapSpecs == Permutations(Specs)
=============================================================================
