--------------------------- MODULE DevEnvResources ---------------------------
(***************************************************************************)
(* The cluster objects that the devenv-operator keeps for one              *)
(* DeveloperEnvironment: how an object is named, in which order objects    *)
(* are provisioned and finalized, which API calls provision each kind, and *)
(* what in the object depends on the environment's spec.  Constant level:  *)
(* the operator's state machine is in DevEnvOperator.                      *)
(***************************************************************************)
EXTENDS Naturals, Sequences

CONSTANTS
  Envs,          \* DeveloperEnvironments, i.e. <<namespace, name>> pairs
  NameOf,        \* NameOf[e]: metadata.name of environment e
  NamespaceOf,   \* NamespaceOf[e]: metadata.namespace of environment e
  Kinds          \* the kinds an instance keeps track of

(* The order in which reconcileDeveloperEnvironment reaches each kind. *)
ProvisionOrder ==
  << "Namespace", "Issuer", "Certificate", "ToolsConfigMap",
     "WorkspacePVC", "VscodeDeployment", "VscodeService", "VscodeSecret",
     "VscodeIngress", "DbPVC", "DbDeployment", "DbService" >>

(* The order in which finalizeDeveloperEnvironment deletes them.  DbPVC is *)
(* not in the list.                                                        *)
FinalizeOrder ==
  << "Namespace", "VscodeDeployment", "VscodeService", "VscodeSecret",
     "VscodeIngress", "ToolsConfigMap", "WorkspacePVC", "Issuer",
     "Certificate", "DbDeployment", "DbService" >>

AllKinds == { ProvisionOrder[i] : i \in DOMAIN ProvisionOrder }

Finalized == { FinalizeOrder[i] : i \in DOMAIN FinalizeOrder } \cap Kinds

ASSUME EnvAssumption ==
  /\ Kinds \subseteq AllKinds
  /\ Finalized # {}
  /\ \A e, f \in Envs :
       NameOf[e] = NameOf[f] /\ NamespaceOf[e] = NamespaceOf[f] => e = f

(* k is the first kind of order that is still to be done. *)
IsNext(order, todo, k) ==
  /\ k \in todo
  /\ \E i \in DOMAIN order :
       order[i] = k /\ \A j \in 1..(i - 1) : order[j] \notin todo

(* The environments whose object of kind k has the same name as e's.  The  *)
(* Namespace is cluster-scoped and named after the environment's name      *)
(* alone; the Issuer has a fixed name in the environment's namespace; every *)
(* other object carries both.                                              *)
Sharers(k, e) ==
  { f \in Envs :
      \/ f = e
      \/ k = "Namespace" /\ NameOf[f] = NameOf[e]
      \/ k = "Issuer" /\ NamespaceOf[f] = NamespaceOf[e] }

(* An object is its kind and the environments that resolve to it. *)
Obj(k, e) == << k, Sharers(k, e) >>

Objects == { Obj(k, e) : k \in Kinds, e \in Envs }

(* How each kind is provisioned. *)
ByGetThenCreate == {"Namespace", "Issuer", "Certificate", "DbPVC"}
ByGetThenWrite  == {"ToolsConfigMap"}
ByCreateOnly    == {"WorkspacePVC", "VscodeSecret"}
ByCreateThenUpdate ==
  {"VscodeDeployment", "VscodeService", "VscodeIngress",
   "DbDeployment", "DbService"}

(* Kinds whose stored content an existing object is brought up to. *)
Rewritten == ByGetThenWrite \cup ByCreateThenUpdate

(* Kinds whose content is computed from the environment's spec. *)
SpecKinds ==
  {"ToolsConfigMap", "VscodeDeployment", "VscodeSecret",
   "DbDeployment", "DbService"}

(* Kinds that the API server first marks as terminating when deleted. *)
Lingering == {"Namespace", "WorkspacePVC", "DbPVC"}

(* The pods of which Deployment mount which claim. *)
Mounts(deployment, claim) ==
  << deployment, claim >> \in {<< "VscodeDeployment", "WorkspacePVC" >>,
                               << "DbDeployment", "DbPVC" >>}

(* What the operator puts into an object of kind k for a spec s. *)
Render(k, s) == IF k \in SpecKinds THEN s ELSE "fixed"
=============================================================================
