---------------------------- MODULE MCKsmController ----------------------------
(***************************************************************************)
(* Small instances of KsmController for TLC.  The workloads are model      *)
(* values; the ConfigMap data are chosen so that the derived flags differ. *)
(***************************************************************************)
EXTENDS KsmController, TLC

CONSTANT token  \* the content of a ConfigMap value

OneNamespace == {"observability"}
TwoNamespaces == {"observability", "monitoring"}
Default == "observability"

NoUserData == {}
OneConfig == {StdKey :> <<token>>}
TwoConfigs == OneConfig \cup {(StdKey :> <<token>>) @@ (CRSKey :> <<token>>)}

EitherFinalizer == BOOLEAN
OwnFinalizerOnly == {FALSE}

AnyWorkload == Permutations(Workloads)
===============================================================================
