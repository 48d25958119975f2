-------------------------------- MODULE KsmRender --------------------------------
(***************************************************************************)
(* The Deployment that deployKubeStateMetrics renders from the spec and    *)
(* the ConfigMap, written again when one of them has changed.              *)
(* KsmController takes all of it as one template; this module opens it.    *)
(***************************************************************************)
EXTENDS KsmDesired, FiniteSetsExt

CONSTANTS
  Tags,       \* the tags of image references
  MaxChanges  \* bound on the changes of spec and ConfigMap

ASSUME ChangesAssumption == MaxChanges \in Nat

(* A tag is not empty, and the grammar of references keeps colons out of   *)
(* it.                                                                     *)
ASSUME TagsAssumption == Tags \subseteq STRING \ {"", ":"}

VARIABLES
  workload,    \* of the spec: image reference, args, node selector
  config,      \* the user's ConfigMap
  deployment,  \* the Deployment of the MCP cluster, <<>> before the first pass
  seen,        \* workload and config it was rendered from, <<>> at first
  changes

vars == <<workload, config, deployment, seen, changes>>

-------------------------------------------------------------------------------
(* Images and the version label.  A reference has a registry, which may    *)
(* name a port, a path, and optionally a tag and a digest; the code sees   *)
(* only the text, here a sequence of tokens.                               *)

ImageRefs == [port : BOOLEAN, tag : Tags \cup {""}, digest : BOOLEAN]

Image(ref) ==
  LET part(present, tokens) == IF present THEN tokens ELSE <<>>
  IN  <<"registry">> \o part(ref.port, <<":", "5000">>) \o <<"/", "ksm">>
      \o part(ref.tag # "", <<":", ref.tag>>)
      \o part(ref.digest, <<"@", "sha256", ":", "64 hexadecimal digits">>)

(* Mutant: the search runs from the front.                                 *)
SplitLast_First(s, sep) ==
  LET at == {i \in DOMAIN s : s[i] = sep}
  IN  IF at = {} THEN <<s>>
      ELSE <<SubSeq(s, 1, Min(at) - 1), SubSeq(s, Min(at) + 1, Len(s))>>

SplitLast(s, sep) ==
  LET at == {i \in DOMAIN s : s[i] = sep}
  IN  IF at = {} THEN <<s>>
      ELSE <<SubSeq(s, 1, Max(at) - 1), SubSeq(s, Max(at) + 1, Len(s))>>

Version(image) ==
  LET parts == SplitLast(image, ":")
  IN  IF Len(parts) = 2 THEN parts[2] ELSE <<"unknown">>

-------------------------------------------------------------------------------
(* The container's arguments: each derived flag is put in front of what is *)
(* there already, last of all the user's own.                              *)

Std == "--config"
CRSFile == "--custom-resource-state-config-file"
CRSOnly == "--custom-resource-state-only"

(* Mutant: "only" is said although the standard configuration is there.    *)
Args_OnlyAlways(args, data) ==
  LET has(key) == data # NoConfig /\ key \in DOMAIN data
      crs == IF has(CRSKey) THEN <<CRSOnly, CRSFile>> \o args ELSE args
  IN  IF has(StdKey) THEN <<Std>> \o crs ELSE crs

Args(args, data) ==
  LET has(key) == data # NoConfig /\ key \in DOMAIN data
      crs  == IF has(CRSKey) THEN <<CRSFile>> \o args ELSE args
      only == IF has(CRSKey) /\ ~has(StdKey) THEN <<CRSOnly>> \o crs ELSE crs
  IN  IF has(StdKey) THEN <<Std>> \o only ELSE only

(* The user's node selector over the default one.                          *)
NodeSelector(user) ==
  [key \in DOMAIN user \cup {"os"} |->
     IF key \in DOMAIN user THEN user[key] ELSE "linux"]

(* What in the Deployment depends on the spec and the ConfigMap.           *)
Rendered(w, data) ==
  [image |-> Image(w.ref), version |-> Version(Image(w.ref)),
   args |-> Args(w.args, data), nodeSelector |-> NodeSelector(w.nodeSelector),
   mounted |-> data # NoConfig, annotation |-> HashOf(data)]

-------------------------------------------------------------------------------
(* The API server admits lists of strings and maps from strings to strings *)
(* only.                                                                   *)
ASSUME WorkloadsAssumption ==
  \A w \in Workloads : w.ref \in ImageRefs /\ w.args \in Seq(STRING)

ASSUME ConfigDataAssumption ==
  \A data \in ConfigData :
    /\ DOMAIN data \subseteq {SortedKeys[j] : j \in DOMAIN SortedKeys}
    /\ data \in [DOMAIN data -> Seq(STRING)]

Init == /\ workload \in Workloads /\ config \in Configs
        /\ deployment = <<>> /\ seen = <<>> /\ changes = 0

(* Mutant: the arguments grow from those the Deployment already has.       *)
Render_Accumulates ==
  /\ deployment' = IF deployment = <<>> THEN Rendered(workload, config)
                   ELSE [Rendered(workload, config) EXCEPT
                           !.args = Args(deployment.args, config)]
  /\ seen' = <<workload, config>>
  /\ UNCHANGED <<workload, config, changes>>

(* CreateOrUpdate overwrites the whole spec of the Deployment.             *)
Render == /\ deployment' = Rendered(workload, config)
          /\ seen' = <<workload, config>>
          /\ UNCHANGED <<workload, config, changes>>

Change == /\ changes < MaxChanges /\ changes' = changes + 1
          /\ \/ workload' \in Workloads \ {workload} /\ UNCHANGED config
             \/ config' \in Configs \ {config} /\ UNCHANGED workload
          /\ UNCHANGED <<deployment, seen>>

Next == Render \/ Change

Spec == Init /\ [][Next]_vars

-------------------------------------------------------------------------------
(* Properties                                                              *)

(* The container gets the flags of the scenario its ConfigMap makes, each  *)
(* once and none of them left from an earlier one, then the user's own in  *)
(* their order, which therefore win (controller.go:325-340; the table of   *)
(* README.md:232-237).                                                     *)
Scenario(data) ==
  LET keys == IF data = NoConfig THEN {} ELSE DOMAIN data \cap {StdKey, CRSKey}
  IN  CASE keys = {}               -> {}
        [] keys = {CRSKey}         -> {CRSFile, CRSOnly}
        [] keys = {StdKey}         -> {Std}
        [] keys = {StdKey, CRSKey} -> {CRSFile, Std}

ArgsFollowScenario ==
  seen # <<>> =>
    LET own == seen[1].args
        n == Len(deployment.args) - Len(own)
        flags == SubSeq(deployment.args, 1, n)
    IN  /\ SubSeq(deployment.args, n + 1, Len(deployment.args)) = own
        /\ {flags[i] : i \in DOMAIN flags} = Scenario(seen[2])
        /\ n = Cardinality(Scenario(seen[2]))

(* A value may hold what looks like the line of another key.               *)
EmbedsLine(value) ==
  \E i \in 1..(Len(value) - 2) :
    /\ value[i] = "\n" /\ value[i + 2] = "="
    /\ \E j \in DOMAIN SortedKeys : value[i + 1] = SortedKeys[j]

Plain(data) ==
  data # NoConfig => \A key \in DOMAIN data : ~EmbedsLine(data[key])

(* A ConfigMap with other data, and one that appears or goes, makes new    *)
(* pods, which read it; only data that imitate the serialisation itself    *)
(* can hide a change (controller.go:405-407, 417-421, 515-533).            *)
RestartsOnConfigChange ==
  [][ seen # <<>> /\ seen'[2] # seen[2] /\ Plain(seen[2]) /\ Plain(seen'[2])
      => deployment' # deployment ]_seen

(* The pods depend on nothing but the template that KsmController keeps of *)
(* spec and ConfigMap: a pass that finds both as they were, polling every  *)
(* minute, does not restart them (controller.go:314-441).                  *)
PodsDependOnTemplate ==
  [][ LET template(s) == Template([namespace |-> "", workload |-> s[1]], s[2])
      IN  seen # <<>> /\ template(seen') = template(seen)
          => deployment' = deployment ]_<<seen, deployment>>

(* The version label is the image's tag when the tag ends the reference,   *)
(* and "unknown" when there is no colon in it (controller.go:556-589).     *)
VersionOfTaggedImage ==
  seen # <<>> =>
    LET ref == seen[1].ref
    IN  /\ ref.tag # "" /\ ~ref.digest => deployment.version = <<ref.tag>>
        /\ ref.tag = "" /\ ~ref.digest /\ ~ref.port
             => deployment.version = <<"unknown">>

(* "Extract version from image tag if possible for labeling"               *)
(* (controller.go:557): the label is the tag, or "unknown" without one.    *)
VersionIsTag ==
  seen # <<>> =>
    deployment.version =
      <<IF seen[1].ref.tag = "" THEN "unknown" ELSE seen[1].ref.tag>>
===============================================================================
