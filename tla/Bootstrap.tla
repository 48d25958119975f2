------------------------------- MODULE Bootstrap -------------------------------
(***************************************************************************)
(* The two commands of the binary, each in a process that is started again *)
(* when it exits: init waits for the onboarding cluster, installs the CRDs *)
(* and registers the provider; run waits for the onboarding cluster,       *)
(* assembles the TLS options of its servers, builds the manager, adds to   *)
(* it what has to run, and starts it.  The two processes may overlap: run  *)
(* may be started before init is done.                                     *)
(***************************************************************************)
EXTENDS Naturals, Sequences, FiniteSets

CONSTANT MaxFaults  \* bound on failing calls and crashes

ASSUME FaultsAssumption == MaxFaults \in Nat

VARIABLES
  options,     \* the flags of run, and whether --provider-name was given
  initPc,      \* what init does next; "Down" when its process is not there
  runPc,       \* what run does next
  requests,    \* the AccessRequests of the two commands
  crds,        \* the CRDs that exist, each on its cluster
  registered,  \* the ServiceProvider object lists the KubeStateMetrics kind
  memory,      \* the arrays behind the slices of TLS options
  tlsOpts,     \* per server, the slice of its TLS options
  runnables,   \* what has been added to the manager
  started,     \* the controllers whose sources have synced
  faults

initVars == <<initPc, registered>>
runVars == <<runPc, memory, tlsOpts, runnables, started>>
vars == <<options, initVars, runVars, requests, crds, faults>>

-------------------------------------------------------------------------------
Servers == {"webhook", "metrics"}
Options == [http2 : BOOLEAN, certs : SUBSET Servers, named : BOOLEAN]

(* Each CRD is labelled with the cluster it is installed on; each          *)
(* controller watches the objects of one.                                  *)
Kinds == {"KubeStateMetrics", "ProviderConfig"}
ClusterOf(kind) ==
  IF kind = "KubeStateMetrics" THEN "onboarding" ELSE "platform"
Controllers == Kinds

(* Mutant: the provider types are missing from the Platform scheme.        *)
Scheme_NoProviders(cluster) ==
  {"CustomResourceDefinition", "KubeStateMetrics", "ProviderConfig",
   "AccessRequest"}

(* The types each cluster's client knows.                                  *)
Scheme(cluster) ==
  {"CustomResourceDefinition", "KubeStateMetrics", "ProviderConfig",
   "AccessRequest"}
  \cup (IF cluster = "platform" THEN {"ServiceProvider"} ELSE {})

InitCalls == {"Down", "Access", "InstallCRDs", "Register", "Done"}
RunCalls == {"Down", "TLS", "Access", "WebhookServer", "MetricsServer",
             "Manager", "Controllers", "Watchers", "Running"}

-------------------------------------------------------------------------------
(* Slices of TLS options.  An array is a capacity and the cells written so *)
(* far; a slice is an array's number and a length.  append writes into the *)
(* array if there is room behind the slice, and into a larger copy if not. *)

TLSOptions == {"http/1.1"} \cup Servers
Nil == [array |-> 0, len |-> 0]

Capacity(mem, slice) == IF slice.array = 0 THEN 0 ELSE mem[slice.array].cap
Cells(mem, slice) ==
  IF slice.array = 0 THEN <<>> ELSE SubSeq(mem[slice.array].cells, 1, slice.len)

Grow(cap) == IF cap = 0 THEN 1 ELSE 2 * cap

AppendTo(mem, slice, option) ==
  LET n == slice.len + 1
      cells == mem[slice.array].cells
  IN  IF slice.len < Capacity(mem, slice)
      THEN [memory |-> [mem EXCEPT ![slice.array].cells =
                          IF n \in DOMAIN cells THEN [cells EXCEPT ![n] = option]
                          ELSE Append(cells, option)],
            slice  |-> [slice EXCEPT !.len = n]]
      ELSE [memory |-> Append(mem, [cap   |-> Grow(Capacity(mem, slice)),
                         cells |-> Append(Cells(mem, slice), option)]),
            slice  |-> [array |-> Len(mem) + 1, len |-> n]]

(* What a server ends up with when it applies its options, the last of a   *)
(* kind winning.                                                           *)
Applied(server) ==
  LET cells == Cells(memory, tlsOpts[server])
      certs == {i \in DOMAIN cells : cells[i] \in Servers}
  IN  [http2 |-> "http/1.1" \notin {cells[i] : i \in DOMAIN cells},
       cert  |-> IF certs = {} THEN "generated"
                 ELSE cells[CHOOSE i \in certs : \A j \in certs : j <= i]]

-------------------------------------------------------------------------------
Slices == [array : 0..3, len : 0..2]

TypeOK ==
  /\ options \in Options
  /\ initPc \in InitCalls /\ runPc \in RunCalls
  /\ requests \in [{"init", "run"} -> {"absent", "pending", "granted"}]
  /\ crds \subseteq Kinds /\ registered \in BOOLEAN
  /\ \A i \in DOMAIN memory : /\ memory[i].cells \in Seq(TLSOptions)
                              /\ Len(memory[i].cells) <= memory[i].cap
  /\ tlsOpts \in [Servers -> Slices]
  /\ runnables \subseteq ({"platform"} \cup Servers \cup Controllers)
  /\ started \subseteq Controllers
  /\ faults \in 0..MaxFaults

FreshRun(pc) ==
  /\ runPc' = pc /\ memory' = <<>> /\ tlsOpts' = [s \in Servers |-> Nil]
  /\ runnables' = {} /\ started' = {}

Init ==
  /\ options \in Options
  /\ initPc = "Down" /\ runPc = "Down"
  /\ requests = [command \in {"init", "run"} |-> "absent"]
  /\ crds = {} /\ registered = FALSE
  /\ memory = <<>> /\ tlsOpts = [s \in Servers |-> Nil]
  /\ runnables = {} /\ started = {}
  /\ faults = 0

Fault == faults < MaxFaults /\ faults' = faults + 1
NoFault == UNCHANGED faults

-------------------------------------------------------------------------------
(* CreateAndWaitForCluster: the AccessRequest is created if it is not      *)
(* there, and waited for; it stays when the process gives up.              *)

CreateRequest(command) ==
  /\ requests[command] = "absent"
  /\ requests' = [requests EXCEPT ![command] = "pending"]
  /\ NoFault

Grant(command) ==
  /\ requests[command] = "pending"
  /\ requests' = [requests EXCEPT ![command] = "granted"]
  /\ UNCHANGED <<options, initVars, runVars, crds, faults>>

-------------------------------------------------------------------------------
(* initCommand and runInit                                                 *)

StartInit ==
  /\ initPc = "Down" /\ initPc' = "Access" /\ NoFault
  /\ UNCHANGED <<registered, requests, crds>>

InitAccess ==
  /\ initPc = "Access"
  /\ \/ CreateRequest("init") /\ UNCHANGED initPc
     \/ /\ requests["init"] = "granted" /\ initPc' = "InstallCRDs"
        /\ UNCHANGED requests /\ NoFault
  /\ UNCHANGED <<registered, crds>>

(* Mutant: the first CRD that is created ends the loop.                    *)
InstallCRDs_FirstOnly ==
  /\ initPc = "InstallCRDs" /\ NoFault
  /\ \/ \E kind \in Kinds \ crds :
          /\ "CustomResourceDefinition" \in Scheme(ClusterOf(kind))
          /\ crds' = crds \cup {kind} /\ initPc' = "Register"
     \/ crds = Kinds /\ initPc' = "Register" /\ UNCHANGED crds
  /\ UNCHANGED <<registered, requests>>

(* CreateOrUpdateCRDs: one after the other, each on its cluster.           *)
InstallCRDs ==
  /\ initPc = "InstallCRDs" /\ NoFault
  /\ \/ \E kind \in Kinds \ crds :
          /\ "CustomResourceDefinition" \in Scheme(ClusterOf(kind))
          /\ crds' = crds \cup {kind} /\ UNCHANGED initPc
     \/ crds = Kinds /\ initPc' = "Register" /\ UNCHANGED crds
  /\ UNCHANGED <<registered, requests>>

(* The provider's own object is read and updated by name.                  *)
CanRegister == options.named /\ "ServiceProvider" \in Scheme("platform")

Register ==
  /\ initPc = "Register" /\ CanRegister /\ NoFault
  /\ registered' = TRUE /\ initPc' = "Done"
  /\ UNCHANGED <<requests, crds>>

(* Every error ends the process, and so does waiting for 30 minutes.       *)
InitExits ==
  /\ initPc \notin {"Down", "Done"} /\ initPc' = "Down"
  /\ \/ Fault
     \/ initPc = "Access" /\ requests["init"] = "pending" /\ NoFault
     \/ initPc = "Register" /\ ~CanRegister /\ NoFault
  /\ UNCHANGED <<registered, requests, crds>>

-------------------------------------------------------------------------------
(* runCommand                                                              *)

StartRun == runPc = "Down" /\ FreshRun("TLS") /\ NoFault /\ UNCHANGED requests

Assemble(from, to) ==
  /\ runPc = from /\ runPc' = to /\ NoFault
  /\ UNCHANGED <<requests, started>>

(* Mutant: the slice is made with room for what comes later.               *)
BuildTLS_Spare ==
  /\ Assemble("TLS", "Access")
  /\ LET made  == <<[cap |-> 2, cells |-> <<>>]>>
         first == [array |-> 1, len |-> 0]
         built == IF options.http2 THEN [memory |-> made, slice |-> first]
                  ELSE AppendTo(made, first, "http/1.1")
     IN  /\ memory' = built.memory
         /\ tlsOpts' = [s \in Servers |-> built.slice]
  /\ UNCHANGED runnables

(* Both servers start from the same slice.                                 *)
BuildTLS ==
  /\ Assemble("TLS", "Access")
  /\ LET built == IF options.http2 THEN [memory |-> memory, slice |-> Nil]
                  ELSE AppendTo(memory, Nil, "http/1.1")
     IN  /\ memory' = built.memory
         /\ tlsOpts' = [s \in Servers |-> built.slice]
  /\ UNCHANGED runnables

RunAccess ==
  /\ runPc = "Access"
  /\ \/ CreateRequest("run") /\ UNCHANGED runPc
     \/ /\ requests["run"] = "granted" /\ runPc' = "WebhookServer"
        /\ UNCHANGED requests /\ NoFault
  /\ UNCHANGED <<memory, tlsOpts, runnables, started>>

(* Mutant: one slice serves both servers.                                  *)
AddCertificate_OneSlice(server) ==
  LET added == AppendTo(memory, tlsOpts[server], server)
  IN  IF server \in options.certs
      THEN /\ memory' = added.memory
           /\ tlsOpts' = [s \in Servers |-> added.slice]
      ELSE UNCHANGED <<memory, tlsOpts>>

(* A server with a certificate path reads the certificate and adds the     *)
(* option that gets it to its own slice.                                   *)
AddCertificate(server) ==
  LET added == AppendTo(memory, tlsOpts[server], server)
  IN  IF server \in options.certs
      THEN /\ memory' = added.memory
           /\ tlsOpts' = [tlsOpts EXCEPT ![server] = added.slice]
      ELSE UNCHANGED <<memory, tlsOpts>>

WebhookServer == /\ Assemble("WebhookServer", "MetricsServer")
                 /\ AddCertificate("webhook") /\ UNCHANGED runnables

MetricsServer == /\ Assemble("MetricsServer", "Manager")
                 /\ AddCertificate("metrics") /\ UNCHANGED runnables

(* Mutant: the platform cluster is not added to the manager.               *)
NewManager_NoPlatform ==
  /\ Assemble("Manager", "Controllers")
  /\ UNCHANGED <<memory, tlsOpts, runnables>>

(* The manager runs the onboarding cluster's cache by itself; the platform *)
(* cluster's has to be added.                                              *)
NewManager ==
  /\ Assemble("Manager", "Controllers")
  /\ runnables' = {"platform"}
  /\ UNCHANGED <<memory, tlsOpts>>

SetupControllers ==
  /\ Assemble("Controllers", "Watchers")
  /\ runnables' = runnables \cup Controllers
  /\ UNCHANGED <<memory, tlsOpts>>

(* The certificate watchers that were made are added, and it starts.       *)
AddWatchers ==
  /\ Assemble("Watchers", "Running")
  /\ runnables' = runnables \cup options.certs
  /\ UNCHANGED <<memory, tlsOpts>>

(* A controller starts once the cache of its source has synced.            *)
CanSync(controller) ==
  /\ controller \in runnables \cap crds
  /\ controller \in Scheme(ClusterOf(controller))
  /\ ClusterOf(controller) = "platform" => "platform" \in runnables

SyncSource(controller) ==
  /\ runPc = "Running" /\ CanSync(controller)
  /\ controller \notin started /\ started' = started \cup {controller}
  /\ UNCHANGED <<runPc, memory, tlsOpts, runnables, requests>> /\ NoFault

(* Every error ends the process, and so does a source that does not sync.  *)
RunExits ==
  /\ runPc # "Down" /\ FreshRun("Down")
  /\ \/ Fault
     \/ runPc = "Access" /\ requests["run"] = "pending" /\ NoFault
     \/ /\ runPc = "Running" /\ NoFault
        /\ \E c \in Controllers \ started : ~CanSync(c)
  /\ UNCHANGED requests

-------------------------------------------------------------------------------
InitStep == StartInit \/ InitAccess \/ InstallCRDs \/ Register
RunStep == \/ StartRun \/ BuildTLS \/ RunAccess \/ WebhookServer
           \/ MetricsServer \/ NewManager \/ SetupControllers \/ AddWatchers
           \/ \E c \in Controllers : SyncSource(c)

Next ==
  \/ (InitStep \/ InitExits) /\ UNCHANGED <<options, runVars>>
  \/ (RunStep \/ RunExits) /\ UNCHANGED <<options, initVars, crds>>
  \/ \E command \in {"init", "run"} : Grant(command)

Spec == Init /\ [][Next]_vars

(* The kubelet starts both containers again, each makes its calls, and the *)
(* platform grants what is asked for.  Nothing is assumed of timeouts.     *)
Fairness ==
  /\ WF_vars(InitStep /\ UNCHANGED <<options, runVars>>)
  /\ WF_vars(RunStep /\ UNCHANGED <<options, initVars, crds>>)
  /\ \A command \in {"init", "run"} : WF_vars(Grant(command))

FairSpec == Spec /\ Fairness

-------------------------------------------------------------------------------
(* Properties                                                              *)

(* The provider is announced only when both kinds are served, one on each  *)
(* cluster, whatever failed and was started again in between               *)
(* (main.go:188-207).                                                      *)
RegisteredMeansInstalled == registered => crds = Kinds

(* Two slices grow from one: still each server that runs has exactly its   *)
(* own options, HTTP/2 off unless it is enabled and the certificate it was *)
(* given, and the watcher that renews that certificate runs with it        *)
(* (main.go:236-247, 277-334, 372-384).                                    *)
ServersAsConfigured ==
  runPc = "Running" =>
    /\ options.certs \subseteq runnables
    /\ \A server \in Servers : Applied(server) =
         [http2 |-> options.http2,
          cert  |-> IF server \in options.certs THEN server ELSE "generated"]

(* A named provider is eventually registered, although each attempt may    *)
(* give up on the AccessRequest after 30 minutes and start from the        *)
(* beginning (main.go:160-207).                                            *)
InitCompletes == options.named ~> registered

(* Both controllers eventually run for good, although run may be started   *)
(* long before init has installed what they watch, and exits each time     *)
(* (main.go:249-401).                                                      *)
RunServes == <>[](runPc = "Running" /\ started = Controllers)
===============================================================================
