---------------------------- MODULE ServiceLifecycle ----------------------------
(***************************************************************************)
(* What a service provider promises of one object, whatever happens to its *)
(* passes, to the calls they make and to the process: the service exists   *)
(* only for an object that carries the provider's finalizer and through    *)
(* access that is open, it is withdrawn only from an object that leaves,   *)
(* access is given up only after the service is gone, and the object is    *)
(* let go last of all.                                                     *)
(***************************************************************************)

VARIABLES
  owner,     \* "none", or the object with the finalizer: "live", "leaving"
  access,    \* access to the clusters: "none", "waiting" or "open"
  deployed   \* whether anything of the service exists there

vars == <<owner, access, deployed>>

Init == owner = "none" /\ access = "none" /\ deployed = FALSE

Claim == /\ owner = "none" /\ owner' = "live"
         /\ UNCHANGED <<access, deployed>>

Request == /\ owner # "none"
           /\ access = "none" /\ access' = "waiting"
           /\ UNCHANGED <<owner, deployed>>

Open == /\ owner # "none"
        /\ access = "waiting" /\ access' = "open"
        /\ UNCHANGED <<owner, deployed>>

Deploy == /\ owner # "none" /\ access = "open"
          /\ deployed = FALSE /\ deployed' = TRUE
          /\ UNCHANGED <<owner, access>>

Leave == /\ owner = "live" /\ owner' = "leaving"
         /\ UNCHANGED <<access, deployed>>

Withdraw == /\ owner = "leaving" /\ access = "open"
            /\ deployed = TRUE /\ deployed' = FALSE
            /\ UNCHANGED <<owner, access>>

Release == /\ owner = "leaving" /\ deployed = FALSE
           /\ access # "none" /\ access' \in {"none", "waiting"}
           /\ UNCHANGED <<owner, deployed>>

Forget == /\ owner = "leaving" /\ access = "none" /\ deployed = FALSE
          /\ owner' = "none"
          /\ UNCHANGED <<access, deployed>>

Next == \/ Claim \/ Request \/ Open \/ Deploy
        \/ Leave \/ Withdraw \/ Release \/ Forget

Spec == Init /\ [][Next]_vars
===============================================================================
