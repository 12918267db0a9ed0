------------------------- MODULE ProvisionerContract ------------------------
(***************************************************************************)
(* What a provisioner promises the reconciler (pkg/provisioners/           *)
(* interfaces.go and README.md), whatever it is built from: Provision and  *)
(* Deprovision may be called again and again, may make partial progress,   *)
(* yield, fail or be cut short, and things happen between the calls too.   *)
(* But nothing is created outside a Provision; nothing disappears as a     *)
(* whole before the owner is deleted; a Provision that says nil has put    *)
(* everything in place, and a Deprovision that says nil has waited for     *)
(* everything to be gone.                                                  *)
(***************************************************************************)
VARIABLES
  world,     \* "none", "some" or "all" of what the owner asks for is there
  call,      \* the call in progress, "none" between calls
  deleting,  \* the owner is being deleted
  released   \* a Deprovision returned nil: the owner is let go

contractVars == <<world, call, deleting, released>>

Init == world = "none" /\ call = "none" /\ ~deleting /\ ~released

Delete == deleting' = TRUE /\ UNCHANGED <<world, call, released>>

\* A call starts; what "all" means may have changed since the last one.
Begin(op) ==
  /\ call = "none" /\ ~released
  /\ op = IF deleting THEN "deprovision" ELSE "provision"
  /\ call' = op
  /\ (world' = "none") <=> (world = "none")
  /\ UNCHANGED <<deleting, released>>

Work ==
  /\ world = "none"  => call = "provision"
  /\ world' = "none" => deleting
  /\ UNCHANGED <<call, deleting, released>>

Return(result) ==
  /\ call # "none"
  /\ result = "nil" /\ call = "provision"   => world = "all"
  /\ result = "nil" /\ call = "deprovision" => world = "none"
  /\ call' = "none"
  /\ released' = (result = "nil" /\ call = "deprovision")
  /\ UNCHANGED <<world, deleting>>

Next ==
  \/ Delete \/ Work
  \/ \E op \in {"provision", "deprovision"} : Begin(op)
  \/ \E result \in {"nil", "error"} : Return(result)

Spec == Init /\ [][Next /\ world' \in {"none", "some", "all"}]_contractVars
=============================================================================
