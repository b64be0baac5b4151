------------------------------ MODULE MCCloud ------------------------------
(***************************************************************************)
(* What a host starts and must be able to stop: the session machine, the   *)
(* launches, ends and sweeps against a provider, the host's own computer   *)
(* as a provider, the wizard that launches, and the rules of the bucket    *)
(* that keeps the recordings.  A behaviour exercises the part it starts    *)
(* with; the others stand still.                                           *)
(***************************************************************************)
EXTENDS SessionVm, Hosting, LocalServer, HostWizard, BucketRules, TLC

VARIABLE part   \* the part under test

MCSkews == {-2, 0, 3}
(* A droplet's create may be answered by nothing at all, once.             *)
LostCreates == [c \in Clouds |-> IF c = "do" THEN 1 ELSE 0]
NamesAlike == Permutations(Hosted) \cup Permutations(Programs)

cloudParts == <<part, vmVars, hostVars, localVars, wizardVars, ruleVars>>

CloudInit ==
    /\ part \in {"machine", "app", "local", "wizard", "bucket"}
    /\ VmInit /\ HostInit /\ LocalInit /\ WizardInit /\ RulesInit
    /\ part # "machine" => vm.provider = CHOOSE k \in Providers : TRUE
    /\ part # "app" => cloud = CHOOSE c \in Clouds : TRUE
    /\ part # "local" => registry = <<>> /\ process = [n \in Pids |-> Nobody]
    /\ part # "wizard" => vault = [k \in Accounts |-> Empty]
    /\ part # "bucket" => api = "s3" /\ forever = {} /\ own = {}

CloudNext ==
    /\ UNCHANGED part
    /\ \/ part = "machine" /\ VmNext /\ UNCHANGED <<hostVars, localVars, wizardVars, ruleVars>>
       \/ part = "app" /\ HostNext /\ UNCHANGED <<vmVars, localVars, wizardVars, ruleVars>>
       \/ part = "local" /\ LocalNext /\ UNCHANGED <<vmVars, hostVars, wizardVars, ruleVars>>
       \/ part = "wizard" /\ WizardNext /\ UNCHANGED <<vmVars, hostVars, localVars, ruleVars>>
       \/ part = "bucket" /\ RulesNext /\ UNCHANGED <<vmVars, hostVars, localVars, wizardVars>>

CloudSpec == CloudInit /\ [][CloudNext]_cloudParts
=============================================================================
