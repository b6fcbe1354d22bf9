---------------------------- MODULE PodMutation ----------------------------
(***************************************************************************)
(* The admission webhook (pkg/webhook/pod_mutation.go): a GPU pod whose    *)
(* nodeSelector names no GPU class gets the class of its namespace's tier. *)
(* Requests that are no pods, or do not parse, never become pods here.     *)
(***************************************************************************)
EXTENDS GpuCluster

requestsGPUs(p) == Attr[p].gpu > 0 \/ Ask[p].otherGpu

hasGPUClassNodeSelector(p) == Ask[p].class # NoClass

\* The tier label of the namespace; an empty or missing one is an error.
getNamespaceTier(label) == IF label = "none" THEN "error" ELSE label

getTierGPUClass(tier) == CASE tier = "gold"   -> "h100"
                           [] tier = "silver" -> "a100"
                           [] tier = "bronze" -> "l4"
                           [] OTHER           -> NoClass

\* Mutation of mutate: a namespace that cannot be read counts as bronze.
mutateUnread(p, read) ==
    IF requestsGPUs(p) /\ ~hasGPUClassNodeSelector(p)
    THEN getTierGPUClass(IF read = "error" THEN "bronze" ELSE read)
    ELSE Ask[p].class

\* The GPU class in the nodeSelector of the pod that is stored.  read is the
\* tier found in the namespace, or "error".
mutate(p, read) ==
    IF requestsGPUs(p) /\ ~hasGPUClassNodeSelector(p)
    THEN getTierGPUClass(read)
    ELSE Ask[p].class
=============================================================================
