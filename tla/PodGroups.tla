----------------------------- MODULE PodGroups -----------------------------
(***************************************************************************)
(* How a pod names its gang (pkg/utils/pod.go, and the label selectors of  *)
(* pkg/plugins/coscheduling/coscheduling.go).                              *)
(*                                                                         *)
(* A pod carries two generations of labels, the KubeNexus ones ("new") and *)
(* the sigs.k8s.io ones ("legacy"), each with a group name and a           *)
(* min-available value, either of which may be missing.  A group stands    *)
(* for a namespace together with a pod group name: every lookup of the     *)
(* code is restricted to the pod's own namespace.                          *)
(***************************************************************************)
EXTENDS Integers, FiniteSets

CONSTANTS Pods,     \* names of the pods the cluster may hold
          Groups,   \* pod groups, each a namespace/name pair
          NoGroup,  \* a group-name label that is missing or empty
          NoMin,    \* a min-available label that is missing or empty
          BadMin,   \* a min-available label that strconv.Atoi rejects
          Labels    \* the pod group labels of every pod

MinValue == Int \cup {NoMin, BadMin}

ASSUME PodGroupAssumption ==
    /\ IsFiniteSet(Pods)
    /\ NoGroup \notin Groups
    /\ NoMin \notin Int /\ BadMin \notin Int /\ NoMin # BadMin
    /\ \A p \in Pods :
         /\ Labels[p].newName \in Groups \cup {NoGroup}
         /\ Labels[p].legacyName \in Groups \cup {NoGroup}
         /\ Labels[p].newMin \in MinValue
         /\ Labels[p].legacyMin \in MinValue

-----------------------------------------------------------------------------
(* The name and the min-available value are looked up independently: a pod *)
(* may take its name from one generation and its size from the other.      *)
NameLabel(p) == IF Labels[p].newName # NoGroup THEN Labels[p].newName
                                               ELSE Labels[p].legacyName

MinLabel(p) == IF Labels[p].newMin # NoMin THEN Labels[p].newMin
                                           ELSE Labels[p].legacyMin

Labelled(p) == NameLabel(p) # NoGroup /\ MinLabel(p) # NoMin

\* The third result of GetPodGroupLabels: the size is not a number >= 1.
LabelErr(p) == Labelled(p) /\ (MinLabel(p) = BadMin \/ MinLabel(p) < 1)

\* The first and the second result of GetPodGroupLabels.
GroupName(p) == IF Labelled(p) /\ ~LabelErr(p) THEN NameLabel(p) ELSE NoGroup

MinAvailable(p) == IF Labelled(p) /\ ~LabelErr(p) THEN MinLabel(p) ELSE 0

\* A pod the gang plugins act on.
IsPodInPodGroup(p) == GroupName(p) # NoGroup /\ MinAvailable(p) > 1

-----------------------------------------------------------------------------
(* The pods of the set S that the plugins find when they list group g: the *)
(* new label first, the legacy label only if no pod carries the new one.   *)
ListGroup(S, g) ==
    LET new == {p \in S : Labels[p].newName = g}
    IN  IF new # {} THEN new ELSE {p \in S : Labels[p].legacyName = g}

\* The pods that consider themselves members of gang g.
Members(g) == {p \in Pods : GroupName(p) = g /\ IsPodInPodGroup(p)}
=============================================================================
