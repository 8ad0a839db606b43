---------------------------- MODULE RegistryEdits ----------------------------
(***************************************************************************)
(* What the node registry promises to commands that do not lock it: each   *)
(* one plans a single edit of the registry it found (one node added,       *)
(* changed or removed, or a change of format), and later either puts the   *)
(* whole of its plan in place, at once, or nothing.  It does not promise   *)
(* that the registry is still the one the plan was made for.  There are no *)
(* files, copies or requests here.                                         *)
(***************************************************************************)
EXTENDS FiniteSets

CONSTANTS Editors, \* the commands
          Outside  \* registries that something else may put in place

VARIABLES registry, \* what every reader finds
          plan,     \* what each command is going to put there
          careless  \* whether anything was asked for that is not read back as one node

Current(ns) == [form |-> "current", nodes |-> ns]
Broken == [form |-> "broken", nodes |-> {}]
NoPlan == [form |-> "none", nodes |-> {}]

Init ==
    /\ registry \in Outside \cup {Current({})}
    /\ plan = [c \in Editors |-> NoPlan]
    /\ careless = (registry = Broken)

AtMostOne(S) == \A m, n \in S : m = n

NamesUnique(S) == \A m, n \in S : m.name = n.name => m = n

OneEdit(old, new) ==
    /\ AtMostOne(old \ new) /\ AtMostOne(new \ old)
    /\ NamesUnique(new)

(* A registry in the legacy format may only change its format.  What was   *)
(* carelessly asked for may make it unreadable, or bring one more node.     *)
Follows(p) ==
    /\ registry.form # "broken"
    /\ \/ p = Broken /\ careless
       \/ /\ p = Current(p.nodes)
          /\ OneEdit(registry.nodes, p.nodes)
       \/ /\ p = Current(p.nodes) /\ careless
          /\ NamesUnique(p.nodes)
          /\ \E more \in p.nodes : OneEdit(registry.nodes, p.nodes \ {more})
    /\ registry.form = "legacy" => p = Current(registry.nodes)

Plan(c) ==
    /\ plan[c] = NoPlan
    /\ Follows(plan'[c])
    /\ \A d \in Editors \ {c} : plan'[d] = plan[d]
    /\ UNCHANGED <<registry, careless>>

Commit(c) ==
    /\ plan[c] # NoPlan
    /\ registry' = plan[c]
    /\ plan' = [plan EXCEPT ![c] = NoPlan]
    /\ UNCHANGED careless

Drop(c) ==
    /\ plan[c] # NoPlan
    /\ plan' = [plan EXCEPT ![c] = NoPlan]
    /\ UNCHANGED <<registry, careless>>

(* Somebody asks for a node that cannot be read back, or is read as two. *)
Carelessness ==
    /\ careless' = TRUE
    /\ UNCHANGED <<registry, plan>>

Replaced ==
    /\ registry' \in Outside
    /\ careless' = (careless \/ registry' = Broken)
    /\ UNCHANGED plan

Next ==
    \/ \E c \in Editors : plan'[c] # plan[c] /\ (Plan(c) \/ Commit(c) \/ Drop(c))
    \/ Carelessness \/ Replaced

Spec == Init /\ [][Next]_<<registry, plan, careless>>
=============================================================================
