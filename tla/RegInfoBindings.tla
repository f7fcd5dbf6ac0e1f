-------------------------- MODULE RegInfoBindings --------------------------
(***************************************************************************)
(* What the flow manager's table stands for: the bindings the registrar    *)
(* reported, to any subscriber that is still heard, each the pair of a     *)
(* flow (a contact) and an address of record.  A report adds or removes    *)
(* single bindings; when the subscription in force is lost they are all    *)
(* forgotten with it.                                                      *)
(***************************************************************************)
CONSTANTS Conns, None, FlowIds, Records

VARIABLES
    bindings,       \* the reported <<flow, record>> pairs
    subscription    \* the connection the subscription was made on

vars == <<bindings, subscription>>

Init == bindings = {} /\ subscription = None

Subscribe(c) == subscription' = c /\ UNCHANGED bindings

Bind(f, r) ==
    /\ bindings' = bindings \cup {<<f, r>>}
    /\ UNCHANGED subscription

Unbind(f, r) ==
    /\ bindings' = bindings \ {<<f, r>>}
    /\ UNCHANGED subscription

Forget == bindings' = {} /\ subscription' = None

Next ==
    \/ \E c \in Conns : Subscribe(c)
    \/ \E f \in FlowIds, r \in Records : Bind(f, r) \/ Unbind(f, r)
    \/ Forget

Spec == Init /\ [][Next]_vars
=============================================================================
