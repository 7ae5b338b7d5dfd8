------------------------------- MODULE Tenancy -------------------------------
(***************************************************************************)
(* What MicroAllocator promises the interpreters that share one arena: one  *)
(* model is allocated at a time, a model whose allocation is finished stays *)
(* a tenant, and whenever no allocation is under way the overlay is large   *)
(* enough for the memory plan of every tenant.  While a model is being      *)
(* allocated the overlay is at the allocator's disposal, and an allocation  *)
(* that fails is never finished.                                            *)
(***************************************************************************)
EXTENDS Integers

CONSTANTS
  Models,    \* what can be allocated
  NoModel

VARIABLES
  current,   \* the model being allocated, or NoModel
  tenants,   \* the models that have been allocated, with their plan's size
  overlay    \* bytes reserved for the memory plans

tenancyVars == <<current, tenants, overlay>>

Init == current = NoModel /\ tenants = {} /\ overlay = 0

Begin ==
  /\ current = NoModel
  /\ current' \in Models
  /\ overlay' \in Nat
  /\ UNCHANGED tenants

Work ==
  /\ current # NoModel
  /\ overlay' \in Nat
  /\ UNCHANGED <<current, tenants>>

Finish ==
  /\ current # NoModel
  /\ current' = NoModel
  /\ \E t \in tenants' : t.model = current /\ tenants' = tenants \cup {t}
  /\ overlay' \in Nat /\ \A t \in tenants' : t.size <= overlay'

Next == Begin \/ Work \/ Finish

Spec == Init /\ [][Next]_tenancyVars
=============================================================================
