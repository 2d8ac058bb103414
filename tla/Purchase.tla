------------------------------- MODULE Purchase -------------------------------
(***************************************************************************)
(* What a customer is promised, whatever page and network are in between:  *)
(* one order at a time, a bill that is fixed once, a payment only of the   *)
(* very amount the customer has agreed to, and no order left open for ever.*)
(***************************************************************************)
EXTENDS Null

CONSTANTS
  Orders,    \* order ids
  Amounts    \* what a bill may come to

VARIABLES
  phase,     \* of each order
  bill,      \* the amount fixed for each order
  agreed     \* the amount the customer has agreed to pay for each order

vars == <<phase, bill, agreed>>

Open == {"reserved", "charging", "pending_payment"}
Closed == {"completed", "cancelled"}

Init ==
  /\ phase = [o \in Orders |-> "none"]
  /\ bill = [o \in Orders |-> None]
  /\ agreed = [o \in Orders |-> None]

Place(o) ==
  /\ phase[o] = "none"
  /\ \A p \in Orders : phase[p] \notin Open
  /\ phase' = [phase EXCEPT ![o] = "reserved"]
  /\ UNCHANGED <<bill, agreed>>

Begin(o) ==
  /\ phase[o] = "reserved"
  /\ phase' = [phase EXCEPT ![o] = "charging"]
  /\ UNCHANGED <<bill, agreed>>

GiveUp(o) ==
  /\ phase[o] = "reserved"
  /\ phase' = [phase EXCEPT ![o] = "cancelled"]
  /\ UNCHANGED <<bill, agreed>>

Invoice(o) ==
  /\ phase[o] = "charging"
  /\ \E a \in Amounts : bill' = [bill EXCEPT ![o] = a]
  /\ phase' = [phase EXCEPT ![o] = "pending_payment"]
  /\ UNCHANGED agreed

\* A customer may be asked again after the payment: the answer is the same.
Agree(o) ==
  /\ bill[o] # None
  /\ agreed' = [agreed EXCEPT ![o] = bill[o]]
  /\ UNCHANGED <<phase, bill>>

Pay(o) ==
  /\ phase[o] = "pending_payment"
  /\ agreed[o] = bill[o]
  /\ phase' = [phase EXCEPT ![o] = "completed"]
  /\ UNCHANGED <<bill, agreed>>

Next == \E o \in Orders :
  Place(o) \/ Begin(o) \/ GiveUp(o) \/ Invoice(o) \/ Agree(o) \/ Pay(o)

Safety == Init /\ [][Next]_vars

Concluded == \A o \in Orders : phase[o] \in Open ~> phase[o] \in Closed

Spec == Safety /\ Concluded
=============================================================================
