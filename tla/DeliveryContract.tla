---------------------------- MODULE DeliveryContract ----------------------------
(***************************************************************************)
(* What a delivery promises to the requester of an Operation, whoever      *)
(* executes it: the agent is prompted with the completion at most once and *)
(* only while the delivery is pending; a delivery leaves `pending` once,   *)
(* and only after its result is in the requester's history or it was too   *)
(* old to tell; every delivery leaves it.                                  *)
(***************************************************************************)

CONSTANT Deliveries

VARIABLES
  delivery,   \* "none", "pending", "consumed"
  prompted,   \* the provider was prompted with the completion
  told        \* the completion is in the history, or is expired

vars == <<delivery, prompted, told>>

Init ==
  /\ delivery = [d \in Deliveries |-> "none"]
  /\ prompted = [d \in Deliveries |-> FALSE]
  /\ told = [d \in Deliveries |-> FALSE]

\* The Operation finishes.
Owe(d) ==
  /\ delivery[d] = "none"
  /\ delivery' = [delivery EXCEPT ![d] = "pending"]
  /\ UNCHANGED <<prompted, told>>

\* The result reaches the history, or expires.
Tell(d) ==
  /\ told' = [told EXCEPT ![d] = TRUE]
  /\ UNCHANGED <<delivery, prompted>>

\* The continuation turn prompts the agent.
Prompt(d) ==
  /\ delivery[d] = "pending" /\ told[d] /\ ~prompted[d]
  /\ prompted' = [prompted EXCEPT ![d] = TRUE]
  /\ UNCHANGED <<delivery, told>>

Consume(d) ==
  /\ delivery[d] = "pending" /\ told[d]
  /\ delivery' = [delivery EXCEPT ![d] = "consumed"]
  /\ UNCHANGED <<prompted, told>>

Next == \E d \in Deliveries : Owe(d) \/ Tell(d) \/ Prompt(d) \/ Consume(d)

Spec == Init /\ [][Next]_vars
=============================================================================
