--------------------------- MODULE OrderAuthority ---------------------------
(***************************************************************************)
(* What the trading core promises about orders, whatever fails and however *)
(* its handlers interleave: for every proposal one authority is given or   *)
(* refused, once and for good; an order goes to the broker only under a    *)
(* granted authority; and once it has been accepted or turned down there,  *)
(* the proposal never sends another.                                       *)
(*                                                                         *)
(* docs/workflow-flowchart.md section 1 states it of the Go API: an order  *)
(* is submitted after the rules pass, under bypass_risk, or after an       *)
(* approval has been approved.                                             *)
(***************************************************************************)
CONSTANT Proposals

VARIABLES
  authority,  \* authority[p]: "undecided", "granted" or "denied"
  placed      \* placed[p]: the order as the broker has it; "refused" when the
              \* one attempt to send it left no order

vars == <<authority, placed>>

Settled == {"filled", "partial", "dead"}

Init ==
  /\ authority = [p \in Proposals |-> "undecided"]
  /\ placed = [p \in Proposals |-> "none"]

\* The rules, the mode or a human decide.
Grant(p) ==
  /\ authority[p] = "undecided"
  /\ authority' = [authority EXCEPT ![p] = "granted"]
  /\ UNCHANGED placed

Deny(p) ==
  /\ authority[p] = "undecided"
  /\ authority' = [authority EXCEPT ![p] = "denied"]
  /\ UNCHANGED placed

\* Cancelling a run denies all that is still undecided in it, at once.
DenyAll ==
  /\ \E ps \in SUBSET Proposals :
       /\ \A p \in ps : authority[p] = "undecided"
       /\ authority' = [p \in Proposals |->
                          IF p \in ps THEN "denied" ELSE authority[p]]
  /\ UNCHANGED placed

Place(p) ==
  /\ authority[p] = "granted"
  /\ placed[p] = "none"
  /\ \E reply \in {"open", "refused"} : placed' = [placed EXCEPT ![p] = reply]
  /\ UNCHANGED authority

Settle(p) ==
  /\ placed[p] = "open"
  /\ \E end \in Settled : placed' = [placed EXCEPT ![p] = end]
  /\ UNCHANGED authority

Next ==
  \/ \E p \in Proposals : Grant(p) \/ Deny(p) \/ Place(p) \/ Settle(p)
  \/ DenyAll

Spec == Init /\ [][Next]_vars
=============================================================================
