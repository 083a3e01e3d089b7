------------------------ MODULE InvitationLifecycle ------------------------
(***************************************************************************)
(* The life of an invitation as the product documents it: sent once, then  *)
(* settled once, by its invitee while it has not expired, by its invitee's *)
(* refusal, or by its inviter.  What was settled never changes.            *)
(***************************************************************************)
CONSTANT InvId

VARIABLES
    status,  \* per invitation, "absent" before it is sent
    expired  \* per invitation, its days have run out

TypeOK ==
    /\ status \in [InvId -> {"absent", "pending", "accepted", "declined", "cancelled"}]
    /\ expired \in [InvId -> BOOLEAN]

Init ==
    /\ status = [i \in InvId |-> "absent"]
    /\ expired = [i \in InvId |-> FALSE]

Settle(i, from, to) ==
    /\ status[i] = from
    /\ status' = [status EXCEPT ![i] = to]
    /\ UNCHANGED expired

Send(i) == Settle(i, "absent", "pending")
Accept(i) == ~expired[i] /\ Settle(i, "pending", "accepted")
Decline(i) == Settle(i, "pending", "declined")

(* By the inviter: one, or every pending one as the account is deleted. *)
Cancel(S) ==
    /\ \A i \in S : status[i] = "pending"
    /\ status' = [i \in InvId |-> IF i \in S THEN "cancelled" ELSE status[i]]
    /\ UNCHANGED expired

Expire(i) ==
    /\ status[i] = "pending"
    /\ expired' = [expired EXCEPT ![i] = TRUE]
    /\ UNCHANGED status

Next ==
    \/ \E i \in InvId : Send(i) \/ Accept(i) \/ Decline(i) \/ Expire(i)
    \/ \E S \in SUBSET InvId : Cancel(S)

Spec == Init /\ [][Next]_<<status, expired>>
=============================================================================
