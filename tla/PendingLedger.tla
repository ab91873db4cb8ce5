---------------------------- MODULE PendingLedger ----------------------------
(***************************************************************************)
(* billing/pending_protocol.py: the repository's executable specification  *)
(* of the PENDING protocol, where each step of the protocol is atomic and  *)
(* the debit of a hold is a plain fact.  The settled counter is out of its *)
(* scope, and the pool is active.                                          *)
(***************************************************************************)
EXTENDS Integers

CONSTANTS Holds, Amount, Limit

VARIABLES pool_reserved, status, debited

vars == <<pool_reserved, status, debited>>

headroom == Limit - pool_reserved

Init ==
  /\ pool_reserved = 0
  /\ status = [h \in Holds |-> "none"]
  /\ debited = [h \in Holds |-> FALSE]

Move(h, from, to) == status[h] \in from /\ status' = [status EXCEPT ![h] = to]

\* The reservation goes back: reserved falls and the marker is cleared.
GiveBack(h) ==
  /\ pool_reserved' = pool_reserved - Amount[h]
  /\ debited' = [debited EXCEPT ![h] = FALSE]

put_pending(h) == Move(h, {"none"}, "PENDING") /\ UNCHANGED <<pool_reserved, debited>>

\* The outcomes that apply the debit; the others change nothing.
commit_debit(h) ==
  /\ status[h] = "PENDING"
  /\ ~debited[h]
  /\ headroom >= Amount[h]
  /\ pool_reserved' = pool_reserved + Amount[h]
  /\ debited' = [debited EXCEPT ![h] = TRUE]
  /\ UNCHANGED status

activate(h) == Move(h, {"PENDING"}, "ACTIVE") /\ UNCHANGED <<pool_reserved, debited>>

\* settle and release: a hold whose debit never applied raises OversellError.
return_reservation(h, to) ==
  /\ Move(h, {"PENDING", "ACTIVE"}, to)
  /\ debited[h]
  /\ GiveBack(h)

reap_active_expired(h) == Move(h, {"ACTIVE"}, "EXPIRED") /\ GiveBack(h)

fence_pending_expired(h) ==
  Move(h, {"PENDING"}, "EXPIRED_UNCREDITED") /\ UNCHANGED <<pool_reserved, debited>>

mark_failed(h) == Move(h, {"PENDING"}, "FAILED") /\ UNCHANGED <<pool_reserved, debited>>

\* One iteration of the reconcile loop.
reconcile(h) ==
  /\ Move(h, {"EXPIRED_UNCREDITED"}, "RECLAIMED")
  /\ IF debited[h] THEN GiveBack(h) ELSE UNCHANGED <<pool_reserved, debited>>

Next ==
  \E h \in Holds :
    \/ put_pending(h)
    \/ commit_debit(h)
    \/ activate(h)
    \/ \E to \in {"SETTLED", "RELEASED"} : return_reservation(h, to)
    \/ reap_active_expired(h)
    \/ fence_pending_expired(h)
    \/ mark_failed(h)
    \/ reconcile(h)

Spec == Init /\ [][Next]_vars

=============================================================================
