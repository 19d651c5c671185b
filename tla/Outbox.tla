------------------------------- MODULE Outbox -------------------------------
(***************************************************************************)
(* What the email outbox promises, without relays, locks, shards, markers  *)
(* or ticks: a committed message is delivered at least once or given up    *)
(* after MaxAttempts charged attempts, and its fate is decided once.       *)
(***************************************************************************)
EXTENDS Integers

CONSTANTS Ids, MaxAttempts

VARIABLES
    status,      \* id -> none, pending, failed or deleted
    attempts,    \* id -> attempts charged to the message
    deliveries   \* id -> how often the provider accepted it

abstractVars == <<status, attempts, deliveries>>

AbstractInit ==
    /\ status = [id \in Ids |-> "none"]
    /\ attempts = [id \in Ids |-> 0]
    /\ deliveries = [id \in Ids |-> 0]

(* A message becomes visible with the commit of the change it belongs to.  *)
Commit(id) ==
    /\ status[id] = "none"
    /\ status' = [status EXCEPT ![id] = "pending"]
    /\ UNCHANGED <<attempts, deliveries>>

(* The provider accepts a batch.  Only committed messages are ever sent.   *)
Deliver(S) ==
    /\ \A id \in S : status[id] # "none"
    /\ deliveries' = [id \in Ids |-> IF id \in S THEN deliveries[id] + 1 ELSE deliveries[id]]
    /\ UNCHANGED <<status, attempts>>

(* One settlement decides on pending messages only: D is done, all of it   *)
(* delivered; R has attempts left; F has used its last one.                *)
Resolve(D, R, F) ==
    /\ D \cap R = {} /\ D \cap F = {} /\ R \cap F = {}
    /\ \A id \in D \cup R \cup F : status[id] = "pending"
    /\ \A id \in D : deliveries[id] >= 1
    /\ \A id \in R : attempts[id] + 1 < MaxAttempts
    /\ \A id \in F : attempts[id] + 1 = MaxAttempts
    /\ status' = [id \in Ids |-> IF id \in D THEN "deleted"
                                 ELSE IF id \in F THEN "failed" ELSE status[id]]
    /\ attempts' = [id \in Ids |-> IF id \in R \cup F THEN attempts[id] + 1 ELSE attempts[id]]
    /\ UNCHANGED deliveries

AbstractNext ==
    \/ \E id \in Ids : Commit(id)
    \/ \E S \in SUBSET Ids : Deliver(S)
    \/ \E D, R, F \in SUBSET Ids : Resolve(D, R, F)

AbstractSpec == AbstractInit /\ [][AbstractNext]_abstractVars
=============================================================================
