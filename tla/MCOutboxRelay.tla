--------------------------- MODULE MCOutboxRelay ---------------------------
(* OutboxRelay on small instances.                                         *)
EXTENDS OutboxRelay, TLC

(* Relays are interchangeable: nothing orders them.                        *)
RelaySymmetry == Permutations(Relays)
=============================================================================
