----------------------------- MODULE MCDelivery -----------------------------
(* A small instance of Delivery for TLC. *)
EXTENDS Delivery

ASSUME DeliveryAssumption == PublicationConstants /\ DeliveryConstants

(* A plain exit status is never taken for the result of an attempt that    *)
(* committed, or may have committed, a native one; what a publication in   *)
(* flight still has to send, and what the coordinator does not hold, stays *)
(* on disk; and all of it stays charged through interrupted collections    *)
(* (agent.rs, publication_gc.rs).                                          *)
NoResultLost ==
    NoPlainFallback /\ SendableWhileInFlight /\ GoneIsDelivered /\ DiskIsCharged
=============================================================================
