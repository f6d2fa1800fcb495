---------------------------- MODULE MCIdempotency ----------------------------
(***************************************************************************)
(* Constants for the runs of Idempotency.                                  *)
(***************************************************************************)
EXTENDS Idempotency

MCAttempt == 1..3

(* The name of a key says what kind of operation it stands for. *)
MCKindOf == [k \in Key |-> k]

===============================================================================
