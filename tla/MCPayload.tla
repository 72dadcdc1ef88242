------------------------------ MODULE MCPayload -----------------------------
(* Instances of Payload for TLC: budgets from below the fixed part to past *)
(* what the buffer takes.                                                  *)
EXTENDS Payload

MCBudgets == {FixedBytes - 4, FixedBytes, FixedBytes + 24, FixedBytes + 44,
              FixedBytes + 48, FixedBytes + 72, FixedBytes + 96,
              FixedBytes + 100, FixedBytes + 120}
=============================================================================
