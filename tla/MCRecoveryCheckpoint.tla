------------------------ MODULE MCRecoveryCheckpoint ------------------------
(* Small instances of the recovery checkpoints.                            *)
EXTENDS RecoveryCheckpoint, TLC
=============================================================================
