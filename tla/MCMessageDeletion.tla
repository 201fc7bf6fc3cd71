-------------------------- MODULE MCMessageDeletion --------------------------
(* Small instances of MessageDeletion for TLC. *)
EXTENDS MessageDeletion, TLC

\* Keys, deliveries and sweeps are interchangeable: safety runs only.
Interchangeable == Permutations(Key) \cup Permutations(Writer) \cup Permutations(Sweep)

=============================================================================
