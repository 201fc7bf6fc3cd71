----------------------------- MODULE MCDelivery -----------------------------
(* Small instances of Delivery for TLC. *)
EXTENDS Delivery, TLC

\* Listeners are interchangeable, and so are TPPs: safety runs only.
Interchangeable == Permutations(Listener) \cup Permutations(Tpp)

=============================================================================
