--------------------------- MODULE MCKafkaConsumer ---------------------------
(* Small instances of KafkaConsumer for TLC.  Listeners are model values;  *)
(* its run checks liveness, so no symmetry is declared.                   *)
EXTENDS KafkaConsumer

=============================================================================
