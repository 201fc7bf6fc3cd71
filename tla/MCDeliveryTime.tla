--------------------------- MODULE MCDeliveryTime ---------------------------
(* Instances of DeliveryTime for TLC. *)
EXTENDS DeliveryTime

PollInterval == 300000    \* application.yml, max.poll.interval.ms

\* With the delays of application.yml a delivery fits the interval as far as the
\* code limits it, and not with what application.yml lets the database and the
\* broker take: there one delivery may cost the listener its partition.
ASSUME LimitsFit == LongestFor(0, 0) <= PollInterval
ASSUME WaitsDoNotFit == LongestFor(120000, 120000) > PollInterval

=============================================================================
