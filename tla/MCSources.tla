------------------------------ MODULE MCSources ------------------------------
(* The four sources for TLC: with and without timestamps, two TCP peers, and   *)
(* an interval that the parts of a collection do not divide.                   *)
EXTENDS Sources

MCConfigurations == {
    [kind |-> "collection", has_timestamp_extractor |-> TRUE, connections |-> 1,
     watermark_interval |-> 3, records |-> 5],
    [kind |-> "collection", has_timestamp_extractor |-> FALSE, connections |-> 1,
     watermark_interval |-> 2, records |-> 4],
    [kind |-> "file", has_timestamp_extractor |-> FALSE, connections |-> 1,
     watermark_interval |-> 2, records |-> 5],
    [kind |-> "tcp", has_timestamp_extractor |-> TRUE, connections |-> 2,
     watermark_interval |-> 3, records |-> 2],
    [kind |-> "udp", has_timestamp_extractor |-> FALSE, connections |-> 1,
     watermark_interval |-> 3, records |-> 3]}
=============================================================================
