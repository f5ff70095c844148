------------------------ MODULE MCChannelStrategies ------------------------
(* TLC instances of ChannelStrategies: the cfg files give the constants.   *)
EXTENDS ChannelStrategies
=============================================================================
