--------------------------- MODULE MCRadioWatchdog ---------------------------
(* The watched device alone, its peer being part of the link, or both.       *)
EXTENDS RadioWatchdog

MCOne  == <<"AP">>
MCBoth == <<"AP", "STA">>
==============================================================================
