----------------------------- MODULE MCOptimizer -----------------------------
(* One channel in each of three tiers, or two in one; and channel 0.         *)
EXTENDS Optimizer, TLC

MCTiers      == <<1, 2, 4>>
ThinPlan     == 1 :> <<3>> @@ 2 :> <<6>> @@ 4 :> <<16>>
WidePlan     == 1 :> <<3>> @@ 2 :> <<6>> @@ 4 :> <<16, 24>>
MCChannels24 == <<1, 6, 11>>
MCBwOf       == 0 :> 0 @@ 1 :> 1 @@ 3 :> 1 @@ 6 :> 2 @@ 11 :> 1 @@ 16 :> 4 @@ 24 :> 4
MCHome       == HaLow :> 16 @@ Wifi24 :> 1
OneLink      == {{HaLow}, {Wifi24}}
===============================================================================
