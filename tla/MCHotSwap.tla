------------------------------ MODULE MCHotSwap ------------------------------
(* Instances of HotSwap for TLC.                                             *)
EXTENDS HotSwap

NoDisturbance == {{}}
JudgeOnly == {{"judge"}}
OrderlyOrDisturbed == {{"crash"}, AllDisturbances \ {"judge"}, {"judge", "crash"}}
=============================================================================
