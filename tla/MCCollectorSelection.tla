------------------------- MODULE MCCollectorSelection -------------------------
(* CollectorSelection for TLC: the registry, with fewer optional names.    *)
EXTENDS CollectorSelection

MCRequired == <<"DevInfo">>
MCOptional == <<"DPLL", "GNSS", "Logs">>
===============================================================================
