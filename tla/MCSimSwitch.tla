---------------------------- MODULE MCSimSwitch -----------------------------
(***************************************************************************)
(* sim_switch for TLC, in two instances of two processes: the daemon and   *)
(* one that is launched at any moment.  SIM 1 is the default and SIM 2 has *)
(* the timeout; 20 passes and 20 rounds of waiting become 0 and 1.         *)
(*   - a full loop: "signal" with retries (3 become 1), then "data", on    *)
(*     SIM 2, "data" on SIM 1; the timeout grows from 1 pass to 2;         *)
(*   - a simple loop: one rule without retries, "data".                    *)
(***************************************************************************)
EXTENDS SimSwitch

DataRule == <<"data">>

DataOn == [s \in Sims |-> {"data"}]

DataLimit == [r \in {"data"} |-> 0]

LoopRules == <<"signal", "data">>

LoopOn == [s \in Sims |-> IF s = "sim2" THEN {"signal", "data"} ELSE {"data"}]

LoopLimit == [r \in {"signal", "data"} |-> IF r = "signal" THEN 1 ELSE 0]

====
