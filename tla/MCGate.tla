------------------------------- MODULE MCGate -------------------------------
(* Gate with the policy of config/verification/renewal.yaml, and summaries, *)
(* excerpts and verdicts around its thresholds.                             *)
EXTENDS Gate, TLC

(* Round half up.                                                           *)
MCTenth(n) == ((n + 5) \div 10) * 10

(* A slope of -4.37, a balance of 20000.55, a CSAT of 3.64, a count of 41.  *)
MCSummaries == {{-437, 2000055}, {364, 4100}, {0}}

MCSignals   == {"ticket", "note"}
MCNumbersIn == "ticket" :> {1250} @@ "note" :> {60749}
MCIds       == {"TKT-48", "TKT-4891", "INV-7"}
MCIdsIn     == "ticket" :> {"TKT-4891"} @@ "note" :> {"INV-7"}
MCContains  == "TKT-48" :> {"TKT-48"} @@ "TKT-4891" :> {"TKT-48", "TKT-4891"}
               @@ "INV-7" :> {"INV-7"}
MCYears     == 2018..2030

Claim(n, p) == [value |-> n, plain |-> p]
Claims == {Claim(437, FALSE), Claim(440, FALSE), Claim(400, TRUE), Claim(2010000, TRUE),
           Claim(2010100, TRUE), Claim(2090000, TRUE), Claim(202500, TRUE), Claim(203100, TRUE),
           Claim(360, FALSE), Claim(4150, FALSE), Claim(4151, FALSE), Claim(4200, TRUE),
           Claim(4, FALSE), Claim(1250, FALSE), Claim(1300, TRUE), Claim(60700, TRUE),
           Claim(61100, TRUE)}

MCVerdicts ==
    [claims : {{c} : c \in Claims} \cup {{Claim(1300, TRUE), Claim(61000, TRUE)}},
     entities : SUBSET MCIds, cites : {{"TKT-4891"}, {"INV-7"}}, chars : {100}]
=============================================================================
