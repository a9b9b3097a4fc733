------------------------------ MODULE MCEnrich ------------------------------
(* acme has a row of each kind.  zenith has signed its contract; its first  *)
(* rows may come into the same exports.  orbit has no contract in them.     *)
EXTENDS Enrich, TLC

MCAccounts  == {"acme", "zenith", "orbit"}
MCContracts == {"c1", "c2"}
MCHolder    == "c1" :> "acme" @@ "c2" :> "zenith"
MCCode      == "c1" :> "AC" @@ "c2" :> "none"
MCWithin    == "c1" :> {"AC"} @@ "c2" :> {}
MCDocuments == {"invAC", "invZE"}
MCIssuedTo  == "invAC" :> "acme" @@ "invZE" :> "zenith"
MCPattern   == "invAC" :> "AC" @@ "invZE" :> "ZE"
MCPrefix    == "acme" :> "none" @@ "zenith" :> "ZE" @@ "orbit" :> "none"
MCPolicy    == [a \in MCAccounts |-> "skip"]

Row(id, of, pos, event, dispute, cents, invoice) ==
    [source |-> "billing", id |-> id, of |-> of, pos |-> pos, at |-> pos, lines |-> 1,
     hits |-> IF dispute = "none" THEN {} ELSE {"notes"}, event |-> event, dispute |-> dispute,
     cents |-> cents, amount |-> cents # 0, invoice |-> invoice, contract |-> "none",
     credit |-> "none", names |-> IF of = "acme" THEN {"acme"} ELSE {}]

(* B6 is a dispute without an invoice id, which is never attributed.        *)
MCRows ==
    {Row("B1", "acme", 1, "invoice_issued", "none", 100, "invAC"),
     Row("B2", "acme", 2, "payment_reminder_sent", "none", 0, "invAC"),
     Row("B3", "acme", 3, "dispute_opened", "D1", 0, "invAC"),
     Row("B4", "zenith", 4, "dispute_opened", "D2", 0, "invZE"),
     Row("B5", "acme", 5, "payment_received", "none", 60, "invAC"),
     Row("B6", "acme", 6, "dispute_opened", "D3", 0, "none"),
     Row("B7", "acme", 7, "dispute_resolved", "D1", 0, "invAC"),
     Row("B8", "acme", 8, "credit_note_issued", "none", -30, "none")}

Other(of, source, id, pos, at, keys, hits, lines) ==
    [source |-> source, id |-> id, of |-> of, pos |-> pos, at |-> at, lines |-> lines,
     hits |-> hits, keys |-> keys, ticket |-> "none", contract |-> "none"]

Ticket(id, ticket, pos, at, kind, priority, status, breach, score) ==
    [kind |-> kind, priority |-> priority, status |-> status, breach |-> breach,
     score |-> score, ticket |-> ticket]
       @@ Other("acme", "support_tickets", id, pos, at,
                IF kind = "ticket_created" THEN {"acme"} ELSE {}, {}, 1)

Week(of, id, pos, week, department, sessions) ==
    [week |-> week, department |-> department, sessions |-> sessions]
       @@ Other(of, "product_usage", id, pos, NoDate, {of}, {}, 1)

(* The creation of T2 is exported after the reply; T1 is resolved and rated *)
(* at one time; the second email reuses the id of the first.                *)
MCOtherRows ==
    {Ticket("S1", "T1", 1, 5, "ticket_created", "critical", "open", FALSE, 0),
     Ticket("S2", "T1", 2, 7, "status_change", "none", "resolved", FALSE, 0),
     Ticket("S3", "T1", 3, 7, "survey", "none", "none", TRUE, 2),
     Ticket("S4", "T2", 4, 9, "reply", "none", "resolved", FALSE, 0),
     Ticket("S5", "T2", 5, 6, "ticket_created", "high", "open", TRUE, 0),
     Ticket("S6", "T2", 6, 9, "status_change", "none", "in_progress", FALSE, 0),
     Ticket("S7", "T1", 7, 8, "reply", "none", "in_progress", FALSE, 0),
     Other("acme", "crm_interactions", "M1", 1, 5, {"acme"}, {}, 1),
     Other("acme", "crm_interactions", "M2", 2, NoDate, {"acme"}, {"body"}, 1),
     Other("acme", "emails", "E1", 1, 2, {"acme"}, {"subject"}, 3),
     Other("acme", "emails", "E1", 2, 6, {"acme"}, {"subject"}, 1),
     Week("acme", "U1", 1, 2, "Enginering", 12),
     Week("acme", "U2", 2, 1, "R&D", 10),
     Week("acme", "U3", 3, 3, "Operation", 2),
     Week("zenith", "U4", 4, NoDate, "none", 1)}

MCShipped == {r \in MCRows \cup MCOtherRows : r.id \in {"B1", "S1", "M1", "U1"} \/ r.at = 2}

MCMalformed == [source : {"support_tickets"}, lines : {1, 2}]

(* "Operation" is nearer to a name that may be added than to those known.   *)
MCNames   == {"Engineering", "Enginering", "R&D", "Operation", "Operations"}
MCLength  == [v \in MCNames |-> IF v = "R&D" THEN 3 ELSE 9]
MCListed  == [v \in MCNames |-> IF v = "Operations" THEN 2 ELSE 1]
MCAlike   == {{"Engineering", "Enginering"}, {"Operation", "Operations"}}
MCScore   == [v \in MCNames |-> [k \in MCNames |-> IF {v, k} \in MCAlike THEN 95 ELSE 20]]
MCRule    == [known |-> {"Engineering"}, aliases |-> <<>>]
MCAliases == {<<"R&D", "Engineering">>, <<"Operation", "Engineering">>}

MCFields == "billing" :> {"notes", "description"} @@ "support_tickets" :> {"content", "notes"}
              @@ "crm_interactions" :> {"body", "subject"} @@ "emails" :> {"body", "subject"}

(* The words ids are made of, in their order.                               *)
MCOrder    == <<"TKT", "billing", "crm_interactions", "emails", "product_usage",
                "purchase_orders", "support_tickets", "B1", "B2", "B3", "B4", "B5", "B6", "B7",
                "B8", "E1", "M1", "M2", "S1", "S2", "S3", "S4", "S5", "S6", "S7", "T1", "T2", "U1",
                "U2", "U3", "U4", "body", "content", "none", "notes", "recent", "subject">>
MCAlphabet == [x \in {MCOrder[i] : i \in DOMAIN MCOrder} |->
                 CHOOSE i \in DOMAIN MCOrder : MCOrder[i] = x]

(* No slope of these weeks is half a hundredth.                             *)
MCHalf(u) == FALSE

MCThresholds ==
    [a \in MCAccounts |-> [outstanding |-> 50, reminders |-> 0, breaches |-> 1, csat |-> 350]]

ASSUME Truthful /\ OneCode /\ Strict /\ OneRowPerId /\ Signed(Rows)
=============================================================================
