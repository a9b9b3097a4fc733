--------------------------- MODULE MCAttribution ---------------------------
(* Two customers.  acme has two contracts with one code, zenith an explicit *)
(* prefix and hard_fail.                                                    *)
EXTENDS Attribution, TLC

MCAccounts  == {"acme", "zenith"}
MCContracts == {"c1", "c2", "c3"}
MCHolder    == "c1" :> "acme" @@ "c2" :> "acme" @@ "c3" :> "zenith"
MCCode      == "c1" :> "AC" @@ "c2" :> "AC" @@ "c3" :> "none"
MCWithin    == "c1" :> {"AC"} @@ "c2" :> {"AC"} @@ "c3" :> {}
MCDocuments == {"invAC", "invZE", "noteAC"}
MCIssuedTo  == "invAC" :> "acme" @@ "noteAC" :> "acme" @@ "invZE" :> "zenith"
MCPattern   == "invAC" :> "AC" @@ "noteAC" :> "none" @@ "invZE" :> "ZE"
MCPrefix    == "acme" :> "none" @@ "zenith" :> "ZE"
MCPolicy    == "acme" :> "skip" @@ "zenith" :> "hard_fail"

Row(of, contract, invoice, credit, names, amount) ==
    [of |-> of, contract |-> contract, invoice |-> invoice, credit |-> credit,
     names |-> names, amount |-> amount]

(* Issued, mailed, a credit note and its application, a misdirected payment *)
(* without keys; zenith's payment that mentions acme and its credit.        *)
MCRows ==
    {Row("acme", "c1", "invAC", "none", {}, TRUE),
     Row("acme", "none", "invAC", "none", {}, FALSE),
     Row("acme", "c2", "noteAC", "noteAC", {}, TRUE),
     Row("acme", "none", "none", "noteAC", {}, TRUE),
     Row("acme", "none", "none", "none", {"acme"}, TRUE),
     Row("zenith", "none", "invZE", "none", {"acme"}, TRUE),
     Row("zenith", "none", "none", "invZE", {}, TRUE)}

Other(of, source, ticket, keys, contract) ==
    [of |-> of, source |-> source, ticket |-> ticket, keys |-> keys, contract |-> contract]

(* acme's ticket and the reply to it; what zenith needs to be built at all. *)
MCOtherRows ==
    {Other("acme", "support_tickets", "t1", {"acme"}, "none"),
     Other("acme", "support_tickets", "t1", {}, "none"),
     Other("zenith", "support_tickets", "t2", {"zenith"}, "none"),
     Other("zenith", "crm_interactions", "none", {"zenith"}, "none"),
     Other("zenith", "emails", "none", {"zenith"}, "none"),
     Other("zenith", "purchase_orders", "none", {}, "c3")}

ASSUME Truthful /\ OneCode /\ Strict
=============================================================================
