--------------------------- MODULE MCMisdirected ---------------------------
(* zenith's payment reaches the wrong bank account and is returned.  The    *)
(* rows have no keys, and their text names both customers.                  *)
EXTENDS Attribution, TLC

MCAccounts  == {"acme", "zenith"}
MCContracts == {"c1", "c3"}
MCHolder    == "c1" :> "acme" @@ "c3" :> "zenith"
MCCode      == "c1" :> "AC" @@ "c3" :> "ZE"
MCWithin    == [c \in MCContracts |-> {MCCode[c]}]
MCDocuments == {"invAC", "invZE"}
MCIssuedTo  == "invAC" :> "acme" @@ "invZE" :> "zenith"
MCPattern   == "invAC" :> "AC" @@ "invZE" :> "ZE"
MCPrefix    == [a \in MCAccounts |-> "none"]
MCPolicy    == [a \in MCAccounts |-> "skip"]

Row(of, contract, invoice, names) ==
    [of |-> of, contract |-> contract, invoice |-> invoice, credit |-> "none",
     names |-> names, amount |-> TRUE]

MCRows == {Row("acme", "c1", "invAC", {}), Row("zenith", "none", "invZE", {"acme"}),
           Row("zenith", "none", "none", {"acme", "zenith"})}

MCOtherRows ==
    {[of |-> "acme", source |-> "product_usage", ticket |-> "none", keys |-> {"acme"},
      contract |-> "none"]}
=============================================================================
