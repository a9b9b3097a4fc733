------------------------------- MODULE Report -------------------------------
(***************************************************************************)
(* What a run of the pipeline promises about the PDF of its account,       *)
(* without saying how (README.md, "Hard verification gate"): the file is   *)
(* touched only by a run that has got to the end of its work, it is        *)
(* complete before anybody is told of it, a run that reports success has   *)
(* left a verified report behind and one that soft-fails a report with the *)
(* caveat, and one that fails earlier leaves the last report as it was.    *)
(***************************************************************************)

CONSTANT Accounts

VARIABLES
    status,  \* of the last run for the account
    file     \* what is on disk for the account

reportVars == <<status, file>>

Ended == {"accepted", "caveated", "failed"}

Init ==
    /\ status = [a \in Accounts |-> "idle"]
    /\ file   = [a \in Accounts |-> "none"]

Start(a) ==
    /\ status[a] \in Ended \cup {"idle"}
    /\ status' = [status EXCEPT ![a] = "working"]
    /\ UNCHANGED file

(* A call that never becomes a run: the file is whose it was.              *)
Misuse(a) ==
    /\ status[a] \in Ended \cup {"idle"}
    /\ status' = [status EXCEPT ![a] = "failed"]
    /\ UNCHANGED file

(* Failing before the file is opened leaves the earlier report, failing    *)
(* while it is open leaves it damaged, and failing after that leaves a     *)
(* report nobody was told of.                                              *)
Fail(a) ==
    /\ status[a] \in {"working", "publishing", "published"}
    /\ status' = [status EXCEPT ![a] = "failed"]
    /\ UNCHANGED file

Open(a) ==
    /\ status[a] = "working"
    /\ status' = [status EXCEPT ![a] = "publishing"]
    /\ file'   = [file EXCEPT ![a] = "damaged"]

Publish(a) ==
    /\ status[a] = "publishing"
    /\ status' = [status EXCEPT ![a] = "published"]
    /\ \E result \in {"verified", "caveated"} : file' = [file EXCEPT ![a] = result]

(* Success is reported of a verified report only.                          *)
Tell(a) ==
    /\ status[a] = "published"
    /\ status' = [status EXCEPT ![a] = IF file[a] = "verified" THEN "accepted" ELSE "caveated"]
    /\ UNCHANGED file

Next ==
    \E a \in Accounts :
        Start(a) \/ Misuse(a) \/ Fail(a) \/ Open(a) \/ Publish(a) \/ Tell(a)

Spec == Init /\ [][Next]_reportVars
=============================================================================
