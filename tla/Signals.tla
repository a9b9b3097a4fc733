------------------------------ MODULE Signals ------------------------------
(***************************************************************************)
(* src/challenge/enrich/signals.py: the excerpts the provider is shown.    *)
(* The text of an excerpt is abstracted to the row it stands in and its    *)
(* field; "hits" of a row are the fields with a keyword in them.           *)
(***************************************************************************)
EXTENDS Summary

CONSTANTS
    MaxSignals,     \* max_signals
    RecentWindow,   \* recent_window_days
    Fields,         \* the fields a source is scanned for keywords
    Alphabet        \* the place of a string in the order of strings

ASSUME SignalsAssumption ==
    /\ MaxSignals \in Nat /\ RecentWindow \in Nat
    /\ Alphabet \in [DOMAIN Alphabet -> Nat]
    /\ \A x, y \in DOMAIN Alphabet : Alphabet[x] = Alphabet[y] => x = y

Id(source, row, field)  == [source |-> source, row |-> row, field |-> field]
Excerpt(id, r)          == [id |-> id, at |-> r.at, pos |-> r.pos]

(* Open here is the status "open", in summary.py whatever is not resolved. *)
Urgent(first, final) ==
    {t \in DOMAIN first : final[t] = "open" /\ first[t].priority \in {"critical", "high"}}

TicketExcerpts(first, final) ==
    {Excerpt(Id("TKT", t, "content"), first[t]) : t \in Urgent(first, final)}

KeywordExcerpts(rows) ==
    UNION {{Excerpt(Id(r.source, r.id, f), r) : f \in r.hits \cap Fields[r.source]}
             : r \in {q \in rows : q.source \in DOMAIN Fields}}

(* A blank cell is NaN, which is not blank text: no row is passed over.    *)
RecentExcerpts(crm, now) ==
    {Excerpt(Id("crm_interactions", r.id, "recent"), r)
       : r \in {q \in crm : q.at # NoDate /\ q.at >= now - RecentWindow}}

(* Mutant: the last of an id.                                              *)
DeduplicatedLast(S) == {s \in S : \A t \in S : t.id = s.id => t.pos <= s.pos}

(* The first of an id: the earlier in the file.                            *)
Deduplicated(S) == {s \in S : \A t \in S : t.id = s.id => s.pos <= t.pos}

IdBelow(i, j) ==
    \/ Alphabet[i.source] < Alphabet[j.source]
    \/ i.source = j.source /\ Alphabet[i.row] < Alphabet[j.row]
    \/ i.source = j.source /\ i.row = j.row /\ Alphabet[i.field] < Alphabet[j.field]

(* NoDate stands for datetime.min here: it is the oldest.                  *)
Newer(s, t) == t.at < s.at \/ (t.at = s.at /\ IdBelow(t.id, s.id))

Bounded(S) == {s \in S : Cardinality({t \in S : Newer(t, s)}) < MaxSignals}

(* Mutant: the window is for keywords as well.                             *)
RetrieveSignalsRecent(rows, crm, first, final, now) ==
    Bounded(Deduplicated(
        TicketExcerpts(first, final) \cup RecentExcerpts(crm, now)
            \cup {s \in KeywordExcerpts(rows) : s.at >= now - RecentWindow}))

(* retrieve_signals.                                                       *)
RetrieveSignals(rows, crm, first, final, now) ==
    Bounded(Deduplicated(TicketExcerpts(first, final) \cup KeywordExcerpts(rows)
                             \cup RecentExcerpts(crm, now)))
=============================================================================
