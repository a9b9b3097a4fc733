--------------------------- MODULE ExcerptProofs ---------------------------
(***************************************************************************)
(* Which excerpts a report shows, from one run to the next: an urgent      *)
(* ticket is shown, an excerpt leaves for a reason, an id keeps its text.  *)
(* The cut by recency is a cut of a total order; what a file has gained    *)
(* since a run stands below the rows the run has seen.                     *)
(***************************************************************************)
EXTENDS EnrichProofs

-----------------------------------------------------------------------------
(* The cut.                                                                *)

Above(S, s) == {t \in S : Newer(t, s)}

Ordered(S) ==
    \A s, t, u \in S : /\ ~Newer(s, s)
                       /\ Newer(s, t) /\ Newer(t, u) => Newer(s, u)
                       /\ s = t \/ Newer(s, t) \/ Newer(t, s)

(* In a total order the number of elements above is a place of one's own.  *)
LEMMA Places ==
    ASSUME NEW S, IsFiniteSet(S), Ordered(S)
    PROVE  /\ \A s \in S : Cardinality(Above(S, s)) \in 0..(Cardinality(S) - 1)
           /\ \A s, t \in S :
                 Newer(s, t) <=> Cardinality(Above(S, s)) < Cardinality(Above(S, t))
           /\ \A n \in 0..(Cardinality(S) - 1) : \E s \in S : Cardinality(Above(S, s)) = n
<1> DEFINE rank == [s \in S |-> Cardinality(Above(S, s))]
           N == Cardinality(S)
<1>1. N \in Nat
  BY FS_CardinalityType
<1>2. ASSUME NEW s \in S
      PROVE  IsFiniteSet(Above(S, s)) /\ Cardinality(Above(S, s)) \in 0..(N - 1)
  <2>1. Above(S, s) \subseteq S \ {s}
    BY DEF Above, Ordered
  <2>2. IsFiniteSet(S \ {s}) /\ Cardinality(S \ {s}) = N - 1
    BY FS_RemoveElement
  <2>3. IsFiniteSet(Above(S, s)) /\ Cardinality(Above(S, s)) <= N - 1
    BY <2>1, <2>2, FS_Subset
  <2>4. Cardinality(Above(S, s)) \in Nat
    BY <2>3, FS_CardinalityType
  <2> QED BY <1>1, <2>3, <2>4
<1>3. ASSUME NEW s \in S, NEW t \in S, Newer(s, t)
      PROVE  Cardinality(Above(S, s)) < Cardinality(Above(S, t))
  <2>1. Above(S, s) \subseteq Above(S, t) \ {s} /\ s \in Above(S, t)
    BY <1>3 DEF Above, Ordered
  <2>2. /\ IsFiniteSet(Above(S, t) \ {s})
        /\ Cardinality(Above(S, t) \ {s}) = Cardinality(Above(S, t)) - 1
    BY <1>2, <2>1, FS_RemoveElement
  <2>3. Cardinality(Above(S, s)) <= Cardinality(Above(S, t)) - 1
    BY <2>1, <2>2, FS_Subset
  <2>4. Cardinality(Above(S, s)) \in Int /\ Cardinality(Above(S, t)) \in Int
    BY <1>1, <1>2
  <2> QED BY <2>3, <2>4
<1>4. ASSUME NEW s \in S, NEW t \in S
      PROVE  Newer(s, t) <=> Cardinality(Above(S, s)) < Cardinality(Above(S, t))
  <2>1. Cardinality(Above(S, s)) \in Int /\ Cardinality(Above(S, t)) \in Int
    BY <1>1, <1>2
  <2>2. s = t \/ Newer(s, t) \/ Newer(t, s)
    BY DEF Ordered
  <2>3. Newer(t, s) => Cardinality(Above(S, t)) < Cardinality(Above(S, s))
    BY <1>3
  <2>4. Newer(s, t) => Cardinality(Above(S, s)) < Cardinality(Above(S, t))
    BY <1>3
  <2> QED BY <2>1, <2>2, <2>3, <2>4
<1>5. \A s, t \in S : rank[s] = rank[t] => s = t
  <2> SUFFICES ASSUME NEW s \in S, NEW t \in S, rank[s] = rank[t] PROVE s = t
    OBVIOUS
  <2>1. ~Newer(s, t) /\ ~Newer(t, s)
    BY <1>1, <1>2, <1>4
  <2> QED BY <2>1 DEF Ordered
<1>6. rank \in [S -> 0..(N - 1)]
  BY <1>2
<1>7. IsFiniteSet(0..(N - 1)) /\ Cardinality(0..(N - 1)) = N
  BY <1>1, FS_Interval
<1>8. rank \in Injection(S, 0..(N - 1))
  BY <1>5, <1>6 DEF Injection, IsInjective
<1>9. rank \in Surjection(S, 0..(N - 1))
  BY <1>7, <1>8, FS_Injection
<1>10. \A n \in 0..(N - 1) : \E s \in S : rank[s] = n
  BY <1>9 DEF Surjection
<1> QED BY <1>2, <1>4, <1>10

(* What is cut off leaves a full bundle of newer excerpts.                 *)
LEMMA Cut ==
    ASSUME NEW S, IsFiniteSet(S), Ordered(S), NEW s \in S, s \notin Bounded(S)
    PROVE  Cardinality(Bounded(S)) = MaxSignals /\ \A t \in Bounded(S) : Newer(t, s)
<1> DEFINE rank(t) == Cardinality(Above(S, t))
           N == Cardinality(S)
           B == Bounded(S)
           g == [t \in B |-> rank(t)]
<1>1. MaxSignals \in Nat /\ N \in Nat
  BY SignalsAssumption, FS_CardinalityType
<1>2. B = {t \in S : rank(t) < MaxSignals}
  BY DEF Bounded, Above
<1>3. \A t \in S : rank(t) \in 0..(N - 1)
  BY Places
<1>4. ~(rank(s) < MaxSignals)
  BY <1>2
<1>5. MaxSignals <= rank(s) /\ MaxSignals <= N - 1
  BY <1>1, <1>3, <1>4
<1>6. \A t \in B : Newer(t, s)
  <2>1. \A t \in B : rank(t) < rank(s)
    BY <1>1, <1>2, <1>3, <1>5
  <2> QED BY <1>2, <2>1, Places
<1>7. \A t \in B : rank(t) \in 0..(MaxSignals - 1)
  BY <1>1, <1>2, <1>3
<1>8. \A n \in 0..(MaxSignals - 1) : \E t \in B : rank(t) = n
  <2> SUFFICES ASSUME NEW n \in 0..(MaxSignals - 1) PROVE \E t \in B : rank(t) = n
    OBVIOUS
  <2>1. n \in 0..(N - 1) /\ n < MaxSignals
    BY <1>1, <1>5
  <2>2. PICK t \in S : rank(t) = n
    BY <2>1, Places
  <2> QED BY <1>2, <2>1, <2>2
<1>9. \A t, u \in B : rank(t) = rank(u) => t = u
  <2> SUFFICES ASSUME NEW t \in B, NEW u \in B, rank(t) = rank(u) PROVE t = u
    OBVIOUS
  <2>1. t \in S /\ u \in S
    BY <1>2
  <2>2. ~Newer(t, u) /\ ~Newer(u, t)
    BY <1>1, <1>3, <2>1, Places
  <2> QED BY <2>1, <2>2 DEF Ordered
<1> HIDE DEF rank, B
<1>10. g \in Bijection(B, 0..(MaxSignals - 1))
  BY <1>7, <1>8, <1>9 DEF Bijection, Injection, IsInjective, Surjection
<1> HIDE DEF g
<1>11. IsFiniteSet(B)
  BY <1>2, FS_Subset
<1>12. Cardinality(0..(MaxSignals - 1)) = Cardinality(B)
  BY <1>10, <1>11, FS_Bijection DEF ExistsBijection
<1>13. Cardinality(0..(MaxSignals - 1)) = MaxSignals
  BY <1>1, FS_Interval
<1> QED BY <1>6, <1>12, <1>13 DEF B

(* Excerpts with ids of their own are in one order: by date, then by id.   *)
IsExcerpt(s) ==
    /\ s.at \in Nat /\ s.id = Id(s.id.source, s.id.row, s.id.field)
    /\ {s.id.source, s.id.row, s.id.field} \subseteq DOMAIN Alphabet

LEMMA ExcerptsAreOrdered ==
    ASSUME NEW S, \A s \in S : IsExcerpt(s), \A s, t \in S : s.id = t.id => s = t
    PROVE  Ordered(S)
<1> SUFFICES ASSUME NEW s \in S, NEW t \in S, NEW u \in S
             PROVE  /\ ~Newer(s, s)
                    /\ Newer(s, t) /\ Newer(t, u) => Newer(s, u)
                    /\ s = t \/ Newer(s, t) \/ Newer(t, s)
  BY DEF Ordered
<1>1. \A x \in S : /\ x.at \in Nat
                   /\ Alphabet[x.id.source] \in Nat /\ Alphabet[x.id.row] \in Nat
                   /\ Alphabet[x.id.field] \in Nat
  BY SignalsAssumption DEF IsExcerpt
<1>2. \A x, y \in S : (/\ Alphabet[x.id.source] = Alphabet[y.id.source]
                       /\ Alphabet[x.id.row] = Alphabet[y.id.row]
                       /\ Alphabet[x.id.field] = Alphabet[y.id.field]) => x = y
  <2> SUFFICES ASSUME NEW x \in S, NEW y \in S,
                      Alphabet[x.id.source] = Alphabet[y.id.source],
                      Alphabet[x.id.row] = Alphabet[y.id.row],
                      Alphabet[x.id.field] = Alphabet[y.id.field]
               PROVE  x = y
    OBVIOUS
  <2>1. /\ x.id.source = y.id.source /\ x.id.row = y.id.row /\ x.id.field = y.id.field
    BY SignalsAssumption DEF IsExcerpt
  <2>2. x.id = y.id
    BY <2>1 DEF IsExcerpt
  <2> QED BY <2>2
<1>3. \A x, y \in S : x.id.source = y.id.source => Alphabet[x.id.source] = Alphabet[y.id.source]
  OBVIOUS
<1>4. \A x, y \in S : Newer(x, y) <=>
         \/ y.at < x.at
         \/ /\ y.at = x.at
            /\ \/ Alphabet[y.id.source] < Alphabet[x.id.source]
               \/ /\ Alphabet[y.id.source] = Alphabet[x.id.source]
                  /\ Alphabet[y.id.row] < Alphabet[x.id.row]
               \/ /\ Alphabet[y.id.source] = Alphabet[x.id.source]
                  /\ Alphabet[y.id.row] = Alphabet[x.id.row]
                  /\ Alphabet[y.id.field] < Alphabet[x.id.field]
  <2>1. \A x, y \in S :
           /\ x.id.source = y.id.source <=> Alphabet[x.id.source] = Alphabet[y.id.source]
           /\ x.id.row = y.id.row <=> Alphabet[x.id.row] = Alphabet[y.id.row]
    BY SignalsAssumption DEF IsExcerpt
  <2> QED BY <2>1 DEF Newer, IdBelow
<1> QED BY <1>1, <1>2, <1>4

-----------------------------------------------------------------------------
(* What the three rules find.                                              *)

Candidates(rows, first, final, day) ==
    TicketExcerpts(first, final) \cup KeywordExcerpts(rows)
        \cup RecentExcerpts({r \in rows : r.source = "crm_interactions"}, day)

(* The row found by a keyword, and the row found because it is recent.     *)
HasKeyword(r, s) ==
    /\ s = Excerpt(Id(r.source, r.id, s.id.field), r)
    /\ r.source \in DOMAIN Fields /\ s.id.field \in r.hits \cap Fields[r.source]

IsRecent(r, s, day) ==
    /\ s = Excerpt(Id(r.source, r.id, "recent"), r)
    /\ r.source = "crm_interactions" /\ r.at # NoDate /\ r.at >= day - RecentWindow

LEMMA FoundByRule ==
    ASSUME NEW rows \in SUBSET (Rows \cup OtherRows), NEW first, NEW final, NEW day,
           NEW s
    PROVE  /\ s \in TicketExcerpts(first, final) => s.id.source = "TKT"
           /\ s \in Candidates(rows, first, final, day) <=>
                 \/ s \in TicketExcerpts(first, final)
                 \/ \E r \in rows : r.source # "TKT" /\ (HasKeyword(r, s) \/ IsRecent(r, s, day))
<1>1. s \in TicketExcerpts(first, final) => s.id.source = "TKT"
  BY DEF TicketExcerpts, Excerpt, Id
<1>2. \A r \in rows : r.source # "TKT"
  BY EnrichAssumption DEF Sources, Policed
<1>3. s \in KeywordExcerpts(rows) <=> \E r \in rows : HasKeyword(r, s)
  <2>1. ASSUME NEW r \in rows, r.source \in DOMAIN Fields, NEW f \in r.hits \cap Fields[r.source],
               s = Excerpt(Id(r.source, r.id, f), r)
        PROVE  HasKeyword(r, s)
    <3>1. s.id.field = f
      BY <2>1 DEF Excerpt, Id
    <3> QED BY <2>1, <3>1 DEF HasKeyword
  <2>2. ASSUME NEW r \in rows, HasKeyword(r, s) PROVE s \in KeywordExcerpts(rows)
    <3>1. s \in {Excerpt(Id(r.source, r.id, f), r) : f \in r.hits \cap Fields[r.source]}
      BY <2>2 DEF HasKeyword
    <3> QED BY <2>2, <3>1 DEF KeywordExcerpts, HasKeyword
  <2>3. ASSUME s \in KeywordExcerpts(rows) PROVE \E r \in rows : HasKeyword(r, s)
    <3>1. PICK r \in {q \in rows : q.source \in DOMAIN Fields} :
              s \in {Excerpt(Id(r.source, r.id, f), r) : f \in r.hits \cap Fields[r.source]}
      BY <2>3 DEF KeywordExcerpts
    <3>2. PICK f \in r.hits \cap Fields[r.source] : s = Excerpt(Id(r.source, r.id, f), r)
      BY <3>1
    <3> QED BY <2>1, <3>1, <3>2
  <2> QED BY <2>2, <2>3
<1>4. s \in RecentExcerpts({r \in rows : r.source = "crm_interactions"}, day) <=>
         \E r \in rows : IsRecent(r, s, day)
  BY DEF RecentExcerpts, IsRecent
<1> QED BY <1>1, <1>2, <1>3, <1>4 DEF Candidates

(* The rows of a context and what the sorts make of its tickets.           *)
TicketsOf(rows) == {r \in rows : r.source = "support_tickets"}

Sorted(rows, first, final) ==
    /\ rows \subseteq Rows \cup OtherRows
    /\ first \in Firsts(TicketsOf(rows)) /\ final \in Finals(TicketsOf(rows))

LEMMA SortedTickets ==
    ASSUME NEW rows, NEW first, NEW final, Sorted(rows, first, final)
    PROVE  /\ DOMAIN first = Tickets(TicketsOf(rows)) /\ DOMAIN final = Tickets(TicketsOf(rows))
           /\ \A t \in DOMAIN first : /\ first[t] \in FirstRows(TicketsOf(rows), t)
                                      /\ final[t] \in LastStatuses(TicketsOf(rows), t)
                                      /\ first[t] \in rows /\ t \in Words
<1>1. DOMAIN first = Tickets(TicketsOf(rows)) /\ DOMAIN final = Tickets(TicketsOf(rows))
  BY DEF Sorted, Firsts, Finals
<1>2. ASSUME NEW t \in DOMAIN first
      PROVE  /\ first[t] \in FirstRows(TicketsOf(rows), t)
             /\ final[t] \in LastStatuses(TicketsOf(rows), t)
  BY <1>1 DEF Sorted, Firsts, Finals
<1>3. ASSUME NEW t \in DOMAIN first PROVE first[t] \in rows /\ t \in Words
  <2>1. first[t] \in rows
    BY <1>2 DEF FirstRows, RowsOf, TicketsOf
  <2>2. PICK r \in rows : r.source = "support_tickets" /\ r.ticket = t
    BY <1>1 DEF Tickets, TicketsOf
  <2>3. r \in OtherRows
    BY <2>2, EnrichAssumption DEF Sorted
  <2> QED BY <2>1, <2>2, <2>3 DEF Words
<1> QED BY <1>1, <1>2, <1>3

(* What is found has a date and an id that can be compared, and there is   *)
(* only so much of it.                                                     *)
LEMMA FoundAreExcerpts ==
    ASSUME NEW rows, NEW first, NEW final, Sorted(rows, first, final), NEW day
    PROVE  /\ IsFiniteSet(Candidates(rows, first, final, day))
           /\ \A s \in Candidates(rows, first, final, day) : IsExcerpt(s) /\ s.pos \in Nat
<1> DEFINE T == TicketExcerpts(first, final)
           K == KeywordExcerpts(rows)
           R == RecentExcerpts({r \in rows : r.source = "crm_interactions"}, day)
<1>1. rows \subseteq Rows \cup OtherRows /\ IsFiniteSet(rows)
  BY EnrichAssumption, FS_Union, FS_Subset DEF Sorted
<1>2. IsFiniteSet(T)
  <2>1. IsFiniteSet(TicketsOf(rows))
    BY <1>1, FS_Subset DEF TicketsOf
  <2> QED BY <2>1, SortedTickets, TicketsAreFinite, TicketExcerptsAreFinite
<1>3. IsFiniteSet(K)
  <2> DEFINE found(r) == {Excerpt(Id(r.source, r.id, f), r) : f \in r.hits \cap Fields[r.source]}
             with  == {q \in rows : q.source \in DOMAIN Fields}
             parts == {found(r) : r \in with}
             g     == [r \in with |-> found(r)]
  <2>1. ASSUME NEW r \in rows PROVE IsFiniteSet(found(r))
    <3> DEFINE H == r.hits \cap Fields[r.source]
               h == [f \in H |-> Excerpt(Id(r.source, r.id, f), r)]
    <3>1. IsFiniteSet(r.hits)
      BY <1>1, EnrichAssumption
    <3>2. IsFiniteSet(H)
      BY <3>1, FS_Subset
    <3>3. h \in Surjection(H, found(r))
      BY DEF Surjection
    <3> QED BY <3>2, <3>3, FS_Surjection
  <2>2. g \in Surjection(with, parts)
    <3> HIDE DEF found
    <3> QED BY DEF Surjection
  <2>3. IsFiniteSet(with)
    BY <1>1, FS_Subset
  <2>4. IsFiniteSet(parts)
    BY <2>2, <2>3, FS_Surjection
  <2> QED BY <2>1, <2>4, FS_UNION DEF KeywordExcerpts
<1>4. IsFiniteSet(R)
  <2> DEFINE recent == {r \in {q \in rows : q.source = "crm_interactions"} :
                          r.at # NoDate /\ r.at >= day - RecentWindow}
             g == [r \in recent |-> Excerpt(Id("crm_interactions", r.id, "recent"), r)]
  <2>1. g \in Surjection(recent, R)
    BY DEF Surjection, RecentExcerpts
  <2>2. IsFiniteSet(recent)
    BY <1>1, FS_Subset
  <2> QED BY <2>1, <2>2, FS_Surjection
<1>5. IsFiniteSet(Candidates(rows, first, final, day))
  BY <1>2, <1>3, <1>4, FS_Union DEF Candidates
<1>6. Words \subseteq DOMAIN Alphabet
  BY EnrichAssumption
<1>7. ASSUME NEW r \in rows
      PROVE  /\ r.at \in Nat /\ r.pos \in Nat
             /\ {r.source, r.id} \cup r.hits \cup {"recent"} \subseteq Words
  <2>1. r \in Rows \cup OtherRows
    BY <1>1
  <2>2. r.source \in Files /\ r.at \in Nat /\ r.pos \in Nat
    BY <2>1, EnrichAssumption DEF Files
  <2> QED BY <2>1, <2>2 DEF Words
<1>8. ASSUME NEW s \in T PROVE IsExcerpt(s) /\ s.pos \in Nat
  <2>1. PICK t \in DOMAIN first : s = Excerpt(Id("TKT", t, "content"), first[t])
    BY <1>8 DEF TicketExcerpts, Urgent
  <2>2. first[t] \in rows /\ t \in Words
    BY SortedTickets
  <2>3. {"TKT", "content"} \subseteq Words
    BY DEF Words
  <2>4. first[t].at \in Nat /\ first[t].pos \in Nat
    BY <1>7, <2>2
  <2>5. /\ s.id.source = "TKT" /\ s.id.row = t /\ s.id.field = "content"
        /\ s.id = Id("TKT", t, "content") /\ s.at = first[t].at /\ s.pos = first[t].pos
    BY <2>1 DEF Excerpt, Id
  <2> QED BY <1>6, <2>2, <2>3, <2>4, <2>5 DEF IsExcerpt
<1>9. ASSUME NEW s, NEW r \in rows, HasKeyword(r, s) \/ IsRecent(r, s, day)
      PROVE  IsExcerpt(s) /\ s.pos \in Nat
  <2>1. /\ s.at = r.at /\ s.pos = r.pos /\ s.id = Id(s.id.source, s.id.row, s.id.field)
        /\ s.id.source = r.source /\ s.id.row = r.id /\ s.id.field \in r.hits \cup {"recent"}
    BY <1>9 DEF HasKeyword, IsRecent, Excerpt, Id
  <2> QED BY <1>6, <1>7, <2>1 DEF IsExcerpt
<1> QED BY <1>1, <1>5, <1>8, <1>9, FoundByRule

Found(rows, first, final, day) == Deduplicated(Candidates(rows, first, final, day))

(* Of two rows an id stands for, one is shown: emails are told apart by    *)
(* their place in the file, other rows have ids of their own.              *)
LEMMA FoundAreDistinct ==
    ASSUME OneRowPerId, NEW rows, NEW first, NEW final, Sorted(rows, first, final), NEW day
    PROVE  /\ IsFiniteSet(Found(rows, first, final, day))
           /\ \A s, t \in Found(rows, first, final, day) : s.id = t.id => s = t
           /\ Ordered(Found(rows, first, final, day))
<1> DEFINE C == Candidates(rows, first, final, day)
           F == Found(rows, first, final, day)
<1>1. F \subseteq C /\ \A s, t \in F : s.id = t.id => s.pos = t.pos
  <2>1. \A s \in C : s.pos \in Nat
    BY FoundAreExcerpts
  <2>2. F \subseteq C /\ \A s, t \in F : s.id = t.id => s.pos <= t.pos /\ t.pos <= s.pos
    BY DEF Found, Deduplicated
  <2> HIDE DEF C, F
  <2> QED BY <2>1, <2>2
<1>2. ASSUME NEW s \in F, NEW t \in F, s.id = t.id PROVE s = t
  <2>1. s \in C /\ t \in C /\ s.pos = t.pos
    BY <1>1, <1>2
  <2>2. rows \in SUBSET (Rows \cup OtherRows)
    BY DEF Sorted
  <2>3. CASE s \in TicketExcerpts(first, final)
    <3>1. t \in TicketExcerpts(first, final)
      <4>1. t.id.source = "TKT"
        BY <1>2, <2>3 DEF TicketExcerpts, Excerpt, Id
      <4>2. \A r \in rows : r.source # "TKT" => ~HasKeyword(r, t) /\ ~IsRecent(r, t, day)
        BY <4>1 DEF HasKeyword, IsRecent, Excerpt, Id
      <4> QED BY <2>1, <2>2, <4>2, FoundByRule
    <3>2. PICK x : s = Excerpt(Id("TKT", x, "content"), first[x])
      BY <2>3 DEF TicketExcerpts
    <3>3. PICK y : t = Excerpt(Id("TKT", y, "content"), first[y])
      BY <3>1 DEF TicketExcerpts
    <3>4. x = y
      BY <1>2, <3>2, <3>3 DEF Excerpt, Id
    <3> QED BY <3>2, <3>3, <3>4
  <2>4. CASE s \notin TicketExcerpts(first, final)
    <3>1. PICK r \in rows : r.source # "TKT" /\ (HasKeyword(r, s) \/ IsRecent(r, s, day))
      BY <2>1, <2>2, <2>4, FoundByRule
    <3>2. s = Excerpt(s.id, r) /\ s.id.source = r.source /\ s.pos = r.pos
      BY <3>1 DEF HasKeyword, IsRecent, Excerpt, Id
    <3>3. t \notin TicketExcerpts(first, final)
      BY <1>2, <3>1, <3>2 DEF TicketExcerpts, Excerpt, Id
    <3>4. PICK q \in rows : q.source # "TKT" /\ (HasKeyword(q, t) \/ IsRecent(q, t, day))
      BY <2>1, <2>2, <3>3, FoundByRule
    <3>5. t = Excerpt(t.id, q) /\ t.id.source = q.source /\ t.pos = q.pos
      BY <3>4 DEF HasKeyword, IsRecent, Excerpt, Id
    <3>6. r = q
      BY <1>2, <2>1, <2>2, <3>2, <3>5 DEF OneRowPerId
    <3> QED BY <1>2, <3>2, <3>5, <3>6
  <2> QED BY <2>3, <2>4
<1>3. IsFiniteSet(F) /\ \A s \in F : IsExcerpt(s)
  BY <1>1, FoundAreExcerpts, FS_Subset
<1> HIDE DEF C, F
<1>4. Ordered(F)
  BY <1>2, <1>3, ExcerptsAreOrdered
<1> QED BY <1>2, <1>3, <1>4 DEF F

-----------------------------------------------------------------------------
(* What a report leaves for the next one.                                  *)

(* The bundle is what the rules find in the rows of the run.               *)
Remembered ==
    report.ready =>
        /\ last.rows \subseteq billing \cup others
        /\ \E first, final, day :
              /\ Sorted(last.rows, first, final)
              /\ report.bundle = Bounded(Found(last.rows, first, final, day))

(* An email of the account that the run has not seen is below the others.  *)
EmailsArriveBelow ==
    report.ready => \A q \in others :
        q.source = "emails" /\ last.account \in q.keys /\ q \notin last.rows =>
            \A r \in last.rows : r.source = "emails" => r.pos < q.pos

LEMMA RunIsRemembered ==
    ASSUME EnrichTypeOK, NEW a \in Accounts, RunEnriches(a)
    PROVE  /\ UNCHANGED <<billing, others>>
           /\ last'.rows \subseteq billing \cup others
           /\ \E first, final :
                 /\ Sorted(last'.rows, first, final)
                 /\ report'.bundle = Bounded(Found(last'.rows, first, final, now))
           /\ \A q \in others : q.source = "emails" /\ a \in q.keys => q \in last'.rows
<1>1. last'.rows \subseteq billing \cup others /\ UNCHANGED <<billing, others>>
  BY ContextIsInFiles DEF RunEnriches, BuildContext
<1>2. last'.rows \subseteq Rows \cup OtherRows
  BY <1>1, RowsAreFinite
<1>3. PICK first \in Firsts(TicketsOf(last'.rows)), final \in Finals(TicketsOf(last'.rows)) :
          report'.bundle = RetrieveSignals(last'.rows,
                              {r \in last'.rows : r.source = "crm_interactions"}, first, final, now)
  BY ReportOfRun DEF TicketsOf
<1>4. Sorted(last'.rows, first, final)
  BY <1>2 DEF Sorted
<1>5. report'.bundle = Bounded(Found(last'.rows, first, final, now))
  BY <1>3 DEF RetrieveSignals, Found, Candidates
<1>6. ASSUME NEW q \in others, q.source = "emails", a \in q.keys PROVE q \in last'.rows
  <2>1. PICK p \in InvoicePrefixes(a) :
            last' = [account |-> a, outcome |-> "built", rows |-> Billing(a, p) \cup Others(a)]
    BY DEF RunEnriches, BuildContext
  <2>2. "emails" \in Sources
    BY DEF Sources, Policed
  <2>3. q \in Others(a)
    BY <1>6, <2>2 DEF Others, Resolved, Keyed
  <2> QED BY <2>1, <2>3
<1> QED BY <1>1, <1>4, <1>5, <1>6

(* A report that is ready is of this run, or of the last one as it was.    *)
LEMMA ReportStaysOrIsNew ==
    ASSUME [EnrichNext]_enrichVars, report'.ready
    PROVE  \/ \E a \in Accounts : RunEnriches(a)
           \/ /\ report' = report /\ last' = last
              /\ billing \subseteq billing' /\ others \subseteq others'
<1>1. ASSUME NEW a, RunRaises(a) PROVE FALSE
  BY <1>1 DEF RunRaises, NoReport
<1> QED BY <1>1 DEF EnrichNext, enrichVars, BookRow, Book, AppendRow, Append, Garble, Confirm,
                    AddName, NextDay

LEMMA StepKeepsRemembered ==
    ASSUME EnrichTypeOK, Remembered, [EnrichNext]_enrichVars
    PROVE  Remembered'
<1>1. ASSUME NEW a \in Accounts, RunEnriches(a) PROVE Remembered'
  <2>1. /\ UNCHANGED <<billing, others>> /\ last'.rows \subseteq billing \cup others
        /\ \E first, final :
                 /\ Sorted(last'.rows, first, final)
                 /\ report'.bundle = Bounded(Found(last'.rows, first, final, now))
    BY <1>1, RunIsRemembered
  <2> QED BY <2>1 DEF Remembered
<1>2. CASE /\ report' = report /\ last' = last
           /\ billing \subseteq billing' /\ others \subseteq others'
  BY <1>2 DEF Remembered
<1>3. CASE ~report'.ready
  BY <1>3 DEF Remembered
<1> QED BY <1>1, <1>2, <1>3, ReportStaysOrIsNew

LEMMA StepKeepsEmailsBelow ==
    ASSUME EnrichTypeOK, Remembered, EmailsArriveBelow, [EnrichNext]_enrichVars
    PROVE  EmailsArriveBelow'
<1>1. ASSUME NEW a \in Accounts, RunEnriches(a) PROVE EmailsArriveBelow'
  BY <1>1, RunIsRemembered, ContextIsInFiles DEF EmailsArriveBelow, RunEnriches
<1>2. CASE report' = report /\ last' = last /\ report.ready /\ others' = others
  BY <1>2 DEF EmailsArriveBelow
<1>3. ASSUME NEW q \in OtherRows, AppendRow(q), report.ready PROVE EmailsArriveBelow'
  <2>1. /\ report' = report /\ last' = last /\ others' = others \cup {q}
        /\ \A r \in File(q.source) : r.pos < q.pos
    BY <1>3 DEF AppendRow, Append, AtEnd
  <2>2. q.source = "emails" => \A r \in last.rows : r.source = "emails" => r.pos < q.pos
    BY <1>3, <2>1 DEF Remembered, File
  <2> QED BY <1>3, <2>1, <2>2 DEF EmailsArriveBelow
<1>4. CASE ~report'.ready
  BY <1>4 DEF EmailsArriveBelow
<1>5. ASSUME NEW a, RunRaises(a) PROVE EmailsArriveBelow'
  BY <1>5 DEF RunRaises, NoReport, EmailsArriveBelow
<1> QED BY <1>1, <1>2, <1>3, <1>4, <1>5
        DEF EnrichNext, enrichVars, BookRow, Book, Garble, Confirm, AddName, NextDay, AppendRow

(* A run for the account of a report has the rows the report was made of.  *)
LEMMA RunKeepsRows ==
    ASSUME OneCode, Strict, EnrichTypeOK, StillBuilds, report.ready,
           NEW a \in Accounts, RunEnriches(a), last'.account = last.account
    PROVE  last.rows \subseteq last'.rows
<1>1. TypeOK /\ last.outcome = "built"
  BY DEF EnrichTypeOK
<1>2. Next
  BY DEF RunEnriches, Next
<1> QED BY <1>1, <1>2, StepKeeps DEF Kept

(* A ticket that is not restated has one first row and one status, the     *)
(* same to both runs.                                                      *)
LEMMA TicketIsTheSame ==
    ASSUME last.rows \subseteq last'.rows, NEW t, ~Restated(t),
           NEW f \in FirstRows(TicketsOf(last.rows), t),
           NEW g \in FirstRows(TicketsOf(last'.rows), t),
           NEW m \in LastStatuses(TicketsOf(last.rows), t),
           NEW n \in LastStatuses(TicketsOf(last'.rows), t)
    PROVE  f = g /\ m = n
<1> DEFINE old == RowsOf(TicketsOf(last.rows), t)
           new == RowsOf(TicketsOf(last'.rows), t)
<1>1. \A q \in new : q \in last.rows /\ \A r \in new : q = r \/ Before(q, r) \/ Before(r, q)
  BY DEF Restated, TicketsOf
<1>2. new = old
  BY <1>1 DEF RowsOf, TicketsOf
<1>3. f = g
  BY <1>1, <1>2 DEF FirstRows
<1>4. StatusChanges(TicketsOf(last.rows), t) = StatusChanges(TicketsOf(last'.rows), t)
  BY <1>2 DEF StatusChanges
<1> DEFINE S == StatusChanges(TicketsOf(last'.rows), t)
<1>5. CASE S = {}
  BY <1>3, <1>4, <1>5 DEF LastStatuses
<1>6. CASE S # {}
  <2>1. PICK c \in S : m = c.status /\ \A d \in S : ~Before(c, d)
    BY <1>4, <1>6 DEF LastStatuses
  <2>2. PICK d \in S : n = d.status /\ \A e \in S : ~Before(d, e)
    BY <1>6 DEF LastStatuses
  <2>3. c = d
    BY <1>1, <2>1, <2>2 DEF StatusChanges
  <2> QED BY <1>3, <2>1, <2>2, <2>3
<1> QED BY <1>3, <1>5, <1>6

(* Under these policies, the emails of a context are the account's.        *)
LEMMA EmailsAreKeyed ==
    ASSUME Strict, EnrichTypeOK, NEW a \in Accounts, RunEnriches(a),
           NEW q \in last'.rows, q.source = "emails"
    PROVE  q \in others /\ a \in q.keys
<1>1. PICK p \in InvoicePrefixes(a) :
          last' = [account |-> a, outcome |-> "built", rows |-> Billing(a, p) \cup Others(a)]
  BY DEF RunEnriches, BuildContext
<1>2. q \notin Billing(a, p)
  <2>1. \A r \in billing : r.source = "billing"
    BY EnrichAssumption DEF EnrichTypeOK, TypeOK
  <2> QED BY <2>1 DEF Billing
<1>3. PICK src \in Sources : q \in Resolved(a, src)
  BY <1>1, <1>2, OthersAreResolved
<1> QED BY <1>3 DEF Resolved, Keyed

(* What was found for the last report is found again, unless its ticket is *)
(* restated or its day is over.                                            *)
LEMMA FoundAgain ==
    ASSUME OneCode, Strict, OneRowPerId, EnrichTypeOK, StillBuilds, Remembered,
           EmailsArriveBelow, report.ready,
           NEW a \in Accounts, RunEnriches(a), last'.account = last.account,
           NEW first, NEW final, NEW day, Sorted(last.rows, first, final),
           NEW first2, NEW final2, Sorted(last'.rows, first2, final2),
           NEW s \in Found(last.rows, first, final, day)
    PROVE  \/ s \in Found(last'.rows, first2, final2, now)
           \/ s.id.source = "TKT" /\ Restated(s.id.row)
           \/ /\ s.id.field = "recent" /\ s.at < now - RecentWindow
              /\ \A t \in Found(last'.rows, first2, final2, now) : t.id = s.id => t = s
<1> DEFINE C == Candidates(last.rows, first, final, day)
           D == Candidates(last'.rows, first2, final2, now)
<1>1. last.rows \subseteq last'.rows /\ last.account = a
  BY RunKeepsRows, ContextIsInFiles DEF RunEnriches
<1>2. last.rows \in SUBSET (Rows \cup OtherRows) /\ last'.rows \in SUBSET (Rows \cup OtherRows)
  BY DEF Sorted
<1>3. s \in C /\ \A t \in C : t.id = s.id => s.pos <= t.pos
  BY DEF Found, Deduplicated
<1>4. \A t \in C \cup D : t.pos \in Nat
  BY FoundAreExcerpts
<1>5. Found(last'.rows, first2, final2, now)
        = {t \in D : \A u \in D : u.id = t.id => t.pos <= u.pos}
  BY DEF Found, Deduplicated
<1>6. CASE s \in TicketExcerpts(first, final) /\ ~Restated(s.id.row)
  <2>1. PICK x \in DOMAIN first : /\ s = Excerpt(Id("TKT", x, "content"), first[x])
                                  /\ x \in Urgent(first, final)
    BY <1>6 DEF TicketExcerpts, Urgent
  <2>2. s.id.row = x /\ s.id.source = "TKT"
    BY <2>1 DEF Excerpt, Id
  <2>3. x \in DOMAIN first2
    <3>1. x \in Tickets(TicketsOf(last.rows)) /\ DOMAIN first2 = Tickets(TicketsOf(last'.rows))
      BY <2>1, SortedTickets
    <3> QED BY <1>1, <3>1 DEF Tickets, TicketsOf
  <2>4. first[x] = first2[x] /\ final[x] = final2[x]
    BY <1>1, <1>6, <2>2, <2>3, SortedTickets, TicketIsTheSame
  <2>5. x \in Urgent(first2, final2)
    BY <2>1, <2>3, <2>4 DEF Urgent
  <2>6. s \in TicketExcerpts(first2, final2)
    BY <2>1, <2>4, <2>5 DEF TicketExcerpts
  <2>7. s \in D
    BY <2>6 DEF Candidates
  <2>8. ASSUME NEW u \in D, u.id = s.id PROVE u = s
    <3>1. \A r : r.source # "TKT" => ~HasKeyword(r, u) /\ ~IsRecent(r, u, now)
      BY <2>2, <2>8 DEF HasKeyword, IsRecent, Excerpt, Id
    <3>2. u \in TicketExcerpts(first2, final2)
      BY <1>2, <2>8, <3>1, FoundByRule
    <3>3. PICK y : u = Excerpt(Id("TKT", y, "content"), first2[y])
      BY <3>2 DEF TicketExcerpts
    <3>4. x = y
      BY <2>1, <2>8, <3>3 DEF Excerpt, Id
    <3> QED BY <2>1, <2>4, <3>3, <3>4
  <2> QED BY <1>4, <1>5, <2>7, <2>8
<1>7. CASE s \in TicketExcerpts(first, final) /\ Restated(s.id.row)
  BY <1>7 DEF TicketExcerpts, Excerpt, Id
<1>8. CASE s \notin TicketExcerpts(first, final)
  <2>1. PICK r \in last.rows : r.source # "TKT" /\ (HasKeyword(r, s) \/ IsRecent(r, s, day))
    BY <1>2, <1>3, <1>8, FoundByRule
  <2>2. /\ s = Excerpt(s.id, r) /\ s.id.source = r.source /\ s.id.row = r.id
        /\ s.pos = r.pos /\ s.at = r.at /\ r \in last'.rows /\ r \in Rows \cup OtherRows
    BY <1>1, <1>2, <2>1 DEF HasKeyword, IsRecent, Excerpt, Id
  <2>3. ASSUME NEW u \in D, u.id = s.id
        PROVE  \E q \in last'.rows : /\ HasKeyword(q, u) \/ IsRecent(q, u, now)
                                     /\ u = Excerpt(s.id, q)
                                     /\ q.source = r.source /\ q.id = r.id /\ u.pos = q.pos
    <3>1. u \notin TicketExcerpts(first2, final2)
      BY <2>1, <2>2, <2>3 DEF TicketExcerpts, Excerpt, Id
    <3>2. PICK q \in last'.rows : HasKeyword(q, u) \/ IsRecent(q, u, now)
      BY <1>2, <2>3, <3>1, FoundByRule
    <3>3. u = Excerpt(u.id, q) /\ u.id.source = q.source /\ u.id.row = q.id /\ u.pos = q.pos
      BY <3>2 DEF HasKeyword, IsRecent, Excerpt, Id
    <3> QED BY <2>2, <2>3, <3>2, <3>3
  <2>4. ASSUME NEW u \in D, u.id = s.id PROVE s.pos <= u.pos
    <3>1. PICK q \in last'.rows : /\ HasKeyword(q, u) \/ IsRecent(q, u, now)
                                  /\ u = Excerpt(s.id, q)
                                  /\ q.source = r.source /\ q.id = r.id /\ u.pos = q.pos
      BY <2>3, <2>4
    <3>2. q \in Rows \cup OtherRows
      BY <1>2
    <3>3. CASE r.source # "emails"
      <4>1. q = r
        BY <2>2, <3>1, <3>2, <3>3 DEF OneRowPerId
      <4> QED BY <1>4, <2>2, <2>4, <3>1, <4>1
    <3>4. CASE r.source = "emails" /\ q \in last.rows
      <4>1. HasKeyword(q, u)
        BY <3>1, <3>4 DEF IsRecent
      <4>2. u \in C
        BY <1>2, <3>1, <3>4, <4>1, FoundByRule
      <4> QED BY <1>3, <2>4, <4>2
    <3>5. CASE r.source = "emails" /\ q \notin last.rows
      <4>1. q \in others /\ a \in q.keys
        BY <3>1, <3>5, EmailsAreKeyed
      <4>2. r.pos < q.pos
        BY <1>1, <2>1, <3>1, <3>5, <4>1 DEF EmailsArriveBelow
      <4>3. r.pos \in Nat /\ q.pos \in Nat
        BY <2>2, <3>2, EnrichAssumption
      <4> QED BY <2>2, <3>1, <4>2, <4>3
    <3> QED BY <3>3, <3>4, <3>5
  <2>5. CASE s \in D
    BY <1>5, <2>4, <2>5
  <2>6. CASE s \notin D
    <3>1. IsRecent(r, s, day) /\ ~HasKeyword(r, s) /\ ~IsRecent(r, s, now)
      BY <1>2, <2>1, <2>2, <2>6, FoundByRule
    <3>2. /\ s.id.field = "recent" /\ r.source = "crm_interactions"
          /\ ~(r.at >= now - RecentWindow)
      BY <3>1 DEF IsRecent, Excerpt, Id
    <3>3. s.at < now - RecentWindow
      <4>1. r.at \in Nat /\ now \in Nat /\ RecentWindow \in Nat
        BY <2>2, EnrichAssumption, SignalsAssumption DEF EnrichTypeOK
      <4> QED BY <2>2, <3>2, <4>1
    <3>4. ASSUME NEW u \in Found(last'.rows, first2, final2, now), u.id = s.id PROVE u = s
      <4>1. u \in D
        BY <1>5
      <4>2. PICK q \in last'.rows : u = Excerpt(s.id, q) /\ q.source = r.source /\ q.id = r.id
        BY <2>3, <3>4, <4>1
      <4>3. q = r
        BY <1>2, <2>2, <3>2, <4>2 DEF OneRowPerId
      <4> QED BY <2>2, <4>2, <4>3
    <3> QED BY <3>2, <3>3, <3>4
  <2> QED BY <2>5, <2>6
<1> QED BY <1>6, <1>7, <1>8

-----------------------------------------------------------------------------
(* Bundles.                                                                *)

(* What the next two theorems know of the states they are about.           *)
LEMMA ExcerptFacts ==
    ASSUME OneCode, Strict
    PROVE  EnrichSpec => [](EnrichTypeOK /\ StillBuilds /\ Remembered /\ EmailsArriveBelow)
<1>1. EnrichInit => StillBuilds /\ Remembered /\ EmailsArriveBelow
  BY DEF EnrichInit, NoReport, StillBuilds, Remembered, EmailsArriveBelow
<1>2. EnrichTypeOK /\ EnrichTypeOK' /\ StillBuilds /\ [EnrichNext]_enrichVars => StillBuilds'
  BY EnrichStepIsStep, StepStillBuilds DEF EnrichTypeOK
<1>3. EnrichTypeOK /\ Remembered /\ [EnrichNext]_enrichVars => Remembered'
  BY StepKeepsRemembered
<1>4. EnrichTypeOK /\ Remembered /\ EmailsArriveBelow /\ [EnrichNext]_enrichVars
        => EmailsArriveBelow'
  BY StepKeepsEmailsBelow
<1> QED BY <1>1, <1>2, <1>3, <1>4, EnrichTypeCorrect, PTL DEF EnrichSpec

(* An excerpt of one report is in the next one of the customer unless its  *)
(* ticket was restated, its day is over, or as many newer excerpts as fit  *)
(* took the places: for every size of the bundle and of the window.        *)
THEOREM ExcerptsStay ==
    ASSUME OneCode, Strict, OneRowPerId
    PROVE  EnrichSpec => ExcerptsLeaveForAReason
<1> DEFINE Stay == report.ready /\ report'.ready /\ last'.account = last.account =>
         \A s \in report.bundle :
            \/ \E t \in report'.bundle : t.id = s.id
            \/ s.id.source = "TKT" /\ Restated(s.id.row)
            \/ s.id.field = "recent" /\ s.at < now - RecentWindow
            \/ /\ Cardinality(report'.bundle) = MaxSignals
               /\ \A t \in report'.bundle : Newer(t, s)
<1>1. EnrichTypeOK /\ StillBuilds /\ Remembered /\ EmailsArriveBelow /\ [EnrichNext]_enrichVars
        => [Stay]_enrichVars
  <2> SUFFICES ASSUME EnrichTypeOK, StillBuilds, Remembered, EmailsArriveBelow, EnrichNext,
                      report.ready, report'.ready, last'.account = last.account,
                      NEW s \in report.bundle
               PROVE  \/ \E t \in report'.bundle : t.id = s.id
                      \/ s.id.source = "TKT" /\ Restated(s.id.row)
                      \/ s.id.field = "recent" /\ s.at < now - RecentWindow
                      \/ /\ Cardinality(report'.bundle) = MaxSignals
                         /\ \A t \in report'.bundle : Newer(t, s)
    OBVIOUS
  <2>1. CASE report' = report
    BY <2>1
  <2>2. CASE \E a \in Accounts : RunEnriches(a)
    <3>1. PICK a \in Accounts : RunEnriches(a)
      BY <2>2
    <3>2. PICK first, final, day : /\ Sorted(last.rows, first, final)
                                   /\ report.bundle = Bounded(Found(last.rows, first, final, day))
      BY DEF Remembered
    <3>3. PICK first2, final2 :
              /\ Sorted(last'.rows, first2, final2)
              /\ report'.bundle = Bounded(Found(last'.rows, first2, final2, now))
      BY <3>1, RunIsRemembered
    <3>4. s \in Found(last.rows, first, final, day)
      BY <3>2 DEF Bounded
    <3>5. \/ s \in Found(last'.rows, first2, final2, now)
          \/ s.id.source = "TKT" /\ Restated(s.id.row)
          \/ s.id.field = "recent" /\ s.at < now - RecentWindow
      BY <3>1, <3>2, <3>3, <3>4, FoundAgain
    <3>6. CASE s \in Found(last'.rows, first2, final2, now)
      <4>1. CASE s \in report'.bundle
        BY <4>1
      <4>2. CASE s \notin report'.bundle
        BY <3>3, <3>6, <4>2, FoundAreDistinct, Cut
      <4> QED BY <4>1, <4>2
    <3> QED BY <3>5, <3>6
  <2> QED BY <2>1, <2>2, ReportStaysOrIsNew
<1> QED BY <1>1, ExcerptFacts, PTL DEF EnrichSpec, ExcerptsLeaveForAReason

(* An id two reports of a customer have in common stands for one text,     *)
(* unless its ticket was restated: the later of two emails that share an   *)
(* id never takes the place of the earlier.                                *)
THEOREM IdsKeepTexts ==
    ASSUME OneCode, Strict, OneRowPerId
    PROVE  EnrichSpec => IdsKeepTheirText
<1> DEFINE Keep == report.ready /\ report'.ready /\ last'.account = last.account =>
         \A s \in report.bundle, t \in report'.bundle :
            s.id = t.id => s = t \/ (s.id.source = "TKT" /\ Restated(s.id.row))
<1>1. EnrichTypeOK /\ StillBuilds /\ Remembered /\ EmailsArriveBelow /\ [EnrichNext]_enrichVars
        => [Keep]_enrichVars
  <2> SUFFICES ASSUME EnrichTypeOK, StillBuilds, Remembered, EmailsArriveBelow, EnrichNext,
                      report.ready, report'.ready, last'.account = last.account,
                      NEW s \in report.bundle, NEW t \in report'.bundle, s.id = t.id
               PROVE  s = t \/ (s.id.source = "TKT" /\ Restated(s.id.row))
    OBVIOUS
  <2>1. PICK first, final, day : /\ Sorted(last.rows, first, final)
                                 /\ report.bundle = Bounded(Found(last.rows, first, final, day))
    BY DEF Remembered
  <2>2. s \in Found(last.rows, first, final, day)
    BY <2>1 DEF Bounded
  <2>3. CASE report' = report
    <3>1. t \in Found(last.rows, first, final, day)
      BY <2>1, <2>3 DEF Bounded
    <3> QED BY <2>1, <2>2, <3>1, FoundAreDistinct
  <2>4. CASE \E a \in Accounts : RunEnriches(a)
    <3>1. PICK a \in Accounts : RunEnriches(a)
      BY <2>4
    <3>2. PICK first2, final2 :
              /\ Sorted(last'.rows, first2, final2)
              /\ report'.bundle = Bounded(Found(last'.rows, first2, final2, now))
      BY <3>1, RunIsRemembered
    <3>3. t \in Found(last'.rows, first2, final2, now)
      BY <3>2 DEF Bounded
    <3>4. \/ s \in Found(last'.rows, first2, final2, now)
          \/ s.id.source = "TKT" /\ Restated(s.id.row)
          \/ s = t
      BY <2>1, <2>2, <3>1, <3>2, <3>3, FoundAgain
    <3>5. CASE s \in Found(last'.rows, first2, final2, now)
      BY <3>2, <3>3, <3>5, FoundAreDistinct
    <3> QED BY <3>4, <3>5
  <2> QED BY <2>3, <2>4, ReportStaysOrIsNew
<1> QED BY <1>1, ExcerptFacts, PTL DEF EnrichSpec, IdsKeepTheirText

(* A ticket that was urgent when it was opened and whose status nobody has *)
(* changed is in the bundle, or as many newer excerpts as fit are, whatever*)
(* the order of its rows in the file.                                      *)
THEOREM UrgentIsShown ==
    ASSUME OneRowPerId
    PROVE  EnrichSpec => UrgentTicketIsShown
<1> DEFINE Show == report' # report /\ report'.ready =>
         \A c \in File("support_tickets") :
            /\ c.ticket # "none" /\ last'.account \in c.keys
            /\ c.priority \in {"critical", "high"}
            /\ \A r \in RowsOf(File("support_tickets"), c.ticket) :
                  r.kind # "status_change" /\ (r = c \/ Before(c, r))
            => LET shown == Excerpt(Id("TKT", c.ticket, "content"), c)
               IN  \/ shown \in report'.bundle
                   \/ /\ Cardinality(report'.bundle) = MaxSignals
                      /\ \A s \in report'.bundle : Newer(s, shown)
<1>1. EnrichTypeOK /\ [EnrichNext]_enrichVars => [Show]_enrichVars
  <2> SUFFICES ASSUME EnrichTypeOK, EnrichNext, report' # report, report'.ready,
                      NEW c \in File("support_tickets"), c.ticket # "none",
                      last'.account \in c.keys, c.priority \in {"critical", "high"},
                      \A r \in RowsOf(File("support_tickets"), c.ticket) :
                         r.kind # "status_change" /\ (r = c \/ Before(c, r)),
                      NEW shown, shown = Excerpt(Id("TKT", c.ticket, "content"), c)
               PROVE  \/ shown \in report'.bundle
                      \/ /\ Cardinality(report'.bundle) = MaxSignals
                         /\ \A s \in report'.bundle : Newer(s, shown)
    OBVIOUS
  <2>1. PICK a \in Accounts : RunEnriches(a)
    BY ReportsAreOfRuns
  <2>2. PICK first, final : /\ Sorted(last'.rows, first, final)
                            /\ report'.bundle = Bounded(Found(last'.rows, first, final, now))
    BY <2>1, RunIsRemembered
  <2>3. RowsOf(TicketsOf(last'.rows), c.ticket) = RowsOf(File("support_tickets"), c.ticket)
    <3>1. last'.account = a /\ last'.rows \subseteq billing \cup others
      BY <2>1, ContextIsInFiles DEF RunEnriches
    <3>2. PICK p \in InvoicePrefixes(a) :
              last' = [account |-> a, outcome |-> "built", rows |-> Billing(a, p) \cup Others(a)]
      BY <2>1 DEF RunEnriches, BuildContext
    <3>3. \A r \in billing : r.source # "support_tickets"
      BY EnrichAssumption DEF EnrichTypeOK, TypeOK
    <3>4. c \in others /\ Keyed(a, c)
      BY <3>1, <3>3 DEF File, Keyed
    <3>5. ASSUME NEW r \in File("support_tickets"), r.ticket = c.ticket PROVE r \in last'.rows
      <4>1. r \in Resolved(a, "support_tickets")
        BY <3>3, <3>4, <3>5 DEF Resolved, File
      <4>2. r \in others /\ r.source = "support_tickets"
        BY <3>3, <3>5 DEF File
      <4>3. r \in Others(a)
        BY <4>1, <4>2 DEF Others, Sources, Policed
      <4> QED BY <3>2, <4>3
    <3> QED BY <3>1, <3>5 DEF RowsOf, TicketsOf, File
  <2>4. c \in RowsOf(TicketsOf(last'.rows), c.ticket)
    BY <2>3 DEF RowsOf
  <2>5. c.ticket \in DOMAIN first
    <3>1. c.ticket \in Tickets(TicketsOf(last'.rows))
      BY <2>4 DEF Tickets, RowsOf
    <3> QED BY <2>2, <3>1, SortedTickets
  <2>6. first[c.ticket] = c
    <3>1. first[c.ticket] \in FirstRows(TicketsOf(last'.rows), c.ticket)
      BY <2>2, <2>5, SortedTickets
    <3> QED BY <2>3, <2>4, <3>1 DEF FirstRows
  <2>7. final[c.ticket] = "open"
    <3>1. final[c.ticket] \in LastStatuses(TicketsOf(last'.rows), c.ticket)
      BY <2>2, <2>5, SortedTickets
    <3>2. StatusChanges(TicketsOf(last'.rows), c.ticket) = {}
      BY <2>3 DEF StatusChanges
    <3> QED BY <3>1, <3>2 DEF LastStatuses
  <2>8. shown \in TicketExcerpts(first, final)
    BY <2>5, <2>6, <2>7 DEF TicketExcerpts, Urgent
  <2> DEFINE C == Candidates(last'.rows, first, final, now)
  <2>9. shown \in C /\ \A u \in C : u.id = shown.id => u = shown
    <3>1. shown \in C
      BY <2>8 DEF Candidates
    <3>2. ASSUME NEW u \in C, u.id = shown.id PROVE u = shown
      <4>1. shown.id.source = "TKT"
        BY DEF Excerpt, Id
      <4>2. \A r : r.source # "TKT" => ~HasKeyword(r, u) /\ ~IsRecent(r, u, now)
        BY <3>2, <4>1 DEF HasKeyword, IsRecent, Excerpt, Id
      <4>3. last'.rows \in SUBSET (Rows \cup OtherRows)
        BY <2>2 DEF Sorted
      <4>4. u \in TicketExcerpts(first, final)
        BY <3>2, <4>2, <4>3, FoundByRule
      <4>5. PICK y : u = Excerpt(Id("TKT", y, "content"), first[y])
        BY <4>4 DEF TicketExcerpts
      <4>6. y = c.ticket
        BY <3>2, <4>5 DEF Excerpt, Id
      <4> QED BY <2>6, <4>5, <4>6
    <3> QED BY <3>1, <3>2
  <2>10. shown \in Found(last'.rows, first, final, now)
    <3>1. shown.pos \in Nat
      BY <2>2, <2>9, FoundAreExcerpts
    <3> HIDE DEF C
    <3>2. shown \in Deduplicated(C)
      BY <2>9, <3>1 DEF Deduplicated
    <3> QED BY <3>2 DEF Found, C
  <2> QED BY <2>2, <2>10, FoundAreDistinct, Cut
<1> QED BY <1>1, EnrichTypeCorrect, PTL DEF EnrichSpec, UrgentTicketIsShown

-----------------------------------------------------------------------------
(* The status of tickets.                                                  *)

(* The statuses of a report are those of the rows of its run.              *)
Counted ==
    report.ready => /\ last.rows \subseteq Rows \cup OtherRows
                    /\ report.final \in Finals(TicketsOf(last.rows))
                    /\ report.open = OpenTickets(report.final)

LEMMA StepKeepsCounted ==
    ASSUME EnrichTypeOK, Counted, [EnrichNext]_enrichVars
    PROVE  Counted'
<1>1. ASSUME NEW a \in Accounts, RunEnriches(a) PROVE Counted'
  <2>1. last'.rows \subseteq Rows \cup OtherRows
    BY <1>1, ContextIsInFiles, RowsAreFinite DEF RunEnriches
  <2> QED BY <1>1, <2>1, ReportOfRun DEF Counted, TicketsOf
<1>2. CASE report' = report /\ last' = last
  BY <1>2 DEF Counted
<1>3. CASE ~report'.ready
  BY <1>3 DEF Counted
<1> QED BY <1>1, <1>2, <1>3, ReportStaysOrIsNew

(* Without a new or a tied change the last status is what it was.          *)
LEMMA StatusIsTheSame ==
    ASSUME last.rows \subseteq last'.rows, NEW t, ~StatusMoved(t),
           NEW m \in LastStatuses(TicketsOf(last.rows), t),
           NEW n \in LastStatuses(TicketsOf(last'.rows), t)
    PROVE  m = n
<1> DEFINE S == StatusChanges(TicketsOf(last'.rows), t)
<1>1. \A q \in S : q \in last.rows /\ \A r \in S : q = r \/ Before(q, r) \/ Before(r, q)
  BY DEF StatusMoved, StatusChanges, RowsOf, TicketsOf
<1>2. StatusChanges(TicketsOf(last.rows), t) = S
  BY <1>1 DEF StatusChanges, RowsOf, TicketsOf
<1>3. CASE S = {}
  BY <1>2, <1>3 DEF LastStatuses
<1>4. CASE S # {}
  <2>1. PICK c \in S : m = c.status /\ \A d \in S : ~Before(c, d)
    BY <1>2, <1>4 DEF LastStatuses
  <2>2. PICK d \in S : n = d.status /\ \A e \in S : ~Before(d, e)
    BY <1>4 DEF LastStatuses
  <2>3. c = d
    BY <1>1, <2>1, <2>2
  <2> QED BY <2>1, <2>2, <2>3
<1> QED BY <1>3, <1>4

(* A ticket once counted is counted in every later report of the customer, *)
(* with the status it had unless a change of it came since or two changes  *)
(* have one date; and only such a change takes one off the open tickets.   *)
THEOREM StatusesAreKept ==
    ASSUME OneCode, Strict
    PROVE  EnrichSpec => StatusMovesForAReason
<1> DEFINE Same == report.ready /\ report'.ready /\ last'.account = last.account =>
         /\ \A t \in DOMAIN report.final :
               /\ t \in DOMAIN report'.final
               /\ report'.final[t] = report.final[t] \/ StatusMoved(t)
         /\ report.open <= report'.open \/ \E t \in DOMAIN report.final : StatusMoved(t)
<1>1. EnrichInit => Counted
  BY DEF EnrichInit, NoReport, Counted
<1>2. EnrichTypeOK /\ StillBuilds /\ Counted /\ Counted' /\ [EnrichNext]_enrichVars
        => [Same]_enrichVars
  <2> SUFFICES ASSUME EnrichTypeOK, StillBuilds, Counted, Counted', EnrichNext,
                      report.ready, report'.ready, last'.account = last.account
               PROVE  Same
    OBVIOUS
  <2> DEFINE D == DOMAIN report.final
             E == DOMAIN report'.final
  <2>1. /\ IsFiniteSet(TicketsOf(last.rows)) /\ IsFiniteSet(TicketsOf(last'.rows))
        /\ report.open = OpenTickets(report.final) /\ report'.open = OpenTickets(report'.final)
    BY EnrichAssumption, FS_Union, FS_Subset DEF Counted, TicketsOf
  <2>2. /\ D = Tickets(TicketsOf(last.rows)) /\ E = Tickets(TicketsOf(last'.rows))
        /\ \A t \in D : report.final[t] \in LastStatuses(TicketsOf(last.rows), t)
        /\ \A t \in E : report'.final[t] \in LastStatuses(TicketsOf(last'.rows), t)
    BY DEF Counted, Finals
  <2>3. IsFiniteSet(D) /\ IsFiniteSet(E)
    BY <2>1, <2>2, TicketsAreFinite
  <2>4. CASE last.rows \subseteq last'.rows
    <3>1. D \subseteq E
      BY <2>2, <2>4 DEF Tickets, TicketsOf
    <3>2. ASSUME NEW t \in D, ~StatusMoved(t) PROVE report'.final[t] = report.final[t]
      BY <2>2, <2>4, <3>1, <3>2, StatusIsTheSame
    <3>3. ASSUME \A t \in D : ~StatusMoved(t) PROVE report.open <= report'.open
      <4> DEFINE U == D \ ResolvedTickets(report.final)
                 V == E \ ResolvedTickets(report'.final)
      <4>1. U \subseteq V
        BY <3>1, <3>2, <3>3 DEF ResolvedTickets
      <4>2. IsFiniteSet(V)
        BY <2>3, FS_Subset
      <4>3. report.open = Cardinality(U) /\ report'.open = Cardinality(V)
        BY <2>1, <2>3, OpenIsNotResolved
      <4> HIDE DEF U, V
      <4> QED BY <4>1, <4>2, <4>3, FS_Subset
    <3> QED BY <3>1, <3>2, <3>3
  <2>5. CASE report' = report /\ last' = last
    BY <2>4, <2>5
  <2>6. ASSUME NEW a \in Accounts, RunEnriches(a) PROVE Same
    BY <2>4, <2>6, RunKeepsRows
  <2> HIDE DEF Same
  <2> QED BY <2>5, <2>6, ReportStaysOrIsNew
<1> QED BY <1>1, <1>2, StepKeepsCounted, ExcerptFacts, PTL DEF EnrichSpec, StatusMovesForAReason
=============================================================================
