----------------------------- MODULE Canonical -----------------------------
(***************************************************************************)
(* src/challenge/ingest/canonical.py: one categorical column is brought to *)
(* the names its rule file knows.  A rule has the known names and the      *)
(* aliases people have confirmed; the policy for similar names is fixed.   *)
(* Spellings are abstracted to their length and to how similar two are.    *)
(***************************************************************************)
EXTENDS Integers, FiniteSets

CONSTANTS
    Names,          \* the spellings a cell may have
    Blank,          \* an empty cell, which pandas reads as NaN
    Length,         \* of a spelling
    Score,          \* rapidfuzz.fuzz.ratio of two spellings, in percent
    Listed,         \* the place of a name in known_values
    FuzzyThreshold,
    FuzzyMinLength

ASSUME CanonicalAssumption ==
    /\ Blank \notin Names
    /\ Length \in [Names -> Nat]
    /\ Score \in [Names -> [Names -> 0..100]]
    /\ Listed \in [Names -> Nat]

IsRule(rule) ==
    /\ rule = [known |-> rule.known, aliases |-> rule.aliases]
    /\ rule.known \subseteq Names
    /\ DOMAIN rule.aliases \subseteq Names
    /\ rule.aliases \in [DOMAIN rule.aliases -> Names]

(* The most similar known names, the first in the file if there are more.  *)
Closest(v, rule) ==
    {k \in rule.known : Score[v][k] > 0 /\ \A j \in rule.known :
        \/ Score[v][j] < Score[v][k]
        \/ Score[v][j] = Score[v][k] /\ Listed[k] <= Listed[j]}

Similar(v, rule) ==
    {k \in Closest(v, rule) : Length[v] >= FuzzyMinLength /\ Score[v][k] >= FuzzyThreshold}

Outcome(to, tier) == [to |-> to, tier |-> tier]

(* Mutant: a spelling too short to be compared is taken as it is.          *)
NormaliseShortAsKnown(v, rule) ==
    IF v = Blank \/ v \in rule.known \/ Length[v] < FuzzyMinLength THEN Outcome(v, "known")
    ELSE IF v \in DOMAIN rule.aliases THEN Outcome(rule.aliases[v], "alias")
    ELSE IF Similar(v, rule) # {} THEN Outcome(CHOOSE k \in Similar(v, rule) : TRUE, "fuzzy")
    ELSE Outcome(v, "unknown")

(* Mutant: similar names are tried before the confirmed aliases.           *)
NormaliseFuzzyFirst(v, rule) ==
    IF v = Blank \/ v \in rule.known THEN Outcome(v, "known")
    ELSE IF Similar(v, rule) # {} THEN Outcome(CHOOSE k \in Similar(v, rule) : TRUE, "fuzzy")
    ELSE IF v \in DOMAIN rule.aliases THEN Outcome(rule.aliases[v], "alias")
    ELSE Outcome(v, "unknown")

(* normalise_value.                                                        *)
Normalise(v, rule) ==
    IF v = Blank \/ v \in rule.known THEN Outcome(v, "known")
    ELSE IF v \in DOMAIN rule.aliases THEN Outcome(rule.aliases[v], "alias")
    ELSE IF Similar(v, rule) # {} THEN Outcome(CHOOSE k \in Similar(v, rule) : TRUE, "fuzzy")
    ELSE Outcome(v, "unknown")

(* normalise_column: what each value of the column becomes, and the log's  *)
(* list of values nothing is known about.                                  *)
NormaliseColumn(column, rule) == [v \in column |-> Normalise(v, rule)]

Surfaced(outcomes) == {v \in DOMAIN outcomes : outcomes[v].tier = "unknown"}
=============================================================================
