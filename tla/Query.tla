------------------------------- MODULE Query --------------------------------
(***************************************************************************)
(* The query language (src/search/query.rs) and Store::search_records      *)
(* (src/storage/mod.rs).  A query is a sequence of tokens, as tokenize     *)
(* leaves them; a record is the set of the words of its searchable text,   *)
(* its tags, the texts its schema contains and the time of its creation.   *)
(***************************************************************************)
EXTENDS Integers, Sequences, FiniteSets, SequencesExt

CONSTANTS
    ScanFactor,   \* 10: how many records search_records scans per result
    WordSize,     \* 2^64: where a usize wraps around
    DaySeconds    \* 86400; smaller in a run, since integers of TLC have 32 bits

\* A token, and what parse_field_filter and parse_date_value make of it.
\* "upper" marks a word that is not in lower case.
Token(kind, word, upper) == [kind |-> kind, word |-> word, upper |-> upper]
OrToken == Token("or", "or", TRUE)
-----------------------------------------------------------------------------
(* parse_query. *)

\* A day before 1970, or what is no date, gives no filter.
NoDate == -1
NoLimit == -1

NoQuery == [terms |-> <<>>, excludes |-> {}, phrases |-> {}, tag |-> "none", schema |-> "none",
            since |-> NoDate, before |-> NoDate, limit |-> NoLimit, afterOr |-> FALSE]

\* to_lowercase, which a term after OR does not go through.
Lower(token) == [token EXCEPT !.upper = FALSE]

\* A term carries the "OR:" prefixes parse_query has put before it.
Term(token, prefixes) == [token |-> token, prefixes |-> prefixes]

\* Plausible bug: a term that stands alone is kept as it was typed.
PlainTermRaw(token) == Term(token, 0)

PlainTerm(token) == Term(Lower(token), 0)

\* One round of the loop.  OR marks the last term, and the token that follows
\* becomes a term whatever it is; later filters replace earlier ones, and only a
\* limit that is no number leaves the earlier one.
ParseToken(q, token) ==
    CASE q.afterOr ->
           [q EXCEPT !.terms = Append(@, Term(token, 1)), !.afterOr = FALSE]
      [] ~q.afterOr /\ token.kind = "or" /\ q.terms # <<>> ->
           [q EXCEPT !.terms[Len(q.terms)].prefixes = @ + 1, !.afterOr = TRUE]
      [] ~q.afterOr /\ token.kind = "exclude" -> [q EXCEPT !.excludes = @ \cup {token.word}]
      [] ~q.afterOr /\ token.kind = "phrase"  -> [q EXCEPT !.phrases = @ \cup {token.word}]
      [] ~q.afterOr /\ token.kind = "tag"     -> [q EXCEPT !.tag = token.word]
      [] ~q.afterOr /\ token.kind = "schema"  -> [q EXCEPT !.schema = token.word]
      [] ~q.afterOr /\ token.kind = "since"   -> [q EXCEPT !.since = token.word]
      [] ~q.afterOr /\ token.kind = "before"  -> [q EXCEPT !.before = token.word]
      [] ~q.afterOr /\ token.kind = "limit"   ->
           [q EXCEPT !.limit = IF token.word = NoLimit THEN @ ELSE token.word]
      [] OTHER -> [q EXCEPT !.terms = Append(@, PlainTerm(token))]

ParseQuery(tokens) == FoldLeft(ParseToken, NoQuery, tokens)
-----------------------------------------------------------------------------
(* matches_query. *)

\* contains: a text with a prefix left, a quote, a dash or a capital letter is
\* in no searchable text.
Holds(record, term) ==
    /\ term.prefixes <= 1
    /\ term.token.kind \in {"term", "or"}
    /\ ~term.token.upper
    /\ term.token.word \in record.words

\* The groups of terms: one that is marked joins the group before it.
GroupTerm(groups, term) ==
    IF term.prefixes > 0 /\ groups # <<>>
    THEN [groups EXCEPT ![Len(groups)] = @ \cup {term}]
    ELSE Append(groups, {term})

Groups(terms) == FoldLeft(GroupTerm, <<>>, terms)

DateMatches(record, q) ==
    /\ q.since = NoDate \/ record.created >= q.since
    /\ q.before = NoDate \/ record.created < q.before

MatchesQuery(record, q) ==
    /\ q.tag = "none" \/ q.tag \in record.tags
    /\ q.schema = "none" \/ q.schema \in record.schemas
    /\ DateMatches(record, q)
    /\ record.words \cap q.excludes = {}
    /\ q.phrases \subseteq record.words
    /\ \A g \in ToSet(Groups(q.terms)) : \E t \in g : Holds(record, t)
-----------------------------------------------------------------------------
(* parse_date_value and days_from_civil. *)

\* Plausible bug: the year begins in January.
ShiftedMonthJanuary(m) == m - 1

\* The year begins in March, so that the leap day is its last.
ShiftedMonth(m) == IF m > 2 THEN m - 3 ELSE m + 9

DaysFromCivil(year, m, d) ==
    LET y   == IF m <= 2 THEN year - 1 ELSE year
        era == y \div 400
        yoe == y - era * 400
        doy == (153 * ShiftedMonth(m) + 2) \div 5 + d - 1
    IN  era * 146097 + yoe * 365 + yoe \div 4 - yoe \div 100 + doy - 719468

ParseDate(y, m, d) ==
    LET days == DaysFromCivil(y, m, d) - DaysFromCivil(1970, 1, 1)
    IN  IF m \in 1..12 /\ d \in 1..31 /\ days >= 0 THEN days * DaySeconds ELSE NoDate
-----------------------------------------------------------------------------
(* search_records: records in the order of their ids, each with whether it  *)
(* matches, its score, and whether its schema is the query's, to the letter.*)

\* A limit in the query overrides the caller's.
EffectiveLimit(q, limit) == IF q.limit = NoLimit THEN limit ELSE q.limit

\* A schema filter narrows the scan to the records of that very schema.
Listed(record, q) == q.schema = "none" \/ record.exact

\* The product wraps around (a build with overflow checks panics instead), and
\* list_records looks at its limit after it has taken a record.
ScanLimit(limit) ==
    LET n == (limit * ScanFactor) % WordSize IN IF n = 0 THEN 1 ELSE n

\* list_records takes that many of the records listed.
Scanned(records, q, limit) ==
    LET list == {i \in DOMAIN records : Listed(records[i], q)}
    IN  {records[i] : i \in {j \in list : Cardinality({l \in list : l < j}) < ScanLimit(limit)}}

\* Plausible bug: the worst come first.
BetterLow(a, b) == a.score < b.score

Better(a, b) == a.score > b.score

\* sort_by is stable: among equal scores the order of the ids stays.
Place(sorted, record) ==
    InsertAt(sorted, Cardinality({i \in DOMAIN sorted : ~Better(record, sorted[i])}) + 1, record)

PlaceMatch(matched, sorted, record) ==
    IF record \in matched THEN Place(sorted, record) ELSE sorted

Search(records, q, callers) ==
    LET limit   == EffectiveLimit(q, callers)
        matched == {r \in Scanned(records, q, limit) : r.matches}
        sorted  == FoldLeft(LAMBDA s, r : PlaceMatch(matched, s, r), <<>>, records)
    IN  SubSeq(sorted, 1, IF limit < Len(sorted) THEN limit ELSE Len(sorted))
=============================================================================
