----------------------------- MODULE Algorithms -----------------------------
(***************************************************************************)
(* The algorithms of Query and Canonical, called once with any of the      *)
(* inputs given, and for each result a definition of what it should be.    *)
(***************************************************************************)
EXTENDS Query, Canonical

CONSTANTS
    Queries,   \* the tokens of a query
    Records,   \* the records it is matched with
    Dates,     \* years, months and days
    Searches,  \* records in the order of their ids, a query and the caller's limit
    Urls,      \* URLs of sources
    Contents,  \* tags and body of a record
    Proofs,    \* hashes, the hashes claimed and difficulties
    Lookups,   \* the ids of routing tables in their order, targets and numbers of peers
    Params     \* the query and the schema given to the CLI

QueryTokens == UNION {ToSet(q) : q \in Queries}
Kinds == {"term", "or", "exclude", "phrase", "tag", "schema", "since", "before", "limit"}

\* A tag or schema of a query is not what stands for none.
ASSUME QueryAssumption ==
    /\ Queries \subseteq Seq(QueryTokens)
    /\ \A t \in QueryTokens : /\ t = Token(t.kind, t.word, t.upper)
                              /\ t.kind \in Kinds /\ t.upper \in BOOLEAN
                              /\ t.kind \in {"tag", "schema"} => t.word # "none"

\* A table is a map: it lists no id twice.
ASSUME LookupAssumption ==
    /\ IdLen \in Nat
    /\ \A l \in Lookups :
         /\ l \in [table : Seq(Ids), target : Ids, k : Nat]
         /\ \A i, j \in DOMAIN l.table : l.table[i] = l.table[j] => i = j

ASSUME DateAssumption ==
    /\ DaySeconds \in Nat
    /\ Dates \subseteq Nat \X Nat \X Nat

ASSUME ProofAssumption ==
    /\ ByteBits \in Nat \ {0}
    /\ HashLen \in Nat \ {0}
    /\ Proofs \subseteq [hash : [1..HashLen -> 0..MaxByte], claimed : [1..HashLen -> 0..MaxByte],
                        difficulty : 0..NoThreshold]

\* Records come in the order of their ids, which are what they are numbered by.
Candidates == [id : Nat, matches : BOOLEAN, exact : BOOLEAN, score : Int]

ASSUME SearchAssumption ==
    /\ ScanFactor \in Nat \ {0}
    /\ WordSize \in Nat \ {0}
    /\ \A s \in Searches : /\ s.records \in Seq(Candidates)
                           /\ \A i \in DOMAIN s.records : s.records[i].id = i
                           /\ s.q.limit \in (0..(WordSize - 1)) \cup {NoLimit}
                           /\ s.limit \in 0..(WordSize - 1)

\* Tags are not empty and hold no comma, which is 0.
Tags == Seq(Nat \ {0}) \ {<<>>}

UrlParams == [key : Nat, value : STRING]

ASSUME UrlAssumption ==
    \A u \in Urls : u.path \in Seq(STRING) /\ u.query \in Seq(UrlParams)

ASSUME ContentAssumption == Contents \subseteq [tags : Seq(Tags), body : Seq(Nat)]

\* The characters of a parameter that url_encode writes in another way.
Reserved == {" ", "%", "+", "&", "="}

ASSUME ParamAssumption ==
    /\ Unreserved \cap Reserved = {}
    /\ Params \subseteq [query : Seq(Unreserved \cup Reserved), schema : Seq(Unreserved \cup Reserved)]

VARIABLES alg, in, done, out
vars == <<alg, in, done, out>>

-----------------------------------------------------------------------------
Init ==
    /\ done = FALSE
    /\ out = <<>>
    /\ \/ alg = "query"    /\ in \in Queries
       \/ alg = "date"     /\ in \in Dates
       \/ alg = "search"   /\ in \in Searches
       \/ alg = "url"      /\ in \in Urls
       \/ alg = "id"       /\ in \in Contents
       \/ alg = "pow"      /\ in \in Proofs
       \/ alg = "closest"  /\ in \in Lookups
       \/ alg = "params"   /\ in \in Params

Call(name, result) ==
    /\ alg = name
    /\ ~done
    /\ done' = TRUE
    /\ out' = result
    /\ UNCHANGED <<alg, in>>

Next ==
    \/ Call("query", LET q == ParseQuery(in) IN {r \in Records : MatchesQuery(r, q)})
    \/ Call("date", ParseDate(in[1], in[2], in[3]))
    \/ Call("search", Search(in.records, in.q, in.limit))
    \/ Call("url", NormalizeUrl(in))
    \/ Call("id", RecordId(in.tags, in.body))
    \/ Call("pow", VerifyPow(in.hash, in.claimed, in.difficulty))
    \/ Call("closest", FindClosest(in.table, in.target, in.k))
    \/ Call("params", ParseQueryString(SearchQuery(in.query, in.schema)))

Spec == Init /\ [][Next]_vars

Done(name) == alg = name /\ done
-----------------------------------------------------------------------------
(* What the results should be. *)

\* Queries with at most one filter of a kind and at most one OR.
Clear(tokens) ==
    \A kind \in {"or", "tag", "schema", "since", "before"} :
       Cardinality({i \in DOMAIN tokens : tokens[i].kind = kind}) <= 1

\* An OR joins when a term stands somewhere before it; else it is the word "or".
Joins(tokens, k) ==
    tokens[k].kind = "or" /\ \E i \in 1..(k - 1) : tokens[i].kind = "term"

\* What it joins: the last two terms before it, and the token after it.
LastTwo(tokens, k) ==
    {i \in 1..(k - 1) :
        /\ tokens[i].kind = "term"
        /\ \A j, l \in (i + 1)..(k - 1) : tokens[j].kind = "term" /\ tokens[l].kind = "term" => j = l}

Joined(tokens, k) == LastTwo(tokens, k) \cup ({k + 1} \cap DOMAIN tokens)

\* The token after OR is searched for as it was typed: only a word in lower
\* case is in any searchable text.
Found(record, token, asTyped) ==
    /\ asTyped => token.kind \in {"term", "or"} /\ ~token.upper
    /\ token.word \in record.words

\* What a token asks for on its own; a date that is none and a limit ask nothing.
Asked(record, token) ==
    CASE token.kind = "exclude" -> token.word \notin record.words
      [] token.kind = "tag"     -> token.word \in record.tags
      [] token.kind = "schema"  -> token.word \in record.schemas
      [] token.kind = "since"   -> token.word = NoDate \/ record.created >= token.word
      [] token.kind = "before"  -> token.word = NoDate \/ record.created < token.word
      [] token.kind = "limit"   -> TRUE
      [] OTHER                  -> token.word \in record.words

Satisfies(record, tokens) ==
    \A k \in DOMAIN tokens :
       IF Joins(tokens, k)
       THEN \E i \in Joined(tokens, k) : Found(record, tokens[i], i = k + 1)
       ELSE \/ \E o \in DOMAIN tokens : Joins(tokens, o) /\ k \in Joined(tokens, o)
            \/ Asked(record, tokens[k])

\* Wherever its tokens stand, a query finds exactly the records that satisfy
\* each token that no OR joins, and one of those an OR joins.  That is more than
\* the terms beside OR, which the comment of parse_query speaks of: "x a OR b"
\* finds x alone, and of the token after OR only a word in lower case counts
\* (query.rs, parse_query and matches_query).
QueryMeaning ==
    Done("query") /\ Clear(in) => out = {r \in Records : Satisfies(r, in)}

Leap(y) == y % 4 = 0 /\ (y % 100 # 0 \/ y % 400 = 0)
MonthDays(y, m) == CASE m = 2 -> IF Leap(y) THEN 29 ELSE 28 [] m \in {4, 6, 9, 11} -> 30 [] OTHER -> 31

DaysOf(y, months) == FoldLeft(LAMBDA days, m : days + MonthDays(y, m), 0, months)

\* The days from 1970 to a day: of the years, of the months, of the month.
CalendarDays(y, m, d) ==
    365 * (y - 1970) + Cardinality({x \in 1970..(y - 1) : Leap(x)}) + DaysOf(y, [k \in 1..(m - 1) |-> k]) + d - 1

\* A date filter is the second at which the day begins in the Gregorian
\* calendar, leap years and centuries included, and there is none before 1970
\* or for a month or day out of range (query.rs, parse_date_value).
DatesExact ==
    Done("date") =>
      LET y == in[1]
      IN  out = IF y >= 1970 /\ in[2] \in 1..12 /\ in[3] \in 1..31
                THEN CalendarDays(y, in[2], in[3]) * DaySeconds ELSE NoDate

Before(r, s) == r.score > s.score \/ (r.score = s.score /\ r.id < s.id)

\* A search with a schema filter finds only records of that very schema, though
\* matches_query takes every schema that contains it.  Of those it takes up to
\* its scan limit, in the order of their ids, it returns the matches, best first
\* and in that order among equals, and leaves out none unless it returns as many
\* as asked for, all of them better (storage/mod.rs, search_records).
SearchBest ==
    Done("search") =>
      LET limit    == EffectiveLimit(in.q, in.limit)
          list     == {i \in DOMAIN in.records : in.q.schema = "none" \/ in.records[i].exact}
          earlier(i) == Cardinality({j \in list : j < i})
          eligible == {i \in list : earlier(i) < ScanLimit(limit) /\ in.records[i].matches}
      IN  /\ ToSet(out) \subseteq {in.records[i] : i \in eligible}
          /\ \A i, j \in DOMAIN out : i < j => Before(out[i], out[j])
          /\ \A i \in eligible : \/ in.records[i] \in ToSet(out)
                                 \/ Len(out) = limit /\ \A j \in DOMAIN out : Before(out[j], in.records[i])

\* URLs whose slashes and question marks are where they belong.
Regular(u) == /\ \A i \in 1..(Len(u.path) - 1) : u.path[i] # NoText
              /\ u.path = <<>> => u.query = <<>>

\* The path but for a trailing slash, and the values of a key in their order.
Segments(u) == IF u.path # <<>> /\ Last(u.path) = NoText THEN Front(u.path) ELSE u.path
Values(query, key) ==
    FoldLeft(LAMBDA values, p : IF p.key = key THEN Append(values, p.value) ELSE values, <<>>, query)

ParamKeys == UNION {{u.query[i].key : i \in DOMAIN u.query} : u \in Urls}

SameSource ==
    Done("url") /\ Regular(in) =>
      \A u \in Urls : Regular(u) =>
         (NormalizeUrl(u) = out <=>
            /\ u.host = in.host
            /\ Segments(u) = Segments(in)
            /\ \A k \in ParamKeys \ Tracking : Values(u.query, k) = Values(in.query, k))

IdInjective ==
    Done("id") =>
      \A c \in Contents : RecordId(c.tags, c.body) = out => c = in

\* Two URLs have one source_hash exactly when they name one resource: hosts
\* but for case, paths but for a trailing slash, and the same values of every
\* key that is not for tracking, whatever the order of the keys (sign.rs,
\* normalize_source_url).  And records whose tags or bodies differ have
\* different ids, whatever bytes they hold, as long as no tag is empty or holds
\* a comma (compute_record_id).
ContentIdentified == SameSource /\ IdInjective

Bit(hash, i) == (hash[i \div ByteBits + 1] \div 2 ^ (ByteBits - 1 - (i % ByteBits))) % 2

PowExact ==
    Done("pow") =>
      (out <=> /\ in.hash = in.claimed
               /\ in.difficulty # NoThreshold
               /\ \A i \in 0..(in.difficulty - 1) : Bit(in.hash, i) = 0)

\* The number a sequence of bits is, and the distance of two ids.
AddBit(n, bit) == 2 * n + bit
Number(bits) == FoldLeft(AddBit, 0, bits)
Distance(a, b) == Number(XorDistance(a, b))

\* Ids as nodes make them: all bytes, and digits in lower case.
OwnIds == {id \in Ids : id.pairs \in [1..IdLen -> Bytes] /\ ~id.respelled}

ClosestExact ==
    Done("closest") =>
      LET d(id) == Distance(id, in.target)
          Sooner(a, b) == \E i, j \in DOMAIN in.table : i < j /\ in.table[i] = a /\ in.table[j] = b
          Ahead(a, b) == d(a) < d(b) \/ (d(a) = d(b) /\ Sooner(a, b))
      IN  /\ ToSet(out) \subseteq ToSet(in.table)
          /\ Len(out) = IF in.k < Len(in.table) THEN in.k ELSE Len(in.table)
          /\ \A i, j \in DOMAIN out : i < j =>
               /\ Ahead(out[i], out[j])
               /\ {out[i], out[j], in.target} \subseteq OwnIds => d(out[i]) < d(out[j])
          /\ \A id \in ToSet(in.table) \ ToSet(out), i \in DOMAIN out : Ahead(out[i], id)

\* Comparing bytes one by one is comparing the numbers they are.  A proof of
\* work is accepted exactly when its hash is the one claimed, begins with as
\* many zero bits as claimed, and claims less than 255 (pow.rs, verify_pow).
\* find_closest returns the k ids (all, if there are fewer) with the smallest
\* XOR distances, nearest first, whatever ids the table and the message hold;
\* only ids that are not as nodes make them are at one distance, where the order
\* of the table decides (dht.rs).
BytesAsNumbers == PowExact /\ ClosestExact

\* The API reads the very query and schema that the CLI was given, whatever
\* ASCII characters they hold (main.rs, url_encode; request.rs,
\* parse_query_string).
ParamsKept ==
    Done("params") => out = [k \in {<<"q">>, <<"s">>} |-> IF k = <<"q">> THEN in.query ELSE in.schema]
=============================================================================
