---------------------------- MODULE MCAlgorithms ----------------------------
(***************************************************************************)
(* Algorithms with every input of small sets.                              *)
(***************************************************************************)
EXTENDS Algorithms

CONSTANTS
    QueryLen,   \* tokens of a query
    MaxRecords, \* records of a search
    MaxPeers,   \* ids of a routing table
    MaxText     \* characters of a parameter

UpTo(S, n) == UNION {[1..k -> S] : k \in 0..n}

Tokens == {Token("term", "a", FALSE), Token("term", "a", TRUE), Token("term", "b", FALSE),
           OrToken, Token("exclude", "b", FALSE), Token("phrase", "a", FALSE),
           Token("tag", "x", FALSE), Token("schema", "y", FALSE), Token("since", 1, FALSE), Token("before", 2, FALSE),
           Token("before", NoDate, FALSE), Token("limit", 1, FALSE)}
SomeQueries == UpTo(Tokens, QueryLen)
SomeRecords == [words : SUBSET {"a", "b", "or"}, tags : SUBSET {"x"}, schemas : SUBSET {"y"}, created : 0..2]

SomeDates ==
    {1600, 1968, 1970, 1972, 2000, 2001, 2023, 2024, 2100, 2101} \X (0..13) \X (0..32)

Ranked == {[i \in DOMAIN s |-> [id |-> i, matches |-> s[i][1], exact |-> s[i][2], score |-> s[i][3]]] :
             s \in UpTo(BOOLEAN \X BOOLEAN \X (1..2), MaxRecords)}
SearchedFor == {[NoQuery EXCEPT !.limit = n, !.schema = y] : n \in {NoLimit, 1, 2}, y \in {"none", "y"}}
SomeSearches == [records : Ranked, q : SearchedFor, limit : 0..2]

Paths == {<<>>, <<NoText>>, <<"p">>, <<"p", NoText>>, <<"p", NoText, NoText>>}
SomeUrls == [host : {"h"}, upper : BOOLEAN, path : Paths,
             query : UpTo([key : 1..3, value : {NoText, "v"}], 2), fragment : BOOLEAN]

SomeContents == [tags : UpTo({<<1>>, <<2>>, <<1, 2>>}, 2), body : UpTo({0, 1}, 2)]

Hashes == [1..HashLen -> 0..MaxByte]
SomeProofs ==
    {p \in [hash : Hashes, claimed : Hashes, difficulty : 0..NoThreshold] :
        \A i \in 2..HashLen : p.claimed[i] = p.hash[i]}

\* Ids of two bytes, one in two spellings, ids with pairs that are no bytes, and
\* shorter and longer ones; a table lists them in this order.
Id(pairs, respelled) == [pairs |-> pairs, respelled |-> respelled]
IdList == << Id(<<>>, FALSE), Id(<< <<0, 1>> >>, FALSE), Id(<< <<0, 1>>, <<1, 0>> >>, FALSE),
             Id(<< <<0, 1>>, <<1, 1>> >>, FALSE), Id(<< <<0, 1>>, <<1, 1>> >>, TRUE),
             Id(<< <<1, 0>>, <<0, 0>> >>, FALSE), Id(<< <<1, 0>>, <<0, 0>>, <<1, 1>> >>, FALSE),
             Id(<< <<1, 0>>, NoByte >>, FALSE), Id(<< NoByte, <<0, 1>>, <<1, 0>> >>, FALSE) >>
Tables == {s \in UpTo(1..Len(IdList), MaxPeers) : \A i, j \in DOMAIN s : i < j => s[i] < s[j]}
SomeLookups ==
    {[table |-> [i \in DOMAIN s |-> IdList[s[i]]], target |-> IdList[t], k |-> n] :
        s \in Tables, t \in 1..Len(IdList), n \in 0..2}

SomeParams ==
    [query : UpTo(Unreserved \cup Reserved, MaxText), schema : {<<>>, <<"&">>}]
=============================================================================
