----------------------------- MODULE Canonical ------------------------------
(***************************************************************************)
(* What records are identified and compared by: normalize_source_url,      *)
(* canonical_encode_fields and compute_record_id (src/trust/sign.rs), the  *)
(* proof of work (src/trust/pow.rs), XOR distances (src/node/dht.rs), and  *)
(* the coding of query strings between the CLI (url_encode, src/main.rs)   *)
(* and the API (percent_decode, src/api/request.rs).                       *)
(***************************************************************************)
EXTENDS Integers, Sequences, FiniteSets, SequencesExt

CONSTANTS
    Tracking,   \* keys of TRACKING_PARAMS
    ByteBits,   \* bits of a byte of a hash: 8
    HashLen,    \* bytes of a hash: 32
    IdLen,      \* bytes of a distance: 32
    Unreserved  \* characters url_encode leaves alone
-----------------------------------------------------------------------------
(* normalize_source_url.  A URL is [host, upper, path, query, fragment]:    *)
(* upper marks a host not in lower case; path is the sequence of what       *)
(* follows each slash after the host, so that a trailing slash is a last    *)
(* NoText, and <<>> a URL that ends at its host or has a "?" there.  A      *)
(* parameter is [key, value], keys being numbered in their order; one       *)
(* without "=" has the value NoText, and the key of one in Tracking is a    *)
(* tracking parameter in lower case.                                        *)

\* The empty text.
NoText == "none"

PathNormal(path) == IF Len(path) > 1 /\ path[Len(path)] = NoText THEN Front(path) ELSE path

\* Sorted by key; parameters of one key keep their order.
PlaceParam(params, p) ==
    InsertAt(params, Cardinality({i \in DOMAIN params : params[i].key <= p.key}) + 1, p)

Tracked(p) == p.key \in Tracking

\* Plausible bug: parameters stay in the order they came in.
KeepParamUnsorted(params, p) == IF Tracked(p) THEN params ELSE Append(params, p)

KeepParam(params, p) == IF Tracked(p) THEN params ELSE PlaceParam(params, p)

QueryNormal(query) == FoldLeft(KeepParam, <<>>, query)

\* The host goes to the first slash; without one, a query belongs to it.
NormalizeUrl(u) ==
    IF u.path = <<>>
    THEN [host |-> <<u.host, u.query>>, path |-> <<NoText>>, query |-> <<>>]
    ELSE [host |-> <<u.host, <<>>>>, path |-> PathNormal(u.path), query |-> QueryNormal(u.query)]
-----------------------------------------------------------------------------
(* compute_record_id.  A field is a sequence of characters; the hash of an  *)
(* encoding is the encoding itself, Blake3 being collision-free.            *)

\* canonical_encode_fields puts its length before each field.
EncodeField(field) == <<Len(field)>> \o field

\* tags.join(","); 0 stands for the comma.
JoinTags(tags) == IF tags = <<>> THEN <<>> ELSE FoldLeft(LAMBDA j, t : j \o <<0>> \o t, Head(tags), Tail(tags))

\* The fields that vary: the tags and the body.
RecordId(tags, body) == EncodeField(JoinTags(tags)) \o EncodeField(body)
-----------------------------------------------------------------------------
(* difficulty_to_threshold and meets_difficulty. *)

MaxByte == 2 ^ ByteBits - 1

\* 0xFF >> remaining_bits
PartialByte(bits) == MaxByte \div 2 ^ bits

Threshold(difficulty) ==
    [i \in 1..HashLen |->
        IF i <= difficulty \div ByteBits THEN 0
        ELSE IF i = difficulty \div ByteBits + 1 THEN PartialByte(difficulty % ByteBits)
        ELSE MaxByte]

\* Lexicographically at most the threshold.
MeetsDifficulty(hash, threshold) ==
    \/ hash = threshold
    \/ \E i \in 1..HashLen : hash[i] < threshold[i] /\ \A j \in 1..(i - 1) : hash[j] = threshold[j]

\* A difficulty is a u8; u8::MAX, one bit less than a hash has, has no threshold.
NoThreshold == ByteBits * HashLen - 1

\* hash is that of the input and the nonce, claimed the one of the solution.
VerifyPow(hash, claimed, difficulty) ==
    /\ hash = claimed
    /\ difficulty # NoThreshold
    /\ MeetsDifficulty(hash, Threshold(difficulty))
-----------------------------------------------------------------------------
(* xor_distance and find_closest.  A node id is whatever text the handshake *)
(* brought: pairs of characters that are the digits of a byte, or are not    *)
(* (an odd character at the end is no byte either), and respelled when it    *)
(* writes its digits in another way than a node does, as "AA" for "aa".      *)

\* A byte as its bits, and a pair that is none.
Bytes == [1..ByteBits -> 0..1]
NoByte == <<>>

Ids == [pairs : Seq(Bytes \cup {NoByte}), respelled : BOOLEAN]

\* hex_to_bytes leaves out what is no byte.
KeepByte(bytes, pair) == IF pair = NoByte THEN bytes ELSE Append(bytes, pair)

HexToBytes(id) == FoldLeft(KeepByte, <<>>, id.pairs)

\* The byte and the bit in it of the i-th bit of a distance.
ByteOf(i) == ((i - 1) \div ByteBits) + 1
BitOf(i) == ((i - 1) % ByteBits) + 1

\* Where either has no byte, the distance is 0.
XorBytes(a, b) ==
    [i \in 1..(IdLen * ByteBits) |->
        IF /\ ByteOf(i) <= Len(a) /\ ByteOf(i) <= Len(b)
           /\ a[ByteOf(i)][BitOf(i)] # b[ByteOf(i)][BitOf(i)]
        THEN 1 ELSE 0]

XorDistance(a, b) == XorBytes(HexToBytes(a), HexToBytes(b))

\* Plausible bug: the bits are compared from the other end.
NearerReversed(a, b) ==
    \E i \in DOMAIN a : a[i] < b[i] /\ \A j \in (i + 1)..Len(a) : a[j] = b[j]

Nearer(a, b) == \E i \in DOMAIN a : a[i] < b[i] /\ \A j \in 1..(i - 1) : a[j] = b[j]

\* Sorted by distance, ids at one distance in the order they are listed in,
\* that of the map's keys, and cut to k.
FindClosest(table, target, k) ==
    LET Distance(i) == XorDistance(table[i], target)
        Before(i) == {j \in DOMAIN table : \/ Nearer(Distance(j), Distance(i))
                                           \/ Distance(j) = Distance(i) /\ j < i}
        size == Len(table)
    IN  [n \in 1..(IF k < size THEN k ELSE size) |->
            table[CHOOSE i \in DOMAIN table : Cardinality(Before(i)) = n - 1]]
-----------------------------------------------------------------------------
(* url_encode, percent_decode and parse_query_string.  A text is a sequence *)
(* of ASCII characters.                                                     *)

\* The two hexadecimal digits of a character, and back; "?" stands for the
\* characters no text of the model holds.
Hex == [c \in {"%", "+", "&", "="} |->
            CASE c = "%" -> <<"2", "5">> [] c = "+" -> <<"2", "B">>
              [] c = "&" -> <<"2", "6">> [] c = "=" -> <<"3", "D">>]
HexDigits == {"0", "2", "3", "5", "6", "B", "D"}

CharOf(digits) == IF \E c \in DOMAIN Hex : Hex[c] = digits
                  THEN CHOOSE c \in DOMAIN Hex : Hex[c] = digits ELSE "?"

\* What u8::from_str_radix takes: one digit will do, and a plus sign before it.
IsByte(digits) == \/ Len(digits) = 1 /\ digits[1] \in HexDigits
                  \/ Len(digits) = 2 /\ digits[1] \in HexDigits \cup {"+"} /\ digits[2] \in HexDigits

Escape(c) == IF c = " " THEN <<"+">> ELSE <<"%">> \o Hex[c]

\* Plausible bug: a plus sign is left alone.
EncodeCharPlus(c) == IF c \in Unreserved \cup {"+"} THEN <<c>> ELSE Escape(c)

EncodeChar(c) == IF c \in Unreserved THEN <<c>> ELSE Escape(c)

UrlEncode(text) == FoldLeft(LAMBDA encoded, c : encoded \o EncodeChar(c), <<>>, text)

\* The query string of a search of the CLI; "s" stands for schema.
SearchQuery(query, schema) ==
    <<"q", "=">> \o UrlEncode(query) \o <<"&", "s", "=">> \o UrlEncode(schema)

\* What the (at most two) characters after a "%" become.
Unescape(digits) == IF IsByte(digits) THEN <<CharOf(digits)>> ELSE <<"%">> \o digits

\* One character of the input; taken are the characters read after a "%".
DecodeChar(s, c) ==
    CASE s.open /\ Len(s.taken) = 0 -> [s EXCEPT !.taken = <<c>>]
      [] s.open /\ Len(s.taken) = 1 ->
           [out |-> s.out \o Unescape(Append(s.taken, c)), open |-> FALSE, taken |-> <<>>]
      [] ~s.open /\ c = "%" -> [s EXCEPT !.open = TRUE]
      [] ~s.open /\ c = "+" -> [s EXCEPT !.out = Append(@, " ")]
      [] OTHER -> [s EXCEPT !.out = Append(@, c)]

Decoding(text) == FoldLeft(DecodeChar, [out |-> <<>>, open |-> FALSE, taken |-> <<>>], text)

PercentDecode(text) ==
    LET end == Decoding(text)
    IN  IF end.open THEN end.out \o Unescape(end.taken) ELSE end.out

\* split('&')
SplitChar(parts, c) ==
    IF c = "&" THEN Append(parts, <<>>) ELSE [parts EXCEPT ![Len(parts)] = Append(@, c)]

SplitPairs(text) == FoldLeft(SplitChar, << <<>> >>, text)

KeyAndValue(pair) ==
    LET equals == {i \in DOMAIN pair : pair[i] = "="}
    IN  IF equals = {} THEN [key |-> PercentDecode(pair), value |-> <<>>]
        ELSE LET pos == CHOOSE i \in equals : \A j \in equals : i <= j
             IN  [key   |-> PercentDecode(SubSeq(pair, 1, pos - 1)),
                  value |-> PercentDecode(SubSeq(pair, pos + 1, Len(pair)))]

\* The map; a later pair replaces an earlier one of its key.
Insert(map, kv) == [k \in DOMAIN map \cup {kv.key} |-> IF k = kv.key THEN kv.value ELSE map[k]]

AddPair(map, pair) == IF pair = <<>> THEN map ELSE Insert(map, KeyAndValue(pair))

ParseQueryString(text) == FoldLeft(AddPair, <<>>, SplitPairs(text))
=============================================================================
