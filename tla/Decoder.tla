------------------------------ MODULE Decoder ------------------------------
(***************************************************************************)
(* util/encoding.rs: length-prefixed messages over a byte stream that is   *)
(* cut into chunks anywhere.  A size is a varint: base-Radix digits, least *)
(* significant first, with Radix added to every digit but the last (128    *)
(* and at most 10 bytes in the code; the varint itself is the              *)
(* integer-encoding crate's, external).  FramedStream feeds it.            *)
(***************************************************************************)
EXTENDS Integers, Sequences

CONSTANTS Radix,           \* 128
          MaxEncodedSize,  \* MAX_ENCODED_SIZE
          Usize            \* the numbers of a usize: 2^64

\* A size that needs two bytes is larger than what a header read can hold
\* beyond those two bytes (128 > 10 - 2): see StoreAndDecode.
ASSUME DecoderAssumption == /\ Radix \in Nat \ {0, 1}
                            /\ MaxEncodedSize \in Nat \ {0} /\ Usize \in Nat
                            /\ Radix >= MaxEncodedSize - 2 /\ Usize > MaxEncodedSize

VARIABLES stored,  \* Decoder.stored
          out      \* messages given to decoded_callback

-----------------------------------------------------------------------------
Least(a, b) == IF a <= b THEN a ELSE b
From(s, i) == SubSeq(s, i, Len(s))

\* encode_size: the varint of a message's length.
EncodeSize(n) ==
    LET e[k \in 0 .. n] == IF k < Radix THEN <<k>> ELSE <<(k % Radix) + Radix>> \o e[k \div Radix]
    IN  e[n]

\* The number that the first k digits of data stand for.
Number(data, k) ==
    LET v[i \in 0 .. k] == IF i = 0 THEN 0 ELSE (data[k + 1 - i] % Radix) + Radix * v[i - 1]
    IN  v[k]

\* decode_size: size and bytes used, or `used` 0 if the header is not complete.
DecodeSize(data) ==
    LET last == {i \in 1 .. Least(Len(data), MaxEncodedSize) : data[i] < Radix}
        used == CHOOSE i \in last : \A j \in last : i <= j
    IN  IF last = {} THEN [size |-> 0, used |-> 0]
        ELSE [size |-> Number(data, used) % Usize, used |-> used]

\* try_decode: decode straight from the data, of which the last i bytes are not yet
\* decoded; what is left is stored.
TryDecode(data) ==
    LET d[i \in 0 .. Len(data)] ==
            LET next == From(data, Len(data) - i + 1)
                h == DecodeSize(next)
                more == d[i - h.used - h.size]
            IN  IF h.used > 0 /\ i - h.used >= h.size
                THEN [stored |-> more.stored,
                      out |-> <<SubSeq(next, h.used + 1, h.used + h.size)>> \o more.out]
                ELSE [stored |-> next, out |-> <<>>]
    IN  d[Len(data)]

\* Slip: all of the data is taken for the header.
StoreAndDecodeGreedy(old, data) ==
    LET known == DecodeSize(old).used > 0
        head == IF known THEN old ELSE old \o data
        rest == IF known THEN data ELSE <<>>
        h == DecodeSize(head)
        missing == IF Len(head) - h.used >= h.size THEN 0 ELSE h.size - (Len(head) - h.used)
    IN  IF h.used = 0 THEN [stored |-> head, done |-> FALSE, message |-> <<>>, rest |-> <<>>]
        ELSE IF Len(rest) < missing
        THEN [stored |-> head \o rest, done |-> FALSE, message |-> <<>>, rest |-> <<>>]
        ELSE LET whole == head \o SubSeq(rest, 1, missing)
             IN  [stored |-> <<>>, done |-> TRUE, message |-> From(whole, h.used + 1),
                  rest |-> From(rest, missing + 1)]

\* store_and_decoded_data: complete the header with at most the bytes a
\* header can have, then the message.  The subtractions wrap (a build with overflow
\* checks panics instead): a stream that was cut may hold a header longer than its
\* size needs, or more than a header can have.
StoreAndDecode(old, data) ==
    LET known == DecodeSize(old).used > 0
        take == IF known THEN 0 ELSE Least((MaxEncodedSize - Len(old)) % Usize, Len(data))
        head == old \o SubSeq(data, 1, take)
        rest == From(data, take + 1)
        h == DecodeSize(head)
        missing == (h.size - (Len(head) - h.used)) % Usize
    IN  IF h.used = 0 THEN [stored |-> head, done |-> FALSE, message |-> <<>>, rest |-> <<>>]
        ELSE IF Len(rest) < missing
        THEN [stored |-> head \o rest, done |-> FALSE, message |-> <<>>, rest |-> <<>>]
        ELSE LET whole == head \o SubSeq(rest, 1, missing)
             IN  [stored |-> <<>>, done |-> TRUE, message |-> From(whole, h.used + 1),
                  rest |-> From(rest, missing + 1)]

\* decode: with nothing stored decode the data, else complete what is stored
\* first and then decode what is left of the data.
Decode(data) ==
    IF stored = <<>>
    THEN LET d == TryDecode(data) IN stored' = d.stored /\ out' = out \o d.out
    ELSE LET s == StoreAndDecode(stored, data)
             d == TryDecode(s.rest)
         IN  IF s.done
             THEN stored' = d.stored /\ out' = out \o <<s.message>> \o d.out
             ELSE stored' = s.stored /\ out' = out

=============================================================================
