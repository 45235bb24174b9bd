----------------------------- MODULE CjkAmounts ------------------------------
(***************************************************************************)
(* Amounts written in Chinese numerals, or in Arabic ones with a Chinese   *)
(* magnitude (backend/app/services/parser/cjk_amounts.py).                 *)
(*                                                                         *)
(* A text is a sequence of characters: a digit is itself, a place marker   *)
(* is its place, and a run of Arabic digits is one character, minus its    *)
(* number.                                                                 *)
(***************************************************************************)
EXTENDS Integers, SequencesExt

_CJK_DIGITS == 0 .. 9
_CJK_SUB_WAN_PLACES == {10, 100, 1000}
_WAN == 10000
_MAX_CJK_VALUE == 99999999

\* None.
NoValue == -1
InRange(n) == IF 1 <= n /\ n <= _MAX_CJK_VALUE THEN n ELSE NoValue

Arabic(n) == -n
IsArabic(ch) == ch < 0
IsMagnitude(ch) == ch \in _CJK_SUB_WAN_PLACES \cup {_WAN}
_has_cjk_magnitude(text) == \E i \in DOMAIN text : IsMagnitude(text[i])

-----------------------------------------------------------------------------
(* Below 10 000. *)

\* sum: what is accumulated.  digit: the pending one, or 0.  place: the last
\* one, or 0.  skip: a zero was met since.
Scanned == [ok |-> TRUE, sum |-> 0, digit |-> 0, place |-> 0, skip |-> FALSE]

Scan(s, ch) ==
    IF ch = 0 THEN [s EXCEPT !.skip = TRUE, !.digit = 0]
    ELSE IF ch \in _CJK_DIGITS THEN [s EXCEPT !.ok = @ /\ s.digit = 0, !.digit = ch]
    ELSE [ok |-> s.ok /\ ch \in _CJK_SUB_WAN_PLACES /\ (s.place = 0 \/ ch < s.place),
          sum |-> s.sum + ch * (IF s.digit = 0 THEN 1 ELSE s.digit),
          digit |-> 0, place |-> ch, skip |-> FALSE]

\* Deviation: a trailing digit is shifted after a zero as well.
TrailingAlwaysShifted(s) == s.digit * (IF s.place = 0 THEN 1 ELSE s.place \div 10)

\* A trailing digit is worth a place less than the last one, except after a zero.
TrailingDigit(s) == s.digit * (IF s.place = 0 \/ s.skip THEN 1 ELSE s.place \div 10)

Total(s) == IF s.ok THEN s.sum + TrailingDigit(s) ELSE NoValue

_parse_sub_wan(text) == Total(FoldLeft(Scan, Scanned, text))

-----------------------------------------------------------------------------
(* The split at 10 000. *)

HighPart(text) == IF text = <<>> THEN 1 ELSE _parse_sub_wan(text)

\* Without a place in it the low part is thousands.
InThousands(text, low) == IF low > 0 /\ ~_has_cjk_magnitude(text) THEN low * 1000 ELSE low

LowPart(text) ==
    IF text # <<>> /\ text[1] \in _CJK_SUB_WAN_PLACES THEN NoValue
    ELSE InThousands(text, _parse_sub_wan(text))

Joined(high, low) ==
    IF high \in {NoValue, 0} \/ low = NoValue THEN NoValue ELSE InRange(high * _WAN + low)

_parse_cjk_numeral(text) ==
    LET wans == {i \in DOMAIN text : text[i] = _WAN}
        split == CHOOSE i \in wans : TRUE
    IN  IF \/ \E i \in DOMAIN text : IsArabic(text[i])
           \/ ~_has_cjk_magnitude(text)
           \/ Cardinality(wans) > 1 THEN NoValue
        ELSE IF wans = {} THEN InRange(_parse_sub_wan(text))
        ELSE Joined(HighPart(SubSeq(text, 1, split - 1)),
                    LowPart(SubSeq(text, split + 1, Len(text))))

\* Arabic digits; with a magnitude; or before and after the 10 000.
_parse_mixed_amount(text) ==
    LET n == Len(text)
        high == -text[1]
        low == -text[3]
        split == n \in {3, 4} /\ text[2] = _WAN /\ IsArabic(text[3])
    IN  IF n = 0 \/ ~IsArabic(text[1]) THEN NoValue
        ELSE IF n = 1 THEN InRange(high)
        ELSE IF n = 2 /\ IsMagnitude(text[2]) THEN InRange(high * text[2])
        ELSE IF n = 3 /\ split /\ low <= 9 THEN InRange(high * _WAN + low * 1000)
        ELSE IF n = 4 /\ split /\ text[4] \in _CJK_SUB_WAN_PLACES
             THEN InRange(high * _WAN + low * text[4])
        ELSE NoValue

\* unit: the text ended in a word for dollars, and it was stripped.
OrMixed(text, unit, value) ==
    IF value = NoValue /\ (unit \/ _has_cjk_magnitude(text)) THEN _parse_mixed_amount(text)
    ELSE value

cjk_to_decimal(text, unit) ==
    IF unit /\ Len(text) = 1 /\ text[1] \in _CJK_DIGITS THEN InRange(text[1])
    ELSE OrMixed(text, unit, _parse_cjk_numeral(text))

-----------------------------------------------------------------------------
(* How a number up to 99 999 999 is written: what the parser is held to. *)

DigitAt(n, place) == (n \div place) % 10

\* A digit and its place; one zero for the places that are skipped.
Written(n, place) ==
    IF DigitAt(n, place) # 0
    THEN IF place = 1 THEN <<DigitAt(n, 1)>> ELSE <<DigitAt(n, place), place>>
    ELSE IF place > 1 /\ n > 10 * place /\ DigitAt(n, place \div 10) # 0 THEN <<0>>
    ELSE <<>>

\* Eleven is written as ten and one.
WrittenBelowWan(n) ==
    IF n \in 10 .. 19 THEN <<10>> \o Written(n, 1)
    ELSE Written(n, 1000) \o Written(n, 100) \o Written(n, 10) \o Written(n, 1)

InFull(n) ==
    LET high == n \div _WAN
        low == n % _WAN
    IN  (IF high = 0 THEN <<>> ELSE Append(WrittenBelowWan(high), _WAN))
        \o (IF high > 0 /\ low \in 1 .. 999 THEN <<0>> ELSE <<>>)
        \o WrittenBelowWan(low)

\* As it is spoken, without the last place: 550 as five hundred five.
Colloquial(n) ==
    LET s == InFull(n)
        k == Len(s)
    IN  IF k >= 4 /\ s[k] \in _CJK_SUB_WAN_PLACES /\ s[k - 2] = 10 * s[k]
        THEN SubSeq(s, 1, k - 1) ELSE s

\* With Arabic digits.
Mixed(n) ==
    {<<Arabic(n)>>}
    \cup {<<Arabic(n \div m), m>> : m \in {p \in {10, 100, 1000, _WAN} : n >= p /\ n % p = 0}}
    \cup (IF n > _WAN /\ n % _WAN >= 1000 /\ n % 1000 = 0
          THEN LET s == <<Arabic(n \div _WAN), _WAN, Arabic((n % _WAN) \div 1000)>>
               IN  {s, Append(s, 1000)}
          ELSE {})

Ways(n) == {InFull(n), Colloquial(n)} \cup Mixed(n)
=============================================================================
