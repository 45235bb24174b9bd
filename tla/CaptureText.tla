----------------------------- MODULE CaptureText -----------------------------
(***************************************************************************)
(* What the capture parser makes of one line of text, word by word         *)
(* (backend/app/services/parser: tokens, cjk_amounts, amount, jobs,        *)
(* suppliers, categories, payment, review, orchestrator).                  *)
(*                                                                         *)
(* The line is the sequence of its tokens, and a word is its normalised    *)
(* form.  Amounts are whole dollars; that an amount is written with cents  *)
(* is known, for it decides between two of them.  The catalogue of jobs,   *)
(* suppliers and categories does not change.  The search for duplicates is *)
(* in ExpenseCapture.                                                      *)
(***************************************************************************)
EXTENDS CjkAmounts, TLC

CONSTANTS
    Words,
    Numbers, Spoken,    \* the numbers that are written in digits, and in any way
    MaxItems,           \* bound: the words and numbers of a line
    CatalogueJobs,      \* the jobs that are active
    JobAliases, JobCode, JobName,   \* per job: a set of words, a word, the words of its name
    ActiveSuppliers,
    SupplierNames,      \* per supplier: its name and its aliases
    Categories,         \* the ones with keywords; ActiveCategories are in the catalogue
    ActiveCategories,
    CATEGORY_KEYWORDS,
    _CASH_KEYWORDS, _TRANSFER_KEYWORDS,
    None

ASSUME CatalogueAssumption ==
    /\ ActiveCategories \subseteq Categories
    /\ IsFiniteSet(CatalogueJobs) /\ IsFiniteSet(ActiveSuppliers) /\ IsFiniteSet(Categories)
    /\ \A j \in CatalogueJobs : Len(JobName[j]) \in 1 .. 8
    /\ Numbers \cup Spoken \subseteq 1 .. _MAX_CJK_VALUE

VARIABLES
    said,       \* the line: its tokens
    prices      \* the prices in it, as they were meant

line == <<said, prices>>

-----------------------------------------------------------------------------
(* Tokens. *)

Token == [is |-> "word", norm |-> "", value |-> 0, cents |-> FALSE,
          chars |-> <<>>, unit |-> FALSE]

Word(w) == [Token EXCEPT !.norm = w]
Symbol(s) == [Token EXCEPT !.is = "symbol", !.norm = s]
Number(n, cents) ==
    [Token EXCEPT !.is = "number", !.norm = IF cents THEN "cents" ELSE ToString(n),
                  !.value = n, !.cents = cents]
Numeral(chars, unit) == [Token EXCEPT !.norm = "numeral", !.chars = chars, !.unit = unit]

\* A numeral becomes a number, with a $ before it when it says dollars: its unit.
Rewritten(tok) ==
    LET value == cjk_to_decimal(tok.chars, tok.unit)
    IN  IF tok.chars = <<>> \/ value = NoValue THEN tok
        ELSE [Number(value, FALSE) EXCEPT !.unit = tok.unit]

normalize_cjk_amount_tokens(tokens) == [i \in DOMAIN tokens |-> Rewritten(tokens[i])]

-----------------------------------------------------------------------------
(* The amount. *)

Prefix(tokens, i) ==
    IF tokens[i].unit THEN "$"
    ELSE IF i > 1 /\ tokens[i - 1].is = "symbol" THEN tokens[i - 1].norm ELSE "none"

\* Confidences are in tenths.
_score_candidate(tokens, i) ==
    IF Prefix(tokens, i) = "none" THEN IF tokens[i].cents THEN 7 ELSE 5
    ELSE IF Prefix(tokens, i) # "$" THEN 3
    ELSE IF tokens[i].cents THEN 10 ELSE 9

\* The best candidate; the first of several is only a suggestion.
extract_amount(tokens) ==
    LET candidates == {i \in DOMAIN tokens : tokens[i].is = "number"}
        Conf(i) == _score_candidate(tokens, i)
        top == {i \in candidates : \A k \in candidates : Conf(k) <= Conf(i)}
        winner == CHOOSE i \in top : \A k \in top : i <= k
    IN  IF candidates = {} THEN [value |-> None, conf |-> 0, foreign |-> FALSE, span |-> 0]
        ELSE [value |-> tokens[winner].value,
              conf |-> IF Cardinality(top) = 1 THEN Conf(winner) ELSE 0,
              foreign |-> Conf(winner) = 3, span |-> winner]

-----------------------------------------------------------------------------
(* What the words name. *)

OnlyOne(S) == IF Cardinality(S) = 1 THEN CHOOSE x \in S : TRUE ELSE None

\* Deviation: the amount stays among the words.
AllNormals(tokens, span) ==
    [i \in {k \in DOMAIN tokens : tokens[k].is # "symbol"} |-> tokens[i].norm]

\* Numbers count: a job may be called by one.  The amount does not.
_word_normals(tokens, span) ==
    [i \in {k \in DOMAIN tokens : tokens[k].is # "symbol" /\ k # span} |-> tokens[i].norm]

\* The words of a name, one after the other.
InARow(name, normals) ==
    \E at \in [DOMAIN name -> DOMAIN normals] :
       /\ \A k \in DOMAIN name : normals[at[k]] = name[k]
       /\ \A k \in DOMAIN name \ {1} :
             at[k - 1] < at[k] /\ \A i \in DOMAIN normals : i <= at[k - 1] \/ at[k] <= i

\* By an alias, by its code, or by the words of its name.
NamesJob(normals, j) ==
    \/ \E i \in DOMAIN normals : normals[i] \in JobAliases[j] \cup {JobCode[j]}
    \/ InARow(JobName[j], normals)

match_job(tokens, span) ==
    OnlyOne({j \in CatalogueJobs : NamesJob(_word_normals(tokens, span), j)})

Names(tokens) == {tokens[i].norm : i \in {k \in DOMAIN tokens : tokens[k].is = "word"}}

match_supplier(tokens) ==
    OnlyOne({s \in ActiveSuppliers : Names(tokens) \cap SupplierNames[s] # {}})

Hits(tokens, c) ==
    Cardinality({i \in DOMAIN tokens : tokens[i].is = "word"
                                       /\ tokens[i].norm \in CATEGORY_KEYWORDS[c]})

\* Deviation: a tie is won by one of the two.
AnyOfTied(tokens) ==
    LET top == {c \in Categories : /\ Hits(tokens, c) > 0
                                   /\ \A d \in Categories : Hits(tokens, d) <= Hits(tokens, c)}
    IN  IF top = {} THEN None ELSE CHOOSE c \in top : TRUE

\* The category with more hits than any other, if it is in the catalogue.
match_category(tokens) ==
    LET top == OnlyOne({c \in Categories :
                  Hits(tokens, c) > 0 /\ \A d \in Categories : Hits(tokens, d) <= Hits(tokens, c)})
    IN  IF top \in ActiveCategories THEN top ELSE None

extract_payment_method(tokens) ==
    LET IsPayment(i) == tokens[i].is = "word"
                        /\ tokens[i].norm \in _CASH_KEYWORDS \cup _TRANSFER_KEYWORDS
        first == CHOOSE i \in DOMAIN tokens : IsPayment(i) /\ \A k \in 1 .. i - 1 : ~IsPayment(k)
    IN  IF ~\E i \in DOMAIN tokens : IsPayment(i) THEN "unknown"
        ELSE IF tokens[first].norm \in _CASH_KEYWORDS THEN "cash" ELSE "transfer"

-----------------------------------------------------------------------------
(* The whole pass. *)

\* gating_reasons(derive_review_reasons): the ones that hold an expense for review.
gating_reasons(p) ==
    (IF p.job = None THEN {"job_uncertain"} ELSE {})
    \cup (IF p.amount = None \/ p.conf < 8 THEN {"amount_uncertain"} ELSE {})
    \cup (IF p.foreign THEN {"unsupported_currency"} ELSE {})

Matched(tokens, amt) ==
    [amount |-> amt.value, conf |-> amt.conf, foreign |-> amt.foreign, span |-> amt.span,
     job |-> match_job(tokens, amt.span),
     supplier |-> match_supplier(tokens),
     category |-> match_category(tokens),
     payment |-> extract_payment_method(tokens)]

ParsedTokens(tokens) == Matched(tokens, extract_amount(tokens))

parse(raw) == ParsedTokens(normalize_cjk_amount_tokens(raw))

\* The expense is saved as reviewed.
SavedReviewed(p) == gating_reasons(p) = {}

-----------------------------------------------------------------------------
(* The line is written. *)

\* One item less after a numeral, of which there are many.
Bound == IF said # <<>> /\ said[1].unit THEN MaxItems - 1 ELSE MaxItems

Say(tokens) ==
    /\ Cardinality({i \in DOMAIN said : said[i].is # "symbol"}) < Bound
    /\ said' = said \o tokens

\* An amount in dollars, or in another currency, at its token.
Price(n, cents, foreign, tokens) ==
    /\ Say(tokens)
    /\ prices' = prices \cup {[amount |-> n, cents |-> cents, foreign |-> foreign,
                               at |-> Len(said) + Len(tokens)]}

SayWord(w) == Say(<<Word(w)>>) /\ UNCHANGED prices
SayNumber(n, cents) == Say(<<Number(n, cents)>>) /\ UNCHANGED prices
SayNumeral(n) == Say(<<Numeral(InFull(n), FALSE)>>) /\ UNCHANGED prices
SayPrice(n, cents) == Price(n, cents, FALSE, <<Symbol("$"), Number(n, cents)>>)
SayForeign(n) == Price(n, FALSE, TRUE, <<Symbol("e"), Number(n, FALSE)>>)
SaySpoken(n) == \E way \in Ways(n) : Price(n, FALSE, FALSE, <<Numeral(way, TRUE)>>)

\* A price in numerals opens the line, if there is one.
OpeningNumerals == IF said = <<>> THEN Spoken ELSE {}

EmptyLine ==
    /\ said = <<>>
    /\ prices = {}

SayMore ==
    \/ \E w \in Words : SayWord(w)
    \/ \E n \in Numbers, cents \in BOOLEAN : SayNumber(n, cents) \/ SayPrice(n, cents)
    \/ \E n \in Numbers : SayNumeral(n) \/ SayForeign(n)
    \/ \E n \in OpeningNumerals : SaySpoken(n)

LineSpec == EmptyLine /\ [][SayMore]_line

-----------------------------------------------------------------------------
(* Properties. *)

\* Above 10 000, the ones after a zero: ten thousand and five.
OnesAfterWan(n) == n > _WAN /\ n % _WAN \in 1 .. 9

Explained(parsed) ==
    SavedReviewed(parsed) =>
       \E p \in prices :
          /\ ~p.foreign
          /\ parsed.amount = p.amount \/ OnesAfterWan(p.amount)
          /\ \A q \in prices \ {p} : q.foreign \/ (p.cents /\ ~q.cents)

\* amount.py:33-36, 146-180, cjk_amounts.py: an expense that is saved without a
\* review has the amount of a price of the line as it was meant, in dollars; any
\* other price in dollars is less exact than it.  Numerals that end in ones after
\* 10 000 are the exception.
QuietIsThePrice == Explained(parse(said))

\* cjk_amounts.py:170-172: after a zero 'the next trailing digit (if any) will
\* land in ones place', and only 'when low is a single bare digit' is it shifted
\* (323-325): no numeral is read as another amount.
NumeralsAreRead ==
    \A i \in DOMAIN said : \A p \in prices :
       p.at = i /\ said[i].chars # <<>> =>
          cjk_to_decimal(said[i].chars, said[i].unit) \in {p.amount, NoValue}

Dollars == {p \in prices : ~p.foreign}

\* The line with another amount in place of the price at i.
Repriced(i, n) == [said EXCEPT ![i] = Number(n, @.cents)]

\* jobs.py:100-134: the amount is not taken for the name of a job.  A line with
\* one price in dollars names the same job whatever the amount is.
PriceNamesNoJob ==
    \A p \in Dollars : said[p.at].chars = <<>> /\ Cardinality(Dollars) = 1 =>
       \A n \in Numbers : parse(Repriced(p.at, n)).job = parse(said).job

\* Each answer of p is q's too, or q has none.
Keeps(p, q) ==
    /\ p.job # None => q.job \in {p.job, None}
    /\ p.supplier # None => q.supplier \in {p.supplier, None}
    /\ p.category # None => q.category \in {p.category, None}

\* jobs.py, suppliers.py, categories.py: once a line has its price, a word more
\* may make its job, supplier or category known, or unknown, but never turns one
\* of them into another.
NoQuietSwitch ==
    [][prices' = prices /\ Dollars # {} =>
          Keeps(parse(said), parse(said'))]_line
=============================================================================
