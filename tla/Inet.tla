-------------------------------- MODULE Inet --------------------------------
(***************************************************************************)
(* IPv6 addresses and their texts: inet_ntop6 and inet_pton6 of            *)
(* src/src/inet.cpp.  A text is a sequence of tokens, a colon, the hex     *)
(* digits of one word or a dotted quad; an address is its eight words.     *)
(* Texts are formatted, edited by the user and parsed.                     *)
(***************************************************************************)
EXTENDS Integers, SequencesExt

CONSTANTS
    Words,      \* the values a word can have
    MaxEdits    \* bound: edits of a text

\* 0xffff in front of an IPv4 address.
Mapped == 65535

ASSUME InetAssumption == Words \subseteq 0..Mapped /\ 0 \in Words /\ MaxEdits \in Nat

VARIABLES
    addr,       \* the address that was formatted
    text,       \* its text, as edited so far
    edits,      \* the number of edits, -1 before there is a text
    parsed      \* what inet_pton6 made of the text

inetVars == <<addr, text, edits, parsed>>

Colon == <<"colon">>
Word(w) == <<"word", w>>
Quad(u, v) == <<"quad", u, v>>
EINVAL == <<>>
NotYet == <<"not yet">>

----------------------------------------------------------------------------
(* inet_ntop6.                                                             *)

\* The loop that looks for the longest run of zero words; indices from 1,
\* base 0 for none.
NoRun == [base |-> 0, len |-> 0]
\* Mutant: the last of the longest runs.
BetterLast(best, cur) ==
    IF cur.base # 0 /\ (best.base = 0 \/ cur.len >= best.len) THEN cur ELSE best

Better(best, cur) ==
    IF cur.base # 0 /\ (best.base = 0 \/ cur.len > best.len) THEN cur ELSE best

BestRun(words) ==
    LET Look(r, i) ==
            IF words[i] # 0 THEN [best |-> Better(r.best, r.cur), cur |-> NoRun]
            ELSE [r EXCEPT !.cur = IF @.base = 0 THEN [base |-> i, len |-> 1]
                                   ELSE [@ EXCEPT !.len = @ + 1]]
        last == FoldLeft(Look, [best |-> NoRun, cur |-> NoRun], <<1, 2, 3, 4, 5, 6, 7, 8>>)
        best == Better(last.best, last.cur)
    IN  IF best.len < 2 THEN NoRun ELSE best

\* An IPv4 address in the last two words, in the cases that are shown so.
Encapsulated(words, best) ==
    /\ best.base = 1
    /\ best.len = 6 \/ (best.len = 7 /\ words[8] # 1) \/ (best.len = 5 /\ words[6] = Mapped)

inet_ntop6(words) ==
    LET best == BestRun(words)
        InRun(i) == best.base # 0 /\ i >= best.base /\ i < best.base + best.len
        Put(r, i) ==
            IF r.done THEN r
            ELSE IF InRun(i)
            THEN IF i = best.base THEN [r EXCEPT !.out = Append(@, Colon)] ELSE r
            ELSE LET out == IF i # 1 THEN Append(r.out, Colon) ELSE r.out IN
                 IF i = 7 /\ Encapsulated(words, best)
                 THEN [out |-> Append(out, Quad(words[7], words[8])), done |-> TRUE]
                 ELSE [r EXCEPT !.out = Append(out, Word(words[i]))]
        all == FoldLeft(Put, [out |-> <<>>, done |-> FALSE], <<1, 2, 3, 4, 5, 6, 7, 8>>).out
    IN  IF best.base # 0 /\ best.base + best.len = 9 THEN Append(all, Colon) ELSE all

----------------------------------------------------------------------------
(* inet_pton6.                                                             *)

\* One token: tmp is what is stored, val the digits seen since the last
\* colon, colonp where :: was, -1 for nowhere.
ScanToken(r, token, atEnd) ==
    LET bad == [r EXCEPT !.err = TRUE] IN
    IF r.err THEN r
    ELSE CASE token[1] = "word" -> [r EXCEPT !.val = <<token[2]>>]
           [] token = Colon ->
                IF r.val = <<>>
                THEN IF r.colonp # -1 THEN bad ELSE [r EXCEPT !.colonp = Len(r.tmp)]
                ELSE IF atEnd \/ Len(r.tmp) + 1 > 8 THEN bad
                ELSE [r EXCEPT !.tmp = @ \o r.val, !.val = <<>>]
           [] OTHER ->
                IF atEnd /\ Len(r.tmp) + 2 <= 8
                THEN [r EXCEPT !.tmp = @ \o <<token[2], token[3]>>, !.val = <<>>] ELSE bad

\* What follows :: is moved to the end of the address.
Shift(tmp, colonp) ==
    [i \in 1..8 |-> LET n == Len(tmp) - colonp IN
                    IF i <= colonp THEN tmp[i] ELSE IF i > 8 - n THEN tmp[Len(tmp) - 8 + i] ELSE 0]

inet_pton6(src) ==
    LET lead == src # <<>> /\ Head(src) = Colon
        rest == IF lead THEN Tail(src) ELSE src
        start == [tmp |-> <<>>, val |-> <<>>, colonp |-> -1,
                  err |-> lead /\ (rest = <<>> \/ Head(rest) # Colon)]
        r == FoldLeft(LAMBDA s, i : ScanToken(s, rest[i], i = Len(rest)),
                      start, [i \in 1..Len(rest) |-> i])
        tmp == r.tmp \o r.val
    IN  IF r.err \/ Len(tmp) > 8 THEN EINVAL
        ELSE IF r.colonp # -1
        THEN IF Len(tmp) = 8 THEN EINVAL ELSE Shift(tmp, r.colonp)
        ELSE IF Len(tmp) # 8 THEN EINVAL ELSE tmp

----------------------------------------------------------------------------
(* The user formats an address, edits the text and has it parsed.          *)

\* Two numbers in a row would be one.
Tokens(t) == \A i \in 1..(Len(t) - 1) : t[i] = Colon \/ t[i + 1] = Colon

Format ==
    /\ edits = -1
    /\ \E words \in [1..8 -> Words] : addr' = words /\ text' = inet_ntop6(words)
    /\ edits' = 0 /\ UNCHANGED parsed

Edit ==
    /\ parsed = NotYet /\ edits \in 0..(MaxEdits - 1)
    /\ \E i \in 1..(Len(text) + 1) :
         \/ i <= Len(text) /\ text' = RemoveAt(text, i)
         \/ \E token \in {Colon, Word(1)} : text' = InsertAt(text, i, token)
    /\ Tokens(text')
    /\ edits' = edits + 1
    /\ UNCHANGED <<addr, parsed>>

Parse ==
    /\ parsed = NotYet /\ edits >= 0
    /\ parsed' = inet_pton6(text)
    /\ UNCHANGED <<addr, text, edits>>

InetInit ==
    /\ addr = [i \in 1..8 |-> 0] /\ text = <<>>
    /\ edits = -1 /\ parsed = NotYet

InetNext == Format \/ Edit \/ Parse

InetSpec == InetInit /\ [][InetNext]_inetVars

----------------------------------------------------------------------------
(* Properties.                                                             *)

Parsed == parsed # NotYet

\* The reference: the words of a part of a text without "::", which are
\* separated by single colons, a quad counting as two at the very end.
Values(part) ==
    FlattenSeq([i \in 1..((Len(part) + 1) \div 2) |-> Tail(part[2 * i - 1])])
WellFormed(part, last) ==
    /\ Len(part) % 2 = 1
    /\ \A i \in 1..Len(part) :
         /\ part[i] = Colon <=> i % 2 = 0
         /\ part[i][1] = "quad" => last /\ i = Len(part)

\* The places of a "::" that separates two parts, either of which may be
\* empty, of less than eight words together.
Left(t, k) == SubSeq(t, 1, k - 1)
Right(t, k) == SubSeq(t, k + 2, Len(t))
Gaps(t) ==
    {k \in 1..(Len(t) - 1) :
        /\ t[k] = Colon /\ t[k + 1] = Colon
        /\ Left(t, k) = <<>> \/ WellFormed(Left(t, k), FALSE)
        /\ Right(t, k) = <<>> \/ WellFormed(Right(t, k), TRUE)
        /\ Len(Values(Left(t, k))) + Len(Values(Right(t, k))) < 8}

\* A text is an address if it is eight words, or two parts with "::".
Legal(t) == (WellFormed(t, TRUE) /\ Len(Values(t)) = 8) \/ Gaps(t) # {}
Denotes(t, a) ==
    \/ WellFormed(t, TRUE) /\ Values(t) = a
    \/ \E k \in Gaps(t) :
         LET n == Len(Values(Left(t, k)))
             m == Len(Values(Right(t, k)))
         IN  a = Values(Left(t, k)) \o [i \in 1..(8 - n - m) |-> 0] \o Values(Right(t, k))

\* uv_inet_pton reads back every address that uv_inet_ntop writes.
RoundTrip == Parsed /\ edits = 0 => parsed = addr

\* uv_inet_pton accepts exactly the texts that denote an address, and
\* answers with that address, however the text was edited.
AcceptsGrammar ==
    Parsed => IF parsed = EINVAL THEN ~Legal(text) ELSE Denotes(text, parsed)

\* uv_inet_ntop shortens the first of the longest runs of two or more
\* zeros, and writes no other address the same way.
Shortest ==
    edits = 0 /\ ~Parsed =>
        LET Zeros(b, l) == b + l <= 9 /\ \A i \in b..(b + l - 1) : addr[i] = 0
            b == BestRun(addr).base
            l == BestRun(addr).len
        IN  /\ \A i \in 1..8, j \in 2..8 : Zeros(i, j) => j <= l
            /\ l >= 2 => Zeros(b, l) /\ \A i \in 1..(b - 1) : ~Zeros(i, l)
            /\ l >= 2 <=> \E i \in 1..(Len(text) - 1) : text[i] = Colon /\ text[i + 1] = Colon

\* Formatting and parsing agree with each other and with the grammar.
InetRight == RoundTrip /\ AcceptsGrammar /\ Shortest
=============================================================================
