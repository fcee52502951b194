------------------------------- MODULE Lexemes ------------------------------
(***************************************************************************)
(* The lexical conventions of Lua (manual, section 3.1), as a reference    *)
(* for Lexer: what stands at a place of a text is the longest token, after *)
(* spaces and comments; what each token is is said by its characters, and  *)
(* the line is counted in the text.                                        *)
(***************************************************************************)
EXTENDS Lexer

All(s, set) == \A j \in DOMAIN s : s[j] \in set
Part(z, i, e) == SubSeq(z, i, Min({e, Len(z)}))
Repeat(c, n) == [j \in 1..n |-> c]

\* The places where a newline begins: two different characters are one newline.
RECURSIVE NewlinesIn(_, _)
NewlinesIn(z, i) ==
    IF i > Len(z) THEN {}
    ELSE IF z[i] \notin Newlines THEN NewlinesIn(z, i + 1)
    ELSE {i} \cup NewlinesIn(z, IF At(z, i + 1) \in Newlines \ {z[i]} THEN i + 2 ELSE i + 1)
\* A text with one "\n" for each newline.
Normal(z) ==
    LET starts == NewlinesIn(z, 1)
        kept == SetToSortSeq({j \in DOMAIN z : z[j] \notin Newlines \/ j \in starts}, <)
    IN  [k \in DOMAIN kept |-> IF z[kept[k]] \in Newlines THEN "\n" ELSE z[kept[k]]]

\* Long brackets: the level of one that opens at i, and the ends of it.
Bracket(c, level) == <<c>> \o Repeat("=", level) \o <<c>>
Level(z, i) == {k \in 0..Len(z) : Part(z, i, i + k + 1) = Bracket("[", k)}
LongEnds(z, i, k) ==
    {e \in i + 2 * k + 3..Len(z) : Part(z, e - k - 1, e) = Bracket("]", k)}
LongText(z, i, k, e) ==
    LET text == Normal(Part(z, i + k + 2, e - k - 2))
    IN  IF text # <<>> /\ text[1] = "\n" THEN Tail(text) ELSE text

\* Results: a token up to a place, or an error.
Lexeme(e, token, seminfo) == [end |-> e, token |-> token, seminfo |-> seminfo, err |-> FALSE]
Bad == [end |-> 0, token |-> "eos", seminfo |-> NoInfo, err |-> TRUE]

\* The ways to write a piece of a string at i: its end and what it stands for.
Hexadecimal(s) == FoldLeft(LAMBDA x, h : x * 16 + Hexa[h], 0, s)
Number(s) == FoldLeft(LAMBDA x, d : x * 10 + Digit[d], 0, s)
Bytes(codes) == [j \in DOMAIN codes |-> Numbered(codes[j])]
LongestIn(z, i, set) == Max({i - 1} \cup {e \in i..Len(z) : All(Part(z, i, e), set)})
Piece(z, i, del) ==
    LET c == At(z, i + 1)
        hex == LongestIn(z, i + 3, DOMAIN Hexa)
        digits == Min({i + 3, LongestIn(z, i + 1, DOMAIN Digit)})
    IN  IF z[i] # "\\" THEN IF z[i] \in Newlines THEN {} ELSE {<<i, <<z[i]>>>>}
        ELSE {<<i + 1, <<Escaped[x]>>>> : x \in {c} \cap DOMAIN Escaped}
          \cup {<<i + 3, <<Numbered(Hexadecimal(Part(z, i + 2, i + 3)))>>>> :
                  x \in {"x"} \cap {IF i + 3 <= Len(z) /\ All(Part(z, i + 2, i + 3), DOMAIN Hexa)
                                    THEN c ELSE EOZ}}
          \cup {<<hex + 1, Bytes(Sequence(Hexadecimal(Part(z, i + 3, hex))))>> :
                  x \in {"u"} \cap {IF /\ At(z, i + 2) = "{" /\ At(z, hex + 1) = "}" /\ hex >= i + 3
                                       /\ Hexadecimal(Part(z, i + 3, hex)) <= MAXUTF
                                    THEN c ELSE EOZ}}
          \cup {<<digits, <<Numbered(Number(Part(z, i + 1, digits)))>>>> :
                  x \in {c} \cap (IF Number(Part(z, i + 1, digits)) <= UCHAR_MAX
                                  THEN DOMAIN Digit ELSE {})}
          \cup {<<IF At(z, i + 2) \in Newlines \ {c} THEN i + 2 ELSE i + 1, <<"\n">>>> :
                  x \in {c} \cap Newlines}
          \cup {<<LongestIn(z, i + 2, Spaces), <<>>>> : x \in {c} \cap {"z"}}
RECURSIVE StringAt(_, _, _, _)
StringAt(z, i, del, text) ==
    IF i > Len(z) THEN Bad
    ELSE IF z[i] = del THEN Lexeme(i, "string", text)
    ELSE LET pieces == Piece(z, i, del)
             p == CHOOSE p \in pieces : TRUE
         IN  IF pieces = {} THEN Bad ELSE StringAt(z, p[1] + 1, del, text \o p[2])

\* Numerals: digits with at most one dot, and an exponent.
IsExponent(s, mark) ==
    s = <<>> \/ /\ s[1] \in mark
                /\ LET d == IF At(s, 2) \in {"-", "+"} THEN 3 ELSE 2
                   IN  Len(s) >= d /\ All(Part(s, d, Len(s)), DOMAIN Digit)
IsMantissa(s, digits) ==
    /\ \E j \in DOMAIN s : s[j] \in digits
    /\ \E j \in 0..Len(s) + 1 : \A k \in DOMAIN s : s[k] \in digits \/ (k = j /\ s[k] = ".")
NumeralValue(s) ==
    LET hex == IsHex(s, 1)
        body == IF hex THEN Part(s, 3, Len(s)) ELSE s
        digits == IF hex THEN DOMAIN Hexa ELSE DOMAIN Digit
        valid == \E j \in 0..Len(body) :
                    /\ IsMantissa(Part(body, 1, j), digits)
                    /\ IsExponent(Part(body, j + 1, Len(body)), IF hex THEN {"p", "P"} ELSE {"e", "E"})
    IN  IF ~valid THEN NotANumber
        ELSE IF hex /\ All(body, digits) THEN <<"int", Wrap(Hexadecimal(body))>>
        ELSE IF ~hex /\ All(s, digits) /\ Number(s) <= MAXINTEGER THEN <<"int", Number(s)>>
        ELSE <<"flt">>
\* How far a numeral reaches: a sign only follows an exponent mark.
NumeralEnd(z, i) ==
    LET d == IF z[i] = "." THEN i + 1 ELSE i
        hex == IsHex(z, d)
        mark == IF hex THEN {"p", "P"} ELSE {"e", "E"}
        b == IF hex THEN d + 2 ELSE d
        Fits(j) == \/ z[j] \in DOMAIN Hexa \cup {"."} \cup mark
                   \/ z[j] \in {"-", "+"} /\ j > b /\ z[j - 1] \in mark
        e == Max({b - 1} \cup {e \in b..Len(z) : \A j \in b..e : Fits(j)})
    IN  IF At(z, e + 1) \in Alpha THEN e + 1 ELSE e

Symbols == {<<"=">>, <<"=", "=">>, <<"<">>, <<"<", "=">>, <<"<", "<">>, <<">">>, <<">", "=">>,
            <<">", ">">>, <<"/">>, <<"/", "/">>, <<"~">>, <<"~", "=">>, <<":">>, <<":", ":">>,
            <<".">>, <<".", ".">>, <<".", ".", ".">>}
Joined(s) == FoldLeft(LAMBDA x, c : x \o c, "", s)

RECURSIVE LexemeAt(_, _)
LexemeAt(z, i) ==
    LET c == z[i]
        levels == Level(z, i)
        k == CHOOSE k \in levels : TRUE
        comment == Level(z, i + 2)
        ck == CHOOSE n \in comment : TRUE
        ends == {e \in i..Len(z) : Part(z, i, e) \in Symbols}
        text == Part(z, i, NumeralEnd(z, i))
        word == Part(z, i, LongestIn(z, i, Alnum))
    IN  IF i > Len(z) THEN Lexeme(i - 1, "eos", NoInfo)
        ELSE IF c \in Spaces THEN LexemeAt(z, i + 1)
        ELSE IF Part(z, i, i + 1) = <<"-", "-">> THEN
             IF comment = {} THEN LexemeAt(z, Min({j \in i..Len(z) + 1 : At(z, j) \in Newlines \cup {EOZ}}))
             ELSE IF LongEnds(z, i + 2, ck) = {} THEN Bad
             ELSE LexemeAt(z, Min(LongEnds(z, i + 2, ck)) + 1)
        ELSE IF levels # {} THEN
             IF LongEnds(z, i, k) = {} THEN Bad
             ELSE LET e == Min(LongEnds(z, i, k)) IN Lexeme(e, "string", LongText(z, i, k, e))
        ELSE IF c = "[" /\ At(z, i + 1) = "=" THEN Bad
        ELSE IF c \in {"\"", "'"} THEN StringAt(z, i + 1, c, <<>>)
        ELSE IF At(z, IF c = "." THEN i + 1 ELSE i) \in DOMAIN Digit THEN
             IF NumeralValue(text) = NotANumber THEN Bad
             ELSE Lexeme(i + Len(text) - 1, NumeralValue(text)[1], NumeralValue(text))
        ELSE IF c \in Alpha THEN
             Lexeme(i + Len(word) - 1, IF word \in Reserved THEN "reserved" ELSE "name", word)
        ELSE IF ends # {} THEN Lexeme(Max(ends), Joined(Part(z, i, Max(ends))), NoInfo)
        ELSE Lexeme(i, c, NoInfo)

-----------------------------------------------------------------------------
(* The lexer against it.  `ahead' says after which tokens it looks ahead, *)
(* in turn, so that Last(ahead) is whether it has looked at the next one.  *)
(* Lines are counted when a token is scanned, not when it is consumed.     *)
(* `lastline' is to be the line of the token that was consumed last        *)
(* (llex.h:66); behind a look-ahead it is that of the token looked at.     *)

RECURSIVE ReadsFrom(_, _, _, _)
ReadsFrom(S, i, ahead, line) ==
    LET m == luaX_next(S)
        x == LexemeAt(S.z, i)
        here == 1 + Cardinality(NewlinesIn(Part(S.z, 1, x.end), 1))
        again == IF Head(ahead) /\ m.t.token # "eos" THEN luaX_lookahead(m) ELSE m
        rest == Tail(ahead) \o <<Head(ahead)>>
    IN  IF x.err THEN m.err
        ELSE /\ ~m.err /\ m.t = [token |-> x.token, seminfo |-> x.seminfo]
             /\ m.linenumber = here
             /\ m.lastline = IF Last(ahead) THEN here ELSE line
             /\ \/ x.token = "eos"
                \/ again.err /\ LexemeAt(S.z, x.end + 1).err
                \/ ~again.err /\ ReadsFrom(again, x.end + 1, rest, here)
ReadsText(z) == \A ahead \in {<<FALSE>>, <<TRUE, FALSE>>} : ReadsFrom(luaX_setinput(z), 1, ahead, 1)

\* A text that is converted to a number may have spaces around it and a sign.
ConvertsNumeral(s) ==
    LET b == SkipIn(s, 1, Spaces)
        e == Max({b - 1} \cup {j \in b..Len(s) : s[j] \notin Spaces})
        d == IF At(s, b) \in {"-", "+"} THEN b + 1 ELSE b
        v == NumeralValue(Part(s, d, e))
        most == All(Part(s, d, e), DOMAIN Digit) /\ d <= e /\ Number(Part(s, d, e)) = MAXINTEGER + 1
    IN  luaO_str2num(s) = IF At(s, b) # "-" \/ v = NotANumber THEN v
                          ELSE IF most THEN <<"int", -MAXINTEGER - 1>>
                          ELSE IF v[1] = "int" THEN <<"int", Wrap(-v[2])>>
                          ELSE v

=============================================================================
