-------------------------------- MODULE Lexer -------------------------------
(***************************************************************************)
(* The lexical analyzer (llex.c), with the conversion of numerals of       *)
(* lobject.c.  The text S.z is a sequence of characters, each a string     *)
(* that is the character, or names it; a byte that is written as a number  *)
(* is named by its number.  S.p is the place of `current', S.buff the      *)
(* buffer, S.ret what a function returns.  An error (luaX_syntaxerror)     *)
(* ends the text.  Numbers have a maximum MAXINTEGER, floats no value.     *)
(***************************************************************************)
EXTENDS Utf8, TLC

CONSTANTS
    MAXINTEGER,            \* LUA_MAXINTEGER
    Reserved               \* the reserved words

EOZ == "EOZ"
Newlines == {"\n", "\r"}
Spaces == {" ", "\t", "\f", "VT"} \cup Newlines
Digit == ("0" :> 0) @@ ("1" :> 1) @@ ("2" :> 2) @@ ("3" :> 3) @@ ("8" :> 8) @@ ("9" :> 9)
Hexa == Digit @@ ("a" :> 10) @@ ("e" :> 14) @@ ("f" :> 15) @@ ("E" :> 14)
Alpha == {"a", "e", "E", "f", "i", "n", "o", "p", "r", "u", "x", "X", "z", "_"}
Alnum == Alpha \cup DOMAIN Digit

cur(S) == IF S.p > Len(S.z) THEN EOZ ELSE S.z[S.p]
next(S) == [S EXCEPT !.p = @ + 1]
save(S, c) == [S EXCEPT !.buff = Append(@, c)]
save_and_next(S) == next(save(S, cur(S)))
resetbuffer(S) == [S EXCEPT !.buff = <<>>]
buffremove(S, n) == [S EXCEPT !.buff = SubSeq(@, 1, Len(@) - n)]
lexerror(S) == [S EXCEPT !.err = TRUE, !.p = Len(S.z) + 1]
Token(S, token, seminfo) == [S EXCEPT !.t = [token |-> token, seminfo |-> seminfo]]
NoInfo == <<>>
check_next2(S, set) == IF cur(S) \in set THEN save_and_next(S) ELSE S

RECURSIVE NextWhile(_, _), SaveWhile(_, _)
NextWhile(S, set) == IF cur(S) \in set THEN NextWhile(next(S), set) ELSE S
SaveWhile(S, set) == IF cur(S) \in set THEN SaveWhile(save_and_next(S), set) ELSE S

PairMissed(S, old) == FALSE                                  \* variant
PairFollows(S, old) == cur(S) \in Newlines /\ cur(S) # old
inclinenumber(S) ==
    LET n == next(S)
    IN  [(IF PairFollows(n, cur(S)) THEN next(n) ELSE n) EXCEPT !.linenumber = @ + 1]

-----------------------------------------------------------------------------
(* Numerals (l_str2int, l_str2d): the value of a sequence of characters,   *)
(* <<"int", n>>, <<"flt">> or NotANumber.                                  *)

NotANumber == <<>>
Wrap(n) == LET m == n % (2 * (MAXINTEGER + 1)) IN IF m > MAXINTEGER THEN m - 2 * (MAXINTEGER + 1) ELSE m
\* The first place from i on of a character that is not in the set.
SkipIn(s, i, set) == Min({j \in i..Len(s) + 1 : j > Len(s) \/ s[j] \notin set})
At(s, i) == IF i > Len(s) THEN EOZ ELSE s[i]
IsHex(s, i) == At(s, i) = "0" /\ At(s, i + 1) \in {"x", "X"}

MAXBY10 == MAXINTEGER \div 10
MAXLASTD == MAXINTEGER % 10
RECURSIVE Decimal(_, _, _, _)
Decimal(s, i, a, neg) ==                \* -1: too large for an integer
    IF At(s, i) \notin DOMAIN Digit THEN a
    ELSE LET d == Digit[s[i]]
         IN  IF a >= MAXBY10 /\ (a > MAXBY10 \/ d > MAXLASTD + neg) THEN -1
             ELSE Decimal(s, i + 1, a * 10 + d, neg)
l_str2int(s) ==
    LET b == SkipIn(s, 1, Spaces)
        neg == IF At(s, b) = "-" THEN 1 ELSE 0
        c == IF At(s, b) \in {"-", "+"} THEN b + 1 ELSE b
        hex == IsHex(s, c)
        d == IF hex THEN c + 2 ELSE c
        end == SkipIn(s, d, IF hex THEN DOMAIN Hexa ELSE DOMAIN Digit)
        a == IF hex THEN FoldLeft(LAMBDA x, h : (x * 16 + Hexa[h]) % (2 * (MAXINTEGER + 1)), 0,
                                  SubSeq(s, d, end - 1))
             ELSE Decimal(s, d, 0, neg)
    IN  IF end = d \/ SkipIn(s, end, Spaces) <= Len(s) \/ a = -1 THEN NotANumber
        ELSE <<"int", Wrap(IF neg = 1 THEN -a ELSE a)>>

\* strtod, for both bases: the end of the longest numeral at i, or i.
Strtod(s, i) ==
    LET c == IF At(s, i) \in {"-", "+"} THEN i + 1 ELSE i
        hex == IsHex(s, c) /\ (At(s, c + 2) \in DOMAIN Hexa
                               \/ (At(s, c + 2) = "." /\ At(s, c + 3) \in DOMAIN Hexa))
        set == IF hex THEN DOMAIN Hexa ELSE DOMAIN Digit
        d == IF hex THEN c + 2 ELSE c
        e == SkipIn(s, d, set)
        f == IF At(s, e) = "." THEN SkipIn(s, e + 1, set) ELSE e
        x == IF At(s, f) \in (IF hex THEN {"p", "P"} ELSE {"e", "E"}) THEN f + 1 ELSE f
        g == IF x > f /\ At(s, x) \in {"-", "+"} THEN x + 1 ELSE x
    IN  IF f - d = 0 \/ (f - d = 1 /\ f > e) THEN i
        ELSE IF x > f /\ At(s, g) \in DOMAIN Digit THEN SkipIn(s, g, DOMAIN Digit) ELSE f
\* l_str2d rejects a text whose first special character is that of `inf' or `nan'.
l_str2d(s) ==
    LET special == {j \in DOMAIN s : s[j] \in {".", "x", "X", "n"}}
        b == SkipIn(s, 1, Spaces)
        end == Strtod(s, b)
    IN  IF special # {} /\ s[Min(special)] = "n" THEN NotANumber
        ELSE IF end = b \/ SkipIn(s, end, Spaces) <= Len(s) THEN NotANumber
        ELSE <<"flt">>
luaO_str2num(s) == IF l_str2int(s) # NotANumber THEN l_str2int(s) ELSE l_str2d(s)

RECURSIVE NumeralRest(_, _)
NumeralRest(S, expo) ==
    IF cur(S) \in expo THEN NumeralRest(check_next2(save_and_next(S), {"-", "+"}), expo)
    ELSE IF cur(S) \in DOMAIN Hexa \cup {"."} THEN NumeralRest(save_and_next(S), expo)
    ELSE S
read_numeral(S) ==
    LET one == save_and_next(S)
        hex == cur(S) = "0" /\ cur(one) \in {"x", "X"}
        rest == NumeralRest(IF hex THEN save_and_next(one) ELSE one,
                            IF hex THEN {"p", "P"} ELSE {"e", "E"})
        all == IF cur(rest) \in Alpha THEN save_and_next(rest) ELSE rest
        n == luaO_str2num(all.buff)
    IN  IF n = NotANumber THEN lexerror(all) ELSE Token(all, n[1], n)

-----------------------------------------------------------------------------
(* Strings and comments.                                                   *)

\* skip_sep: the number of `=' plus 2 before a second bracket, 1 for a single
\* bracket, or 0; the second bracket is left.
skip_sep(S) ==
    LET end == SaveWhile(save_and_next(S), {"="})
        count == end.p - S.p - 1
    IN  [end EXCEPT !.ret = IF cur(end) = cur(S) THEN count + 2
                            ELSE IF count = 0 THEN 1 ELSE 0]

\* read_long_string, from the second bracket; a comment keeps nothing.
RECURSIVE LongRest(_, _, _)
LongRest(S, sep, seminfo) ==
    IF cur(S) = EOZ THEN lexerror(S)
    ELSE IF cur(S) = "]" THEN
        LET e == skip_sep(S)
        IN  IF e.ret = sep THEN save_and_next(e) ELSE LongRest(e, sep, seminfo)
    ELSE IF cur(S) \in Newlines THEN
        LET n == inclinenumber(save(S, "\n"))
        IN  LongRest(IF seminfo THEN n ELSE resetbuffer(n), sep, seminfo)
    ELSE LongRest(IF seminfo THEN save_and_next(S) ELSE next(S), sep, seminfo)
read_long_string(S, sep, seminfo) ==
    LET n == save_and_next(S)
        r == LongRest(IF cur(n) \in Newlines THEN inclinenumber(n) ELSE n, sep, seminfo)
    IN  IF seminfo THEN Token(r, "string", SubSeq(r.buff, sep + 1, Len(r.buff) - sep)) ELSE r

\* The characters that escapes with one letter stand for, and bytes by number.
Escaped == ("a" :> "BEL") @@ ("f" :> "\f") @@ ("n" :> "\n") @@ ("r" :> "\r")
           @@ ("\\" :> "\\") @@ ("\"" :> "\"") @@ ("'" :> "'")
Numbered(n) == "#" \o ToString(n)

esccheck(S, c) == IF c THEN S ELSE lexerror(IF cur(S) # EOZ THEN save_and_next(S) ELSE S)
gethexa(S) == LET n == save_and_next(S) IN esccheck(n, cur(n) \in DOMAIN Hexa)
Hexavalue(S) == IF S.err THEN 0 ELSE Hexa[cur(S)]

\* A function that reads an escape leaves its value in `ret'.
readhexaesc(S) ==
    LET one == gethexa(S)
        two == gethexa(one)
    IN  [buffremove(two, 2) EXCEPT !.ret = Hexavalue(one) * 16 + Hexavalue(two)]

RECURSIVE Utf8Digits(_, _)
Utf8Digits(S, i) ==
    LET n == save_and_next(S)
        c == esccheck(n, S.ret <= MAXUTF \div 16)
        close == esccheck(n, cur(n) = "}")
    IN  IF S.err THEN S
        ELSE IF cur(n) \in DOMAIN Hexa
        THEN Utf8Digits([c EXCEPT !.ret = @ * 16 + Hexavalue(c)], i + 1)
        ELSE buffremove(next(close), i)
readutf8esc(S) ==
    LET u == save_and_next(S)
        r == gethexa(esccheck(u, cur(u) = "{"))
    IN  Utf8Digits([r EXCEPT !.ret = Hexavalue(r)], 4)
utf8esc(S) ==
    LET r == readutf8esc(S)
    IN  IF r.err THEN r
        ELSE FoldLeft(LAMBDA x, byte : save(x, Numbered(byte)), r, luaO_utf8esc(r.ret))

RECURSIVE readdecesc(_, _, _)
readdecesc(S, i, r) ==
    IF i < 3 /\ cur(S) \in DOMAIN Digit
    THEN readdecesc(save_and_next(S), i + 1, 10 * r + Digit[cur(S)])
    ELSE [buffremove(esccheck(S, r <= UCHAR_MAX), i) EXCEPT !.ret = r]

only_save(S, c) == save(buffremove(S, 1), c)        \* instead of the backslash
\* From a backslash on.
read_escape(S) ==
    LET e == save_and_next(S)
        hexa == readhexaesc(e)
        dec == readdecesc(esccheck(e, cur(e) \in DOMAIN Digit), 0, 0)
        RECURSIVE Zap(_)
        Zap(x) == IF cur(x) \in Newlines THEN Zap(inclinenumber(x))
                  ELSE IF cur(x) \in Spaces THEN Zap(next(x)) ELSE x
    IN  CASE cur(e) \in DOMAIN Escaped -> only_save(next(e), Escaped[cur(e)])
          [] cur(e) = "x" -> only_save(next(hexa), Numbered(hexa.ret))
          [] cur(e) = "u" -> utf8esc(e)
          [] cur(e) \in Newlines -> only_save(inclinenumber(e), "\n")
          [] cur(e) = EOZ -> e
          [] cur(e) = "z" -> Zap(next(buffremove(e, 1)))
          [] OTHER -> only_save(dec, Numbered(dec.ret))

RECURSIVE StringRest(_, _)
StringRest(S, del) ==
    IF cur(S) = del THEN save_and_next(S)
    ELSE IF cur(S) \in Newlines \cup {EOZ} THEN lexerror(S)
    ELSE StringRest(IF cur(S) = "\\" THEN read_escape(S) ELSE save_and_next(S), del)
read_string(S) ==
    LET r == StringRest(save_and_next(S), cur(S))
    IN  Token(r, "string", SubSeq(r.buff, 2, Len(r.buff) - 1))

-----------------------------------------------------------------------------
(* Tokens.                                                                 *)

\* A comment, from its second `-': long, or up to the end of the line.
Comment(S) ==
    LET n == next(S)
        b == IF cur(n) = "[" THEN resetbuffer(skip_sep(n)) ELSE n
    IN  IF cur(n) = "[" /\ b.ret >= 2 THEN resetbuffer(read_long_string(b, b.ret, FALSE))
        ELSE [b EXCEPT !.p = Min({j \in b.p..Len(b.z) + 1 : j > Len(b.z) \/ b.z[j] \in Newlines})]

\* Which characters make a longer token of a first one.
Longer == [c \in {"=", "<", ">", "/", "~", ":"} |->
              CASE c = "<" -> {"=", "<"} [] c = ">" -> {"=", ">"} [] c = "/" -> {"/"}
                [] c = ":" -> {":"} [] OTHER -> {"="}]

RECURSIVE llex(_)
llex(S) ==
    LET c == cur(S)
        n == next(S)
        b == skip_sep(S)
        dots == IF cur(n) = "." THEN IF cur(next(n)) = "." THEN 3 ELSE 2 ELSE 1
        word == SaveWhile(S, Alnum)
    IN  CASE c \in Newlines -> llex(inclinenumber(S))
          [] c \in Spaces \ Newlines -> llex(n)
          [] c = "-" -> IF cur(n) = "-" THEN llex(Comment(n)) ELSE Token(n, "-", NoInfo)
          [] c = "[" -> IF b.ret >= 2 THEN read_long_string(b, b.ret, TRUE)
                        ELSE IF b.ret = 0 THEN Token(lexerror(b), "[", NoInfo)
                        ELSE Token(b, "[", NoInfo)
          [] c \in DOMAIN Longer -> IF cur(n) \in Longer[c] THEN Token(next(n), c \o cur(n), NoInfo)
                                    ELSE Token(n, c, NoInfo)
          [] c \in {"\"", "'"} -> read_string(S)
          [] c = "." -> IF dots > 1 THEN Token([S EXCEPT !.p = @ + dots],
                                               IF dots = 2 THEN ".." ELSE "...", NoInfo)
                        ELSE IF cur(n) \in DOMAIN Digit THEN read_numeral(save_and_next(S))
                        ELSE Token(n, ".", NoInfo)
          [] c \in DOMAIN Digit -> read_numeral(S)
          [] c = EOZ -> Token(S, "eos", NoInfo)
          [] c \in Alpha -> IF word.buff \in Reserved THEN Token(word, "reserved", word.buff)
                            ELSE Token(word, "name", word.buff)
          [] OTHER -> Token(n, c, NoInfo)

NoToken == [token |-> "eos", seminfo |-> NoInfo]
luaX_setinput(z) ==
    [z |-> z, p |-> 1, buff |-> <<>>, ret |-> 0, err |-> FALSE,
     linenumber |-> 1, lastline |-> 1, t |-> NoToken, lookahead |-> NoToken]

luaX_next(S) ==
    LET s == [S EXCEPT !.lastline = S.linenumber]
    IN  IF S.lookahead.token # "eos" THEN [s EXCEPT !.t = S.lookahead, !.lookahead = NoToken]
        ELSE llex(resetbuffer(s))
luaX_lookahead(S) ==
    LET s == llex(resetbuffer(S)) IN [s EXCEPT !.lookahead = s.t, !.t = S.t]

=============================================================================
