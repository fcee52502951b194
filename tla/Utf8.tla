-------------------------------- MODULE Utf8 --------------------------------
(***************************************************************************)
(* UTF-8, as lobject.c writes it and lutf8lib.c reads it.  A byte has      *)
(* CONT + 2 bits (six and two in the code), of which a continuation byte   *)
(* has CONT for the character; a sequence has at most CONT - 1 of these.   *)
(* Positions in a string count from 1, as in Lua, and a C string ends with *)
(* a byte 0.  Arguments are integers; FAIL is the value `fail' of Lua.     *)
(***************************************************************************)
EXTENDS Integers, Sequences, SequencesExt, FiniteSetsExt

CONSTANTS
    CONT,                  \* bits of a continuation byte
    MAXUNICODE,            \* the last code that is a character
    Surrogates,            \* codes that are no characters
    FAIL, ERROR            \* results that are not numbers

P2(n) == 2^n
ASCII == P2(CONT + 1)                         \* 0x80
UCHAR_MAX == P2(CONT + 2) - 1
MAXUTF == P2(CONT * (CONT - 1) + 1) - 1       \* 0x7FFFFFFF

\* A C string is read up to its final 0.
Byte(s, i) == IF i = Len(s) + 1 THEN 0 ELSE s[i]
iscont(s, i) == Byte(s, i) \div P2(CONT) = 2

-----------------------------------------------------------------------------
(* Encoding (luaO_utf8esc): continuation bytes from the last one, until    *)
(* the rest fits in the first byte, of which mfb is the largest.           *)
RECURSIVE Encode(_, _, _)
Encode(x, mfb, rest) ==
    LET bytes == <<ASCII + (x % P2(CONT))>> \o rest
        high == x \div P2(CONT)
        fits == mfb \div 2
    IN  IF high > fits THEN Encode(high, fits, bytes)
        ELSE <<UCHAR_MAX + 1 - 2 * (fits + 1) + high>> \o bytes
luaO_utf8esc(x) == IF x < ASCII THEN <<x>> ELSE Encode(x, P2(CONT) - 1, <<>>)

-----------------------------------------------------------------------------
(* Decoding.                                                               *)

\* The bits of the first byte c, from the second one, that announce continuation
\* bytes; utf8_decode shifts c for each of them.
RECURSIVE Announced(_)
Announced(c) == IF (c \div P2(CONT)) % 2 = 1 THEN 1 + Announced(2 * c) ELSE 0

\* The least code for each number of continuation bytes; none is large enough for 0.
limits(count) ==
    CASE count = 0 -> MAXUTF + 1
      [] count = 1 -> ASCII
      [] OTHER -> P2(CONT * count + 1 - count)
IsCharacter(res) == res <= MAXUNICODE /\ res \notin Surrogates

\* utf8_decode: [val, next], or NULL as `next = 0'.
NULL == [val |-> 0, next |-> 0]
AcceptsLong(res, count) == res <= MAXUTF                     \* variant
Accepts(res, count) == res <= MAXUTF /\ res >= limits(count)
utf8_decode(s, i, strict) ==
    LET c == Byte(s, i)
        count == Announced(c)
        res == FoldLeft(LAMBDA r, k : r * P2(CONT) + (Byte(s, i + k) % P2(CONT)),
                        ((c * P2(count)) % ASCII) \div P2(count), [k \in 1..count |-> k])
    IN  IF c < ASCII THEN [val |-> c, next |-> i + 1]
        ELSE IF \E k \in 1..count :
                    (\A l \in 1..k - 1 : iscont(s, i + l)) /\ ~iscont(s, i + k) THEN NULL
        ELSE IF count > CONT - 1 \/ ~Accepts(res, count) THEN NULL
        ELSE IF strict /\ ~IsCharacter(res) THEN NULL
        ELSE [val |-> res, next |-> i + count + 1]

u_posrelat(pos, len) ==
    IF pos >= 0 THEN pos ELSE IF -pos > len THEN 0 ELSE len + pos + 1

-----------------------------------------------------------------------------
(* The functions of the library.  A result is the sequence of the values.  *)

RECURSIVE CountFrom(_, _, _, _, _)
CountFrom(s, posi, posj, n, lax) ==
    LET s1 == utf8_decode(s, posi, ~lax)
    IN  IF posi > posj THEN <<n>>
        ELSE IF s1 = NULL THEN <<FAIL, posi>>
        ELSE CountFrom(s, s1.next, posj, n + 1, lax)
utflen(s, i, j, lax) ==
    LET posi == u_posrelat(i, Len(s))
        posj == u_posrelat(j, Len(s))
    IN  IF posi \notin 1..Len(s) + 1 \/ posj > Len(s) THEN ERROR
        ELSE CountFrom(s, posi, posj, 0, lax)

RECURSIVE Codes(_, _, _, _)
Codes(s, posi, pose, lax) ==
    LET c == utf8_decode(s, posi, ~lax)
    IN  IF posi > pose THEN <<>>
        ELSE IF c = NULL THEN ERROR
        ELSE LET rest == Codes(s, c.next, pose, lax)
             IN  IF rest = ERROR THEN ERROR ELSE <<c.val>> \o rest
codepoint(s, i, j, lax) ==
    LET posi == u_posrelat(i, Len(s))
        pose == u_posrelat(j, Len(s))
    IN  IF posi < 1 \/ pose > Len(s) THEN ERROR ELSE Codes(s, posi, pose, lax)

utfchar(codes) ==
    IF \E k \in DOMAIN codes : codes[k] \notin 0..MAXUTF THEN ERROR
    ELSE FlattenSeq([k \in DOMAIN codes |-> luaO_utf8esc(codes[k])])

\* byteoffset: positions of first bytes, backwards and forwards.
RECURSIVE Back(_, _, _), Forth(_, _, _)
Back(s, pos, n) ==                              \* [pos, n]: n characters left
    LET before == {p \in 1..pos - 1 : p = 1 \/ ~iscont(s, p)}
    IN  IF n = 0 \/ pos = 1 THEN <<pos, n>> ELSE Back(s, Max(before), n + 1)
Forth(s, pos, n) ==
    LET after == {p \in pos + 1..Len(s) + 1 : ~iscont(s, p)}
    IN  IF n = 0 \/ pos > Len(s) THEN <<pos, n>> ELSE Forth(s, Min(after), n - 1)
byteoffset(s, n, i) ==
    LET posi == u_posrelat(i, Len(s))
        moved == IF n < 0 THEN Back(s, posi, n) ELSE Forth(s, posi, n - 1)
    IN  IF posi \notin 1..Len(s) + 1 THEN ERROR
        ELSE IF n = 0 THEN <<Max({1} \cup {p \in 1..posi : ~iscont(s, p)})>>
        ELSE IF iscont(s, posi) THEN ERROR
        ELSE IF moved[2] = 0 THEN <<moved[1]>> ELSE <<FAIL>>

\* iter_aux: from the position n of the last character, 0 before the first; what
\* follows is skipped as long as it looks like a continuation.
iter_aux(s, n, strict) ==
    LET at == IF n <= 0 THEN 1
              ELSE IF n > Len(s) THEN n
              ELSE Min({p \in n + 1..Len(s) + 1 : ~iscont(s, p)})
        c == utf8_decode(s, at, strict)
    IN  IF at > Len(s) THEN <<>> ELSE IF c = NULL THEN ERROR ELSE <<at, c.val>>

RECURSIVE iter_codes(_, _, _)
iter_codes(s, n, lax) ==                        \* all that the iterator returns
    LET now == iter_aux(s, n, ~lax)
    IN  IF now = ERROR THEN ERROR
        ELSE IF now = <<>> THEN <<>>
        ELSE LET rest == iter_codes(s, now[1], lax)
             IN  IF rest = ERROR THEN ERROR ELSE <<now>> \o rest

-----------------------------------------------------------------------------
(* What they should do.  A sequence is of the shortest form that has room. *)

Room(count) == IF count = 0 THEN CONT + 1 ELSE CONT * count + CONT - count
Length(x) == Min({n \in 0..CONT - 1 : x < P2(Room(n))})
Sequence(x) ==
    LET n == Length(x)
        lead == IF n = 0 THEN 0 ELSE UCHAR_MAX + 1 - P2(CONT + 1 - n)
    IN  [k \in 1..n + 1 |->
            (IF k = 1 THEN lead ELSE ASCII)
            + ((x \div P2(CONT * (n + 1 - k))) % (IF k = 1 THEN ASCII ELSE P2(CONT)))]
Allowed(lax) == {x \in 0..MAXUTF : lax \/ IsCharacter(x)}

\* The characters of s from i on: pairs of a position and a code, up to the
\* first position where there is none, or the end.
RECURSIVE Characters(_, _, _)
Characters(s, i, lax) ==
    LET here == {x \in Allowed(lax) :
                    /\ i + Length(x) <= Len(s)
                    /\ SubSeq(s, i, i + Length(x)) = Sequence(x)}
        x == CHOOSE x \in here : TRUE
    IN  IF here = {} THEN <<>> ELSE <<<<i, x>>>> \o Characters(s, i + Length(x) + 1, lax)

\* utf8.codes begins a character at the first byte and at each one that is no continuation,
\* whatever stands between the end of a character and the next of these; it fails if there
\* is one where no character is.
VisitsCharacters(s, lax) ==
    LET starts == SetToSortSeq({p \in DOMAIN s : p = 1 \/ ~iscont(s, p)}, <)
        at(k) == Characters(s, starts[k], lax)
    IN  iter_codes(s, 0, lax) = IF \E k \in DOMAIN starts : at(k) = <<>> THEN ERROR
                                ELSE [k \in DOMAIN starts |-> Head(at(k))]

EncodesAll == \A x \in 0..MAXUTF : luaO_utf8esc(x) = Sequence(x)

\* len and codepoint agree with the characters of s, for every start and end, up to the
\* first position where there is none; char and offset with those of a text without one.
ReadsCharacters(s, lax) ==
    \A i \in 1..Len(s) + 1 :
        LET all == Characters(s, i, lax)
            stop == IF all = <<>> THEN i ELSE Last(all)[1] + Length(Last(all)[2]) + 1
            good == stop = Len(s) + 1            \* everything is well formed
            starts == {all[k][1] : k \in DOMAIN all}
        IN  /\ \A j \in i - 1..Len(s) :
                 LET in == SelectSeq(all, LAMBDA c : c[1] <= j)
                     ok == j < stop
                 IN  /\ utflen(s, i, j, lax) = IF ok THEN <<Len(in)>> ELSE <<FAIL, stop>>
                     /\ codepoint(s, i, j, lax) =
                          IF ok THEN [k \in DOMAIN in |-> in[k][2]] ELSE ERROR
            /\ good =>
                 /\ utfchar([k \in DOMAIN all |-> all[k][2]]) = SubSeq(s, i, Len(s))
                 /\ \A n \in 1..Len(all) + 1 :
                      byteoffset(s, n, i) = <<(Append(all, <<stop, 0>>))[n][1]>>
                 /\ byteoffset(s, Len(all) + 2, i) = <<FAIL>>
                 /\ \A k \in DOMAIN all :
                      /\ byteoffset(s, -k, Len(s) + 1) = <<all[Len(all) + 1 - k][1]>>
                      /\ \A p \in all[k][1]..all[k][1] + Length(all[k][2]) :
                           byteoffset(s, 0, p) = <<all[k][1]>>

=============================================================================
