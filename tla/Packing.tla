------------------------------ MODULE Packing ------------------------------
(***************************************************************************)
(* string.pack, packsize and unpack (lstrlib.c).  A byte has NB bits, a    *)
(* Lua integer SZINT bytes.  A format is a sequence of characters; a       *)
(* string to pack is a sequence of bytes, and a float, of C or of Lua, the *)
(* sequence of bytes that represents it in memory.  Arguments have the     *)
(* types that the format asks for.                                         *)
(***************************************************************************)
EXTENDS Integers, Sequences, SequencesExt, FiniteSets, FiniteSetsExt

CONSTANTS
    NB,
    SZINT,
    MAXINTSIZE,
    MAXALIGN,
    MAXSIZE,
    sizeof,        \* of the types of C
    tofloat,       \* (float) of each lua_Number, which rounds,
    fromfloat,     \* and (lua_Number) of each float, which is exact
    nativelittle

Byte == 0..2^NB - 1
lua_Integer == -(2^(NB * SZINT - 1))..2^(NB * SZINT - 1) - 1
Unsigned(n) == n % 2^(NB * SZINT)
Signed(u) == IF u \in lua_Integer THEN u ELSE u - 2^(NB * SZINT)
PADBYTE == 0

-----------------------------------------------------------------------------
(* Formats.                                                                *)

\* The Header, with the rest of the format, the option that was read with its size and
\* padding, and an error.
initheader(fmt) ==
    [fmt |-> fmt, islittle |-> nativelittle, maxalign |-> 1,
     opt |-> "Knop", size |-> 0, ntoalign |-> 0, err |-> ""]
Wrong(h, why) == IF h.err = "" THEN [h EXCEPT !.err = why] ELSE h
More(h) == h.fmt # <<>> /\ h.err = ""

Digits == <<"0", "1", "2", "3", "4", "5", "6", "7", "8", "9">>
digit(fmt) == fmt # <<>> /\ Head(fmt) \in ToSet(Digits)
RECURSIVE Numeral(_, _)
Numeral(fmt, a) ==
    LET n == 10 * a + SelectInSeq(Digits, LAMBDA x : x = Head(fmt)) - 1
    IN  IF digit(Tail(fmt)) /\ n <= (MAXSIZE - 9) \div 10 THEN Numeral(Tail(fmt), n)
        ELSE [num |-> n, fmt |-> Tail(fmt)]
getnum(fmt, df) == IF digit(fmt) THEN Numeral(fmt, 0) ELSE [num |-> df, fmt |-> fmt]

\* The option opt, with a size that follows it.
Sized(h, opt, df) ==
    LET n == getnum(h.fmt, df) IN [h EXCEPT !.fmt = n.fmt, !.opt = opt, !.size = n.num]
getnumlimit(h, opt, df) ==
    LET s == Sized(h, opt, df)
    IN  IF s.size > MAXINTSIZE \/ s.size <= 0 THEN Wrong(s, "integral size out of limits") ELSE s

SignedTypes == [b |-> "char", h |-> "short", l |-> "long", j |-> "lua_Integer"]
UnsignedTypes == [B |-> "char", H |-> "short", L |-> "long", J |-> "lua_Integer", T |-> "size_t"]
FloatTypes == [f |-> "float", n |-> "lua_Number", d |-> "double"]
FloatOptions == [f |-> "Kfloat", n |-> "Knumber", d |-> "Kdouble"]
getoption(h) ==
    LET c == Head(h.fmt)
        o == [h EXCEPT !.fmt = Tail(@), !.opt = "Knop", !.size = 0]
    IN  CASE c \in DOMAIN SignedTypes -> [o EXCEPT !.opt = "Kint", !.size = sizeof[SignedTypes[c]]]
          [] c \in DOMAIN UnsignedTypes -> [o EXCEPT !.opt = "Kuint", !.size = sizeof[UnsignedTypes[c]]]
          [] c \in DOMAIN FloatTypes -> [o EXCEPT !.opt = FloatOptions[c], !.size = sizeof[FloatTypes[c]]]
          [] c = "i" -> getnumlimit(o, "Kint", sizeof["int"])
          [] c = "I" -> getnumlimit(o, "Kuint", sizeof["int"])
          [] c = "s" -> getnumlimit(o, "Kstring", sizeof["size_t"])
          [] c = "c" -> LET s == Sized(o, "Kchar", -1)
                        IN  IF s.size = -1 THEN Wrong(s, "missing size for format option 'c'") ELSE s
          [] c = "z" -> [o EXCEPT !.opt = "Kzstr"]
          [] c = "x" -> [o EXCEPT !.opt = "Kpadding", !.size = 1]
          [] c = "X" -> [o EXCEPT !.opt = "Kpaddalign"]
          [] c = " " -> o
          [] c = "<" -> [o EXCEPT !.islittle = TRUE]
          [] c = ">" -> [o EXCEPT !.islittle = FALSE]
          [] c = "=" -> [o EXCEPT !.islittle = nativelittle]
          [] c = "!" -> LET s == getnumlimit(o, "Knop", MAXALIGN)
                        IN  [s EXCEPT !.maxalign = s.size, !.size = 0]
          [] OTHER -> Wrong(o, "invalid format option")

PowerOf2(n) == \E k \in 0..n : n = 2^k
\* `X' takes its alignment from the option behind it.
Following(o) ==
    IF o.fmt = <<>> THEN Wrong(o, "invalid next option for option 'X'")
    ELSE LET n == getoption(o)
         IN  IF n.opt = "Kchar" \/ n.size = 0 THEN Wrong(n, "invalid next option for option 'X'")
             ELSE n
PadOver(align, totalsize) == align - (totalsize % align)       \* variant
Padding(align, totalsize) == (align - (totalsize % align)) % align
getdetails(h, totalsize) ==
    LET o == getoption(h)
        n == IF o.opt = "Kpaddalign" /\ o.err = "" THEN Following(o) ELSE o
        align == Min({n.size, o.maxalign})
        d == [n EXCEPT !.opt = o.opt, !.size = o.size, !.ntoalign = 0]
    IN  IF n.size <= 1 \/ o.opt = "Kchar" \/ n.err # "" THEN d
        ELSE IF ~PowerOf2(align) THEN Wrong(d, "format asks for alignment not power of 2")
        ELSE [d EXCEPT !.ntoalign = Padding(align, totalsize)]

-----------------------------------------------------------------------------
(* Integers and floats.                                                    *)

NoExtension(n, little, size, neg) ==                         \* variant
    LET bytes == [i \in 1..size |-> (Unsigned(n) \div 2^(NB * (i - 1))) % 2^NB]
    IN  IF little THEN bytes ELSE Reverse(bytes)
\* packint: bytes behind those of a Lua integer extend its sign.
packint(n, little, size, neg) ==
    LET bytes == [i \in 1..size |->
                    IF neg /\ i > SZINT THEN 2^NB - 1
                    ELSE (Unsigned(n) \div 2^(NB * (i - 1))) % 2^NB]
    IN  IF little THEN bytes ELSE Reverse(bytes)

\* unpackint.  Bytes behind those of a Lua integer have to extend its sign.
unpackint(str, little, signed) ==
    LET size == Len(str)
        bytes == IF little THEN str ELSE Reverse(str)
        limit == Min({size, SZINT})
        res == FoldLeftDomain(LAMBDA r, i : r + bytes[i] * 2^(NB * (i - 1)), 0, SubSeq(bytes, 1, limit))
        negative == signed /\ res >= 2^(NB * limit - 1)
        mask == IF ~signed \/ Signed(res) >= 0 THEN 0 ELSE 2^NB - 1
    IN  [n |-> IF size < SZINT /\ negative THEN res - 2^(NB * size) ELSE Signed(res),
         fits |-> \A i \in SZINT + 1..size : bytes[i] = mask]

copywithendian(bytes, little) == IF little = nativelittle THEN bytes ELSE Reverse(bytes)

-----------------------------------------------------------------------------
(* Packing.                                                                *)

Zeros(n) == [i \in 1..n |-> PADBYTE]
Strlen(s) == LET zeros == {i \in DOMAIN s : s[i] = 0}
             IN  IF zeros = {} THEN Len(s) ELSE Min(zeros) - 1

\* The conditions of str_pack on an argument.
Overflows(h, arg) ==
    CASE h.opt = "Kint" -> h.size < SZINT /\ arg \notin -(2^(NB * h.size - 1))..2^(NB * h.size - 1) - 1
      [] h.opt = "Kuint" -> h.size < SZINT /\ Unsigned(arg) >= 2^(h.size * NB)
      [] h.opt = "Kchar" -> Len(arg) > h.size
      [] h.opt = "Kstring" -> h.size < sizeof["size_t"] /\ Len(arg) >= 2^(h.size * NB)
      [] h.opt = "Kzstr" -> Strlen(arg) # Len(arg)
      [] OTHER -> FALSE
\* What is written of an argument.
Bytes(h, arg) ==
    CASE h.opt = "Kint" -> packint(arg, h.islittle, h.size, arg < 0)
      [] h.opt = "Kuint" -> packint(arg, h.islittle, h.size, FALSE)
      [] h.opt = "Kfloat" -> copywithendian(tofloat[arg], h.islittle)
      [] h.opt \in {"Knumber", "Kdouble"} -> copywithendian(arg, h.islittle)
      [] h.opt = "Kchar" -> arg \o Zeros(h.size - Len(arg))
      [] h.opt = "Kstring" -> packint(Len(arg), h.islittle, h.size, FALSE) \o arg
      [] h.opt = "Kzstr" -> arg \o <<0>>
\* What a string adds to the total size besides the size of its option.
Extra(h, arg) == CASE h.opt = "Kstring" -> Len(arg) [] h.opt = "Kzstr" -> Len(arg) + 1 [] OTHER -> 0

HasValue(h) == h.opt \notin {"Kpadding", "Kpaddalign", "Knop"}
RECURSIVE PackRest(_, _, _, _)
PackRest(h, totalsize, out, args) ==
    IF ~More(h) THEN [out |-> out, err |-> h.err]
    ELSE LET d == getdetails(h, totalsize)
             total == totalsize + d.ntoalign + d.size
             padded == out \o Zeros(d.ntoalign)
         IN  IF d.err # "" THEN [out |-> out, err |-> d.err]
             ELSE IF ~HasValue(d)
                  THEN PackRest(d, total, padded \o (IF d.opt = "Kpadding" THEN <<PADBYTE>> ELSE <<>>), args)
             ELSE IF Overflows(d, Head(args)) THEN [out |-> out, err |-> "overflow"]
             ELSE PackRest(d, total + Extra(d, Head(args)), padded \o Bytes(d, Head(args)), Tail(args))
str_pack(fmt, args) == PackRest(initheader(fmt), 0, <<>>, args)

RECURSIVE SizeRest(_, _)
SizeRest(h, totalsize) ==
    IF ~More(h) THEN [size |-> totalsize, err |-> h.err]
    ELSE LET d == getdetails(h, totalsize)
             size == d.size + d.ntoalign
         IN  IF d.err = "" /\ d.opt \notin {"Kstring", "Kzstr"} /\ totalsize <= MAXSIZE - size
             THEN SizeRest(d, totalsize + size)
             ELSE [size |-> totalsize, err |-> "variable-length format or too large"]
str_packsize(fmt) == SizeRest(initheader(fmt), 0)

-----------------------------------------------------------------------------
(* Unpacking.                                                              *)

posrelatI(pos, len) ==
    IF pos > 0 THEN pos ELSE IF pos = 0 \/ pos < -len THEN 1 ELSE len + pos + 1

\* One item at pos, the number of bytes before it: its value, and how many bytes it takes.
Item(d, data, pos) ==
    LET len == Strlen(SubSeq(data, pos + 1, Len(data)))
        part == SubSeq(data, pos + 1, pos + d.size)
        int == unpackint(part, d.islittle, d.opt = "Kint")
        count == Unsigned(int.n)
    IN  CASE d.opt \in {"Kint", "Kuint"} -> [fits |-> int.fits, value |-> int.n, size |-> d.size]
          [] d.opt = "Kfloat" ->
                [fits |-> TRUE, value |-> fromfloat[copywithendian(part, d.islittle)], size |-> d.size]
          [] d.opt \in {"Knumber", "Kdouble"} ->
                [fits |-> TRUE, value |-> copywithendian(part, d.islittle), size |-> d.size]
          [] d.opt = "Kchar" -> [fits |-> TRUE, value |-> part, size |-> d.size]
          [] d.opt = "Kstring" ->
                IF int.fits /\ count <= Len(data) - pos - d.size
                THEN [fits |-> TRUE, value |-> SubSeq(data, pos + d.size + 1, pos + d.size + count),
                      size |-> d.size + count]
                ELSE [fits |-> FALSE]
          [] d.opt = "Kzstr" ->
                [fits |-> pos + len < Len(data), value |-> SubSeq(data, pos + 1, pos + len), size |-> len + 1]

RECURSIVE UnpackRest(_, _, _, _)
UnpackRest(h, data, pos, out) ==
    IF ~More(h) THEN [out |-> out, next |-> pos + 1, err |-> h.err]
    ELSE LET d == getdetails(h, pos)
             start == pos + d.ntoalign
             i == Item(d, data, start)
             failed(why) == [out |-> out, next |-> pos + 1, err |-> why]
         IN  IF d.err # "" THEN failed(d.err)
             ELSE IF d.ntoalign + d.size > Len(data) - pos THEN failed("data string too short")
             ELSE IF ~HasValue(d) THEN UnpackRest(d, data, start + d.size, out)
             ELSE IF ~i.fits THEN failed("data string too short, or an integer does not fit")
             ELSE UnpackRest(d, data, start + i.size, Append(out, i.value))
str_unpack(fmt, data, init) ==
    LET pos == posrelatI(init, Len(data)) - 1
    IN  IF pos > Len(data) THEN [out |-> <<>>, next |-> 1, err |-> "initial position out of string"]
        ELSE UnpackRest(initheader(fmt), data, pos, <<>>)

-----------------------------------------------------------------------------
(* Properties.                                                             *)

\* The options of a format that take arguments, which do not depend on these, or an error.
RECURSIVE Options(_, _)
Options(h, opts) ==
    IF ~More(h) THEN [opts |-> opts, err |-> h.err]
    ELSE LET d == getdetails(h, 0) IN Options(d, IF HasValue(d) THEN Append(opts, d) ELSE opts)

\* The value of bytes, the last ones first, of any number of bits.
ValueOf(bytes, signed) ==
    LET size == Len(bytes)
        u == FoldLeftDomain(LAMBDA r, i : r + bytes[i] * 2^(NB * (i - 1)), 0, bytes)
    IN  IF signed /\ u >= 2^(NB * size - 1) THEN u - 2^(NB * size) ELSE u

\* Integers of any size are packed as their two's complement, unsigned ones as what is
\* left of them modulo 2^(NB*SZINT), and any bytes that are the value of a Lua integer,
\* and no others, are unpacked (lstrlib.c packint, unpackint).
IntegersArePacked ==
    \A size \in 1..MAXINTSIZE, signed \in BOOLEAN :
        /\ \A n \in lua_Integer :
              LET m == IF signed THEN n ELSE Unsigned(n)
                  d == [opt |-> IF signed THEN "Kint" ELSE "Kuint", size |-> size]
                  fits == \E bytes \in [1..Min({size, SZINT}) -> Byte] : ValueOf(bytes, signed) = m
              IN  /\ Overflows(d, n) = (IF signed THEN ~fits ELSE m >= 2^(NB * size))
                  /\ ~Overflows(d, n) => ValueOf(packint(n, TRUE, size, signed /\ n < 0), signed) = m
        /\ \A bytes \in [1..size -> Byte] :
              LET v == ValueOf(bytes, signed)
                  u == unpackint(Reverse(bytes), FALSE, signed)
              IN  /\ u.fits = (v \in IF signed THEN lua_Integer ELSE 0..2^(NB * SZINT) - 1)
                  /\ u.fits => u.n = IF signed THEN v ELSE Signed(v)

\* What was packed is unpacked, alone or behind other aligned data, by a position from
\* the start or the end: a string behind its padding, a number packed with `f' as the float
\* it was rounded to, any other value as it was; a part of it never is; and its size is
\* known before (lstrlib.c str_pack, str_packsize, str_unpack).
UnpacksPacked(fmt, args, opts) ==
    LET p == str_pack(fmt, args)
        u == str_unpack(fmt, p.out, 1)
        z == str_packsize(fmt)
        before == Zeros(MAXINTSIZE)
        after == str_unpack(fmt, before \o p.out, -Len(p.out))
        read(i) == CASE opts[i].opt = "Kchar" -> args[i] \o Zeros(opts[i].size - Len(args[i]))
                     [] opts[i].opt = "Kfloat" -> fromfloat[tofloat[args[i]]]
                     [] OTHER -> args[i]
        fixed == \A i \in DOMAIN opts : opts[i].opt \notin {"Kstring", "Kzstr"}
        ok == \A i \in DOMAIN opts : ~Overflows(opts[i], args[i])
    IN  /\ (p.err = "") = ok
        /\ ok =>
             /\ u = [out |-> [i \in DOMAIN opts |-> read(i)], next |-> Len(p.out) + 1, err |-> ""]
             /\ p.out # <<>> => after = [u EXCEPT !.next = Len(before \o p.out) + 1]
             /\ \A k \in 0..Len(p.out) - 1 : str_unpack(fmt, SubSeq(p.out, 1, k), 1).err # ""
             /\ IF fixed /\ Len(p.out) <= MAXSIZE THEN z = [size |-> Len(p.out), err |-> ""]
                ELSE z.err # ""

\* An item that needs alignment begins at the next multiple of the smaller of its size and
\* the maximum, or of the size that follows `X' (lstrlib.c getdetails).
Aligns ==
    \A size \in 2..MAXINTSIZE, m \in {n \in 1..MAXINTSIZE : PowerOf2(n)}, total \in 0..2 * MAXINTSIZE :
        \A fmt \in {<<"i", Digits[size + 1]>>, <<"X", "i", Digits[size + 1]>>} :
            LET d == getdetails([initheader(fmt) EXCEPT !.maxalign = m], total)
                align == Min({size, m})
            IN  d.err = "" => d.ntoalign \in 0..align - 1 /\ (total + d.ntoalign) % align = 0

\* A format that is wrong is wrong for everything.
PacksFormat(fmt, argsOf(_)) ==
    LET o == Options(initheader(fmt), <<>>)
    IN  IF o.err = "" THEN \A args \in argsOf(o.opts) : UnpacksPacked(fmt, args, o.opts)
        ELSE str_packsize(fmt).err # ""
=============================================================================
