-------------------------------- MODULE Chunks ------------------------------
(***************************************************************************)
(* Precompiled chunks: ldump.c writes a prototype to a writer, in blocks,  *)
(* and lundump.c reads it back, through the buffers of lzio.c, however the *)
(* reader cuts the stream into pieces.                                     *)
(*                                                                         *)
(* A chunk is a sequence of bytes of 1 + PAYLOAD bits (seven and one in    *)
(* the code).  Instructions, numbers and characters take one of them each. *)
(* A string that may be missing is <<>>, for NULL, or <<text>>.            *)
(***************************************************************************)
EXTENDS Integers, Sequences, FiniteSets, SequencesExt

CONSTANTS
    PAYLOAD,        \* bits of a size in one byte
    INT_MAX,        \* the limit of loadInt
    SIZE_MAX,       \* the limit of loadSize
    LUA_SIGNATURE   \* any sequence of bytes, as the other fields of the header

NoString == <<>>
Mark == 2^PAYLOAD   \* 0x80

\* The tags of constants, and which have a value after the tag
LUA_VNIL == 0
LUA_VFALSE == 1
LUA_VTRUE == 2
LUA_VNUMFLT == 3
LUA_VNUMINT == 4
LUA_VSHRSTR == 5
LUA_VLNGSTR == 6

\* The header after the signature: its fields, and what is wrong when one differs.  Each
\* of the last two is one number.
Header == <<[bytes |-> <<4>>, msg |-> "version mismatch"],
            [bytes |-> <<0>>, msg |-> "format mismatch"],
            [bytes |-> <<1, 3>>, msg |-> "corrupted chunk"],
            [bytes |-> <<4>>, msg |-> "Instruction size mismatch"],
            [bytes |-> <<5>>, msg |-> "lua_Integer size mismatch"],
            [bytes |-> <<6>>, msg |-> "lua_Number size mismatch"],
            [bytes |-> <<7>>, msg |-> "integer format mismatch"],
            [bytes |-> <<2>>, msg |-> "float format mismatch"]>>

-----------------------------------------------------------------------------
(* ldump.c: a dump is a sequence of blocks.                                *)

dumpBlock(b) == IF b = <<>> THEN <<>> ELSE <<b>>
dumpByte(y) == <<<<y>>>>

\* The digits of a size, the last one with a mark
RECURSIVE Digits(_)
Digits(x) == (IF x < Mark THEN <<>> ELSE Digits(x \div Mark)) \o <<x % Mark>>
dumpSize(x) == LET d == Digits(x) IN dumpBlock([d EXCEPT ![Len(d)] = @ + Mark])
dumpInt(x) == dumpSize(x)

dumpString(s) ==
    IF s = NoString THEN dumpSize(0) ELSE dumpSize(Len(s[1]) + 1) \o dumpBlock(s[1])

\* A vector with its size, each element dumped on its own
Each(v, dump(_)) == FlattenSeq([i \in DOMAIN v |-> dump(v[i])])
dumpVector(v, dump(_)) == dumpInt(Len(v)) \o Each(v, dump)

dumpCode(f) == dumpInt(Len(f.code)) \o dumpBlock(f.code)

dumpConstant(o) ==
    dumpByte(o.tt) \o CASE o.tt \in {LUA_VNUMFLT, LUA_VNUMINT} -> dumpBlock(<<o.v>>)
                        [] o.tt \in {LUA_VSHRSTR, LUA_VLNGSTR} -> dumpString(<<o.v>>)
                        [] OTHER -> <<>>
dumpConstants(f) == dumpVector(f.k, dumpConstant)

dumpUpvalues(f) ==
    dumpVector(f.upvalues,
               LAMBDA u : dumpByte(u.instack) \o dumpByte(u.idx) \o dumpByte(u.kind))

\* Stripping leaves the four vectors empty.
dumpDebug(f, strip) ==
    LET kept(v) == IF strip THEN <<>> ELSE v
        abs(a) == dumpInt(a.pc) \o dumpInt(a.line)
        var(v) == dumpString(v.varname) \o dumpInt(v.startpc) \o dumpInt(v.endpc)
    IN  dumpInt(Len(kept(f.lineinfo))) \o dumpBlock(kept(f.lineinfo))
          \o dumpVector(kept(f.abslineinfo), abs)
          \o dumpVector(kept(f.locvars), var)
          \o dumpVector(kept(f.upvalues), LAMBDA u : dumpString(u.name))

\* A function with the source of its parent is dumped without one.
RECURSIVE dumpFunction(_, _, _)
dumpProtos(f, strip) == dumpVector(f.p, LAMBDA g : dumpFunction(g, strip, f.source))
dumpFunction(f, strip, psource) ==
    dumpString(IF strip \/ f.source = psource THEN NoString ELSE f.source)
      \o dumpInt(f.linedefined) \o dumpInt(f.lastlinedefined)
      \o dumpByte(f.numparams) \o dumpByte(f.is_vararg) \o dumpByte(f.maxstacksize)
      \o dumpCode(f) \o dumpConstants(f) \o dumpUpvalues(f)
      \o dumpProtos(f, strip) \o dumpDebug(f, strip)

dumpHeader == dumpBlock(LUA_SIGNATURE) \o Each(Header, LAMBDA h : dumpBlock(h.bytes))

\* The blocks that reach a writer whose call number `fails' is the first to return an
\* error (0 for none), and the status of the dump
luaU_dump(f, strip, fails) ==
    LET blocks == dumpHeader \o dumpByte(Len(f.upvalues)) \o dumpFunction(f, strip, NoString)
        stops == fails \in DOMAIN blocks
    IN  [blocks |-> IF stops THEN SubSeq(blocks, 1, fails) ELSE blocks,
         status |-> IF stops THEN 1 ELSE 0]

-----------------------------------------------------------------------------
(* lzio.c: a stream is what is left of the buffer `p', and the pieces that *)
(* the reader will give.  An empty piece is the end of the stream.         *)

luaZ_init(pieces) == [p |-> <<>>, pieces |-> pieces]
AtEnd(z) == z.p = <<>> /\ (z.pieces = <<>> \/ Head(z.pieces) = <<>>)
luaZ_fill(z) == [p |-> Head(z.pieces), pieces |-> Tail(z.pieces)]

\* Reads n bytes, or finds that some are missing.
RECURSIVE luaZ_read(_, _, _)
luaZ_read(z, b, n) ==
    LET m == IF n <= Len(z.p) THEN n ELSE Len(z.p)
    IN  IF n = 0 THEN [z |-> z, b |-> b, missing |-> 0]
        ELSE IF AtEnd(z) THEN [z |-> z, b |-> b, missing |-> n]
        ELSE IF z.p = <<>> THEN luaZ_read(luaZ_fill(z), b, n)
        ELSE luaZ_read([z EXCEPT !.p = SubSeq(@, m + 1, Len(@))],
                       b \o SubSeq(z.p, 1, m), n - m)

-----------------------------------------------------------------------------
(* lundump.c: each operator takes a LoadState and returns it with what it  *)
(* loaded in `out'.  After an error nothing is loaded.                     *)

LoadState(z) == [Z |-> z, out |-> <<>>, err |-> ""]
error(S, why) == IF S.err = "" THEN [S EXCEPT !.err = why] ELSE S
Out(S, v) == [S EXCEPT !.out = v]

\* A count that was loaded; none after an error
N(S) == IF S.err = "" THEN S.out ELSE 0

loadBlock(S, n) ==
    LET r == luaZ_read(S.Z, <<>>, n)
    IN  IF S.err # "" THEN S
        ELSE IF r.missing > 0 THEN error(S, "truncated chunk")
        ELSE [S EXCEPT !.Z = r.z, !.out = r.b]
loadByte(S) == LET r == loadBlock(S, 1) IN IF r.err # "" THEN r ELSE Out(r, r.out[1])

RECURSIVE loadDigits(_, _, _)
loadDigits(S, x, limit) ==
    LET r == loadByte(S)
        y == x * Mark + (r.out % Mark)
    IN  IF r.err # "" THEN r
        ELSE IF x >= limit THEN error(r, "integer overflow")
        ELSE IF r.out >= Mark THEN Out(r, y) ELSE loadDigits(r, y, limit)
loadUnsigned(S, limit) == loadDigits(S, 0, limit \div Mark)
loadSize(S) == loadUnsigned(S, SIZE_MAX)
loadInt(S) == loadUnsigned(S, INT_MAX)

loadStringN(S) ==
    LET size == loadSize(S)
        text == loadBlock(size, N(size) - 1)
    IN  IF N(size) = 0 THEN Out(size, NoString) ELSE Out(text, <<text.out>>)
loadString(S) ==
    LET st == loadStringN(S)
    IN  IF st.err # "" THEN st
        ELSE IF st.out = NoString THEN error(st, "bad format for constant string")
        ELSE Out(st, st.out[1])

\* n elements, each loaded on its own
Many(load(_), S, n) ==
    LET next(r, i) == LET e == load(r.S) IN [S |-> e, v |-> Append(r.v, e.out)]
        all == FoldLeft(next, [S |-> S, v |-> <<>>], [i \in 1..n |-> i])
    IN  Out(all.S, all.v)
loadVector(S, load(_)) == LET n == loadInt(S) IN Many(load, n, N(n))

loadCode(S) == LET n == loadInt(S) IN loadBlock(n, N(n))

loadConstant(S) ==
    LET t == loadByte(S)
        v == CASE N(t) \in {LUA_VNUMFLT, LUA_VNUMINT} -> loadByte(t)
               [] N(t) \in {LUA_VSHRSTR, LUA_VLNGSTR} -> loadString(t)
               [] OTHER -> Out(t, <<>>)
    IN  Out(v, [tt |-> t.out, v |-> v.out])
loadConstants(S) == loadVector(S, loadConstant)

\* The names come with the debug information.
loadUpvalue(S) ==
    LET instack == loadByte(S)
        idx == loadByte(instack)
        kind == loadByte(idx)
    IN  Out(kind, [instack |-> instack.out, idx |-> idx.out, kind |-> kind.out,
                   name |-> NoString])
loadUpvalues(S) == loadVector(S, loadUpvalue)

loadAbs(S) ==
    LET pc == loadInt(S)
        line == loadInt(pc)
    IN  Out(line, [pc |-> pc.out, line |-> line.out])
loadLocVar(S) ==
    LET name == loadStringN(S)
        startpc == loadInt(name)
        endpc == loadInt(startpc)
    IN  Out(endpc, [varname |-> name.out, startpc |-> startpc.out, endpc |-> endpc.out])
loadDebug(S, f) ==
    LET lineinfo == loadCode(S)
        abs == loadVector(lineinfo, loadAbs)
        locvars == loadVector(abs, loadLocVar)
        names == loadVector(locvars, loadStringN)
        named == [i \in DOMAIN f.upvalues |->
                    IF i \in DOMAIN names.out THEN [f.upvalues[i] EXCEPT !.name = names.out[i]]
                    ELSE f.upvalues[i]]
    IN  IF names.err # "" THEN names
        ELSE Out(names, [f EXCEPT !.lineinfo = lineinfo.out, !.abslineinfo = abs.out,
                                  !.locvars = locvars.out, !.upvalues = named])

OwnSource(source, psource) == source                         \* variant
\* A function without a source has that of its parent.
SourceOf(source, psource) == IF source = NoString THEN psource ELSE source
RECURSIVE loadFunction(_, _)
loadProtos(S, source) == loadVector(S, LAMBDA r : loadFunction(r, source))
loadFunction(S, psource) ==
    LET name == loadStringN(S)
        source == SourceOf(name.out, psource)
        first == loadInt(name)
        last == loadInt(first)
        params == loadByte(last)
        vararg == loadByte(params)
        stack == loadByte(vararg)
        code == loadCode(stack)
        k == loadConstants(code)
        upvalues == loadUpvalues(k)
        p == loadProtos(upvalues, source)
        f == [source |-> source, linedefined |-> first.out, lastlinedefined |-> last.out,
              numparams |-> params.out, is_vararg |-> vararg.out, maxstacksize |-> stack.out,
              code |-> code.out, k |-> k.out, upvalues |-> upvalues.out, p |-> p.out,
              lineinfo |-> <<>>, abslineinfo |-> <<>>, locvars |-> <<>>]
    IN  IF p.err # "" THEN p ELSE loadDebug(p, f)

checkField(S, field) ==
    LET r == loadBlock(S, Len(field.bytes))
    IN  IF r.err = "" /\ r.out # field.bytes THEN error(r, field.msg) ELSE r

\* The first byte of the signature was read before (luaD_protectedparser).
checkHeader(S) ==
    FoldLeft(checkField, S,
             <<[bytes |-> Tail(LUA_SIGNATURE), msg |-> "not a binary chunk"]>> \o Header)

luaU_undump(S) ==
    LET nupvalues == loadByte(checkHeader(S))
        f == loadFunction(nupvalues, NoString)
    IN  IF f.err # "" THEN [err |-> f.err]
        ELSE [err |-> "", p |-> f.out, nupvalues |-> nupvalues.out]

\* A stream that does not begin as a binary chunk is text for the parser.
f_parser(pieces) ==
    LET c == loadByte(LoadState(luaZ_init(pieces)))
    IN  IF c.err # "" \/ c.out # LUA_SIGNATURE[1] THEN [err |-> "text"] ELSE luaU_undump(c)

-----------------------------------------------------------------------------
(* What is kept.                                                           *)

\* A function without its debug information
RECURSIVE Stripped(_)
Stripped(f) ==
    [f EXCEPT !.source = NoString, !.lineinfo = <<>>, !.abslineinfo = <<>>, !.locvars = <<>>,
              !.upvalues = [i \in DOMAIN @ |-> [@[i] EXCEPT !.name = NoString]],
              !.p = [i \in DOMAIN @ |-> Stripped(@[i])]]

\* A reader's pieces of a chunk: all of it, two pieces, or a byte at a time
Pieces(chunk, at) ==
    CASE at = 0 -> <<chunk>>
      [] at \in 1..Len(chunk) - 1 -> <<SubSeq(chunk, 1, at), SubSeq(chunk, at + 1, Len(chunk))>>
      [] OTHER -> [i \in DOMAIN chunk |-> <<chunk[i]>>]

\* Loading a dump gives the function, without its debug information when that was
\* stripped, whatever the pieces that the reader gives; loading less than all of it, as
\* after a writer that failed, or a header of another build, is an error.
LoadUndoesDump(f, strip, at) ==
    LET whole == luaU_dump(f, strip, 0)
        chunk == FlattenSeq(whole.blocks)
        part(n) == luaU_dump(f, strip, n)
        begin == Len(FlattenSeq(dumpHeader))
    IN  /\ f_parser(Pieces(chunk, at))
             = [err |-> "", p |-> IF strip THEN Stripped(f) ELSE f,
                nupvalues |-> Len(f.upvalues)]
        /\ whole.status = 0
        /\ at \in 1..Len(chunk) - 1 =>
             f_parser(Pieces(SubSeq(chunk, 1, at), at \div 2)).err = "truncated chunk"
        /\ at \in 1..Len(whole.blocks) - 1 =>
             /\ part(at).status # 0
             /\ f_parser(part(at).blocks).err = "truncated chunk"
        /\ at \in 2..begin =>
             f_parser(<<[chunk EXCEPT ![at] = (@ + 1) % Mark]>>).err \notin {"", "text"}

\* A size is read as it was written, below the last multiple of Mark in the limit.
SizesAreKept(x, limit) ==
    LET r == loadUnsigned(LoadState(luaZ_init(dumpSize(x))), limit)
    IN  IF x < (limit \div Mark) * Mark THEN r.err = "" /\ r.out = x
        ELSE r.err = "integer overflow"

=============================================================================
