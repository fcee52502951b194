------------------------------- MODULE Searches -----------------------------
(***************************************************************************)
(* The searches of lstrlib.c that string.find, match, gmatch and gsub make *)
(* with the matches of Patterns, and a reference for both.  A pattern here *)
(* is a record: is it anchored with a `^', and its other items.            *)
(***************************************************************************)
EXTENDS Patterns

\* A relative position in a string of length len
posrelatI(pos, len) ==
    IF pos > 0 THEN pos ELSE IF pos = 0 \/ pos < -len THEN 1 ELSE len + pos + 1

\* The first place of `text' in src, from init on.  The first character must be in
\* the window that leaves room for the others.
lmemfind(src, init, text) ==
    LET window == init..Len(src) - Len(text)
        found == {i \in window : SubSeq(src, i + 1, i + Len(text)) = text}
    IN  IF Len(text) = 0 THEN init ELSE IF found = {} THEN NULL ELSE Min(found)

\* Is the pattern a plain text?  SPECIALS has no `)', which is plain text in such a pattern.
Plain(item) == \/ item = Close
               \/ item.kind = "class" /\ item.suffix = "once" /\ Cardinality(item.set) = 1
nospecials(pattern) ==
    ~pattern.anchor /\ \A i \in DOMAIN pattern.items : Plain(pattern.items[i])
TextOf(items) == [i \in DOMAIN items |-> IF items[i] = Close THEN ")"
                                         ELSE CHOOSE ch \in items[i].set : TRUE]

\* Tries the match at s1 and, unless the pattern is anchored, at each later place.
RECURSIVE SearchFrom(_, _, _)
SearchFrom(ms, s1, anchor) ==
    LET r == match(reprepstate(ms), s1, 1)
    IN  IF r.at # NULL \/ anchor \/ s1 >= Len(ms.src)
        THEN [start |-> s1, ms |-> r]
        ELSE SearchFrom(r, s1 + 1, anchor)

NotFound == Values(<<<<"fail">>>>)
str_find_aux(src, pattern, pos, find, plain) ==
    LET init == posrelatI(pos, Len(src)) - 1
        text == TextOf(pattern.items)
        at == lmemfind(src, init, text)
        found == SearchFrom(prepstate(src, pattern.items), init, pattern.anchor)
        captures == IF find THEN push_captures(found.ms, NULL, 0)
                    ELSE push_captures(found.ms, found.start, found.ms.at)
    IN  IF init > Len(src) THEN NotFound
        ELSE IF find /\ (plain \/ nospecials(pattern))
        THEN IF at = NULL THEN NotFound ELSE Values(<<Pos(at + 1), Pos(at + Len(text))>>)
        ELSE IF found.ms.at = ERROR THEN Failed(found.ms.err)
        ELSE IF found.ms.at = NULL THEN NotFound
        ELSE IF captures.err # "" \/ ~find THEN captures
        ELSE Values(<<Pos(found.start + 1), Pos(found.ms.at)>> \o captures.vals)

-----------------------------------------------------------------------------
(* gmatch: its iterator keeps where the last match ended.                  *)

\* In gmatch a `^' is a character as any other.
gmatch(src, pattern, pos) ==
    LET init == posrelatI(pos, Len(src)) - 1
        items == IF pattern.anchor THEN <<Literal("^")>> \o pattern.items ELSE pattern.items
    IN  [ms |-> prepstate(src, items), lastmatch |-> NULL,
         src |-> IF init > Len(src) THEN Len(src) + 1 ELSE init]

\* The first match from s1 on that does not end where the last one did
RECURSIVE NextMatch(_, _, _)
NextMatch(ms, s1, lastmatch) ==
    LET r == match(reprepstate(ms), s1, 1)
    IN  IF s1 > Len(ms.src) THEN [start |-> s1, ms |-> Fail(ms)]
        ELSE IF r.at = ERROR \/ r.at \notin {NULL, lastmatch} THEN [start |-> s1, ms |-> r]
        ELSE NextMatch(r, s1 + 1, lastmatch)

\* One call of the iterator: its new state, and its results (none at the end)
gmatch_aux(gm) ==
    LET found == NextMatch(gm.ms, gm.src, gm.lastmatch)
        e == found.ms.at
    IN  CASE e = ERROR -> [gm |-> [gm EXCEPT !.ms = found.ms], res |-> Failed(found.ms.err)]
          [] e = NULL -> [gm |-> [gm EXCEPT !.ms = found.ms], res |-> Values(<<>>)]
          [] OTHER -> [gm |-> [ms |-> found.ms, src |-> e, lastmatch |-> e],
                       res |-> push_captures(found.ms, found.start, e)]

\* The results of all calls, up to the end or an error
RECURSIVE AllMatches(_)
AllMatches(gm) ==
    LET next == gmatch_aux(gm)
    IN  IF next.res.err # "" THEN <<Failed(next.res.err)>>
        ELSE IF next.res.vals = <<>> THEN <<>>
        ELSE <<next.res>> \o AllMatches(next.gm)

-----------------------------------------------------------------------------
(* gsub.  A replacement is a string, a sequence of characters <<"lit", ch>> *)
(* and escapes <<"esc", ch>>, or what calls or indexing of `map' give.     *)

\* The digits that escape a capture
Digits == [c \in {"0", "1", "2"} |-> CASE c = "0" -> 0 [] c = "1" -> 1 [] c = "2" -> 2]

\* A position is added to the buffer as its digits, here as one character.
Numeral(n) == <<"1", "2", "3", "4", "5", "6", "7", "8", "9">>[n]
Chars(v) == IF v[1] = "pos" THEN <<Numeral(v[2])>> ELSE v[2]

Added(ms, part, s, e) ==
    IF part[1] = "lit" THEN Values(<<part[2]>>)
    ELSE IF part[2] = "%" THEN Values(<<"%">>)
    ELSE IF part[2] = "0" THEN Values(Between(ms, s, e))
    ELSE IF part[2] \notin DOMAIN Digits THEN Failed("invalid use of '%'")
    ELSE LET cap == get_onecapture(ms, Digits[part[2]] - 1, s, e)
         IN  IF cap.err # "" THEN cap ELSE Values(Chars(cap.vals[1]))

add_s(ms, text, s, e) ==
    LET each == [i \in DOMAIN text |-> Added(ms, text[i], s, e)]
        bad == {i \in DOMAIN text : each[i].err # ""}
    IN  IF bad # {} THEN each[Min(bad)]
        ELSE Values(FlattenSeq([i \in DOMAIN text |-> each[i].vals]))

\* What replaces the match from s to e: the text, and whether it is another one.  A
\* function gets all captures, and a table is indexed with the first one.
add_value(ms, repl, s, e) ==
    LET args == IF repl.kind = "table" THEN get_onecapture(ms, 0, s, e)
                ELSE push_captures(ms, s, e)
        text == add_s(ms, repl.text, s, e)
        res == IF args.vals \in DOMAIN repl.map THEN repl.map[args.vals] ELSE <<"nil">>
    IN  IF repl.kind = "string" THEN [text |-> text, changed |-> TRUE]
        ELSE IF args.err # "" THEN [text |-> args, changed |-> FALSE]
        ELSE CASE res[1] = "nil" -> [text |-> Values(Between(ms, s, e)), changed |-> FALSE]
               [] res[1] = "str" -> [text |-> Values(res[2]), changed |-> TRUE]
               [] OTHER -> [text |-> Failed("invalid replacement value"), changed |-> FALSE]

\* The loop, with the state of the match, the place in the subject, the buffer b, ...
RECURSIVE GsubLoop(_, _, _, _)
GsubLoop(g, repl, anchor, max_s) ==
    LET r == match(reprepstate(g.ms), g.src, 1)
        with == add_value(r, repl, g.src, r.at)
        skipped == [g EXCEPT !.ms = r, !.src = @ + 1, !.b = Append(@, CharAt(r, g.src))]
        replaced == [ms |-> r, src |-> r.at, lastmatch |-> r.at, n |-> g.n + 1,
                     b |-> g.b \o with.text.vals, changed |-> g.changed \/ with.changed]
    IN  IF g.n >= max_s THEN g
        ELSE IF r.at = ERROR THEN [g EXCEPT !.ms = r]
        ELSE IF r.at # NULL /\ r.at # g.lastmatch
        THEN IF with.text.err # "" THEN [g EXCEPT !.ms = Error(r, with.text.err)]
             ELSE IF anchor THEN replaced ELSE GsubLoop(replaced, repl, anchor, max_s)
        ELSE IF g.src >= Len(r.src) THEN g
        ELSE IF anchor THEN skipped ELSE GsubLoop(skipped, repl, anchor, max_s)

\* An unchanged subject is returned itself, and the buffer dropped.
str_gsub(src, pattern, repl, max_s) ==
    LET g == GsubLoop([ms |-> prepstate(src, pattern.items), src |-> 0, lastmatch |-> NULL,
                       n |-> 0, b |-> <<>>, changed |-> FALSE], repl, pattern.anchor, max_s)
    IN  IF g.ms.err # "" THEN Failed(g.ms.err)
        ELSE Values(<<Str(IF g.changed THEN g.b \o SubSeq(src, g.src + 1, Len(src)) ELSE src),
                      Pos(g.n)>>)

=============================================================================
