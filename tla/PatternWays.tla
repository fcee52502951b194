----------------------------- MODULE PatternWays ----------------------------
(***************************************************************************)
(* What the patterns of Lua mean: all the ways in which the items of a     *)
(* pattern match a subject from a place on, the preferred ones first.  A   *)
(* way is a value; there is nothing to undo.  An error is also a way, when *)
(* the search would come to it.                                            *)
(***************************************************************************)
EXTENDS Searches

Way(s, caps) == [at |-> s, caps |-> caps, err |-> ""]
WayWrong(msg) == [at |-> ERROR, caps |-> <<>>, err |-> msg]
Length(w, k) == w.caps[k].len

\* The places from which a class may let the others go on, preferred ones first
Ends(src, item, s) ==
    LET run == Max({i \in 0..Len(src) - s : \A j \in 1..i : src[s + j] \in item.set})
        up(m, n) == [i \in 1..n - m + 1 |-> s + m + i - 1]
    IN  CASE item.suffix = "once" -> up(1, IF run > 0 THEN 1 ELSE 0)
          [] item.suffix = "?" -> Reverse(up(0, IF run > 0 THEN 1 ELSE 0))
          [] item.suffix = "*" -> Reverse(up(0, run))
          [] item.suffix = "+" -> Reverse(up(1, run))
          [] item.suffix = "-" -> up(0, run)

\* The end of the shortest text from s that has as many x as y, and starts with x
BalancedEnds(src, item, s) ==
    LET many(ch, e) == Cardinality({i \in s + 1..e : src[i] = ch})
        ends == {e \in s + 2..Len(src) : /\ src[s + 1] = item.x
                                         /\ src[e] = item.y
                                         /\ item.x # item.y => many(item.x, e) = many(item.y, e)}
    IN  IF ends = {} THEN <<>> ELSE <<Min(ends)>>

CharOf(src, s) == IF s \in 1..Len(src) THEN src[s] ELSE NUL

\* The ways that item p of the pattern continues w
ItemWays(src, items, p, w) ==
    LET item == items[p]
        places(ends) == [i \in DOMAIN ends |-> [w EXCEPT !.at = ends[i]]]
        open == {k \in DOMAIN w.caps : Length(w, k) = CAP_UNFINISHED}
    IN  CASE item.kind = "class" -> places(Ends(src, item, w.at))
          [] item.kind = "$" -> IF p = Len(items) /\ w.at = Len(src) THEN <<w>> ELSE <<>>
          [] item.kind = "(" ->
               IF Len(w.caps) = LUA_MAXCAPTURES THEN <<WayWrong("too many captures")>>
               ELSE <<[w EXCEPT !.caps = Append(@, [init |-> w.at, len |->
                         IF p < Len(items) /\ items[p + 1] = Close THEN CAP_POSITION
                         ELSE CAP_UNFINISHED])]>>
          [] item.kind = ")" ->
               IF p > 1 /\ items[p - 1] = Open THEN <<w>>
               ELSE IF open = {} THEN <<WayWrong("invalid pattern capture")>>
               ELSE <<[w EXCEPT !.caps[Max(open)].len = w.at - w.caps[Max(open)].init]>>
          [] item.kind = "%b" -> places(BalancedEnds(src, item, w.at))
          [] item.kind = "%f" -> IF CharOf(src, w.at) \notin item.set
                                    /\ CharOf(src, w.at + 1) \in item.set THEN <<w>> ELSE <<>>
          [] item.kind = "%n" ->
               IF item.n \notin DOMAIN w.caps \/ item.n \in open
               THEN <<WayWrong("invalid capture index")>>
               ELSE places(SelectSeq([i \in 1..Len(src) - w.at + 1 |-> w.at + i - 1],
                      LAMBDA e : /\ Length(w, item.n) = e - w.at
                                 /\ SubSeq(src, w.caps[item.n].init + 1,
                                           w.caps[item.n].init + Length(w, item.n))
                                      = SubSeq(src, w.at + 1, e)))
          [] item.kind = "malformed" -> <<WayWrong("malformed pattern")>>

\* All ways of the items from p on
RECURSIVE Ways(_, _, _, _)
Ways(src, items, p, w) ==
    IF p > Len(items) \/ w.err # "" THEN <<w>>
    ELSE LET next == ItemWays(src, items, p, w)
         IN  FlattenSeq([i \in DOMAIN next |-> Ways(src, items, p + 1, next[i])])
WaysAt(src, items, s) == Ways(src, items, 1, Way(s, <<>>))

\* A match is the first way, with its captures and all levels of recursion given back;
\* without a way there is no match, and no capture is left.
IsFirstWay(src, items, s) ==
    LET r == match(prepstate(src, items), s, 1)
        ways == WaysAt(src, items, s)
    IN  /\ r.at # ERROR => r.matchdepth = MAXCCALLS
        /\ IF ways = <<>> THEN r.at = NULL /\ r.level = 0
           ELSE /\ r.at = ways[1].at /\ r.err = ways[1].err
                /\ r.at # ERROR =>
                     ways[1].caps = [k \in 1..r.level |-> r.capture[k - 1]]

-----------------------------------------------------------------------------
(* Searches.                                                               *)

\* The first place from s on that has a way which `last' does not exclude
RECURSIVE FirstFrom(_, _, _, _)
FirstFrom(src, items, s, last) ==
    IF s > Len(src) THEN <<>>
    ELSE LET ways == WaysAt(src, items, s)
         IN  IF ways # <<>> /\ ways[1].at # last THEN <<[start |-> s, way |-> ways[1]]>>
             ELSE FirstFrom(src, items, s + 1, last)

\* All matches from s on, one after the other, up to an error
RECURSIVE MatchesFrom(_, _, _, _)
MatchesFrom(src, items, s, last) ==
    LET first == FirstFrom(src, items, s, last)
    IN  IF first = <<>> \/ first[1].way.err # "" THEN first
        ELSE first \o MatchesFrom(src, items, first[1].way.at, first[1].way.at)

\* The values of the captures of a way, or of all of it when it has none
Captured(src, found) ==
    LET w == found.way
        value(k) == IF Length(w, k) = CAP_POSITION THEN Pos(w.caps[k].init + 1)
                    ELSE Str(SubSeq(src, w.caps[k].init + 1, w.caps[k].init + Length(w, k)))
    IN  IF w.err # "" THEN Failed(w.err)
        ELSE IF \E k \in DOMAIN w.caps : Length(w, k) = CAP_UNFINISHED
        THEN Failed("unfinished capture")
        ELSE Values(IF w.caps = <<>> THEN <<Str(SubSeq(src, found.start + 1, w.at))>>
                    ELSE [k \in DOMAIN w.caps |-> value(k)])

\* string.match gives the captures of the first match, and string.find its place; a plain
\* text is found where it matches.
FindsFirst(src, items) ==
    LET first == FirstFrom(src, items, 0, NULL)
        pattern == [anchor |-> FALSE, items |-> items]
        res == str_find_aux(src, pattern, 1, FALSE, FALSE)
        place == str_find_aux(src, pattern, 1, TRUE, FALSE)
    IN  IF first = <<>> THEN res = NotFound /\ place = NotFound
        ELSE /\ res = Captured(src, first[1])
             /\ res.err = "" =>
                  SubSeq(place.vals, 1, 2) = <<Pos(first[1].start + 1), Pos(first[1].way.at)>>

\* gmatch gives the captures of every match, and ends again when it is called again; gsub
\* changes every match, and nothing else.
Twice(text) == text \o text
EveryMatchOnce(src, items) ==
    LET matches == MatchesFrom(src, items, 0, NULL)
        pattern == [anchor |-> FALSE, items |-> items]
        captures == [i \in DOMAIN matches |-> Captured(src, matches[i])]
        wrong == {i \in DOMAIN matches : captures[i].err # ""}
        whole(i) == SubSeq(src, matches[i].start + 1, matches[i].way.at)
        before(i) == SubSeq(src, 1 + (IF i = 1 THEN 0 ELSE matches[i - 1].way.at),
                            matches[i].start)
        rest == IF matches = <<>> THEN src
                ELSE SubSeq(src, matches[Len(matches)].way.at + 1, Len(src))
        twice == FlattenSeq([i \in DOMAIN matches |-> before(i) \o Twice(whole(i))]) \o rest
        dup == [kind |-> "string", text |-> <<<<"esc", "0">>, <<"esc", "0">>>>, map |-> <<>>]
        same == [kind |-> "function", text |-> <<>>, map |-> <<>>]
        max == Len(src) + 1
    IN  /\ AllMatches(gmatch(src, pattern, 1))
             = IF wrong = {} THEN captures ELSE SubSeq(captures, 1, Min(wrong))
        /\ wrong = {} =>
             /\ str_gsub(src, pattern, dup, max) = Values(<<Str(twice), Pos(Len(matches))>>)
             /\ str_gsub(src, pattern, same, max) = Values(<<Str(src), Pos(Len(matches))>>)
        /\ wrong # {} => str_gsub(src, pattern, same, max) = captures[Min(wrong)]

=============================================================================
