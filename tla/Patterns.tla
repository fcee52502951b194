------------------------------- MODULE Patterns -----------------------------
(***************************************************************************)
(* The pattern matching of lstrlib.c, for string.find, match, gmatch and   *)
(* gsub: a backtracking search that keeps its captures in one mutable      *)
(* MatchState and undoes them when an alternative fails.                   *)
(*                                                                         *)
(* A subject is a sequence of characters, and a pointer into it is its     *)
(* distance from the start.  A pattern is a sequence of items: a class of  *)
(* characters with its suffix, or one of the other constructions; how a    *)
(* class is written is left out, except that an item may be malformed.     *)
(*                                                                         *)
(* An operator that can raise an error returns ERROR as its result, with   *)
(* the message in `err'; its callers pass that on.                         *)
(***************************************************************************)
EXTENDS Integers, Sequences, FiniteSets, FiniteSetsExt, SequencesExt

CONSTANTS LUA_MAXCAPTURES, MAXCCALLS

NULL == -1
ERROR == -2
CAP_UNFINISHED == -1
CAP_POSITION == -2
NUL == "NUL"   \* the character after the end of a string

-----------------------------------------------------------------------------
(* Items of patterns.                                                      *)

Class(set, suffix) == [kind |-> "class", set |-> set, suffix |-> suffix]
Literal(ch) == Class({ch}, "once")
Open == [kind |-> "("]
Close == [kind |-> ")"]
Dollar == [kind |-> "$"]
Balance(x, y) == [kind |-> "%b", x |-> x, y |-> y]
Frontier(set) == [kind |-> "%f", set |-> set]
Back(n) == [kind |-> "%n", n |-> n]
Malformed == [kind |-> "malformed"]

-----------------------------------------------------------------------------
(* The state of a match.  `at' is what the last operator returned.         *)

Fail(ms) == [ms EXCEPT !.at = NULL]
Go(ms, s) == [ms EXCEPT !.at = s]
Error(ms, msg) == [ms EXCEPT !.at = ERROR, !.err = msg]

\* prepstate, with nothing in the captures yet
prepstate(src, pat) ==
    [src |-> src, pat |-> pat, matchdepth |-> MAXCCALLS, level |-> 0, at |-> NULL, err |-> "",
     capture |-> [l \in 0..LUA_MAXCAPTURES - 1 |-> [init |-> 0, len |-> 0]]]
reprepstate(ms) == [ms EXCEPT !.level = 0]

\* The character at s; a string ends with a NUL.
CharAt(ms, s) == IF s < Len(ms.src) THEN ms.src[s + 1] ELSE NUL

singlematch(ms, s, item) == s < Len(ms.src) /\ ms.src[s + 1] \in item.set

\* The captures of ms that are still open
Unfinished(ms) == {l \in 0..ms.level - 1 : ms.capture[l].len = CAP_UNFINISHED}

\* The end of a balanced string, after `cont' openings were not closed before s
RECURSIVE Balanced(_, _, _, _)
Balanced(ms, s, item, cont) ==
    IF s >= Len(ms.src) THEN NULL
    ELSE IF CharAt(ms, s) = item.y
         THEN IF cont = 1 THEN s + 1 ELSE Balanced(ms, s + 1, item, cont - 1)
         ELSE Balanced(ms, s + 1, item, IF CharAt(ms, s) = item.x THEN cont + 1 ELSE cont)
matchbalance(ms, s, item) ==
    IF CharAt(ms, s) # item.x THEN NULL ELSE Balanced(ms, s + 1, item, 1)

check_capture(ms, n) == n >= 1 /\ n <= ms.level /\ n - 1 \notin Unfinished(ms)

\* The length of a position capture, as a size_t, is larger than any string.
match_capture(ms, s, n) ==
    IF ~check_capture(ms, n) THEN Error(ms, "invalid capture index")
    ELSE LET cap == ms.capture[n - 1]
         IN  IF /\ cap.len # CAP_POSITION
                /\ Len(ms.src) - s >= cap.len
                /\ SubSeq(ms.src, cap.init + 1, cap.init + cap.len)
                     = SubSeq(ms.src, s + 1, s + cap.len)
             THEN Go(ms, s + cap.len)
             ELSE Fail(ms)

-----------------------------------------------------------------------------
(* match(ms, s, p) matches the items of the pattern from p on, at s.       *)

RECURSIVE match(_, _, _), Shorter(_, _, _, _), min_expand(_, _, _)

\* max_expand tries the longest repetition of item p first, ...
Shorter(ms, s, p, i) ==
    IF i < 0 THEN Fail(ms)
    ELSE LET r == match(ms, s + i, p + 1)
         IN  IF r.at # NULL THEN r ELSE Shorter(r, s, p, i - 1)
max_expand(ms, s, p) ==
    LET fits == {i \in 0..Len(ms.src) - s :
                    \A j \in 0..i - 1 : singlematch(ms, s + j, ms.pat[p])}
    IN  Shorter(ms, s, p, Max(fits))

\* ... and min_expand the shortest one.
min_expand(ms, s, p) ==
    LET r == match(ms, s, p + 1)
    IN  IF r.at # NULL THEN r
        ELSE IF singlematch(r, s, ms.pat[p]) THEN min_expand(r, s + 1, p) ELSE Fail(r)

start_capture(ms, s, p, what) ==
    IF ms.level >= LUA_MAXCAPTURES THEN Error(ms, "too many captures")
    ELSE LET r == match([ms EXCEPT !.capture[ms.level] = [init |-> s, len |-> what],
                                   !.level = @ + 1], s, p)
         IN  IF r.at = NULL THEN [r EXCEPT !.level = @ - 1] ELSE r

StaysClosed(ms, l) == ms                                     \* variant
Reopen(ms, l) == [ms EXCEPT !.capture[l].len = CAP_UNFINISHED]
\* Closes the last capture that is open (capture_to_close).
end_capture(ms, s, p) ==
    IF Unfinished(ms) = {} THEN Error(ms, "invalid pattern capture")
    ELSE LET l == Max(Unfinished(ms))
             r == match([ms EXCEPT !.capture[l].len = s - ms.capture[l].init], s, p)
         IN  IF r.at = NULL THEN Reopen(r, l) ELSE r

\* One class and its suffix.  `goto init' does not use another level of recursion.
RECURSIVE Items(_, _, _)
OneClass(ms, s, p, item) ==
    LET matched == singlematch(ms, s, item)
    IN  CASE item.suffix = "once" -> IF matched THEN Items(ms, s + 1, p + 1) ELSE Fail(ms)
          [] item.suffix = "?" ->
               LET r == IF matched THEN match(ms, s + 1, p + 1) ELSE Fail(ms)
               IN  IF r.at # NULL THEN r ELSE Items(r, s, p + 1)
          [] item.suffix = "+" -> IF matched THEN max_expand(ms, s + 1, p) ELSE Fail(ms)
          [] item.suffix = "*" -> IF matched THEN max_expand(ms, s, p) ELSE Items(ms, s, p + 1)
          [] item.suffix = "-" -> IF matched THEN min_expand(ms, s, p) ELSE Items(ms, s, p + 1)

AtFrontier(ms, s, item) ==
    /\ (IF s = 0 THEN NUL ELSE CharAt(ms, s - 1)) \notin item.set
    /\ CharAt(ms, s) \in item.set

Items(ms, s, p) ==
    IF p > Len(ms.pat) THEN Go(ms, s)
    ELSE LET item == ms.pat[p]
         IN  CASE item.kind = "(" ->
                    IF p < Len(ms.pat) /\ ms.pat[p + 1] = Close
                    THEN start_capture(ms, s, p + 2, CAP_POSITION)
                    ELSE start_capture(ms, s, p + 1, CAP_UNFINISHED)
               [] item.kind = ")" -> end_capture(ms, s, p + 1)
               [] item.kind = "$" ->
                    IF p < Len(ms.pat) THEN OneClass(ms, s, p, Literal("$"))
                    ELSE IF s = Len(ms.src) THEN Go(ms, s) ELSE Fail(ms)
               [] item.kind = "%b" ->
                    LET e == matchbalance(ms, s, item)
                    IN  IF e # NULL THEN Items(ms, e, p + 1) ELSE Fail(ms)
               [] item.kind = "%f" ->
                    IF AtFrontier(ms, s, item) THEN Items(ms, s, p + 1) ELSE Fail(ms)
               [] item.kind = "%n" ->
                    LET r == match_capture(ms, s, item.n)
                    IN  IF r.at \notin {NULL, ERROR} THEN Items(r, r.at, p + 1) ELSE r
               [] item.kind = "malformed" -> Error(ms, "malformed pattern")
               [] item.kind = "class" -> OneClass(ms, s, p, item)

match(ms, s, p) ==
    LET deeper == [ms EXCEPT !.matchdepth = @ - 1]
    IN  IF ms.matchdepth = 0 THEN Error(deeper, "pattern too complex")
        ELSE LET r == Items(deeper, s, p)
             IN  IF r.at = ERROR THEN r ELSE [r EXCEPT !.matchdepth = @ + 1]

-----------------------------------------------------------------------------
(* What a match gives to the program.                                      *)

\* The values of captures and of the functions below
Pos(n) == <<"pos", n>>
Str(text) == <<"str", text>>
Between(ms, s, e) == SubSeq(ms.src, s + 1, e)
Failed(msg) == [err |-> msg, vals |-> <<>>]
Values(vals) == [err |-> "", vals |-> vals]

\* The i-th capture, or the whole match when there are none
get_onecapture(ms, i, s, e) ==
    IF i >= ms.level
    THEN IF i # 0 THEN Failed("invalid capture index") ELSE Values(<<Str(Between(ms, s, e))>>)
    ELSE LET cap == ms.capture[i]
         IN  CASE cap.len = CAP_UNFINISHED -> Failed("unfinished capture")
               [] cap.len = CAP_POSITION -> Values(<<Pos(cap.init + 1)>>)
               [] OTHER -> Values(<<Str(Between(ms, cap.init, cap.init + cap.len))>>)

push_captures(ms, s, e) ==
    LET nlevels == IF ms.level = 0 /\ s # NULL THEN 1 ELSE ms.level
        each == [i \in 1..nlevels |-> get_onecapture(ms, i - 1, s, e)]
    IN  IF \E i \in 1..nlevels : each[i].err # ""
        THEN each[Min({i \in 1..nlevels : each[i].err # ""})]
        ELSE Values(FlattenSeq([i \in 1..nlevels |-> each[i].vals]))

=============================================================================
