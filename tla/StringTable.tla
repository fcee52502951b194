---------------------------- MODULE StringTable -----------------------------
(***************************************************************************)
(* The short strings of lstring.c: a hash table of all of them, the cache  *)
(* of luaS_new, and what the collector does to both.  The table is resized *)
(* in place, and an allocation that fails runs an emergency collection in  *)
(* the middle of the operation that asked for memory, unless the collector *)
(* asked.  Incremental mode; a generational step asks unprotected, and the *)
(* model leaves it out.                                                    *)
(*                                                                         *)
(* A string is a pair of its content and a number that tells two objects   *)
(* with the same content apart, which should never be needed.  A chain of  *)
(* the table is the set of its strings.                                    *)
(***************************************************************************)
EXTENDS Integers, FiniteSets

CONSTANTS
    Content,        \* what strings say
    Hash,           \* luaS_hash: a function of the content
    MEMERRMSG,      \* the content of the message that is never collected
    Literals,       \* the contents that C code passes to luaS_new
    MINSTRTABSIZE, MAXSTRTB, STRCACHE_M

\* Short strings have at most LUAI_MAXSHORTLEN characters.
ASSUME StringConstants ==
    /\ IsFiniteSet(Content) /\ Hash \in [Content -> Nat]
    /\ MEMERRMSG \in Content /\ Literals \subseteq Content
    /\ MINSTRTABSIZE \in Nat \ {0} /\ MAXSTRTB \in Nat /\ STRCACHE_M \in Nat \ {0}

VARIABLES
    strt,     \* `hash', `size' and `nuse' of the string table, the `color' of every
              \* string ("live", "dead" with the white of the last cycle, "free"), and
              \* the `cache', of which the model has one set
    held,     \* the strings that the program can reach
    sweeping  \* is the collector between its atomic step and the end of the sweep?
stringVars == <<strt, held, sweeping>>

Str == Content \X {1, 2}
memerrmsg == <<MEMERRMSG, 1>>
Live(tb) == {s \in Str : tb.color[s] # "free"}
Position(s, size) == Hash[s[1]] % size
\* The strings of a set that belong to one chain of a table of that size.
ChainAt(strings, size, i) == {s \in strings : Position(s, size) = i}
Spread(strings, chains, size) == [i \in chains |-> ChainAt(strings, size, i)]

\* What an allocation may do: succeed, succeed once an emergency collection has
\* freed memory, or fail after that.
Answers == {"ok", "again", "fail"}

-----------------------------------------------------------------------------
(* The collector.                                                          *)

\* luaS_remove of each of some strings, from the chain where it should be.
RemoveStrings(tb, gone) ==
    [tb EXCEPT !.hash = [i \in DOMAIN @ |-> @[i] \ ChainAt(gone, tb.size, i)],
               !.nuse = @ - Cardinality(gone),
               !.color = [s \in Str |-> IF s \in gone THEN "free" ELSE @[s]]]

\* luaS_clearcache: of the strings that the atomic step did not mark.
ClearCache(cache, marked) ==
    [j \in DOMAIN cache |-> IF cache[j] \in marked THEN cache[j] ELSE memerrmsg]

\* luaC_fullgc with isemergency: a cycle at once, which resizes nothing.
FullGC(tb) ==
    LET marked == held \cup {memerrmsg}
    IN  RemoveStrings([tb EXCEPT !.cache = ClearCache(@, marked),
                                 !.color = [s \in Str |-> IF @[s] = "free" THEN @[s] ELSE "live"]],
                      Live(tb) \ marked)

NeverProtected(tb, gcstopem, answer) ==                      \* variant
    IF answer = "ok" THEN tb ELSE FullGC(tb)
\* tryagain: the table after an allocation, and whether it can have run a cycle.
Allocate(tb, gcstopem, answer) ==
    IF answer = "ok" \/ gcstopem THEN tb ELSE FullGC(tb)
Collected(gcstopem, answer) == answer # "ok" /\ ~gcstopem

-----------------------------------------------------------------------------
(* Resizing.                                                               *)

\* tablerehash: the chains of the first osize positions, for a vector of nsize.  A string
\* that goes to a chain that is still to come goes there again.
TableRehash(vect, osize, nsize) ==
    Spread(UNION {vect[i] : i \in 0..osize - 1}, DOMAIN vect \cup 0..nsize - 1, nsize)
FirstChains(vect, n) == [i \in 0..n - 1 |-> vect[i]]

\* luaS_resize.
Shrink(tb, nsize, gcstopem, answer) ==
    LET osize == tb.size
        moved == [tb EXCEPT !.hash = TableRehash(@, osize, nsize)]
        after == Allocate(moved, gcstopem, answer)
    IN  IF answer = "fail" THEN [after EXCEPT !.hash = TableRehash(@, nsize, osize)]
        ELSE [after EXCEPT !.hash = FirstChains(@, nsize), !.size = nsize]
Grow(tb, nsize, answer) ==
    LET after == Allocate(tb, FALSE, answer)
    IN  IF answer = "fail" THEN after
        ELSE [after EXCEPT !.hash = TableRehash(@, tb.size, nsize), !.size = nsize]

-----------------------------------------------------------------------------
(* Interning.                                                              *)

\* internshrstr: the objects with that content in its chain.
Matches(tb, c) == {s \in tb.hash[Hash[c] % tb.size] : s[1] = c}
\* changewhite, when the string is dead but still there.
Resurrect(tb, s) == [tb EXCEPT !.color[s] = IF @ = "dead" THEN "live" ELSE @]
NeedsRoom(tb) == tb.nuse >= tb.size /\ tb.size <= MAXSTRTB \div 2
LinkString(tb, s) ==
    [tb EXCEPT !.hash[Position(s, tb.size)] = @ \cup {s},
               !.nuse = @ + 1, !.color[s] = "live"]

Unused(tb, c) == {s \in {c} \X {1, 2} : tb.color[s] = "free"}
\* A new string: room in the table (growstrtab), then the object (createstrobj).
\* An emergency collection of either cannot find the new content anywhere.
Create(tb, c, g, o) ==
    LET room == IF NeedsRoom(tb) THEN Grow(tb, 2 * tb.size, g) ELSE tb
        after == Allocate(room, FALSE, o)
    IN  IF o = "fail" \/ Unused(after, c) = {} THEN after
        ELSE LinkString(after, CHOOSE s \in Unused(after, c) : TRUE)

\* The result: a table, the string or none, and whether a cycle was run.
Intern(tb, c, g, o) ==
    IF Matches(tb, c) # {}
    THEN LET s == CHOOSE s \in Matches(tb, c) : TRUE
         IN  [tb |-> Resurrect(tb, s), str |-> {s}, cycle |-> FALSE]
    ELSE LET after == Create(tb, c, g, o)
         IN  [tb |-> after,
              str |-> {s \in Live(after) : s[1] = c /\ o # "fail"},
              cycle |-> Collected(FALSE, o) \/ (NeedsRoom(tb) /\ Collected(FALSE, g))]

\* The answers of an allocation that is only done in some cases.
Creates(c) == Matches(strt, c) = {}
AnswersIf(allocates) == IF allocates THEN Answers ELSE {"ok"}

\* luaS_newlstr: the program gets the string, unless it gets an error.
NewLStr(c) ==
    \E o \in AnswersIf(Creates(c)), g \in AnswersIf(Creates(c) /\ NeedsRoom(strt)) :
        LET r == Intern(strt, c, g, o) IN
        /\ strt' = r.tb /\ held' = held \cup r.str
        /\ sweeping' = (sweeping /\ ~r.cycle)

\* luaS_new: first the cache, the last entry of which goes.
Hits(c) == {j \in 1..STRCACHE_M : strt.cache[j][1] = c}
Shifted(cache) == [j \in 1..STRCACHE_M |-> cache[IF j = 1 THEN 1 ELSE j - 1]]
NewString(c) ==
    IF Hits(c) # {}
    THEN \E j \in Hits(c) : /\ \A k \in Hits(c) : j <= k
                           /\ held' = held \cup {strt.cache[j]} /\ UNCHANGED <<strt, sweeping>>
    ELSE \E o \in AnswersIf(Creates(c)), g \in AnswersIf(Creates(c) /\ NeedsRoom(strt)) :
           LET r == Intern([strt EXCEPT !.cache = Shifted(@)], c, g, o)
           IN  /\ strt' = IF r.str = {} THEN r.tb
                          ELSE [r.tb EXCEPT !.cache[1] = CHOOSE s \in r.str : TRUE]
               /\ held' = held \cup r.str
               /\ sweeping' = (sweeping /\ ~r.cycle)

\* The program forgets a string.
Forget(s) == held' = held \ {s} /\ UNCHANGED <<strt, sweeping>>

-----------------------------------------------------------------------------
(* A cycle of the collector.                                               *)

\* The end of the atomic step: besides what the program holds, the collector may
\* have marked strings that were held earlier in the cycle.
Atomic ==
    /\ ~sweeping /\ sweeping' = TRUE /\ UNCHANGED held
    /\ \E floating \in SUBSET (Live(strt) \ held) :
          LET marked == held \cup floating \cup {memerrmsg}
          IN  strt' = [strt EXCEPT
                  !.cache = ClearCache(@, marked),
                  !.color = [s \in Str |-> IF @[s] = "free" THEN "free"
                                           ELSE IF s \in marked THEN "live" ELSE "dead"]]

\* sweeplist, up to the next string that is freed.
Sweep(s) ==
    /\ sweeping /\ strt.color[s] = "dead"
    /\ strt' = RemoveStrings(strt, {s})
    /\ UNCHANGED <<held, sweeping>>

\* checkSizes, at the end of the sweep: singlestep has set gcstopem.
CheckSizes ==
    /\ sweeping /\ sweeping' = FALSE /\ UNCHANGED held
    /\ \A s \in Str : strt.color[s] # "dead"
    /\ IF strt.nuse < strt.size \div 4
       THEN \E answer \in Answers : strt' = Shrink(strt, strt.size \div 2, TRUE, answer)
       ELSE UNCHANGED strt

-----------------------------------------------------------------------------
\* luaS_init.
StringInit ==
    /\ strt = LinkString([hash |-> [i \in 0..MINSTRTABSIZE - 1 |-> {}], size |-> MINSTRTABSIZE,
                          nuse |-> 0, color |-> [s \in Str |-> "free"],
                          cache |-> [j \in 1..STRCACHE_M |-> memerrmsg]], memerrmsg)
    /\ held = {} /\ sweeping = FALSE

StringNext ==
    \/ \E c \in Content : NewLStr(c)
    \/ \E c \in Literals : NewString(c)
    \/ \E s \in held : Forget(s)
    \/ \E s \in Str : Sweep(s)
    \/ Atomic \/ CheckSizes

StringSpec == StringInit /\ [][StringNext]_stringVars

-----------------------------------------------------------------------------
(* Properties.                                                             *)

\* The strings that C code gets from the cache are not dead, and what the program
\* holds has not been freed.
CacheLives ==
    /\ \A j \in 1..STRCACHE_M : strt.color[strt.cache[j]] = "live"
    /\ \A s \in held : strt.color[s] = "live"

\* Equal short strings are the same object, so that the code may compare pointers:
\* whatever resizes, collections and failures come in between, the table has every
\* string where a search finds it, never two with the same content, and none that was
\* freed (lstring.c internshrstr, growstrtab, luaS_clearcache).
StringsInterned ==
    /\ \A s \in Live(strt) : Matches(strt, s[1]) = {s}
    /\ strt.nuse = Cardinality(Live(strt))
    /\ \A i \in DOMAIN strt.hash : strt.hash[i] \subseteq Live(strt)
    /\ CacheLives

-----------------------------------------------------------------------------
(* The inductive invariant, of a table tb and of what is held, h.          *)

Tables(size) ==
    [hash : [0..size - 1 -> SUBSET Str], size : {size}, nuse : Nat,
     color : [Str -> {"live", "dead", "free"}], cache : [1..STRCACHE_M -> Str]]
\* The chains are those that the hash gives, and no two strings say the same.
Chained(tb) == tb.hash = Spread(Live(tb), 0..tb.size - 1, tb.size)
NoTwins(tb) == \A s, r \in Live(tb) : s[1] = r[1] => s = r
Sound(tb) ==
    /\ tb.size \in Nat \ {0} /\ tb \in Tables(tb.size)
    /\ Chained(tb) /\ NoTwins(tb) /\ tb.nuse = Cardinality(Live(tb))
\* What the program and the cache refer to has not been condemned.
Alive(tb, h) ==
    /\ h \subseteq Str /\ \A s \in h \cup {memerrmsg} : tb.color[s] = "live"
    /\ \A j \in 1..STRCACHE_M : tb.color[tb.cache[j]] = "live"
StringInv == Sound(strt) /\ Alive(strt, held) /\ sweeping \in BOOLEAN

=============================================================================
