------------------------------- MODULE GetOpt -------------------------------
(***************************************************************************)
(* xgetopt, xgetopt_long and xgetopt_long_only (src/src/getopt.cpp).  An   *)
(* argument is identified by a number, as the pointer in argv is; Text is  *)
(* what it points to, a sequence of characters.  The state of the parser   *)
(* is a record:                                                            *)
(*   argv   the arguments; argv[i + 1] is the C argv[i], the program first *)
(*   ind, arg, opt, reset    xoptind, xoptarg, xoptopt and xoptreset       *)
(*   cur    xoptcur, a place inside an argument, or None                   *)
(*   ret    what the call returned: an option character, the val of a long *)
(*          option, "stored" (0), "?", ":", "end" (-1), "operand" (1)      *)
(*   index  *longindex                                                     *)
(*   flag   the variable that the flags of the long options point to       *)
(***************************************************************************)
EXTENDS Integers, Sequences, SequencesExt

CONSTANT Text   \* the characters of every argument

None == <<0, 0>>
Place(id, off) == <<id, off>>

\* The parser before the first call.
Fresh(argv) == [argv |-> argv, ind |-> 0, arg |-> None, opt |-> "null", reset |-> FALSE,
                cur |-> None, ret |-> "none", index |-> 0, flag |-> "clear"]

\* What the caller passes: optstring, the long options, and whether a single
\* dash may introduce a long one.
Options(optstring, longopts, only) ==
    [optstring |-> optstring, longopts |-> longopts, only |-> only]

HeadFlags == {"+", "-", ":"}
HeadLen(s) == Max({k \in 0 .. Len(s) : \A i \in 1 .. k : s[i] \in HeadFlags})
HeadOf(opts) == SubSeq(opts.optstring, 1, HeadLen(opts.optstring))
Letters(opts) == SubSeq(opts.optstring, HeadLen(opts.optstring) + 1, Len(opts.optstring))

\* The flags at the head of optstring.
Permutes(opts) == \A i \in DOMAIN HeadOf(opts) : HeadOf(opts)[i] \notin {"+", "-"}
ArgOfOne(opts) ==
    LET order == SelectSeq(HeadOf(opts), LAMBDA c : c \in {"+", "-"}) IN
    order # <<>> /\ Last(order) = "-"
MissingArg(opts) == Contains(HeadOf(opts), ":")
Complaint(opts) == IF MissingArg(opts) THEN ":" ELSE "?"

\* The argument under xoptind, and whether there is one.
Current(g) == g.argv[g.ind + 1]
HasMore(g) == g.ind < Len(g.argv)
IsOperand(id) == Text[id] = <<>> \/ Text[id][1] # "-"
IsTerminator(id) == Text[id] \in {<<"-">>, <<"-", "-">>}

\* xoptreset, the first argument to look at, no argument yet.
Begun(g) ==
    LET r == IF g.reset THEN [g EXCEPT !.reset = FALSE, !.cur = None, !.ind = 0, !.opt = "null"] ELSE g
    IN  [r EXCEPT !.ind = IF @ < 1 THEN 1 ELSE @, !.arg = None]

\* A place inside an argument that xoptind has left is forgotten.
Checked(g) == IF g.cur # None /\ g.cur[1] # Current(g) THEN [g EXCEPT !.cur = None] ELSE g

-----------------------------------------------------------------------------
(* Long options *)

EqualsSign(text, p) == {i \in p .. Len(text) : text[i] = "="}

\* The options that the word abbreviates; the first exact one is the only one.
Hits(longopts, word) ==
    LET exact == {k \in DOMAIN longopts : longopts[k].name = word} IN
    IF exact # {} THEN {Min(exact)}
    ELSE {k \in DOMAIN longopts : IsPrefix(word, longopts[k].name)}

\* An option is recognized by its val; one with a flag stores it there instead.
Recognized(x, g) ==
    IF x.flag THEN [g EXCEPT !.ret = "stored", !.flag = x.val] ELSE [g EXCEPT !.ret = x.val]

\* Option k was found: its argument is behind the equals sign, or the next one if
\* it is required.
TakeLong(opts, g, k, eq) ==
    LET x == opts.longopts[k]
        next == [g EXCEPT !.ind = @ + 1, !.index = k] IN
    CASE x.has_arg = 0 \/ (x.has_arg = 2 /\ eq = {}) -> Recognized(x, next)
      [] x.has_arg # 0 /\ eq # {} ->
           Recognized(x, [next EXCEPT !.arg = Place(Current(g), Min(eq) + 1)])
      [] x.has_arg = 1 /\ eq = {} /\ HasMore(next) ->
           Recognized(x, [next EXCEPT !.ind = @ + 1, !.arg = Place(Current(next), 1)])
      [] OTHER -> [next EXCEPT !.ret = Complaint(opts)]

-----------------------------------------------------------------------------
(* Short options *)

\* The place of a character in the letters of optstring, 0 for none (strchr).
LetterAt(letters, c) ==
    LET at == {i \in DOMAIN letters : letters[i] = c} IN IF at = {} THEN 0 ELSE Min(at)
TakesArgument(letters, d) == d # 0 /\ d < Len(letters) /\ letters[d + 1] = ":"
Requires(letters, d) == ~(d + 1 < Len(letters) /\ letters[d + 2] = ":")

\* The letter at p takes an argument: the rest of this one, or the next one.
TakeWithArgument(opts, g, p, d) ==
    LET c == Text[Current(g)][p]
        required == Requires(Letters(opts), d)
        next == [g EXCEPT !.ind = @ + 1, !.cur = None] IN
    CASE p < Len(Text[Current(g)]) -> [next EXCEPT !.ret = c, !.arg = Place(Current(g), p + 1)]
      [] p = Len(Text[Current(g)]) /\ HasMore(next) /\ (required \/ IsOperand(Current(next))) ->
           [next EXCEPT !.ret = c, !.ind = @ + 1, !.arg = Place(Current(next), 1)]
      [] p = Len(Text[Current(g)]) /\ ~HasMore(next) /\ required ->
           [next EXCEPT !.ret = Complaint(opts), !.opt = c]
      [] OTHER -> [next EXCEPT !.ret = c]

\* The letter at p; the next call goes on behind it.
TakeLetter(opts, g, p) ==
    LET c == Text[Current(g)][p]
        d == LetterAt(Letters(opts), c)
        next == IF p < Len(Text[Current(g)]) THEN [g EXCEPT !.cur = Place(Current(g), p + 1)]
                ELSE [g EXCEPT !.ind = @ + 1, !.cur = None] IN
    IF TakesArgument(Letters(opts), d) THEN TakeWithArgument(opts, g, p, d)
    ELSE IF d = 0 THEN [next EXCEPT !.opt = c, !.ret = "?"] ELSE [next EXCEPT !.ret = c]

\* The argument under xoptind is an option, or the rest of one.
TakeOption(opts, g) ==
    LET text == Text[Current(g)]
        doubled == text[2] = "-"
        p == IF doubled THEN 3 ELSE 2
        eq == EqualsSign(text, p)
        hits == Hits(opts.longopts, SubSeq(text, p, IF eq = {} THEN Len(text) ELSE Min(eq) - 1)) IN
    CASE g.cur # None -> TakeLetter(opts, g, g.cur[2])
      [] g.cur = None /\ (opts.longopts = <<>> \/ ~(doubled \/ opts.only)) -> TakeLetter(opts, g, p)
      [] OTHER ->
           IF hits = {} /\ opts.only THEN TakeLetter(opts, g, p)
           ELSE IF ~\E k \in hits : hits = {k} THEN [g EXCEPT !.ind = @ + 1, !.ret = "?"]
           ELSE TakeLong(opts, g, Max(hits), eq)

-----------------------------------------------------------------------------
(* The parser and the permutation call each other *)

\* The first option from xoptind on, or the end.
SkipOperands(g) ==
    [g EXCEPT !.ind = Min({i \in g.ind .. Len(g.argv) :
                             i = Len(g.argv) \/ ~IsOperand(g.argv[i + 1])})]

\* The options the permutation parses with: '+' in front, every long option
\* returns the same value and stores none.
PermuteOptions(opts) ==
    Options(<<"+">> \o Letters(opts),
            [k \in DOMAIN opts.longopts |->
                [opts.longopts[k] EXCEPT !.flag = FALSE, !.val = "long"]], opts.only)

\* Defect: the operands are put back in front.
PutBack_InFront(g, nonopts) == [g EXCEPT !.argv = nonopts \o @]

\* The operands that were detached go to the end.
PutBack(g, nonopts) == [g EXCEPT !.argv = @ \o nonopts]

RECURSIVE xgetopt_impl(_, _), Permute(_, _, _)

\* xgetopt_permute: the arguments are parsed again from the first; where an
\* operand stops the parser it is detached and the parser goes on behind it.
Permute(opts, g, nonopts) ==
    LET u == xgetopt_impl(opts, g) IN
    CASE u.ret # "end" -> Permute(opts, u, nonopts)
      [] u.ret = "end" /\ HasMore(u) ->
           Permute(opts, [u EXCEPT !.argv = RemoveAt(@, u.ind + 1), !.cur = None],
                   Append(nonopts, Current(u)))
      [] u.ret = "end" /\ ~HasMore(u) -> PutBack(u, nonopts)

\* -1 is returned.
Ended(opts, g) ==
    [(IF Permutes(opts) THEN Permute(PermuteOptions(opts), [g EXCEPT !.reset = TRUE], <<>>) ELSE g)
        EXCEPT !.ret = "end"]

\* One call.
xgetopt_impl(opts, g) ==
    LET begun == Begun(g)
        s == IF HasMore(begun) THEN Checked(begun) ELSE [begun EXCEPT !.ind = Len(g.argv)]
        t == SkipOperands(s)
        atOperand == s.cur = None /\ IsOperand(Current(s)) IN
    CASE ~HasMore(s) -> Ended(opts, s)
      [] HasMore(s) /\ atOperand /\ ArgOfOne(opts) ->
           [s EXCEPT !.arg = Place(Current(s), 1), !.ind = @ + 1, !.ret = "operand"]
      [] HasMore(s) /\ atOperand /\ ~ArgOfOne(opts) /\ ~Permutes(opts) -> [s EXCEPT !.ret = "end"]
      [] OTHER ->
           LET u == IF atOperand THEN t ELSE s IN
           IF ~HasMore(u) THEN Ended(opts, u)
           ELSE IF u.cur = None /\ IsTerminator(Current(u)) THEN Ended(opts, [u EXCEPT !.ind = @ + 1])
           ELSE TakeOption(opts, u)

xgetopt(optstring, g) == xgetopt_impl(Options(optstring, <<>>, FALSE), g)
xgetopt_long(optstring, longopts, g) == xgetopt_impl(Options(optstring, longopts, FALSE), g)
xgetopt_long_only(optstring, longopts, g) == xgetopt_impl(Options(optstring, longopts, TRUE), g)

-----------------------------------------------------------------------------
\* The suboption of s at `from': where it ends, its equals signs, its name, and the
\* tokens that begin with it.
SubEnd(s, from) == Min({i \in from .. Len(s) : s[i] = ","} \union {Len(s) + 1})
SubEquals(s, from) == {i \in from .. SubEnd(s, from) - 1 : s[i] = "="}
SubName(s, from) == SubSeq(s, from, Min(SubEquals(s, from) \union {SubEnd(s, from)}) - 1)
TokenHits(s, tokens, from) ==
    {k \in DOMAIN tokens : SubName(s, from) # <<>> /\ IsPrefix(SubName(s, from), tokens[k])}

\* Defect: the comma stays.
xgetsubopt_KeepsComma(s, tokens, from) ==
    LET eqs == SubEquals(s, from)
        hits == TokenHits(s, tokens, from) IN
    [ret |-> IF hits = {} THEN 0 ELSE Min(hits),
     value |-> IF hits = {} THEN from ELSE IF eqs = {} THEN 0 ELSE Min(eqs) + 1,
     optionp |-> Min({SubEnd(s, from) + 1, Len(s) + 1}),
     text |-> s]

\* xgetsubopt on the suboptions from `from' on: the first token that begins with
\* the name, the place of the value (0: none), where the next one starts, and the
\* text, whose comma becomes a null.
xgetsubopt(s, tokens, from) ==
    LET eqs == SubEquals(s, from)
        hits == TokenHits(s, tokens, from) IN
    [ret |-> IF hits = {} THEN 0 ELSE Min(hits),
     value |-> IF hits = {} THEN from ELSE IF eqs = {} THEN 0 ELSE Min(eqs) + 1,
     optionp |-> Min({SubEnd(s, from) + 1, Len(s) + 1}),
     text |-> [i \in DOMAIN s |-> IF i = SubEnd(s, from) THEN "null" ELSE s[i]]]
=============================================================================
