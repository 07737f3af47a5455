----------------------------- MODULE LuaPattern -----------------------------
(***************************************************************************)
(* The pattern matcher of the string library (lstrlib.c): a backtracking   *)
(* search that works on one MatchState, whose captures a failed attempt    *)
(* must leave as it found them.                                            *)
(*                                                                         *)
(* A string is a sequence of characters; positions in the subject and in   *)
(* the pattern start at 1, and the position behind a string holds the NUL  *)
(* that ends it in C.  match returns the state it leaves with the end of   *)
(* the match, NULL when there is none, or RAISED when it raises an error.  *)
(* A read outside of a string, or of a capture nothing was stored in, has  *)
(* no value in the model.                                                  *)
(***************************************************************************)
EXTENDS Integers, FiniteSetsExt, SequencesExt

CONSTANT LUA_MAXCAPTURES

ASSUME PatternAssumption == LUA_MAXCAPTURES \in Nat

NULL == 0
RAISED == -1
CAP_UNFINISHED == -1
CAP_POSITION == -2

Chars(text) == [k \in 1..Len(text) |-> SubSeq(text, k, k)]

Nul == "nul"
Ascii ==
    <<Nul, "\t", "\n", " ", "!", "#", "$", "%", "&", "(", ")", "*", "+", ",", "-", ".", "/", "0", "1", "2", "3", "4",
      "5", "6", "7", "8", "9", ":", ";", "<", "=", ">", "?", "@", "A", "B", "C", "D", "E", "F", "G", "H", "I", "J",
      "K", "L", "M", "N", "O", "P", "Q", "R", "S", "T", "U", "V", "W", "X", "Y", "Z", "[", "]", "^", "_", "a", "b",
      "c", "d", "e", "f", "g", "h", "i", "j", "k", "l", "m", "n", "o", "p", "q", "r", "s", "t", "u", "v", "w", "x",
      "y", "z", "{", "|", "}", "~">>
Code == [c \in Range(Ascii) |-> CHOOSE k \in DOMAIN Ascii : Ascii[k] = c]
Span(a, b) == {Ascii[k] : k \in Code[a]..Code[b]}

Lower == Span("a", "z")
Upper == Span("A", "Z")
Digit == Span("0", "9")
Space == {" ", "\t", "\n"}
Control == {Nul, "\t", "\n"}
Classes == [a |-> Lower \cup Upper, c |-> Control, d |-> Digit, l |-> Lower,
            p |-> Span("!", "~") \ (Lower \cup Upper \cup Digit), s |-> Space, u |-> Upper,
            w |-> Lower \cup Upper \cup Digit, x |-> Digit \cup Span("A", "F") \cup Span("a", "f"), z |-> {Nul}]

tolower(c) == IF c \in Upper THEN Ascii[Code[c] + Code["a"] - Code["A"]] ELSE c

\* The character at a position of a string, NUL behind its end.
At(s, k) == CASE k \in 1..Len(s) -> s[k] [] k = Len(s) + 1 -> Nul

SrcEnd(ms) == Len(ms.src) + 1

\* A state for the subject and the pattern, nothing captured.
NewMatch(src, pat) ==
    [src |-> src, pat |-> pat, level |-> 0, capture |-> [l \in 0..LUA_MAXCAPTURES - 1 |-> "unset"]]

Ends(ms, e) == [ms |-> ms, e |-> e]

-----------------------------------------------------------------------------
(* One character against one item of the pattern. *)

\* The end of a set whose characters from p on are still to be skipped, do ... while (*p != ']').
RECURSIVE SetEnd(_, _)
SetEnd(ms, p) ==
    LET q == IF At(ms.pat, p) = "%" /\ At(ms.pat, p + 1) # Nul THEN p + 2 ELSE p + 1
    IN  IF At(ms.pat, p) = Nul THEN RAISED
        ELSE IF At(ms.pat, q) = "]" THEN q + 1
        ELSE SetEnd(ms, q)

classend(ms, p) ==
    CASE At(ms.pat, p) = "%" -> IF At(ms.pat, p + 1) = Nul THEN RAISED ELSE p + 2
      [] At(ms.pat, p) = "[" -> SetEnd(ms, IF At(ms.pat, p + 1) = "^" THEN p + 2 ELSE p + 1)
      [] OTHER -> p + 1

match_class(c, cl) ==
    IF tolower(cl) \in DOMAIN Classes THEN (c \in Classes[tolower(cl)]) = (cl \in Lower)
    ELSE cl = c

\* c is a member of the set between the positions p and ec.
RECURSIVE InSet(_, _, _, _)
InSet(c, pat, p, ec) ==
    /\ p < ec
    /\ \/ /\ At(pat, p) = "%"
          /\ match_class(c, At(pat, p + 1)) \/ InSet(c, pat, p + 2, ec)
       \/ /\ At(pat, p) # "%" /\ At(pat, p + 1) = "-" /\ p + 2 < ec
          /\ Code[c] \in Code[At(pat, p)]..Code[At(pat, p + 2)] \/ InSet(c, pat, p + 3, ec)
       \/ /\ At(pat, p) # "%" /\ ~(At(pat, p + 1) = "-" /\ p + 2 < ec)
          /\ At(pat, p) = c \/ InSet(c, pat, p + 1, ec)

matchbracketclass(c, pat, p, ec) ==
    IF At(pat, p + 1) = "^" THEN ~InSet(c, pat, p + 2, ec) ELSE InSet(c, pat, p + 1, ec)

singlematch(ms, s, p, ep) ==
    LET c == ms.src[s]
    IN  /\ s < SrcEnd(ms)
        /\ CASE At(ms.pat, p) = "." -> TRUE
             [] At(ms.pat, p) = "%" -> match_class(c, At(ms.pat, p + 1))
             [] At(ms.pat, p) = "[" -> matchbracketclass(c, ms.pat, p, ep - 1)
             [] OTHER -> At(ms.pat, p) = c

\* The position behind the text from s on that opens with the character at p and closes as often as it opens.
matchbalance(ms, s, p) ==
    LET b == At(ms.pat, p)
        e == At(ms.pat, p + 1)
        open[k \in s..Len(ms.src)] ==
            IF k = s THEN 1
            ELSE open[k - 1] + (IF ms.src[k] = e THEN -1 ELSE IF ms.src[k] = b THEN 1 ELSE 0)
        closed == {k \in s + 1..Len(ms.src) : open[k] = 0}
    IN  IF b = Nul \/ e = Nul THEN RAISED
        ELSE IF At(ms.src, s) # b \/ closed = {} THEN NULL
        ELSE Min(closed) + 1

-----------------------------------------------------------------------------
(* The captures. *)

check_capture(ms, digit) ==
    LET l == Code[digit] - Code["1"]
    IN  IF l < 0 \/ l >= ms.level THEN RAISED
        ELSE IF ms.capture[l].len = CAP_UNFINISHED THEN RAISED
        ELSE l

capture_to_close(ms) ==
    LET unfinished == {l \in 0..ms.level - 1 : ms.capture[l].len = CAP_UNFINISHED}
    IN  IF unfinished = {} THEN RAISED ELSE Max(unfinished)

\* The length of a position capture is converted to an unsigned number, longer than any rest of a subject.
match_capture(ms, s, digit) ==
    LET l == check_capture(ms, digit)
        c == ms.capture[l]
    IN  IF l = RAISED THEN RAISED
        ELSE IF c.len # CAP_POSITION /\ SrcEnd(ms) - s >= c.len
                /\ SubSeq(ms.src, c.init, c.init + c.len - 1) = SubSeq(ms.src, s, s + c.len - 1)
        THEN s + c.len
        ELSE NULL

-----------------------------------------------------------------------------
(* The search.  What follows an item is matched before the next way to match the item is tried. *)

RECURSIVE match(_, _, _)

\* i repetitions, then fewer.
RECURSIVE Fewer(_, _, _, _)
Fewer(ms, s, i, next) ==
    LET r == match(ms, s + i, next)
    IN  IF r.e # NULL \/ i = 0 THEN r ELSE Fewer(r.ms, s, i - 1, next)

max_expand(ms, s, p, ep) ==
    Fewer(ms, s, Max({i \in 0..SrcEnd(ms) - s : \A k \in s..s + i - 1 : singlematch(ms, k, p, ep)}), ep + 1)

RECURSIVE min_expand(_, _, _, _)
min_expand(ms, s, p, ep) ==
    LET r == match(ms, s, ep + 1)
    IN  IF r.e = NULL /\ singlematch(ms, s, p, ep) THEN min_expand(r.ms, s + 1, p, ep) ELSE r

start_capture(ms, s, p, what) ==
    LET r == match([ms EXCEPT !.capture[ms.level] = [init |-> s, len |-> what], !.level = @ + 1], s, p)
    IN  IF ms.level >= LUA_MAXCAPTURES THEN Ends(ms, RAISED)
        ELSE IF r.e = NULL THEN [r EXCEPT !.ms.level = @ - 1]
        ELSE r

\* A capture that is not reopened when what follows it does not match.
CloseForGood(ms, s, p) ==
    LET l == capture_to_close(ms)
    IN  IF l = RAISED THEN Ends(ms, RAISED)
        ELSE match([ms EXCEPT !.capture[l].len = s - ms.capture[l].init], s, p)

end_capture(ms, s, p) ==
    LET l == capture_to_close(ms)
        r == match([ms EXCEPT !.capture[l].len = s - ms.capture[l].init], s, p)
    IN  IF l = RAISED THEN Ends(ms, RAISED)
        ELSE IF r.e = NULL THEN [r EXCEPT !.ms.capture[l].len = CAP_UNFINISHED]
        ELSE r

\* %f: the set holds the next character but not the previous one.
Frontier(ms, s, p) ==
    LET ep == classend(ms, p)
        previous == IF s = 1 THEN Nul ELSE ms.src[s - 1]
    IN  IF At(ms.pat, p) # "[" \/ ep = RAISED THEN Ends(ms, RAISED)
        ELSE IF matchbracketclass(previous, ms.pat, p, ep - 1)
                \/ ~matchbracketclass(At(ms.src, s), ms.pat, p, ep - 1)
        THEN Ends(ms, NULL)
        ELSE match(ms, s, ep)

\* A single character and what may follow it.
Item(ms, s, p) ==
    LET ep == classend(ms, p)
        m == singlematch(ms, s, p, ep)
        once == match(ms, s + 1, ep + 1)
    IN  IF ep = RAISED THEN Ends(ms, RAISED)
        ELSE CASE At(ms.pat, ep) = "?" ->
                    IF m THEN IF once.e # NULL THEN once ELSE match(once.ms, s, ep + 1)
                    ELSE match(ms, s, ep + 1)
               [] At(ms.pat, ep) = "*" -> max_expand(ms, s, p, ep)
               [] At(ms.pat, ep) = "+" -> IF m THEN max_expand(ms, s + 1, p, ep) ELSE Ends(ms, NULL)
               [] At(ms.pat, ep) = "-" -> min_expand(ms, s, p, ep)
               [] OTHER -> IF m THEN match(ms, s + 1, ep) ELSE Ends(ms, NULL)

match(ms, s, p) ==
    LET c == At(ms.pat, p)
        next == At(ms.pat, p + 1)
        escaped == c = "%"
        goes(e, q) == IF e \in {NULL, RAISED} THEN Ends(ms, e) ELSE match(ms, e, q)
    IN  CASE c = Nul -> Ends(ms, s)
          [] c = "(" -> IF next = ")" THEN start_capture(ms, s, p + 2, CAP_POSITION)
                        ELSE start_capture(ms, s, p + 1, CAP_UNFINISHED)
          [] c = ")" -> end_capture(ms, s, p + 1)
          [] escaped /\ next = "b" -> goes(matchbalance(ms, s, p + 2), p + 4)
          [] escaped /\ next = "f" -> Frontier(ms, s, p + 2)
          [] escaped /\ next \in Digit -> goes(match_capture(ms, s, next), p + 2)
          [] c = "$" /\ next = Nul -> Ends(ms, IF s = SrcEnd(ms) THEN s ELSE NULL)
          [] OTHER -> Item(ms, s, p)
=============================================================================
