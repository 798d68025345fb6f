--------------------------- MODULE SqlPlaceholders ---------------------------
(* src/src/stdlib/sql_dialect.rs, as 后端_pg.rs uses it: programs write ? for *)
(* every parameter, PostgreSQL knows only $1, $2, ...  A statement is read    *)
(* from left to right; what is quoted, a comment or an operator of its own   *)
(* goes over as it is.                                                       *)
(*                                                                           *)
(* A text is a sequence of characters: a is any letter but E, n a line's end, *)
(* and the two characters that delimit names are called name and NAME.       *)
EXTENDS Callers, Integers, FiniteSets, SequencesExt

CONSTANTS
    SqlAlphabets,   \* sets of pieces the statements of one kind are made of
    SqlLength       \* bound: pieces in a statement

ASSUME SqlAssumption == SqlLength \in 0..9

VARIABLES
    sqlText,        \* the program's statement
    sqlSent         \* what goes to the server, once it was looked at

sqlVars == <<sqlText, sqlSent>>

SqlTexts == UNION {{FlattenSeq(p) : p \in SeqOf(A, SqlLength)} : A \in SqlAlphabets}

Digits == {ToString(d) : d \in 0..9}
NameChars == Digits \cup {"a", "E"}

\* Of strings; of names, in standard SQL and in MySQL's.
Delimiters == {"'", "name", "NAME"}

CharAt(s, i) == IF i <= Len(s) THEN s[i] ELSE "end"

\* A letter at i goes on with a name.
InName(s, i) == i > 1 /\ s[i - 1] \in NameChars

\* Of S, or the end of s.
FirstOf(S, s) == Min(S \cup {Len(s) + 1})

-----------------------------------------------------------------------------
(* Where what is copied ends: the position after it, 0 if it has no end.     *)

\* A doubled delimiter does not end it; a backslash counts in E'...' only.
QuoteEnd(s, start, delimiter, escapes) ==
    LET end[i \in Nat] ==
          CASE i > Len(s) -> 0
            [] escapes /\ s[i] = "\\" /\ i < Len(s) -> end[i + 2]
            [] s[i] = delimiter /\ CharAt(s, i + 1) = delimiter -> end[i + 2]
            [] s[i] = delimiter /\ CharAt(s, i + 1) # delimiter -> i + 1
            [] OTHER -> end[i + 1]
    IN  end[start]

\* Wrong variant: the first end of a comment ends them all.
BlockEndFlat(s, start) ==
    LET ends == {i \in start + 2 .. Len(s) - 1 : s[i] = "*" /\ s[i + 1] = "/"}
    IN  IF ends = {} THEN 0 ELSE Min(ends) + 2

\* Comments nest.
BlockEnd(s, start) ==
    LET end[i \in Nat, depth \in Nat] ==
          CASE i > Len(s) -> 0
            [] s[i] = "/" /\ CharAt(s, i + 1) = "*" -> end[i + 2, depth + 1]
            [] s[i] = "*" /\ CharAt(s, i + 1) = "/" ->
                 IF depth = 1 THEN i + 2 ELSE end[i + 2, depth - 1]
            [] OTHER -> end[i + 1, depth]
    IN  end[start, 0]

LineEnd(s, start) == FirstOf({i \in start..Len(s) : s[i] = "n"}, s)

\* After $$ or $tag$; 0 if that is not what stands there.
TagEnd(s, start) ==
    LET i == FirstOf({k \in start + 1 .. Len(s) : s[k] \notin NameChars}, s)
    IN  IF CharAt(s, i) = "$" /\ CharAt(s, start + 1) \notin Digits THEN i + 1 ELSE 0

DollarEnd(s, start) ==
    LET length == TagEnd(s, start) - start
        tag == SubSeq(s, start, start + length - 1)
        ends == {i \in start + 2 * length .. Len(s) + 1 : SubSeq(s, i - length, i - 1) = tag}
    IN  IF ends = {} THEN 0 ELSE Min(ends)

SpanEnd(s, i) ==
    LET c == s[i]
        next == CharAt(s, i + 1)
    IN  CASE c \in Delimiters -> QuoteEnd(s, i + 1, c, FALSE)
          [] c = "E" /\ next = "'" /\ ~InName(s, i) ->
               QuoteEnd(s, i + 2, "'", TRUE)
          [] c = "-" /\ next = "-" -> LineEnd(s, i)
          [] c = "/" /\ next = "*" -> BlockEnd(s, i)
          [] c = "$" /\ next \in Digits ->
               FirstOf({k \in i + 1 .. Len(s) : s[k] \notin Digits}, s)
          [] c = "$" /\ TagEnd(s, i) # 0 -> DollarEnd(s, i)
          [] c = "@" /\ next = "?" -> i + 2
          [] OTHER -> i + 1

-----------------------------------------------------------------------------
Refused == [sent |-> FALSE, text |-> <<>>, count |-> 0]

IsNumbered(s, i) == s[i] = "$" /\ CharAt(s, i + 1) \in Digits

\* The statement from i on; n placeholders, and whether $n, were met before.
RewriteFrom(s) ==
    LET rest[i \in Nat, n \in Nat, numbered \in BOOLEAN] ==
          LET then(text, r) == [r EXCEPT !.text = text \o @]
              next == CharAt(s, i + 1)
          IN CASE i > Len(s) ->
                    IF numbered /\ n > 0 THEN Refused
                    ELSE [sent |-> TRUE, text |-> <<>>, count |-> n]
               [] i <= Len(s) /\ s[i] = "?" /\ next = "?" ->
                    then(<<"?">>, rest[i + 2, n, numbered])
               [] i <= Len(s) /\ s[i] = "?" /\ next \in {"|", "&"} -> Refused
               [] i <= Len(s) /\ s[i] = "?" /\ next \notin {"?", "|", "&"} ->
                    then(<<"$", ToString(n + 1)>>, rest[i + 1, n + 1, numbered])
               [] OTHER ->
                    LET end == SpanEnd(s, i)
                    IN  IF end = 0 THEN Refused
                        ELSE then(SubSeq(s, i, end - 1),
                                  rest[end, n, numbered \/ IsNumbered(s, i)])
    IN  rest

\* Without a ? nothing is looked at, so nothing is refused.
Rewrite(s) ==
    IF Contains(s, "?") THEN RewriteFrom(s)[1, 0, FALSE]
    ELSE [sent |-> TRUE, text |-> s, count |-> 0]

SqlInit == sqlText \in SqlTexts /\ sqlSent = None

\* A statement without arguments is not rewritten.
SqlRun(args) ==
    /\ sqlSent = None
    /\ sqlSent' = IF args = 0 THEN [sent |-> TRUE, text |-> sqlText, count |-> 0]
                  ELSE Rewrite(sqlText)
    /\ UNCHANGED sqlText

SqlNext == \E args \in {0, 1} : SqlRun(args)

-----------------------------------------------------------------------------
\* ? and what is put in its place touch nothing they could be read with.
Apart(s) ==
    \A i \in 1..Len(s) : s[i] = "?" =>
        /\ i > 1 => s[i - 1] \notin NameChars \cup {"$", "?"}
        /\ CharAt(s, i + 1) \notin NameChars \cup {"$", "?"}

\* s with every character of C written behind the character it goes with.
Behind(s, C, before(_)) ==
    FlattenSeq([i \in 1..Len(s) |-> IF s[i] \in C THEN <<before(s[i]), s[i]>> ELSE <<s[i]>>])

\* A placeholder after the quoted text is the statement's first and only one.
StaysAsItIs(quoted) ==
    Rewrite(quoted \o <<" ", "?">>) =
        [sent |-> TRUE, text |-> quoted \o <<" ", "$", "1">>, count |-> 1]

\* "Changing a ? there would silently corrupt the SQL" (sql_dialect.rs:14):
\* whatever a program quotes goes over untouched, and what follows it is code
\* again: in strings and names with doubled delimiters, in E'...' with escaped
\* ones, in comments, nested ones too, and between dollar tags.
QuotedStays ==
    LET x == sqlText
        same(c) == c
        slash(c) == "\\"
    IN  /\ \A q \in Delimiters : StaysAsItIs(<<q>> \o Behind(x, {q}, same) \o <<q>>)
        /\ StaysAsItIs(<<"E", "'">> \o Behind(x, {"'", "\\"}, slash) \o <<"'">>)
        /\ ~Contains(x, "n") => StaysAsItIs(<<"-", "-">> \o x \o <<"n">>)
        /\ ~Contains(x, "/") =>
              /\ StaysAsItIs(<<"/", "*">> \o x \o <<"*", "/">>)
              /\ StaysAsItIs(<<"/", "*">> \o x \o <<"/", "*">> \o x \o <<"*", "/">>
                               \o x \o <<"*", "/">>)
        /\ ~Contains(x, "$") => StaysAsItIs(<<"$", "a", "$">> \o x \o <<"$", "a", "$">>)

\* A statement that was rewritten reads, for the same scanner, as it was meant:
\* rewriting it once more finds nothing to do, and its placeholders are $1 to
\* the number that is reported, each once, in this order.
RewrittenOnce ==
    LET r == Rewrite(sqlText)
        places == {i \in 1..Len(r.text) : IsNumbered(r.text, i)}
    IN  Apart(sqlText) /\ r.sent =>
          /\ Rewrite(r.text).sent /\ Rewrite(r.text).text = r.text
          /\ \A n \in 1..r.count : \E i \in places :
                /\ r.text[i + 1] = ToString(n)
                /\ n > 1 => \E k \in places : k < i /\ r.text[k + 1] = ToString(n - 1)

\* What reached the server is the program's text, but for its placeholders and
\* the doubled ?.
PlaceholdersRewritten == sqlSent # None => QuotedStays /\ RewrittenOnce
=============================================================================
