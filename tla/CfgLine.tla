------------------------------- MODULE CfgLine -------------------------------
(***************************************************************************)
(* How cfgfile.c takes a line of the configuration apart.                  *)
(*                                                                         *)
(* A line is a sequence of characters; a run of characters with no special *)
(* meaning is one of them.  The escapes with numbers are left out (nobody  *)
(* writes them here), and so is the limit of 255 arguments.                *)
(***************************************************************************)
EXTENDS Sequences, Integers, SequencesExt

CONSTANT Characters

Quote == "quote"
Backslash == "backslash"
Space == "space"
Newline == "newline"

\* The letters that stand for other characters behind a backslash.
Escapes == [n |-> Newline, t |-> "tab", v |-> "vertical tab", b |-> "backspace",
            r |-> "return", f |-> "form feed", a |-> "bell"]
Letters == {"n", "t", "v", "b", "r", "f", "a"}

ASSUME CfgLineAssumption ==
    {Quote, Backslash, Space} \cup Letters \cup {Escapes[c] : c \in Letters} \subseteq Characters

isspace(c) == c = Space \/ \E e \in {"n", "t", "v", "r", "f"} : c = Escapes[e]

\* mutant: there are no escapes but for characters that stand for themselves
Escaped_Itself(c) == c

\* The character that a backslash and c stand for.
Escaped(c) == IF c \in Letters THEN Escapes[c] ELSE c

NoArg == [arg |-> <<>>, rest |-> <<>>, ok |-> TRUE]

\* The end of the line, or the quote.
AtEnd(str) == [NoArg EXCEPT !.rest = IF str = <<>> THEN <<>> ELSE Tail(str)]

Line == Seq(Characters)

\* What is behind the opening quote: the argument, what follows it, and not ok if
\* the line ends with a backslash.
parse_string[str \in Line] ==
    IF str = <<>> \/ Head(str) = Quote THEN AtEnd(str)
    ELSE LET escape == Head(str) = Backslash
             after == parse_string[SubSeq(str, IF escape THEN 3 ELSE 2, Len(str))]
             char == IF escape THEN Escaped(str[2]) ELSE str[1]
         IN  IF escape /\ Len(str) = 1 THEN [NoArg EXCEPT !.ok = FALSE]
             ELSE [after EXCEPT !.arg = <<char>> \o @]

SkipSpaces[cmd \in Line] ==
    IF cmd = <<>> \/ ~ isspace(Head(cmd)) THEN cmd ELSE SkipSpaces[Tail(cmd)]

ToSpace[cmd \in Line] ==
    IF cmd = <<>> \/ isspace(Head(cmd)) THEN [NoArg EXCEPT !.rest = cmd]
    ELSE LET after == ToSpace[Tail(cmd)] IN [after EXCEPT !.arg = <<Head(cmd)>> \o @]

\* The arguments.  The character behind each, which is replaced by its end, is lost
\* even if it is not a space.
Args[cmd \in Line] ==
    LET start == SkipSpaces[cmd]
        next == IF Head(start) = Quote THEN parse_string[Tail(start)] ELSE ToSpace[start]
        more == Args[IF next.rest = <<>> THEN <<>> ELSE Tail(next.rest)]
    IN  IF start = <<>> THEN [argv |-> <<>>, ok |-> TRUE]
        ELSE IF ~ next.ok THEN [argv |-> <<>>, ok |-> FALSE]
        ELSE [more EXCEPT !.argv = <<next.arg>> \o @]

\* A line that cannot be taken apart is one without arguments.
parse_args(cmd) == IF Args[cmd].ok THEN Args[cmd].argv ELSE <<>>
------------------------------------------------------------------------------
\* What stands for c between quotes.
Written(c) == IF c \in {Quote, Backslash} THEN <<Backslash, c>>
              ELSE IF \E e \in Letters : Escapes[e] = c
                   THEN <<Backslash, CHOOSE e \in Letters : Escapes[e] = c>>
              ELSE <<c>>

\* How arg is written down so that parse_args finds it: in quotes, with escapes...
Quoted(arg) == <<Quote>> \o FlattenSeq([i \in DOMAIN arg |-> Written(arg[i])]) \o <<Quote>>

\* ... or as it is.
Plain(arg) == arg # <<>> /\ arg[1] # Quote /\ \A i \in DOMAIN arg : ~ isspace(arg[i])
==============================================================================
