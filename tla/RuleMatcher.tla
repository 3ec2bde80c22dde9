---------------------------- MODULE RuleMatcher -----------------------------
(***************************************************************************)
(* Matching a line of a log against a rule of its .fmt file (parse_entry   *)
(* in InfoSource.h).  A rule is a sequence of                              *)
(*    [t |-> "lit", c |-> c]         a character, escaped or not           *)
(*    [t |-> "blank"]                "\ ": blanks, as many as there are    *)
(*    [t |-> "num", sent |-> b]      "\n": digits                          *)
(*    [t |-> "str", sent |-> b]      "\s": text up to the next character   *)
(*    [t |-> "date", sent |-> b]     "\d"                                  *)
(* where the value of a parameter is not sent if its name is "_".  A line  *)
(* is a sequence of characters; a date is one, Date, which the rules that  *)
(* have a text parameter as well could tell from a character.              *)
(***************************************************************************)
EXTENDS Naturals, SequencesExt

CONSTANTS Digits, Blanks,   \* the characters 0 .. 9, and the blank and the tab
          Printable,        \* 32 .. 126 without the quotation mark
          Space, Colon, Date

NoChar == "end of text"

MatcherAssumption ==
    /\ Space \in Blanks /\ Blanks \cap Printable \subseteq {Space}
    /\ NoChar \notin Printable

\* Mutant of Delimiter: a text at the end of the rule ends at a colon, too.
DelimiterColon(rule, i) ==
    IF i = Len(rule) \/ ~rule[i].sent THEN Colon
    ELSE IF rule[i + 1].t = "blank" THEN Space ELSE rule[i + 1].c

\* The character that ends a text parameter: the next of the rule, whether it
\* is escaped or not; of one that is not sent, the colon between "\s" and its
\* name is read in place of it.
Delimiter(rule, i) ==
    IF ~rule[i].sent THEN Colon
    ELSE IF i = Len(rule) THEN NoChar
    ELSE IF rule[i + 1].t = "blank" THEN Space ELSE rule[i + 1].c

\* A text followed by another parameter has no delimiter: the rule is passed
\* over, unless the text is not sent.
Delimited(rule, i) ==
    ~rule[i].sent \/ i = Len(rule) \/ rule[i + 1].t \in {"lit", "blank"}

\* The characters part i may be made of.
Chars(rule, i) ==
    CASE rule[i].t = "lit"   -> {rule[i].c}
      [] rule[i].t = "blank" -> Blanks
      [] rule[i].t = "num"   -> Digits
      [] rule[i].t = "date"  -> {Date}
      [] rule[i].t = "str"   -> IF Delimited(rule, i)
                                THEN Printable \ {Delimiter(rule, i)} ELSE {}

\* How many characters of the line from the p-th on are in the set.
Run(line, p, chars) ==
    Max({n \in 0 .. Len(line) - p + 1 : \A k \in p .. p + n - 1 : line[k] \in chars})

\* The places where part i of the rule ends if it begins at p: at most one.
Ends(rule, line, i, p) ==
    LET n == Run(line, p, Chars(rule, i)) IN
    CASE rule[i].t \in {"lit", "date"} -> IF n = 0 THEN {} ELSE {p + 1}
      [] rule[i].t = "blank"           -> {p + n}
      [] OTHER                         -> IF n = 0 THEN {} ELSE {p + n}

\* Plain spaces after "\ " in a rule are passed over with it.
NextPart(rule, i) ==
    IF rule[i].t # "blank" THEN i + 1
    ELSE Min({j \in i + 1 .. Len(rule) + 1 :
                j > Len(rule) \/ rule[j] # [t |-> "lit", c |-> Space]})

\* The ways the rule matches the line, at most one: the parts that were met,
\* each with the place at which it ends.  A part, also a "\ ", begins only
\* where a character is left.
Matches(rule, line) ==
    LET from[i \in 1 .. Len(rule) + 1] == [p \in 1 .. Len(line) + 1 |->
            IF i > Len(rule) THEN IF p > Len(line) THEN {<<>>} ELSE {}
            ELSE IF p > Len(line) THEN {}
            ELSE UNION {{<<[part |-> i, to |-> to]>> \o rest :
                            rest \in from[NextPart(rule, i)][to]} :
                        to \in Ends(rule, line, i, p)}]
    IN  from[1][1]

-----------------------------------------------------------------------------
(* What a rule means: a division of the line into pieces, one for each of  *)
(* its parts, where piece i ends before place c[i].                        *)

Alphabet(part) ==
    CASE part.t = "lit"   -> {part.c}
      [] part.t = "blank" -> Blanks
      [] part.t = "num"   -> Digits
      [] part.t = "date"  -> {Date}
      [] part.t = "str"   -> Printable

Start(c, i) == IF i = 1 THEN 1 ELSE c[i - 1]
Piece(line, c, i) == {line[k] : k \in Start(c, i) .. c[i] - 1}

\* A text that is sent holds nothing the next part could be made of.
Divides(rule, line, c) ==
    /\ IF rule = <<>> THEN line = <<>> ELSE c[Len(rule)] = Len(line) + 1
    /\ \A i \in DOMAIN rule :
          /\ Start(c, i) <= c[i] /\ Piece(line, c, i) \subseteq Alphabet(rule[i])
          /\ rule[i].t \in {"lit", "date"} => c[i] = Start(c, i) + 1
          /\ rule[i].t \in {"num", "str"} => Start(c, i) < c[i]
          /\ rule[i].t = "str" /\ rule[i].sent /\ i < Len(rule) =>
                Piece(line, c, i) \cap Alphabet(rule[i + 1]) = {}

\* The division is the only one to be thought of: no piece is empty, blanks and
\* numbers end where they must, and a text holds nothing that the character or
\* the blank behind it could be made of.  One that is not sent is followed by a
\* colon, or by nothing, and holds no colon.
Clear(rule, line, c) ==
    /\ Divides(rule, line, c) /\ \A i \in DOMAIN rule : Start(c, i) < c[i]
    /\ \A i \in DOMAIN rule :
          /\ rule[i].t = "str" /\ ~rule[i].sent => Colon \notin Piece(line, c, i)
          /\ i < Len(rule) =>
                CASE rule[i].t \in {"num", "blank"} ->
                        line[c[i]] \notin Alphabet(rule[i])
                  [] rule[i].t = "str" ->
                        IF rule[i].sent THEN rule[i + 1].t \in {"lit", "blank"}
                        ELSE rule[i + 1] = [t |-> "lit", c |-> Colon]
                  [] OTHER -> TRUE

\* A rule matches a line in the way its parts divide it, passing over nothing
\* but spaces behind a "\ "; and it does match if that way is clear.
MatchIsDivision(rule, line) ==
    /\ \A m \in Matches(rule, line) :
          /\ Divides([k \in DOMAIN m |-> rule[m[k].part]], line,
                     [k \in DOMAIN m |-> m[k].to])
          /\ \A i \in DOMAIN rule \ {m[k].part : k \in DOMAIN m} :
                /\ rule[i] = [t |-> "lit", c |-> Space]
                /\ \E j \in 1 .. i - 1 :
                      /\ rule[j].t = "blank"
                      /\ \A k \in j + 1 .. i : rule[k] = rule[i]
    /\ \A c \in [DOMAIN rule -> 2 .. Len(line) + 1] :
          Clear(rule, line, c) =>
            \E m \in Matches(rule, line) : [k \in DOMAIN m |-> m[k].to] = c
=============================================================================
