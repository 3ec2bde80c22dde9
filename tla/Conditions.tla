----------------------------- MODULE Conditions -----------------------------
(***************************************************************************)
(* The conditions of a count query (CLMSG_COUNT_QUERY in                   *)
(* ClientDispatcher.cpp): how they are read from the request and when an   *)
(* entry of the log meets them.                                            *)
(*                                                                         *)
(* A value is a record [text |-> its place in the order of strcmp,         *)
(* num |-> the number it begins with]; a name is a sequence of characters. *)
(* A request is a sequence of [name, op, value], where value may be Empty  *)
(* and op is the sequence of operator characters behind the name, as       *)
(* <<"!", "=">>.  An entry is [rule |-> value, args |-> sequence of        *)
(* [type, name, value]].                                                   *)
(***************************************************************************)
EXTENDS Integers, SequencesExt

CONSTANTS Width,           \* number of values of an int
          Empty,           \* the value in ""
          MaxConditions,   \* that conditions[100] holds
          Overrun          \* what is read once conditions[100] is written

-----------------------------------------------------------------------------
(* Reading the conditions.                                                 *)

\* What strtok(.., "\"") finds: pieces of text between quotation marks, of
\* which the empty ones are passed over.  All names but the first follow a "&".
Tokens(request) ==
    LET NoText(k) == k = 1 /\ request[k].name = <<>> /\ request[k].op = <<>> IN
    FlattenSeq([k \in DOMAIN request |->
        (IF NoText(k) THEN <<>> ELSE <<[head |-> TRUE, c |-> request[k]]>>) \o
        (IF request[k].value = Empty THEN <<>>
         ELSE <<[head |-> FALSE, c |-> request[k]]>>)])

\* The operators are looked for in this order, whichever comes first in the
\* text; what stands before the one that is found is the name.
Operator(op) ==
    IF "=" \in Range(op) THEN "=" ELSE IF "!" \in Range(op) THEN "!"
    ELSE IF "<" \in Range(op) THEN "<" ELSE ">"

NameOf(c) ==
    LET at == Min({k \in DOMAIN c.op : c.op[k] = Operator(c.op)})
    IN  c.name \o SubSeq(c.op, 1, at - 1)

\* Of each two tokens one is a name with its operator, the next its value.
Faulty(heard, k) ==
    LET token == heard[2 * k - 1]
    IN  ~token.head \/ token.c.op = <<>> \/ NameOf(token.c) = <<>>

\* No condition is refused before the one that finds no room.
Overruns(heard) ==
    /\ Len(heard) > 2 * MaxConditions
    /\ \A k \in 1 .. MaxConditions : ~Faulty(heard, k)

\* What the thread makes of the tokens that strtok() returned to it, {} if there is
\* an error.  Its pointer is one for the process: they are the tokens of the request
\* until another thread calls it, and then whatever is left in any text.  The text of
\* a value holds no operator, that of a name may be taken for a value.
Parsed(heard) ==
    LET n == Len(heard) \div 2
        Text(token) == IF token.head THEN token.c ELSE token.c.value
        Condition(k) == LET c == heard[2 * k - 1].c
                        IN  [name |-> NameOf(c), op |-> Operator(c.op),
                             value |-> Text(heard[2 * k])]
    IN  IF Overruns(heard) THEN {Overrun}
        ELSE IF heard = <<>> \/ Len(heard) % 2 = 1 \/ \E k \in 1 .. n : Faulty(heard, k)
        THEN {}
        ELSE {[k \in 1 .. n |-> Condition(k)]}

-----------------------------------------------------------------------------
(* Matching an entry.                                                      *)

\* The lower bits of the number, as the C library computes it.
Atoi(v) == ((v.num + Width \div 2) % Width) - Width \div 2

Compares(op, x, y) ==
    CASE op = "=" -> x = y [] op = "!" -> x # y
      [] op = "<" -> x < y [] op = ">" -> x > y

\* Mutant of ArgMeets: all values are texts.
ArgMeetsText(c, arg) ==
    IsSuffix(c.name, arg.name) /\ Compares(c.op, arg.value.text, c.value.text)

\* The name of the condition is found at the end of an argument's name.  The
\* values are compared as numbers if "number" stands where it does before a
\* name of that length.
ArgMeets(c, arg) ==
    /\ IsSuffix(c.name, arg.name)
    /\ IF arg.type = "number" /\ Len(arg.name) = Len(c.name)
       THEN Compares(c.op, Atoi(arg.value), Atoi(c.value))
       ELSE Compares(c.op, arg.value.text, c.value.text)

RuleName == <<"rule">>

Meets(c, entry) ==
    IF c.name = RuleName THEN Compares(c.op, entry.rule.text, c.value.text)
    ELSE \E k \in DOMAIN entry.args : ArgMeets(c, entry.args[k])

Counted(conditions, entry) ==
    \A k \in DOMAIN conditions : Meets(conditions[k], entry)

-----------------------------------------------------------------------------
(* What the client asks for.                                               *)

\* Conditions as the help of the client describes them.
Proper(request) ==
    \A k \in DOMAIN request :
        /\ request[k].name # <<>> /\ Len(request[k].op) = 1
        /\ request[k].value # Empty

Typed(c, arg) ==
    /\ arg.name = c.name
    /\ IF arg.type = "number" THEN Compares(c.op, arg.value.num, c.value.num)
       ELSE Compares(c.op, arg.value.text, c.value.text)

IsMeant(c, entry) ==
    IF c.name = RuleName THEN Compares(c.op, entry.rule.text, c.value.text)
    ELSE \E k \in DOMAIN entry.args : Typed(c, entry.args[k])

AnInt(v) == -(Width \div 2) <= v.num /\ v.num < Width \div 2

\* As long as no other thread calls strtok(): a request of not too many conditions
\* overruns nothing, proper ones are read as they were sent, and a request with one
\* empty value is refused (with two it may be misread).  If another thread does,
\* the conditions read before are still those that were sent.
ReadAsSent(request, heard) ==
    LET own == Tokens(request)
        sent == [k \in DOMAIN request |-> [request[k] EXCEPT !.op = @[1]]]
        Undisturbed(k) == /\ 2 * k <= Len(heard)
                          /\ \A j \in 1 .. 2 * k : heard[j] = own[j]
    IN  /\ heard = own /\ Len(request) <= MaxConditions =>
              /\ ~Overruns(heard)
              /\ Proper(request) /\ request # <<>> => Parsed(heard) = {sent}
              /\ /\ \A k \in DOMAIN request : request[k].name # <<>>
                 /\ Cardinality({k \in DOMAIN request : request[k].value = Empty}) = 1
                 => Parsed(heard) = {}
        /\ Proper(request) =>
              \A read \in Parsed(heard) :
                  read # Overrun => \A k \in DOMAIN request :
                      Undisturbed(k) => k \in DOMAIN read /\ read[k] = sent[k]

\* An entry that meets the conditions by the types of its arguments is counted,
\* and no other, unless an argument has a name that ends with that of a condition.
\* Numbers are those an int can hold.
CountsAsMeant(conditions, entry) ==
    LET ints == /\ \A k \in DOMAIN conditions : AnInt(conditions[k].value)
                /\ \A k \in DOMAIN entry.args : AnInt(entry.args[k].value)
        meant == \A k \in DOMAIN conditions : IsMeant(conditions[k], entry)
        longer == \E k \in DOMAIN conditions, j \in DOMAIN entry.args :
                     IsStrictSuffix(conditions[k].name, entry.args[j].name)
    IN  ints => /\ meant => Counted(conditions, entry)
                /\ Counted(conditions, entry) /\ ~longer => meant
=============================================================================
