---------------------------- MODULE MCAlgorithms ----------------------------
\* Algorithms that share nothing: one run checks each on small inputs.  Those
\* without a state of their own have one state for each input; the input of the
\* others is their name.
EXTENDS FramingClaims, LogReaderClaims, AlgorithmClaims, SequencesExt

framingVars == <<part, length, total, announced, taken, broken, silent>>
readVars == <<follow, burst, lines, terminated, offset, buf, readerPc, out>>

Upto(n, S) == UNION {[1 .. m -> S] : m \in 0 .. n}

-----------------------------------------------------------------------------
Rules == Upto(3, [t : {"lit"}, c : {"a", " ", ":"}] \cup [t : {"blank"}]
                    \cup [t : {"num", "str", "date"}, sent : BOOLEAN]) \ {<<>>}
HasText(rule) == \E i \in DOMAIN rule : rule[i].t = "str"

\* The numbers 9, 10 and 40, which is more than an int holds, and a text.
Nine == [text |-> 3, num |-> 9]
Ten  == [text |-> 1, num |-> 10]
Much == [text |-> 2, num |-> 40]
Text == [text |-> 4, num |-> 0]
Names == {<<"A">>, <<"B", "A">>}
Args == [type : {"number"}, name : Names, value : {Nine, Ten, Much}]
            \cup [type : {"string"}, name : Names, value : {Ten, Text}]
Asked == [name : {<<"rule">>} \cup Names, op : Operators, value : {Nine, Ten, Text}]
Sent == [name : {<<>>, <<"A">>}, op : {<<>>, <<"=">>, <<"!", "=">>, <<"<">>},
         value : {Empty, Ten}]

\* A list of conditions as it was sent, or one in whose reading another thread calls
\* strtok(): the rest then is of another text, or of a later place in its own.
OfOthers == {[head |-> h, c |-> [name |-> <<"A">>, op |-> <<"<">>, value |-> Ten]] :
                h \in BOOLEAN}
Heard(request) ==
    LET own == C!Tokens(request)
    IN  {own} \cup {SubSeq(own, 1, n) \o SubSeq(own, m, Len(own)) :
                       n \in 0 .. Len(own), m \in 1 .. Len(own) + 1}
              \cup {SubSeq(own, 1, n) \o others :
                       n \in 1 .. Len(own), others \in Upto(3, OfOthers)}
Requests == {[algorithm |-> "request", request |-> request, heard |-> C!Tokens(request)] :
                request \in Upto(3, Sent)}
               \cup UNION {[algorithm : {"request"}, request : {request},
                            heard : Heard(request)] : request \in Upto(2, Sent)}

\* A line with a date is tried on rules that have no text.
MCInputs ==
    [algorithm : {"matcher"}, rule : Rules, line : Upto(3, {"a", "1", " ", ":"})]
        \cup [algorithm : {"matcher"}, rule : {r \in Rules : ~HasText(r)},
              line : Upto(3, {"a", "1", " ", Date})]
        \cup Requests
        \cup [algorithm : {"entry"}, conditions : Asked \X Asked,
              entry : [rule : {Nine, Text}, args : Upto(2, Args)]]
        \cup UNION {[algorithm : {"graph"}, samples : 1 .. 4, total : {n},
                     rest : {-3, 0, 1, 5}, entries : SUBSET (0 .. n + 1),
                     failed : SUBSET {0, 3}] : n \in 0 .. 7}

FramingIdle == part = "received" /\ announced = 1 /\ length = 1 /\ total = 1
               /\ taken = 1 /\ broken = FALSE /\ silent = FALSE
ReaderIdle == follow = FALSE /\ lines = <<>> /\ burst = FALSE /\ terminated = TRUE
              /\ offset = 0
              /\ buf = <<>> /\ readerPc = "end" /\ out = <<>>

Framed == input.algorithm = "framing"
Reads == input.algorithm = "reader"

MCInit ==
    \/ input = [algorithm |-> "framing"] /\ F!Init /\ ReaderIdle
    \/ input = [algorithm |-> "reader"] /\ L!Init /\ FramingIdle
    \/ input \in Inputs /\ FramingIdle /\ ReaderIdle

MCNext ==
    /\ UNCHANGED input
    /\ \/ Framed /\ F!Next /\ UNCHANGED readVars
       \/ Reads /\ L!Next /\ UNCHANGED framingVars

MCSpec ==
    /\ MCInit /\ [][MCNext]_<<input, framingVars, readVars>>
    /\ WF_framingVars(/\ Framed /\ ~(silent /\ F!Short) /\ F!Step
                      /\ UNCHANGED readVars)
    /\ WF_readVars(Reads /\ L!ReaderStep /\ UNCHANGED framingVars)
=============================================================================
