--------------------------- MODULE AlgorithmClaims ---------------------------
(***************************************************************************)
(* What is checked and proved of the algorithms without a state, the rule  *)
(* matcher, the conditions of a query and the samples of a graph: each     *)
(* input is a behaviour of one state.                                      *)
(***************************************************************************)
EXTENDS Integers, Sequences, FiniteSets

CONSTANTS Digits, Blanks, Printable, Space, Colon, Date,   \* of RuleMatcher
          Characters,        \* of the lines of a log
          IntWidth, Empty, MaxConditions, Overrun,   \* of Conditions
          Letters,           \* of the names of arguments
          Inputs             \* the inputs that are looked at
VARIABLE input

M == INSTANCE RuleMatcher
C == INSTANCE Conditions WITH Width <- IntWidth
G == INSTANCE GraphSamples

-----------------------------------------------------------------------------
(* The inputs there are.                                                   *)

Part == [t : {"lit"}, c : Characters] \cup [t : {"blank"}]
            \cup [t : {"num", "str", "date"}, sent : BOOLEAN]
Rule == Seq(Part)
Line == Seq(Characters)

\* A value is a place in the order of texts, and a number.
Value == [text : Int, num : Int]
Operators == {"=", "!", "<", ">"}
Condition == [name : Seq(Letters), op : Operators, value : Value]
Argument == [type : {"number", "string"}, name : Seq(Letters), value : Value]
LogEntry == [rule : Value, args : Seq(Argument)]

\* A part of a request: a name, the operators behind it, and a value.
RequestPart == [name : Seq(Letters), op : Seq(Operators), value : Value \cup {Empty}]

\* What strtok() returns: a name and its operators, or a value.
Token == [head : BOOLEAN, c : RequestPart]

AllInputs ==
    [algorithm : {"matcher"}, rule : Rule, line : Line]
        \cup [algorithm : {"request"}, request : Seq(RequestPart), heard : Seq(Token)]
        \cup [algorithm : {"entry"}, conditions : Seq(Condition), entry : LogEntry]
        \cup [algorithm : {"graph"}, samples : Nat \ {0}, total : Nat, rest : Int,
              entries : {e \in SUBSET Int : IsFiniteSet(e)}, failed : SUBSET Nat]

ASSUME AlgorithmConstants ==
    /\ M!MatcherAssumption
    /\ IntWidth \in Nat \ {0} /\ MaxConditions \in Nat
    /\ Inputs \subseteq AllInputs

AlgorithmSpec == input \in Inputs /\ [][UNCHANGED input]_input

-----------------------------------------------------------------------------
(* Properties.                                                             *)

\* parse_entry matches a line exactly as the parts of the rule divide it (module
\* RuleMatcher).
MatchesDivide ==
    input.algorithm = "matcher" => M!MatchIsDivision(input.rule, input.line)

\* A count query is read as it was sent, whose conditions fit and in whose walk no
\* other thread calls strtok(), and counts the entries it means (module Conditions).
QueryAsMeant ==
    /\ input.algorithm = "request" => C!ReadAsSent(input.request, input.heard)
    /\ input.algorithm = "entry" => C!CountsAsMeant(input.conditions, input.entry)

\* The samples of a graph follow each other to the end of its interval, with what the
\* uninitialised rest adds to it, and each shows the entries of its seconds (module
\* GraphSamples).
GraphPartition ==
    input.algorithm = "graph" =>
        G!SamplesPartition(input.samples, input.total, input.rest, input.entries,
                           input.failed)
=============================================================================
