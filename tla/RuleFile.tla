------------------------------- MODULE RuleFile -------------------------------
(***************************************************************************)
(* The rule file of an information source and the commands of the agent's  *)
(* main thread that change and show it (treat() in Agent.cpp, has_rule and *)
(* add_rule in InfoSource.h).  The agent may end at any point; the file    *)
(* stays.                                                                  *)
(*                                                                         *)
(* The file is the sequence of its lines, each the name of a rule or       *)
(* Malformed: one without the '|' that ends a name.                        *)
(***************************************************************************)
EXTENDS Naturals, FiniteSets, SequencesExt

CONSTANTS Names, Malformed,
          EntriesPerPage,
          MaxLines       \* bound: lines in the file

\* What the constants are assumed to be.
RuleFileAssumption ==
    /\ Malformed \notin Names
    /\ EntriesPerPage \in Nat \ {0}
    /\ MaxLines \in Nat

VARIABLES file,
          pc,            \* of the main thread
          name,          \* the rule the command names
          answer         \* the response to the last command

vars == <<file, pc, name, answer>>

Lines == Names \cup {Malformed}

TypeOK ==
    /\ file \in Seq(Lines)
    /\ pc \in {"idle", "newline", "write", "mv"}
    /\ name \in Names
    /\ answer \in [text : {"none", "Success", "Error", "crash", "pages", "names"},
                   pages : Nat, names : Seq(Names)]

Text(t) == [text |-> t, pages |-> 0, names |-> <<>>]

Init == file = <<>> /\ pc = "idle" /\ name \in Names /\ answer = Text("none")

\* What read_fmt_entry gives to a loop that ends at the first empty entry: a
\* newline at the end of the file starts no entry.
Entries == IF file # <<>> /\ Last(file) = Malformed THEN Front(file) ELSE file

\* The entries but l, in their order.
Without(l, seq) ==
    LET kept[i \in 0 .. Len(seq)] ==
            IF i = 0 THEN <<>>
            ELSE IF seq[i] = l THEN kept[i - 1] ELSE Append(kept[i - 1], seq[i])
    IN  kept[Len(seq)]

Rules(seq) == Without(Malformed, seq)

\* Mutant of HasRule: only the last rule is looked at.
HasRuleLast(n) == Entries # <<>> /\ Last(Entries) = n

HasRule(n) == n \in Range(Entries)

-----------------------------------------------------------------------------
(* The commands.                                                           *)

\* CLMSG_ADDRLE; in add_rule the name is looked up once more.
AddRule(n) ==
    /\ pc = "idle" /\ Len(file) < MaxLines
    /\ name' = n
    /\ IF HasRule(n)
       THEN answer' = Text("Error") /\ UNCHANGED pc
       ELSE answer' = Text("none") /\ pc' = "newline"
    /\ UNCHANGED file

\* Mutant of AddNewline: no line is begun.
AddNewlineNot == pc = "newline" /\ pc' = "write" /\ UNCHANGED <<file, name, answer>>

\* The newline is written, except to an empty file.
AddNewline ==
    /\ pc = "newline"
    /\ file' = IF file = <<>> THEN file ELSE Append(file, Malformed)
    /\ pc' = "write"
    /\ UNCHANGED <<name, answer>>

\* The rule is written behind it.
AddWrite ==
    /\ pc = "write"
    /\ file' = IF file = <<>> THEN <<name>> ELSE Append(Front(file), name)
    /\ pc' = "idle" /\ answer' = Text("Success")
    /\ UNCHANGED name

\* open() or write() fails, or read() or fork() in CLMSG_RMVRLE.
CommandFails ==
    /\ pc # "idle"
    /\ pc' = "idle" /\ answer' = Text("Error")
    /\ UNCHANGED <<file, name>>

\* CLMSG_RMVRLE: the other well-formed rules are copied to a new file.
RemoveRule(n) ==
    /\ pc = "idle"
    /\ pc' = "mv" /\ name' = n /\ answer' = Text("none")
    /\ UNCHANGED file

Kept == Without(name, Rules(Entries))

\* mv puts it in the old one's place, or fails; the answer does not tell.
RemoveMv ==
    /\ pc = "mv"
    /\ file' \in {Kept, file}
    /\ answer' = Text(IF HasRule(name) THEN "Success" ELSE "Error")
    /\ pc' = "idle"
    /\ UNCHANGED name

\* Mutant of PageCount: rounded down.
PageCountDown == Len(Rules(Entries)) \div EntriesPerPage

\* CLMSG_AG_HOWMANY_RULEPAGES counts the well-formed rules.
PageCount ==
    LET n == Len(Rules(Entries))
    IN  n \div EntriesPerPage + (IF n % EntriesPerPage > 0 THEN 1 ELSE 0)

HowManyPages ==
    /\ pc = "idle"
    /\ answer' = [Text("pages") EXCEPT !.pages = PageCount]
    /\ UNCHANGED <<file, pc, name>>

\* CLMSG_AG_LIST_RULEPAGE counts every entry, but uncounts a malformed one
\* that falls on the page.
OnPage(n, page) ==
    LET q == n \div EntriesPerPage + 1
    IN  IF n % EntriesPerPage # 0 THEN q = page ELSE q = page + 1

Page(page) ==
    LET Entry(acc, l) ==
            IF ~OnPage(acc.n + 1, page) THEN [acc EXCEPT !.n = @ + 1]
            ELSE IF l = Malformed THEN acc
            ELSE [n |-> acc.n + 1, names |-> Append(acc.names, l)]
        after[i \in 0 .. Len(Entries)] ==
            IF i = 0 THEN [n |-> 0, names |-> <<>>]
            ELSE Entry(after[i - 1], Entries[i])
    IN  after[Len(Entries)].names

ListRulePage(page) ==
    /\ pc = "idle"
    /\ answer' = IF Page(page) = <<>> THEN Text("Error")
                 ELSE [Text("names") EXCEPT !.names = Page(page)]
    /\ UNCHANGED <<file, pc, name>>

\* CLMSG_AG_SHOW_RULE ends at the rule; at a malformed entry before it, the
\* null pointer p is written through and the agent ends.
ShowRule(n) ==
    LET stops == {i \in DOMAIN Entries : Entries[i] \in {n, Malformed}} IN
    /\ pc = "idle"
    /\ name' = n
    /\ answer' = Text(IF stops = {} THEN "Error"
                      ELSE IF Entries[Min(stops)] = n THEN "Success" ELSE "crash")
    /\ UNCHANGED <<file, pc>>

\* The agent ends and is started again.
Restart ==
    /\ pc # "idle"
    /\ pc' = "idle" /\ answer' = Text("none")
    /\ UNCHANGED <<file, name>>

Next ==
    \/ \E n \in Names : AddRule(n) \/ RemoveRule(n) \/ ShowRule(n)
    \/ AddNewline \/ AddWrite \/ CommandFails \/ RemoveMv \/ HowManyPages
    \/ \E page \in 1 .. MaxLines : ListRulePage(page)
    \/ Restart

Spec == Init /\ [][Next]_vars

-----------------------------------------------------------------------------
(* Properties.                                                             *)

\* A name is given to one rule only, whatever was interrupted before.
NamesUnique == IsInjective(Rules(file))

\* The file holds lines, and rules by different names.
FileSound == TypeOK /\ NamesUnique

\* A rule disappears only when the command to remove it is carried out.
RulesKept ==
    [][\A n \in Names : n \in Range(file) /\ n \notin Range(file')
                          => pc = "mv" /\ name = n]_vars

\* The pages that are announced hold every rule once, in the order of the
\* file, and there is no page behind them, as long as no command that was
\* interrupted has left a malformed entry.
Pages == [p \in 1 .. MaxLines |-> Page(p)]
PagesPartition ==
    Malformed \notin Range(Entries) =>
        /\ FlattenSeq(Pages) = Rules(Entries)
        /\ \A p \in DOMAIN Pages : p <= PageCount <=> Pages[p] # <<>>
=============================================================================
