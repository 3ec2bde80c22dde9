----------------------------- MODULE CountedLog -----------------------------
(***************************************************************************)
(* What the log of one information source promises to those who store      *)
(* entries and to those who count them: entries are appended and stay, and *)
(* a count is the count of one moment between question and answer.         *)
(*                                                                         *)
(* An entry is counted only if the reader gets to it.  It reads "on" past  *)
(* an ordinary entry, counts a "last" one and nothing behind it, and stops *)
(* in front of one it can "not" read.                                      *)
(***************************************************************************)
EXTENDS Naturals, FiniteSets

VARIABLES stored,    \* the entries, as [place, match, reads]
          asked,     \* is a count asked for?
          moments,   \* the counts there have been since
          answer     \* the last answer

vars == <<stored, asked, moments, answer>>

Count(s) ==
    LET stops == {e \in s : e.reads # "on"}
        Reached(e) == \A t \in stops : e.place < t.place \/ (e = t /\ t.reads = "last")
    IN  Cardinality({e \in s : e.match /\ Reached(e)})

Init == stored = {} /\ asked = FALSE /\ moments = {} /\ answer = 0

\* What is appended may make the entry in front of it unreadable.
Store ==
    /\ LET old == stored
           new == stored'
           appended == {e \in new : \A o \in old : o.place < e.place}
           spoiled == {[o EXCEPT !.reads = "not"] :
                         o \in {e \in old : \A o \in old : o.place <= e.place}}
       IN  /\ appended # {}
           /\ new \ appended \subseteq old \cup spoiled
           /\ {e.place : e \in new \ appended} = {o.place : o \in old}
    /\ moments' = IF asked THEN moments \cup {Count(stored')} ELSE moments
    /\ UNCHANGED <<asked, answer>>

Ask ==
    /\ ~asked /\ asked' = TRUE
    /\ moments' = {Count(stored)}
    /\ UNCHANGED <<stored, answer>>

Answer ==
    /\ asked /\ asked' = FALSE
    /\ answer' \in moments
    /\ moments' = {}
    /\ UNCHANGED stored

\* Reading failed: a part was counted.
AnswerPart ==
    /\ asked /\ asked' = FALSE
    /\ \E n \in moments : answer' \in 0 .. n
    /\ moments' = {}
    /\ UNCHANGED stored

Next == Store \/ Ask \/ Answer \/ AnswerPart

Spec == Init /\ [][Next]_vars
=============================================================================
