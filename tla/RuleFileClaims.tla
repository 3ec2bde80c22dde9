--------------------------- MODULE RuleFileClaims ---------------------------
\* What is checked and proved of RuleFile, under names that it shares with no
\* other module; treatPc is its pc.
CONSTANTS Names, Malformed, EntriesPerPage, MaxLines
VARIABLES file, treatPc, name, answer

R == INSTANCE RuleFile WITH pc <- treatPc

ASSUME RuleFileConstants == R!RuleFileAssumption

\* Well-typed lines and at most one rule of a name (module RuleFile).
FileSound == R!FileSound

\* The pages of the list are the rules, each once (module RuleFile).
PagesPartition == R!PagesPartition

\* Only a removal takes a rule away (module RuleFile).
RulesKept == R!RulesKept
=============================================================================
