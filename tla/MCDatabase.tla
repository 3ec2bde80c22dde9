----------------------------- MODULE MCDatabase -----------------------------
\* The two parts of the server's database share nothing but the requests that
\* use both: one run checks either.
EXTENDS DatabaseClaims
CONSTANTS w1, w2
VARIABLE component

ASSUME LogAssumption

directoryVars == <<script, dirs, info, login, loginAt, rpc, ask, out, saved, result, since>>

MCEntries == {<<"{", "m", "]", "}">>, <<"{", "x", "]", "}">>,
              <<"{", "x", "x", "x", "x", "m", "]", "}">>,
              <<"{", "m", "]", "}", "x", "]", "}">>}

MCInit == /\ component \in {"directory", "log"}
          /\ Init /\ D!Init
          /\ component = "log" => script = "full"

MCNext ==
    /\ UNCHANGED component
    /\ \/ component = "directory" /\ D!Next /\ UNCHANGED vars
       \/ component = "log" /\ Next /\ UNCHANGED directoryVars

MCSpec ==
    /\ MCInit /\ [][MCNext]_<<component, vars, directoryVars>>
    /\ \A r \in Requests : WF_directoryVars(D!RequestStep(r) /\ UNCHANGED vars)
=============================================================================
