------------------------------- MODULE DnsLookup -----------------------------
(***************************************************************************)
(* What src/dns/3600dns.c promises: it is started for one name, and ends   *)
(* once, without an answer or with the lines of an answer that the server  *)
(* has for that name.                                                      *)
(***************************************************************************)
CONSTANTS Clients, Names, NoName,
          MayTell(_, _)   \* the lines the server has for a name

VARIABLES
    asked,   \* the name each client was started for
    result   \* how it ended, and the lines it printed

lookupVars == <<asked, result>>

Nothing == [how |-> "none", lines |-> <<>>]
Failed == [how |-> "failed", lines |-> <<>>]

Init ==
    /\ asked = [c \in Clients |-> NoName]
    /\ result = [c \in Clients |-> Nothing]

Ask(c, name) ==
    /\ asked[c] = NoName
    /\ asked' = [asked EXCEPT ![c] = name]
    /\ UNCHANGED result

Fail(c) ==
    /\ result[c] = Nothing
    /\ result' = [result EXCEPT ![c] = Failed]
    /\ UNCHANGED asked

Tell(c, lines) ==
    /\ asked[c] # NoName /\ MayTell(asked[c], lines)
    /\ result[c] = Nothing
    /\ result' = [result EXCEPT ![c] = [how |-> "answered", lines |-> lines]]
    /\ UNCHANGED asked

Next ==
    \E c \in Clients :
        \/ \E name \in Names : Ask(c, name)
        \/ Fail(c)
        \/ Tell(c, result'[c].lines)

Spec == Init /\ [][Next]_lookupVars
==============================================================================
