----------------------------- MODULE MCDnsClient -----------------------------
(***************************************************************************)
(* Names of one and two labels, one with an empty label within, one with a *)
(* dot at its end, and the root's; answers with chains, several addresses, *)
(* records of another type in between, and none.                           *)
(***************************************************************************)
EXTENDS DnsClient

A == <<97>>
B == <<98>>
WWW == <<119, 119>>

Address(owner, last) == [owner |-> owner, type |-> TypeA, data |-> <<10, 0, 0, last>>]
Alias(owner, to) == [owner |-> owner, type |-> TypeCname, data |-> to]
Signature(owner) == [owner |-> owner, type |-> 46, data |-> <<0, 5, 8>>]

Found(aa, records) ==
    [aa |-> aa, tc |-> 0, rcode |-> 0, compress |-> aa = 1, records |-> records]

MCNames == {<<A>>, <<WWW, B, <<>>>>, <<A, <<>>, B>>, << <<>> >>}
MCStrayNames == {<<A>>}
MCZone ==
    (<<A>> :> {Found(0, <<Alias(<<A>>, <<WWW, A>>), Address(<<WWW, A>>, 0)>>),
               Found(1, <<Address(<<A>>, 7), Signature(<<A>>), Address(<<A>>, 8)>>)})
    @@ (<<WWW, B>> :> {Found(1, <<Alias(<<WWW, B>>, <<A, B>>), Alias(<<A, B>>, <<A, WWW, B>>),
                                  Address(<<A, WWW, B>>, 255), Address(<<A, WWW, B>>, 1)>>)})
    @@ (<<>> :> {Found(0, <<Address(<<>>, 2)>>)})

(***************************************************************************)
(* Any chain of up to three records about names of up to two labels, with  *)
(* and without pointers.                                                   *)
(***************************************************************************)
SomeNames == {<<A>>, <<WWW, A>>, <<A, B>>}
SomeRecords ==
    {Address(n, 0) : n \in SomeNames} \cup {Alias(n, m) : n, m \in SomeNames}
    \cup {Signature(<<A>>)}

MCOtherAnswers ==
    {[aa |-> 1, tc |-> 0, rcode |-> 0, compress |-> compress, records |-> records] :
        compress \in BOOLEAN, records \in UNION {[1 .. k -> SomeRecords] : k \in 0 .. 3}}
==============================================================================
