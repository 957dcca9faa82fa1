------------------------------- MODULE DnsClient -----------------------------
(***************************************************************************)
(* Runs of src/dns/3600dns.c: each sends one query, waits 5 seconds for    *)
(* one datagram and ends.  Between a client and the server are UDP, which  *)
(* loses, repeats, delays and reorders, and other programs' datagrams.     *)
(***************************************************************************)
EXTENDS DnsServer

(***************************************************************************)
(* What may happen besides:                                                *)
(*   "stray"  a datagram comes that answers another program's query,       *)
(*   "reuse"  a client gets the port that one before it had.               *)
(***************************************************************************)
CONSTANTS Clients, Ports, NoPort, Names, NoName, Stranger, Environment,
          StrayNames,   \* the names other programs ask for
          OtherAnswers, \* answers the server might give, if it knew more
          InFlight      \* how many answers may be in flight (a bound)

OtherId == 7     \* the id of another program's query

(***************************************************************************)
(* A datagram in flight is written as what it was made of; asker, name and *)
(* answer are history.                                                     *)
(***************************************************************************)
StrangersQuery(n) == CreatePacket([SETUP EXCEPT !.id = OtherId], QName(n))

QueryBytes(request) ==
    IF request.asker = Stranger THEN StrangersQuery(request.name) ELSE Query(request.name)

ReplyBytes(reply) == Message(QueryBytes(reply), reply.answer)

ASSUME ClientAssumption ==
    /\ InFlight \in Nat /\ StrayNames \subseteq Names
    /\ NoName \notin Names /\ NoPort \notin Ports /\ Stranger \notin Clients

VARIABLES
    pc,         \* "start", "waiting" in select, "done"
    host,       \* argv[argc - 1] of a client that has sent its query
    port,       \* the port sendto binds the socket to
    socket,     \* the first datagram the socket has received, if any
    outcome,    \* how the client ended and what it printed
    requests,   \* queries in flight
    replies     \* answers in flight; who asked and what was meant is history

clientVars == <<pc, host, port, socket, outcome>>
vars == <<pc, host, port, socket, outcome, requests, replies>>

Init ==
    /\ pc = [c \in Clients |-> "start"]
    /\ host = [c \in Clients |-> NoName]
    /\ port = [c \in Clients |-> NoPort]
    /\ socket = [c \in Clients |-> {}]
    /\ outcome = [c \in Clients |-> Ended("none")]
    /\ requests = {}
    /\ replies = {}

Exit(c, how) ==
    /\ pc' = [pc EXCEPT ![c] = "done"]
    /\ outcome' = [outcome EXCEPT ![c] = how]

-----------------------------------------------------------------------------
(* main *)

Unused(p) ==
    \A d \in Clients : port[d] = p => "reuse" \in Environment /\ pc[d] = "done"

Request(c, n, p) == [from |-> p, asker |-> c, name |-> n]

\* a query that is lost was sent all the same
Send(c, n, p) ==
    /\ pc[c] = "start" /\ Unused(p)
    /\ pc' = [pc EXCEPT ![c] = "waiting"]
    /\ host' = [host EXCEPT ![c] = n]
    /\ port' = [port EXCEPT ![c] = p]
    /\ requests' \in {requests, requests \cup {Request(c, n, p)}}
    /\ UNCHANGED <<socket, outcome, replies>>

SendFails(c) ==
    /\ pc[c] = "start"
    /\ Exit(c, Ended("cannot send"))
    /\ UNCHANGED <<host, port, socket, requests, replies>>

\* recvfrom and all that follows
Receive(c) ==
    /\ pc[c] = "waiting"
    /\ \E reply \in socket[c] : Exit(c, Process(ReplyBytes(reply)))
    /\ UNCHANGED <<host, port, socket, requests, replies>>

\* in_len is not set: the kernel refuses a negative one
ReceiveFails(c) ==
    /\ pc[c] = "waiting" /\ socket[c] # {}
    /\ Exit(c, Ended("cannot receive"))
    /\ UNCHANGED <<host, port, socket, requests, replies>>

\* mutant of TimeOut: select is called without a timeout
TimeOutNever(c) == FALSE /\ pc[c] = "waiting" /\ UNCHANGED vars

\* select returns 0 after 5 seconds
TimeOut(c) ==
    /\ pc[c] = "waiting" /\ socket[c] = {}
    /\ Exit(c, Ended("NORESPONSE"))
    /\ UNCHANGED <<host, port, socket, requests, replies>>

-----------------------------------------------------------------------------
(* The server, the network and the kernel (external). *)

Reply(request, answer) ==
    [to |-> request.from, asker |-> request.asker, name |-> request.name, answer |-> answer]

\* the network drops what is too much for it
Room == Cardinality(replies) < InFlight

Serve(request) ==
    /\ \E answer \in Answers(QuestionOf(QueryBytes(request))) :
         \/ Room /\ replies' = replies \cup {Reply(request, answer)}
         \/ UNCHANGED replies
    /\ requests' \in {requests, requests \ {request}}
    /\ UNCHANGED clientVars

\* an answer to another program's query
Stray(p, n) ==
    /\ "stray" \in Environment /\ Room
    /\ \E answer \in Answers(Asked(n)) :
         replies' = replies \cup {Reply(Request(Stranger, n, p), answer)}
    /\ UNCHANGED <<clientVars, requests>>

Deliver(c, reply) ==
    /\ pc[c] = "waiting" /\ reply.to = port[c] /\ socket[c] = {}
    /\ socket' = [socket EXCEPT ![c] = {reply}]
    /\ replies' \in {replies, replies \ {reply}}
    /\ UNCHANGED <<pc, host, port, outcome, requests>>

Start(c) == SendFails(c) \/ \E n \in Names, p \in Ports : Send(c, n, p)

ClientStep(c) == Start(c) \/ Receive(c) \/ ReceiveFails(c) \/ TimeOut(c)

Next ==
    \/ \E c \in Clients : ClientStep(c)
    \/ \E request \in requests : Serve(request)
    \/ \E p \in Ports, n \in StrayNames : Stray(p, n)
    \/ \E c \in Clients, reply \in replies : Deliver(c, reply)

Spec == Init /\ [][Next]_vars

(***************************************************************************)
(* Only a client's own steps are fair.  (TLC computes no bytes to see that *)
(* Receive or ReceiveFails can end a client whose socket has a datagram.)  *)
(***************************************************************************)
Woken(c) ==
    /\ pc[c] = "waiting" /\ socket[c] # {}
    /\ pc' = [pc EXCEPT ![c] = "done"]

Fairness ==
    \A c \in Clients :
        WF_vars(Start(c)) /\ WF_vars(TimeOut(c)) /\ WF_pc(Woken(c))

FairSpec == Spec /\ Fairness

-----------------------------------------------------------------------------
TypeOK ==
    /\ pc \in [Clients -> {"start", "waiting", "done"}]
    /\ host \in [Clients -> Names \cup {NoName}]
    /\ port \in [Clients -> Ports \cup {NoPort}]
    /\ DOMAIN socket = Clients /\ DOMAIN outcome = Clients
    /\ \A c \in Clients : outcome[c].how = "none" <=> pc[c] # "done"
    /\ \A c \in Clients : pc[c] = "waiting" => port[c] \in Ports /\ host[c] \in Names

(***************************************************************************)
(* A name that is asked for and the answers to it survive the wire format: *)
(* the server sees the name that was asked for, what the client makes of   *)
(* any answer is what the server meant (create_packet_to_send,             *)
(* read_response), and it takes no answer to another program's query.      *)
(***************************************************************************)
Misunderstood ==
    {n \in Names :
        ~ (/\ QuestionOf(Query(n)) = Asked(n)
           /\ \A answer \in Answers(Asked(n)) \cup OtherAnswers :
                Understands(Query(n), n, answer))}

Mistaken ==
    {n \in StrayNames : \E answer \in Answers(Asked(n)) :
        Process(Message(StrangersQuery(n), answer)).how = "answered"}

WireAgrees ==
    /\ \A c \in Clients : host[c] \notin Misunderstood
    /\ \A reply \in replies : reply.asker = Stranger => reply.name \notin Mistaken

(***************************************************************************)
(* A client that takes the server's answer to its own query as its one     *)
(* datagram prints it and exits with 0, if it can read all of it and the   *)
(* name is not the root's (read_response and the checks in main).          *)
(***************************************************************************)
OwnAnswerIsPrinted ==
    \A c \in Clients : \A reply \in socket[c] :
        (/\ pc[c] = "done" /\ outcome[c].how # "cannot receive"
         /\ reply.asker = c /\ Asked(host[c]) # <<>> /\ Readable(reply.answer, Len(reply.answer.records))) =>
            outcome[c] = Told(reply.answer)

(***************************************************************************)
(* The clients implement DnsLookup: what they print, if anything, are      *)
(* lines of an answer to the name they were started for.                   *)
(***************************************************************************)
Result(c) ==
    IF outcome[c].how \in {"none", "answered"} THEN outcome[c]
    ELSE [how |-> "failed", lines |-> <<>>]

Lookup == INSTANCE DnsLookup WITH asked <- host, result <- [c \in Clients |-> Result(c)]

ImplementsLookup == Lookup!Spec

(***************************************************************************)
(* Every client ends, even if the server or the network never answers      *)
(* (select with a timeout; recvfrom only when a datagram is there).        *)
(***************************************************************************)
EveryClientEnds == \A c \in Clients : <>(pc[c] = "done")
==============================================================================
