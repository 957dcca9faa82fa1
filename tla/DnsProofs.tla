------------------------------- MODULE DnsProofs ------------------------------
(***************************************************************************)
(* What holds of any number of runs of src/dns/3600dns.c, for any names,   *)
(* ports and answers.  What the wire format does to a message is not       *)
(* proved here but assumed (Agreement); WireAgrees checks it on examples.  *)
(***************************************************************************)
EXTENDS DnsClient, TLAPS

Agreement == Misunderstood = {} /\ Mistaken = {}

\* what is in flight in a client's name is about that client's query
Owned(m, p) ==
    /\ m.asker \in Clients /\ m.name \in Names /\ p \in Ports
    /\ host[m.asker] = m.name /\ port[m.asker] = p

Genuine(reply) ==
    /\ reply.answer \in Answers(Asked(reply.name))
    /\ \/ Owned(reply, reply.to)
       \/ reply.asker = Stranger /\ reply.name \in StrayNames

RequestsInv == \A request \in requests : Owned(request, request.from)

RepliesInv == \A reply \in replies : Genuine(reply)

SocketInv ==
    \A c \in Clients : \A reply \in socket[c] :
        Genuine(reply) /\ reply.to = port[c] /\ socket[c] = {reply}

StartInv ==
    \A c \in Clients :
        /\ pc[c] = "start" => host[c] = NoName /\ port[c] = NoPort /\ socket[c] = {}
        /\ pc[c] # "done" => outcome[c] = Ended("none")

\* how a client that has ended did so
OutcomeInv ==
    \A c \in Clients : pc[c] = "done" =>
        \/ outcome[c] = Ended("cannot receive")
        \/ outcome[c] \in {Ended("cannot send"), Ended("NORESPONSE")} /\ socket[c] = {}
        \/ \E reply \in socket[c] : outcome[c] = Process(ReplyBytes(reply))

\* no two clients have the same port
PortsInv == \A c, d \in Clients : port[c] = port[d] /\ port[c] \in Ports => c = d

-----------------------------------------------------------------------------
(* How main ends. *)

LEMMA ProcessEnds == ASSUME NEW m PROVE Process(m).how # "none"
BY DEF Process, Checked, Ended

LEMMA ProcessAnswers ==
    ASSUME NEW m, Process(m).how = "answered"
    PROVE  Process(m) = [how |-> "answered", lines |-> Process(m).lines]
BY DEF Process, Checked, Ended

LEMMA TypeStep == TypeOK /\ [Next]_vars => TypeOK'
<1> SUFFICES ASSUME TypeOK, [Next]_vars PROVE TypeOK'
  OBVIOUS
<1> USE DEF TypeOK
<1>1. ASSUME NEW c \in Clients, SendFails(c) PROVE TypeOK'
  BY <1>1 DEF SendFails, Exit, Ended
<1>2. ASSUME NEW c \in Clients, NEW n \in Names, NEW p \in Ports, Send(c, n, p)
      PROVE  TypeOK'
  BY <1>2 DEF Send
<1>3. ASSUME NEW c \in Clients, Receive(c) PROVE TypeOK'
  <2>1. PICK reply \in socket[c] : Exit(c, Process(ReplyBytes(reply)))
    BY <1>3 DEF Receive
  <2>2. Process(ReplyBytes(reply)).how # "none"
    BY ProcessEnds
  <2>3. outcome' = [outcome EXCEPT ![c] = Process(ReplyBytes(reply))]
        /\ pc' = [pc EXCEPT ![c] = "done"] /\ UNCHANGED <<host, port, socket>>
    BY <1>3, <2>1 DEF Receive, Exit
  <2> HIDE DEF Process, ReplyBytes
  <2> QED
    BY <2>2, <2>3
<1>4. ASSUME NEW c \in Clients, ReceiveFails(c) PROVE TypeOK'
  BY <1>4 DEF ReceiveFails, Exit, Ended
<1>5. ASSUME NEW c \in Clients, TimeOut(c) PROVE TypeOK'
  BY <1>5 DEF TimeOut, Exit, Ended
<1>6. ASSUME NEW request \in requests, Serve(request) PROVE TypeOK'
  BY <1>6 DEF Serve, clientVars
<1>7. ASSUME NEW p \in Ports, NEW n \in StrayNames, Stray(p, n) PROVE TypeOK'
  BY <1>7 DEF Stray, clientVars
<1>8. ASSUME NEW c \in Clients, NEW reply \in replies, Deliver(c, reply) PROVE TypeOK'
  BY <1>8 DEF Deliver
<1>9. CASE UNCHANGED vars
  BY <1>9 DEF vars
<1> QED
  BY <1>1, <1>2, <1>3, <1>4, <1>5, <1>6, <1>7, <1>8, <1>9 DEF Next, ClientStep, Start

(***************************************************************************)
(* Type correctness: a client that waits has a name and a port, and one    *)
(* has an outcome when it has ended (main).                                *)
(***************************************************************************)
THEOREM TypeCorrect == Spec => []TypeOK
<1>1. Init => TypeOK
  BY DEF Init, TypeOK, Ended
<1> QED
  BY <1>1, TypeStep, PTL DEF Spec

-----------------------------------------------------------------------------
(***************************************************************************)
(* What is sent, in flight and received keeps belonging to the query it    *)
(* was made for (no client sends twice), and an outcome to the datagram it *)
(* was read from.                                                          *)
(***************************************************************************)
Inv == TypeOK /\ RequestsInv /\ RepliesInv /\ SocketInv /\ StartInv /\ OutcomeInv

LEMMA OwnedStays ==
    ASSUME TypeOK, StartInv, NEW m, NEW p, Owned(m, p),
           \A c \in Clients : pc[c] # "start" => host'[c] = host[c] /\ port'[c] = port[c]
    PROVE  Owned(m, p)'
BY ClientAssumption DEF Owned, TypeOK, StartInv

LEMMA GenuineStays ==
    ASSUME TypeOK, StartInv, NEW reply, Genuine(reply),
           \A c \in Clients : pc[c] # "start" => host'[c] = host[c] /\ port'[c] = port[c]
    PROVE  Genuine(reply)'
BY OwnedStays DEF Genuine

(***************************************************************************)
(* Only a client that has not started yet gets a name and a port.          *)
(***************************************************************************)
LEMMA StartedKeep ==
    ASSUME TypeOK, [Next]_vars
    PROVE  \A c \in Clients : pc[c] # "start" => host'[c] = host[c] /\ port'[c] = port[c]
<1>1. ASSUME NEW c \in Clients, NEW n \in Names, NEW p \in Ports, Send(c, n, p)
      PROVE  \A d \in Clients : pc[d] # "start" => host'[d] = host[d] /\ port'[d] = port[d]
  BY <1>1 DEF Send, TypeOK
<1>2. CASE UNCHANGED <<host, port>>
  BY <1>2
<1> QED
  BY <1>1, <1>2 DEF Next, ClientStep, Start, SendFails, Receive, ReceiveFails, TimeOut,
     Serve, Stray, Deliver, clientVars, vars

LEMMA InvInit == Init => Inv
BY DEF Init, Inv, TypeOK, RequestsInv, RepliesInv, SocketInv, StartInv, OutcomeInv, Ended

LEMMA RequestsStep ==
    ASSUME Inv, [Next]_vars PROVE RequestsInv'
<1> SUFFICES ASSUME NEW request \in requests' PROVE Owned(request, request.from)'
  BY DEF RequestsInv
<1>1. CASE request \in requests
  BY <1>1, StartedKeep, OwnedStays DEF Inv, RequestsInv
<1>2. CASE request \notin requests
  <2>1. ASSUME NEW r \in requests, Serve(r) PROVE FALSE
    BY <1>2, <2>1 DEF Serve
  <2>2. PICK c \in Clients, n \in Names, p \in Ports : Send(c, n, p)
    BY <1>2, <2>1 DEF Next, ClientStep, Start, SendFails, Receive, ReceiveFails, TimeOut,
       Stray, Deliver, clientVars, vars
  <2>3. request = Request(c, n, p)
    BY <1>2, <2>2 DEF Send
  <2> QED
    BY <2>2, <2>3 DEF Send, Request, Owned, Inv, TypeOK
<1> QED
  BY <1>1, <1>2

\* the server is asked for the name that the client was started for
LEMMA ServerReads ==
    ASSUME Agreement, NEW request, Owned(request, request.from)
    PROVE  QuestionOf(QueryBytes(request)) = Asked(request.name)
<1>1. request.name \in Names /\ request.asker # Stranger
  BY ClientAssumption DEF Owned
<1>2. QueryBytes(request) = Query(request.name)
  BY <1>1 DEF QueryBytes
<1>3. request.name \notin Misunderstood
  BY DEF Agreement
<1> QED
  BY <1>1, <1>2, <1>3 DEF Misunderstood

LEMMA RepliesStep ==
    ASSUME Agreement, Inv, [Next]_vars PROVE RepliesInv'
<1> SUFFICES ASSUME NEW reply \in replies' PROVE Genuine(reply)'
  BY DEF RepliesInv
<1>1. CASE reply \in replies
  BY <1>1, StartedKeep, GenuineStays DEF Inv, RepliesInv
<1>2. ASSUME NEW request \in requests, Serve(request), reply \notin replies
      PROVE  Genuine(reply)'
  <2>1. Owned(request, request.from)
    BY DEF Inv, RequestsInv
  <2>2. PICK answer \in Answers(Asked(request.name)) : reply = Reply(request, answer)
    BY <1>2, <2>1, ServerReads DEF Serve
  <2>3. Genuine(reply)
    BY <2>1, <2>2 DEF Genuine, Owned, Reply
  <2> QED
    BY <2>3, StartedKeep, GenuineStays DEF Inv
<1>3. ASSUME NEW p \in Ports, NEW n \in StrayNames, Stray(p, n), reply \notin replies
      PROVE  Genuine(reply)'
  <2>1. PICK answer \in Answers(Asked(n)) : reply = Reply(Request(Stranger, n, p), answer)
    BY <1>3 DEF Stray
  <2> QED
    BY <2>1 DEF Genuine, Reply, Request
<1> QED
  BY <1>1, <1>2, <1>3 DEF Next, ClientStep, Start, Send, SendFails, Receive, ReceiveFails,
     TimeOut, Deliver, vars

LEMMA SocketStep ==
    ASSUME Inv, [Next]_vars PROVE SocketInv'
<1> SUFFICES ASSUME NEW c \in Clients, NEW reply \in socket'[c]
             PROVE  Genuine(reply)' /\ reply.to = port'[c] /\ socket'[c] = {reply}
  BY DEF SocketInv
<1>1. CASE socket'[c] = socket[c]
  <2>1. Genuine(reply) /\ reply.to = port[c] /\ socket[c] = {reply} /\ pc[c] # "start"
    BY <1>1 DEF Inv, SocketInv, StartInv
  <2> QED
    BY <1>1, <2>1, StartedKeep, GenuineStays DEF Inv
<1>2. ASSUME NEW other \in replies, Deliver(c, other), socket'[c] = {other}
      PROVE  Genuine(reply)' /\ reply.to = port'[c] /\ socket'[c] = {reply}
  <2>1. Genuine(other) /\ reply = other
    BY <1>2 DEF Inv, RepliesInv
  <2> QED
    BY <1>2, <2>1, StartedKeep, GenuineStays DEF Inv, Deliver
<1>3. ASSUME NEW d \in Clients, NEW other \in replies, Deliver(d, other)
      PROVE  IF c = d THEN socket'[c] = {other} ELSE socket'[c] = socket[c]
  BY <1>3 DEF Deliver, Inv, TypeOK
<1>4. CASE UNCHANGED socket
  BY <1>1, <1>4
<1> QED
  BY <1>1, <1>2, <1>3, <1>4 DEF Next, ClientStep, Start, Send, SendFails, Receive,
     ReceiveFails, TimeOut, Serve, Stray, clientVars, vars

(***************************************************************************)
(* What a client has, it has until it ends: main waits once and receives   *)
(* once.                                                                   *)
(***************************************************************************)
LEMMA OutcomeStep ==
    ASSUME Inv, [Next]_vars PROVE StartInv' /\ OutcomeInv'
<1> USE DEF Inv, TypeOK, StartInv, OutcomeInv
<1>1. ASSUME NEW c \in Clients, SendFails(c) PROVE StartInv' /\ OutcomeInv'
  BY <1>1 DEF SendFails, Exit
<1>2. ASSUME NEW c \in Clients, NEW n \in Names, NEW p \in Ports, Send(c, n, p)
      PROVE  StartInv' /\ OutcomeInv'
  BY <1>2 DEF Send
<1>3. ASSUME NEW c \in Clients, Receive(c) PROVE StartInv' /\ OutcomeInv'
  <2>1. PICK reply \in socket[c] :
          /\ pc' = [pc EXCEPT ![c] = "done"]
          /\ outcome' = [outcome EXCEPT ![c] = Process(ReplyBytes(reply))]
          /\ UNCHANGED <<host, port, socket>>
    BY <1>3 DEF Receive, Exit
  <2>2. outcome'[c] = Process(ReplyBytes(reply)) /\ reply \in socket'[c]
    BY <2>1
  <2>3. \A d \in Clients \ {c} : pc'[d] = pc[d] /\ outcome'[d] = outcome[d]
    BY <2>1
  <2> QED
    BY <2>1, <2>2, <2>3
<1>4. ASSUME NEW c \in Clients, ReceiveFails(c) PROVE StartInv' /\ OutcomeInv'
  BY <1>4 DEF ReceiveFails, Exit
<1>5. ASSUME NEW c \in Clients, TimeOut(c) PROVE StartInv' /\ OutcomeInv'
  BY <1>5 DEF TimeOut, Exit
<1>6. ASSUME NEW c \in Clients, NEW reply \in replies, Deliver(c, reply)
      PROVE  StartInv' /\ OutcomeInv'
  BY <1>6 DEF Deliver
<1>7. CASE UNCHANGED clientVars
  BY <1>7 DEF clientVars
<1>8. UNCHANGED vars => UNCHANGED clientVars
  BY DEF vars, clientVars
<1> HIDE DEF Inv, TypeOK, StartInv, OutcomeInv
<1> QED
  BY <1>1, <1>2, <1>3, <1>4, <1>5, <1>6, <1>7, <1>8
  DEF Next, ClientStep, Start, Serve, Stray

LEMMA InvStep == Agreement /\ Inv /\ [Next]_vars => Inv'
BY TypeStep, RequestsStep, RepliesStep, SocketStep, OutcomeStep DEF Inv

LEMMA InvHolds == ASSUME Agreement PROVE Spec => []Inv
<1>1. Inv /\ [Next]_vars => Inv'
  BY InvStep
<1> QED
  BY <1>1, InvInit, PTL DEF Spec

-----------------------------------------------------------------------------
\* a client's own answer in its socket is an answer to its name
LEMMA OwnAnswer ==
    ASSUME Inv, NEW c \in Clients, NEW reply \in socket[c], reply.asker = c
    PROVE  /\ host[c] \in Names /\ reply.answer \in Answers(Asked(host[c]))
           /\ ReplyBytes(reply) = Message(Query(host[c]), reply.answer)
<1>1. Genuine(reply) /\ c # Stranger
  BY ClientAssumption DEF Inv, SocketInv
<1>2. reply.name = host[c] /\ host[c] \in Names /\ reply.answer \in Answers(Asked(reply.name))
  BY <1>1 DEF Genuine, Owned
<1> QED
  BY <1>1, <1>2 DEF ReplyBytes, QueryBytes

LEMMA AnswersUnderstood ==
    ASSUME Agreement, NEW n \in Names, NEW answer \in Answers(Asked(n))
    PROVE  Understands(Query(n), n, answer)
<1>1. n \notin Misunderstood
  BY DEF Agreement
<1> QED
  BY <1>1 DEF Misunderstood

(***************************************************************************)
(* Every client that takes the server's answer to its own query prints it  *)
(* and exits with 0, if it can read all of it (read_response and the       *)
(* checks in main): no other end of the run can follow.                    *)
(***************************************************************************)
THEOREM OwnAnswers == ASSUME Agreement PROVE Spec => []OwnAnswerIsPrinted
<1>1. ASSUME Inv PROVE OwnAnswerIsPrinted
  <2> SUFFICES ASSUME NEW c \in Clients, NEW reply \in socket[c], pc[c] = "done",
                      outcome[c].how # "cannot receive", reply.asker = c,
                      Asked(host[c]) # <<>>,
                      Readable(reply.answer, Len(reply.answer.records))
               PROVE  outcome[c] = Told(reply.answer)
    BY DEF OwnAnswerIsPrinted
  <2>1. outcome[c] = Process(ReplyBytes(reply))
    <3>1. socket[c] = {reply}
      BY <1>1 DEF Inv, SocketInv
    <3>2. outcome[c] # Ended("cannot receive")
      <4>1. Ended("cannot receive").how = "cannot receive"
        BY DEF Ended
      <4> QED
        BY <4>1
    <3> QED
      BY <1>1, <3>1, <3>2 DEF Inv, OutcomeInv
  <2>2. Understands(Query(host[c]), host[c], reply.answer)
        /\ ReplyBytes(reply) = Message(Query(host[c]), reply.answer)
    BY <1>1, OwnAnswer, AnswersUnderstood
  <2> QED
    BY <2>1, <2>2 DEF Understands
<1> QED
  BY <1>1, InvHolds, PTL

-----------------------------------------------------------------------------
LEMMA PortsStep ==
    ASSUME "reuse" \notin Environment, TypeOK, PortsInv, [Next]_vars PROVE PortsInv'
<1>1. ASSUME NEW c \in Clients, NEW n \in Names, NEW p \in Ports, Send(c, n, p)
      PROVE  PortsInv'
  BY <1>1 DEF Send, Unused, PortsInv, TypeOK
<1>2. CASE UNCHANGED port
  BY <1>2 DEF PortsInv
<1> QED
  BY <1>1, <1>2 DEF Next, ClientStep, Start, SendFails, Receive, ReceiveFails, TimeOut,
     Serve, Stray, Deliver, clientVars, vars

LEMMA PortsHold ==
    ASSUME "reuse" \notin Environment PROVE Spec => []PortsInv
<1>1. Init => PortsInv
  BY ClientAssumption DEF Init, PortsInv
<1>2. TypeOK /\ PortsInv /\ [Next]_vars => PortsInv'
  BY PortsStep
<1> QED
  BY <1>1, <1>2, TypeCorrect, PTL DEF Spec

(***************************************************************************)
(* What a client makes of any datagram it receives: if it takes it for an  *)
(* answer, the server has those lines for the name it was started for.     *)
(***************************************************************************)
LEMMA ReceivedIsTellable ==
    ASSUME Agreement, Inv, PortsInv, NEW c \in Clients, NEW reply \in socket[c],
           Process(ReplyBytes(reply)).how = "answered"
    PROVE  host[c] # NoName /\ MayTell(host[c], Process(ReplyBytes(reply)).lines)
<1>1. Genuine(reply) /\ reply.to = port[c]
  BY DEF Inv, SocketInv
<1>2. CASE Owned(reply, reply.to)
  <2>1. reply.asker = c
    BY <1>1, <1>2 DEF Owned, PortsInv
  <2>2. /\ host[c] \in Names /\ reply.answer \in Answers(Asked(host[c]))
        /\ ReplyBytes(reply) = Message(Query(host[c]), reply.answer)
    BY <2>1, OwnAnswer
  <2>3. Understands(Query(host[c]), host[c], reply.answer)
    BY <2>2, AnswersUnderstood
  <2> QED
    BY <2>2, <2>3, ClientAssumption DEF Understands, MayTell
<1>3. CASE reply.asker = Stranger /\ reply.name \in StrayNames
  <2>1. ReplyBytes(reply) = Message(StrangersQuery(reply.name), reply.answer)
    BY <1>3 DEF ReplyBytes, QueryBytes
  <2>2. reply.name \in Mistaken
    BY <1>1, <1>3, <2>1 DEF Mistaken, Genuine
  <2> QED
    BY <2>2 DEF Agreement
<1> QED
  BY <1>1, <1>2, <1>3 DEF Genuine

-----------------------------------------------------------------------------
\* a client that ends without an answer has failed
LEMMA FailRefines ==
    ASSUME Inv, NEW c \in Clients, NEW how, pc[c] # "done",
           Exit(c, how), how.how \notin {"none", "answered"}, UNCHANGED host
    PROVE  Lookup!Fail(c)
<1>1. Result(c) = Lookup!Nothing
  BY DEF Inv, StartInv, Result, Ended, Lookup!Nothing
<1>2. /\ Result(c)' = Lookup!Failed
      /\ \A d \in Clients \ {c} : Result(d)' = Result(d)
  BY DEF Exit, Result, Lookup!Failed, Inv, TypeOK
<1> QED
  BY <1>1, <1>2 DEF Lookup!Fail

LEMMA TellRefines ==
    ASSUME Inv, NEW c \in Clients, NEW how, pc[c] # "done",
           Exit(c, how), how = [how |-> "answered", lines |-> how.lines],
           host[c] # NoName, MayTell(host[c], how.lines), UNCHANGED host
    PROVE  Lookup!Tell(c, Result(c)'.lines)
<1>1. Result(c) = Lookup!Nothing
  BY DEF Inv, StartInv, Result, Ended, Lookup!Nothing
<1>2. /\ Result(c)' = [how |-> "answered", lines |-> how.lines]
      /\ \A d \in Clients \ {c} : Result(d)' = Result(d)
  BY DEF Exit, Result, Inv, TypeOK
<1> QED
  BY <1>1, <1>2 DEF Lookup!Tell

LEMMA LookupStep ==
    ASSUME Agreement, Inv, PortsInv, [Next]_vars
    PROVE  [Lookup!Next]_(Lookup!lookupVars)
<1>1. ASSUME NEW c \in Clients, SendFails(c) PROVE Lookup!Next
  BY <1>1, FailRefines DEF SendFails, Ended, Lookup!Next
<1>2. ASSUME NEW c \in Clients, NEW n \in Names, NEW p \in Ports, Send(c, n, p)
      PROVE  Lookup!Next
  <2>1. Lookup!Ask(c, n)
    BY <1>2 DEF Send, Inv, StartInv, TypeOK, Result, Lookup!Ask
  <2> QED
    BY <2>1 DEF Lookup!Next
<1>3. ASSUME NEW c \in Clients, Receive(c) PROVE Lookup!Next
  <2>1. PICK reply \in socket[c] : Exit(c, Process(ReplyBytes(reply)))
    BY <1>3 DEF Receive
  <2>2. CASE Process(ReplyBytes(reply)).how = "answered"
    BY <1>3, <2>1, <2>2, ReceivedIsTellable, ProcessAnswers, TellRefines
    DEF Receive, Lookup!Next
  <2>3. CASE Process(ReplyBytes(reply)).how # "answered"
    BY <1>3, <2>1, <2>3, ProcessEnds, FailRefines DEF Receive, Lookup!Next
  <2> QED
    BY <2>2, <2>3
<1>4. ASSUME NEW c \in Clients, ReceiveFails(c) PROVE Lookup!Next
  BY <1>4, FailRefines DEF ReceiveFails, Ended, Lookup!Next
<1>5. ASSUME NEW c \in Clients, TimeOut(c) PROVE Lookup!Next
  BY <1>5, FailRefines DEF TimeOut, Ended, Lookup!Next
<1>6. CASE UNCHANGED <<host, outcome>>
  BY <1>6 DEF Result, Lookup!lookupVars
<1> QED
  BY <1>1, <1>2, <1>3, <1>4, <1>5, <1>6
  DEF Next, ClientStep, Start, Serve, Stray, Deliver, clientVars, vars

(***************************************************************************)
(* Where no port is used twice, every client prints only lines that the    *)
(* server has for the name it was started for, whatever else is received:  *)
(* the id keeps other programs' answers out, and the port other clients'.  *)
(***************************************************************************)
THEOREM ClientsImplementLookup ==
    ASSUME Agreement, "reuse" \notin Environment
    PROVE  Spec => ImplementsLookup
<1>1. Init => Lookup!Init
  BY DEF Init, Lookup!Init, Lookup!Nothing, Result, Ended
<1>2. Inv /\ PortsInv /\ [Next]_vars => [Lookup!Next]_(Lookup!lookupVars)
  BY LookupStep
<1>3. Spec => []Inv
  BY InvHolds
<1>4. Spec => []PortsInv
  BY PortsHold
<1> QED
  BY <1>1, <1>2, <1>3, <1>4, PTL DEF Spec, ImplementsLookup, Lookup!Spec
==============================================================================
