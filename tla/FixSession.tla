------------------------------- MODULE FixSession -------------------------------
(***************************************************************************)
(* The connections of fixgateway/client/fix_client.py: connect(), whose    *)
(* socket is kept before the Logon is answered, close(), and calls whose   *)
(* answers come late, after a timeout, or never.  (Gateway follows what    *)
(* reports say about orders; here a message is an answer to a request.)    *)
(*                                                                         *)
(* A connection is a pair of message queues, which FixFraming implements   *)
(* over bytes; at its other end is a session thread of                     *)
(* exchange/mock_exchange.py.  It sends the reports of an order one by     *)
(* one, the ACK and one per fill, and of the same order sent again the     *)
(* same reports, with the ExecIDs of the first time.                       *)
(***************************************************************************)
EXTENDS Integers, SequencesExt

CONSTANTS
    FixClients,
    Users,          \* the clients whose users do as they like
    OrderRequests,  \* requests with a ClOrdID of their own
    ReportsOf,      \* how many reports of each the exchange keeps: 0 of one
                    \* it refuses, and of a cancel, which it answers anew
    RawRequests,    \* sent without one (send_message's default, "UNKNOWN"),
                    \* of a type the exchange does not support
    Asks,           \* the requests each client may send
    MaxConnections, \* connections opened in all (bound)
    MaxSends,       \* calls of each client (bound)
    RetryLimit      \* max_retries of each client

Logon == "Logon"

ClientRequests == OrderRequests \cup RawRequests

ASSUME RequestsAssumption ==
    /\ OrderRequests \cap RawRequests = {}
    /\ Logon \notin ClientRequests
    /\ ReportsOf \in [OrderRequests -> Nat]
    /\ Asks \in [FixClients -> SUBSET ClientRequests]

ASSUME UsersAssumption == Users \subseteq FixClients

ASSUME BoundsAssumption ==
    /\ MaxConnections \in Nat
    /\ MaxSends \in Nat
    /\ RetryLimit \in [FixClients -> Nat]

VARIABLES
    connection,     \* _socket, by number; 0 is None
    opened,         \* connections opened so far
    toExchange,     \* messages on their way, per connection
    toClient,
    peer,           \* the session thread: "none", "logon", "turn", "closed"
    reported,       \* reports it has sent of the request at its head
    served,         \* the requests a session thread has handled
    phase,          \* of a client: "idle", "connecting", "calling"
    asked,          \* the request it waits for the answer to
    repeats,        \* how often it has sent it again
    kept,           \* _pending_messages
    known,          \* _processed_exec_ids
    ended,          \* how its last operation ended
    given,          \* how often its callers were given each report
    unread,         \* connections on which answers may be left behind: a
                    \* wait timed out, or more was asked for than is read
    sends           \* calls of each client so far

peerVars == <<opened, toExchange, toClient, peer, reported, served>>

sessionVars == <<connection, peerVars, phase, asked, repeats, kept, known, ended,
                 given, unread, sends>>

Numbers == 1 .. MaxConnections

(* The part of a message tells the reports of an order apart, which have   *)
(* an ExecID each; it is 0 in any other message.                           *)
Reply == [kind : {"logon", "report", "reject"}, about : ClientRequests \cup {Logon},
          part : Nat, over : Numbers]

NoReply == [kind |-> "none", about |-> Logon, part |-> 0, over |-> 0]

ExecIds == UNION {{r} \X (1 .. ReportsOf[r]) : r \in OrderRequests}

ExecId(reply) == <<reply.about, reply.part>>

ReportCount(r) == IF r \in OrderRequests THEN ReportsOf[r] ELSE 0

Ending == [how : {"none", "connected", "closed", "returned", "sent", "raised"},
           got : Reply \cup {NoReply}]

End(how, got) == [how |-> how, got |-> got]

SessionInit ==
    /\ connection = [c \in FixClients |-> 0]
    /\ opened = 0
    /\ toExchange = [n \in Numbers |-> <<>>]
    /\ toClient = [n \in Numbers |-> <<>>]
    /\ peer = [n \in Numbers |-> "none"]
    /\ reported = [n \in Numbers |-> 0]
    /\ served = {}
    /\ phase = [c \in FixClients |-> "idle"]
    /\ asked = [c \in FixClients |-> Logon]
    /\ repeats = [c \in FixClients |-> 0]
    /\ kept = [c \in FixClients |-> <<>>]
    /\ known = [c \in FixClients |-> {}]
    /\ ended = [c \in FixClients |-> End("none", NoReply)]
    /\ given = [c \in FixClients |-> [id \in ExecIds |-> 0]]
    /\ unread = {}
    /\ sends = [c \in FixClients |-> 0]

Open(c) == connection[c] # 0

At(c, where) == phase[c] = where

(* An operation is over.                                                   *)
Ends(c, how, got) ==
    /\ phase' = [phase EXCEPT ![c] = "idle"]
    /\ ended' = [ended EXCEPT ![c] = End(how, got)]
    /\ given' = IF got.part > 0 THEN [given EXCEPT ![c][ExecId(got)] = @ + 1] ELSE given

(* An operation waits.                                                     *)
Begins(c, where) ==
    /\ phase' = [phase EXCEPT ![c] = where]
    /\ ended' = [ended EXCEPT ![c] = End("none", NoReply)]
    /\ UNCHANGED given

Transmit(n, message) == toExchange' = [toExchange EXCEPT ![n] = Append(@, message)]

Incoming(c) == toClient[connection[c]]

Silent(c) == Incoming(c) = <<>>

-------------------------------------------------------------------------------
(* connect(), up to the wait for the answer.  Of a client that has a       *)
(* socket it raises RuntimeError at once.                                  *)
Connect(c) ==
    /\ At(c, "idle")
    /\ ~Open(c)
    /\ opened < MaxConnections
    /\ opened' = opened + 1
    /\ connection' = [connection EXCEPT ![c] = opened + 1]
    /\ peer' = [peer EXCEPT ![opened + 1] = "logon"]
    /\ Transmit(opened + 1, Logon)
    /\ Begins(c, "connecting")
    /\ asked' = [asked EXCEPT ![c] = Logon]
    /\ UNCHANGED <<toClient, reported, served, repeats, kept, known, unread, sends>>

(* The first message on the connection, which closes it unless it is the   *)
(* answer to the Logon.                                                    *)
LogonAnswered(c) ==
    /\ At(c, "connecting")
    /\ ~Silent(c)
    /\ toClient' = [toClient EXCEPT ![connection[c]] = Tail(@)]
    /\ IF Head(Incoming(c)).kind = "logon"
       THEN /\ Ends(c, "connected", Head(Incoming(c)))
            /\ UNCHANGED connection
       ELSE /\ Ends(c, "raised", NoReply)
            /\ connection' = [connection EXCEPT ![c] = 0]
    /\ UNCHANGED <<opened, toExchange, peer, reported, served, asked, repeats, kept,
                   known, unread, sends>>

(* A timeout in connect(): it raises, and the socket stays.                *)
LogonTimesOut(c) ==
    /\ At(c, "connecting")
    /\ Ends(c, "raised", NoReply)
    /\ unread' = unread \cup {connection[c]}
    /\ UNCHANGED <<connection, peerVars, asked, repeats, kept, known, sends>>

(* Mutant: the messages kept stay behind.                                  *)
CloseKeeping(c) ==
    /\ At(c, "idle")
    /\ Open(c)
    /\ connection' = [connection EXCEPT ![c] = 0]
    /\ Ends(c, "closed", NoReply)
    /\ UNCHANGED <<peerVars, asked, repeats, kept, known, unread, sends>>

(* Mutant: the ExecIDs processed are forgotten with the connection.        *)
CloseForgetting(c) ==
    /\ At(c, "idle")
    /\ Open(c)
    /\ connection' = [connection EXCEPT ![c] = 0]
    /\ kept' = [kept EXCEPT ![c] = <<>>]
    /\ known' = [known EXCEPT ![c] = {}]
    /\ Ends(c, "closed", NoReply)
    /\ UNCHANGED <<peerVars, asked, repeats, unread, sends>>

(* close(), also of a connection that was never logged on.                 *)
CloseConnection(c) ==
    /\ At(c, "idle")
    /\ Open(c)
    /\ connection' = [connection EXCEPT ![c] = 0]
    /\ kept' = [kept EXCEPT ![c] = <<>>]
    /\ Ends(c, "closed", NoReply)
    /\ UNCHANGED <<peerVars, asked, repeats, known, unread, sends>>

-------------------------------------------------------------------------------
(* Mutant: any report is taken for the answer.                             *)
MatchesAnyReport(reply, r) == r \in RawRequests \/ reply.kind # "logon"

(* What _receive_matching takes for the answer to a request: anything, if  *)
(* the request has no ClOrdID; else a report with its ClOrdID, or a        *)
(* session-level reject, which has none.                                   *)
Matches(reply, r) ==
    \/ r \in RawRequests
    \/ reply.kind = "report" /\ reply.about = r
    \/ reply.kind = "reject"

(* The place of the answer among the messages kept: searched by ClOrdID    *)
(* only.                                                                   *)
KeptAnswer(c, r) ==
    SelectInSeq(kept[c], LAMBDA reply : reply.kind = "report" /\ reply.about = r)

(* sendall, and the messages kept before the wait starts.                  *)
SendAndLook(c, r, n) ==
    /\ Transmit(connection[c], r)
    /\ repeats' = [repeats EXCEPT ![c] = n]
    /\ IF KeptAnswer(c, r) > 0
       THEN /\ Ends(c, "returned", kept[c][KeptAnswer(c, r)])
            /\ kept' = [kept EXCEPT ![c] = RemoveAt(@, KeptAnswer(c, r))]
       ELSE /\ Begins(c, "calling")
            /\ UNCHANGED kept

(* send_message(), possibly over a connection whose Logon timed out.       *)
SendRequest(c, r) ==
    /\ At(c, "idle")
    /\ Open(c)
    /\ sends[c] < MaxSends
    /\ sends' = [sends EXCEPT ![c] = @ + 1]
    /\ asked' = [asked EXCEPT ![c] = r]
    /\ SendAndLook(c, r, 0)
    /\ unread' = IF ReportCount(r) > 1 THEN unread \cup {connection[c]} ELSE unread
    /\ UNCHANGED <<connection, opened, toClient, peer, reported, served, known>>

(* send_new_order_nowait(): nobody waits for the reports of the order.     *)
SendNoWait(c, r) ==
    /\ At(c, "idle")
    /\ Open(c)
    /\ sends[c] < MaxSends
    /\ sends' = [sends EXCEPT ![c] = @ + 1]
    /\ asked' = [asked EXCEPT ![c] = Logon]
    /\ Transmit(connection[c], r)
    /\ Ends(c, "sent", NoReply)
    /\ unread' = unread \cup {connection[c]}
    /\ UNCHANGED <<connection, opened, toClient, peer, reported, served, repeats, kept,
                   known>>

(* A report processed before is skipped; a report is marked as processed.  *)
Skips(c, reply) == reply.part > 0 /\ ExecId(reply) \in known[c]

Noted(c, reply) ==
    known' = [known EXCEPT ![c] = IF reply.part > 0 THEN @ \cup {ExecId(reply)} ELSE @]

(* The next message during a call.                                         *)
ReadReply(c) ==
    /\ At(c, "calling")
    /\ ~Silent(c)
    /\ toClient' = [toClient EXCEPT ![connection[c]] = Tail(@)]
    /\ LET reply == Head(Incoming(c)) IN
       \/ /\ Skips(c, reply)
          /\ UNCHANGED <<phase, ended, given, kept, known>>
       \/ /\ ~Skips(c, reply)
          /\ Matches(reply, asked[c])
          /\ Noted(c, reply)
          /\ Ends(c, "returned", reply)
          /\ UNCHANGED kept
       \/ /\ ~Skips(c, reply)
          /\ ~Matches(reply, asked[c])
          /\ Noted(c, reply)
          /\ kept' = [kept EXCEPT ![c] = Append(@, reply)]
          /\ UNCHANGED <<phase, ended, given>>
    /\ UNCHANGED <<connection, opened, toExchange, peer, reported, served, asked,
                   repeats, unread, sends>>

(* receive_message() outside of a call: a message kept, or the next one.   *)
TakeMessage(c) ==
    /\ At(c, "idle")
    /\ Open(c)
    /\ asked' = [asked EXCEPT ![c] = Logon]
    /\ \/ /\ kept[c] # <<>>
          /\ kept' = [kept EXCEPT ![c] = Tail(@)]
          /\ Ends(c, "returned", Head(kept[c]))
          /\ UNCHANGED <<toClient, known>>
       \/ /\ kept[c] = <<>>
          /\ ~Silent(c)
          /\ toClient' = [toClient EXCEPT ![connection[c]] = Tail(@)]
          /\ Noted(c, Head(Incoming(c)))
          /\ IF Skips(c, Head(Incoming(c)))
             THEN UNCHANGED <<phase, ended, given>>
             ELSE Ends(c, "returned", Head(Incoming(c)))
          /\ UNCHANGED kept
    /\ UNCHANGED <<connection, opened, toExchange, peer, reported, served, repeats,
                   unread, sends>>

(* The answer does not come in time: the request is sent again, or the     *)
(* call raises FixRetriesExhaustedError.                                   *)
CallTimesOut(c) ==
    /\ At(c, "calling")
    /\ unread' = unread \cup {connection[c]}
    /\ \/ /\ repeats[c] < RetryLimit[c]
          /\ SendAndLook(c, asked[c], repeats[c] + 1)
       \/ /\ repeats[c] = RetryLimit[c]
          /\ Ends(c, "raised", NoReply)
          /\ UNCHANGED <<toExchange, repeats, kept>>
    /\ UNCHANGED <<connection, opened, toClient, peer, reported, served, asked, known,
                   sends>>

(* The exchange has closed: FixConnectionClosedError, or an OSError from   *)
(* sendall.  The socket stays.                                             *)
FindsClosed(c) ==
    /\ phase[c] \in {"connecting", "calling"}
    /\ peer[connection[c]] = "closed"
    /\ Silent(c)
    /\ Ends(c, "raised", NoReply)
    /\ UNCHANGED <<connection, peerVars, asked, repeats, kept, known, unread, sends>>

-------------------------------------------------------------------------------
Answers(n, kind, request, part) ==
    toClient' = [toClient EXCEPT ![n] =
        Append(@, [kind |-> kind, about |-> request, part |-> part, over |-> n])]

(* The session thread's first message.                                     *)
TakeLogon(n) ==
    /\ peer[n] = "logon"
    /\ toExchange[n] # <<>>
    /\ toExchange' = [toExchange EXCEPT ![n] = Tail(@)]
    /\ Answers(n, "logon", Logon, 0)
    /\ peer' = [peer EXCEPT ![n] = "turn"]
    /\ UNCHANGED <<connection, opened, reported, served, phase, asked, repeats, kept,
                   known, ended, given, unread, sends>>

(* The next report of the request at the head, which chaos may drop; a     *)
(* request it does not support gets a session reject.                      *)
Serve(n) ==
    /\ peer[n] = "turn"
    /\ toExchange[n] # <<>>
    /\ LET r == Head(toExchange[n])
           part == IF ReportCount(r) = 0 THEN 0 ELSE reported[n] + 1
       IN  /\ served' = served \cup {r}
           /\ \/ r \in OrderRequests /\ Answers(n, "report", r, part)
              \/ r \in OrderRequests /\ UNCHANGED toClient
              \/ r \notin OrderRequests /\ Answers(n, "reject", r, part)
           /\ \/ /\ part < ReportCount(r)
                 /\ reported' = [reported EXCEPT ![n] = part]
                 /\ UNCHANGED toExchange
              \/ /\ part = ReportCount(r)
                 /\ reported' = [reported EXCEPT ![n] = 0]
                 /\ toExchange' = [toExchange EXCEPT ![n] = Tail(@)]
    /\ UNCHANGED <<connection, opened, peer, phase, asked, repeats, kept, known, ended,
                   given, unread, sends>>

(* The session ends: the Logon did not come within 0.2 s, the client has   *)
(* gone, or the exchange is stopped.                                       *)
PeerCloses(n) ==
    /\ peer[n] \in {"logon", "turn"}
    /\ peer' = [peer EXCEPT ![n] = "closed"]
    /\ UNCHANGED <<connection, opened, toExchange, toClient, reported, served, phase,
                   asked, repeats, kept, known, ended, given, unread, sends>>

PeerStep == \E n \in Numbers : TakeLogon(n) \/ Serve(n) \/ PeerCloses(n)

Waits(c) ==
    \/ LogonAnswered(c) \/ LogonTimesOut(c)
    \/ ReadReply(c) \/ CallTimesOut(c) \/ FindsClosed(c)

UserStep(c) ==
    \/ Connect(c)
    \/ CloseConnection(c)
    \/ \E r \in Asks[c] : SendRequest(c, r)
    \/ \E r \in Asks[c] \cap OrderRequests : SendNoWait(c, r)
    \/ TakeMessage(c)

SessionNext == PeerStep \/ \E c \in Users : UserStep(c) \/ Waits(c)

SessionSpec == SessionInit /\ [][SessionNext]_sessionVars

-------------------------------------------------------------------------------
SessionTypeOK ==
    /\ connection \in [FixClients -> Numbers \cup {0}]
    /\ opened \in 0 .. MaxConnections
    /\ toExchange \in [Numbers -> Seq(ClientRequests \cup {Logon})]
    /\ toClient \in [Numbers -> Seq(Reply)]
    /\ peer \in [Numbers -> {"none", "logon", "turn", "closed"}]
    /\ reported \in [Numbers -> Nat]
    /\ served \in SUBSET ClientRequests
    /\ phase \in [FixClients -> {"idle", "connecting", "calling"}]
    /\ asked \in [FixClients -> ClientRequests \cup {Logon}]
    /\ repeats \in [FixClients -> Nat]
    /\ \A c \in FixClients : repeats[c] <= RetryLimit[c]
    /\ kept \in [FixClients -> Seq(Reply)]
    /\ known \in [FixClients -> SUBSET ExecIds]
    /\ ended \in [FixClients -> Ending]
    /\ given \in [FixClients -> [ExecIds -> Nat]]
    /\ unread \subseteq Numbers
    /\ sends \in [FixClients -> 0 .. MaxSends]

(* Nothing crosses from one connection to another: what a client keeps for *)
(* later, or was just given, came over the connection it has open, however *)
(* many it has had and however they ended; without one it keeps nothing.   *)
NothingFromBefore ==
    \A c \in FixClients :
        /\ \A i \in DOMAIN kept[c] : kept[c][i].over = connection[c]
        /\ ended[c].how \in {"connected", "returned"} => ended[c].got.over = connection[c]

(* A connection carries one Logon, first of all: a client that carries on  *)
(* after a Logon that timed out cannot have the exchange see an order      *)
(* before the Logon, or a second Logon.                                    *)
LogonComesFirst ==
    \A n \in Numbers :
        /\ peer[n] = "logon" =>
              /\ toExchange[n] # <<>>
              /\ Head(toExchange[n]) = Logon
        /\ \A i \in DOMAIN toExchange[n] :
              toExchange[n][i] = Logon => i = 1 /\ peer[n] \in {"logon", "closed"}

(* Connections do not run into each other, on either side.                 *)
ConnectionsKeptApart == NothingFromBefore /\ LogonComesFirst

(* A call is given the answer to its own request, however many orders and  *)
(* calls without a ClOrdID share the connection, unless something may be   *)
(* left unread on it: a wait has timed out, an order has more reports than *)
(* the one its call returns, or was sent without waiting.  Then a call     *)
(* without a ClOrdID may be given what is left of another request, and one *)
(* with a ClOrdID the session-level reject of another, which names none;   *)
(* never the report of another order.                                      *)
AnswersBelong ==
    \A c \in FixClients :
        ended[c].how = "returned" /\ asked[c] # Logon =>
            \/ ended[c].got.about = asked[c]
            \/ /\ connection[c] \in unread
               /\ ended[c].got.kind = "report" => asked[c] \in RawRequests

(* No report is given out twice in the life of a client, whether it comes  *)
(* again because its order was sent again, over this connection or one     *)
(* opened later, or waits among the messages kept.                         *)
GivenOnce ==
    \A c \in FixClients, id \in ExecIds : given[c][id] <= 1

===============================================================================
